------------------------------- MODULE Server -------------------------------
(***************************************************************************)
(* Server::serve of src/src/server.rs: the accept loop, the tasks it       *)
(* spawns for the connections, and the handlers that HyperService and Lazy *)
(* run inside these tasks, on the threads of the runtime.                  *)
(*                                                                         *)
(* A handler is a blocking function.  Lazy::poll calls it, so that as long *)
(* as it runs, or waits in Body::next for a chunk of the request's body,   *)
(* the thread that polls the task is taken; and it is this very task that  *)
(* reads the body from the connection.                                     *)
(*                                                                         *)
(* Not in src/, and modelled from how it is used: the clients, which send  *)
(* a request when the one before it is answered; tokio, which polls a      *)
(* woken task on any thread that is free; and hyper's HTTP/1 connection,   *)
(* which reads the head of a request, reads on into the body's channel of  *)
(* one chunk, and only then polls the handler's future.                    *)
(* Of the reactor this module takes what it promises, a wake-up for every  *)
(* arrival of data and for the end of it.                                  *)
(***************************************************************************)
EXTENDS Naturals, FiniteSets

CONSTANTS Thread,      \* the threads of the runtime
          Conn,        \* the connections clients make
          MaxPieces,   \* in how many pieces the body of a request may be sent
          MaxRequests  \* how many requests the clients may send together

ASSUME ServerAssumption ==
  /\ IsFiniteSet(Thread)
  /\ MaxPieces \in Nat
  /\ MaxRequests \in Nat
  /\ {"idle", "serve"} \cap Conn = {}

VARIABLES serving,  \* does the accept loop run?
          on,       \* the connection whose task each thread polls, or "idle", or "serve"
          woken,    \* the connections whose tasks are to be polled ...
          slot,     \* ... and the one among them that only the thread of serve may poll
          pc,       \* where each connection is
          gone,     \* the connections that their clients have closed
          asked,    \* how many requests have been sent
          pieces,   \* in how many pieces the body of the current request is sent
          sent,     \* what has been sent of it: the head, then pieces
          read,     \* how much of it the task has read
          chan,     \* how many pieces there are in the channel of the body
          got,      \* how many pieces the handler got out of it
          cut       \* the connections whose end was read in the middle of a body

runVars     == <<serving, on, woken, slot>>
requestVars == <<gone, asked, pieces, sent>>
bodyVars    == <<read, chan, got, cut>>
vars        == <<runVars, pc, requestVars, bodyVars>>

\* "none"     the client has not connected
\* "backlog"  it has, but serve has not accepted the connection
\* "parked"   there is a task, and no thread polls it
\* "head"     polled: about to read the head of a request
\* "body"     polled: about to read a first chunk of its body
\* "handler"  polled: in the handler
\* "blocked"  polled: in the handler, and there in Body::next
\* "closed"   the connection is over
Polled == {"head", "body", "handler", "blocked"}
State  == {"none", "backlog", "parked", "closed"} \cup Polled

\* serve runs on the thread that called block_on, or on one of the runtime's if
\* it was spawned or the runtime has no other.  It never leaves that thread:
\* accept blocks, and there is no await between two calls of it.
Init == /\ serving = TRUE
        /\ on \in {[t \in Thread |-> "idle"]} \cup
                  {[t \in Thread |-> IF t = s THEN "serve" ELSE "idle"] : s \in Thread}
        /\ woken = {} /\ slot = {} /\ gone = {} /\ cut = {}
        /\ pc = [c \in Conn |-> "none"]
        /\ asked = 0 /\ pieces = [c \in Conn |-> 0]
        /\ sent = [c \in Conn |-> 0] /\ read = [c \in Conn |-> 0]
        /\ chan = [c \in Conn |-> 0] /\ got = [c \in Conn |-> 0]

HasTask(c)     == pc[c] \in {"parked"} \cup Polled
Goto(c, state) == pc' = [pc EXCEPT ![c] = state]
Complete(c)    == sent[c] = pieces[c] + 1

-----------------------------------------------------------------------------
(* The clients. *)

Connect(c) == /\ pc[c] = "none"
              /\ serving
              /\ Goto(c, "backlog")
              /\ UNCHANGED <<runVars, requestVars, bodyVars>>

\* Something arrives: the reactor wakes the task up.
Arrive(c) == /\ pc[c] = "backlog" \/ HasTask(c)
             /\ c \notin gone
             /\ woken' = IF HasTask(c) THEN woken \cup {c} ELSE woken
             /\ UNCHANGED <<serving, on, slot, pc, bodyVars>>

SendHead(c) == /\ sent[c] = 0
               /\ asked < MaxRequests
               /\ \E n \in 0..MaxPieces : pieces' = [pieces EXCEPT ![c] = n]
               /\ sent' = [sent EXCEPT ![c] = 1]
               /\ asked' = asked + 1
               /\ UNCHANGED gone
               /\ Arrive(c)

SendPiece(c) == /\ sent[c] \in 1..pieces[c]
                /\ sent' = [sent EXCEPT ![c] = @ + 1]
                /\ UNCHANGED <<gone, asked, pieces>>
                /\ Arrive(c)

\* The client closes the connection, in the middle of a request or not.
Close(c) == /\ gone' = gone \cup {c}
            /\ UNCHANGED <<asked, pieces, sent>>
            /\ Arrive(c)

-----------------------------------------------------------------------------
(* Server::serve. *)

\* accept returns and the stream is registered.
Accepted(c) == /\ serving
               /\ pc[c] = "backlog"
               /\ Goto(c, "parked")
               /\ UNCHANGED <<serving, on, requestVars, bodyVars>>

\* Accept with a bug: the future of the connection is made, but not spawned.
AcceptUnspawned(c) == Accepted(c) /\ UNCHANGED <<woken, slot>>

\* Its task is spawned.  On a thread of the runtime it may be kept for this very
\* thread to poll next, until the task of the next connection takes its place.
Accept(c) == /\ Accepted(c)
             /\ woken' = woken \cup {c}
             /\ slot' \in IF \E t \in Thread : on[t] = "serve" THEN {{}, {c}} ELSE {{}}

\* accept fails, or register does: serve returns, and closes the listener.
ServeFails ==
  /\ serving
  /\ serving' = FALSE
  /\ on' = [t \in Thread |-> IF on[t] = "serve" THEN "idle" ELSE on[t]]
  /\ slot' = {}
  /\ pc' = [c \in Conn |-> IF pc[c] = "backlog" THEN "closed" ELSE pc[c]]
  /\ UNCHANGED <<woken, requestVars, bodyVars>>

-----------------------------------------------------------------------------
(* The poll of the task of connection c, on thread t. *)

Poll(t, c) == /\ on[t] = "idle"
              /\ c \in woken \ slot
              /\ pc[c] = "parked"
              /\ on' = [on EXCEPT ![t] = c]
              /\ woken' = woken \ {c}
              /\ Goto(c, "head")
              /\ UNCHANGED <<serving, slot, requestVars, bodyVars>>

Leave(t, c, state) == /\ on[t] = c
                      /\ on' = [on EXCEPT ![t] = "idle"]
                      /\ Goto(c, state)
                      /\ UNCHANGED <<serving, slot, requestVars, bodyVars>>

\* No request so far: Pending.
NoHead(t, c) == /\ pc[c] = "head"
                /\ sent[c] = 0 /\ c \notin gone
                /\ Leave(t, c, "parked")
                /\ UNCHANGED woken

\* End with a bug: the thread stays with the connection.
EndKeepsThread(t, c) == /\ on[t] = c
                        /\ pc[c] = "handler"
                        /\ Goto(c, "closed")
                        /\ UNCHANGED <<runVars, requestVars, bodyVars>>

\* The connection is over, and its task with it: the client has left before the next
\* request, or the response to this one is the last, or the handler has panicked
\* and the runtime caught the panic.
End(t, c) == /\ \/ pc[c] = "head" /\ sent[c] = 0 /\ c \in gone
                \/ pc[c] = "handler"
             /\ Leave(t, c, "closed")
             /\ woken' = woken \ {c}

\* What a poll does without leaving the connection.
Stay(t, c, state, next) == /\ on[t] = c
                           /\ pc[c] = state
                           /\ Goto(c, next)
                           /\ UNCHANGED runVars

\* The head is read, and what of the body came along in the same buffer is a
\* first chunk.  hyper calls HyperService::call, which only makes a Lazy.
ReadHead(t, c) ==
  /\ Stay(t, c, "head", "body")
  /\ sent[c] > 0
  /\ \E k \in 0..(sent[c] - 1) :
       /\ read' = [read EXCEPT ![c] = 1 + k]
       /\ chan' = [chan EXCEPT ![c] = k]
  /\ UNCHANGED <<requestVars, got, cut>>

\* If no chunk came along, one is read now, if there is one, or the end of the
\* connection.  More has to wait until the chunk is taken out of the channel.
\* Then Lazy::poll calls the handler.
ReadBody(t, c) ==
  /\ Stay(t, c, "body", "handler")
  /\ IF chan[c] = 0 /\ sent[c] > read[c]
     THEN \E k \in 1..(sent[c] - read[c]) :
            /\ read' = [read EXCEPT ![c] = @ + k]
            /\ chan' = [chan EXCEPT ![c] = k]
     ELSE UNCHANGED <<read, chan>>
  /\ cut' = IF chan[c] = 0 /\ sent[c] = read[c] /\ ~Complete(c) /\ c \in gone
            THEN cut \cup {c} ELSE cut
  /\ UNCHANGED <<requestVars, got>>

\* The handler calls Body::next, and there is a chunk in the channel, of which rest
\* is left there.
Take(t, c, rest) ==
  /\ Stay(t, c, "handler", "handler")
  /\ chan[c] > 0
  /\ got' = [got EXCEPT ![c] = @ + chan[c]]
  /\ chan' = [chan EXCEPT ![c] = rest]
  /\ UNCHANGED <<requestVars, read, cut>>

\* NextChunk with a bug: the chunk stays in the channel.
NextChunkKept(t, c) == Take(t, c, chan[c])

NextChunk(t, c) == Take(t, c, 0)

\* It calls Body::next, and the channel is empty.
Wait(t, c) == /\ Stay(t, c, "handler", "blocked")
              /\ chan[c] = 0
              /\ UNCHANGED <<requestVars, bodyVars>>

\* WaitForChunk with a bug: the end of the body is not noticed.
WaitAtEnd(t, c) == Wait(t, c)

\* The channel is not closed either: the Parker puts the thread to sleep.  What
\* would wake it up is ReadBody, on the same thread.
WaitForChunk(t, c) == Wait(t, c) /\ read[c] <= pieces[c] /\ c \notin cut

\* The handler returns a response, whatever it has read of the body, and hyper goes
\* on to the next request.
Respond(t, c) ==
  /\ Stay(t, c, "handler", "head")
  /\ Complete(c)
  /\ sent' = [sent EXCEPT ![c] = 0] /\ read' = [read EXCEPT ![c] = 0]
  /\ chan' = [chan EXCEPT ![c] = 0] /\ got' = [got EXCEPT ![c] = 0]
  /\ UNCHANGED <<gone, asked, pieces, cut>>

PollStep(t, c) ==
  \/ Poll(t, c) \/ NoHead(t, c) \/ End(t, c) \/ ReadHead(t, c) \/ ReadBody(t, c)
  \/ NextChunk(t, c) \/ WaitForChunk(t, c) \/ Respond(t, c)

ThreadStep(t) == \E c \in Conn : PollStep(t, c)

ClientStep(c) == Connect(c) \/ SendHead(c) \/ SendPiece(c) \/ Close(c)

Next == \/ \E c \in Conn : ClientStep(c) \/ Accept(c)
        \/ ServeFails
        \/ \E t \in Thread : ThreadStep(t)

Spec == Init /\ [][Next]_vars

\* The runtime's threads run, and so does the accept loop.  Clients owe nothing,
\* and a handler may read its body or not.
FairSpec == /\ Spec
            /\ WF_vars(\E c \in Conn : Accept(c))
            /\ \A t \in Thread : WF_vars(ThreadStep(t))

-----------------------------------------------------------------------------
(* Properties. *)

TypeOK ==
  /\ serving \in BOOLEAN
  /\ on \in [Thread -> Conn \cup {"idle", "serve"}]
  /\ woken \subseteq Conn /\ slot \subseteq woken /\ gone \subseteq Conn /\ cut \subseteq gone
  /\ pc \in [Conn -> State]
  /\ asked \in 0..MaxRequests
  /\ pieces \in [Conn -> 0..MaxPieces]
  /\ sent \in [Conn -> 0..(MaxPieces + 1)] /\ read \in [Conn -> 0..(MaxPieces + 1)]
  /\ chan \in [Conn -> 0..MaxPieces] /\ got \in [Conn -> 0..MaxPieces]

\* A connection is polled by exactly one thread, and a thread that polls one is
\* given back whichever way the handler ends (server.rs:214-222, 561-567).
ThreadsAccounted ==
  /\ \A t \in Thread : on[t] \in Conn => pc[on[t]] \in Polled
  /\ \A c \in Conn : pc[c] \in Polled => \E t \in Thread : on[t] = c
  /\ \A s, t \in Thread : on[s] = on[t] /\ on[s] \in Conn => s = t

\* Every piece that was read is in the channel or with the handler, and no more
\* is read than was sent (http.rs:170, server.rs:562-563).
PiecesAccounted ==
  \A c \in Conn : /\ read[c] <= sent[c] /\ sent[c] <= pieces[c] + 1
                  /\ read[c] > 0 => got[c] + chan[c] = read[c] - 1
                  /\ read[c] = 0 => got[c] = 0 /\ chan[c] = 0

\* A handler that blocks has pieces to wait for: one whose body was read when it
\* was called never does (http.rs:169-172).
BlockedOnlyShort == \A c \in Conn : pc[c] = "blocked" => got[c] < pieces[c]

\* The current request is done with, if only because the connection is over.
Over(c) == ~Complete(c) \/ pc[c] = "closed"

\* Threads that nothing will free.
Held(t) == on[t] = "serve" \/ \E c \in Conn : on[t] = c /\ pc[c] = "blocked"

\* What a task waits for that has something to do: its own handler waits for the body,
\* or serve keeps it from the other threads, or every thread is taken by the accept
\* loop and by handlers that wait.
Stuck(c) == pc[c] = "blocked" \/ c \in slot \/ \A t \in Thread : Held(t)

\* A request that was sent completely gets its answer, on however many threads and
\* whichever of the connection's it is, unless its task is stuck (server.rs:205,
\* 214-222, 561-567).
AnsweredUnlessHeld ==
  \A c \in Conn : (HasTask(c) /\ Complete(c)) ~> (Over(c) \/ Stuck(c))

\* The connection of a client that has left ends, wherever in a request that was
\* (server.rs:214-222, http.rs:169-172).
LeaversAreLetGo ==
  \A c \in Conn : (HasTask(c) /\ c \in gone) ~> (pc[c] = "closed" \/ Stuck(c))

\* "Reading a request body" (http.rs:80): a handler may do so, and the client gets
\* its answer, as long as the accept loop leaves it a thread.
BodiesAreRead ==
  \A c \in Conn : (HasTask(c) /\ Complete(c)) ~> (Over(c) \/ \E t \in Thread : on[t] = "serve")
=============================================================================
