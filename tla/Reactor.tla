------------------------------ MODULE Reactor -------------------------------
(***************************************************************************)
(* The reactor of src/src/net.rs: registration of a stream, the event loop *)
(* thread, poll_io as the tasks call it, and the drop of a stream.         *)
(*                                                                         *)
(* Three kinds of threads meet here.  The accept loop of the server        *)
(* registers streams; the reactor thread waits for events and wakes tasks; *)
(* the task of each connection polls its stream, in both directions.  They *)
(* share the map `sources`, behind a mutex, and in each source the wakers  *)
(* (`interest`, behind a mutex of its own) and the flags `triggered`,      *)
(* atomics that are read and written without a lock.  An action is one     *)
(* such access or one critical section.                                    *)
(*                                                                         *)
(* Not in src/, and modelled from how it is used: the sockets; epoll as    *)
(* mio sets it up (edge-triggered, an event tells all that the socket is   *)
(* ready for when it is reported); the task of a connection, which is      *)
(* hyper's, and the runtime that polls it, which is tokio's.               *)
(***************************************************************************)
EXTENDS Naturals, FiniteSets

CONSTANTS Conn,           \* the streams the server accepts
          Messages,       \* how many messages each client sends; each is answered by one
          SendRoom,       \* how many answers fit into the send buffer of a socket
          EventCapacity,  \* Events::with_capacity
          EarlyData,      \* may a client send before its stream is registered?
          Endings         \* how a client may end the connection: "closed", "reset"

ASSUME ReactorAssumption ==
  /\ IsFiniteSet(Conn)
  /\ Messages \in Nat
  /\ SendRoom \in Nat \ {0}
  /\ EventCapacity \in Nat \ {0}
  /\ EarlyData \in BOOLEAN
  /\ Endings \subseteq {"closed", "reset"}

READ  == "read"
WRITE == "write"
Dir   == {READ, WRITE}

VARIABLES
  unsent,     \* how many messages each client has still to send
  end,        \* what each client has done with its side: "open", "closed" or "reset"
  inbound,    \* how many messages are in the receive buffer of each socket
  room,       \* how many answers the send buffer of each socket has room for
  edge,       \* the sockets that epoll has something to report about
  nextToken,  \* Shared::token
  sources,    \* Shared::sources, as the stream that each token in the map stands for
  token,      \* Source::token
  interest,   \* Source::interest: the <<stream, direction>> whose slot holds a waker
  triggered,  \* Source::triggered: the <<stream, direction>> whose flag is set
  lost,       \* the <<stream, direction>> whose latest readiness was thrown away (history)
  rpc,        \* where the reactor thread is: "poll", "events", "apply" or "wake"
  batch,      \* the events it has still to look at
  current,    \* the <<stream, direction>> of the event it is applying
  wakers,     \* the tasks whose waker it has taken and not yet called
  phase,      \* of each stream: "accepted", "registered", "live" or "dropped"
  pc,         \* of each task: in poll_io, "run" between two calls of it, "parked", or
              \* "over" and "shut" when it is done with its stream
  dir,        \* the direction of the call it is in
  pending,    \* the <<stream, direction>> that were pending in the latest poll of the task ...
  unarmed,    \* ... and those among them that were so because of WouldBlock
  flushed,    \* the tasks that have written and flushed all there is, in this poll
  owed,       \* how many answers each task has still to write
  woken       \* the tasks the runtime is to poll

clientVars == <<unsent, end>>
bufferVars == <<inbound, room, owed>>
mapVars    == <<nextToken, sources, token>>
sourceVars == <<interest, triggered, lost>>
loopVars   == <<rpc, batch, current, wakers>>
resultVars == <<pending, unarmed, flushed>>
taskVars   == <<pc, dir, resultVars>>
vars == <<clientVars, bufferVars, edge, mapVars, sourceVars, loopVars, taskVars, phase, woken>>

Init ==
  /\ unsent = [c \in Conn |-> Messages] /\ end = [c \in Conn |-> "open"]
  /\ inbound = [c \in Conn |-> 0] /\ room = [c \in Conn |-> SendRoom] /\ edge = {}
  /\ nextToken = 0 /\ sources = <<>> /\ token = [c \in Conn |-> 0]
  /\ interest = {} /\ triggered = {} /\ lost = {}
  /\ rpc = "poll"  /\ batch = {} /\ current = {} /\ wakers = {}
  /\ phase = [c \in Conn |-> "accepted"]
  /\ pc = [c \in Conn |-> "parked"] /\ dir = [c \in Conn |-> "none"]
  /\ pending = {} /\ unarmed = {} /\ flushed = {}
  /\ owed = [c \in Conn |-> 0] /\ woken = {}

Of(c) == {c} \X Dir
Known == {c \in Conn : phase[c] \in {"registered", "live"}}

CanRead(c)   == inbound[c] > 0 \/ end[c] # "open"
CanWrite(c)  == room[c] > 0 \/ end[c] = "reset"
Readiness(c) == {d \in Dir : IF d = READ THEN CanRead(c) ELSE CanWrite(c)}

-----------------------------------------------------------------------------
(* What clients do, and what becomes of the sockets by it. *)

MaySend(c) == /\ end[c] = "open"
              /\ phase[c] = "live" \/ (EarlyData /\ phase[c] # "dropped")

ClientSends(c) ==
  /\ MaySend(c)
  /\ unsent[c] > 0
  /\ unsent' = [unsent EXCEPT ![c] = @ - 1]
  /\ inbound' = [inbound EXCEPT ![c] = @ + 1]
  /\ edge' = edge \cup ({c} \cap Known)
  /\ UNCHANGED <<end, room>>

\* It closes its side, or the whole connection with unread data in it.
ClientCloses(c) ==
  /\ MaySend(c)
  /\ \E how \in Endings : end' = [end EXCEPT ![c] = how]
  /\ edge' = edge \cup ({c} \cap Known)
  /\ UNCHANGED <<unsent, inbound, room>>

\* It takes an answer; room in a buffer that was full is worth an event.
ClientReceives(c) ==
  /\ phase[c] = "live" /\ end[c] # "reset"
  /\ room[c] < SendRoom
  /\ room' = [room EXCEPT ![c] = @ + 1]
  /\ edge' = IF room[c] = 0 THEN edge \cup {c} ELSE edge
  /\ UNCHANGED <<clientVars, inbound>>

ClientStep(c) ==
  /\ ClientSends(c) \/ ClientCloses(c) \/ ClientReceives(c)
  /\ UNCHANGED <<owed, mapVars, sourceVars, loopVars, taskVars, phase, woken>>

-----------------------------------------------------------------------------
(* Reactor::register, and the spawn of the task that follows it in serve. *)

\* The socket is known to epoll.  There is something to report at once: it can be
\* written to, and data may be waiting.
RegisterAs(c, k) ==
  /\ phase[c] = "accepted"
  /\ token' = [token EXCEPT ![c] = k]
  /\ edge' = edge \cup {c}
  /\ phase' = [phase EXCEPT ![c] = "registered"]
  /\ UNCHANGED <<sources, woken>>

\* RegisterSocket with a bug: tokens are the size of the map, and so used again.
RegisterWithSize(c) == RegisterAs(c, Cardinality(DOMAIN sources)) /\ UNCHANGED nextToken

\* A fresh token for the socket.
RegisterSocket(c) == RegisterAs(c, nextToken) /\ nextToken' = nextToken + 1

\* set_nonblocking fails, or registry.register and the token is spent: the stream is closed.
RegisterFails(c) ==
  /\ phase[c] = "accepted"
  /\ nextToken' \in {nextToken, nextToken + 1}
  /\ phase' = [phase EXCEPT ![c] = "dropped"]
  /\ UNCHANGED <<edge, sources, token, woken>>

\* From here on the reactor finds the source.
InsertSource(c) ==
  /\ phase[c] = "registered"
  /\ sources' = [k \in DOMAIN sources \cup {token[c]} |->
                   IF k = token[c] THEN c ELSE sources[k]]
  /\ phase' = [phase EXCEPT ![c] = "live"]
  /\ woken' = woken \cup {c}
  /\ UNCHANGED <<edge, nextToken, token>>

Register(c) ==
  /\ RegisterSocket(c) \/ RegisterFails(c) \/ InsertSource(c)
  /\ UNCHANGED <<clientVars, bufferVars, sourceVars, loopVars, taskVars>>

-----------------------------------------------------------------------------
(* Shared::run and Shared::poll, on the reactor thread. *)

\* poll.poll returns with as many events as there are or as `events` can hold.
PollEvents ==
  LET ready == {c \in edge : Readiness(c) # {}} IN
  /\ rpc = "poll"
  /\ \E S \in SUBSET ready :
       /\ S # {}
       /\ Cardinality(S) = EventCapacity \/ (S = ready /\ Cardinality(S) < EventCapacity)
       /\ batch' = {[conn |-> c, dirs |-> Readiness(c)] : c \in S}
       /\ edge' = edge \ S
  /\ rpc' = "events"
  /\ UNCHANGED <<current, wakers, sourceVars, woken>>

\* Look up the token of the next event, under the lock of `sources`; go on with
\* the next one if it is not there, else lock `interest` of what was found.
TakeEvent ==
  /\ rpc = "events"
  /\ \E e \in batch :
       /\ batch' = batch \ {e}
       /\ IF token[e.conn] \in DOMAIN sources
          THEN /\ current' = {sources[token[e.conn]]} \X e.dirs
               /\ rpc' = "apply"
               /\ UNCHANGED lost
          ELSE /\ lost' = lost \cup (({e.conn} \cap Known) \X e.dirs)
               /\ UNCHANGED <<current, rpc>>
  /\ UNCHANGED <<edge, wakers, interest, triggered, woken>>

\* One direction of the event, READ before WRITE: take the waker out of its slot
\* and set the flag.
ApplyThen(rest) ==
  /\ rpc = "apply"
  /\ \E c \in Conn, d \in Dir :
       /\ <<c, d>> \in current
       /\ d = WRITE => <<c, READ>> \notin current
       /\ current' = rest \ {<<c, d>>}
       /\ wakers' = IF <<c, d>> \in interest THEN wakers \cup {c} ELSE wakers
       /\ interest' = interest \ {<<c, d>>}
       /\ triggered' = triggered \cup {<<c, d>>}
       /\ lost' = lost \ {<<c, d>>}
  /\ rpc' = IF current' = {} THEN "events" ELSE "apply"
  /\ UNCHANGED <<edge, batch, woken>>

\* ApplyEvent with a bug: `else if event.is_writable()`.
ApplyOneDirection == ApplyThen({})

\* `interest` stays locked until both are done.
ApplyEvent == ApplyThen(current)

EventsDone ==
  /\ rpc = "events"
  /\ batch = {}
  /\ rpc' = "wake"
  /\ UNCHANGED <<edge, batch, current, wakers, sourceVars, woken>>

\* wakers.drain: no lock is held when a task is woken.
WakeTask ==
  /\ rpc = "wake"
  /\ \E c \in wakers : wakers' = wakers \ {c} /\ woken' = woken \cup {c}
  /\ UNCHANGED <<edge, rpc, batch, current, sourceVars>>

WakersDone ==
  /\ rpc = "wake"
  /\ wakers = {}
  /\ rpc' = "poll"
  /\ UNCHANGED <<edge, batch, current, wakers, sourceVars, woken>>

ReactorStep ==
  /\ PollEvents \/ TakeEvent \/ ApplyEvent \/ EventsDone \/ WakeTask \/ WakersDone
  /\ UNCHANGED <<clientVars, bufferVars, mapVars, taskVars, phase>>

-----------------------------------------------------------------------------
(* TcpStream::poll_io, with Reactor::poll_ready and clear_trigger in it, as     *)
(* poll_read, poll_write and poll_flush call it.                                *)

Goto(c, label)  == pc' = [pc EXCEPT ![c] = label]
Leave(c, label) == Goto(c, label) /\ dir' = [dir EXCEPT ![c] = "none"]
Io(c)           == <<c, dir[c]>>

\* What the call is for: a write if there is an answer to write, else a flush.
Reading(c)  == dir[c] = READ
Writing(c)  == dir[c] = WRITE /\ owed[c] > 0
Flushing(c) == dir[c] = WRITE /\ owed[c] = 0

\* The task reads all the time, and writes and flushes until that is done.
Wanted(c) == {<<c, d>> : d \in IF c \in flushed THEN {READ} ELSE Dir}

\* poll_ready: the first look at the flag.
BeginIo(c) ==
  /\ pc[c] = "run"
  /\ \E d \in Dir :
       /\ <<c, d>> \in Wanted(c) \ pending
       /\ dir' = [dir EXCEPT ![c] = d]
       /\ Goto(c, IF <<c, d>> \in triggered THEN "io" ELSE "arm")
  /\ UNCHANGED <<bufferVars, sourceVars, resultVars>>

\* The waker goes into its slot, once the reactor has let go of the lock.
Arm(c) ==
  /\ pc[c] = "arm"
  /\ current \cap Of(c) = {}
  /\ interest' = interest \cup {Io(c)}
  /\ UNCHANGED <<bufferVars, triggered, lost, unarmed, flushed>>

\* RegisterWaker with a bug: the flag is not looked at a second time.
RegisterOnly(c) == Arm(c) /\ Leave(c, "run") /\ pending' = pending \cup {Io(c)}

RegisterWaker(c) == Arm(c) /\ Goto(c, "recheck") /\ UNCHANGED <<dir, pending>>

\* "check if anything changed while we were registering our waker"
Recheck(c) ==
  /\ pc[c] = "recheck"
  /\ \/ /\ Io(c) \in triggered
        /\ Goto(c, "io")
        /\ UNCHANGED <<dir, pending>>
     \/ /\ Io(c) \notin triggered
        /\ Leave(c, "run")
        /\ pending' = pending \cup {Io(c)}
  /\ UNCHANGED <<bufferVars, sourceVars, unarmed, flushed>>

\* f() moves a message or an answer; what is owed now has to be written and flushed.
Move(c) ==
  /\ pc[c] = "io"
  /\ IF Reading(c)
     THEN /\ inbound' = [inbound EXCEPT ![c] = @ - 1]
          /\ owed' = [owed EXCEPT ![c] = @ + 1]
          /\ flushed' = flushed \ {c}
          /\ UNCHANGED room
     ELSE /\ room' = [room EXCEPT ![c] = @ - 1]
          /\ owed' = [owed EXCEPT ![c] = @ - 1]
          /\ UNCHANGED <<inbound, flushed>>
  /\ Leave(c, "run")
  /\ UNCHANGED <<sourceVars, pending, unarmed>>

\* Transfer with a bug: WouldBlock is taken for success.
TransferAnyway(c) == ~Flushing(c) /\ Move(c)

Transfer(c) ==
  /\ \/ Reading(c) /\ inbound[c] > 0
     \/ Writing(c) /\ room[c] > 0 /\ end[c] # "reset"
  /\ Move(c)

\* f() is a flush, which never blocks.
Flush(c) ==
  /\ pc[c] = "io"
  /\ Flushing(c)
  /\ flushed' = flushed \cup {c}
  /\ Leave(c, "run")
  /\ UNCHANGED <<bufferVars, sourceVars, pending, unarmed>>

\* f() returns that there is nothing more to read, or an error.
StreamEnds(c) ==
  /\ pc[c] = "io"
  /\ \/ Reading(c) /\ inbound[c] = 0 /\ end[c] # "open"
     \/ Writing(c) /\ end[c] = "reset"
  /\ Leave(c, "over")
  /\ UNCHANGED <<bufferVars, sourceVars, resultVars>>

\* f() returns WouldBlock.
WouldBlock(c) ==
  /\ pc[c] = "io"
  /\ ~Flushing(c)
  /\ dir[c] \notin Readiness(c)
  /\ Goto(c, "clear")
  /\ UNCHANGED <<bufferVars, sourceVars, dir, resultVars>>

\* clear_trigger, and Poll::Pending.  By now the socket may be ready again, and
\* the flag that is wiped out one that the reactor has just set.
ClearTrigger(c) ==
  /\ pc[c] = "clear"
  /\ triggered' = triggered \ {Io(c)}
  /\ lost' = IF dir[c] \in Readiness(c) THEN lost \cup {Io(c)} ELSE lost
  /\ pending' = pending \cup {Io(c)}
  /\ unarmed' = unarmed \cup {Io(c)}
  /\ Leave(c, "run")
  /\ UNCHANGED <<bufferVars, interest, flushed>>

PollIo(c) ==
  /\ \/ BeginIo(c) \/ RegisterWaker(c) \/ Recheck(c)
     \/ Transfer(c) \/ Flush(c) \/ StreamEnds(c) \/ WouldBlock(c) \/ ClearTrigger(c)
  /\ UNCHANGED <<clientVars, edge, mapVars, loopVars, phase, woken>>

-----------------------------------------------------------------------------
(* The task between its calls of poll_io, and the end of its stream. *)

\* No result of an earlier poll counts any more.
Afresh(c) == /\ pending' = pending \ Of(c)
             /\ unarmed' = unarmed \ Of(c)
             /\ flushed' = flushed \ {c}

\* The runtime polls it: everything is tried anew.
PollTask(c) ==
  /\ phase[c] = "live"
  /\ pc[c] = "parked"
  /\ c \in woken
  /\ woken' = woken \ {c}
  /\ Afresh(c)
  /\ Goto(c, "run")
  /\ UNCHANGED <<bufferVars, edge, sources, phase>>

\* All it wants to do is pending, and so is the task.
ReturnPending(c) ==
  /\ pc[c] = "run"
  /\ Wanted(c) \subseteq pending
  /\ Goto(c, "parked")
  /\ UNCHANGED <<bufferVars, edge, sources, resultVars, phase, woken>>

\* poll_shutdown: now that both sides are closed there is something to report.
Shutdown(c) ==
  /\ pc[c] = "over"
  /\ Goto(c, "shut")
  /\ edge' = edge \cup {c}
  /\ UNCHANGED <<bufferVars, sources, resultVars, phase, woken>>

\* The stream is dropped when the connection is over, for whatever reason, and its
\* buffers with it.
Drop(c) ==
  /\ phase[c] = "live"
  /\ pc[c] \in {"run", "over", "shut"}
  /\ edge' = edge \ {c}
  /\ phase' = [phase EXCEPT ![c] = "dropped"]
  /\ inbound' = [inbound EXCEPT ![c] = 0]
  /\ room' = [room EXCEPT ![c] = SendRoom]
  /\ owed' = [owed EXCEPT ![c] = 0]
  /\ Goto(c, "parked")
  /\ Afresh(c)
  /\ UNCHANGED woken

\* DropStream with a bug: the source stays in the map.
DropLeavesSource(c) == Drop(c) /\ UNCHANGED sources

\* Drop for TcpStream: the source goes and the socket is deregistered, under the
\* lock of `sources`.
DropStream(c) ==
  /\ Drop(c)
  /\ sources' = [k \in DOMAIN sources \ {token[c]} |-> sources[k]]

TurnOf(c, step) ==
  step /\ UNCHANGED <<clientVars, nextToken, token, sourceVars, loopVars, dir>>

\* What the task does by itself.  It may also be given up between two calls, for a
\* reason of its own or because the runtime ends.
TaskStep(c) ==
  \/ PollIo(c)
  \/ TurnOf(c, PollTask(c) \/ ReturnPending(c) \/ Shutdown(c))
  \/ pc[c] # "run" /\ TurnOf(c, DropStream(c))

GiveUp(c) == pc[c] = "run" /\ TurnOf(c, DropStream(c))

Next ==
  \/ ReactorStep
  \/ \E c \in Conn : ClientStep(c) \/ Register(c) \/ TaskStep(c) \/ GiveUp(c)

Spec == Init /\ [][Next]_vars

\* Every thread runs: the reactor's, and those on which the runtime polls tasks;
\* a registration that is begun is carried through.  Clients owe nothing.
FairSpec == /\ Spec
            /\ WF_vars(ReactorStep)
            /\ \A c \in Conn : /\ WF_vars(TaskStep(c))
                              /\ WF_vars(phase[c] = "registered" /\ Register(c))

-----------------------------------------------------------------------------
(* Properties. *)

TypeOK ==
  /\ unsent \in [Conn -> 0..Messages] /\ end \in [Conn -> {"open"} \cup Endings]
  /\ inbound \in [Conn -> 0..Messages] /\ room \in [Conn -> 0..SendRoom]
  /\ owed \in [Conn -> 0..Messages]
  /\ edge \subseteq Known
  /\ nextToken \in Nat /\ token \in [Conn -> Nat]
  /\ DOMAIN sources \subseteq 0..nextToken /\ \A k \in DOMAIN sources : sources[k] \in Conn
  /\ {interest, triggered, lost, current, pending} \subseteq SUBSET (Conn \X Dir)
  /\ rpc \in {"poll", "events", "apply", "wake"}
  /\ batch \subseteq [conn : Conn, dirs : SUBSET Dir]
  /\ wakers \subseteq Conn /\ woken \subseteq Conn /\ flushed \subseteq Conn
  /\ phase \in [Conn -> {"accepted", "registered", "live", "dropped"}]
  /\ pc \in [Conn -> {"parked", "run", "arm", "recheck", "io", "clear", "over", "shut"}]
  /\ dir \in [Conn -> Dir \cup {"none"}]
  /\ unarmed \subseteq pending

\* A wake-up for the task is on its way.
WakeInFlight(c) == c \in woken \cup wakers

\* "Double-checks triggered state to prevent race conditions" (net.rs:120): what
\* poll_ready reports as pending is either armed, with the waker in its slot and
\* the flag down so that the next event takes it, or the wake-up is on its way.
ReadyPendingIsArmed ==
  \A c \in Conn : \A d \in Dir :
    phase[c] = "live" /\ <<c, d>> \in pending \ unarmed
      => <<c, d>> \in interest \ triggered \/ WakeInFlight(c)

\* Something has still to be told of the direction: to the reactor, or by it.
EventUnderWay(c, d) == \/ c \in edge
                       \/ \E e \in batch : e.conn = c /\ d \in e.dirs
                       \/ <<c, d>> \in current

\* No readiness gets lost but where `lost` and `unarmed` say so: a task that waits for
\* what its socket is ready for is being woken, or its waker is in the slot and there is
\* an event under way that will find it there - however many sockets are ready at once,
\* and whatever of it was reported before (net.rs:120-135, 178, 208-245).
ReadyTasksAreFound ==
  \A c \in Conn : \A d \in Readiness(c) :
    phase[c] = "live" /\ <<c, d>> \in pending \ (unarmed \cup lost)
      => WakeInFlight(c) \/ (<<c, d>> \in interest /\ EventUnderWay(c, d))

\* "Properly handles WouldBlock conditions" (net.rs:295): a parked task can be
\* woken by every direction it waits for.
PendingIsArmed ==
  \A c \in Conn : \A d \in Dir :
    phase[c] = "live" /\ pc[c] = "parked" /\ <<c, d>> \in pending
      => <<c, d>> \in interest \/ WakeInFlight(c)

\* The map holds the live streams and nothing else: nothing leaks when streams
\* are dropped while their events are under way (net.rs:353-359, 458-459).
SourcesAreLiveStreams ==
  /\ {sources[k] : k \in DOMAIN sources} = {c \in Conn : phase[c] = "live"}
  /\ \A c \in Conn : phase[c] = "live" =>
       token[c] \in DOMAIN sources /\ sources[token[c]] = c

\* An event reported for a stream that is gone by the time it is looked at is
\* never taken for one of another stream (net.rs:82, 218-225).
EventsReachTheirStream ==
  \A e \in batch : token[e.conn] \in DOMAIN sources => sources[token[e.conn]] = e.conn

\* Data that arrives gets read.
RequestsAreRead ==
  \A c \in Conn : (inbound[c] > 0 /\ phase[c] = "live")
                    ~> (inbound[c] = 0 \/ phase[c] = "dropped")

\* Only two things make a connection hang with data to read, and only they keep
\* one in the map whose client has left: its latest attempt ended in WouldBlock,
\* or the readiness was thrown away, because the stream was not in `sources` yet
\* or because clear_trigger wiped out the flag of an event that came after the
\* WouldBlock (net.rs:84-98, 223, 306-309).
ReadsStallOnlyThere ==
  \A c \in Conn : (CanRead(c) /\ phase[c] = "live")
     ~> (~CanRead(c) \/ phase[c] = "dropped" \/ <<c, READ>> \in lost \cup unarmed)

\* The same holds of an answer that has to be written, once the socket takes it.
WritesStallOnlyThere ==
  \A c \in Conn : (owed[c] > 0 /\ CanWrite(c) /\ phase[c] = "live")
     ~> (owed[c] = 0 \/ phase[c] = "dropped" \/ <<c, WRITE>> \in lost \cup unarmed)
=============================================================================
