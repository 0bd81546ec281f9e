---------------------------- MODULE ServerProofs ----------------------------
(***************************************************************************)
(* Proofs about Server, for any number of threads and connections and for  *)
(* bodies in any number of pieces.                                         *)
(***************************************************************************)
EXTENDS Server, TLAPS

\* A request's head is read before anything of its body is, and before its handler
\* is called.  This is what ReadHead and ReadBody need to keep PiecesAccounted, and
\* what keeps SendHead away from a request that has been read.
HeadFirst ==
  \A c \in Conn :
    /\ pc[c] \in {"none", "backlog", "parked", "head"} => read[c] = 0
    /\ pc[c] \in {"body", "handler", "blocked"} => read[c] > 0

\* A connection that serve keeps to itself is not being polled.  This is what keeps
\* the slot among the woken ones when a task ends.
SlotIsParked == \A c \in slot : pc[c] = "parked"

IInv == /\ TypeOK /\ ThreadsAccounted /\ PiecesAccounted /\ BlockedOnlyShort
        /\ HeadFirst /\ SlotIsParked

LEMMA InitEstablishes == Init => IInv
<1> SUFFICES ASSUME Init PROVE IInv
  OBVIOUS
<1> USE ServerAssumption DEF Init
<1>1. TypeOK
  BY DEF TypeOK, State
<1>2. ThreadsAccounted
  BY DEF ThreadsAccounted, Polled
<1>3. PiecesAccounted /\ BlockedOnlyShort /\ HeadFirst /\ SlotIsParked
  BY DEF PiecesAccounted, BlockedOnlyShort, HeadFirst, SlotIsParked
<1> QED
  BY <1>1, <1>2, <1>3 DEF IInv

\* Clients add to what is sent, and nothing else of the invariant depends on it.
LEMMA ClientPreserves ==
  ASSUME IInv, NEW c \in Conn, ClientStep(c)
  PROVE  IInv'
<1> USE ServerAssumption DEF IInv, TypeOK, PiecesAccounted, BlockedOnlyShort, HeadFirst,
                             SlotIsParked,
                             runVars, requestVars, bodyVars
<1>1. CASE Connect(c)
  <2>1. TypeOK' /\ PiecesAccounted' /\ BlockedOnlyShort' /\ HeadFirst' /\ SlotIsParked'
    BY <1>1 DEF Connect, Goto, State, Polled
  <2>2. ThreadsAccounted'
    BY <1>1 DEF Connect, Goto, ThreadsAccounted, Polled
  <2> QED
    BY <2>1, <2>2
<1>2. CASE SendHead(c)
  <2>1. PICK n \in 0..MaxPieces : pieces' = [pieces EXCEPT ![c] = n]
    BY <1>2 DEF SendHead
  <2>2. /\ sent[c] = 0 /\ sent' = [sent EXCEPT ![c] = 1]
        /\ asked < MaxRequests /\ asked' = asked + 1
        /\ woken \subseteq woken' /\ woken' \subseteq woken \cup {c}
        /\ UNCHANGED <<serving, on, slot, pc, gone, read, chan, got, cut>>
    BY <1>2 DEF SendHead, Arrive
  <2>3. read[c] = 0
    BY <2>2
  <2>4. TypeOK'
    BY <2>1, <2>2
  <2>5. PiecesAccounted' /\ BlockedOnlyShort' /\ HeadFirst' /\ SlotIsParked'
    BY <2>1, <2>2, <2>3
  <2>6. ThreadsAccounted'
    BY <2>2 DEF ThreadsAccounted
  <2> QED
    BY <2>4, <2>5, <2>6
<1>3. CASE SendPiece(c)
  <2>1. /\ sent[c] \in 1..pieces[c] /\ sent' = [sent EXCEPT ![c] = @ + 1]
        /\ woken \subseteq woken' /\ woken' \subseteq woken \cup {c}
        /\ UNCHANGED <<serving, on, slot, pc, gone, asked, pieces, read, chan, got, cut>>
    BY <1>3 DEF SendPiece, Arrive
  <2>2. TypeOK'
    BY <2>1
  <2>3. PiecesAccounted' /\ BlockedOnlyShort' /\ HeadFirst' /\ SlotIsParked'
    BY <2>1
  <2>4. ThreadsAccounted'
    BY <2>1 DEF ThreadsAccounted
  <2> QED
    BY <2>2, <2>3, <2>4
<1>4. CASE Close(c)
  <2>1. /\ gone' = gone \cup {c}
        /\ woken \subseteq woken' /\ woken' \subseteq woken \cup {c}
        /\ UNCHANGED <<serving, on, slot, pc, asked, pieces, sent, read, chan, got, cut>>
    BY <1>4 DEF Close, Arrive
  <2>2. TypeOK' /\ PiecesAccounted' /\ BlockedOnlyShort' /\ HeadFirst' /\ SlotIsParked'
    BY <2>1
  <2>3. ThreadsAccounted'
    BY <2>1 DEF ThreadsAccounted
  <2> QED
    BY <2>2, <2>3
<1> QED
  BY <1>1, <1>2, <1>3, <1>4 DEF ClientStep

LEMMA ServePreserves ==
  ASSUME IInv, (\E c \in Conn : Accept(c)) \/ ServeFails
  PROVE  IInv'
<1> USE ServerAssumption DEF IInv, TypeOK, PiecesAccounted, BlockedOnlyShort, HeadFirst,
                             SlotIsParked,
                             requestVars, bodyVars, State, Polled
<1>1. ASSUME NEW c \in Conn, Accept(c)
      PROVE  IInv'
  <2>1. /\ pc[c] = "backlog" /\ pc' = [pc EXCEPT ![c] = "parked"]
        /\ woken' = woken \cup {c} /\ slot' \subseteq {c}
        /\ UNCHANGED <<serving, on, gone, asked, pieces, sent, read, chan, got, cut>>
    BY <1>1 DEF Accept, Accepted, Goto
  <2>2. TypeOK' /\ PiecesAccounted' /\ BlockedOnlyShort' /\ HeadFirst' /\ SlotIsParked'
    BY <2>1
  <2>3. ThreadsAccounted'
    BY <2>1 DEF ThreadsAccounted
  <2> QED
    BY <2>2, <2>3
<1>2. CASE ServeFails
  <2>1. TypeOK' /\ PiecesAccounted' /\ BlockedOnlyShort' /\ HeadFirst' /\ SlotIsParked'
    BY <1>2 DEF ServeFails
  <2>2. ThreadsAccounted'
    BY <1>2 DEF ServeFails, ThreadsAccounted
  <2> QED
    BY <2>1, <2>2
<1> QED
  BY <1>1, <1>2

\* A thread that keeps its connection disturbs nothing of who polls what.
LEMMA StayingKeepsThreads ==
  ASSUME IInv, NEW t \in Thread, NEW c \in Conn, NEW state \in Polled, NEW next \in Polled,
         Stay(t, c, state, next)
  PROVE  /\ ThreadsAccounted'
         /\ pc' = [pc EXCEPT ![c] = next] /\ pc[c] = state
         /\ UNCHANGED <<serving, on, woken, slot>>
BY DEF IInv, TypeOK, ThreadsAccounted, Stay, Goto, runVars, State, Polled

\* It changes how far the request is, and with it what was read.
LEMMA StayingPreserves ==
  ASSUME IInv, NEW t \in Thread, NEW c \in Conn,
         ReadHead(t, c) \/ ReadBody(t, c) \/ NextChunk(t, c) \/ WaitForChunk(t, c) \/ Respond(t, c)
  PROVE  IInv'
<1> USE ServerAssumption DEF IInv, TypeOK, PiecesAccounted, BlockedOnlyShort, HeadFirst,
                             SlotIsParked,
                             requestVars, bodyVars, State, Polled
<1>1. CASE ReadHead(t, c)
  <2>1. /\ ThreadsAccounted' /\ pc[c] = "head" /\ pc' = [pc EXCEPT ![c] = "body"]
        /\ UNCHANGED <<serving, on, woken, slot, gone, asked, pieces, sent, got, cut>>
    BY <1>1, StayingKeepsThreads DEF ReadHead
  <2>2. PICK k \in 0..(sent[c] - 1) :
          read' = [read EXCEPT ![c] = 1 + k] /\ chan' = [chan EXCEPT ![c] = k]
    BY <1>1 DEF ReadHead
  <2>3. k \in Nat /\ k + 1 <= sent[c] /\ sent[c] <= pieces[c] + 1 /\ got[c] = 0
    BY <2>1, <2>2
  <2>4. TypeOK' /\ PiecesAccounted' /\ BlockedOnlyShort' /\ HeadFirst' /\ SlotIsParked'
    BY <2>1, <2>2, <2>3
  <2> QED
    BY <2>1, <2>4
<1>2. CASE ReadBody(t, c)
  <2>1. /\ ThreadsAccounted' /\ pc[c] = "body" /\ pc' = [pc EXCEPT ![c] = "handler"]
        /\ cut' \subseteq cut \cup (gone \cap {c})
        /\ UNCHANGED <<serving, on, woken, slot, gone, asked, pieces, sent, got>>
    BY <1>2, StayingKeepsThreads DEF ReadBody
  <2>2. read[c] > 0
    BY <2>1
  <2>3. CASE chan[c] = 0 /\ sent[c] > read[c]
    <3>1. PICK k \in 1..(sent[c] - read[c]) :
            read' = [read EXCEPT ![c] = @ + k] /\ chan' = [chan EXCEPT ![c] = k]
      BY <1>2, <2>3 DEF ReadBody
    <3>2. k \in Nat \ {0} /\ read[c] + k <= sent[c] /\ sent[c] <= pieces[c] + 1
      BY <3>1
    <3>3. got[c] = read[c] - 1 /\ k <= pieces[c]
      BY <2>2, <2>3, <3>2
    <3>4. TypeOK'
      BY <2>1, <3>1, <3>2, <3>3
    <3>5. \A d \in Conn \ {c} : UNCHANGED <<pc[d], read[d], chan[d], got[d], sent[d], pieces[d]>>
      BY <2>1, <3>1
    <3>6. /\ read[c]' = read[c] + k /\ chan[c]' = k /\ pc[c]' = "handler"
          /\ UNCHANGED <<got[c], sent[c], pieces[c]>>
      BY <2>1, <3>1
    <3>7. /\ read[c] + k > 0 /\ got[c] + k = read[c] + k - 1
          /\ read[c] \in Nat /\ got[c] \in Nat
      BY <3>2, <3>3
    <3>8. PiecesAccounted'
      <4>1. ASSUME NEW d \in Conn \ {c}
            PROVE  (/\ read[d] <= sent[d] /\ sent[d] <= pieces[d] + 1
                    /\ read[d] > 0 => got[d] + chan[d] = read[d] - 1
                    /\ read[d] = 0 => got[d] = 0 /\ chan[d] = 0)'
        BY <3>5
      <4>2. (/\ read[c] <= sent[c] /\ sent[c] <= pieces[c] + 1
             /\ read[c] > 0 => got[c] + chan[c] = read[c] - 1
             /\ read[c] = 0 => got[c] = 0 /\ chan[c] = 0)'
        BY <3>2, <3>6, <3>7
      <4> QED
        BY <4>1, <4>2
    <3>9. BlockedOnlyShort' /\ HeadFirst' /\ SlotIsParked'
      BY <2>1, <2>2, <3>2, <3>5, <3>6
    <3> QED
      BY <2>1, <3>4, <3>8, <3>9
  <2>4. CASE ~(chan[c] = 0 /\ sent[c] > read[c])
    <3>1. UNCHANGED <<read, chan>>
      BY <1>2, <2>4 DEF ReadBody
    <3> QED
      BY <2>1, <2>2, <3>1
  <2> QED
    BY <2>3, <2>4
<1>3. CASE NextChunk(t, c)
  <2>1. /\ ThreadsAccounted' /\ pc[c] = "handler" /\ UNCHANGED pc /\ chan[c] > 0
        /\ got' = [got EXCEPT ![c] = @ + chan[c]] /\ chan' = [chan EXCEPT ![c] = 0]
        /\ UNCHANGED <<serving, on, woken, slot, gone, asked, pieces, sent, read, cut>>
    BY <1>3, StayingKeepsThreads DEF NextChunk, Take
  <2>2. got[c] + chan[c] = read[c] - 1 /\ read[c] <= pieces[c] + 1
    BY <2>1
  <2>3. TypeOK' /\ PiecesAccounted' /\ BlockedOnlyShort' /\ HeadFirst' /\ SlotIsParked'
    BY <2>1, <2>2
  <2> QED
    BY <2>1, <2>3
<1>4. CASE WaitForChunk(t, c)
  <2>1. /\ ThreadsAccounted' /\ pc[c] = "handler" /\ chan[c] = 0 /\ read[c] <= pieces[c]
        /\ pc' = [pc EXCEPT ![c] = "blocked"]
        /\ UNCHANGED <<serving, on, woken, slot, gone, asked, pieces, sent, read, chan, got, cut>>
    BY <1>4, StayingKeepsThreads DEF WaitForChunk, Wait
  <2>2. got[c] < pieces[c]
    BY <2>1
  <2>3. TypeOK' /\ PiecesAccounted' /\ BlockedOnlyShort' /\ HeadFirst' /\ SlotIsParked'
    BY <2>1, <2>2
  <2> QED
    BY <2>1, <2>3
<1>5. CASE Respond(t, c)
  <2>1. /\ ThreadsAccounted' /\ pc[c] = "handler" /\ pc' = [pc EXCEPT ![c] = "head"]
        /\ sent' = [sent EXCEPT ![c] = 0] /\ read' = [read EXCEPT ![c] = 0]
        /\ chan' = [chan EXCEPT ![c] = 0] /\ got' = [got EXCEPT ![c] = 0]
        /\ UNCHANGED <<serving, on, woken, slot, gone, asked, pieces, cut>>
    BY <1>5, StayingKeepsThreads DEF Respond
  <2>2. TypeOK' /\ PiecesAccounted' /\ BlockedOnlyShort' /\ HeadFirst' /\ SlotIsParked'
    BY <2>1
  <2> QED
    BY <2>1, <2>2
<1> QED
  BY <1>1, <1>2, <1>3, <1>4, <1>5

\* Taking a connection and giving it up: nothing is read, and that no other thread has
\* the connection is ThreadsAccounted itself.
LEMMA SwitchingPreserves ==
  ASSUME IInv, NEW t \in Thread, NEW c \in Conn, Poll(t, c) \/ NoHead(t, c) \/ End(t, c)
  PROVE  IInv'
<1> USE ServerAssumption DEF IInv, TypeOK, PiecesAccounted, BlockedOnlyShort, HeadFirst,
                             SlotIsParked,
                             requestVars, bodyVars, State, Polled, Goto
<1>1. CASE Poll(t, c)
  <2>1. /\ on[t] = "idle" /\ pc[c] = "parked" /\ c \notin slot
        /\ on' = [on EXCEPT ![t] = c]
        /\ woken' = woken \ {c} /\ pc' = [pc EXCEPT ![c] = "head"]
        /\ UNCHANGED <<serving, slot, gone, asked, pieces, sent, read, chan, got, cut>>
    BY <1>1 DEF Poll
  <2>2. TypeOK' /\ PiecesAccounted' /\ BlockedOnlyShort' /\ HeadFirst' /\ SlotIsParked'
    BY <2>1
  <2>3. ThreadsAccounted'
    BY <2>1 DEF ThreadsAccounted
  <2> QED
    BY <2>2, <2>3
<1>2. CASE NoHead(t, c) \/ End(t, c)
  <2>1. PICK state \in {"parked", "closed"} :
          /\ on[t] = c /\ on' = [on EXCEPT ![t] = "idle"]
          /\ pc[c] \in {"head", "handler"}
          /\ pc[c] = "handler" => state = "closed"
          /\ pc' = [pc EXCEPT ![c] = state]
          /\ woken' \subseteq woken /\ woken \ {c} \subseteq woken'
          /\ UNCHANGED <<serving, slot, gone, asked, pieces, sent, read, chan, got, cut>>
    BY <1>2 DEF NoHead, End, Leave
  <2>2. c \notin slot'
    BY <2>1
  <2>3. TypeOK' /\ PiecesAccounted' /\ BlockedOnlyShort' /\ HeadFirst' /\ SlotIsParked'
    BY <2>1, <2>2
  <2>4. ThreadsAccounted'
    BY <2>1 DEF ThreadsAccounted
  <2> QED
    BY <2>3, <2>4
<1> QED
  BY <1>1, <1>2

LEMMA NextPreserves == IInv /\ [Next]_vars => IInv'
<1> SUFFICES ASSUME IInv, [Next]_vars PROVE IInv'
  OBVIOUS
<1>1. CASE UNCHANGED vars
  BY <1>1 DEF vars, runVars, requestVars, bodyVars, IInv, TypeOK, ThreadsAccounted,
              PiecesAccounted,
              BlockedOnlyShort, HeadFirst, SlotIsParked
<1> QED
  BY <1>1, ClientPreserves, ServePreserves, StayingPreserves, SwitchingPreserves
     DEF Next, ThreadStep, PollStep

\* The invariant as a whole: what was read of a request and who polls its connection
\* agree with where the request is (server.rs:199-223, 561-567).
THEOREM Invariance == Spec => []IInv
BY InitEstablishes, NextPreserves, PTL DEF Spec

\* For any number of threads, connections and pieces: the state of the server has its
\* type, and no more is sent, read or handed on than there is (server.rs:199-223).
THEOREM TypeCorrect == Spec => []TypeOK
BY Invariance, PTL DEF IInv

\* For any number of threads and connections: a connection is polled by one thread, and
\* a thread is given back however the handler ends (server.rs:214-222, 561-567).
THEOREM ThreadsAreAccounted == Spec => []ThreadsAccounted
BY Invariance, PTL DEF IInv

\* Whatever way the body of a request is cut into chunks: what was read of it is in the
\* channel or with the handler (http.rs:170, server.rs:562-563).
THEOREM PiecesAreAccounted == Spec => []PiecesAccounted
BY Invariance, PTL DEF IInv

\* A handler that was called with the whole body read never blocks (http.rs:169-172).
THEOREM CompleteBodiesDoNotBlock == Spec => []BlockedOnlyShort
BY Invariance, PTL DEF IInv
=============================================================================
