--------------------------- MODULE ReactorProofs ----------------------------
(***************************************************************************)
(* Proofs about Reactor, for any number of streams and messages, send      *)
(* buffers of any size and any number of events per poll.                  *)
(***************************************************************************)
EXTENDS Reactor, TLAPS

\* A message is unsent, received or owed an answer, or it is answered.  This is what
\* bounds the buffers.
Counted == \A c \in Conn : unsent[c] + inbound[c] + owed[c] <= Messages

\* A task that is being polled has its stream, and in a call a direction.
Busy(c) == pc[c] \in {"arm", "recheck", "io", "clear"}
TasksHaveStreams ==
  \A c \in Conn : /\ pc[c] # "parked" => phase[c] = "live"
                  /\ Busy(c) => dir[c] \in Dir

\* No token is ahead of the counter.
TokensIssued == \A c \in Conn : token[c] <= nextToken

Typed == TypeOK /\ Counted /\ TasksHaveStreams /\ TokensIssued

LEMMA InitTyped == Init => Typed
<1> SUFFICES ASSUME Init PROVE Typed
  OBVIOUS
<1> USE ReactorAssumption DEF Init
<1>1. TypeOK
  BY DEF TypeOK
<1>2. Counted /\ TasksHaveStreams /\ TokensIssued
  BY DEF Counted, TasksHaveStreams, TokensIssued, Busy
<1> QED
  BY <1>1, <1>2 DEF Typed

LEMMA ClientTyped ==
  ASSUME Typed, NEW c \in Conn, ClientStep(c)
  PROVE  Typed'
<1> USE ReactorAssumption DEF Typed, TypeOK, Counted, TasksHaveStreams, TokensIssued, Busy,
                              Known, mapVars, sourceVars, loopVars, taskVars, resultVars, clientVars
<1>1. UNCHANGED <<owed, nextToken, sources, token, interest, triggered, lost, rpc, batch,
                  current, wakers, pc, dir, pending, unarmed, flushed, phase, woken>>
  BY DEF ClientStep
<1>2. CASE ClientSends(c)
  BY <1>1, <1>2 DEF ClientSends
<1>3. CASE ClientCloses(c)
  BY <1>1, <1>3 DEF ClientCloses
<1>4. CASE ClientReceives(c)
  BY <1>1, <1>4 DEF ClientReceives
<1> QED
  BY <1>2, <1>3, <1>4 DEF ClientStep

LEMMA RegisterTyped ==
  ASSUME Typed, NEW c \in Conn, Register(c)
  PROVE  Typed'
<1> USE ReactorAssumption DEF Typed, TypeOK, Counted, TasksHaveStreams, TokensIssued, Busy,
                              Known, sourceVars, loopVars, taskVars, resultVars, clientVars, bufferVars
<1>1. UNCHANGED <<unsent, end, inbound, room, owed, interest, triggered, lost, rpc, batch,
                  current, wakers, pc, dir, pending, unarmed, flushed>>
  BY DEF Register
<1>2. CASE RegisterSocket(c)
  BY <1>1, <1>2 DEF RegisterSocket, RegisterAs
<1>3. CASE RegisterFails(c)
  BY <1>1, <1>3 DEF RegisterFails
<1>4. CASE InsertSource(c)
  <2>1. DOMAIN sources' = DOMAIN sources \cup {token[c]} /\ token[c] \in 0..nextToken
    BY <1>4 DEF InsertSource
  <2>2. \A k \in DOMAIN sources' : sources'[k] \in Conn
    BY <1>4 DEF InsertSource
  <2> QED
    BY <1>1, <1>4, <2>1, <2>2 DEF InsertSource
<1> QED
  BY <1>2, <1>3, <1>4 DEF Register

LEMMA ReactorTyped ==
  ASSUME Typed, ReactorStep
  PROVE  Typed'
<1> USE ReactorAssumption DEF Typed, TypeOK, Counted, TasksHaveStreams, TokensIssued, Busy,
                              Known, mapVars, taskVars, resultVars, clientVars, bufferVars, sourceVars
<1>1. UNCHANGED <<unsent, end, inbound, room, owed, nextToken, sources, token,
                  pc, dir, pending, unarmed, flushed, phase>>
  BY DEF ReactorStep
<1>2. CASE PollEvents
  BY <1>1, <1>2 DEF PollEvents, Readiness
<1>3. CASE TakeEvent
  BY <1>1, <1>3 DEF TakeEvent
<1>4. CASE ApplyEvent
  BY <1>1, <1>4 DEF ApplyEvent, ApplyThen
<1>5. CASE EventsDone \/ WakersDone
  BY <1>1, <1>5 DEF EventsDone, WakersDone
<1>6. CASE WakeTask
  BY <1>1, <1>6 DEF WakeTask
<1> QED
  BY <1>2, <1>3, <1>4, <1>5, <1>6 DEF ReactorStep

LEMMA PollIoTyped ==
  ASSUME Typed, NEW c \in Conn, PollIo(c)
  PROVE  Typed'
<1> USE ReactorAssumption DEF Typed, TypeOK, Counted, TasksHaveStreams, TokensIssued, Busy,
                              Known, Goto,
                              Leave, Io, mapVars, loopVars, resultVars, clientVars, bufferVars,
                              sourceVars
<1>1. UNCHANGED <<unsent, end, edge, nextToken, sources, token, rpc, batch, current, wakers,
                  phase, woken>>
  BY DEF PollIo
<1>2. CASE BeginIo(c)
  BY <1>1, <1>2 DEF BeginIo
<1>3. CASE RegisterWaker(c)
  BY <1>1, <1>3 DEF RegisterWaker, Arm
<1>4. CASE Recheck(c)
  BY <1>1, <1>4 DEF Recheck
<1>5. CASE Transfer(c)
  <2>1. CASE Reading(c)
    <3>1. inbound[c] > 0
      BY <1>5, <2>1 DEF Transfer, Reading, Writing, READ, WRITE
    <3> QED
      BY <1>1, <1>5, <2>1, <3>1 DEF Transfer, Move
  <2>2. CASE ~Reading(c)
    <3>1. room[c] > 0 /\ owed[c] > 0
      BY <1>5, <2>2 DEF Transfer, Writing
    <3> QED
      BY <1>1, <1>5, <2>2, <3>1 DEF Transfer, Move
  <2> QED
    BY <2>1, <2>2
<1>6. CASE Flush(c)
  BY <1>1, <1>6 DEF Flush
<1>7. CASE StreamEnds(c)
  BY <1>1, <1>7 DEF StreamEnds
<1>8. CASE WouldBlock(c)
  BY <1>1, <1>8 DEF WouldBlock
<1>9. CASE ClearTrigger(c)
  BY <1>1, <1>9 DEF ClearTrigger
<1> QED
  BY <1>2, <1>3, <1>4, <1>5, <1>6, <1>7, <1>8, <1>9 DEF PollIo

LEMMA TurnTyped ==
  ASSUME Typed, NEW c \in Conn,
         TurnOf(c, PollTask(c) \/ ReturnPending(c) \/ Shutdown(c) \/ DropStream(c))
  PROVE  Typed'
<1> USE ReactorAssumption DEF Typed, TypeOK, Counted, TasksHaveStreams, TokensIssued, Busy,
                              Known, Goto,
                              Afresh, Of, loopVars, resultVars, clientVars, bufferVars,
                              sourceVars
<1>1. UNCHANGED <<unsent, end, nextToken, token, interest, triggered, lost, rpc, batch, current,
                  wakers, dir>>
  BY DEF TurnOf
<1>2. CASE PollTask(c)
  BY <1>1, <1>2 DEF PollTask
<1>3. CASE ReturnPending(c)
  BY <1>1, <1>3 DEF ReturnPending
<1>4. CASE Shutdown(c)
  BY <1>1, <1>4 DEF Shutdown
<1>5. CASE DropStream(c)
  BY <1>1, <1>5 DEF DropStream, Drop
<1> QED
  BY <1>2, <1>3, <1>4, <1>5 DEF TurnOf

\* A step of a task is a step of a call, or one between calls.
LEMMA TaskSteps ==
  ASSUME NEW c \in Conn, TaskStep(c) \/ GiveUp(c)
  PROVE  PollIo(c) \/ TurnOf(c, PollTask(c) \/ ReturnPending(c) \/ Shutdown(c) \/ DropStream(c))
BY DEF TaskStep, GiveUp, TurnOf

LEMMA NextTyped == Typed /\ [Next]_vars => Typed'
<1> SUFFICES ASSUME Typed, [Next]_vars PROVE Typed'
  OBVIOUS
<1>1. CASE UNCHANGED vars
  BY <1>1 DEF vars, clientVars, bufferVars, mapVars, sourceVars, loopVars, resultVars, taskVars,
              Typed, TypeOK, Counted, TasksHaveStreams, TokensIssued, Busy, Known
<1>2. CASE Next
  BY <1>2, ClientTyped, RegisterTyped, ReactorTyped, PollIoTyped, TurnTyped, TaskSteps DEF Next
<1> QED
  BY <1>1, <1>2

\* No buffer is ever over- or underrun, a task that is being polled has its stream,
\* and epoll reports of registered streams only.
THEOREM TypeCorrect == Spec => []TypeOK
<1>1. Init => Typed
  BY InitTyped
<1>2. Typed /\ [Next]_vars => Typed'
  BY NextTyped
<1>3. Typed => TypeOK
  BY DEF Typed
<1> QED
  BY <1>1, <1>2, <1>3, PTL DEF Spec

-----------------------------------------------------------------------------
(* The map of the sources. *)

\* The streams that have a token of their own: those that epoll knows, and those that
\* events under way were reported for.
Numbered == Known \cup {e.conn : e \in batch}

\* A token is given out once, and not before its turn.
TokensUnique ==
  /\ \A c \in Numbered : token[c] < nextToken
  /\ \A c, d \in Numbered : token[c] = token[d] => c = d

\* What the map holds under a token is the stream that has the token.
SourcesMatchTokens ==
  \A k \in DOMAIN sources : phase[sources[k]] = "live" /\ token[sources[k]] = k

MapInv == Typed /\ TokensUnique /\ SourcesMatchTokens /\ SourcesAreLiveStreams

LEMMA InitMap == Init => MapInv
BY InitTyped DEF Init, MapInv, TokensUnique, Numbered, Known, SourcesMatchTokens,
                 SourcesAreLiveStreams

\* The map and the tokens are touched by registrations and drops only.  Events under
\* way become more when epoll reports them, of streams that it knows.
LEMMA MapUntouched ==
  ASSUME MapInv, Typed', UNCHANGED <<mapVars, phase>>, Numbered' \subseteq Numbered
  PROVE  MapInv'
<1>1. UNCHANGED <<nextToken, sources, token, phase>>
  BY DEF mapVars
<1>2. TokensUnique'
  BY <1>1 DEF MapInv, TokensUnique
<1>3. SourcesMatchTokens' /\ SourcesAreLiveStreams'
  BY <1>1 DEF MapInv, SourcesMatchTokens, SourcesAreLiveStreams
<1> QED
  BY <1>2, <1>3 DEF MapInv

LEMMA ReactorKeepsMap ==
  ASSUME MapInv, Typed', ReactorStep
  PROVE  MapInv'
<1>1. UNCHANGED <<mapVars, phase>>
  BY DEF ReactorStep
<1>2. Known' = Known
  BY <1>1 DEF Known
<1>3. CASE PollEvents
  <2>1. \A e \in batch' : e.conn \in edge
    BY <1>3 DEF PollEvents
  <2> QED
    BY <1>1, <1>2, <2>1, MapUntouched DEF Numbered, MapInv, Typed, TypeOK
<1>4. CASE TakeEvent
  BY <1>1, <1>2, <1>4, MapUntouched DEF TakeEvent, Numbered
<1>5. CASE ApplyEvent \/ EventsDone \/ WakeTask \/ WakersDone
  <2>1. batch' = batch
    BY <1>5 DEF ApplyEvent, ApplyThen, EventsDone, WakeTask, WakersDone
  <2> QED
    BY <1>1, <1>2, <2>1, MapUntouched DEF Numbered
<1> QED
  BY <1>3, <1>4, <1>5 DEF ReactorStep

LEMMA RegisterKeepsMap ==
  ASSUME MapInv, Typed', NEW c \in Conn, Register(c)
  PROVE  MapInv'
<1> USE DEF MapInv, Typed, TypeOK
<1>1. UNCHANGED batch
  BY DEF Register, loopVars
<1>2. CASE RegisterSocket(c)
  <2>1. /\ phase[c] = "accepted" /\ phase' = [phase EXCEPT ![c] = "registered"]
        /\ token' = [token EXCEPT ![c] = nextToken] /\ nextToken' = nextToken + 1
        /\ UNCHANGED sources
    BY <1>2 DEF RegisterSocket, RegisterAs
  <2>2. Numbered' \subseteq Numbered \cup {c}
    BY <1>1, <2>1 DEF Numbered, Known
  <2>3. Numbered \subseteq Conn
    BY DEF Numbered, Known
  <2>4. TokensUnique'
    BY <2>1, <2>2, <2>3 DEF TokensUnique
  <2>5. SourcesMatchTokens'
    BY <2>1 DEF SourcesMatchTokens
  <2>6. SourcesAreLiveStreams'
    BY <2>1 DEF SourcesAreLiveStreams
  <2> QED
    BY <2>4, <2>5, <2>6
<1>3. CASE RegisterFails(c)
  <2>1. /\ phase[c] = "accepted" /\ phase' = [phase EXCEPT ![c] = "dropped"]
        /\ nextToken' \in Nat /\ nextToken <= nextToken'
        /\ UNCHANGED <<sources, token>>
    BY <1>3 DEF RegisterFails
  <2>2. Numbered' \subseteq Numbered /\ Numbered \subseteq Conn
    BY <1>1, <2>1 DEF Numbered, Known
  <2>3. TokensUnique'
    <3>1. \A b \in Numbered : token[b] < nextToken /\ token[b] \in Nat
      BY <2>2 DEF TokensUnique
    <3>2. \A b \in Numbered' : token'[b] < nextToken'
      BY <2>1, <2>2, <3>1
    <3>3. \A b, d \in Numbered' : token'[b] = token'[d] => b = d
      BY <2>1, <2>2 DEF TokensUnique
    <3> QED
      BY <3>2, <3>3 DEF TokensUnique
  <2>4. SourcesMatchTokens' /\ SourcesAreLiveStreams'
    BY <2>1 DEF SourcesMatchTokens, SourcesAreLiveStreams
  <2> QED
    BY <2>3, <2>4
<1>4. CASE InsertSource(c)
  <2>1. /\ phase[c] = "registered" /\ phase' = [phase EXCEPT ![c] = "live"]
        /\ sources' = [k \in DOMAIN sources \cup {token[c]} |->
                         IF k = token[c] THEN c ELSE sources[k]]
        /\ UNCHANGED <<nextToken, token>>
    BY <1>4 DEF InsertSource
  <2>2. Numbered' = Numbered
    BY <1>1, <2>1 DEF Numbered, Known
  <2>3. token[c] \notin DOMAIN sources
    BY <2>1 DEF TokensUnique, SourcesMatchTokens, Numbered, Known
  <2>4. TokensUnique' /\ SourcesMatchTokens'
    BY <2>1, <2>2, <2>3 DEF TokensUnique, SourcesMatchTokens
  <2>5. \A b \in Conn : phase'[b] = "live" =>
         token[b] \in DOMAIN sources' /\ sources'[token[b]] = b
    <3> SUFFICES ASSUME NEW b \in Conn, phase'[b] = "live"
                 PROVE  token[b] \in DOMAIN sources' /\ sources'[token[b]] = b
      OBVIOUS
    <3>1. CASE b = c
      BY <2>1, <3>1
    <3>2. CASE b # c
      <4>1. token[b] \in DOMAIN sources /\ sources[token[b]] = b
        BY <2>1, <3>2 DEF SourcesAreLiveStreams
      <4> QED
        BY <2>1, <2>3, <4>1
    <3> QED
      BY <3>1, <3>2
  <2>6. {sources'[k] : k \in DOMAIN sources'} = {b \in Conn : phase'[b] = "live"}
    <3>1. \A k \in DOMAIN sources' : sources'[k] \in Conn /\ phase'[sources'[k]] = "live"
      BY <2>4, Zenon DEF SourcesMatchTokens
    <3>2. \A b \in Conn : phase'[b] = "live" => \E k \in DOMAIN sources' : sources'[k] = b
      BY <2>5, Zenon
    <3> HIDE DEF MapInv, Typed, TypeOK
    <3> QED
      BY <3>1, <3>2
  <2>7. SourcesAreLiveStreams'
    BY <2>1, <2>5, <2>6 DEF SourcesAreLiveStreams
  <2> QED
    BY <2>4, <2>7
<1> QED
  BY <1>2, <1>3, <1>4 DEF Register

LEMMA TurnKeepsMap ==
  ASSUME MapInv, Typed', NEW c \in Conn,
         TurnOf(c, PollTask(c) \/ ReturnPending(c) \/ Shutdown(c) \/ DropStream(c))
  PROVE  MapInv'
<1> USE DEF MapInv, Typed, TypeOK
<1>1. UNCHANGED <<nextToken, token, batch>>
  BY DEF TurnOf, loopVars
<1>2. CASE PollTask(c) \/ ReturnPending(c) \/ Shutdown(c)
  <2>1. UNCHANGED <<sources, phase>>
    BY <1>2 DEF PollTask, ReturnPending, Shutdown
  <2> QED
    BY <1>1, <2>1, MapUntouched DEF Numbered, Known, mapVars
<1>3. CASE DropStream(c)
  <2>1. /\ phase[c] = "live" /\ phase' = [phase EXCEPT ![c] = "dropped"]
        /\ sources' = [k \in DOMAIN sources \ {token[c]} |-> sources[k]]
    BY <1>3 DEF DropStream, Drop
  <2>2. Numbered' \subseteq Numbered
    BY <1>1, <2>1 DEF Numbered, Known
  <2>3. TokensUnique'
    BY <1>1, <2>2 DEF TokensUnique
  <2>4. \A k \in DOMAIN sources : k # token[c] => sources[k] # c
    BY DEF SourcesMatchTokens
  <2>5. SourcesMatchTokens'
    BY <1>1, <2>1, <2>4 DEF SourcesMatchTokens
  <2>6. \A d \in Conn : phase'[d] = "live" => token[d] # token[c]
    BY <2>1 DEF TokensUnique, Numbered, Known
  <2>7. \A b \in Conn : phase'[b] = "live" =>
         token[b] \in DOMAIN sources' /\ sources'[token[b]] = b
    BY <2>1, <2>6 DEF SourcesAreLiveStreams
  <2>8. {sources'[k] : k \in DOMAIN sources'} = {b \in Conn : phase'[b] = "live"}
    <3>1. \A k \in DOMAIN sources' : sources'[k] \in Conn /\ phase'[sources'[k]] = "live"
      BY <2>5, Zenon DEF SourcesMatchTokens
    <3>2. \A b \in Conn : phase'[b] = "live" => \E k \in DOMAIN sources' : sources'[k] = b
      BY <2>7, Zenon
    <3> HIDE DEF MapInv, Typed, TypeOK
    <3> QED
      BY <3>1, <3>2
  <2>9. SourcesAreLiveStreams'
    BY <1>1, <2>7, <2>8 DEF SourcesAreLiveStreams
  <2> QED
    BY <2>3, <2>5, <2>9
<1> QED
  BY <1>2, <1>3 DEF TurnOf

LEMMA NextKeepsMap == MapInv /\ [Next]_vars => MapInv'
<1> SUFFICES ASSUME MapInv, [Next]_vars PROVE MapInv'
  OBVIOUS
<1>1. Typed'
  BY NextTyped DEF MapInv
<1>2. CASE UNCHANGED vars
  BY <1>1, <1>2, MapUntouched DEF vars, loopVars, mapVars, Numbered, Known
<1>3. ASSUME NEW c \in Conn, ClientStep(c) \/ PollIo(c)
      PROVE  MapInv'
  BY <1>1, <1>3, MapUntouched DEF ClientStep, PollIo, loopVars, Numbered, Known
<1>4. CASE Next
  BY <1>1, <1>3, <1>4, ReactorKeepsMap, RegisterKeepsMap, TurnKeepsMap, TaskSteps DEF Next
<1> QED
  BY <1>2, <1>4

\* Nothing leaks in `sources`, and no live stream is missing there.
THEOREM MapHoldsLiveStreams == Spec => []SourcesAreLiveStreams
<1>1. Init => MapInv
  BY InitMap
<1>2. MapInv /\ [Next]_vars => MapInv'
  BY NextKeepsMap
<1>3. MapInv => SourcesAreLiveStreams
  BY DEF MapInv
<1> QED
  BY <1>1, <1>2, <1>3, PTL DEF Spec

\* An event is for the stream it was reported for, or for none: the tokens of dropped
\* streams are not given out again.
THEOREM EventsAreNotMistaken == Spec => []EventsReachTheirStream
<1>1. Init => MapInv
  BY InitMap
<1>2. MapInv /\ [Next]_vars => MapInv'
  BY NextKeepsMap
<1>3. MapInv => EventsReachTheirStream
  BY DEF MapInv, Typed, TypeOK, TokensUnique, SourcesMatchTokens, EventsReachTheirStream,
         Numbered, Known
<1> QED
  BY <1>1, <1>2, <1>3, PTL DEF Spec

-----------------------------------------------------------------------------
(* The double check of poll_ready. *)

\* While a task is between registering its waker and looking at the flag again, the
\* waker is in its slot, unless the reactor has taken it.
RecheckIsArmed ==
  \A c \in Conn : pc[c] = "recheck" => Io(c) \in interest \/ WakeInFlight(c)

\* ReadyPendingIsArmed of every stream: nothing is pending where there is no task.
PendingIsCovered ==
  \A c \in Conn : \A d \in Dir :
    <<c, d>> \in pending \ unarmed => <<c, d>> \in interest \ triggered \/ WakeInFlight(c)

ArmInv == Typed /\ RecheckIsArmed /\ PendingIsCovered

LEMMA InitArmed == Init => ArmInv
BY InitTyped DEF Init, ArmInv, RecheckIsArmed, PendingIsCovered

\* The reactor takes a waker out of its slot only to wake the task.
LEMMA ReactorKeepsArmed ==
  ASSUME ArmInv, Typed', ReactorStep
  PROVE  ArmInv'
<1> USE DEF ArmInv, Typed, TypeOK, RecheckIsArmed, PendingIsCovered, WakeInFlight, Io
<1>1. UNCHANGED <<pc, dir, pending, unarmed>>
  BY DEF ReactorStep, taskVars, resultVars
<1>2. CASE PollEvents \/ TakeEvent \/ EventsDone \/ WakersDone
  <2>1. UNCHANGED <<interest, triggered, woken>> /\ wakers \subseteq wakers'
    BY <1>2 DEF PollEvents, TakeEvent, EventsDone, WakersDone, sourceVars
  <2> QED
    BY <1>1, <2>1
<1>3. CASE ApplyEvent
  <2>1. PICK c \in Conn, d \in Dir :
          /\ wakers' = IF <<c, d>> \in interest THEN wakers \cup {c} ELSE wakers
          /\ interest' = interest \ {<<c, d>>}
          /\ triggered' = triggered \cup {<<c, d>>}
    BY <1>3 DEF ApplyEvent, ApplyThen
  <2>2. UNCHANGED woken
    BY <1>3 DEF ApplyEvent, ApplyThen
  <2> QED
    BY <1>1, <2>1, <2>2
<1>4. CASE WakeTask
  <2>1. UNCHANGED <<interest, triggered>> /\ woken' \cup wakers' = woken \cup wakers
    BY <1>4 DEF WakeTask, sourceVars
  <2> QED
    BY <1>1, <2>1
<1> QED
  BY <1>2, <1>3, <1>4 DEF ReactorStep

LEMMA PollIoKeepsArmed ==
  ASSUME ArmInv, Typed', NEW c \in Conn, PollIo(c)
  PROVE  ArmInv'
<1> USE DEF ArmInv, Typed, TypeOK, RecheckIsArmed, PendingIsCovered, WakeInFlight, Goto, Leave,
            Io
<1>1. UNCHANGED <<wakers, woken>>
  BY DEF PollIo, loopVars
<1>2. CASE BeginIo(c)
  BY <1>1, <1>2 DEF BeginIo, sourceVars, resultVars
<1>3. CASE RegisterWaker(c)
  BY <1>1, <1>3 DEF RegisterWaker, Arm
<1>4. CASE Recheck(c)
  <2>1. UNCHANGED <<interest, triggered, unarmed>>
    BY <1>4 DEF Recheck, sourceVars
  <2>2. /\ \A b \in Conn \ {c} : pc'[b] = pc[b] /\ dir'[b] = dir[b]
        /\ pc[c] = "recheck" /\ pc'[c] # "recheck"
    BY <1>4 DEF Recheck
  <2>3. pending' = pending \/ (pending' = pending \cup {Io(c)} /\ Io(c) \notin triggered)
    <3> HIDE DEF Io, TypeOK, RecheckIsArmed, PendingIsCovered
    <3> QED
      BY <1>4 DEF Recheck
  <2>4. Io(c) \in interest \/ c \in wakers \cup woken
    BY <2>2
  <2>5. RecheckIsArmed'
    BY <1>1, <2>1, <2>2
  <2>6. PendingIsCovered'
    BY <1>1, <2>1, <2>3, <2>4
  <2> QED
    BY <2>5, <2>6
<1>5. CASE Transfer(c) \/ Flush(c) \/ StreamEnds(c) \/ WouldBlock(c)
  <2>1. UNCHANGED <<interest, triggered, pending, unarmed>>
    BY <1>5 DEF Transfer, Move, Flush, StreamEnds, WouldBlock, sourceVars, resultVars
  <2>2. /\ \A b \in Conn \ {c} : pc'[b] = pc[b] /\ dir'[b] = dir[b]
        /\ pc'[c] # "recheck"
    BY <1>5 DEF Transfer, Move, Flush, StreamEnds, WouldBlock
  <2> QED
    BY <1>1, <2>1, <2>2
<1>6. CASE ClearTrigger(c)
  BY <1>1, <1>6 DEF ClearTrigger
<1> QED
  BY <1>2, <1>3, <1>4, <1>5, <1>6 DEF PollIo

\* A wake-up is used up only by a poll that starts afresh.
LEMMA TurnKeepsArmed ==
  ASSUME ArmInv, Typed', NEW c \in Conn,
         TurnOf(c, PollTask(c) \/ ReturnPending(c) \/ Shutdown(c) \/ DropStream(c))
  PROVE  ArmInv'
<1> USE DEF ArmInv, Typed, TypeOK, RecheckIsArmed, PendingIsCovered, WakeInFlight, Goto, Afresh,
            Of, Io
<1>1. UNCHANGED <<interest, triggered, wakers, dir>>
  BY DEF TurnOf, loopVars, sourceVars
<1>2. CASE PollTask(c) \/ DropStream(c)
  <2>1. /\ pending' = pending \ ({c} \X Dir) /\ unarmed' = unarmed \ ({c} \X Dir)
        /\ woken \ {c} \subseteq woken'
    BY <1>2 DEF PollTask, DropStream, Drop
  <2>2. /\ \A b \in Conn \ {c} : pc'[b] = pc[b]
        /\ pc'[c] # "recheck"
    BY <1>2 DEF PollTask, DropStream, Drop
  <2> QED
    BY <1>1, <2>1, <2>2
<1>3. CASE ReturnPending(c) \/ Shutdown(c)
  <2>1. UNCHANGED <<pending, unarmed, woken>>
    BY <1>3 DEF ReturnPending, Shutdown, resultVars
  <2>2. /\ \A b \in Conn \ {c} : pc'[b] = pc[b]
        /\ pc'[c] # "recheck"
    BY <1>3 DEF ReturnPending, Shutdown
  <2> QED
    BY <1>1, <2>1, <2>2
<1> QED
  BY <1>2, <1>3 DEF TurnOf

LEMMA NextKeepsArmed == ArmInv /\ [Next]_vars => ArmInv'
<1> SUFFICES ASSUME ArmInv, [Next]_vars PROVE ArmInv'
  OBVIOUS
<1>1. Typed'
  BY NextTyped DEF ArmInv
<1>2. ASSUME UNCHANGED <<sourceVars, wakers, taskVars>>, woken \subseteq woken'
      PROVE  ArmInv'
  BY <1>1, <1>2 DEF sourceVars, taskVars, resultVars, ArmInv, RecheckIsArmed, PendingIsCovered,
                    WakeInFlight, Io
<1>3. CASE UNCHANGED vars
  BY <1>2, <1>3 DEF vars, loopVars
<1>4. ASSUME NEW c \in Conn, ClientStep(c) \/ Register(c)
      PROVE  ArmInv'
  BY <1>2, <1>4 DEF ClientStep, Register, RegisterSocket, RegisterAs, RegisterFails,
                    InsertSource, loopVars
<1>5. CASE Next
  BY <1>1, <1>4, <1>5, ReactorKeepsArmed, PollIoKeepsArmed, TurnKeepsArmed, TaskSteps DEF Next
<1> QED
  BY <1>3, <1>5

\* What poll_ready calls pending is armed, or the wake-up is on its way.
THEOREM ReadyPendingIsSafe == Spec => []ReadyPendingIsArmed
<1>1. Init => ArmInv
  BY InitArmed
<1>2. ArmInv /\ [Next]_vars => ArmInv'
  BY NextKeepsArmed
<1>3. ArmInv => ReadyPendingIsArmed
  BY DEF ArmInv, PendingIsCovered, ReadyPendingIsArmed
<1> QED
  BY <1>1, <1>2, <1>3, PTL DEF Spec

-----------------------------------------------------------------------------
(* What becomes of readiness. *)

\* The event loop has nothing left over from the events before.
LoopState ==
  /\ rpc \in {"poll", "wake"} => batch = {}
  /\ rpc # "apply" => current = {}

\* All that a socket is ready for has raised the flag, or will, or was thrown away.
ReadinessIsTracked ==
  \A c \in Known : \A d \in Readiness(c) :
    <<c, d>> \in triggered \cup lost \/ EventUnderWay(c, d)

TrackInv == MapInv /\ LoopState /\ ReadinessIsTracked

\* Readiness that is not new was tracked before.
LEMMA StillTracked ==
  ASSUME ReadinessIsTracked, UNCHANGED <<batch, current, triggered, lost>>,
         \A c \in Known' : \A d \in Readiness(c)' :
           c \in edge' \/ (c \in Known /\ d \in Readiness(c) /\ c \notin edge)
  PROVE  ReadinessIsTracked'
BY DEF ReadinessIsTracked, EventUnderWay

LEMMA ClientKeepsTrack ==
  ASSUME TrackInv, NEW c \in Conn, ClientStep(c)
  PROVE  LoopState' /\ ReadinessIsTracked'
<1> USE DEF TrackInv, MapInv, Typed, TypeOK
<1>1. UNCHANGED <<rpc, batch, current, triggered, lost, phase>>
  BY DEF ClientStep, loopVars, sourceVars
<1>2. Known' = Known /\ edge \subseteq edge'
  BY <1>1 DEF Known, ClientStep, ClientSends, ClientCloses, ClientReceives
<1>3. ASSUME NEW b \in Known', NEW d \in Readiness(b)'
      PROVE  b \in edge' \/ (b \in Known /\ d \in Readiness(b) /\ b \notin edge)
  <2> SUFFICES ASSUME b \notin edge' PROVE d \in Readiness(b)
    BY <1>2
  <2>1. CASE b = c
    <3>1. ClientReceives(c) /\ room[c] # 0
      BY <1>2, <2>1 DEF ClientStep, ClientSends, ClientCloses, ClientReceives, Known
    <3>2. UNCHANGED <<inbound, end>> /\ room[c] > 0
      BY <3>1 DEF ClientReceives, clientVars
    <3> QED
      BY <2>1, <3>2 DEF Readiness, CanRead, CanWrite
  <2>2. CASE b # c
    <3>1. b \in Conn /\ inbound'[b] = inbound[b] /\ end'[b] = end[b] /\ room'[b] = room[b]
      BY <2>2 DEF Known, ClientStep, ClientSends, ClientCloses, ClientReceives, clientVars
    <3> QED
      BY <3>1 DEF Readiness, CanRead, CanWrite
  <2> QED
    BY <2>1, <2>2
<1>4. ReadinessIsTracked'
  BY <1>1, <1>3, StillTracked
<1> QED
  BY <1>1, <1>4 DEF LoopState

LEMMA RegisterKeepsTrack ==
  ASSUME TrackInv, NEW c \in Conn, Register(c)
  PROVE  LoopState' /\ ReadinessIsTracked'
<1> USE DEF TrackInv, MapInv, Typed, TypeOK
<1>1. UNCHANGED <<rpc, batch, current, triggered, lost, inbound, room, end>>
  BY DEF Register, loopVars, sourceVars, bufferVars, clientVars
<1>2. Known' \subseteq Known \cup (edge' \ edge) /\ edge \subseteq edge'
  BY DEF Known, Register, RegisterSocket, RegisterAs, RegisterFails, InsertSource
<1>3. \A b \in Conn : Readiness(b)' = Readiness(b)
  BY <1>1 DEF Readiness, CanRead, CanWrite
<1>4. ReadinessIsTracked'
  <2>1. Known' \subseteq Conn
    BY DEF Known
  <2>2. \A b \in Known' : \A d \in Readiness(b)' :
          b \in edge' \/ (b \in Known /\ d \in Readiness(b) /\ b \notin edge)
    BY <1>2, <1>3, <2>1
  <2> QED
    BY <1>1, <2>2, StillTracked
<1> QED
  BY <1>1, <1>4 DEF LoopState

LEMMA ReactorKeepsTrack ==
  ASSUME TrackInv, ReactorStep
  PROVE  LoopState' /\ ReadinessIsTracked'
<1> USE DEF TrackInv, MapInv, Typed, TypeOK
<1>1. UNCHANGED <<inbound, room, end, phase, sources, token>>
  BY DEF ReactorStep, bufferVars, clientVars, mapVars
<1>2. Known' = Known /\ \A c \in Conn : Readiness(c)' = Readiness(c)
  BY <1>1 DEF Known, Readiness, CanRead, CanWrite
<1>3. Known \subseteq Conn /\ \A c \in Conn : Readiness(c) \subseteq Dir
  BY DEF Known, Readiness
<1> USE DEF LoopState, ReadinessIsTracked, EventUnderWay
<1>4. CASE PollEvents
  <2>1. PICK S \in SUBSET {c \in edge : Readiness(c) # {}} :
          /\ batch' = {[conn |-> c, dirs |-> Readiness(c)] : c \in S}
          /\ edge' = edge \ S
    BY <1>4 DEF PollEvents
  <2>2. /\ rpc = "poll" /\ rpc' = "events" /\ batch = {} /\ current = {}
        /\ UNCHANGED <<current, triggered, lost>>
    BY <1>4 DEF PollEvents, sourceVars
  <2>3. ASSUME NEW c \in Known, NEW d \in Readiness(c), c \in edge
        PROVE  c \in edge' \/ \E e \in batch' : e.conn = c /\ d \in e.dirs
    <3>1. CASE c \notin S
      BY <2>1, <2>3, <3>1
    <3>2. CASE c \in S
      <4> DEFINE e == [conn |-> c, dirs |-> Readiness(c)]
      <4>1. e \in batch' /\ e.conn = c /\ d \in e.dirs
        BY <2>1, <2>3, <3>2
      <4> QED
        BY <4>1
    <3> QED
      BY <3>1, <3>2
  <2> QED
    BY <1>2, <1>3, <2>2, <2>3
<1>5. CASE TakeEvent
  <2>1. PICK e \in batch :
          /\ batch' = batch \ {e}
          /\ IF token[e.conn] \in DOMAIN sources
             THEN /\ current' = {sources[token[e.conn]]} \X e.dirs
                  /\ rpc' = "apply" /\ lost' = lost
             ELSE /\ lost' = lost \cup (({e.conn} \cap Known) \X e.dirs)
                  /\ current' = current /\ rpc' = rpc
    BY <1>5 DEF TakeEvent
  <2>2. rpc = "events" /\ current = {} /\ UNCHANGED <<edge, triggered>>
    BY <1>5 DEF TakeEvent
  <2>3. token[e.conn] \in DOMAIN sources => sources[token[e.conn]] = e.conn
    BY <2>1 DEF TokensUnique, SourcesMatchTokens, Numbered, Known
  <2>4. ASSUME NEW c \in Known, NEW d \in Readiness(c), e.conn = c, d \in e.dirs
        PROVE  <<c, d>> \in current' \cup lost'
    BY <2>1, <2>3, <2>4
  <2>5. lost \subseteq lost'
    BY <2>1
  <2>6. ASSUME NEW c \in Known, NEW d \in Readiness(c)
        PROVE  \/ <<c, d>> \in triggered \cup lost' \cup current'
               \/ c \in edge
               \/ \E f \in batch' : f.conn = c /\ d \in f.dirs
    <3>1. CASE <<c, d>> \in triggered \cup lost \/ c \in edge
      BY <2>5, <3>1
    <3>2. CASE \E f \in batch : f.conn = c /\ d \in f.dirs
      BY <2>1, <2>4, <3>2
    <3> QED
      BY <2>2, <3>1, <3>2
  <2>7. ReadinessIsTracked'
    <3>1. ASSUME NEW c \in Known', NEW d \in Readiness(c)'
          PROVE  <<c, d>> \in triggered' \cup lost' \/ EventUnderWay(c, d)'
      <4>1. c \in Known /\ d \in Readiness(c)
        BY <1>2, <1>3, <3>1
      <4>2. \/ <<c, d>> \in triggered \cup lost' \cup current'
            \/ c \in edge
            \/ \E f \in batch' : f.conn = c /\ d \in f.dirs
        BY <2>6, <4>1
      <4> QED
        BY <2>2, <4>2
    <3> QED
      BY <3>1
  <2> QED
    BY <2>1, <2>2, <2>7
<1>6. CASE ApplyEvent
  <2>1. PICK c \in Conn, d \in Dir :
          /\ <<c, d>> \in current /\ current' = current \ {<<c, d>>}
          /\ triggered' = triggered \cup {<<c, d>>}
          /\ lost' = lost \ {<<c, d>>}
    BY <1>6 DEF ApplyEvent, ApplyThen
  <2>2. /\ rpc = "apply" /\ rpc' = IF current' = {} THEN "events" ELSE "apply"
        /\ UNCHANGED <<edge, batch>>
    BY <1>6 DEF ApplyEvent, ApplyThen
  <2> QED
    BY <1>2, <1>3, <2>1, <2>2
<1>7. CASE EventsDone \/ WakeTask \/ WakersDone
  <2>1. /\ UNCHANGED <<edge, batch, current, triggered, lost>>
        /\ rpc # "apply"
        /\ rpc' \in {"poll", "wake"} /\ (rpc = "events" => batch = {})
    BY <1>7 DEF EventsDone, WakeTask, WakersDone, sourceVars
  <2> QED
    BY <1>2, <1>3, <2>1
<1> QED
  BY <1>4, <1>5, <1>6, <1>7 DEF ReactorStep

LEMMA PollIoKeepsTrack ==
  ASSUME TrackInv, NEW c \in Conn, PollIo(c)
  PROVE  LoopState' /\ ReadinessIsTracked'
<1> USE DEF TrackInv, MapInv, Typed, TypeOK
<1>1. UNCHANGED <<end, edge, phase, rpc, batch, current>>
  BY DEF PollIo, loopVars, clientVars
<1>2. Known' = Known /\ Known \subseteq Conn /\ \A b \in Conn : Readiness(b) \subseteq Dir
  BY <1>1 DEF Known, Readiness
<1>3. ASSUME UNCHANGED <<triggered, lost>>, \A b \in Conn : Readiness(b)' \subseteq Readiness(b)
      PROVE  ReadinessIsTracked'
  BY <1>1, <1>2, <1>3 DEF ReadinessIsTracked, EventUnderWay
<1>4. CASE Transfer(c)
  <2>1. UNCHANGED <<triggered, lost>>
    BY <1>4 DEF Transfer, Move, sourceVars
  <2>2. \A b \in Conn : /\ inbound'[b] > 0 => inbound[b] > 0
                        /\ room'[b] > 0 => room[b] > 0
    <3>1. CASE Reading(c)
      BY <1>4, <3>1 DEF Transfer, Move
    <3>2. CASE ~Reading(c)
      BY <1>4, <3>2 DEF Transfer, Move
    <3> QED
      BY <3>1, <3>2
  <2>3. \A b \in Conn : Readiness(b)' \subseteq Readiness(b)
    BY <1>1, <2>2 DEF Readiness, CanRead, CanWrite
  <2> QED
    BY <1>1, <1>3, <2>1, <2>3 DEF LoopState
<1>5. CASE BeginIo(c) \/ RegisterWaker(c) \/ Recheck(c) \/ Flush(c) \/ StreamEnds(c) \/ WouldBlock(c)
  <2>1. UNCHANGED <<inbound, room, triggered, lost>>
    BY <1>5 DEF BeginIo, RegisterWaker, Arm, Recheck, Flush, StreamEnds, WouldBlock, bufferVars,
                sourceVars
  <2>2. \A b \in Conn : Readiness(b)' = Readiness(b)
    BY <1>1, <2>1 DEF Readiness, CanRead, CanWrite
  <2> QED
    BY <1>1, <1>3, <2>1, <2>2 DEF LoopState
<1>6. CASE ClearTrigger(c)
  <2>1. /\ UNCHANGED <<inbound, room>>
        /\ triggered' = triggered \ {Io(c)}
        /\ lost' = IF dir[c] \in Readiness(c) THEN lost \cup {Io(c)} ELSE lost
    BY <1>6 DEF ClearTrigger, bufferVars
  <2>2. \A b \in Conn : Readiness(b)' = Readiness(b)
    BY <1>1, <2>1 DEF Readiness, CanRead, CanWrite
  <2>3. ASSUME NEW b \in Known, NEW d \in Readiness(b), <<b, d>> \in triggered \cup lost
        PROVE  <<b, d>> \in triggered' \cup lost'
    BY <2>1, <2>3 DEF Io
  <2> QED
    BY <1>1, <1>2, <2>2, <2>3 DEF LoopState, ReadinessIsTracked, EventUnderWay
<1> QED
  BY <1>4, <1>5, <1>6 DEF PollIo

LEMMA TurnKeepsTrack ==
  ASSUME TrackInv, NEW c \in Conn,
         TurnOf(c, PollTask(c) \/ ReturnPending(c) \/ Shutdown(c) \/ DropStream(c))
  PROVE  LoopState' /\ ReadinessIsTracked'
<1> USE DEF TrackInv, MapInv, Typed, TypeOK
<1>1. UNCHANGED <<end, rpc, batch, current, triggered, lost>>
  BY DEF TurnOf, loopVars, clientVars, sourceVars
<1>2. CASE PollTask(c) \/ ReturnPending(c) \/ Shutdown(c)
  <2>1. UNCHANGED <<inbound, room, phase>> /\ edge \subseteq edge'
    BY <1>2 DEF PollTask, ReturnPending, Shutdown, bufferVars
  <2>2. Known' = Known /\ \A b \in Conn : Readiness(b)' = Readiness(b)
    BY <1>1, <2>1 DEF Known, Readiness, CanRead, CanWrite
  <2>3. Known \subseteq Conn
    BY DEF Known
  <2> QED
    BY <1>1, <2>1, <2>2, <2>3 DEF LoopState, ReadinessIsTracked, EventUnderWay
<1>3. CASE DropStream(c)
  <2>1. /\ edge' = edge \ {c} /\ phase' = [phase EXCEPT ![c] = "dropped"]
        /\ \A b \in Conn \ {c} : inbound'[b] = inbound[b] /\ room'[b] = room[b]
    BY <1>3 DEF DropStream, Drop
  <2>2. Known' = Known \ {c}
    BY <2>1 DEF Known
  <2>3. \A b \in Conn \ {c} : Readiness(b)' = Readiness(b)
    BY <1>1, <2>1 DEF Readiness, CanRead, CanWrite
  <2>4. Known \subseteq Conn
    BY DEF Known
  <2> QED
    BY <1>1, <2>1, <2>2, <2>3, <2>4 DEF LoopState, ReadinessIsTracked, EventUnderWay
<1> QED
  BY <1>2, <1>3 DEF TurnOf

LEMMA NextKeepsTrack == TrackInv /\ [Next]_vars => TrackInv'
<1> SUFFICES ASSUME TrackInv, [Next]_vars PROVE LoopState' /\ ReadinessIsTracked'
  BY NextKeepsMap DEF TrackInv
<1>1. CASE UNCHANGED vars
  BY <1>1 DEF vars, clientVars, bufferVars, sourceVars, loopVars, TrackInv, LoopState,
              ReadinessIsTracked, EventUnderWay, Known, Readiness, CanRead, CanWrite
<1>2. CASE Next
  BY <1>2, ClientKeepsTrack, RegisterKeepsTrack, ReactorKeepsTrack, PollIoKeepsTrack,
     TurnKeepsTrack, TaskSteps DEF Next
<1> QED
  BY <1>1, <1>2

\* What is behind ReadsStallOnlyThere and WritesStallOnlyThere, for any number of streams
\* and of events per poll: a task that waits for what its socket is ready for is found.
THEOREM ReadyTasksWakeUp == Spec => []ReadyTasksAreFound
<1>1. Init => TrackInv /\ ArmInv
  BY InitMap, InitArmed DEF Init, TrackInv, LoopState, ReadinessIsTracked, Known
<1>2. TrackInv /\ ArmInv /\ [Next]_vars => TrackInv' /\ ArmInv'
  BY NextKeepsTrack, NextKeepsArmed
<1>3. TrackInv /\ ArmInv => ReadyTasksAreFound
  <2> SUFFICES ASSUME TrackInv, ArmInv, NEW c \in Conn, NEW d \in Readiness(c),
                      phase[c] = "live", <<c, d>> \in pending \ (unarmed \cup lost),
                      ~WakeInFlight(c)
               PROVE  <<c, d>> \in interest /\ EventUnderWay(c, d)
    BY DEF ReadyTasksAreFound
  <2>1. d \in Dir /\ c \in Known
    BY DEF Readiness, Known
  <2>2. <<c, d>> \in interest \ triggered
    BY <2>1 DEF ArmInv, PendingIsCovered
  <2>3. EventUnderWay(c, d)
    BY <2>1, <2>2 DEF TrackInv, ReadinessIsTracked
  <2> QED
    BY <2>2, <2>3
<1> QED
  BY <1>1, <1>2, <1>3, PTL DEF Spec
=============================================================================
