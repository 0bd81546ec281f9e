---------------------------- MODULE ParkerProofs ----------------------------
(***************************************************************************)
(* Proofs about Parker, for any number of threads that call wake.          *)
(***************************************************************************)
EXTENDS Parker, TLAPS

\* NoLostWakeup by itself is not inductive: that an event is followed by an
\* unpark has to be traced through the two hand-overs on the way, from the waker
\* to `parked` and from `parked` to the token.
IInv == TypeOK /\ EventIsPosted /\ MarkIsDelivered

LEMMA InitEstablishes == Init => IInv
BY DEF Init, IInv, TypeOK, EventIsPosted, MarkIsDelivered

LEMMA BlockerPreserves ==
  ASSUME IInv, Begin \/ Blocker \/ SpuriousUnpark \/ StrayUnpark
  PROVE  IInv'
<1> USE DEF IInv, TypeOK, EventIsPosted, MarkIsDelivered
<1>1. CASE Begin
  BY <1>1 DEF Begin
<1>2. CASE PollReady \/ PollPending
  BY <1>2 DEF PollReady, PollPending, Poll
<1>3. CASE SwapParked
  BY <1>3 DEF SwapParked
<1>4. CASE SwapWoken
  BY <1>4 DEF SwapWoken
<1>5. CASE Unblock \/ SpuriousUnpark
  <2>1. pc = "park" /\ pc' = "swap" /\ token' = FALSE /\ UNCHANGED <<parked, wpc, unseen>>
    BY <1>5 DEF Unblock, SpuriousUnpark
  <2>2. TypeOK'
    BY <2>1
  <2>3. EventIsPosted'
    BY <2>1
  <2>4. MarkIsDelivered'
    BY <2>1
  <2> QED
    BY <2>2, <2>3, <2>4
<1>6. CASE StrayUnpark
  BY <1>6 DEF StrayUnpark
<1> QED
  BY <1>1, <1>2, <1>3, <1>4, <1>5, <1>6 DEF Blocker

LEMMA WakerPreserves ==
  ASSUME IInv, NEW k \in Waker, Fire(k) \/ WakeSwap(k) \/ Unpark(k)
  PROVE  IInv'
<1> USE DEF IInv, TypeOK, EventIsPosted, MarkIsDelivered
<1>1. CASE Fire(k)
  BY <1>1 DEF Fire
<1>2. CASE WakeSwap(k)
  BY <1>2 DEF WakeSwap
<1>3. CASE Unpark(k)
  BY <1>3 DEF Unpark
<1> QED
  BY <1>1, <1>2, <1>3

LEMMA NextPreserves == IInv /\ [Next]_vars => IInv'
<1> SUFFICES ASSUME IInv, [Next]_vars PROVE IInv'
  OBVIOUS
<1>1. CASE UNCHANGED vars
  BY <1>1 DEF vars, IInv, TypeOK, EventIsPosted, MarkIsDelivered
<1> QED
  BY <1>1, BlockerPreserves, WakerPreserves DEF Next

\* Every event is handed on: from the waker to `parked`, from `parked` to the park
\* token (executor.rs:35-39, 57-59).
THEOREM Invariance == Spec => []IInv
BY InitEstablishes, NextPreserves, PTL DEF Spec

\* However many wakers there are: an event that the pending future does not know of has
\* left its mark on `parked`, or is about to (executor.rs:35, 57).
THEOREM EventsArePosted == Spec => []EventIsPosted
BY Invariance, PTL DEF IInv

\* And the mark comes with an unpark when the thread is in park (executor.rs:36-37, 58).
THEOREM MarksAreDelivered == Spec => []MarkIsDelivered
BY Invariance, PTL DEF IInv

\* However many wakers there are, none of their wake-ups is lost: a thread that stays
\* in park with an event unseen has someone on the way to get it up
\* (executor.rs:35-39, 57-59).
THEOREM WakeupsAreNotLost == Spec => []NoLostWakeup
<1>1. IInv => NoLostWakeup
  BY DEF IInv, TypeOK, EventIsPosted, MarkIsDelivered, NoLostWakeup
<1> QED
  BY <1>1, Invariance, PTL

\* A Parker is a WakeSignal, stray tokens and spurious returns of park
\* notwithstanding: a pending future is polled again only after a wake-up, and
\* wake-ups for an earlier future are forgotten (executor.rs:29-46, 55-60).
THEOREM SignalImplemented == Spec => SignalSafe
<1>1. Init => Signal!Init
  BY DEF Init, Signal!Init
<1>2. IInv /\ [Next]_vars => [Signal!Next]_(Signal!vars)
  <2> SUFFICES ASSUME IInv, [Next]_vars PROVE [Signal!Next]_(Signal!vars)
    OBVIOUS
  <2> USE DEF IInv, TypeOK, Signal!vars
  <2>1. CASE Begin
    BY <2>1 DEF Begin, Signal!Next, Signal!Begin
  <2>2. CASE PollReady
    BY <2>2 DEF PollReady, Poll, Signal!Next, Signal!Return
  <2>3. CASE PollPending
    BY <2>3 DEF PollPending, Poll, Signal!Next, Signal!Sleep
  <2>4. CASE SwapParked
    BY <2>4 DEF SwapParked
  <2>5. CASE SwapWoken
    BY <2>5 DEF SwapWoken, Signal!Next, Signal!Resume
  <2>6. CASE Unblock \/ SpuriousUnpark \/ StrayUnpark
    BY <2>6 DEF Unblock, SpuriousUnpark, StrayUnpark
  <2>7. ASSUME NEW k \in Waker, WakeSwap(k)
        PROVE  Signal!Next
    BY <2>7 DEF WakeSwap, Signal!Next, Signal!Wake
  <2>8. ASSUME NEW k \in Waker, Fire(k) \/ Unpark(k)
        PROVE  UNCHANGED Signal!vars
    BY <2>8 DEF Fire, Unpark
  <2>9. CASE UNCHANGED vars
    BY <2>9 DEF vars
  <2> QED
    BY <2>1, <2>2, <2>3, <2>4, <2>5, <2>6, <2>7, <2>8, <2>9 DEF Next, Blocker
<1> QED
  BY <1>1, <1>2, Invariance, PTL DEF Spec, SignalSafe, Signal!Safe
=============================================================================
