------------------------------- MODULE Parker -------------------------------
(***************************************************************************)
(* Parker of src/src/executor.rs: block_on puts a thread to sleep while a  *)
(* future is pending, wake gets it up again.  The worker loop of the       *)
(* thread pool and Body::next (src/src/http.rs) run every future this way. *)
(*                                                                         *)
(* One action is one operation on memory that other threads see: a swap or *)
(* store of `parked`, one call of thread::park or Thread::unpark, one poll *)
(* of the future.  All operations on the one atomic `parked` are totally   *)
(* ordered, and a swap that reads FALSE acquires what the swap that wrote  *)
(* it released, so the future sees every event whose wake-up it is resumed *)
(* by.                                                                     *)
(***************************************************************************)

CONSTANT Waker    \* the threads that hold a clone of the waker

VARIABLES parked,  \* Parker::parked
          token,   \* the park token of the thread (std::thread::park)
          pc,      \* where the thread in block_on is
          wpc,     \* where each waker thread is in wake
          unseen   \* has an event happened that the future was not polled after?

vars == <<parked, token, pc, wpc, unseen>>

Init == /\ parked = TRUE
        /\ token = FALSE
        /\ pc = "idle"
        /\ wpc = [k \in Waker |-> "idle"]
        /\ unseen = FALSE

-----------------------------------------------------------------------------
(* Parker::block_on.  The same Parker serves one future after the other. *)

Begin == /\ pc = "idle"
         /\ parked' = TRUE
         /\ pc' = "poll"
         /\ UNCHANGED <<token, wpc, unseen>>

\* The future is polled.  It finds all that has happened so far, and is ready
\* or not: that is its own affair.
Poll(next) == /\ pc = "poll"
              /\ unseen' = FALSE
              /\ pc' = next
              /\ UNCHANGED <<parked, token, wpc>>

PollReady   == Poll("idle")
PollPending == Poll("swap")

\* SwapParked with a bug: a store instead of a swap, so that what was there is lost.
StoreParked == /\ pc = "swap"
               /\ parked' = TRUE
               /\ pc' = "park"
               /\ UNCHANGED <<token, wpc, unseen>>

\* while self.parked.swap(true, Acquire): no wake-up yet, or there was one.
SwapParked == /\ pc = "swap"
              /\ parked
              /\ parked' = TRUE
              /\ pc' = "park"
              /\ UNCHANGED <<token, wpc, unseen>>

SwapWoken == /\ pc = "swap"
             /\ ~parked
             /\ parked' = TRUE
             /\ pc' = "poll"
             /\ UNCHANGED <<token, wpc, unseen>>

\* Unblock with a bug: an `if` instead of the `while`, the mark is not looked at again.
UnblockAnyway == /\ pc = "park"
                 /\ token
                 /\ token' = FALSE
                 /\ pc' = "poll"
                 /\ UNCHANGED <<parked, wpc, unseen>>

\* thread::park returns: at once when the token is there, and it may always
\* return for no reason.  Either way the token is gone.
Unblock == /\ pc = "park"
           /\ token
           /\ token' = FALSE
           /\ pc' = "swap"
           /\ UNCHANGED <<parked, wpc, unseen>>

SpuriousUnpark == /\ pc = "park"
                  /\ token' = FALSE
                  /\ pc' = "swap"
                  /\ UNCHANGED <<parked, wpc, unseen>>

-----------------------------------------------------------------------------
(* Wake for Parker, on another thread. *)

\* Something the future waits for happens; whoever brought it about goes on to
\* call wake.  The future may be one that is over by now: its wakers live on.
Fire(k) == /\ wpc[k] = "idle"
           /\ unseen' = TRUE
           /\ wpc' = [wpc EXCEPT ![k] = "swap"]
           /\ UNCHANGED <<parked, token, pc>>

\* WakeSwap with a bug: the condition is turned round, the thread in park is left there.
WakeSwapInverted(k) == /\ wpc[k] = "swap"
                       /\ parked' = FALSE
                       /\ wpc' = [wpc EXCEPT ![k] = IF parked THEN "idle" ELSE "unpark"]
                       /\ UNCHANGED <<token, pc, unseen>>

\* if self.parked.swap(false, Release)
WakeSwap(k) == /\ wpc[k] = "swap"
               /\ parked' = FALSE
               /\ wpc' = [wpc EXCEPT ![k] = IF parked THEN "unpark" ELSE "idle"]
               /\ UNCHANGED <<token, pc, unseen>>

\* self.thread.unpark()
Unpark(k) == /\ wpc[k] = "unpark"
             /\ token' = TRUE
             /\ wpc' = [wpc EXCEPT ![k] = "idle"]
             /\ UNCHANGED <<parked, pc, unseen>>

\* The park token belongs to the thread, not to the Parker: futures'
\* block_on, which runs the worker loop, or another Parker of the same thread
\* may leave it set.
StrayUnpark == /\ token' = TRUE
               /\ UNCHANGED <<parked, pc, wpc, unseen>>

Blocker == PollReady \/ PollPending \/ SwapParked \/ SwapWoken \/ Unblock

Next == \/ Begin \/ Blocker \/ SpuriousUnpark \/ StrayUnpark
        \/ \E k \in Waker : Fire(k) \/ WakeSwap(k) \/ Unpark(k)

Spec == Init /\ [][Next]_vars

\* The thread in block_on runs whenever park lets it, and whoever has begun a
\* wake-up goes through with it.  Nothing makes events happen.
FairSpec == /\ Spec
            /\ WF_vars(Blocker)
            /\ \A k \in Waker : WF_vars(WakeSwap(k) \/ Unpark(k))

-----------------------------------------------------------------------------
(* Properties. *)

TypeOK == /\ parked \in BOOLEAN
          /\ token \in BOOLEAN
          /\ pc \in {"idle", "poll", "swap", "park"}
          /\ wpc \in [Waker -> {"idle", "swap", "unpark"}]
          /\ unseen \in BOOLEAN

\* An event the pending future does not know of has left its mark on `parked`,
\* or is about to.
EventIsPosted ==
  pc \in {"swap", "park"} /\ unseen => ~parked \/ \E k \in Waker : wpc[k] = "swap"

\* And a mark on `parked` made while the thread is in park comes with an unpark.
MarkIsDelivered ==
  pc = "park" /\ ~parked => token \/ \E k \in Waker : wpc[k] = "unpark"

\* No lost wake-up: the thread never stays in park with an event its future was
\* not polled after, unless someone is still on the way to get it up.  This is
\* the interleaving of the swap, park, swap and unpark of executor.rs:35-39, 57-59.
NoLostWakeup ==
  pc = "park" /\ ~token /\ unseen => \E k \in Waker : wpc[k] # "idle"

\* Every event gets the pending future polled again.
EventsAreSeen == (pc \in {"swap", "park"} /\ unseen) ~> ~unseen

\* Stray tokens and spurious returns of park are invisible: a Parker is a
\* WakeSignal, so a pending future is polled again only after a wake-up.
Signal == INSTANCE WakeSignal WITH
            phase     <- CASE pc = "idle" -> "idle"
                           [] pc = "poll" -> "polling"
                           [] OTHER       -> "asleep",
            signalled <- ~parked
SignalSafe == Signal!Safe
SignalSpec == Signal!Spec
=============================================================================
