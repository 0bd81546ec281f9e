----------------------------- MODULE WakeSignal -----------------------------
(***************************************************************************)
(* What Parker promises to block_on (src/src/executor.rs): a wake-up that  *)
(* comes between two polls is remembered, however many there are they      *)
(* count as one, and a future that is pending is not polled again without  *)
(* one.                                                                    *)
(***************************************************************************)
VARIABLES phase,     \* of the thread in block_on: "idle", "polling" or "asleep"
          signalled  \* has there been a wake-up since the last one was used up?

vars == <<phase, signalled>>

Init == /\ phase = "idle"
        /\ signalled = FALSE

\* block_on is called: wake-ups meant for an earlier future are forgotten.
Begin == /\ phase = "idle"
         /\ phase' = "polling"
         /\ signalled' = FALSE

Return == /\ phase = "polling"
          /\ phase' = "idle"
          /\ UNCHANGED signalled

Sleep == /\ phase = "polling"
         /\ phase' = "asleep"
         /\ UNCHANGED signalled

Resume == /\ phase = "asleep"
          /\ signalled
          /\ phase' = "polling"
          /\ signalled' = FALSE

Wake == /\ signalled' = TRUE
        /\ UNCHANGED phase

Next == Begin \/ Return \/ Sleep \/ Resume \/ Wake

Safe == Init /\ [][Next]_vars
Spec == Safe /\ WF_vars(Resume)
=============================================================================
