----------------------------- MODULE ByteStream -----------------------------
(***************************************************************************)
(* What a body promises its user (src/src/http.rs): the bytes of its       *)
(* source one after the other, in pieces of any size; a user may let some  *)
(* of them go, but never gets them later; and after the end, which comes   *)
(* behind the last byte, or a failure there is nothing any more.           *)
(***************************************************************************)
EXTENDS Integers, Sequences

CONSTANTS Size,    \* how many bytes the source has
          MayFail  \* may the source fail?

VARIABLES at,    \* how many bytes are past
          got,   \* those that the user has got
          state  \* "open", "done" or "failed"

vars == <<at, got, state>>

Init == /\ at = 0
        /\ got = <<>>
        /\ state = "open"

Deliver(n) == /\ state = "open"
              /\ at' = at + n
              /\ got' = got \o [i \in 1..n |-> at + i]
              /\ UNCHANGED state

Skip(n) == /\ state = "open"
           /\ at' = at + n
           /\ UNCHANGED <<got, state>>

End == /\ state = "open"
       /\ at = Size
       /\ state' = "done"
       /\ UNCHANGED <<at, got>>

Fail == /\ state = "open"
        /\ MayFail
        /\ state' = "failed"
        /\ UNCHANGED <<at, got>>

Next == \/ \E n \in 1..(Size - at) : Deliver(n) \/ Skip(n)
        \/ End
        \/ Fail

Spec == Init /\ [][Next]_vars
=============================================================================
