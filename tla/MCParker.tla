------------------------------ MODULE MCParker ------------------------------
(* A small instance of Parker for TLC. *)
EXTENDS Parker

CONSTANTS k1, k2, k3

Waker3 == {k1, k2, k3}
=============================================================================
