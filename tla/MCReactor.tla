----------------------------- MODULE MCReactor ------------------------------
(* Small instances of Reactor for TLC. *)
EXTENDS Reactor, TLC

CONSTANTS c1, c2

Conn1 == {c1}
Conn2 == {c1, c2}

\* Streams are interchangeable.  For runs without liveness only.
Symmetry == Permutations(Conn)
=============================================================================
