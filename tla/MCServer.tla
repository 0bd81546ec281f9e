------------------------------ MODULE MCServer ------------------------------
(* Small instances of Server for TLC. *)
EXTENDS Server

CONSTANTS h1, h2, c1, c2

Thread2 == {h1, h2}
Conn1   == {c1}
Conn2   == {c1, c2}
=============================================================================
