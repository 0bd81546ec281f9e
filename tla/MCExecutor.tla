----------------------------- MODULE MCExecutor -----------------------------
(* Small instances of Executor for TLC. *)
EXTENDS Executor

CONSTANTS w1, w2, w3, t1, t2, t3, t4

Worker3 == {w1, w2, w3}
Task4   == {t1, t2, t3, t4}
NoTasks == {}
OneTask == {t1}
=============================================================================
