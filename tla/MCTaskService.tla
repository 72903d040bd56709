----------------------------- MODULE MCTaskService -----------------------------
(***************************************************************************)
(* Finite instances of TaskService for TLC.                                *)
(***************************************************************************)
EXTENDS TaskService

CONSTANTS t1, t2, k1

MCTasks == {t1, t2}

MCKeys == {k1}

(* t2 is a retry of t1. *)
MCKeyOf == [t \in MCTasks |-> k1]
=============================================================================
