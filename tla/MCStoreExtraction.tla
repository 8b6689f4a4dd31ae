-------------------------- MODULE MCStoreExtraction --------------------------
(***************************************************************************)
(* StoreExtraction for TLC: one process whose two tasks ask at the same    *)
(* time and another with a single task.                                    *)
(***************************************************************************)
EXTENDS StoreExtraction

CONSTANTS p1, p2, t1, t2

MCProcesses == {p1, p2}
MCTasks == {t1, t2}
MCCallers == {<<p1, t1>>, <<p1, t2>>, <<p2, t1>>}
=============================================================================
