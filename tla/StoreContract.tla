---------------------------- MODULE StoreContract ----------------------------
(***************************************************************************)
(* What cached_store_connection promises the tasks of each process, without *)
(* saying how: the first answer settles which connection the process has,  *)
(* a copy of one build's whole store; every later answer is that one, and  *)
(* what it holds changes with a restart and not before.  Which build's it  *)
(* is the contract leaves open.  StoreExtraction implements it.            *)
(***************************************************************************)
CONSTANTS Processes,
          Callers,        \* <<process, task>>
          Connections,    \* a task's copy of a build's store
          None

VARIABLES conn,    \* the connection each process has
          answer   \* what each caller holds

Init ==
    /\ conn = [p \in Processes |-> None]
    /\ answer = [c \in Callers |-> None]

Serve(c, k) ==
    /\ answer[c] = None
    /\ conn[c[1]] \in {None, k}
    /\ conn' = [conn EXCEPT ![c[1]] = k]
    /\ answer' = [answer EXCEPT ![c] = k]

Return(c) ==
    /\ answer[c] # None
    /\ answer' = [answer EXCEPT ![c] = None]
    /\ UNCHANGED conn

Restart(p) ==
    /\ conn' = [conn EXCEPT ![p] = None]
    /\ answer' = [c \in Callers |-> IF c[1] = p THEN None ELSE answer[c]]

Next ==
    \/ \E c \in Callers : (\E k \in Connections : Serve(c, k)) \/ Return(c)
    \/ \E p \in Processes : Restart(p)

Spec == Init /\ [][Next]_<<conn, answer>>
=============================================================================
