---------------------------- MODULE MCWebuiTasks ----------------------------
(* Small instances of WebuiTasks for TLC. *)
EXTENDS WebuiTasks, TLC

\* Tasks, requests and chat queries are only compared for equality; used in the
\* configurations that check no liveness property.
Symmetry == Permutations(Tasks) \union Permutations(Requests)
=============================================================================
