-------------------------- MODULE MCPipelineTriggers --------------------------
(***************************************************************************)
(* A pipeline of the branch main, two commits pushed to it, for TLC.       *)
(***************************************************************************)
EXTENDS PipelineTriggers, TLC

CONSTANTS t1, t2, t3, p1, p2, main

\* The branch is mapped to two image tags, so a delivery creates two rows.
Pushed == [p \in Pushes |-> main]
Tagged == [r \in Refs |-> 2]
RowSymmetry == Permutations(Tasks) \cup Permutations(Pushes)
=============================================================================
