----------------------------- MODULE MCMigration -----------------------------
(***************************************************************************)
(* A team of an administrator and a member, for TLC.                       *)
(***************************************************************************)
EXTENDS Migration, TLC

CONSTANTS t1, t2, r1, r2, w1, w2, boss, dev

RowSymmetry == Permutations(Tasks) \cup Permutations(Requests) \cup Permutations(Workers)
=============================================================================
