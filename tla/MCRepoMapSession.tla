--------------------------- MODULE MCRepoMapSession ---------------------------
(* A mutation, two queries that may share a stale refresh, one session start  *)
(* and one /init, around one /init off and one checkout.                      *)
EXTENDS RepoMapSession, TLC

CONSTANTS m1, q1, q2, r1, i1

\* The queries are alike.
QuerySymmetry == Permutations(Queries)
===============================================================================
