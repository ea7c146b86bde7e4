---------------------------- MODULE MCRepoMapStore ----------------------------
(* Two processes share the cache; the first makes two calls, one of them the *)
(* refresh after a mutation, the second one call.                            *)
EXTENDS RepoMapStore, TLC

CONSTANTS a1, a2, b1, P, Q

ProcessOfValue == a1 :> P @@ a2 :> P @@ b1 :> Q
==============================================================================
