-------------------------- MODULE MCLspDocuments --------------------------
(* Two of three overlapping calls over two documents with room for one. *)
EXTENDS LspDocuments, TLC
CONSTANTS a, b, w1, w2, r1
MCUrisOf == w1 :> {a, b} @@ w2 :> {a}
MCUriOf == r1 :> a
MCCapabilities == [sync : {TRUE}, pull : BOOLEAN] \cup {[sync |-> FALSE, pull |-> FALSE]}
MCPlans == {{w1, w2}, {w1, r1}}
===========================================================================
