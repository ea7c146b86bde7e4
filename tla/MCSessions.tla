---------------------------- MODULE MCSessions -----------------------------
(* Instances of RepoMapSession and LspDocuments for TLC: a behaviour is one of the
   component that `part` names, and the variables of the other stay as they are.

   Repository map: a mutation, two queries that may share a stale refresh, one
   session start and one /init, around one /init off and one checkout.  A session
   that begins with a map of another revision ("moved") starts no other session.
   Language server: two writes that share a file, or a write and a read, with room
   for one document.  Two writes need no server that publishes.                *)
EXTENDS RepoMapSession, LspDocuments, TLC

CONSTANTS a1, a2, w1, w2, r1

VARIABLE part

MCUrisOf == w1 :> {a1, a2} @@ w2 :> {a1}
MCUriOf == r1 :> a1
MCCapabilities == [sync : {TRUE}, pull : BOOLEAN] \cup {[sync |-> FALSE, pull |-> FALSE]}
MCPlans == {{w1, w2}, {w1, r1}}

\* The queries are alike.
QuerySymmetry == Permutations(Queries)

MCInit ==
  /\ part \in {"map", "moved", "documents"}
  /\ SessionInit
  /\ CASE part = "map" -> cur \in {Nothing, [head |-> 0, files |-> 0]}
       [] part = "moved" -> cur = [head |-> 1, files |-> 0]
       [] part = "documents" -> cur = Nothing
  /\ DocsInit /\ doc[a2] = NoDoc
  /\ IF part = "documents" THEN caps.sync /\ ~caps.pull => call[r1].at = "idle"
                           ELSE caps.pull /\ doc[a1] = NoDoc /\ call[r1].at = "idle"
MCNext ==
  \/ part = "map" /\ SessionNext /\ UNCHANGED <<part, docsVars>>
  \/ /\ part = "moved" /\ SessionNext /\ (\A r \in Runs : pc'[r] = "idle")
     /\ UNCHANGED <<part, docsVars>>
  \/ part = "documents" /\ DocsNext /\ UNCHANGED <<part, sessionVars>>
MCSpec == MCInit /\ [][MCNext]_<<part, sessionVars, docsVars>>
============================================================================
