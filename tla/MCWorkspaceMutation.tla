------------------------- MODULE MCWorkspaceMutation -------------------------
(* Instances of WorkspaceMutation for TLC; the values are in the .cfg files. *)
EXTENDS WorkspaceMutation, TLC
CONSTANTS Other, FirstLink

MCContents == {Missing, {Other}}

\* Every lexical path starts on the file FirstLink (aliases of one file), and
\* each call has a path of its own when there are enough of them.  Behaviours
\* without a race in the last window need one path only.
MCInit ==
  /\ Init
  /\ \A p \in Paths : link[p] = FirstLink
  /\ \A f \in Files : disk[f] = IF f = FirstLink THEN disk[f] ELSE {Other}
  /\ IF mayRace THEN \A p \in Paths : \E c \in Calls : path[c] = p
                ELSE \A c, d \in Calls : path[c] = path[d]
MCFairSpec == MCInit /\ [][Next]_vars /\ \A c \in Calls : WF_vars(CallStep(c))
=============================================================================
