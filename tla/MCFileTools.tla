----------------------------- MODULE MCFileTools -----------------------------
(* Instances of what the file tools read, for TLC.  A behaviour is one of the part
   that `part` names; the variables of the others stay as they are at the start.

   Tools: read, write and edit calls of two sessions.  Configuration: two calls over
   two layers.  Reads: one call on a file that others change, replace and remove. *)
EXTENDS FileTools, ConfigLayers, FileReads, TLC

CONSTANTS Other,         \* what another process writes
          Among          \* the parts a run looks at

VARIABLES
  part,
  original, edits, outcome, retried,
  whole, byteLimit, lineLimit, firstLine, lastLine, nextLine, page, added, shown

Strings(S, m, n) == UNION {[1 .. k -> S] : k \in m .. n}

Edits == INSTANCE EditTexts WITH
  EditTextsOf <- Strings({"a", "b"}, 1, 5), Olds <- Strings({"a", "b"}, 1, 2),
  News <- {<<>>, <<"a", "b">>}, MaxReplacements <- 2, HintLimit <- 3

Pages == INSTANCE ReadPages WITH
  PageTexts <- Strings({"a", "w", "\n", "\r"}, 0, 4),
  ByteLimits <- {2, 3, 4}, LineLimits <- {1, 2, 3},
  ContextSizes <- {[bytes |-> n, lines |-> 1] : n \in {1, 2}},
  FirstLines <- {1, 2}, LastLines <- {0, 2}

ASSUME Edits!EditAssumption /\ Pages!PagesAssumption

editVars == <<original, edits, outcome, retried>>
pageVars == <<whole, byteLimit, lineLimit, firstLine, lastLine, nextLine, page, added, shown>>

MCContents == {Missing, {Other}}
MCTexts == {<<>>, <<"b">>, <<"a", CR, LF>>, <<BOM, CR, "b">>, <<LF, NUL, "a">>}

(* The calls are alike, and so are the sessions: a behaviour in which they come in
   another order is the same one with other names.  They begin in the order of the turns. *)
Turns(S) == CHOOSE f \in [S -> 1 .. Cardinality(S)] : \A c, d \in S : f[c] = f[d] => c = d
ToolTurn == Turns(ToolCalls)
CallTurn == Turns(Calls)
InOrder(turn, idle) == \A c \in idle, d \in DOMAIN turn : turn[c] < turn[d] => d \in idle
FirstSession == CHOOSE s \in Sessions : TRUE

\* All files start with the same content, all paths on the same file; what is not looked at
\* starts in one way.
MCInit ==
  /\ part \in Among
  /\ place = CHOOSE i \in Inodes : TRUE
  /\ IF part = "tools" THEN TRUE ELSE link = [p \in Paths |-> CHOOSE f \in Files : TRUE]
  /\ IF part = "config" THEN TRUE ELSE keeps = TRUE
  /\ IF part = "reads" THEN TRUE
     ELSE scan = TRUE /\ stable = TRUE /\ limited = TRUE
          /\ text = [i \in Inodes |-> IF i = place THEN <<>> ELSE <<"b">>]
  /\ IF part = "edits" THEN TRUE
     ELSE original = <<"a">> /\ edits = <<[old |-> <<"a">>, new |-> <<>>, all |-> TRUE]>>
  /\ IF part = "pages" THEN TRUE
     ELSE whole = <<>> /\ byteLimit = 2 /\ lineLimit = 1 /\ firstLine = 1 /\ lastLine = 0
  /\ Edits!EditInit /\ Pages!PagesInit /\ ToolsInit /\ ConfigInit /\ ReadsInit
  /\ \A f \in Files : disk[f] = {Other}
  /\ \A p, q \in Paths : link[p] = link[q]
  /\ \A i \in Inodes : i # place => text[i] = <<"b">>

\* A behaviour has steps of others or a third call, or the end of the session.
ToolsInOrder ==
  /\ InOrder(ToolTurn, {c \in ToolCalls : toolPc'[c] = "idle"})
  /\ \A c \in ToolCalls : ToolTurn[c] = 1 => session'[c] \in {None, FirstSession}
  /\ accepting' \/ (outside' = 0 /\ \A c \in ToolCalls : ToolTurn[c] = 3 => tool'[c] = None)

\* One version of a layer at most is broken, nothing changes while no call is under way,
\* and a behaviour has edits or a shutdown.
ConfigInOrder == InOrder(CallTurn, {c \in Calls : pc'[c] = "idle"})
OneBroken == Cardinality(broken'.syntax \cup broken'.schema) <= 1
WhileBusy ==
  <<version, disposed>>' # <<version, disposed>> => \E c \in Calls : pc[c] \in {"print", "wait"}
EditsOrEnd == disposed' => version' = [l \in Layers |-> 0]

MCNext ==
  \/ part = "tools" /\ ToolsNext /\ ToolsInOrder
     /\ UNCHANGED <<part, configVars, readVars, editVars, pageVars>>
  \/ part = "config" /\ ConfigNext /\ ConfigInOrder /\ OneBroken /\ WhileBusy /\ EditsOrEnd
     /\ UNCHANGED <<part, toolVars, readVars, editVars, pageVars>>
  \/ part = "reads" /\ ReadsNext
     /\ UNCHANGED <<part, toolVars, configVars, editVars, pageVars>>
  \/ part = "edits" /\ Edits!EditNext
     /\ UNCHANGED <<part, toolVars, configVars, readVars, pageVars>>
  \/ part = "pages" /\ Pages!Read
     /\ UNCHANGED <<part, toolVars, configVars, readVars, editVars>>
MCSpec == MCInit /\ [][MCNext]_<<part, toolVars, configVars, readVars, editVars, pageVars>>

\* FileReads: lines.  ReadPages: what a reader sees page by page.
\* EditTexts: an edit does to the text what it was asked; what it hints at instead can be
\* done.
TextsExact ==
  /\ part = "edits" => Edits!EditsAsAsked /\ Edits!HintsWork
  /\ LinesExact
  /\ Pages!PagesAddUp /\ Pages!PagesWithinLimits /\ Pages!NewlineOfLines
=============================================================================
