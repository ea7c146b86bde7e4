------------------------------ MODULE ReadPages ------------------------------
(***************************************************************************)
(* Reading a text page by page: the `read` tool (read/command.ts) shows    *)
(* the lines of a range until a limit of lines or bytes is reached, and    *)
(* names the line to go on with (filesystem/services/text.ts).  When it    *)
(* can it adds what the repository map and the language server know; that  *)
(* takes room, so the page is cut a second time.                           *)
(*                                                                         *)
(* A character is LF, CR, one of one byte or one of several.  Left out:    *)
(* decoding, the file being changed between two pages (every page names    *)
(* its version), and what the added context says.                          *)
(***************************************************************************)
EXTENDS Integers, Sequences, SequencesExt, FiniteSetsExt

CONSTANTS PageTexts,    \* the texts
          ByteLimits, LineLimits,   \* limits.bytes, limits.lines
          ContextSizes,             \* sizes of an added context
          FirstLines, LastLines     \* what is asked for

LineFeed == "\n"
Return == "\r"
Wide == "w"      \* a character of two bytes
NoContext == [bytes |-> 0, lines |-> 0]
NoLine == 0

PagesAssumption ==
  /\ ByteLimits \subseteq Nat \ {0} /\ LineLimits \subseteq Nat \ {0}
  /\ \A s \in ContextSizes : s.bytes \in Nat \ {0} /\ s.lines \in Nat \ {0}
  /\ FirstLines \subseteq Nat \ {0} /\ LastLines \subseteq Nat

VARIABLES
  whole,              \* the text of the file
  byteLimit, lineLimit,
  firstLine, lastLine,   \* the range asked for; no last line is the end of the file
  nextLine,           \* the line the next page begins with, when there is more
  page, added,        \* the page that was shown last, and the size of its context
  shown               \* what the pages have shown so far

pageVars == <<whole, byteLimit, lineLimit, firstLine, lastLine, nextLine, page, added, shown>>

Bytes(s) == Len(s) + Cardinality({i \in DOMAIN s : s[i] = Wide})

\* The lines of a text with their ends, in one pass: cut after each of `ends`.
CutAfter(text, ends) ==
  [k \in 1 .. Cardinality(ends) |->
     LET to == CHOOSE e \in ends : Cardinality({d \in ends : d <= e}) = k
     IN SubSeq(text, Max({0} \cup {d \in ends : d < to}) + 1, to)]
IsEnd(text, i) ==
  \/ text[i] = LineFeed
  \/ text[i] = Return /\ ~(i < Len(text) /\ text[i + 1] = LineFeed)
LastOf(text) == IF text = <<>> THEN {} ELSE {Len(text)}
\* A CR of a pair ends a line, and its LF another.
LineRecordsOfEveryEnd(text) ==
  CutAfter(text, {i \in DOMAIN text : text[i] \in {LineFeed, Return}} \cup LastOf(text))
LineRecords(text) ==
  CutAfter(text, {i \in DOMAIN text : IsEnd(text, i)} \cup LastOf(text))

\* How many lines a text has: its line ends are made LF, and where one is it is split.
Normalized(text) ==
  {i \in DOMAIN text : \/ text[i] = Return
                       \/ text[i] = LineFeed /\ ~(i > 1 /\ text[i - 1] = Return)}
FinalNewline(text) == Last(text) \in {LineFeed, Return}
TotalLines(text) ==
  IF text = <<>> THEN 0
  ELSE Cardinality(Normalized(text)) + (IF FinalNewline(text) THEN 0 ELSE 1)

NewlineKind(text) ==
  LET pairs == Cardinality({i \in 1 .. Len(text) - 1 : text[i] = Return /\ text[i + 1] = LineFeed})
      feeds == Cardinality({i \in DOMAIN text : text[i] = LineFeed}) - pairs
      returns == Cardinality({i \in DOMAIN text : text[i] = Return}) - pairs
  IN IF feeds + pairs + returns = 0 THEN "none"
     ELSE IF returns > 0 \/ (feeds > 0 /\ pairs > 0) THEN "mixed"
     ELSE IF pairs > 0 THEN "crlf" ELSE "lf"

-----------------------------------------------------------------------------
Failed == [ok |-> FALSE, content |-> <<>>, start |-> NoLine, end |-> NoLine, more |-> NoLine]
Page(content, start, end, more) ==
  [ok |-> TRUE, content |-> content, start |-> start, end |-> end, more |-> more]

\* The lines from first to last, until a limit is reached; a line that is longer than the
\* limit refuses the page.
TooLong(record, bytes) == Bytes(record) > bytes
FullOneLate(taken, record, bytes, lines) ==
  Len(taken) >= lines \/ Bytes(FlattenSeq(taken)) > bytes
Full(taken, record, bytes, lines) ==
  Len(taken) >= lines \/ Bytes(FlattenSeq(taken)) + Bytes(record) > bytes

\* Where the page stops: at the first line that is too long or finds it full.
Stop(records, first, to, bytes, lines) ==
  Min({line \in first .. to :
         \/ TooLong(records[line], bytes)
         \/ Full(SubSeq(records, first, line - 1), records[line], bytes, lines)} \cup {to + 1})
Stopped(records, first, to, stop, bytes) ==
  IF stop <= to /\ TooLong(records[stop], bytes) THEN Failed
  ELSE Page(FlattenSeq(SubSeq(records, first, stop - 1)), first, stop - 1,
            IF stop <= to THEN stop ELSE NoLine)
SliceTo(records, first, to, bytes, lines) ==
  Stopped(records, first, to, Stop(records, first, to, bytes, lines), bytes)
Slice(text, first, last, bytes, lines) ==
  IF text = <<>> THEN Page(<<>>, 1, 0, NoLine)
  ELSE IF first > TotalLines(text) THEN Failed
  ELSE SliceTo(LineRecords(text), first,
               IF last = NoLine THEN TotalLines(text) ELSE Min({last, TotalLines(text)}),
               bytes, lines)

FitsExactly(size, bytes, lines) == size.bytes <= bytes /\ size.lines <= lines

\* The page is cut again in what the context leaves.  Context that leaves nothing is left
\* out, and so is one after which the page no longer can be cut.
Fits(size, bytes, lines) == size.bytes < bytes /\ size.lines < lines
Reserve(size, bytes, lines) == IF Fits(size, bytes, lines) THEN size ELSE NoContext
Together(g, s) == [bytes |-> g.bytes + s.bytes, lines |-> g.lines + s.lines]
Both(g, structure) == Together(g, Reserve(structure, byteLimit - g.bytes, lineLimit - g.lines))
Again(again, size, initial) ==
  IF again.ok THEN [page |-> again, added |-> size]
  ELSE [page |-> initial, added |-> NoContext]
WithContext(first, initial, size) ==
  Again(Slice(whole, first, lastLine, byteLimit - size.bytes, lineLimit - size.lines), size, initial)

-----------------------------------------------------------------------------
PagesInit ==
  /\ whole \in PageTexts
  /\ byteLimit \in ByteLimits /\ lineLimit \in LineLimits
  /\ firstLine \in FirstLines
  /\ lastLine \in {n \in LastLines : n = NoLine \/ n >= firstLine}
  /\ nextLine = firstLine
  /\ page = Failed /\ added = NoContext /\ shown = <<>>

\* A call for the lines that are left, and the context it finds: whole files that are not
\* cut need none.
Partial(first) == first # 1 \/ lastLine # NoLine
Shown(cut) ==
  /\ page' = cut.page /\ added' = cut.added
  /\ nextLine' = cut.page.more
  /\ shown' = shown \o cut.page.content
ReadFrom(first, initial) ==
  IF initial.ok /\ (Partial(first) \/ initial.more # NoLine)
  THEN \E graph, structure \in ContextSizes \cup {NoContext} :
         Shown(WithContext(first, initial, Both(Reserve(graph, byteLimit, lineLimit), structure)))
  ELSE Shown([page |-> initial, added |-> NoContext])
Read ==
  /\ nextLine # NoLine
  /\ ReadFrom(nextLine, Slice(whole, nextLine, lastLine, byteLimit, lineLimit))
  /\ UNCHANGED <<whole, byteLimit, lineLimit, firstLine, lastLine>>

PagesSpec == PagesInit /\ [][Read]_pageVars

-----------------------------------------------------------------------------
Lines(records) ==
  SubSeq(records, firstLine, IF lastLine = NoLine THEN Len(records) ELSE Min({lastLine, Len(records)}))
Wanted == Lines(LineRecords(whole))

\* A reader who goes on where each page says sees every character of the range once and in
\* order, gets on with every page, and is refused only where a line is too long for any
\* page (text.ts:60, docs/file-tools/read.md:67).
PagesAddUp ==
  /\ TotalLines(whole) = Len(LineRecords(whole))
  /\ page.ok => /\ IsPrefix(shown, FlattenSeq(Wanted))
                /\ page.more = NoLine => shown = FlattenSeq(Wanted)
                /\ page.more # NoLine => page.more > page.start
  /\ ~page.ok /\ nextLine = NoLine =>
       firstLine > TotalLines(whole) \/ \E n \in DOMAIN Wanted : TooLong(Wanted[n], byteLimit)

\* What is shown and what is added to it keep to the limits together (read/command.ts:203).
PagesWithinLimits ==
  page.ok => /\ Bytes(page.content) + added.bytes <= byteLimit
             /\ Len(LineRecords(page.content)) + added.lines <= lineLimit

\* How the ends of the lines are named is how the lines end.
EndOf(r) == IF Last(r) = Return THEN "cr"
            ELSE IF Last(r) # LineFeed THEN "none"
            ELSE IF Len(r) > 1 /\ r[Len(r) - 1] = Return THEN "crlf" ELSE "lf"
Named(kind, ends) ==
  CASE ends = {} -> kind = "none"
    [] ends = {"lf"} -> kind = "lf"
    [] ends = {"crlf"} -> kind = "crlf"
    [] OTHER -> kind = "mixed"
NewlineOfLines ==
  Named(NewlineKind(whole), {EndOf(r) : r \in ToSet(LineRecords(whole))} \ {"none"})
=============================================================================
