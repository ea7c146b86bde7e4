------------------------------ MODULE EditTexts ------------------------------
(***************************************************************************)
(* What an edit does to a text (file-tools/edit): a list of replacements,  *)
(* all of them looked for in the text as it was (edit/command.ts), and,    *)
(* when an `old` is found more than once, the replacements it is told to   *)
(* try instead (edit/hints.ts).                                            *)
(*                                                                         *)
(* A text is a sequence of characters; positions count from 1, and a match *)
(* is the half-open range [from, to).  Left out: how the input is          *)
(* validated, the limit on bytes, the mark at the start of a file, diffs,  *)
(* the line a hint names, and characters of two code units.                *)
(***************************************************************************)
EXTENDS Integers, Sequences, SequencesExt, FiniteSetsExt

CONSTANTS EditTextsOf,     \* the texts of the file
          Olds, News,      \* what replacements look for and put in its place
          MaxReplacements, \* bound: replacements of one edit
          HintLimit        \* how many hints are shown

EditAssumption == <<>> \notin Olds /\ HintLimit \in Nat

VARIABLES
  original, edits,   \* the text of the file and the replacements asked for
  outcome,           \* what the edit answers
  retried            \* what the first, the second, ... hint do to the text

editVars == <<original, edits, outcome, retried>>

Replacements == [old : Olds, new : News, all : BOOLEAN]
Unanswered == [status |-> "none", edit |-> 0, text |-> <<>>, count |-> 0, hints |-> <<>>]
Refused(status, k, hints) ==
  [Unanswered EXCEPT !.status = status, !.edit = k, !.hints = hints]

\* The n characters before position i, the n characters from it on.
Before(text, i, n) == SubSeq(text, i - n, i - 1)
From(text, i, n) == SubSeq(text, i, i + n - 1)
OccursAt(text, i, needle) ==
  i + Len(needle) - 1 <= Len(text) /\ From(text, i, Len(needle)) = needle

\* Every position where the needle is found, as far as a search that goes on behind
\* each of them sees them.
FindAllOverlapping(text, needle) ==
  SelectSeq([i \in 1 .. Len(text) |-> i], LAMBDA i : OccursAt(text, i, needle))
FindAll(text, needle) ==
  LET found[i \in 1 .. Len(text) + Len(needle)] ==
        IF i > Len(text) THEN <<>>
        ELSE IF OccursAt(text, i, needle) THEN <<i>> \o found[i + Len(needle)]
        ELSE found[i + 1]
  IN found[1]

-----------------------------------------------------------------------------
\* Where the text around two positions stops being the same.
CommonSuffix(text, i, j) ==
  CHOOSE n \in 0 .. Len(text) :
    /\ n < i /\ n < j /\ Before(text, i, n) = Before(text, j, n)
    /\ n + 1 < i /\ n + 1 < j => Before(text, i, n + 1) # Before(text, j, n + 1)
CommonPrefix(text, i, j) ==
  CHOOSE n \in 0 .. Len(text) :
    /\ i + n <= Len(text) + 1 /\ j + n <= Len(text) + 1 /\ From(text, i, n) = From(text, j, n)
    /\ i + n <= Len(text) /\ j + n <= Len(text) => From(text, i, n + 1) # From(text, j, n + 1)

RightNeededOfNext(text, old, start, starts, left) ==
  Max({0} \cup {CommonPrefix(text, start + Len(old), other + Len(old)) + 1 :
                  other \in {s \in ToSet(starts) : s > start /\ left <= CommonSuffix(text, start, s)}})

\* The characters needed on the right of a match, when so many are taken on its left, to
\* tell it from the other matches.
RightNeeded(text, old, start, starts, left) ==
  Max({0} \cup {CommonPrefix(text, start + Len(old), other + Len(old)) + 1 :
                  other \in {s \in ToSet(starts) : s # start /\ left <= CommonSuffix(text, start, s)}})

\* A context is how many characters it takes on the left and on the right; the shortest is
\* taken, and of those the one with fewest on the left.
Shorter(c, d) ==
  c.left + c.right < d.left + d.right \/ (c.left + c.right = d.left + d.right /\ c.left < d.left)
Contexts(text, old, start) ==
  [left : 0 .. start - 1, right : 0 .. Len(text) - start - Len(old) + 1]
Within(text, old, start, c) ==
  SubSeq(text, start - c.left, start + Len(old) + c.right - 1)
FoundOnce(text, old, start, c) == Len(FindAll(text, Within(text, old, start, c))) = 1
Shortest(S) == CHOOSE c \in S : \A d \in S \ {c} : Shorter(c, d)

ShortestUniqueContext(text, old, start, starts) ==
  LET all == Contexts(text, old, start)
      told == {c \in all : c.right = RightNeeded(text, old, start, starts, c.left)}
      once == {c \in all : FoundOnce(text, old, start, c)}
  IN IF told # {} /\ FoundOnce(text, old, start, Shortest(told)) THEN Shortest(told)
     ELSE IF once # {} THEN Shortest(once)
     ELSE [left |-> start - 1, right |-> Len(text) - start - Len(old) + 1]

\* Hints for the first matches: what to look for instead, and what to put in its place.
EditMatchHints(text, edit, starts) ==
  [n \in 1 .. (IF Len(starts) < HintLimit THEN Len(starts) ELSE HintLimit) |->
     LET start == starts[n]
         c == ShortestUniqueContext(text, edit.old, start, starts)
     IN [start |-> start,
         old |-> Within(text, edit.old, start, c),
         new |-> Before(text, start, c.left) \o edit.new
                   \o From(text, start + Len(edit.old), c.right)]]

-----------------------------------------------------------------------------
Starts(text, list, k) == FindAll(text, list[k].old)
NotFound(text, list) == {k \in DOMAIN list : Starts(text, list, k) = <<>>}
NotUnique(text, list) ==
  {k \in DOMAIN list : Len(Starts(text, list, k)) > 1 /\ ~list[k].all}
\* All matches, by where they start.
Matches(text, list) ==
  FlattenSeq([i \in DOMAIN text |->
    FlattenSeq([k \in DOMAIN list |->
      IF i \in ToSet(Starts(text, list, k))
      THEN <<[from |-> i, to |-> i + Len(list[k].old), edit |-> k]>> ELSE <<>>])])

OverlappingByOneUnseen(matches) ==
  \E n \in 2 .. Len(matches) : matches[n].from + 1 < matches[n - 1].to
Overlapping(matches) ==
  \E n \in 2 .. Len(matches) : matches[n].from < matches[n - 1].to

\* The text with every match replaced, from left to right.
Replaced(text, list, matches) ==
  LET step(done, m) ==
        [text |-> done.text \o SubSeq(text, done.cursor, m.from - 1) \o list[m.edit].new,
         cursor |-> m.to]
      all == FoldLeft(step, [text |-> <<>>, cursor |-> 1], matches)
  IN all.text \o SubSeq(text, all.cursor, Len(text))

\* The replacements are looked for one after the other, and the first that is not found, or
\* found too often, is the answer.
ApplyReplacements(text, list) ==
  LET wrong == NotFound(text, list) \cup NotUnique(text, list)
      matches == Matches(text, list)
  IN IF wrong # {}
     THEN LET k == Min(wrong)
          IN IF k \in NotFound(text, list) THEN Refused("OLD_TEXT_NOT_FOUND", k, <<>>)
             ELSE Refused("OLD_TEXT_NOT_UNIQUE", k,
                          EditMatchHints(text, list[k], Starts(text, list, k)))
     ELSE IF Overlapping(matches) THEN Refused("OVERLAPPING_REPLACEMENTS", 0, <<>>)
     ELSE [Unanswered EXCEPT !.status = "applied", !.count = Len(matches),
                             !.text = Replaced(text, list, matches)]

-----------------------------------------------------------------------------
EditInit ==
  /\ original \in EditTextsOf
  /\ edits \in UNION {[1 .. n -> Replacements] : n \in 1 .. MaxReplacements}
  /\ outcome = Unanswered
  /\ retried = <<>>

Edit ==
  /\ outcome = Unanswered
  /\ outcome' = ApplyReplacements(original, edits)
  /\ UNCHANGED <<original, edits, retried>>

\* The model does what the hints say, one or another of them, on the same text.
Retry ==
  /\ outcome.hints # <<>> /\ retried = <<>>
  /\ retried' = [n \in DOMAIN outcome.hints |->
                   ApplyReplacements(original, <<[old |-> outcome.hints[n].old,
                                                  new |-> outcome.hints[n].new, all |-> FALSE]>>)]
  /\ UNCHANGED <<original, edits, outcome>>

EditNext == Edit \/ Retry
EditSpec == EditInit /\ [][EditNext]_editVars

-----------------------------------------------------------------------------
\* Where `old` stands in the text, and, for a replacement of all of them, the ones that are
\* disjoint and leave out only positions that overlap one before.
Occurrences(text, needle) == {i \in 1 .. Len(text) : OccursAt(text, i, needle)}
Leftmost(text, needle) ==
  CHOOSE S \in SUBSET Occurrences(text, needle) :
    /\ \A i, j \in S : i < j => i + Len(needle) <= j
    /\ \A i \in Occurrences(text, needle) : \E j \in S : j <= i /\ i < j + Len(needle)
Covers(m, i) == m.from <= i /\ i < m.to
Wanted ==
  UNION {{[from |-> i, to |-> i + Len(edits[k].old), edit |-> k] :
            i \in Leftmost(original, edits[k].old)} : k \in DOMAIN edits}
\* An `old` that must be unique and stands at places that overlap one another: the search
\* goes on behind a match and counts such places once.
CountedOnce ==
  \E k \in DOMAIN edits :
    /\ ~edits[k].all
    /\ Leftmost(original, edits[k].old) # Occurrences(original, edits[k].old)
Possible ==
  /\ \A k \in DOMAIN edits :
       LET n == Cardinality(Occurrences(original, edits[k].old))
       IN n = 1 \/ (n > 1 /\ edits[k].all)
  /\ \A i \in DOMAIN original, m, n \in Wanted : Covers(m, i) /\ Covers(n, i) => m = n
\* The text, position by position: what is not matched stays, what is matched is replaced
\* where its match begins.
Edited ==
  FlattenSeq([i \in DOMAIN original |->
    IF \E m \in Wanted : m.from = i
    THEN edits[(CHOOSE m \in Wanted : m.from = i).edit].new
    ELSE IF \E m \in Wanted : Covers(m, i) THEN <<>> ELSE <<original[i]>>])

\* An edit is applied if and only if every `old` is in the text, and only once unless all of
\* them are to be replaced, and no match overlaps one of another replacement; all of them
\* are looked for in the text as it was, in whatever order they are given, and everything
\* else stays (edit/command.ts:230; docs/file-tools/edit.md:20).  What the code does with an
\* `old` that must be unique and overlaps itself is not claimed: see CountedOnce.
EditsAsAsked ==
  outcome.status # "none" /\ ~CountedOnce =>
    /\ outcome.status = "applied" <=> Possible
    /\ Possible => outcome.text = Edited /\ outcome.count = Cardinality(Wanted)

\* What a hint says can be tried as it is, and replaces the match it was given for and
\* nothing else (edit/hints.ts:3, docs/file-tools/edit.md:34) - unless occurrences of `old`
\* can overlap: the search goes on behind a match and sees only one of those.
HintWorks(n) ==
  LET hint == outcome.hints[n]  edit == edits[outcome.edit]
  IN /\ retried[n].status = "applied"
     /\ retried[n].text = Before(original, hint.start, hint.start - 1) \o edit.new
          \o SubSeq(original, hint.start + Len(edit.old), Len(original))
Overlaps(needle) ==
  \E n \in 1 .. Len(needle) - 1 : From(needle, 1, n) = From(needle, Len(needle) - n + 1, n)
HintsWork ==
  \A n \in DOMAIN retried : HintWorks(n) \/ Overlaps(edits[outcome.edit].old)
=============================================================================
