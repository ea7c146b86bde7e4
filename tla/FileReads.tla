------------------------------ MODULE FileReads ------------------------------
(***************************************************************************)
(* One call of readBytes or of scanLines (content.ts) on a file that is    *)
(* written in place, replaced, removed or hidden behind a link meanwhile:  *)
(* the guarded opening, the reading in pieces under a byte limit, the      *)
(* check that nothing changed, and the release of the handle.              *)
(*                                                                         *)
(* A file is a sequence of characters, of which the line ends, the byte    *)
(* order mark and NUL count.  Its version is its size and the millisecond  *)
(* of its last change (native-filesystem.ts:345), so that two changes in   *)
(* one millisecond may go unseen.  A resolution of the path (the namespace *)
(* service) is one look at where it leads.                                 *)
(***************************************************************************)
EXTENDS Integers, Sequences, FiniteSets

CONSTANTS Inodes, Texts,     \* the files and what may be in them
          Gone, Elsewhere,   \* the path leads to nothing, or through a link
          NoInode,
          MaxBytes,          \* the byte limit
          Piece,             \* what one read of the system returns at most (64 KiB)
          MaxChanges, MaxNow \* bounds: changes of the disk, milliseconds

LF == "LF"
CR == "CR"
BOM == "BOM"
NUL == "NUL"

ASSUME ReadsAssumption ==
  /\ \A t \in Texts : t \in Seq(STRING)
  /\ Gone \notin Inodes /\ Elsewhere \notin Inodes /\ NoInode \notin Inodes
  /\ MaxBytes \in Nat /\ Piece \in Nat \ {0}

VARIABLES
  place, text, stamp, now, changes,    \* the path, the files and their last change, the clock
  scan, stable, limited,               \* the call: scanLines or readBytes, and its options
  at, why, looked, handle, lent,       \* where it is, its first lstat and its handle
  first, loaded, aborted, result,     \* the version it began with, what it read, its result
  rest, lines,                         \* of a scan: the bytes of no line yet, and its lines
  moments, blurred                     \* history: what the path led to since the call began;
                                       \* a file changed twice in a millisecond
diskState == <<place, text, stamp, now, changes, moments, blurred>>
options == <<scan, stable, limited>>
readVars == <<diskState, options, at, why, looked, handle, lent, first, loaded, aborted, result,
              rest, lines>>

Size(i) == Len(text[i])
Version(i) == <<Size(i), stamp[i]>>
Least(S) == CHOOSE x \in S : \A y \in S : x <= y
Greatest(S) == CHOOSE x \in S : \A y \in S : x >= y

ReadsInit ==
  /\ place \in Inodes
  /\ text \in [Inodes -> Texts] /\ stamp = [i \in Inodes |-> 0]
  /\ now = 0 /\ changes = 0
  /\ scan \in BOOLEAN /\ stable \in BOOLEAN /\ limited \in BOOLEAN
  /\ at = "look" /\ why = "none" /\ looked = NoInode /\ handle = NoInode /\ lent = "never"
  /\ first = <<0, 0>> /\ loaded = <<>> /\ aborted = FALSE /\ result = "none"
  /\ rest = <<>> /\ lines = <<>>
  /\ moments = {text[place]} /\ blurred = FALSE

-----------------------------------------------------------------------------
(* The world. *)

ClockTick ==
  /\ at # "done" /\ now < MaxNow /\ now' = now + 1
  /\ UNCHANGED <<place, text, stamp, changes, moments, blurred, options, at, why, looked, handle,
                 lent, first, loaded, aborted, result, rest, lines>>

\* A writer changes a file in place; what it leaves may be half of what it is to write.
Overwrite(i) ==
  /\ at # "done" /\ changes < MaxChanges /\ changes' = changes + 1
  /\ text' \in {[text EXCEPT ![i] = t] : t \in Texts}
  /\ stamp' = [stamp EXCEPT ![i] = now]
  /\ blurred' = (blurred \/ stamp[i] = now)
  /\ moments' = IF place = i THEN moments \cup {text'[i]} ELSE moments
  /\ UNCHANGED <<place, now, options, at, why, looked, handle, lent, first, loaded, aborted,
                 result, rest, lines>>

\* Another file, a link or nothing takes the place of the file.
Replace ==
  /\ at # "done" /\ changes < MaxChanges /\ changes' = changes + 1
  /\ place' \in (Inodes \cup {Gone, Elsewhere}) \ {place}
  /\ moments' = IF place' \in Inodes THEN moments \cup {text[place']} ELSE moments
  /\ UNCHANGED <<text, stamp, now, blurred, options, at, why, looked, handle, lent, first, loaded,
                 aborted, result, rest, lines>>

Abort ==
  /\ at # "done" /\ ~aborted /\ aborted' = TRUE
  /\ UNCHANGED <<diskState, options, at, why, looked, handle, lent, first, loaded, result, rest, lines>>

-----------------------------------------------------------------------------
(* NodeNativeFileSystem.open: lstat, open, fstat, lstat. *)

OpenFails(reason) ==
  /\ at' = "recheck" /\ why' = reason
  /\ UNCHANGED <<diskState, options, first, loaded, aborted, result, rest, lines>>

Look ==
  /\ at = "look"
  /\ looked' = place
  /\ UNCHANGED <<handle, lent>>
  /\ IF aborted THEN OpenFails("aborted")
     ELSE IF place = Elsewhere THEN OpenFails("changed")
     ELSE IF place = Gone THEN OpenFails("failed")
     ELSE /\ at' = "open"
          /\ UNCHANGED <<diskState, options, why, first, loaded, aborted, result, rest, lines>>

OpenHandle ==
  /\ at = "open"
  /\ UNCHANGED looked
  /\ \/ OpenFails("failed") /\ UNCHANGED <<handle, lent>>   \* a link, nothing, no permission
     \/ /\ place \in Inodes
        /\ handle' = place /\ lent' = "open" /\ at' = "again"
        /\ UNCHANGED <<diskState, options, why, first, loaded, aborted, result, rest, lines>>

\* The handle was opened; an abort is noticed after open has let go of it.
Leaked(how) == IF aborted THEN "leaked" ELSE how
LookAgain ==
  /\ at = "again"
  /\ UNCHANGED <<looked, handle>>
  /\ IF place # handle \/ looked # handle
     THEN lent' = "closed" /\ OpenFails(IF place = Gone THEN "failed" ELSE "changed")
     ELSE /\ lent' = Leaked("open")
          /\ IF aborted THEN OpenFails("aborted")
             ELSE /\ at' = "validate"
                  /\ UNCHANGED <<diskState, options, why, first, loaded, aborted, result, rest, lines>>

-----------------------------------------------------------------------------
(* WorkspaceContentService. *)

\* The call ends, the handle is closed; readBytes reports a close that fails.
EndAs(outcome) ==
  /\ at' = "done"
  /\ result' \in {outcome} \cup (IF outcome = "ok" /\ ~scan THEN {"failed"} ELSE {})
  /\ lent' = IF lent = "open" THEN "closed" ELSE lent
  /\ UNCHANGED <<diskState, options, why, looked, handle, first, aborted>>

\* openValidatedFile after an error of open: the path is resolved again.
Recheck ==
  /\ at = "recheck"
  /\ EndAs(IF aborted THEN "aborted" ELSE IF place = Gone THEN "failed" ELSE why)
  /\ UNCHANGED <<loaded, rest, lines>>

\* revalidateOpenedFile: the path must still lead to the file that was opened.
SameFile == place = handle

TooLarge(size) == limited /\ size > MaxBytes

Validate ==
  /\ at = "validate"
  /\ UNCHANGED <<loaded, rest, lines>>
  /\ \/ aborted /\ EndAs("aborted")
     \/ ~aborted /\ ~SameFile /\ EndAs("changed")
     \/ ~aborted /\ SameFile /\ TooLarge(Size(handle)) /\ EndAs("large")
     \/ /\ ~aborted /\ SameFile /\ ~TooLarge(Size(handle))
        /\ first' = Version(handle) /\ at' = "read"
        /\ UNCHANGED <<diskState, options, why, looked, handle, lent, aborted, result>>

\* readBufferSize: up to the size the file had, one more to see its end, then pieces.
RoomWithoutLimit == IF Len(loaded) < first[1] THEN first[1] - Len(loaded) ELSE Piece
Room ==
  LET hint == first[1]
      p == Len(loaded)
      budget == IF limited THEN Least({Piece, MaxBytes - p + 1}) ELSE Piece
  IN  IF p < hint THEN Least({budget, hint - p}) ELSE IF p = hint THEN 1 ELSE budget

\* Where the lines of p end.
EndsAtEveryMark(p) == {i \in 1 .. Len(p) : p[i] = LF \/ (p[i] = CR /\ (i < Len(p) => p[i + 1] # LF))}
\* Where those end that are complete: a CR at the end may have an LF to come.
Ends(p) == {i \in 1 .. Len(p) : p[i] = LF \/ (p[i] = CR /\ i < Len(p) /\ p[i + 1] # LF)}
EndsInMark(p) == Len(p) > 0 /\ p[Len(p)] \in {LF, CR}
\* p from i to j without its line end.
Bare(p, i, j) ==
  IF j < i THEN <<>>
  ELSE IF p[j] = CR THEN SubSeq(p, i, j - 1)
  ELSE IF p[j] # LF THEN SubSeq(p, i, j)
  ELSE SubSeq(p, i, IF j > i /\ p[j - 1] = CR THEN j - 2 ELSE j - 1)
\* The text of a part of p; decoders drop the byte order marks it begins with, up to n.
Marks(s, n) == Cardinality({i \in 1 .. Len(s) : i <= n /\ \A j \in 1 .. i : s[j] = BOM})
Text(s, n) == SubSeq(s, Marks(s, n) + 1, Len(s))
Binary(s) == \E i \in 1 .. Len(s) : s[i] = NUL

\* The parts of p that the ends E cut off, without their line ends.
Cut(p, E) ==
  [k \in 1 .. Cardinality(E) |->
     LET to == CHOOSE i \in E : Cardinality({j \in E : j <= i}) = k
     IN  Bare(p, Greatest({0} \cup {j \in E : j < to}) + 1, to)]
\* decodeScannedLine: a byte order mark of the first line is dropped once more.
LineText(part, k) == Text(part, IF k = 1 THEN 3 ELSE 2)
Numbered(parts) == [k \in 1 .. Len(parts) |-> LineText(parts[k], Len(lines) + k)]

\* The lines that are complete with what was read are given out, up to one with a NUL.
GiveLines(p) ==
  LET E == Ends(p)
      parts == Cut(p, E)
      bad == {k \in 1 .. Len(parts) : Binary(parts[k])}
      good == IF bad = {} THEN parts ELSE SubSeq(parts, 1, Least(bad) - 1)
  IN  /\ lines' = lines \o Numbered(good)
      /\ rest' = SubSeq(p, Greatest({0} \cup E) + 1, Len(p))
      /\ IF bad = {} THEN UNCHANGED <<at, result, lent>>
         ELSE at' = "done" /\ result' = "binary" /\ lent' = "closed"

\* A read of the handle returns up to Room characters of what the file is now.
ReadPiece ==
  /\ at = "read" /\ ~aborted
  /\ \E n \in 1 .. Room :
       LET p == Len(loaded)
           piece == SubSeq(text[handle], p + 1, p + n)
       IN  /\ p + n <= Size(handle)
           /\ loaded' = loaded \o piece
           /\ IF TooLarge(p + n)
              THEN /\ at' = "done" /\ result' = "large" /\ lent' = "closed"
                   /\ UNCHANGED <<rest, lines>>
              ELSE IF scan THEN GiveLines(rest \o piece)
              ELSE UNCHANGED <<at, result, lent, rest, lines>>
  /\ UNCHANGED <<diskState, options, why, looked, handle, first, aborted>>

\* The last line of a scan; a file of a byte order mark alone has none.
LastLine == IF EndsInMark(rest) THEN SubSeq(rest, 1, Len(rest) - 1) ELSE rest
NoLastLine == rest = <<>> \/ (lines = <<>> /\ LastLine = <<BOM>>)

\* A read returns nothing: the end of the file.
ReadEnd ==
  /\ at = "read" /\ ~aborted /\ Size(handle) <= Len(loaded)
  /\ UNCHANGED loaded
  /\ IF scan /\ ~NoLastLine /\ Binary(LastLine)
     THEN EndAs("binary") /\ UNCHANGED <<rest, lines>>
     ELSE /\ lines' = IF scan /\ ~NoLastLine
                      THEN Append(lines, LineText(LastLine, Len(lines) + 1)) ELSE lines
          /\ rest' = <<>>
          /\ IF stable
             THEN /\ at' = "verify"
                  /\ UNCHANGED <<diskState, options, why, looked, handle, lent, first, aborted, result>>
             ELSE EndAs("ok")

ReadFails ==
  /\ at = "read"
  /\ EndAs(IF aborted THEN "aborted" ELSE "failed")
  /\ UNCHANGED <<loaded, rest, lines>>

\* verifyStable.
AnyVersion == TRUE
SameVersion == first = Version(handle)
Verify ==
  /\ at = "verify"
  /\ EndAs(IF aborted THEN "aborted" ELSE IF SameFile /\ SameVersion THEN "ok" ELSE "changed")
  /\ UNCHANGED <<loaded, rest, lines>>

\* Whoever reads the lines stops first the end.
StopScan ==
  /\ scan /\ at \in {"read", "verify"}
  /\ EndAs("stopped")
  /\ UNCHANGED <<loaded, rest, lines>>

ReadsNext ==
  \/ ClockTick \/ Replace \/ Abort \/ \E i \in Inodes : Overwrite(i)
  \/ Look \/ OpenHandle \/ LookAgain \/ Recheck \/ Validate
  \/ ReadPiece \/ ReadEnd \/ ReadFails \/ Verify \/ StopScan
ReadsSpec == ReadsInit /\ [][ReadsNext]_readVars

-----------------------------------------------------------------------------
Characters == Seq(STRING)

\* The types of the disk and of the call.
ReadsTypeOK ==
  /\ place \in Inodes \cup {Gone, Elsewhere}
  /\ text \in [Inodes -> Characters] /\ stamp \in [Inodes -> Nat]
  /\ now \in Nat /\ changes \in Nat
  /\ scan \in BOOLEAN /\ stable \in BOOLEAN /\ limited \in BOOLEAN
  /\ at \in {"look", "open", "again", "recheck", "validate", "read", "verify", "done"}
  /\ why \in {"none", "failed", "changed", "aborted"}
  /\ looked \in Inodes \cup {Gone, Elsewhere, NoInode} /\ handle \in Inodes \cup {NoInode}
  /\ lent \in {"never", "open", "closed", "leaked"}
  /\ first \in Nat \X Nat /\ loaded \in Characters /\ aborted \in BOOLEAN
  /\ result \in {"none", "ok", "failed", "changed", "large", "aborted", "binary", "stopped"}
  /\ moments \in SUBSET Characters /\ blurred \in BOOLEAN

\* What a stable read returns was the content of the path at one moment of the call, as
\* long as no file changed twice in one millisecond (content.ts:383).
ReadOfOneMoment == result = "ok" /\ stable /\ ~blurred => loaded \in moments

\* A scan gives out the logical lines of what it read (text.ts:43), however it was cut
\* into pieces, and refuses binary content.  Byte order marks that are not at the start
\* are lost, and a mark followed by a lone CR is no line: those are left aside.
Ordinary(s) == (\A i \in 2 .. Len(s) : s[i] # BOM) /\ s # <<BOM, CR>>
LogicalLines(s) ==
  LET E == EndsAtEveryMark(s)
  IN  Cut(s, IF s = <<>> \/ EndsInMark(s) THEN E ELSE E \cup {Len(s)})
LinesExact ==
  scan /\ result = "ok" /\ Ordinary(loaded) =>
    ~Binary(loaded) /\ lines = LogicalLines(Text(loaded, 2))

\* No call holds more than one character over its limit, and none returns more than it.
LimitKept == limited => Len(loaded) <= MaxBytes + 1 /\ (result = "ok" => Len(loaded) <= MaxBytes)

\* A call that ended has released its handle, except one that was aborted while the
\* handle was being opened.
HandleReleased == at = "done" => lent \in {"never", "closed"} \/ (lent = "leaked" /\ aborted)

\* What a call keeps to, whoever changes the file meanwhile.
ReadsSound == ReadsTypeOK /\ ReadOfOneMoment /\ LimitKept /\ HandleReleased
=============================================================================
