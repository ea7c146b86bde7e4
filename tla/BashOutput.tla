----------------------------- MODULE BashOutput -----------------------------
(* One command of the bash tool (src/bash-tool/bash-tool.ts, output-capture.ts,
   output-view.ts): its output goes to a log, up to a limit, and to two windows on its
   first and its last bytes, from which the model's view of it is made; while it runs,
   throttled updates show its last bytes.

   The output is a sequence of characters.  One is plain; hidden, when it is dropped
   without a word (a control sequence, a carriage return before a line feed); or
   folded, when what is dropped is reported (progress, repeated and blank lines).  It
   was `raw` bytes long when it was printed and is `bytes` long as text: an invalid
   byte becomes three.  A window is a sequence of places in the output.              *)
EXTENDS Integers, Sequences, FiniteSets, SequencesExt, FiniteSetsExt

CONSTANTS
  MaxOutput,     \* bound: characters of output
  Chunks,        \* the lengths of the pieces it arrives in
  Characters,    \* [raw, bytes, kind]: the characters there are
  CaptureBytes,  \* limits.max_capture_bytes
  PreviewBytes,  \* max(4 * failure_output_bytes, 2 * live_output_bytes)
  SuccessBytes,  \* limits.success_output_bytes
  FailureBytes   \* limits.failure_output_bytes

OutputAssumption ==
  /\ MaxOutput \in Nat /\ Chunks \subseteq Nat \ {0} /\ CaptureBytes \in Nat
  /\ Characters \subseteq [raw : Nat \ {0}, bytes : Nat \ {0}, kind : {"plain", "hidden", "folded"}]
  /\ SuccessBytes \in Nat /\ FailureBytes \in Nat /\ PreviewBytes >= 4 * FailureBytes

VARIABLES
  output,      \* what the command has printed
  captured,    \* bytes that went to the log
  head, tail,  \* the windows
  command,     \* "running", "exited", "failed", "timed_out", "aborted" or "threw"
  stops,       \* why it is being stopped: the reasons as they came
  dirty,       \* there is output that no update has shown
  timer,       \* an update is due
  view         \* what the model gets

outVars == <<output, captured, head, tail, command, stops, dirty, timer, view>>

-----------------------------------------------------------------------------
Places == [i \in 1..Len(output) |-> i]
Raw(cs) == FoldSeq(LAMBDA c, n : n + c.raw, 0, cs)
BytesOf(cs, places) == FoldSeq(LAMBDA i, n : n + cs[i].bytes, 0, places)
Bytes(places) == BytesOf(output, places)

(* takeHeadBytes, takeTailBytes: the whole characters that fit, from either end. *)
TakeHead(cs, places, limit) ==
  SubSeq(places, 1, Max({n \in 0..Len(places) : BytesOf(cs, SubSeq(places, 1, n)) <= limit}))
TakeTail(cs, places, limit) ==
  LET from == Min({n \in 1..Len(places) + 1 :
                     BytesOf(cs, SubSeq(places, n, Len(places))) <= limit})
  IN SubSeq(places, from, Len(places))

HeadLimit == PreviewBytes \div 2
Unseen == [state |-> "none", body |-> <<>>, log |-> TRUE]

OutputInit ==
  /\ output = <<>> /\ captured = 0 /\ head = <<>> /\ tail = <<>>
  /\ command = "running" /\ stops = <<>>
  /\ dirty = FALSE /\ timer = FALSE /\ view = Unseen

(***************************************************************************)
(* OutputCapture.append and appendPreview, and scheduleUpdate: within the    *)
(* throttle interval the update waits for its timer, else it goes out.       *)
(***************************************************************************)
Data(chunk) ==
  LET cs == output \o chunk
      new == [i \in 1..Len(chunk) |-> Len(output) + i]
  IN
  /\ command = "running" /\ Len(cs) <= MaxOutput
  /\ output' = cs
  /\ captured' = Min({CaptureBytes, captured + Raw(chunk)})
  /\ head' = IF Bytes(head) < HeadLimit THEN TakeHead(cs, head \o new, HeadLimit) ELSE head
  /\ tail' = TakeTail(cs, tail \o new, PreviewBytes - HeadLimit)
  /\ \E wait \in BOOLEAN : dirty' = wait /\ timer' = wait
  /\ UNCHANGED <<command, stops, view>>

\* The update timer.
Update ==
  /\ timer /\ command = "running"
  /\ timer' = FALSE /\ dirty' = FALSE
  /\ UNCHANGED <<output, captured, head, tail, command, stops, view>>

\* Cancelled by the user, or out of time: the later one is what counts.
Stop(why) ==
  /\ command = "running" /\ why \notin Range(stops)
  /\ stops' = Append(stops, why)
  /\ UNCHANGED <<output, captured, head, tail, command, dirty, timer, view>>

(***************************************************************************)
(* finish and createBashOutputView.                                          *)
(***************************************************************************)
\* The text of the view: the two windows with nothing between them, or one of them
\* when they read the same, which other places of the output may do as well.
MayReadTheSame ==
  Len(head) = Len(tail) /\ \A i \in 1..Len(head) : output[head[i]] = output[tail[i]]
Preview(same) == head \o (IF same THEN <<>> ELSE tail)
Of(kind, places) == SelectSeq(places, LAMBDA i : output[i].kind = kind)

(* headTailPreview, failurePreview, structuredPreview and ensureByteLimit: what is cut
   out is replaced by a marker.                                                       *)
Cut(places, budget) == TakeHead(output, places, budget \div 5)
                         \o TakeTail(output, places, budget - (budget \div 5))

Whole == captured = Raw(output)
ViewOfWindows(status, same) ==
  LET budget == IF status = "exited" THEN SuccessBytes ELSE FailureBytes
      text == Of("plain", Preview(same))
      fits == Bytes(text) <= budget
      state == IF ~Whole THEN "capture_truncated" ELSE IF ~fits THEN "truncated"
               ELSE IF Of("folded", Preview(same)) # <<>> THEN "compacted" ELSE "complete"
  IN [state |-> state, body |-> IF fits THEN text ELSE Cut(text, budget),
      log |-> state # "complete" \/ status # "exited"]
View(status, same) ==
  LET budget == IF status = "exited" THEN SuccessBytes ELSE FailureBytes
      text == Of("plain", Preview(same))
      fits == Bytes(text) <= budget
      state == IF ~Whole THEN "capture_truncated"
               ELSE IF ~fits \/ Raw(output) > Bytes(Preview(same)) THEN "truncated"
               ELSE IF Of("folded", Preview(same)) # <<>> THEN "compacted" ELSE "complete"
  IN [state |-> state, body |-> IF fits THEN text ELSE Cut(text, budget),
      log |-> state # "complete" \/ status # "exited"]

\* The command ends, or its stop is over; a log that is not needed is removed.
End(status) ==
  /\ command = "running"
  /\ IF stops = <<>> THEN status \in {"exited", "failed", "threw"} ELSE status = Last(stops)
  /\ command' = status
  /\ IF status = "threw" THEN view' = view
     ELSE \E same \in BOOLEAN : /\ same => MayReadTheSame
                                /\ head = tail => same
                                /\ view' = View(status, same)
  /\ timer' = FALSE
  /\ UNCHANGED <<output, captured, head, tail, stops, dirty>>

Pieces == UNION {[1..n -> Characters] : n \in Chunks}
StopReasons == {"timed_out", "aborted"}
OutputNext ==
  \/ \E chunk \in Pieces : Data(chunk)
  \/ Update
  \/ \E why \in StopReasons : Stop(why)
  \/ \E status \in {"exited", "failed", "threw"} \cup StopReasons : End(status)
OutputFairness == WF_outVars(Update)
OutputSpec == OutputInit /\ [][OutputNext]_outVars /\ OutputFairness

-----------------------------------------------------------------------------
\* What the variables hold.
OutputTypeOK ==
  /\ output \in Seq(Characters) /\ captured \in 0..CaptureBytes
  /\ Range(head) \cup Range(tail) \subseteq DOMAIN output
  /\ Bytes(head) <= HeadLimit /\ Bytes(tail) <= PreviewBytes - HeadLimit

(* appendPreview, createBashOutputView: the tail is the end of the output, unbroken.
   When no byte was invalid, nothing that a reader would see is missing from a view
   that is called complete or compacted, or when the log is removed, whatever was cut
   at the edges of the windows.                                                      *)
NothingLostSilently ==
  /\ OutputTypeOK
  /\ tail = [i \in 1..Len(tail) |-> Len(output) - Len(tail) + i]
  /\ (\A i \in DOMAIN output : output[i].raw = output[i].bytes)
     /\ (view.state \in {"complete", "compacted"} \/ ~view.log)
       => Range(Of("plain", Places)) \subseteq Range(view.body)

\* scheduleUpdate: output that no update has shown yet has an update coming, and the
\* last piece of output of a command that goes on is shown.
UpdatesFollow ==
  /\ [](command = "running" /\ dirty => timer)
  /\ <>[](command = "running" => ~dirty)
============================================================================
