------------------------------- MODULE Delivery -------------------------------
(***************************************************************************)
(* One upstream attempt and what the client receives of it: the line loop  *)
(* with its idle watchdog and detectors (auth/auth.go OpenStreamLines),    *)
(* the accumulators (transform/transform.go) and the two ways an answer is *)
(* written (bridge/stream.go). Session models which attempts are made.     *)
(*                                                                         *)
(* A line is one of a few kinds; a piece of text is the position of its    *)
(* line. "mark" is text that leaves the buffered text a prefix or an       *)
(* extension of "Tool calls:", "text" is text that does not; "call1" and   *)
(* "call2" belong to the tool call of that index; "both" carries text and  *)
(* the first call; "last" is text with the usage on its frame; "stop",     *)
(* "length" and "tool_calls" are finish reasons of the gateway, on a frame *)
(* of their own or at the end of the one before. "done" also stands for    *)
(* event:finish, "fault" for event:error; "reject" is an upstream error    *)
(* that a detector recognises.                                             *)
(***************************************************************************)
EXTENDS Integers, Sequences, FiniteSets, SequencesExt

CONSTANTS
  MaxLines,    \* bound on the lines of an answer
  IdleChecks   \* watchdog checks that make up the idle timeout

ASSUME DeliveryAssumption == MaxLines \in Nat /\ IdleChecks \in Nat \ {0}

Texts == {"text", "mark", "last", "both"}
Calls == {"call1", "call2", "both"}
Reasons == {"stop", "length", "tool_calls"}
Kinds == Texts \cup Calls \cup Reasons \cup {"think", "usage", "done", "fault", "reject"}

VARIABLES
  mode,    \* how the client asked: [stream, tools (toolsEnabled)]
  lines,   \* the kinds of the lines read so far
  upstream,\* "open", "cut": the body ended, "failed": reading it failed
  client,  \* whether the client still waits
  silent,  \* watchdog checks since the last line
  idle,    \* idleFired: the watchdog has closed the body
  acc,     \* the accumulator: pending text, streamingText, pieces per tool call and
           \* the gateway's last finish reason ("none" as yet)
  usage,   \* the position of the last usage seen, 0 for none
  out,     \* chunks written to the client
  sunk,    \* usages handed to the statistics
  result   \* "none", "ok", "err": returned to the handler, "reported": in the stream

deliveryVars == <<mode, lines, upstream, client, silent, idle, acc, usage, out, sunk, result>>

Has(kinds) == \E i \in DOMAIN lines : lines[i] \in kinds
SawDone == Has({"done"})
Rejected == Has({"reject"})

DeliveryInit ==
  /\ mode \in [stream : BOOLEAN, tools : BOOLEAN]
  /\ lines = <<>> /\ upstream = "open" /\ client = TRUE
  /\ silent = 0 /\ idle = FALSE
  /\ acc = [pending |-> <<>>, streaming |-> FALSE, calls |-> <<>>, reason |-> "none"]
  /\ usage = 0 /\ out = <<>> /\ sunk = <<>>
  /\ result = "none"

Reading == result = "none" /\ upstream = "open" /\ ~Rejected

-------------------------------------------------------------------------------
(* The accumulators                                                        *)

TextChunk(pieces) == <<"text", pieces>>
CallChunk == <<"calls", <<>>>>
Chunk(kind) == <<kind, <<>>>>

\* ToolCallAccumulator.Append: an index past the end appends.
Index(kind) == IF kind = "call2" THEN 2 ELSE 1
WithCall(calls, kind) ==
  IF Index(kind) <= Len(calls) THEN [calls EXCEPT ![Index(kind)] = @ + 1] ELSE Append(calls, 1)

\* isPotentialToolCallText of the pending text.
MarksOnly(pieces) == \A i \in Range(pieces) : lines[i] = "mark"

\* StreamAccumulator.Accept of a delta with a tool call: pending text that may be
\* the call in words is discarded, and so is the text of the delta itself.
AcceptCall(kind) ==
  LET discard == acc.pending = <<>> \/ (mode.tools /\ MarksOnly(acc.pending))
  IN /\ acc' = [acc EXCEPT !.pending = <<>>, !.calls = WithCall(@, kind),
                           !.streaming = @ \/ ~discard]
     /\ out' = out \o (IF discard THEN <<>> ELSE <<TextChunk(acc.pending)>>) \o <<CallChunk>>

\* Mutant: text that ends the waiting is sent without what waited.
AcceptTextAlone(kind) ==
  LET piece == Len(lines) + 1
      pending == Append(acc.pending, piece)
  IN IF mode.tools /\ ~acc.streaming /\ kind = "mark" /\ MarksOnly(acc.pending)
     THEN acc' = [acc EXCEPT !.pending = pending] /\ UNCHANGED out
     ELSE /\ acc' = [acc EXCEPT !.pending = <<>>, !.streaming = TRUE]
          /\ out' = Append(out, TextChunk(<<piece>>))

\* Accept of text: held back while it may turn out to be a tool call.
AcceptText(kind) ==
  LET piece == Len(lines) + 1
      pending == Append(acc.pending, piece)
  IN IF ~mode.tools \/ acc.streaming
     THEN /\ acc' = [acc EXCEPT !.streaming = TRUE]
          /\ out' = Append(out, TextChunk(<<piece>>))
     ELSE IF kind = "mark" /\ MarksOnly(acc.pending)
     THEN acc' = [acc EXCEPT !.pending = pending] /\ UNCHANGED out
     ELSE /\ acc' = [acc EXCEPT !.pending = <<>>, !.streaming = TRUE]
          /\ out' = Append(out, TextChunk(pending))

\* handleSync only collects.
Collect(kind) ==
  /\ acc' = [acc EXCEPT !.pending = IF kind \in Texts THEN Append(@, Len(lines) + 1) ELSE @,
                        !.calls = IF kind \in Calls THEN WithCall(@, kind) ELSE @]
  /\ UNCHANGED out

-------------------------------------------------------------------------------
(* OpenStreamLines                                                         *)

Deliver(kind) ==
  IF kind = "reject" THEN UNCHANGED <<acc, out>>
  ELSE IF ~mode.stream THEN Collect(kind)
  ELSE IF kind \in Calls THEN AcceptCall(kind)
  ELSE IF kind \in Texts THEN AcceptText(kind)
  ELSE IF kind \in Reasons THEN acc' = [acc EXCEPT !.reason = kind] /\ UNCHANGED out
  ELSE UNCHANGED acc /\ out' = IF kind = "think" THEN Append(out, Chunk("think")) ELSE out

\* A line arrives. The gateway numbers its tool calls from the first.
Line(kind) ==
  /\ Reading /\ client /\ ~idle /\ Len(lines) < MaxLines
  /\ kind = "call2" => Has({"call1", "both"})
  /\ lines' = Append(lines, kind)
  /\ silent' = 0
  /\ usage' = IF kind \in {"usage", "last"} THEN Len(lines) + 1 ELSE usage
  /\ Deliver(kind)
  /\ UNCHANGED <<mode, upstream, client, idle, sunk, result>>

\* The connection ends or breaks.
Cut(how) ==
  /\ Reading /\ how \in {"cut", "failed"}
  /\ upstream' = how
  /\ UNCHANGED <<mode, lines, client, silent, idle, acc, usage, out, sunk, result>>

ClientLeaves ==
  /\ client /\ result = "none"
  /\ client' = FALSE /\ upstream' = IF upstream = "open" THEN "failed" ELSE upstream
  /\ UNCHANGED <<mode, lines, silent, idle, acc, usage, out, sunk, result>>

\* Mutant: the check notes that the stream is idle and leaves the body open.
WatchdogNotes ==
  /\ Reading /\ silent < IdleChecks
  /\ silent' = silent + 1
  /\ idle' = (silent' = IdleChecks)
  /\ UNCHANGED <<mode, lines, upstream, client, acc, usage, out, sunk, result>>

\* The watchdog's ticker; the check that finds the stream silent closes the body.
Watchdog ==
  /\ Reading /\ silent < IdleChecks
  /\ silent' = silent + 1
  /\ idle' = (silent' = IdleChecks)
  /\ upstream' = IF idle' THEN "failed" ELSE upstream
  /\ UNCHANGED <<mode, lines, client, acc, usage, out, sunk, result>>

\* OpenStreamLines returns when the body ends or a line rejects the request; ...
Returned == result = "none" /\ (upstream # "open" \/ Rejected)

\* Mutant: the end of the body is the end of the answer.
SucceededAtEOF == upstream = "cut" /\ ~Rejected

\* ... without an error after a terminator and a regular end of the body.
Succeeded == upstream = "cut" /\ SawDone /\ ~Rejected

-------------------------------------------------------------------------------
(* The answer                                                              *)

\* StreamAccumulator.Flush: pending text is the tool call in words, or is sent.
Flushed(parsed) ==
  IF acc.pending = <<>> THEN out
  ELSE IF parsed THEN Append(out, CallChunk) ELSE Append(out, TextChunk(acc.pending))

\* ParseToolCallsText succeeds on marks alone, and not on every such text.
Parses == IF mode.tools /\ acc.pending # <<>> /\ MarksOnly(acc.pending) THEN BOOLEAN ELSE {FALSE}

\* StreamAccumulator.FinishReason: tool calls win over the gateway's own reason.
FinishReason(calls) ==
  IF calls THEN "tool_calls" ELSE IF acc.reason # "none" THEN acc.reason ELSE "stop"

\* handleSync does not ask the gateway's.
SyncReason(calls) == IF calls THEN "tool_calls" ELSE "stop"

Sink == sunk' = IF usage # 0 THEN Append(sunk, usage) ELSE sunk

\* handleStream after the line loop: the finish chunk, the usage and [DONE]; or an
\* error, in the stream when a byte of it was written and else to the handler.
EndStream ==
  /\ Returned /\ mode.stream
  /\ \E parsed \in Parses :
       LET flushed == Flushed(parsed)
           calls == acc.calls # <<>> \/ parsed
       IN IF Succeeded
          THEN /\ out' = flushed \o <<Chunk(FinishReason(calls))>>
                         \o (IF usage # 0 THEN <<Chunk("usage")>> ELSE <<>>) \o <<Chunk("[DONE]")>>
               /\ result' = "ok" /\ Sink
          ELSE /\ out' = IF flushed = <<>> THEN <<>> ELSE Append(flushed, Chunk("error"))
               /\ result' = IF flushed = <<>> THEN "err" ELSE "reported"
               /\ UNCHANGED sunk
  /\ acc' = [acc EXCEPT !.pending = <<>>]
  /\ UNCHANGED <<mode, lines, upstream, client, silent, idle, usage>>

\* handleSync after the line loop. Calls in words replace the text.
EndSync ==
  /\ Returned /\ ~mode.stream
  /\ IF Succeeded
     THEN /\ \E parsed \in IF acc.calls = <<>> THEN Parses ELSE {FALSE} :
               LET calls == acc.calls # <<>> \/ parsed
               IN out' = (IF parsed \/ acc.pending = <<>> THEN <<>> ELSE <<TextChunk(acc.pending)>>)
                         \o (IF calls THEN <<CallChunk>> ELSE <<>>) \o <<Chunk(SyncReason(calls))>>
          /\ result' = "ok" /\ Sink
     ELSE result' = "err" /\ UNCHANGED <<out, sunk>>
  /\ acc' = [acc EXCEPT !.pending = <<>>]
  /\ UNCHANGED <<mode, lines, upstream, client, silent, idle, usage>>

DeliveryNext ==
  \/ \E kind \in Kinds : Line(kind)
  \/ \E how \in {"cut", "failed"} : Cut(how)
  \/ ClientLeaves \/ Watchdog \/ EndStream \/ EndSync

DeliverySpec == DeliveryInit /\ [][DeliveryNext]_deliveryVars

-------------------------------------------------------------------------------
(* Properties                                                              *)

Of(kinds) == {i \in DOMAIN lines : lines[i] \in kinds}
InOrder(pieces) == \A i, j \in DOMAIN pieces : i < j => pieces[i] < pieces[j]
Written(kind) == \E i \in DOMAIN out : out[i] = Chunk(kind)
SentText == FlattenSeq([i \in DOMAIN out |-> out[i][2]])
Calling == \E i \in DOMAIN out : out[i] = CallChunk

\* Text reaches the client whole, in order and once, what is held back included, unless
\* the answer is a failed unstreamed one; where tool calls are delivered only text
\* that may be the same call in words, or rode on a call, is left out
\* (transform.go Accept, Flush and discardBufferedToolCallText).
TextInOrder ==
  (mode.stream \/ result # "err") =>
    LET given == SentText \o acc.pending
    IN /\ InOrder(given)
       /\ Range(given) \subseteq Of(Texts)
       /\ (IF Calling THEN Of({"text", "last"}) ELSE Of(Texts)) \subseteq Range(given)

\* The finish reason the gateway gave last, if it gave one.
Told == {lines[i] : i \in {j \in Of(Reasons) : \A k \in Of(Reasons) : k <= j}}
ReasonsWritten == {r \in Reasons : Written(r)}

\* A truncated, rejected or idle answer never reads as complete, and a failure is
\* told exactly once: to the handler while nothing is written, and otherwise as the
\* last chunk of the stream. A complete answer has one finish reason: tool_calls if the
\* client was given a call, in the gateway's form or parsed from the text; else, in a
\* stream, what the gateway said last; else stop. (So an unstreamed answer cut at the
\* length limit says stop: stream.go:183-186 never asks for the gateway's reason, which
\* transform_test.go:475 wants to flow through to the client.) The statistics get the
\* last usage of a completed answer, once, and of no other
\* (stream.go:32-36,61-113,183-186; auth.go:1431-1436; transform.go:742-750).
EndingIsTruthful ==
  /\ result = "ok" => SawDone /\ ~Rejected /\ upstream = "cut"
  /\ Written("[DONE]") => result = "ok" /\ Last(out) = Chunk("[DONE]")
  /\ result = "reported" => Last(out) = Chunk("error") /\ ReasonsWritten = {}
  /\ result = "err" => out = <<>>
  /\ result = "ok" => ReasonsWritten = IF Calling THEN {"tool_calls"}
                                       ELSE IF mode.stream /\ Told # {} THEN Told ELSE {"stop"}
  /\ sunk = IF result = "ok" /\ usage # 0 THEN <<usage>> ELSE <<>>

===============================================================================
