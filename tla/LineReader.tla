------------------------------ MODULE LineReader ------------------------------
(***************************************************************************)
(* read_line and drain_until_newline of src/mcp/transport.rs: how the      *)
(* bytes of stdin become lines when the read is a future that may be       *)
(* dropped at every await.  `raw` belongs to the transport and survives;   *)
(* what is local to the future, the count of a discard, does not.          *)
(***************************************************************************)
EXTENDS Naturals, Sequences, SequencesExt

CONSTANTS
  MaxLine,   \* MAX_LINE_BYTES
  MaxDrain,  \* MAX_DRAIN_BYTES
  MaxSent    \* bound: bytes the client sends

ASSUME LineReaderAssumption ==
  MaxLine \in Nat /\ MaxDrain \in Nat /\ MaxSent \in Nat

VARIABLES
  arrived,    \* bytes sent and not consumed yet
  closed,     \* the client has closed its end
  raw,        \* StdioTransport.raw
  reading,    \* where the future is: "line", "discard", "over", "failed"
  discarded,  \* the local of drain_until_newline
  results,    \* what the reads returned, in order
  consumed    \* history: every byte taken from the stream

streamVars == <<arrived, closed, raw, reading, discarded, results, consumed>>

\* A byte is a newline, valid text, or one that spoils the line's UTF-8.
Bytes == {"newline", "text", "bad"}

Line(bytes) == [kind |-> "Line", of |-> bytes]
MalformedUtf8 == [kind |-> "MalformedUtf8"]
TooLong == [kind |-> "TooLong"]
Unrecoverable == [kind |-> "Unrecoverable"]

ReaderInit ==
  /\ arrived = <<>> /\ closed = FALSE /\ raw = <<>> /\ reading = "line"
  /\ discarded = 0 /\ results = <<>> /\ consumed = <<>>

Send(byte) ==
  /\ ~closed /\ Len(consumed) + Len(arrived) < MaxSent
  /\ arrived' = Append(arrived, byte)
  /\ UNCHANGED <<closed, raw, reading, discarded, results, consumed>>

HangUp ==
  /\ ~closed
  /\ closed' = TRUE
  /\ UNCHANGED <<arrived, raw, reading, discarded, results, consumed>>

-----------------------------------------------------------------------------
\* Mutant: each call has the whole budget.
BudgetPerCall == MaxLine + 1

\* The budget is what is left of MAX_LINE_BYTES + 1 after the bytes `raw`
\* already holds.
Budget == IF Len(raw) > MaxLine THEN 0 ELSE MaxLine + 1 - Len(raw)

Whole == raw # <<>> /\ Last(raw) = "newline"

\* read_until appends as it goes and stops at the delimiter or at the budget.
ReadByte ==
  /\ reading = "line" /\ ~Whole /\ Budget > 0 /\ arrived # <<>>
  /\ raw' = Append(raw, Head(arrived))
  /\ arrived' = Tail(arrived)
  /\ consumed' = Append(consumed, Head(arrived))
  /\ UNCHANGED <<closed, reading, discarded, results>>

\* The budget is spent and there is no delimiter.
StartDiscard ==
  /\ reading = "line" /\ ~Whole /\ Len(raw) > MaxLine
  /\ reading' = "discard"
  /\ discarded' = 0
  /\ UNCHANGED <<arrived, closed, raw, results, consumed>>

Text(bytes) ==
  IF \E k \in DOMAIN bytes : bytes[k] = "bad" THEN MalformedUtf8 ELSE Line(bytes)

\* What is answered is trimmed, the delimiter with the rest.
Content == IF Whole THEN Front(raw) ELSE raw

\* A delimiter, or a last line the client left without one.
FinishLine ==
  /\ reading = "line"
  /\ Whole \/ (arrived = <<>> /\ closed /\ raw # <<>> /\ Len(raw) <= MaxLine)
  /\ results' = Append(results, Text(Content))
  /\ raw' = <<>>
  /\ UNCHANGED <<arrived, closed, reading, discarded, consumed>>

\* Nothing in the buffer at end of input.
ReportEof ==
  /\ reading = "line" /\ raw = <<>> /\ arrived = <<>> /\ closed
  /\ reading' = "over"
  /\ UNCHANGED <<arrived, closed, raw, discarded, results, consumed>>

\* fill_buf returns some of what has arrived: everything up to a newline in it
\* goes, or all of it.
DiscardChunk(n) ==
  /\ reading = "discard" /\ n \in 1 .. Len(arrived)
  /\ LET ends == {k \in 1 .. n : arrived[k] = "newline"}
         taken == IF ends = {} THEN n ELSE CHOOSE k \in ends : \A j \in ends : k <= j
         gone == SubSeq(arrived, 1, taken)
     IN /\ arrived' = SubSeq(arrived, taken + 1, Len(arrived))
        /\ consumed' = consumed \o gone
        /\ IF ends # {} THEN /\ raw' = <<>> /\ reading' = "line"
                             /\ results' = Append(results, TooLong)
                             /\ UNCHANGED discarded
           ELSE /\ discarded' = discarded + taken
                /\ IF discarded' > MaxDrain
                   THEN /\ raw' = <<>> /\ reading' = "over"
                        /\ results' = Append(results, Unrecoverable)
                   ELSE UNCHANGED <<raw, reading, results>>
  /\ UNCHANGED closed

\* End of input while discarding counts as having found the end.
DiscardEof ==
  /\ reading = "discard" /\ arrived = <<>> /\ closed
  /\ raw' = <<>> /\ reading' = "line"
  /\ results' = Append(results, TooLong)
  /\ UNCHANGED <<arrived, closed, discarded, consumed>>

\* Mutant: `raw` is cleared on entry, so a resumed read starts a new line.
CancelClears ==
  /\ reading \in {"line", "discard"}
  /\ reading' = "line" /\ discarded' = 0
  /\ raw' = <<>>
  /\ UNCHANGED <<arrived, closed, results, consumed>>

\* A read error ends the session; what `raw` holds is not answered.
ReadError ==
  /\ reading \in {"line", "discard"}
  /\ reading' = "failed"
  /\ UNCHANGED <<arrived, closed, raw, discarded, results, consumed>>

\* RMCP drops the future and polls a new one: read_line starts over with the
\* same `raw`.
Cancel ==
  /\ reading \in {"line", "discard"}
  /\ reading' = "line" /\ discarded' = 0
  /\ UNCHANGED <<arrived, closed, raw, results, consumed>>

Over == reading \in {"over", "failed"} /\ UNCHANGED streamVars

ReaderNext ==
  \/ \E b \in Bytes : Send(b)
  \/ HangUp \/ ReadByte \/ StartDiscard \/ FinishLine \/ ReportEof
  \/ \E n \in 1 .. MaxSent : DiscardChunk(n)
  \/ DiscardEof \/ ReadError \/ Cancel \/ Over

ReaderSpec == ReaderInit /\ [][ReaderNext]_streamVars

-----------------------------------------------------------------------------
(***************************************************************************)
(* Properties.                                                             *)
(***************************************************************************)

\* The lines of a byte stream: the complete ones, then the one still open.
NoLines == [lines |-> <<>>, open |-> <<>>]
TakeByte(f, b) ==
  IF b = "newline" THEN [lines |-> Append(f.lines, f.open), open |-> <<>>]
  ELSE [lines |-> f.lines, open |-> Append(f.open, b)]
Framing(bytes) == FoldLeft(TakeByte, NoLines, bytes)

Verdict(line) ==
  IF Len(line) > MaxLine THEN TooLong ELSE Text(line)

\* What a reader that sees the whole stream at once would answer.
Verdicts(lines) == [k \in DOMAIN lines |-> Verdict(lines[k])]
Expected(bytes) ==
  LET f == Framing(bytes)
  IN Verdicts(IF f.open = <<>> THEN f.lines ELSE Append(f.lines, f.open))

GaveUp == results # <<>> /\ Last(results) = Unrecoverable

ReaderTypeOK ==
  /\ arrived \in Seq(Bytes) /\ closed \in BOOLEAN
  /\ raw \in Seq(Bytes) /\ reading \in {"line", "discard", "over", "failed"}
  /\ discarded \in 0 .. MaxSent
  /\ \A k \in DOMAIN results :
       results[k].kind \in {"Line", "MalformedUtf8", "TooLong", "Unrecoverable"}

\* However often the read is dropped and wherever the bytes were cut on their
\* way, each line is answered once, in order, and as one line.
LinesAreWhole ==
  IsPrefix(IF GaveUp THEN Front(results) ELSE results, Expected(consumed))

\* End of input is reported once every line has been, the last one included
\* when it has no newline.
EofReportsEverything ==
  reading = "over" /\ ~GaveUp => arrived = <<>> /\ results = Expected(consumed)

\* What the server holds of one line is bounded, across all its reads.
RawIsBounded == Len(raw) <= MaxLine + 1

\* docs/mcp.md: "If no newline appears after a further 64 MiB of discarded
\* input, the transport closes the session."
DiscardIsBounded ==
  Len(Framing(consumed).open) > MaxLine + 1 + MaxDrain => reading \in {"over", "failed"}

=============================================================================
