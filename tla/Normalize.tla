------------------------------ MODULE Normalize ------------------------------
(* The composed form of a text, the map of its bytes back to the text as written       *)
(* (normalize.rs) and the lines and columns of what is reported (lineindex.rs).        *)
(*                                                                                     *)
(* A text is a sequence of characters. "e" composes with the first of the two high     *)
(* marks after it, "x" with none; the low mark sorts before a high one and composes    *)
(* with nothing; "twin" stands for a high mark and another. L, V and T are a leading,  *)
(* a vowel and a trailing jamo.                                                        *)
EXTENDS Naturals, Sequences
LOCAL INSTANCE SequencesExt
LOCAL INSTANCE FiniteSetsExt

HighMarks == {"acute", "umlaut"}
Marks == HighMarks \cup {"low", "twin"}
Jamo == {"L", "V", "T", "LV", "LVT"}

Bytes(c) ==
    CASE c \in Marks \cup {"e acute", "e umlaut"} -> 2
      [] c \in Jamo \cup {"zi", "han", "open", "close", "stop"} -> 3
      [] c = "emoji" -> 4
      [] c = "label" -> 6
      [] OTHER -> 1
Utf16(c) == IF c \in {"emoji", "label"} THEN 2 ELSE 1

\* Where character i + 1 starts. The last offset is the length of the text.
Offsets(t) ==
    LET off[i \in 0..Len(t)] == IF i = 0 THEN 0 ELSE off[i - 1] + Bytes(t[i])
    IN  off
Length(t) == Offsets(t)[Len(t)]

----------------------------------------------------------------------------
(* The tables of Unicode: what a text becomes when one more character follows it. *)

TrailingLow(t) == Len(t) - Max({0} \cup {i \in DOMAIN t: t[i] # "low"})
TrailingHigh(t) == Len(t) - Max({0} \cup {i \in DOMAIN t: t[i] \notin HighMarks})
AddHigh(t, mark) ==
    LET base == Len(t) - TrailingLow(t)
    IN  IF base > 0 /\ t[base] = "e"
        THEN [t EXCEPT ![base] = IF mark = "acute" THEN "e acute" ELSE "e umlaut"]
        ELSE Append(t, mark)
Compose(t, c) ==
    CASE c = "twin" -> AddHigh(AddHigh(t, "umlaut"), "acute")
      [] c \in HighMarks -> AddHigh(t, c)
      [] c = "low" -> InsertAt(t, Len(t) - TrailingHigh(t) + 1, c)
      [] c = "V" /\ t # <<>> /\ Last(t) = "L" -> Append(Front(t), "LV")
      [] c = "T" /\ t # <<>> /\ Last(t) = "LV" -> Append(Front(t), "LVT")
      [] OTHER -> Append(t, c)
Nfc(t) == FoldLeft(Compose, <<>>, t)

----------------------------------------------------------------------------
(* normalize_nfc *)

\* A bug the property would show: two Hangul characters always stay together.
StartsAtNonHangul(t, i) ==
    /\ t[i] \notin Marks
    /\ i = 1 \/ ~(t[i - 1] \in Jamo /\ t[i] \in Jamo)

StartsSegment(t, i) ==
    /\ t[i] \notin Marks
    /\ \/ i = 1
       \/ ~ \/ t[i - 1] = "L" /\ t[i] = "V"
            \/ t[i - 1] = "V" /\ t[i] = "T"
            \/ t[i - 1] = "LV" /\ t[i] = "T"

\* The segments, each with its place in the text.
Segments(t) ==
    LET starts == SelectSeq([i \in DOMAIN t |-> i], LAMBDA i: i = 1 \/ StartsSegment(t, i))
        EndOf(k) == IF k = Len(starts) THEN Len(t) ELSE starts[k + 1] - 1
    IN  [k \in DOMAIN starts |-> [from |-> starts[k], chars |-> SubSeq(t, starts[k], EndOf(k))]]

\* The marks at the end of a text, the last one first.
TailOf(t) ==
    LET count == Len(t) - Max({0} \cup {i \in DOMAIN t: t[i] \notin Marks})
    IN  [k \in 1..count |-> Len(t) - k + 1]

\* Surviving marks pair with written ones from the end, and what is left over goes to the
\* last written one.
Origin(origins, tail, k, start) ==
    LET surplus == IF Len(tail) > Len(origins) THEN Len(tail) - Len(origins) ELSE 0
        at == IF k - 1 > surplus THEN k - surplus ELSE 1
    IN  IF at <= Len(origins) THEN origins[at] ELSE start

Copies(n, value) == [i \in 1..n |-> value]
MapSegment(t, segment) ==
    LET start == Offsets(t)[segment.from - 1]
        written == TailOf(segment.chars)
        origins == [k \in DOMAIN written |->
                        Offsets(t)[segment.from - 1 + written[k] - 1]]
        normalized == Nfc(segment.chars)
        tail == TailOf(normalized)
        bytes == [k \in DOMAIN tail |-> Bytes(normalized[tail[k]])]
    IN  FoldRight(LAMBDA k, map: map \o Copies(bytes[k], Origin(origins, tail, k, start)),
                  [k \in DOMAIN tail |-> k],
                  Copies(Length(normalized) - FoldLeft(LAMBDA a, b: a + b, 0, bytes), start))

\* A text that is composed already has no map.
NormalizeNfc(t) ==
    IF Nfc(t) = t THEN [text |-> t, map |-> <<>>]
    ELSE LET Take(norm, segment) == [text |-> norm.text \o Nfc(segment.chars),
                                     map |-> norm.map \o MapSegment(t, segment)]
             norm == FoldLeft(Take, [text |-> <<>>, map |-> <<>>], Segments(t))
         IN  [norm EXCEPT !.map = Append(@, Length(t))]

MapOffset(map, offset) ==
    IF map = <<>> THEN offset ELSE map[Min({offset, Len(map) - 1}) + 1]

\* The binary search of a map that never decreases.
Below(map, offset) == Len(SelectSeq(map, LAMBDA origin: origin < offset))

\* A start on a character that was composed away takes the one that absorbed it.
MapRangeForward(map, range) ==
    IF range.start >= range.end THEN <<>>
    ELSE IF map = <<>> THEN <<range>>
    ELSE IF range.start >= map[Len(map)] THEN <<>>
    ELSE LET found == Below(map, range.start)
             start == IF found > 0 /\ found < Len(map) /\ map[found + 1] > range.start
                      THEN Below(map, map[found]) ELSE found
             end == Below(map, Min({range.end, map[Len(map)]}))
         IN  IF start < end THEN <<[start |-> start, end |-> end]>> ELSE <<>>

----------------------------------------------------------------------------
(* fill_line_col_sorted: one pass over ascending offsets, counting on from the last one. *)

LineStarts(t) ==
    LET ends == SelectSeq([i \in DOMAIN t |-> i], LAMBDA i: t[i] = "newline")
    IN  <<0>> \o [k \in DOMAIN ends |-> Offsets(t)[ends[k]]]

Units(t, from, to) ==
    LET inside == SelectSeq([i \in DOMAIN t |-> i],
                            LAMBDA i: from <= Offsets(t)[i - 1] /\ Offsets(t)[i - 1] < to)
    IN  FoldLeft(LAMBDA n, i: n + Utf16(t[i]), 0, inside)

FillOne(t, cursor, offset) ==
    LET starts == LineStarts(t)
        line == Max({k \in cursor.line..Len(starts): k = cursor.line \/ starts[k] <= offset})
        at == Min({offset, Length(t)})
        resumed == starts[line] <= cursor.byte /\ cursor.byte <= at
        col == IF resumed THEN cursor.col + Units(t, cursor.byte, at)
               ELSE Units(t, starts[line], at)
    IN  [line |-> line, byte |-> at, col |-> col,
         places |-> Append(cursor.places, [line |-> line, col |-> col + 1])]

FillLineCol(t, offsets) ==
    FoldLeft(LAMBDA cursor, offset: FillOne(t, cursor, offset),
             [line |-> 1, byte |-> 0, col |-> 0, places |-> <<>>], offsets).places
=============================================================================
