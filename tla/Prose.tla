-------------------------------- MODULE Prose --------------------------------
(* What the text passes of the scanner read of a text: its characters, which of them   *)
(* are excluded, what stands next to a place, and where a paragraph ends               *)
(* (engine/scan/mod.rs, engine/sentence.rs, engine/excluded.rs).                       *)
(*                                                                                     *)
(* A text is a sequence of characters, each the name of a kind of character; offsets   *)
(* count characters from 0. A masked character stands for a stretch the mask excludes: *)
(* an inline code span, or a quotation mark, bracket or space that a URL or a span     *)
(* swallowed. Line ends are "nl".                                                      *)
EXTENDS Fixer

CONSTANT SearchBytes  \* PAREN_PARTNER_SEARCH_BYTES and LATIN_RUN_SEARCH_BYTES, both 512

ASSUME SearchAssumption == SearchBytes \in Nat

Masked == {"code", "xquote", "xparen", "xspace"}
Glyph(c) == CASE c = "code"   -> "tick"
              [] c = "xquote" -> "dq"
              [] c = "xparen" -> ")"
              [] c = "xspace" -> " "
              [] OTHER        -> c

Ideographs == {"han", "zi", "bu"}
Lower == {"a", "b"}
Upper == {"A", "I", "C"}
Letters == Lower \cup Upper
Digits == {"1", "2"}
Alnum == Letters \cup Digits
White == {" ", "nl"}
AsciiGraphic == Alnum \cup {",", ".", "!", "?", ";", ":", "(", ")", "[", "]", "~", "-", "=", "/", "dq", "tick"}

\* Curly quotation marks, em dashes and ellipses are full-width punctuation but no
\* Chinese context; a full-width digit or tilde is context but no such punctuation.
\* Corner brackets, single and double, and the brackets of a book title.
Brackets == {"L1", "R1", "L2", "R2", "LB", "RB"}
FullWidth == Brackets \cup {"FC", "FP", "FX", "FQ", "FS", "FN", "FL", "FR", "DUN", "DASH", "EL"}
CjkContext == Ideographs \cup (FullWidth \ {"DASH", "EL"}) \cup {"FD", "WAVE"}

----------------------------------------------------------------------------

At(t, i) == IF i \in 0..(Len(t) - 1) THEN Glyph(t[i + 1]) ELSE "none"
IsMasked(t, i) == i \in 0..(Len(t) - 1) /\ t[i + 1] \in Masked

\* is_excluded: an empty span is never excluded.
IsExcluded(t, from, to) == \E i \in from..(to - 1): IsMasked(t, i)

\* The offsets of a set, in order.
Ascending(t, set) == SelectSeq([k \in 1..Len(t) |-> k - 1], LAMBDA i: i \in set)

\* The ranges the mask is built of, rebuilt from the text before each scan.
Exclusions(t) ==
    LET at == Ascending(t, {i \in 0..(Len(t) - 1): IsMasked(t, i)})
    IN  MergeRanges([k \in DOMAIN at |-> Span(at[k], 1)])

\* The nearest character that is not white space, before an offset and from an offset on.
Unlimited == 1000000
CjkBefore(t, i, max) ==
    LET solid == {j \in 0..(i - 1): At(t, j) \notin White}
    IN  solid # {} /\ i - 1 - Max(solid) <= max /\ At(t, Max(solid)) \in CjkContext
CjkFrom(t, i, max) ==
    LET solid == {j \in i..(Len(t) - 1): At(t, j) \notin White}
    IN  solid # {} /\ Min(solid) - i <= max /\ At(t, Min(solid)) \in CjkContext

BeforeIsCjk(t, i) == CjkBefore(t, i, Unlimited)
AfterIsCjk(t, i) == CjkFrom(t, i, Unlimited)

\* split_paragraphs: two line ends in a row end a paragraph; its own line ends are trimmed.
BreakStep(t, breaks, i) ==
    IF At(t, i) = "nl" /\ At(t, i + 1) = "nl" /\ (breaks = <<>> \/ i >= Last(breaks) + 2)
    THEN Append(breaks, i) ELSE breaks
Breaks(t) == FoldLeft(LAMBDA breaks, i: BreakStep(t, breaks, i - 1), <<>>,
                      [i \in 1..Len(t) |-> i])
Paragraphs(t) ==
    LET breaks == Breaks(t)
        starts == <<0>> \o [k \in DOMAIN breaks |-> breaks[k] + 2]
        ends == breaks \o <<Len(t)>>
        Trimmed(from, to) == Max({from} \cup {i + 1: i \in {j \in from..(to - 1): At(t, j) # "nl"}})
    IN  {[start |-> starts[k], end |-> Trimmed(starts[k], ends[k])]: k \in DOMAIN starts}

AtLineStart(t, i) ==
    LET solid == {j \in 0..(i - 1): At(t, j) # " "}
    IN  solid = {} \/ At(t, Max(solid)) = "nl"
LineStart(t, i) == Max({0} \cup {j + 1: j \in {k \in 0..(i - 1): At(t, k) = "nl"}})

----------------------------------------------------------------------------
(* A finding of a text pass, with what the fixer asks of one *)

Mark(type, severity, offset, length, suggestions) ==
    [offset |-> offset, length |-> length, type |-> type, severity |-> severity,
     suggestions |-> suggestions, advisory |-> FALSE, invisible |-> "no", tier2 |-> "none",
     clues |-> FALSE, low |-> FALSE, anchor |-> "none", near |-> 0]

\* Severities: info 1, warning 2, error 3.
PunctIssue(offset, length, suggestion, severity) ==
    Mark("punctuation", severity, offset, length, <<suggestion>>)
RepetitionIssue(from, to, suggestions) == Mark("repetition", 1, from, to - from, suggestions)

\* The findings of a pass that has at most one at an offset: Finding(i) for each offset.
EachAt(t, offsets, Finding(_)) ==
    LET at == Ascending(t, offsets)
    IN  [k \in DOMAIN at |-> Finding(at[k])]
=============================================================================
