--------------------------- MODULE PunctuationPass ---------------------------
(* Half-width marks in Chinese text, enumeration commas, range indicators and          *)
(* ellipses (engine/scan/punctuation.rs and ellipsis.rs).                               *)
EXTENDS Prose

FullForm == [c \in {",", ".", "!", "?", ";", ":", "(", ")"} |->
    CASE c = "," -> "FC" [] c = "." -> "FP" [] c = "!" -> "FX" [] c = "?" -> "FQ"
      [] c = ";" -> "FS" [] c = ":" -> "FN" [] c = "(" -> "FL" [] OTHER -> "FR"]

DigitsBothSides(t, i) == At(t, i - 1) \in Digits /\ At(t, i + 1) \in Digits
IsDottedTermPeriod(t, i) == At(t, i - 1) \in Alnum /\ At(t, i + 1) \in Alnum

----------------------------------------------------------------------------
(* Whether the Chinese around a mark owns it *)

ClosesLatinRun(t, i) ==
    \/ At(t, i) \in {",", ";", ":", "!", "?"}
    \/ At(t, i) = "." /\ ~IsDottedTermPeriod(t, i)
    \/ At(t, i) \notin AsciiGraphic \cup {" "}

ExcludedRunFloor(t, i) == Max({0} \cup {j + 1: j \in {k \in 0..(i - 1): IsMasked(t, k)}})

LatinRunStart(t, i) ==
    LET floor == Max({i - SearchBytes, ExcludedRunFloor(t, i)})
    IN  Max({floor} \cup {j + 1: j \in {k \in floor..(i - 1): ClosesLatinRun(t, k)}})

\* The first letter of each word of the run.
Initials(t, i) ==
    LET run == LatinRunStart(t, i)..(i - 1)
        letters == {j \in run: At(t, j) \in Letters}
    IN  {j \in letters: \A k \in letters: k < j => \E m \in k..j: At(t, m) = " "}

InLatinClause(t, i) ==
    LET words == Initials(t, i)
    IN  Cardinality(words) >= 2 /\ \E j \in words: At(t, j) \in Lower

MarkIsChineseOwned(t, i) ==
    (BeforeIsCjk(t, i) \/ AfterIsCjk(t, i + 1)) /\ ~InLatinClause(t, i)

----------------------------------------------------------------------------
(* Brackets convert as pairs *)

Surrounded(t, i) == CjkBefore(t, i, 0) /\ CjkFrom(t, i + 1, 0)
Qualifies(t, i) == ~IsMasked(t, i) /\ Surrounded(t, i)

Depth(t, from, to) ==
    Cardinality({j \in from..to: At(t, j) = "("}) - Cardinality({j \in from..to: At(t, j) = ")"})

\* The bracket that balances the one at i, within the search distance and on its line.
\* Forwards the search ends before that distance, backwards it takes it in.
PartnerAfter(t, i) ==
    {j \in i..Min({Len(t), i + SearchBytes}) - 1:
        /\ Depth(t, i, j) = 0
        /\ \A k \in i..(j - 1): Depth(t, i, k) > 0
        /\ \A k \in i..j: At(t, k) # "nl"}
PartnerBefore(t, i) ==
    {j \in Max({0, i - SearchBytes})..i:
        /\ Depth(t, j, i) = 0
        /\ \A k \in (j + 1)..i: Depth(t, k, i) < 0
        /\ \A k \in j..i: At(t, k) # "nl"}

\* A bug the property would show: each bracket is judged on its own neighbours.
ParenAlone(t, i) == Surrounded(t, i)

ParenConverts(t, i) ==
    /\ Surrounded(t, i)
    /\ \E j \in IF At(t, i) = "(" THEN PartnerAfter(t, i) ELSE PartnerBefore(t, i):
          Qualifies(t, j)

----------------------------------------------------------------------------

ColonIsNotation(t, i) ==
    \/ DigitsBothSides(t, i)
    \/ At(t, i - 1) = "]"
    \/ At(t, i + 1) = " " /\ AtLineStart(t, i)

Converts(t, i) ==
    CASE At(t, i) = ","  -> ~DigitsBothSides(t, i) /\ MarkIsChineseOwned(t, i)
      [] At(t, i) = "."  -> /\ At(t, i - 1) # "." /\ At(t, i + 1) \notin {"."} \cup Alnum
                            /\ BeforeIsCjk(t, i)
      [] At(t, i) = "!"  -> At(t, i + 1) # "[" /\ MarkIsChineseOwned(t, i)
      [] At(t, i) \in {"?", ";"} -> MarkIsChineseOwned(t, i)
      [] At(t, i) \in {"(", ")"} -> ParenConverts(t, i)
      [] At(t, i) = ":"  -> ~ColonIsNotation(t, i) /\ MarkIsChineseOwned(t, i)

ScanPunctuation(t, cfg) ==
    LET candidates == {c \in DOMAIN FullForm: IF c = ":" THEN cfg.colon ELSE cfg.punctuation}
        converted == {i \in 0..(Len(t) - 1):
                        At(t, i) \in candidates /\ ~IsMasked(t, i) /\ Converts(t, i)}
    IN  EachAt(t, converted, LAMBDA i: PunctIssue(i, 1, <<FullForm[At(t, i)]>>, 2))

----------------------------------------------------------------------------
(* Commas that enumerate: two short items in a row *)

MaxItemChars == 4
IsShort(t, from, to) ==
    LET solid == {j \in from..(to - 1): At(t, j) \notin White}
    IN  solid # {} /\ Max(solid) - Min(solid) + 1 <= MaxItemChars

ScanDunhao(t) ==
    LET commas == Ascending(t, {i \in 0..(Len(t) - 1): At(t, i) = "FC" /\ ~IsMasked(t, i)})
        Short(k) == k \in 1..(Len(commas) - 1) /\ IsShort(t, commas[k] + 1, commas[k + 1])
        listed == {commas[k]: k \in {n \in DOMAIN commas:
                                        \E j \in (n - 2)..n: Short(j) /\ Short(j + 1)}}
    IN  EachAt(t, listed, LAMBDA i: PunctIssue(i, 1, <<"DUN">>, 1))

----------------------------------------------------------------------------
(* Ranges: 3~5 stays, a tilde or hyphen between Chinese does not *)

TildeIsRange(t, i) ==
    LET left == At(t, i - 1) \in Digits
        right == At(t, i + 1) \in Digits
    IN  /\ left \/ BeforeIsCjk(t, i)
        /\ right \/ AfterIsCjk(t, i + 1)
        /\ BeforeIsCjk(t, i) \/ AfterIsCjk(t, i + 1)
        /\ right => left

HyphenIsRange(t, i) ==
    /\ At(t, i - 1) # "-" /\ At(t, i + 1) # "-"
    /\ ~AtLineStart(t, i)
    /\ BeforeIsCjk(t, i) /\ AfterIsCjk(t, i + 1)

ScanRangeIndicators(t, cfg) ==
    LET ranges == {i \in 0..(Len(t) - 1):
            /\ ~IsMasked(t, i)
            /\ \/ At(t, i) = "~" /\ TildeIsRange(t, i)
               \/ At(t, i) = "-" /\ HyphenIsRange(t, i)}
        form == IF cfg.range_en_dash THEN "ENDASH" ELSE "WAVE"
    IN  EachAt(t, ranges, LAMBDA i: PunctIssue(i, 1, <<form>>, 1))

----------------------------------------------------------------------------
(* Ellipses *)

\* The places where a run of one character starts, and where it ends.
RunStarts(t, c) == {i \in 0..(Len(t) - 1): At(t, i) = c /\ At(t, i - 1) # c}
RunEnd(t, i) == Min({Len(t)} \cup {j \in i..(Len(t) - 1): At(t, j) # At(t, i)})

BesideCjk(t, from, to) == BeforeIsCjk(t, from) \/ AfterIsCjk(t, to)

\* Dots after an equals sign, in a code comment, or leading to a page number stay.
DotsAreNoEllipsis(t, from, to) ==
    LET line == LineStart(t, from)
        solid == {j \in line..(from - 1): At(t, j) # " "}
        after == {j \in to..(Len(t) - 1): At(t, j) # " "}
    IN  \/ solid # {} /\ At(t, Max(solid)) = "="
        \/ solid # {} /\ At(t, Min(solid)) = "/" /\ At(t, Min(solid) + 1) = "/" /\ Min(solid) + 1 < from
        \/ to - from >= 5 /\ after # {} /\ At(t, Min(after)) \in Digits

IsEllipsis(t, from, to) ==
    CASE At(t, from) = "." -> /\ to - from >= 3 /\ ~DotsAreNoEllipsis(t, from, to)
                              /\ BesideCjk(t, from, to)
      [] At(t, from) = "FP" -> to - from >= 3
      [] At(t, from) = "EL" -> to - from = 1 /\ BesideCjk(t, from, to)

ScanEllipsis(t) ==
    LET starts == {i \in UNION {RunStarts(t, c): c \in {".", "FP", "EL"}}:
                      ~IsExcluded(t, i, RunEnd(t, i)) /\ IsEllipsis(t, i, RunEnd(t, i))}
        Severity(i) == IF At(t, i) = "EL" THEN 1 ELSE 2
    IN  EachAt(t, starts, LAMBDA i: PunctIssue(i, RunEnd(t, i) - i, <<"EL", "EL">>, Severity(i)))
=============================================================================
