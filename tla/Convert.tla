------------------------------- MODULE Convert -------------------------------
(* The scan of a text by the passes that need no rule, and the commands that rewrite   *)
(* with it: convert scans and fixes up to three times (main.rs), the linter once per   *)
(* run. The text is typed first, one character at a time.                              *)
EXTENDS PunctuationPass, QuotePass, SpacingPass

CONSTANT Sheets  \* what is typed and what is done with it: the pieces of a text, how many
                 \* characters it may have, the settings, the fix mode and the rounds

VARIABLES
    sheet,
    texts,      \* the text as typed, then after each round that changed it
    phase       \* "typing", "fixing", "done"

vars == <<sheet, texts, phase>>

Typed == texts[1]
Current == Last(texts)

----------------------------------------------------------------------------
(* Scanner::scan_with_config_into_content_type, for the passes modelled *)

RunLexicalPasses(t, cfg) ==
    (IF cfg.punctuation \/ cfg.colon THEN ScanPunctuation(t, cfg) ELSE <<>>)
    \o (IF cfg.dunhao THEN ScanDunhao(t) ELSE <<>>)
    \o (IF cfg.range THEN ScanRangeIndicators(t, cfg) ELSE <<>>)
    \o (IF cfg.ellipsis THEN ScanEllipsis(t) ELSE <<>>)
    \o (IF cfg.quotes THEN ScanQuotes(t) ELSE <<>>)
    \o (IF cfg.spacing THEN ScanSpacing(t, cfg) ELSE <<>>)
    \o ScanRepetition(t)
    \o ScanSpacedAcronyms(t)

\* A stable sort.
StableSort(issues, Before(_, _)) ==
    LET order == SortSeq([k \in DOMAIN issues |-> k],
                    LAMBDA i, j: \/ Before(issues[i], issues[j])
                                 \/ ~Before(issues[j], issues[i]) /\ i < j)
    IN  [k \in DOMAIN issues |-> issues[order[k]]]

EarlierLonger(a, b) == a.offset < b.offset \/ (a.offset = b.offset /\ a.length > b.length)
TypeOrder(type) == IF type = "punctuation" THEN 3 ELSE 9
EarlierWorse(a, b) ==
    \/ a.offset < b.offset
    \/ a.offset = b.offset /\ a.severity > b.severity
    \/ a.offset = b.offset /\ a.severity = b.severity /\ TypeOrder(a.type) < TypeOrder(b.type)

\* A bug the property would show: the deletions come whatever is turned off.
HierarchyAlways(t, cfg) == ValidateQuoteHierarchy(t)

Unrepaired(found) == [k \in DOMAIN found |-> [found[k] EXCEPT !.suggestions = <<>>]]

\* The report on misplaced brackets comes with quotes turned off, the rewrite does not.
Hierarchy(t, cfg) ==
    IF cfg.quotes THEN ValidateQuoteHierarchy(t) ELSE Unrepaired(ValidateQuoteHierarchy(t))

Paired(t, cfg, kept) == IF cfg.quotes THEN FixQuotePairing(t, kept) ELSE kept

ScanOf(t, cfg) ==
    IF t = <<>> THEN <<>>
    ELSE StableSort(Paired(t, cfg, ResolveOverlaps(StableSort(RunLexicalPasses(t, cfg),
                                                              EarlierLonger)))
                        \o Hierarchy(t, cfg),
                    EarlierWorse)

FixOnce(t) == ApplyFixes(t, ScanOf(t, sheet.cfg), sheet.mode, Exclusions(t))

----------------------------------------------------------------------------

Init ==
    /\ sheet \in Sheets
    /\ texts = <<<<>>>>
    /\ phase = "typing"

Type ==
    /\ phase = "typing"
    /\ \E piece \in sheet.pieces:
          /\ Len(Typed) + Len(piece) <= sheet.max
          /\ texts' = <<Typed \o piece>>
    /\ UNCHANGED <<sheet, phase>>

Run ==
    /\ phase = "typing"
    /\ phase' = "fixing"
    /\ UNCHANGED <<sheet, texts>>

\* The rounds end when a scan finds nothing the fixer applies, or after the last one.
Settle(fixed) == fixed.applied = 0 /\ phase' = "done" /\ UNCHANGED texts
Rewrite(fixed) ==
    /\ fixed.applied > 0
    /\ texts' = Append(texts, fixed.text)
    /\ phase' = IF Len(texts) = sheet.rounds THEN "done" ELSE "fixing"

Round ==
    /\ phase = "fixing"
    /\ \E fixed \in {FixOnce(Current)}: Settle(fixed) \/ Rewrite(fixed)
    /\ UNCHANGED sheet

Next == Type \/ Run \/ Round
Spec == Init /\ [][Next]_vars

----------------------------------------------------------------------------
(* Properties *)

\* What the mask excludes is still there, in order, whatever the rounds rewrote around
\* it: the ranges are rebuilt from each new text, and a finding may reach over them.
ExcludedSurvives ==
    SelectSeq(Current, LAMBDA c: c \in Masked) = SelectSeq(Typed, LAMBDA c: c \in Masked)

\* No two passes undo each other: a round never brings back an earlier text.
NeverReturns == \A i, j \in DOMAIN texts: i # j => texts[i] # texts[j]

\* The brackets of a line that balance each other, and the quotations of a paragraph
\* that has no other mark of the kind.
ParenPairs(t) ==
    {p \in (0..(Len(t) - 1)) \X (0..(Len(t) - 1)):
        /\ At(t, p[1]) = "(" /\ At(t, p[2]) = ")" /\ p[1] < p[2]
        /\ Depth(t, p[1], p[2]) = 0
        /\ \A k \in p[1]..(p[2] - 1): Depth(t, p[1], k) > 0
        /\ \A k \in p[1]..p[2]: At(t, k) # "nl"}
Quotations(t) ==
    {p \in (0..(Len(t) - 1)) \X (0..(Len(t) - 1)):
        \E para \in Paragraphs(t), kind \in Kinds:
            /\ p[1] < p[2]
            /\ At(t, p[1]) = OpenOf(kind) /\ At(t, p[2]) = CloseOf(kind)
            /\ {p[1], p[2]} = {i \in In(para): IsOfKind(t, i, kind)}}

\* Both halves of a pair are rewritten or neither is, whatever stands next to each and
\* though one of them may be excluded or an apostrophe.
FoundAt(issues, i) == \E k \in DOMAIN issues: issues[k].offset = i /\ issues[k].length = 1
PairsStayWhole ==
    phase = "fixing" =>
        \A issues \in {ScanOf(Current, sheet.cfg)}:
            \A p \in ParenPairs(Current) \cup Quotations(Current):
                FoundAt(issues, p[1]) <=> FoundAt(issues, p[2])

QuoteMarks == {"od", "cd", "os", "cs", "dq", "xquote"} \cup Brackets
Opening(t) ==
    LET marks == SelectSeq(t, LAMBDA c: c \in QuoteMarks)
    IN  [k \in DOMAIN marks |-> marks[k] \in {"od", "L1", "L2"}]
\* Only curly double marks, which nest at most as deep as said in every paragraph.
CurlyAndNested(t, deepest) ==
    /\ \A k \in DOMAIN t: t[k] \in QuoteMarks => t[k] \in {"od", "cd"}
    /\ \A para \in Paragraphs(t):
          LET openings == Opening(SubSeq(t, para.start + 1, para.end))
          IN  /\ Balance(openings, 1, Len(openings)) = 0
              /\ \A k \in DOMAIN openings: Balance(openings, 1, k) \in 0..deepest
SameQuotations == Opening(Current) = Opening(Typed) /\ Misplaced(Current) = {}

\* Quotations that follow each other come through all rounds: what one round writes, the
\* passes of the next (repeated marks, misplaced brackets, spaces) leave alone.
FlatQuotesSurvive == CurlyAndNested(Typed, 1) => SameQuotations

\* With the quotes and spacing families off no quotation mark and no bracket is written
\* or deleted, also where one is reported as misplaced.
QuotesOffKeepsMarks ==
    ~sheet.cfg.quotes /\ ~sheet.cfg.spacing =>
        SelectSeq(Current, LAMBDA c: c \in QuoteMarks) = SelectSeq(Typed, LAMBDA c: c \in QuoteMarks)

----------------------------------------------------------------------------
(* What the comments say, and the code does not do *)

\* A quotation that is the only one of its text keeps both marks or loses both: "a
\* quotation is never half-rewritten" (punctuation.rs).
NeverHalfRewritten ==
    phase = "done" /\ Quotations(Typed) # {} =>
        (Len(Opening(Typed)) = 2 => Len(Opening(Current)) # 1)

\* Quotations in quotations come through as well: TW text uses single brackets "at depth
\* 0", double ones "at depth 1, alternating for deeper nesting" (quotes.rs).
NestedQuotesSurvive == CurlyAndNested(Typed, 2) => SameQuotations

\* The bracket of each curly mark opens or closes as the pairing planned it: "They have
\* to reach the same verdict or the second overwrites the direction the first chose"
\* (quotes.rs).
PlannedDirectionKept ==
    phase # "typing" =>
        \A issues \in {ScanOf(Current, sheet.cfg)}:
            \A k \in DOMAIN issues: \A mark \in PlanQuoteConversions(Current, "double"):
                issues[k].offset = mark.offset /\ issues[k].length = 1
                    => (issues[k].suggestions[1] \in {<<"L1">>, <<"L2">>} <=> mark.opening)
=============================================================================
