------------------------------ MODULE QuotePass ------------------------------
(* Quotation marks (engine/scan/quotes.rs): which marks convert, decided as pairs over *)
(* the raw text; which bracket each gets, decided over the findings that survived; and *)
(* whether the brackets of a text nest.                                                *)
EXTENDS Prose

\* Curly double "od" "cd", curly single "os" "cs", straight double "dq".
Kinds == {"double", "single", "straight"}
OpenOf(kind) == CASE kind = "double" -> "od" [] kind = "single" -> "os" [] OTHER -> "dq"
CloseOf(kind) == CASE kind = "double" -> "cd" [] kind = "single" -> "cs" [] OTHER -> "dq"

\* The numbers of the characters of a paragraph.
In(para) == para.start..(para.end - 1)

ApostropheLike(t, i) == At(t, i - 1) \in Letters \/ At(t, i + 1) \in Letters

\* What one paragraph has of a kind: marks, in order, and whether some were passed over.
IsOfKind(t, i, kind) == At(t, i) \in {OpenOf(kind), CloseOf(kind)}
PassedOver(t, i, kind) == IsMasked(t, i) \/ (kind = "single" /\ ApostropheLike(t, i))
CollectMarks(t, para, kind) ==
    Ascending(t, {i \in In(para): IsOfKind(t, i, kind) /\ ~PassedOver(t, i, kind)})
SomePassedOver(t, para, kind) ==
    \E i \in In(para): IsOfKind(t, i, kind) /\ PassedOver(t, i, kind)

\* The balance of a sequence of booleans, TRUE for an opening mark.
Balance(openings, from, to) ==
    Cardinality({k \in from..to: openings[k]}) - Cardinality({k \in from..to: ~openings[k]})
DirectionIsUsable(openings) ==
    /\ TRUE \in Range(openings) /\ FALSE \in Range(openings)
    /\ \A k \in DOMAIN openings: Balance(openings, 1, k) >= 0

PairingMode(t, marks, kind) ==
    IF /\ kind # "straight"
       /\ DirectionIsUsable([k \in DOMAIN marks |-> At(t, marks[k]) = OpenOf(kind)])
    THEN "directional" ELSE IF kind # "single" THEN "positional" ELSE "none"

\* Pairs of places in the list of marks: a closer belongs to the nearest opener that
\* still waits, or the marks alternate.
PairMarks(mode, openings) ==
    CASE mode = "directional" ->
            {p \in (DOMAIN openings) \X (DOMAIN openings):
                /\ p[1] < p[2] /\ Balance(openings, p[1], p[2]) = 0
                /\ \A k \in p[1]..(p[2] - 1): Balance(openings, p[1], k) > 0}
      [] mode = "positional" ->
            {<<k, k + 1>>: k \in {j \in DOMAIN openings: j % 2 = 1 /\ j < Len(openings)}}
      [] OTHER -> {}

\* What the scanner may read of a stretch.
HoldsCjk(t, from, to) == \E i \in from..(to - 1): ~IsMasked(t, i) /\ At(t, i) \in CjkContext
HoldsLatin(t, from, to) == \E i \in from..(to - 1): ~IsMasked(t, i) /\ At(t, i) \in Letters
PairIsChineseOwned(t, para, o, c) ==
    \/ HoldsCjk(t, para.start, o) \/ HoldsCjk(t, c + 1, para.end)
    \/ ~HoldsLatin(t, para.start, o) /\ ~HoldsLatin(t, c + 1, para.end)

UnpairedMarkConverts(t, i) == CjkBefore(t, i, 3) \/ CjkFrom(t, i + 1, 3)
QuotedTerm(t, o, c) ==
    /\ \A i \in (o + 1)..(c - 1): At(t, i) \notin White
    /\ UnpairedMarkConverts(t, o) \/ UnpairedMarkConverts(t, c)

\* A bug the property would show: the mark left by a passed over partner converts.
LeftoverConvertsAlways(t, para, kind, i) == UnpairedMarkConverts(t, i)

LeftoverConverts(t, para, kind, i) ==
    ~SomePassedOver(t, para, kind) /\ UnpairedMarkConverts(t, i)

\* The marks of one paragraph that convert, with the direction pairing settled on.
PlanOfParagraph(t, para, kind) ==
    LET marks == CollectMarks(t, para, kind)
        openings == [k \in DOMAIN marks |-> At(t, marks[k]) = OpenOf(kind)]
        mode == PairingMode(t, marks, kind)
        pairs == PairMarks(mode, openings)
        paired == {p[1]: p \in pairs} \cup {p[2]: p \in pairs}
        converting == {p \in pairs:
            LET o == marks[p[1]]
                c == marks[p[2]]
            IN  /\ PairIsChineseOwned(t, para, o, c)
                /\ HoldsCjk(t, o + 1, c) \/ QuotedTerm(t, o, c)}
        alone == {k \in DOMAIN marks \ paired: LeftoverConverts(t, para, kind, marks[k])}
    IN  {[offset |-> marks[p[1]], opening |-> TRUE]: p \in converting}
        \cup {[offset |-> marks[p[2]], opening |-> FALSE]: p \in converting}
        \cup {[offset |-> marks[k], opening |-> openings[k]]: k \in alone}

PlanQuoteConversions(t, kind) == UNION {PlanOfParagraph(t, para, kind): para \in Paragraphs(t)}

OpensAt(marks, i) == \E mark \in marks: mark.offset = i /\ mark.opening
BracketAt(singles, marks, i) ==
    IF \E mark \in singles: mark.offset = i
    THEN IF OpensAt(marks, i) THEN "L2" ELSE "R2"
    ELSE IF OpensAt(marks, i) THEN "L1" ELSE "R1"
BracketsFor(t, singles, marks) ==
    EachAt(t, {mark.offset: mark \in marks},
           LAMBDA i: PunctIssue(i, 1, <<BracketAt(singles, marks, i)>>, 2))
ScanPlanned(t, plan) == BracketsFor(t, plan["single"], UNION {plan[kind]: kind \in Kinds})

ScanQuotes(t) == ScanPlanned(t, [kind \in Kinds |-> PlanQuoteConversions(t, kind)])

----------------------------------------------------------------------------
(* fix_quote_pairing: brackets by depth, over the curly double marks that survived *)

IsCurlyDouble(t, issue) == issue.length = 1 /\ At(t, issue.offset) \in {"od", "cd"}

\* A bug the property would show: a closer takes the level inside its quotation.
LevelInside(depth, opens) == depth

\* The level of a mark, given how many quotations are open.
Level(depth, opens) == IF opens THEN depth ELSE Max({0, depth - 1})

\* The bracket of each mark of a group; an odd last mark keeps its own direction.
BracketsOf(t, group) ==
    LET written == [k \in DOMAIN group |-> At(t, group[k]) = "od"]
        usable == DirectionIsUsable(written)
        alternating == Len(group) - (Len(group) % 2)
        Opens(k) == IF usable \/ k > alternating THEN written[k] ELSE k % 2 = 1
        Step(state, k) ==
            LET inner == Level(state.depth, Opens(k))
            IN  [depth |-> IF Opens(k) THEN inner + 1 ELSE inner,
                 brackets |-> Append(state.brackets,
                    IF inner % 2 = 0 THEN (IF Opens(k) THEN "L1" ELSE "R1")
                    ELSE (IF Opens(k) THEN "L2" ELSE "R2"))]
    IN  FoldLeft(Step, [depth |-> 0, brackets |-> <<>>], [k \in DOMAIN group |-> k]).brackets

FixQuotePairing(t, issues) ==
    LET ours == {k \in DOMAIN issues: IsCurlyDouble(t, issues[k])}
        GroupOf(k) == Ascending(t, {issues[j].offset: j \in
            {m \in ours: \E para \in Paragraphs(t):
                            {issues[m].offset, issues[k].offset} \subseteq In(para)}})
        BracketOf(k) ==
            LET group == GroupOf(k)
            IN  BracketsOf(t, group)[CHOOSE j \in DOMAIN group: group[j] = issues[k].offset]
    IN  IF Cardinality(ours) < 2 THEN issues
        ELSE [k \in DOMAIN issues |->
                IF k \in ours THEN [issues[k] EXCEPT !.suggestions = <<<<BracketOf(k)>>>>]
                ELSE issues[k]]

----------------------------------------------------------------------------
(* validate_quote_hierarchy: a closer that does not fit, a pair of double brackets     *)
(* outside single ones, a bracket left open. Each finding suggests deleting the mark.  *)

Opener(c) == CASE c = "R1" -> "L1" [] c = "R2" -> "L2" [] OTHER -> "LB"
HierarchyStep(t, state, i) ==
    LET c == At(t, i)
        fits == state.stack # <<>> /\ At(t, Last(state.stack)) = Opener(c)
        outer == {At(t, state.stack[k]): k \in 1..(Len(state.stack) - 1)}
    IN  IF IsMasked(t, i) \/ c \notin Brackets THEN state
        ELSE IF c \in {"L1", "L2", "LB"} THEN [state EXCEPT !.stack = Append(@, i)]
        ELSE IF ~fits THEN [state EXCEPT !.wrong = Append(@, i)]
        ELSE [stack |-> Front(state.stack),
              wrong |-> IF c = "R2" /\ "L1" \notin outer
                        THEN Append(state.wrong, i) ELSE state.wrong]

MisplacedIn(t, para) ==
    LET done == FoldLeft(LAMBDA state, i: HierarchyStep(t, state, i),
                         [stack |-> <<>>, wrong |-> <<>>],
                         [k \in 1..(para.end - para.start) |-> para.start + k - 1])
    IN  Range(done.wrong) \cup Range(done.stack)

Misplaced(t) == UNION {MisplacedIn(t, para): para \in Paragraphs(t)}

ValidateQuoteHierarchy(t) == EachAt(t, Misplaced(t), LAMBDA i: PunctIssue(i, 1, <<>>, 2))
=============================================================================
