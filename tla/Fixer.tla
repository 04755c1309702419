-------------------------------- MODULE Fixer --------------------------------
(* What the program writes into a text. The overlap pass chooses among the matches    *)
(* of a scan (engine/scan/overlap.rs), fix_verdict judges one issue, and               *)
(* apply_fixes_with_context writes the chosen replacements in one forward pass         *)
(* (fixer.rs). After a fix, offsets, excluded ranges and the issues of the second scan *)
(* are brought in line with the rewritten text.                                        *)
(*                                                                                     *)
(* A text is a sequence of characters of one byte, so the guard against an offset      *)
(* inside a character is the guard against an offset past the end. Offsets count from  *)
(* 0, as in the code. What the segmenter finds near an issue is its field "near".      *)
EXTENDS Ranges, Integers, Sequences, SequencesExt, FiniteSets, FiniteSetsExt, TLC

IssueEnd(issue) == issue.offset + issue.length

----------------------------------------------------------------------------
(* resolve_overlaps: longest first, then the more severe, then the earlier. *)

Outranks(a, b) ==
    \/ a.length > b.length
    \/ a.length = b.length /\ a.severity > b.severity
    \/ a.length = b.length /\ a.severity = b.severity /\ a.offset < b.offset

\* A stable sort: of two issues that tie in everything the first stays first.
PriorityOrder(issues) ==
    SortSeq([k \in DOMAIN issues |-> k],
            LAMBDA i, j: \/ Outranks(issues[i], issues[j])
                         \/ ~Outranks(issues[j], issues[i]) /\ i < j)

Place(accepted, start) == Cardinality({k \in DOMAIN accepted: accepted[k].start < start})

\* Only the two neighbours in the list of accepted spans, sorted by start, are looked at.
Free(accepted, span) ==
    LET pos == Place(accepted, span.start)
    IN  /\ pos > 0 => accepted[pos].end <= span.start
        /\ pos < Len(accepted) => span.end <= accepted[pos + 1].start

ResolveOverlaps(issues) ==
    LET Weigh(state, i) ==
            LET span == Span(issues[i].offset, issues[i].length)
                pos == Place(state.accepted, span.start)
            IN  IF Free(state.accepted, span)
                THEN [accepted |-> InsertAt(state.accepted, pos + 1, span),
                      keep |-> state.keep \cup {i}]
                ELSE state
        done == FoldLeft(Weigh, [accepted |-> <<>>, keep |-> {}], PriorityOrder(issues))
        kept == SelectSeq([k \in DOMAIN issues |-> k], LAMBDA k: k \in done.keep)
    IN  IF Len(issues) <= 1 THEN issues ELSE [k \in DOMAIN kept |-> issues[kept[k]]]

----------------------------------------------------------------------------
(* fix_verdict. Tiers are ordered: none 0, orthographic 1, lexical_safe 2,          *)
(* lexical_contextual 3. A verdict is "apply", "skip" (out of scope at this tier) or *)
(* "decline" (weighed and turned down).                                              *)

OrthographicTypes == {"punctuation", "case", "variant", "grammar"}
MinClues(type) == IF type = "confusable" THEN 2 ELSE 1

\* invisible: "no", "junk" (zero-width spaces, a byte order mark inside the text) or
\* "other" (joiners, which only a human may remove).
DeletesInvisible(issue) ==
    issue.type = "ai_style" /\ issue.suggestions = <<<<>>>> /\ issue.invisible # "no"
Orthographic(issue) ==
    \/ issue.type \in OrthographicTypes
    \/ DeletesInvisible(issue) /\ issue.invisible = "junk"

ByArity(issue) ==
    IF Len(issue.suggestions) = 1 THEN "apply"
    ELSE IF Len(issue.suggestions) > 1 THEN "decline" ELSE "skip"

LexicalVerdict(issue, mode) ==
    IF mode = 1 THEN "skip"
    ELSE IF issue.tier2 = "suppressed" THEN "decline"
    ELSE IF mode < 3 /\ issue.clues THEN "skip"
    ELSE IF \/ mode < 3 /\ issue.low
            \/ issue.anchor = "false" /\ ~issue.clues
            \/ issue.clues /\ issue.near < MinClues(issue.type) THEN "decline"
    ELSE ByArity(issue)

FixVerdict(issue, mode) ==
    IF DeletesInvisible(issue) /\ ~Orthographic(issue) THEN "decline"
    ELSE IF issue.advisory THEN "skip"
    ELSE IF Orthographic(issue) THEN ByArity(issue)
    ELSE LexicalVerdict(issue, mode)

----------------------------------------------------------------------------
(* apply_fixes_with_context *)

Normalized(ranges) ==
    IF \A k \in 1..(Len(ranges) - 1): ranges[k].end <= ranges[k + 1].start
    THEN ranges ELSE MergeRanges(ranges)

\* An insertion at the edge of a range writes outside it.
WritesInto(issue, ranges) ==
    \E k \in DOMAIN ranges:
        IF issue.length = 0
        THEN ranges[k].start < issue.offset /\ issue.offset < ranges[k].end
        ELSE Overlap(Span(issue.offset, issue.length), ranges[k])

Copied(text, from, to) == SubSeq(text, from + 1, to)

\* A bug the property would show: only what was written bars an inner span.
BlockedByWritten(state, issue) == issue.offset < state.cursor

Blocked(state, issue) ==
    \/ issue.offset < state.cursor
    \/ issue.type = "grammar" /\ issue.offset < state.skipUntil

FixStep(text, mode, excluded, state, issue) ==
    LET verdict == FixVerdict(issue, mode)
    IN  IF IssueEnd(issue) > Len(text) \/ Blocked(state, issue) THEN state
        ELSE IF WritesInto(issue, excluded)
        THEN [state EXCEPT !.skipUntil = Max({@, IssueEnd(issue)})]
        ELSE IF verdict = "apply"
        THEN [state EXCEPT !.out = @ \o Copied(text, state.cursor, issue.offset)
                                     \o issue.suggestions[1],
                           !.cursor = IssueEnd(issue),
                           !.fixes = Append(@, [offset |-> issue.offset,
                                                old_len |-> issue.length,
                                                replacement |-> issue.suggestions[1]])]
        ELSE IF verdict = "decline" THEN [state EXCEPT !.declined = @ + 1]
        ELSE state

ApplyFixes(text, issues, mode, excluded) ==
    LET start == [out |-> <<>>, cursor |-> 0, skipUntil |-> 0, declined |-> 0, fixes |-> <<>>]
        ranges == Normalized(excluded)
        Step(state, issue) == FixStep(text, mode, ranges, state, issue)
        done == IF mode = 0 THEN start ELSE FoldLeft(Step, start, issues)
    IN  [text |-> done.out \o Copied(text, done.cursor, Len(text)),
         applied |-> Len(done.fixes),
         skipped |-> IF mode = 0 THEN 0 ELSE Len(issues) - Len(done.fixes),
         declined |-> done.declined,
         fixes |-> done.fixes]

----------------------------------------------------------------------------
(* After the fix *)

SumOver(seq, Weight(_)) == FoldLeft(LAMBDA sum, e: sum + Weight(e), 0, seq)
Growth(fix) == Len(fix.replacement) - fix.old_len
Moved(n) == IF n < 0 THEN 0 ELSE n

\* remap_to_post_fix: fixes strictly before the offset move it.
RemapToPostFix(offset, fixes) ==
    Moved(offset + SumOver(fixes, LAMBDA fix: IF fix.offset < offset THEN Growth(fix) ELSE 0))

\* A bug the property would show: an insertion at the edge of a range does not move it.
RemapExclusionsStrictly(ranges, fixes) ==
    [r \in DOMAIN ranges |->
        LET delta == RemapToPostFix(ranges[r].start, fixes) - ranges[r].start
        IN  [start |-> ranges[r].start + delta, end |-> ranges[r].end + delta]]

\* remap_exclusions: both lists are sorted; fixes up to the first that ends after the
\* start of a range move it.
RemapExclusions(ranges, fixes) ==
    [r \in DOMAIN ranges |->
        LET passed == SelectSeq(fixes, LAMBDA fix: fix.offset + fix.old_len <= ranges[r].start)
            delta == SumOver(passed, Growth)
        IN  [start |-> Moved(ranges[r].start + delta), end |-> Moved(ranges[r].end + delta)]]

WrittenRanges(fixes) ==
    [k \in DOMAIN fixes |->
        LET post == Moved(fixes[k].offset + SumOver(SubSeq(fixes, 1, k - 1), Growth))
        IN  Span(post, Len(fixes[k].replacement))]

\* suppress_convergent_issues: what the second scan finds in what the fixer wrote, and
\* what it finds where the fixer has deleted something.
SuppressConvergent(issues, fixes) ==
    LET written == WrittenRanges(fixes)
        Touches(issue, range) ==
            IF range.start = range.end
            THEN issue.offset <= range.start /\ range.start < IssueEnd(issue)
            ELSE Overlap(Span(issue.offset, issue.length), range)
    IN  SelectSeq(issues, LAMBDA issue: \A k \in DOMAIN written: ~Touches(issue, written[k]))
=============================================================================
