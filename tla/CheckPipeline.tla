---------------------------- MODULE CheckPipeline ----------------------------
(* What becomes of one text between the scan and the report, in the three front ends:  *)
(* the MCP tool (mcp/tools.rs), the batch linter (cli/lint.rs) and the hook            *)
(* (cli/hook.rs). They share the scanner, Tier 2 (engine/disambig.rs), the glossary,   *)
(* the ignored terms, the translation memory and the fixer, and run them in different  *)
(* orders; a stage is an action.                                                       *)
(*                                                                                     *)
(* A text is a sequence of words of one byte. Rules(word) is what the ruleset says of  *)
(* a word, so the scanner is a lookup; its passes are modelled elsewhere. Severities:  *)
(* 1 info, 2 warning, 3 error. Scores are in hundredths.                               *)
EXTENDS Fixer

CONSTANTS Texts,        \* the texts a run looks at
          SettingsChoices, \* stores and settings: records of sets of terms
          VerifiedSettings \* those of them that are tried together with verification

VARIABLES job,      \* front end, fix mode, settings
          text,     \* the current buffer
          excluded, \* byte ranges of the first scan
          plan,     \* stages still to run
          issues,
          saved,    \* the issues as they stood when the fixer ran
          fix       \* what the fixer did
vars == <<job, text, excluded, plan, issues, saved, fix>>

----------------------------------------------------------------------------
(* The scanner, as far as this module sees it *)

\* One rule of each kind the stages tell apart: a term with one answer, an ambiguous one
\* with clues, one that has to be deleted, and one that a stance may allow. The first two
\* name their English anchor, so they can be verified.
Rules ==
    "calque"   :> [type |-> "cross_strait", severity |-> 2, suggestions |-> <<<<"prose">>>>, clues |-> {}] @@
    "homonym"  :> [type |-> "cross_strait", severity |-> 2,
                   suggestions |-> <<<<"prose">>, <<"latin">>>>, clues |-> {"cue", "latin"}] @@
    "filler"   :> [type |-> "ai_style", severity |-> 1, suggestions |-> <<<<>>>>, clues |-> {}] @@
    "identity" :> [type |-> "political_coloring", severity |-> 3, suggestions |-> <<<<"prose">>>>, clues |-> {}]

\* "code" is the calque inside a code span: a term in an excluded range.
Term(word) == IF word = "code" THEN "calque" ELSE word
Exclusions(t) == LET at == SetToSortSeq({p \in DOMAIN t: t[p] = "code"}, <)
                 IN  [k \in DOMAIN at |-> Span(at[k] - 1, 1)]

Near(t, clues) == Cardinality({t[p]: p \in DOMAIN t} \cap clues)

NewIssue(offset, length, term, type, severity, suggestions) ==
    [offset |-> offset, length |-> length, term |-> term, type |-> type, severity |-> severity,
     suggestions |-> suggestions, clues |-> FALSE, near |-> 0, anchor |-> "none",
     tier2 |-> "not_eligible", judged |-> FALSE, banned |-> FALSE, low |-> FALSE,
     advisory |-> FALSE, invisible |-> "no"]

\* A rule that has clues is matched only where one of them is near.
ClueGate(rule, t) == rule.clues = {} \/ Near(t, rule.clues) >= 1

Matches(t, ranges) ==
    LET hits == SetToSortSeq({p \in DOMAIN t:
                    /\ Term(t[p]) \in DOMAIN Rules /\ ClueGate(Rules[Term(t[p])], t)
                    /\ ~\E k \in DOMAIN ranges: Overlap(Span(p - 1, 1), ranges[k])}, <)
        Inflate(p) ==
            LET rule == Rules[Term(t[p])]
            IN  [NewIssue(p - 1, 1, Term(t[p]), rule.type, rule.severity, rule.suggestions)
                    EXCEPT !.clues = rule.clues # {}, !.near = Near(t, rule.clues)]
    IN  [k \in DOMAIN hits |-> Inflate(hits[k])]

\* Under the "require" policy a Latin word needs a space before what follows it: an
\* insertion at the offset of the next character.
MissingSpaces(t) ==
    LET gaps == SetToSortSeq({p \in DOMAIN t: p > 1 /\ t[p - 1] = "latin"
                                               /\ t[p] \notin {"latin", "space"}}, <)
    IN  [k \in DOMAIN gaps |-> NewIssue(gaps[k] - 1, 0, "", "punctuation", 1, <<<<"space">>>>)]

\* Two constructs, "front X perform" and "perform" alone, that lose their function words.
\* They join after the overlaps are resolved and may hold other findings, each other, and
\* code.
Constructs(t, ranges) ==
    LET Outside(p) == ~\E k \in DOMAIN ranges: Overlap(Span(p - 1, 1), ranges[k])
        outer == SetToSortSeq({p \in DOMAIN t: p + 2 \in DOMAIN t /\ t[p] = "front"
                                              /\ t[p + 2] = "perform"}, <)
        inner == SetToSortSeq({p \in DOMAIN t: t[p] = "perform" /\ Outside(p)}, <)
    IN  [k \in DOMAIN outer |->
            NewIssue(outer[k] - 1, 3, "front", "grammar", 1, <<<<t[outer[k] + 1]>>>>)]
        \o [k \in DOMAIN inner |->
            NewIssue(inner[k] - 1, 1, "perform", "grammar", 1, <<<<>>>>)]

TypeOrder(type) == CASE type = "political_coloring" -> 0 [] type = "cross_strait" -> 1
                     [] type = "punctuation" -> 5 [] type = "grammar" -> 7 [] type = "ai_style" -> 8
Sorted(found) ==
    SortSeq(found, LAMBDA a, b:
        \/ a.offset < b.offset
        \/ a.offset = b.offset /\ a.severity > b.severity
        \/ a.offset = b.offset /\ a.severity = b.severity /\ TypeOrder(a.type) < TypeOrder(b.type))
ScanOf(t, ranges) ==
    Sorted(ResolveOverlaps(Matches(t, ranges) \o MissingSpaces(t)) \o Constructs(t, ranges))

----------------------------------------------------------------------------
(* Tier 2 *)

Decided == 60
Ambiguous == 30

ClueScore(issue) ==
    IF issue.near = 0 THEN 0
    ELSE Min({70, 30 + (40 * issue.near) \div Cardinality(Rules[issue.term].clues)})
Anchor(issue) ==
    IF issue.anchor # "true" \/ Len(issue.suggestions) = 0 THEN "no"
    ELSE IF Len(issue.suggestions) = 1 THEN "hard" ELSE "soft"
AnchorBonus(issue) ==
    CASE Anchor(issue) = "soft" -> 20 [] issue.anchor = "false" -> -20 [] OTHER -> 0
\* A homonym is right in some domains, so it is judged with clues and without.
Screened(issue) == issue.term = "homonym"
VetoedBy(issue, t) == Screened(issue) /\ \E p \in DOMAIN t: t[p] = "veto"

Score(issue) ==
    LET raw == ClueScore(issue) + AnchorBonus(issue)
    IN  IF raw < 0 THEN 0 ELSE Min({raw, 100})

Tier2Eligible(issue) ==
    /\ issue.type \in {"cross_strait", "confusable"}
    /\ issue.anchor = "true" \/ Len(issue.suggestions) > 1 \/ issue.clues \/ Screened(issue)

Judge(issue, t) ==
    IF Anchor(issue) = "hard" THEN "resolved"
    ELSE IF VetoedBy(issue, t) THEN "suppressed"
    ELSE IF Score(issue) >= Decided THEN "resolved"
    ELSE IF Score(issue) < Ambiguous THEN "suppressed" ELSE "gray_zone"

Disambiguated(issue, t) ==
    IF ~Tier2Eligible(issue) THEN issue
    ELSE [issue EXCEPT !.tier2 = Judge(issue, t),
                       !.severity = IF Judge(issue, t) = "suppressed" THEN 1 ELSE @]

(* Verification by translation, and Tier 3 *)

\* An issue that the glossary has made up has no anchor.
HasEnglish(issue) == issue.term \in {"calque", "homonym"} /\ issue.suggestions # <<>>

SamplingEligible(issue) ==
    \/ issue.tier2 = "gray_zone"
    \/ /\ issue.tier2 \notin {"resolved", "suppressed"} /\ HasEnglish(issue)
       /\ issue.anchor = "true" => Len(issue.suggestions) > 1
       /\ issue.anchor # "false" => Len(issue.suggestions) > 1 \/ issue.clues

----------------------------------------------------------------------------
(* Stores and settings *)

Each(found, F(_)) == [k \in DOMAIN found |-> F(found[k])]

ToInfo(found, Picks(_)) == Each(found, LAMBDA i: IF Picks(i) THEN [i EXCEPT !.severity = 1] ELSE i)

FilterStance(found, stance) ==
    SelectSeq(found, LAMBDA i: i.type = "political_coloring" => stance = "roc_centric")
ApplySuppressions(found, terms) == ToInfo(found, LAMBDA i: i.term \in terms)
ApplyIgnoreSet(found, terms) == ToInfo(found, LAMBDA i: i.term \in terms)

\* A bug the property would show: the memory outranks the glossary.
ImmuneByType(issue) == issue.type \in OrthographicTypes \cup {"ai_style"}

Immune(issue) == issue.banned \/ issue.type \in OrthographicTypes \cup {"ai_style"}

SuppressIssues(found, tm) == ToInfo(found, LAMBDA i: ~Immune(i) /\ i.term \in tm)

\* apply_glossary: proper nouns leave, then each banned term upgrades the issue that
\* covers it or becomes an issue of its own, outside excluded ranges.
ApplyGlossary(t, found, glossary) ==
    LET kept == SelectSeq(found, LAMBDA i: i.term \notin glossary.proper)
        ranges == Exclusions(t)
        sites == SetToSortSeq({p \in DOMAIN t: Term(t[p]) \in glossary.banned
                    /\ ~\E k \in DOMAIN ranges: Overlap(Span(p - 1, 1), ranges[k])}, <)
        Enforce(list, p) ==
            LET covers == {k \in DOMAIN list: list[k].offset <= p - 1 /\ p <= IssueEnd(list[k])}
            IN  IF covers # {}
                THEN [list EXCEPT ![Min(covers)].severity = 3, ![Min(covers)].banned = TRUE]
                ELSE Append(list, [NewIssue(p - 1, 1, Term(t[p]), "cross_strait", 3, <<>>)
                                        EXCEPT !.banned = TRUE])
    IN  IF glossary.proper \cup glossary.banned = {} THEN found
        ELSE SortSeq(FoldLeft(Enforce, kept, sites), LAMBDA a, b: a.offset < b.offset)

----------------------------------------------------------------------------
(* The second scan *)

\* A bug the property would show: the offsets of the text before the fix are compared.
SameOffset(issue, state, fixes) ==
    state.offset = issue.offset /\ state.term = issue.term /\ state.length = issue.length

SameFinding(issue, state, fixes) ==
    /\ RemapToPostFix(state.offset, fixes) = issue.offset
    /\ state.term = issue.term /\ state.length = issue.length
    /\ HasEnglish(state) = HasEnglish(issue)

RestorePreserved(found, states, fixes) ==
    Each(found, LAMBDA i:
        LET same == {k \in DOMAIN states: SameFinding(i, states[k], fixes)}
        IN  IF same = {} THEN i
            ELSE [i EXCEPT !.severity = states[Min(same)].severity,
                           !.anchor = states[Min(same)].anchor,
                           !.suggestions = states[Min(same)].suggestions])

Reconcile(found, t, states, fixes, set) ==
    LET filtered == FilterStance(found, set.stance)
        lowered == ApplyIgnoreSet(ApplySuppressions(filtered, set.suppressed), set.ignored)
        restored == RestorePreserved(lowered, states, fixes)
        settled == SuppressConvergent(restored, fixes)
    IN  SuppressIssues(ApplyGlossary(t, settled, set), set.tm)

----------------------------------------------------------------------------
(* The front ends *)

Plan(front, mode) ==
    CASE front = "mcp" /\ mode = 0 ->
            <<"scan", "stance", "verify", "tier2", "tier3", "suppress", "tm", "ignore", "glossary">>
      [] front = "mcp" /\ mode > 0 ->
            <<"scan", "stance", "verify", "tier2", "tier3", "suppress", "ignore", "glossary",
              "fix", "rescan">>
      [] front = "lint" ->
            <<"scan", "glossary", "tier2", "fix", "rescan", "verify", "tm", "ignore">>
      [] front = "hook" -> <<"scan", "glossary", "tm", "ignore", "floor">>

NoFix(t) == [text |-> t, applied |-> 0, skipped |-> 0, declined |-> 0, fixes |-> <<>>]

\* A job of the linter may be a dry run; its fixed text is written nowhere.
Jobs == [front: {"mcp", "lint"}, mode: {0, 2, 3}, dry: {FALSE}, verify: BOOLEAN,
         set: SettingsChoices]
            \cup [front: {"lint"}, mode: {3}, dry: {TRUE}, verify: {FALSE}, set: SettingsChoices]
            \cup [front: {"hook"}, mode: {0}, dry: {FALSE}, verify: {FALSE}, set: SettingsChoices]

Init ==
    /\ text \in Texts
    /\ job \in Jobs
    /\ job.verify => job.set \in VerifiedSettings
    /\ excluded = Exclusions(text)
    /\ plan = Plan(job.front, job.mode)
    /\ issues = <<>> /\ saved = <<>>
    /\ fix = NoFix(text)

Stage(name) == plan # <<>> /\ Head(plan) = name /\ plan' = Tail(plan)
Becomes(found) == issues' = found /\ UNCHANGED <<job, text, excluded, saved, fix>>

Scan == Stage("scan") /\ Becomes(ScanOf(text, excluded))

\* The linter and the hook have no stance to filter by: theirs is the default one.
Stance == Stage("stance") /\ Becomes(FilterStance(issues, job.set.stance))

\* calibrate_issues: what the service says of an anchor in a sentence, or nothing.
Verify ==
    /\ Stage("verify")
    /\ LET asked == IF job.verify THEN {issues[k].term: k \in DOMAIN issues}
                                       \cap {"calque", "homonym"} ELSE {}
       IN \E anchor \in [asked -> {"true", "false", "none"}]:
            Becomes(Each(issues, LAMBDA i: IF i.term \in asked /\ HasEnglish(i)
                                           THEN [i EXCEPT !.anchor = anchor[i.term]] ELSE i))

Tier2 == Stage("tier2") /\ Becomes(Each(issues, LAMBDA i: Disambiguated(i, text)))

\* The client confirms one of the suggestions, rejects them all, or does not answer. An
\* answer about a term is good for the next issue with that term.
Tier3 ==
    /\ Stage("tier3")
    /\ LET open == {k \in DOMAIN issues: SamplingEligible(issues[k])}
       IN \E answer \in [open -> {"confirmed", "rejected", "none"}]:
            /\ \A j, k \in open: j < k /\ issues[j].term = issues[k].term
                                 => answer[j] \in {"none", answer[k]}
            /\ Becomes([k \in DOMAIN issues |->
                    IF k \notin open \/ answer[k] = "none" THEN issues[k]
                    ELSE [issues[k] EXCEPT !.judged = TRUE,
                            !.severity = IF answer[k] = "rejected" THEN 1 ELSE @]])

Suppress == Stage("suppress") /\ Becomes(ApplySuppressions(issues, job.set.suppressed))
Memory == Stage("tm") /\ Becomes(SuppressIssues(issues, job.set.tm))
Ignore == Stage("ignore") /\ Becomes(ApplyIgnoreSet(issues, job.set.ignored))
Glossary == Stage("glossary") /\ Becomes(ApplyGlossary(text, issues, job.set))

\* The hook reports nothing that is only advice.
Floor == Stage("floor") /\ Becomes(SelectSeq(issues, LAMBDA i: i.severity # 1))

\* The memory vetoes what goes into the fixer, not what comes out of it.
Vetted(found, tm) == SelectSeq(found, LAMBDA i: i.term \notin tm)

Fix ==
    /\ Stage("fix")
    /\ fix' = IF job.mode = 0 THEN NoFix(text)
              ELSE ApplyFixes(text, Vetted(issues, job.set.tm), job.mode, excluded)
    /\ saved' = issues
    /\ text' = IF job.dry THEN text ELSE fix'.text
    /\ UNCHANGED <<job, excluded, issues>>

\* The tool always scans again; the linter only when it has written something.
RescanTool ==
    /\ job.front = "mcp" /\ Stage("rescan")
    /\ LET found == ScanOf(text, RemapExclusions(excluded, fix.fixes))
       IN  Becomes(Reconcile(found, text, saved, fix.fixes, job.set))
RescanLint ==
    /\ job.front = "lint" /\ Stage("rescan")
    /\ Becomes(IF fix.applied = 0 \/ job.dry THEN issues
               ELSE LET found == SuppressConvergent(ScanOf(text, Exclusions(text)), fix.fixes)
                    IN  ApplyGlossary(text, found, job.set))

Next == \/ Scan \/ Stance \/ Verify \/ Tier2 \/ Tier3 \/ Suppress \/ Memory \/ Ignore \/ Glossary
        \/ Fix \/ RescanTool \/ RescanLint \/ Floor

Spec == Init /\ [][Next]_vars

----------------------------------------------------------------------------
(* Properties *)

Reported == plan = <<>>

\* Where a character that no fix replaced stands in the fixed text.
Where(p) == p + SumOver(fix.fixes, LAMBDA f: IF f.offset < p \/ (f.offset = p /\ f.old_len = 0)
                                             THEN Growth(f) ELSE 0)
Untouched(issue) ==
    issue.length > 0 /\ \A k \in DOMAIN fix.fixes:
        ~Overlap(Span(fix.fixes[k].offset, fix.fixes[k].old_len), Span(issue.offset, issue.length))

\* What the settings make of a verdict that was already reached.
Final(issue) == IF issue.banned THEN 3
                ELSE IF issue.term \in job.set.tm /\ ~Immune(issue) THEN 1
                ELSE issue.severity
SaidAs(issue, offset) ==
    \E k \in DOMAIN issues: /\ issues[k].offset = offset /\ issues[k].term = issue.term
                            /\ issues[k].severity = Final(issue)
InsertedBefore(issue) == \E k \in DOMAIN fix.fixes: fix.fixes[k].offset = issue.offset
DeletedBefore(issue) == \E k \in DOMAIN fix.fixes:
    /\ fix.fixes[k].replacement = <<>>
    /\ fix.fixes[k].offset + fix.fixes[k].old_len = issue.offset

\* What the tool has concluded about text that the fixer left alone (by clues, by asking
\* the client, by the user's stores) is what it reports after the fix, and nothing it had
\* found there is dropped: snapshot_states, the second scan, restore_preserved_states and
\* suppress_convergent_issues together. Excepted is a finding right behind an insertion
\* (see LearnedVerdictsSurvive) and right behind a deletion, which the code drops on
\* purpose.  No clue is a term that has a rule, so a fix takes no clue away.
FixForgetsNothing ==
    Reported /\ job.front = "mcp" /\ job.mode > 0 =>
        \A k \in DOMAIN saved:
            Untouched(saved[k]) /\ ~InsertedBefore(saved[k]) /\ ~DeletedBefore(saved[k])
                => SaidAs(saved[k], Where(saved[k].offset))

\* The comment on PreservedState says that the verdicts are carried over because a fixed
\* document would otherwise report what remains "stripped of everything that was
\* learned". So a finding on untouched text keeps its severity wherever it stands.
LearnedVerdictsSurvive ==
    Reported /\ job.front = "mcp" /\ job.mode > 0 =>
        \A k \in DOMAIN saved:
            Untouched(saved[k]) /\ ~DeletedBefore(saved[k])
                => SaidAs(saved[k], Where(saved[k].offset))

\* No front end rewrites a term that the translation memory keeps, that Tier 2 took for a
\* false positive, that the translation did not confirm (unless clues can), or that stands
\* in an excluded range, in whatever order its stages run: apply_vetted_fixes, apply_fixes_for_file and fix_verdict.
RejectedIsNotRewritten ==
    \A k \in DOMAIN fix.fixes:
        LET Rewritten(i) == i.offset = fix.fixes[k].offset /\ i.length = fix.fixes[k].old_len
        IN  \A i \in {saved[j]: j \in DOMAIN saved}: Rewritten(i) =>
                /\ i.term \notin job.set.tm
                /\ i.type = "cross_strait" => i.tier2 # "suppressed" /\ (i.anchor = "false" => i.clues)
                /\ \A r \in DOMAIN excluded: i.length > 0
                        => ~Overlap(Span(i.offset, i.length), excluded[r])

\* Where a construct reaches over code it is left whole: the construct inside it is not
\* rewritten either, which would leave its first word dangling. The comment on the barrier
\* in apply_fixes_with_context tells of the case.
NoHalfConstruct ==
    \A j \in DOMAIN saved: \A k \in DOMAIN fix.fixes:
        LET outer == Span(saved[j].offset, saved[j].length)
            touchesCode == \E r \in DOMAIN excluded: Overlap(outer, excluded[r])
            written == Span(fix.fixes[k].offset, fix.fixes[k].old_len)
        IN  saved[j].type = "grammar" /\ touchesCode /\ Overlap(outer, written)
                => \E i \in DOMAIN saved: saved[i].type # "grammar"
                        /\ Span(saved[i].offset, saved[i].length) = written

\* Nothing is reported inside code, before a fix and after it: the ranges of the first scan,
\* moved by remap_exclusions, still cover the code when an insertion or a deletion right
\* before it has shifted it. A construct may reach over code.
CodeIsNotReported ==
    Reported => \A k \in DOMAIN issues: \A r \in DOMAIN Exclusions(text):
        issues[k].length > 0 /\ issues[k].type # "grammar"
            => ~Overlap(Span(issues[k].offset, issues[k].length), Exclusions(text)[r])

BannedSites == {p \in DOMAIN text: Term(text[p]) \in job.set.banned
                    /\ ~\E k \in DOMAIN Exclusions(text): Exclusions(text)[k].start = p - 1}
FiresAsError(p) == \E k \in DOMAIN issues: /\ issues[k].offset <= p - 1 /\ p <= IssueEnd(issues[k])
                                           /\ issues[k].severity = 3

\* The precedence of rules/glossary.rs, "banned > TM": whatever the memory, the stance or
\* the fixer does, a banned term that is still in the text is reported as an error. In
\* the linter and the hook this is only said of terms that are not ignored as well and
\* that Tier 2 leaves alone (see BannedAlwaysFires).
BannedOutranksMemory ==
    Reported => \A p \in BannedSites:
        \/ FiresAsError(p)
        \/ job.front # "mcp" /\ Term(text[p]) \in job.set.ignored
        \/ job.front = "lint" /\ Term(text[p]) = "homonym"

\* GlossaryConfig.banned: "Terms that must always be flagged regardless of context
\* clues". Said of terms the project does not ignore as well.
BannedAlwaysFires ==
    Reported => \A p \in BannedSites: Term(text[p]) \in job.set.ignored \/ FiresAsError(p)
=============================================================================
