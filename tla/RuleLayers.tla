----------------------------- MODULE RuleLayers -----------------------------
(* From the layers of rules (embedded, the user's overrides, the active packs) to the  *)
(* rules a scanner matches: merging (rules/store.rs), what is compiled and what the    *)
(* detectors own (engine/scan/rule_ir.rs), and the matches in a text.                  *)
(*                                                                                     *)
(* A layer is [rules, disabled_tags]; a rule is [from, to, exceptions, type, disabled, *)
(* guard, tags]. A phrase is a sequence of characters.                                 *)
EXTENDS Sequences, SequencesExt, Profiles

NoGuard == "no guard"
KnownGuards == {"attribution"}

Phrase == Seq(STRING)
SpellingRule == [from: Phrase, to: SUBSET Phrase, exceptions: SUBSET Phrase, type: RuleType,
                 disabled: BOOLEAN, guard: STRING, tags: SUBSET STRING]
RuleLayer == [rules: Seq(SpellingRule), disabled_tags: SUBSET STRING]

\* retain: the elements that are members, in their order.
Only(sequence, members) ==
    LET kept[k \in 0..Len(sequence)] ==
            IF k = 0 THEN <<>>
            ELSE IF sequence[k] \in members THEN Append(kept[k - 1], sequence[k])
            ELSE kept[k - 1]
    IN  kept[Len(sequence)]
Enabled(rules) == Only(rules, {rule \in Range(rules): ~rule.disabled})

\* The rule of a sequence that decides about a phrase: the last that names it.
Names(rules, phrase) == {k \in DOMAIN rules: rules[k].from = phrase}
LastOf(rules, phrase) == rules[Max(Names(rules, phrase))]

\* A later rule takes the place of an earlier one for the same phrase, whole; then the
\* disabled ones go.
MergeSpellingRules(layers) ==
    LET all == FlattenSeq(layers)
        first == Only([k \in DOMAIN all |-> k],
                      {k \in DOMAIN all: k = Min(Names(all, all[k].from))})
    IN  Enabled([k \in DOMAIN first |-> LastOf(all, all[first[k]].from)])

\* Retiring a tag takes every rule that still carries it, whichever layer it is from.
DropDisabledTags(rules, tags) ==
    Only(rules, {rule \in Range(rules): rule.tags \cap tags = {}})

\* OverrideStore::load_spelling_rules
LoadSpellingRules(base, overrides) == MergeSpellingRules(<<base, overrides.rules>>)

\* Packs in the order they were asked for; one that cannot be read is passed over.
BuildMergedRules(base, overrides, packs, active) ==
    LET readable == Only(active, DOMAIN packs)
        layers == <<LoadSpellingRules(base, overrides)>>
                      \o [k \in DOMAIN readable |-> packs[readable[k]].rules]
        tags == overrides.disabled_tags
                    \cup UNION {packs[name].disabled_tags: name \in Range(readable)}
    IN  DropDisabledTags(MergeSpellingRules(layers), tags)

----------------------------------------------------------------------------
(* Compilation *)

\* Disabled rules go, then of two rules for a phrase the last stays, and only then the
\* guarded ones and the types nobody will ask for.
Winners(rules) ==
    {LastOf(Enabled(rules), rule.from): rule \in Range(Enabled(rules))}

PrepareRules(rules, excluded) ==
    {rule \in Winners(rules): rule.guard = NoGuard /\ rule.type \notin excluded}

\* A bug the property would show: the detectors get what the filter leaves.
GuardsOfFiltered(rules, excluded) ==
    {rule \in Winners(rules): rule.guard \in KnownGuards /\ rule.type \notin excluded}

\* The detectors get their phrases from all rules, whatever the filter leaves out.
GuardRules(rules, excluded) == {rule \in Winners(rules): rule.guard \in KnownGuards}

----------------------------------------------------------------------------
(* Absorbers: the exceptions of a rule, and its longer suggestions, are patterns of    *)
(* their own, so that the longest match takes the text and the rule is not tried.      *)

Holds(text, phrase) == \E i \in DOMAIN text: IsPrefix(phrase, SubSeq(text, i, Len(text)))
Forms(rule) == {form \in rule.exceptions \cup rule.to: Holds(form, rule.from)}
LongerForms(rule) == Forms(rule) \ {rule.from}

\* A bug the property would show: a form may end where another rule's phrase begins.
ShadowsInside(form, phrase) == Holds(form, phrase)

\* What would be taken from another rule: its phrase within the form, or one that begins
\* in the form and ends after it.
Shadows(form, phrase) ==
    \/ Holds(form, phrase)
    \/ \E i \in 2..Len(form): IsPrefix(SubSeq(form, i, Len(form)), phrase)

Absorbers(compiled) ==
    {[from |-> form, type |-> "absorber"]: form \in
        UNION {{form \in LongerForms(rule):
                    \A other \in compiled:
                        /\ form # other.from
                        /\ other = rule \/ ~Shadows(form, other.from)}: rule \in compiled}}

----------------------------------------------------------------------------
(* Matching: from left to right the longest pattern that starts there, and on from its *)
(* end. A phrase that is not reported takes its place as well.                         *)

LongestAt(text, i, patterns) ==
    LET here == {p \in patterns: IsPrefix(p.from, SubSeq(text, i, Len(text)))}
    IN  {p \in here: \A other \in here: Len(other.from) <= Len(p.from)}

\* All positions in turn; "next" is the first one not yet covered.
Advance(state, i, longest) ==
    IF i < state.next \/ longest = {} THEN state
    ELSE LET p == CHOOSE p \in longest: TRUE
         IN  [next |-> i + Len(p.from), hits |-> state.hits \cup {[at |-> i, rule |-> p]}]
FindIter(text, patterns) ==
    LET state[i \in 0..Len(text)] ==
            IF i = 0 THEN [next |-> 1, hits |-> {}]
            ELSE Advance(state[i - 1], i, LongestAt(text, i, patterns))
    IN  state[Len(text)].hits

\* The match is a part of a form the rule does not apply to, or all of it: a rule that
\* suggests its own phrase, or excepts it, reports nothing.
CoveredByForm(text, hit) ==
    \E form \in Forms(hit.rule), k \in 0..Len(text):
        /\ IsPrefix(hit.rule.from, SubSeq(form, k + 1, Len(form)))
        /\ hit.at > k
        /\ IsPrefix(form, SubSeq(text, hit.at - k, Len(text)))

\* What a scan reports of the rules it was built with.
Reported(text, hits, kinds) ==
    {hit \in hits: hit.rule.type \in kinds /\ ~CoveredByForm(text, hit)}
ScanSpelling(text, compiled, cfg) ==
    Reported(text, FindIter(text, compiled \cup Absorbers(compiled)), LexicalKinds(cfg))
=============================================================================
