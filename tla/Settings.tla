------------------------------ MODULE Settings ------------------------------
(* The front ends (lint, the hook, the tool): how each puts together, from    *)
(* the command line, the project's file and the tool's arguments, the settings of a    *)
(* scan and the rules its scanner is built with, and what each then reports of a text. *)
EXTENDS CommandLine, RuleLayers

CONSTANT Scenes  \* the files there are and what may be typed

VARIABLES
    scene,
    text,       \* the text that is scanned
    tokens,     \* the command line as typed
    parser,
    phase       \* "writing", "typing", "done"

vars == <<scene, text, tokens, parser, phase>>

Choice == {"on", "off", NotGiven}
ProjectConfig == [profile: STRING, spacing: SpacingPolicy \cup {NotGiven}, relaxed: BOOLEAN,
                  off: Seq(RuleFamily), exempt: BOOLEAN, packs: Seq(STRING), overrides: STRING]
CheckFlags == [relaxed: BOOLEAN, exempt: BOOLEAN, stance: PoliticalStance \cup {NotGiven},
               detect_style: BOOLEAN, detect_ai: Choice, detect_translationese: Choice,
               rhythm: BOOLEAN, spacing: SpacingPolicy \cup {NotGiven}, off: Seq(RuleFamily),
               ai_threshold: LevelWords \cup {NotGiven}, profile: Profiles]

\* Families are read as families (serde, params.rs); a profile may be any word.
ASSUME ScenesAssumption ==
    \A s \in Scenes:
        /\ s.base \in Seq(SpellingRule)
        /\ \A path \in DOMAIN s.overrides: s.overrides[path] \in RuleLayer
        /\ \A name \in DOMAIN s.packs: s.packs[name] \in RuleLayer
        /\ s.project \in ProjectConfig
        /\ s.pieces \subseteq Phrase
        /\ s.first \subseteq STRING /\ s.tokens \subseteq STRING
        /\ s.arguments \subseteq CheckFlags

\* .zhtw-mcp.toml; without the file nothing is given.
NoProject == [profile |-> NotGiven, spacing |-> NotGiven, relaxed |-> FALSE, off |-> <<>>,
              exempt |-> FALSE, packs |-> <<>>, overrides |-> NotGiven]

\* The arguments of the zhtw tool.
NoArguments == [relaxed |-> FALSE, exempt |-> FALSE, stance |-> NotGiven, detect_style |-> FALSE,
                detect_ai |-> NotGiven, detect_translationese |-> NotGiven, rhythm |-> FALSE,
                spacing |-> NotGiven, off |-> <<>>, ai_threshold |-> NotGiven,
                profile |-> "base"]

Given(value, default) == IF value = NotGiven THEN default ELSE value
\* An optional choice is "on", "off" or not given.
Wants(choice, default) == choice = "on" \/ (choice = NotGiven /\ default)
When(condition, switches) == IF condition THEN switches ELSE {}

\* union_config_list: what the file adds to the list of the command line.
UnionConfigList(cli, config) == cli \o Only(config, Range(config) \ Range(cli))

----------------------------------------------------------------------------
(* The effective settings *)

Relaxed(cfg, relaxed) == IF relaxed THEN WithRelaxed(cfg) ELSE cfg
Base(profile, relaxed, spacing, exempt) ==
    [Relaxed(Config(profile), relaxed) EXCEPT !.spacing_policy = Given(spacing, @),
                                              !.exempt = exempt]

Flag(flag) == flag \in parser.lint.flags
Option(option) == parser.lint.options[option]
LintProfile == Given(Option("--profile"), Given(scene.project.profile, "base"))
LintOff == UnionConfigList(Option("--off"), scene.project.off)
DetectsAi == Flag("--detect-ai") \/ Flag("--detect-style")

LintCapabilities ==
    [With(Base(LintProfile, Flag("--relaxed") \/ scene.project.relaxed,
               Given(Option("--spacing"), scene.project.spacing),
               Flag("--exempt-blockquotes") \/ scene.project.exempt),
          When(DetectsAi, AiStages)
            \cup When(Flag("--detect-translationese") \/ Flag("--detect-style"), {"translationese"})
            \cup When(Flag("--rhythm"), {"rhythm"}))
     EXCEPT !.threshold = IF DetectsAi THEN parser.lint.level ELSE @,
            !.domain = Given(Option("--translationese-domain"), @),
            !.genre = Given(Option("--document-genre"), @),
            !.register = Given(Option("--register"), @)]

\* run_lint and build_lint_setup: subtraction is last.
LintSettings == WithDisabled(LintCapabilities, Range(LintOff))

\* project_config of the hook; a profile it does not know is base.
HookSettings ==
    WithDisabled(Base(IF scene.project.profile = "strict" THEN "strict" ELSE "base",
                      scene.project.relaxed, scene.project.spacing, scene.project.exempt),
                 Range(scene.project.off))

\* build_check_config: the four stages of AI detection go on or off together, and the
\* profile's own switch, which is on, decides when nothing is said.
Chosen(cfg, switches, choice) == IF choice THEN With(cfg, switches) ELSE Without(cfg, switches)
ToolDetectsAi(args, cfg) == args.detect_style \/ Wants(args.detect_ai, "ai_filler" \in cfg.on)
ToolTranslationese(args, cfg) ==
    Chosen(cfg, {"translationese"},
           args.detect_style \/ Wants(args.detect_translationese, "translationese" \in cfg.on))
ToolCapabilities(args, cfg) ==
    [Chosen(ToolTranslationese(args, With(cfg, When(args.rhythm, {"rhythm"}))),
            AiStages, ToolDetectsAi(args, cfg))
     EXCEPT !.stance = Given(args.stance, @),
            !.threshold = IF ToolDetectsAi(args, cfg) THEN LevelOf(args.ai_threshold) ELSE @]
ToolSettings(args) ==
    WithDisabled(ToolCapabilities(args, Base(args.profile, args.relaxed, args.spacing, args.exempt)),
                 Range(args.off))

----------------------------------------------------------------------------
(* The rules *)

OverridesAt(path) == IF path \in DOMAIN scene.overrides THEN scene.overrides[path]
                     ELSE [rules |-> <<>>, disabled_tags |-> {}]
DefaultOverrides == "overrides.json"
Merged(path, packs) == BuildMergedRules(scene.base, OverridesAt(path), scene.packs, packs)

LintOverrides == Given(parser.stores["--overrides"], Given(scene.project.overrides, DefaultOverrides))
LintPacks == UnionConfigList(parser.packs, scene.project.packs)
LintRules == Merged(LintOverrides, LintPacks)

\* A bug the property would show: the hook merges no packs.
HookRulesUnpacked == Merged(DefaultOverrides, <<>>)

\* The hook knows the project's packs, and only the user's own overrides.
HookRules == Merged(DefaultOverrides, scene.project.packs)

\* What a front end reports: the phrases, and the kinds of the other passes.
Report(rules, excluded, cfg) ==
    [phrases |-> ScanSpelling(text, PrepareRules(rules, excluded), cfg),
     others |-> Kinds(cfg) \ RuleType]
LintReport == Report(LintRules, ExcludedTypes(LintSettings), LintSettings)
HookReport == Report(HookRules, ExcludedTypes(HookSettings), HookSettings)

----------------------------------------------------------------------------

Init ==
    /\ scene \in Scenes
    /\ text = <<>>
    /\ tokens = <<>>
    /\ parser = Start
    /\ phase = "writing"

Write ==
    /\ phase = "writing"
    /\ \E piece \in scene.pieces:
          /\ Len(text) + Len(piece) <= scene.max_text
          /\ text' = text \o piece
    /\ UNCHANGED <<scene, tokens, parser, phase>>

Save ==
    /\ phase = "writing"
    /\ phase' = "typing"
    /\ UNCHANGED <<scene, text, tokens, parser>>

Type ==
    /\ phase = "typing"
    /\ Len(tokens) < scene.max_tokens
    /\ \E token \in IF tokens = <<>> THEN scene.first ELSE scene.tokens:
          /\ tokens' = Append(tokens, token)
          /\ parser' = Step(parser, token)
    /\ UNCHANGED <<scene, text, phase>>

Enter ==
    /\ phase = "typing"
    /\ phase' = "done"
    /\ UNCHANGED <<scene, text, tokens, parser>>

Next == Write \/ Save \/ Type \/ Enter
Spec == Init /\ [][Next]_vars

Command == ParseArgs(tokens, parser)
LintRuns == phase = "done" /\ Command = "lint" /\ LintProfile \in Profiles

----------------------------------------------------------------------------
(* Properties *)

\* A reading of the line that needs no parser: what a token is follows from the one
\* before it, back to the subcommand.
IsValue[k \in Nat] == k > 2 /\ tokens[k - 1] \in LintOptions /\ ~IsValue[k - 1]
IsLevel(k) == tokens[k] \in LevelWords /\ tokens[k - 1] \in DetectFlags /\ ~IsValue[k - 1]
IsFlag(k) == tokens[k] \in BareFlags \cup FixFlags \cup DetectFlags \cup LintOptions \cup Quiet
Places(Role(_)) == SelectSeq([k \in DOMAIN tokens |-> k], LAMBDA k: k > 1 /\ Role(k))
WordsAt(places) == [k \in DOMAIN places |-> tokens[places[k]]]

\* Every word of a lint line has one role: a file is a file wherever it stands, a value
\* belongs to the option before it, and a level sets the threshold and is no file.
EveryWordHasOneRole ==
    LintRuns /\ tokens[1] = "lint" =>
        LET levels == Places(LAMBDA k: IsLevel(k))
        IN  /\ parser.lint.files =
                   WordsAt(Places(LAMBDA k: ~IsFlag(k) /\ ~IsValue[k] /\ ~IsLevel(k)))
            /\ parser.lint.level =
                   IF levels = <<>> THEN 100 ELSE LevelOf(tokens[Last(levels)])
            /\ parser.lint.options["--off"] =
                   WordsAt(Places(LAMBDA k: IsValue[k] /\ tokens[k - 1] = "--off"))

\* Turning families off takes away what belongs to them and nothing else, whatever else
\* is asked for on the line, in the file or of the tool. The advice on long premodifiers
\* is given by the translationese pass and goes with it.
OnlyTheirs(before, after, off) ==
    after = {kind \in before:
                /\ FamilyOf(kind) \notin off
                /\ kind = "rhythm_premodifier" => "translationese" \notin off}
OffTakesOnlyItsOwn ==
    /\ LintRuns => OnlyTheirs(Kinds(LintCapabilities), Kinds(LintSettings), Range(LintOff))
    /\ phase = "done" => \A args \in scene.arguments:
           OnlyTheirs(Kinds(ToolSettings([args EXCEPT !.off = <<>>])), Kinds(ToolSettings(args)),
                      Range(args.off))

\* The hook reports what lint does without flags, on the same file with the same rules.
WithoutFlags == parser = [Start EXCEPT !.at = "lint", !.command = "lint", !.lint.files = @ \o parser.lint.files]
HookSpeaksForLint ==
    LintRuns /\ WithoutFlags /\ scene.project.overrides = NotGiven => HookReport = LintReport

\* The last layer that names a phrase decides about it: the phrase is matched, or left
\* to a detector, or reported by nobody, as that rule says and no earlier one.
LayersOf(path, packs) ==
    LET readable == Only(packs, DOMAIN scene.packs)
    IN  <<[rules |-> scene.base, disabled_tags |-> {}], OverridesAt(path)>>
            \o [k \in DOMAIN readable |-> scene.packs[readable[k]]]
InForce(layers) ==
    LET all == FlattenSeq([k \in DOMAIN layers |-> layers[k].rules])
        retired == UNION {layers[k].disabled_tags: k \in DOMAIN layers}
    IN  {rule \in Range(all): /\ rule = LastOf(all, rule.from)
                              /\ ~rule.disabled /\ rule.tags \cap retired = {}}
LastLayerDecides ==
    LintRuns =>
        LET excluded == ExcludedTypes(LintSettings)
            rules == InForce(LayersOf(LintOverrides, LintPacks))
        IN  /\ PrepareRules(LintRules, excluded) =
                   {rule \in rules: rule.guard = NoGuard /\ rule.type \notin excluded}
            /\ GuardRules(LintRules, excluded) = {rule \in rules: rule.guard \in KnownGuards}

\* The absorbers only save work: what is reported is what would be without them, and no
\* rule's match is lost to the exceptions of another. The phrases are such that none of
\* their longer forms ends in a part of the phrase itself.
EndsInPartOfItself(rule) ==
    \E form \in LongerForms(rule): \E i \in 2..Len(form):
        LET end == SubSeq(form, i, Len(form)) IN end # rule.from /\ IsPrefix(end, rule.from)
AbsorbersHideNothing ==
    LintRuns =>
        LET compiled == PrepareRules(LintRules, ExcludedTypes(LintSettings))
        IN  (\A rule \in compiled: ~EndsInPartOfItself(rule)) =>
                LintReport.phrases =
                    Reported(text, FindIter(text, compiled), LexicalKinds(LintSettings))

----------------------------------------------------------------------------
(* What the documentation says, and the code does not do *)

\* "The project's .zhtw-mcp.toml resolved the same way zhtw-mcp lint resolves it" (hook.rs),
\* also where the project names overrides of its own.
HookSpeaksForLintAlways == LintRuns /\ WithoutFlags => HookReport = LintReport

\* "Families are independent" (docs/cli.md): a phrase is reported by lint as by a scanner
\* that was built with all rules.
FilterIsTransparent ==
    LintRuns => LintReport.phrases = Report(LintRules, {}, LintSettings).phrases

\* "Independent of translationese_detection on purpose" (engine/scan/mod.rs).
RhythmIsIndependent ==
    LintRuns /\ Flag("--rhythm") /\ "rhythm" \notin Range(LintOff)
        => "rhythm_premodifier" \in Kinds(LintSettings)
=============================================================================
