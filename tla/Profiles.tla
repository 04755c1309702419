------------------------------ MODULE Profiles ------------------------------
(***************************************************************************)
(* What a scan is asked to do: a profile's switches, the capabilities that *)
(* add to them, the rule families a caller may turn off, and the passes    *)
(* and findings the scanner derives from the result.                       *)
(*                                                                         *)
(* ProfileConfig is a struct of booleans and a few policies; here the      *)
(* booleans that are true are the set "on".                                *)
(***************************************************************************)
EXTENDS Naturals

(* The families a caller can name with "off".                              *)
RuleFamily == {"spelling", "casing", "punctuation", "quotes", "spacing",
               "colon", "dunhao", "range", "variant", "ellipsis", "grammar",
               "ai", "translationese", "rhythm"}

(* The four stages of AI detection behind the one family name.             *)
AiStages == {"ai_filler", "ai_semantic", "ai_density", "ai_structural"}

(* The switches a family stands for.                                       *)
SwitchesOf(family) == IF family = "ai" THEN AiStages ELSE {family}

Switches == UNION {SwitchesOf(family) : family \in RuleFamily}

SpacingPolicy    == {"require", "strip"}
RegisterMode     == {"auto", "formal", "casual"}
AttributionGenre == {"casual", "technical", "financial"}
Domain           == {"general", "technical", "literary", "news"}
PoliticalStance  == {"roc_centric", "international", "neutral"}

(* Multipliers in hundredths: 0.5, 1.0 and 1.5.                            *)
Thresholds == {50, 100, 150}

ProfileConfig ==
    [on              : SUBSET Switches,
     spacing_policy  : SpacingPolicy,
     range_en_dash   : BOOLEAN,
     exempt          : BOOLEAN,
     register        : RegisterMode,
     genre           : AttributionGenre,
     domain          : Domain,
     threshold       : Thresholds,
     stance          : PoliticalStance]

(* Nothing on and every policy at its default: the base the profiles and   *)
(* the callers that build a config by hand start from.                     *)
AllDisabled ==
    [on |-> {}, spacing_policy |-> "require", range_en_dash |-> FALSE,
     exempt |-> FALSE, register |-> "auto", genre |-> "casual",
     domain |-> "general", threshold |-> 100, stance |-> "roc_centric"]

(* Strict adds the variant family to base; the AI stages past the filler   *)
(* list and rhythm are off in both.                                        *)
BaseSwitches == Switches \ {"variant", "ai_semantic", "ai_density", "ai_structural", "rhythm"}

Config(profile) ==
    [AllDisabled EXCEPT !.on =
        BaseSwitches \cup IF profile = "strict" THEN {"variant"} ELSE {}]

Profiles == {"base", "strict"}

ASSUME ProfilesAreConfigs == \A profile \in Profiles : Config(profile) \in ProfileConfig

-----------------------------------------------------------------------------
(* Capabilities.                                                           *)

With(cfg, switches) == [cfg EXCEPT !.on = @ \cup switches]
Without(cfg, switches) == [cfg EXCEPT !.on = @ \ switches]

(* Relaxed is for interface strings: three families go, and a range is     *)
(* joined with an en dash instead of a full-width tilde.                   *)
WithRelaxed(cfg) ==
    [Without(cfg, {"colon", "dunhao", "grammar"}) EXCEPT !.range_en_dash = TRUE]

(* Subtraction, after every capability has resolved.                       *)
WithDisabled(cfg, off) == Without(cfg, UNION {SwitchesOf(family) : family \in off})

AiDetectionActive(cfg) == cfg.on \cap AiStages # {}

LexicalPassEnabled(cfg) ==
    cfg.on \cap {"spelling", "variant", "ai_filler", "translationese"} # {}

(* A bug the property would show: the pass is gated by one of its two      *)
(* families.                                                               *)
PunctuationPassByName(cfg) == "punctuation" \in cfg.on

PunctuationPassEnabled(cfg) == cfg.on \cap {"punctuation", "colon"} # {}

-----------------------------------------------------------------------------
(* Rules and what a config lets through.                                   *)

SpellingFamily == {"political_coloring", "typo", "cross_strait", "confusable"}
RuleType == SpellingFamily \cup {"variant", "ai_filler", "translationese"}

(* The switch a rule type answers to.                                      *)
SwitchOfType(type) == IF type \in SpellingFamily THEN "spelling" ELSE type

AllowsRuleType(cfg, type) == SwitchOfType(type) \in cfg.on

(* International keeps the names of organisations and suppresses three     *)
(* identity terms; neutral suppresses every political rule.                *)
StanceAllows(stance, identity_term) ==
    \/ stance = "roc_centric"
    \/ stance = "international" /\ ~identity_term

-----------------------------------------------------------------------------
(* The kinds of finding a scan can report.  A pass runs when one of its    *)
(* families is on and asks each arm's own switch inside.                   *)

LexicalKinds(cfg) ==
    IF LexicalPassEnabled(cfg)
    THEN {type \in RuleType :
             /\ AllowsRuleType(cfg, type)
             /\ type = "political_coloring" =>
                    \E identity_term \in BOOLEAN : StanceAllows(cfg.stance, identity_term)}
    ELSE {}

PunctuationKinds(cfg) ==
    IF PunctuationPassEnabled(cfg) THEN cfg.on \cap {"punctuation", "colon"} ELSE {}

(* One pass each, gated by the family of the same name.                    *)
OwnPass == {"casing", "dunhao", "range", "ellipsis", "quotes", "spacing"}

(* Repetition and spaced acronyms answer to no switch.                     *)
RunLexicalPasses(cfg) ==
    LexicalKinds(cfg) \cup PunctuationKinds(cfg) \cup (cfg.on \cap OwnPass)
        \cup {"repetition", "acronym"}

RunAiFilter(cfg) ==
    UNION {IF "ai_semantic" \in cfg.on THEN {"ai_grammar", "bare_attribution"} ELSE {},
           IF "ai_structural" \in cfg.on THEN {"ai_pattern", "ai_shape"} ELSE {},
           IF AiDetectionActive(cfg) THEN {"zero_width"} ELSE {},
           IF "ai_density" \in cfg.on THEN {"ai_density"} ELSE {}}

(* The boundary-aware translationese pass takes the rhythm switch with it: *)
(* the premodifier rule relaxes to advice when rhythm is asked for.        *)
TranslationeseKinds(cfg) ==
    {"syntactic", "boundary", "long_premodifier", "substring"}
        \cup IF "rhythm" \in cfg.on THEN {"rhythm_premodifier"} ELSE {}

RunStructuralPasses(cfg) ==
    UNION {IF "grammar" \in cfg.on THEN {"grammar"} ELSE {},
           RunAiFilter(cfg),
           IF "translationese" \in cfg.on THEN TranslationeseKinds(cfg) ELSE {},
           IF "rhythm" \in cfg.on THEN {"long_sentence", "monotony"} ELSE {}}

Kinds(cfg) == RunLexicalPasses(cfg) \cup RunStructuralPasses(cfg)

(* The family whose findings a kind belongs to, as the report names it.    *)
FamilyOf(kind) ==
    CASE kind \in SpellingFamily -> "spelling"
      [] kind \in OwnPass \cup {"punctuation", "colon", "variant", "grammar"} -> kind
      [] kind \in {"ai_filler", "ai_grammar", "bare_attribution", "ai_pattern",
                   "ai_shape", "zero_width", "ai_density"} -> "ai"
      [] kind \in {"translationese", "syntactic", "boundary", "long_premodifier",
                   "substring"} -> "translationese"
      [] kind \in {"rhythm_premodifier", "long_sentence", "monotony"} -> "rhythm"
      [] OTHER -> "none"

(* The rule types a scanner built for this config leaves out.              *)
ExcludedTypes(cfg) == {type \in RuleType : ~AllowsRuleType(cfg, type)}
=============================================================================
