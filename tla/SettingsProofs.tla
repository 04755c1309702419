---------------------------- MODULE SettingsProofs ----------------------------
(* Theorems about the front ends (Settings): for any files, any command line, any text *)
(* and any arguments of the tool, not only those of the scenes of a run.               *)
(*                                                                                     *)
(* First what the filter, the flattening and a search from left to right compute, each *)
(* a function defined by recursion over a sequence; then one part per theorem.         *)
EXTENDS Settings, TLAPS, WellFoundedInduction, SequenceTheorems

----------------------------------------------------------------------------
(* Recursion over a sequence *)

LEMMA Smallest ==
    ASSUME NEW S \in SUBSET Nat, S # {}
    PROVE  \E k \in S: \A j \in S: k <= j
<1> DEFINE R == {ss \in Nat \X Nat: ss[1] < ss[2]}
<1>1. IsWellFoundedOn(R, Nat)
    BY NatLessThanWellFounded DEF OpToRel
<1>2. PICK k \in S: \A j \in S: ~(<<j, k>> \in R)
    <2> HIDE DEF R
    <2>1. QED
        BY <1>1, WFMin, Zenon
<1>3. ASSUME NEW j \in S PROVE k <= j
    <2>1. j \in Nat /\ k \in Nat /\ ~(<<j, k>> \in R)
        BY <1>2
    <2>2. ~(j < k)
        BY <2>1
    <2>3. QED
        BY <2>1, <2>2
<1>4. QED
    BY <1>3

LEMMA NatInduct ==
    ASSUME NEW P \in SUBSET Nat, 0 \in P, \A m \in P: m + 1 \in P
    PROVE  P = Nat
<1> SUFFICES ASSUME Nat \ P # {} PROVE FALSE
    OBVIOUS
<1> DEFINE rest == Nat \ P
<1>1. PICK low \in rest: \A j \in rest: low <= j
    <2>1. rest \in SUBSET Nat /\ rest # {}
        OBVIOUS
    <2> HIDE DEF rest
    <2>2. QED
        BY <2>1, Smallest
<1>2. low \in Nat /\ low # 0
    OBVIOUS
<1>3. low - 1 \in Nat /\ ~(low <= low - 1) /\ (low - 1) + 1 = low
    BY <1>2
<1>4. low - 1 \in P
    BY <1>1, <1>3
<1>5. QED
    BY <1>3, <1>4

\* A set of positions of a sequence has a last one and a first one.
LEMMA Largest ==
    ASSUME NEW n \in Nat, NEW S \in SUBSET (1..n), S # {}
    PROVE  \E k \in S: \A j \in S: j <= k
<1> DEFINE T == {n - j: j \in S}
<1>1. T \in SUBSET Nat /\ T # {}
    <2>1. \A j \in S: n - j \in Nat
        OBVIOUS
    <2>2. QED
        BY <2>1
<1>2. PICK low \in T: \A j \in T: low <= j
    <2> HIDE DEF T
    <2>1. QED
        BY <1>1, Smallest
<1>3. PICK k \in S: low = n - k
    OBVIOUS
<1>4. ASSUME NEW j \in S PROVE j <= k
    <2>1. n - j \in T
        OBVIOUS
    <2>2. n - k <= n - j
        BY <1>2, <1>3, <2>1
    <2>3. j \in Nat /\ k \in Nat
        OBVIOUS
    <2>4. QED
        BY <2>2, <2>3
<1>5. QED
    BY <1>4

\* A recursion from 0 to n, each value made of the one before it, has a solution.
Solves(g, n, base, step) ==
    g = [k \in 0..n |-> IF k = 0 THEN base ELSE step[<<g[k - 1], k>>]]

LEMMA SolutionExists ==
    ASSUME NEW S, NEW base \in S, NEW n \in Nat, NEW step \in [S \X (1..n) -> S]
    PROVE  \E g \in [0..n -> S]: Solves(g, n, base, step)
<1> DEFINE P == {m \in Nat: m <= n => \E g \in [0..m -> S]: Solves(g, m, base, step)}
<1>1. 0 \in P
    <2> DEFINE g == [k \in 0..0 |-> base]
    <2>1. g \in [0..0 -> S] /\ Solves(g, 0, base, step)
        BY DEF Solves
    <2>2. QED
        BY <2>1
<1>2. ASSUME NEW m \in P PROVE m + 1 \in P
    <2>1. SUFFICES ASSUME m + 1 <= n
                   PROVE  \E g \in [0..m + 1 -> S]: Solves(g, m + 1, base, step)
        OBVIOUS
    <2>2. PICK g \in [0..m -> S]: Solves(g, m, base, step)
        BY <2>1
    <2> DEFINE h == [k \in 0..m + 1 |-> IF k <= m THEN g[k] ELSE step[<<g[m], m + 1>>]]
    <2>3. <<g[m], m + 1>> \in S \X (1..n)
        BY <2>1
    <2>4. h \in [0..m + 1 -> S]
        BY <2>3
    <2>5. ASSUME NEW k \in 0..m + 1
          PROVE  h[k] = IF k = 0 THEN base ELSE step[<<h[k - 1], k>>]
        <3>1. CASE k <= m
            <4>1. g[k] = IF k = 0 THEN base ELSE step[<<g[k - 1], k>>]
                BY <2>2, <3>1 DEF Solves
            <4>2. k # 0 => k - 1 \in 0..m + 1 /\ k - 1 <= m
                BY <3>1
            <4>3. k # 0 => h[k - 1] = g[k - 1]
                BY <4>2
            <4>4. QED
                BY <3>1, <4>1, <4>3
        <3>2. CASE k = m + 1
            <4>1. k # 0 /\ k - 1 = m /\ ~(k <= m) /\ m \in 0..m + 1 /\ m <= m
                BY <3>2
            <4>2. h[k - 1] = g[m]
                BY <4>1
            <4>3. QED
                BY <3>2, <4>1, <4>2
        <3>3. QED
            BY <3>1, <3>2
    <2>6. h = [k \in 0..m + 1 |-> h[k]]
        OBVIOUS
    <2> HIDE DEF h
    <2>7. Solves(h, m + 1, base, step)
        BY <2>5, <2>6, Zenon DEF Solves
    <2>8. QED
        BY <2>4, <2>7
<1>3. P \in SUBSET Nat
    OBVIOUS
<1> HIDE DEF P
<1>4. n \in P
    BY <1>1, <1>2, <1>3, NatInduct
<1>5. QED
    BY <1>4 DEF P

LEMMA RangeOfAppend ==
    ASSUME NEW X, NEW s \in Seq(X), NEW x \in X
    PROVE  Append(s, x) \in Seq(X) /\ Range(Append(s, x)) = Range(s) \cup {x}
<1>1. /\ Append(s, x) \in Seq(X) /\ Len(Append(s, x)) = Len(s) + 1
      /\ DOMAIN Append(s, x) = 1..Len(s) + 1 /\ DOMAIN s = 1..Len(s) /\ Len(s) \in Nat
      /\ Append(s, x)[Len(s) + 1] = x
      /\ \A k \in 1..Len(s): Append(s, x)[k] = s[k]
    OBVIOUS
<1>2. ASSUME NEW y \in Range(Append(s, x)) PROVE y \in Range(s) \cup {x}
    <2>1. PICK k \in 1..Len(s) + 1: y = Append(s, x)[k]
        BY <1>1 DEF Range
    <2>2. CASE k = Len(s) + 1
        BY <1>1, <2>1, <2>2
    <2>3. CASE k # Len(s) + 1
        <3>1. k \in 1..Len(s)
            BY <1>1, <2>3
        <3>2. QED
            BY <1>1, <2>1, <3>1 DEF Range
    <2>4. QED
        BY <2>2, <2>3
<1>3. ASSUME NEW y \in Range(s) \cup {x} PROVE y \in Range(Append(s, x))
    <2>1. CASE y = x
        <3>1. Len(s) + 1 \in 1..Len(s) + 1
            BY <1>1
        <3>2. QED
            BY <1>1, <2>1, <3>1 DEF Range
    <2>2. CASE y \in Range(s)
        <3>1. PICK k \in 1..Len(s): y = s[k]
            BY <1>1, <2>2 DEF Range
        <3>2. k \in 1..Len(s) + 1
            BY <1>1
        <3>3. QED
            BY <1>1, <3>1, <3>2 DEF Range
    <2>3. QED
        BY <2>1, <2>2
<1>4. QED
    BY <1>1, <1>2, <1>3

LEMMA OnlySolves ==
    ASSUME NEW X, NEW s \in Seq(X), NEW members
    PROVE  \E g \in [0..Len(s) -> Seq(X)]:
                /\ Only(s, members) = g[Len(s)]
                /\ g[0] = <<>>
                /\ \A k \in 1..Len(s):
                      g[k] = IF s[k] \in members THEN Append(g[k - 1], s[k]) ELSE g[k - 1]
<1> DEFINE n == Len(s)
           step == [p \in Seq(X) \X (1..n) |->
                        IF s[p[2]] \in members THEN Append(p[1], s[p[2]]) ELSE p[1]]
           Is(g) == g = [k \in 0..n |->
                            IF k = 0 THEN <<>>
                            ELSE IF s[k] \in members THEN Append(g[k - 1], s[k]) ELSE g[k - 1]]
<1>1. n \in Nat /\ \A k \in 1..n: s[k] \in X
    OBVIOUS
<1>2. step \in [Seq(X) \X (1..n) -> Seq(X)]
    BY <1>1
<1>3. PICK h \in [0..n -> Seq(X)]: Solves(h, n, <<>>, step)
    <2> HIDE DEF step, n
    <2>1. <<>> \in Seq(X)
        OBVIOUS
    <2>2. QED
        BY <1>1, <1>2, <2>1, SolutionExists
<1>4. \A k \in 1..n: /\ k - 1 \in 0..n
                     /\ step[<<h[k - 1], k>>] =
                            IF s[k] \in members THEN Append(h[k - 1], s[k]) ELSE h[k - 1]
    <2>1. ASSUME NEW k \in 1..n
          PROVE  /\ k - 1 \in 0..n
                 /\ <<h[k - 1], k>> \in Seq(X) \X (1..n)
        <3> HIDE DEF n, step
        <3>1. k - 1 \in 0..n
            BY <1>1
        <3>2. QED
            BY <1>3, <3>1
    <2> HIDE DEF n
    <2>2. QED
        BY <2>1
<1>5. Is(h)
    <2> HIDE DEF step, n
    <2>1. \A k \in 0..n: h[k] = IF k = 0 THEN <<>> ELSE step[<<h[k - 1], k>>]
        BY <1>3 DEF Solves
    <2>2. \A k \in 0..n: k # 0 => k \in 1..n
        BY <1>1
    <2>3. h = [k \in 0..n |-> h[k]]
        OBVIOUS
    <2>4. QED
        BY <1>4, <2>1, <2>2, <2>3
<1> DEFINE kept == CHOOSE g: Is(g)
<1>6. Is(kept)
    <2> HIDE DEF Is
    <2>1. QED
        BY <1>5
<1>7. Only(s, members) = kept[n]
    BY DEF Only
<1> HIDE DEF kept, step
<1>8. kept[0] = <<>> /\ \A k \in 1..n:
          kept[k] = IF s[k] \in members THEN Append(kept[k - 1], s[k]) ELSE kept[k - 1]
    <2> HIDE DEF n
    <2>1. 0 \in 0..n /\ \A k \in 1..n: k \in 0..n /\ k # 0
        BY <1>1
    <2>2. QED
        BY <1>6, <2>1
<1>9. \A k \in 0..n: kept[k] \in Seq(X)
    <2> DEFINE P == {m \in Nat: m <= n => kept[m] \in Seq(X)}
    <2>1. 0 \in P
        <3>1. kept[0] = <<>> /\ <<>> \in Seq(X)
            BY <1>8
        <3>2. QED
            BY <3>1
    <2>2. ASSUME NEW m \in P PROVE m + 1 \in P
        <3>1. SUFFICES ASSUME m + 1 <= n PROVE kept[m + 1] \in Seq(X)
            OBVIOUS
        <3> HIDE DEF n
        <3>2. m + 1 \in 1..n /\ (m + 1) - 1 = m /\ kept[m] \in Seq(X) /\ s[m + 1] \in X
            BY <1>1, <3>1
        <3>3. kept[m + 1] = IF s[m + 1] \in members THEN Append(kept[m], s[m + 1]) ELSE kept[m]
            BY <1>8, <3>2
        <3>4. QED
            BY <3>2, <3>3
    <2>3. P \in SUBSET Nat
        OBVIOUS
    <2> HIDE DEF P
    <2>4. P = Nat
        BY <2>1, <2>2, <2>3, NatInduct
    <2>5. QED
        BY <1>1, <2>4 DEF P
<1>10. kept \in [0..n -> Seq(X)]
    <2>1. kept = [k \in 0..n |-> kept[k]]
        <3> HIDE DEF n
        <3>1. QED
            BY <1>6
    <2>2. QED
        BY <1>9, <2>1
<1>11. QED
    BY <1>7, <1>8, <1>10

\* The filter keeps the members of a sequence, and the whole of it when all are members.
LEMMA OnlyKeeps ==
    ASSUME NEW X, NEW s \in Seq(X), NEW members
    PROVE  /\ Only(s, members) \in Seq(X)
           /\ Range(Only(s, members)) = Range(s) \cap members
           /\ Range(s) \subseteq members => Only(s, members) = s
<1>1. PICK g \in [0..Len(s) -> Seq(X)]:
          /\ Only(s, members) = g[Len(s)]
          /\ g[0] = <<>>
          /\ \A k \in 1..Len(s):
                g[k] = IF s[k] \in members THEN Append(g[k - 1], s[k]) ELSE g[k - 1]
    BY OnlySolves
<1> DEFINE n == Len(s)
           Done(k) == /\ Range(g[k]) = {s[j]: j \in 1..k} \cap members
                      /\ Range(s) \subseteq members => g[k] = SubSeq(s, 1, k)
<1>2. n \in Nat /\ DOMAIN s = 1..n /\ Range(s) = {s[j]: j \in 1..n} /\ \A k \in 1..n: s[k] \in X
    BY DEF Range
<1>3. \A k \in 0..n: Done(k)
    <2> DEFINE P == {m \in Nat: m <= n => Done(m)}
    <2>1. 0 \in P
        <3>1. g[0] = <<>> /\ Range(<<>>) = {} /\ SubSeq(s, 1, 0) = <<>> /\ {s[j]: j \in 1..0} = {}
            BY <1>1 DEF Range
        <3>2. QED
            BY <3>1
    <2>2. ASSUME NEW m \in P PROVE m + 1 \in P
        <3>1. SUFFICES ASSUME m + 1 <= n PROVE Done(m + 1)
            OBVIOUS
        <3>2. /\ m \in Nat /\ m + 1 \in 1..n /\ (m + 1) - 1 = m /\ m \in 0..n
              /\ Done(m) /\ g[m] \in Seq(X) /\ s[m + 1] \in X
            <4> HIDE DEF Done
            <4>1. m \in Nat /\ m <= n /\ Done(m)
                BY <1>2, <3>1
            <4> HIDE DEF n
            <4>2. m + 1 \in 1..n /\ (m + 1) - 1 = m /\ m \in 0..n
                BY <1>2, <3>1, <4>1
            <4>3. g[m] \in Seq(X)
                BY <4>2 DEF n
            <4>4. QED
                BY <1>2, <4>1, <4>2, <4>3
        <3>3. g[m + 1] = IF s[m + 1] \in members THEN Append(g[m], s[m + 1]) ELSE g[m]
            BY <1>1, <3>2
        <3>4. {s[j]: j \in 1..m + 1} = {s[j]: j \in 1..m} \cup {s[m + 1]}
            <4>1. 1..m + 1 = (1..m) \cup {m + 1}
                BY <3>2
            <4>2. QED
                BY <4>1
        <3>5. SubSeq(s, 1, m + 1) = Append(SubSeq(s, 1, m), s[m + 1])
            BY <3>1, <3>2
        <3>6. s[m + 1] \in Range(s)
            BY <1>2, <3>2
        <3>7. Range(Append(g[m], s[m + 1])) = Range(g[m]) \cup {s[m + 1]}
            BY <3>2, RangeOfAppend
        <3> HIDE DEF n
        <3>8. QED
            BY <3>2, <3>3, <3>4, <3>5, <3>6, <3>7
    <2>3. P \in SUBSET Nat
        OBVIOUS
    <2> HIDE DEF P
    <2>4. P = Nat
        BY <2>1, <2>2, <2>3, NatInduct
    <2> HIDE DEF Done, n
    <2>5. QED
        BY <1>2, <2>4 DEF P
<1>4. Done(n) /\ n \in 0..n
    <2> HIDE DEF Done, n
    <2>1. QED
        BY <1>2, <1>3
<1>5. SubSeq(s, 1, n) = s
    OBVIOUS
<1>6. QED
    BY <1>1, <1>2, <1>4, <1>5

----------------------------------------------------------------------------
(* Families turned off *)

\* Whether a switch survives: it is not one of the family's, or of the four stages behind
\* "ai".
Off(off) == UNION {SwitchesOf(family): family \in off}

LEMMA SwitchesOff ==
    ASSUME NEW off \in SUBSET RuleFamily, NEW switch
    PROVE  switch \in Off(off) <=> \/ switch \in off /\ switch # "ai"
                                   \/ switch \in AiStages /\ "ai" \in off
BY DEF Off, SwitchesOf

\* Which kinds a config lets through, kind by kind.
LEMMA KindsByKind ==
    ASSUME NEW cfg, NEW kind
    PROVE  kind \in Kinds(cfg) <=>
             \/ kind \in SpellingFamily /\ "spelling" \in cfg.on
                  /\ (kind = "political_coloring" => \E t \in BOOLEAN: StanceAllows(cfg.stance, t))
             \/ kind \in {"variant", "ai_filler", "translationese"} /\ kind \in cfg.on
             \/ kind \in OwnPass \cup {"punctuation", "colon", "grammar"} /\ kind \in cfg.on
             \/ kind \in {"repetition", "acronym"}
             \/ kind \in {"ai_grammar", "bare_attribution"} /\ "ai_semantic" \in cfg.on
             \/ kind \in {"ai_pattern", "ai_shape"} /\ "ai_structural" \in cfg.on
             \/ kind = "zero_width" /\ cfg.on \cap AiStages # {}
             \/ kind = "ai_density" /\ "ai_density" \in cfg.on
             \/ kind \in {"syntactic", "boundary", "long_premodifier", "substring"}
                  /\ "translationese" \in cfg.on
             \/ kind = "rhythm_premodifier" /\ "rhythm" \in cfg.on /\ "translationese" \in cfg.on
             \/ kind \in {"long_sentence", "monotony"} /\ "rhythm" \in cfg.on
<1>1. kind \in LexicalKinds(cfg) <=>
        \/ kind \in SpellingFamily /\ "spelling" \in cfg.on
             /\ (kind = "political_coloring" => \E t \in BOOLEAN: StanceAllows(cfg.stance, t))
        \/ kind \in {"variant", "ai_filler", "translationese"} /\ kind \in cfg.on
    <2>1. CASE LexicalPassEnabled(cfg)
        BY <2>1 DEF LexicalKinds, RuleType, AllowsRuleType, SwitchOfType, SpellingFamily
    <2>2. CASE ~LexicalPassEnabled(cfg)
        BY <2>2 DEF LexicalKinds, LexicalPassEnabled
    <2>3. QED
        BY <2>1, <2>2
<1>2. kind \in PunctuationKinds(cfg) <=> kind \in {"punctuation", "colon"} /\ kind \in cfg.on
    BY DEF PunctuationKinds, PunctuationPassEnabled
<1>3. kind \in RunAiFilter(cfg) <=>
        \/ kind \in {"ai_grammar", "bare_attribution"} /\ "ai_semantic" \in cfg.on
        \/ kind \in {"ai_pattern", "ai_shape"} /\ "ai_structural" \in cfg.on
        \/ kind = "zero_width" /\ cfg.on \cap AiStages # {}
        \/ kind = "ai_density" /\ "ai_density" \in cfg.on
    BY DEF RunAiFilter, AiDetectionActive
<1>4. kind \in RunStructuralPasses(cfg) <=>
        \/ kind = "grammar" /\ "grammar" \in cfg.on
        \/ kind \in RunAiFilter(cfg)
        \/ "translationese" \in cfg.on
             /\ \/ kind \in {"syntactic", "boundary", "long_premodifier", "substring"}
                \/ kind = "rhythm_premodifier" /\ "rhythm" \in cfg.on
        \/ kind \in {"long_sentence", "monotony"} /\ "rhythm" \in cfg.on
    BY DEF RunStructuralPasses, TranslationeseKinds
<1>5. QED
    BY <1>1, <1>2, <1>3, <1>4 DEF Kinds, RunLexicalPasses

\* CASE arms of FamilyOf, which do not overlap.
LEMMA Families ==
    /\ \A kind \in SpellingFamily: FamilyOf(kind) = "spelling"
    /\ \A kind \in OwnPass \cup {"punctuation", "colon", "variant", "grammar"}: FamilyOf(kind) = kind
    /\ \A kind \in {"ai_filler", "ai_grammar", "bare_attribution", "ai_pattern", "ai_shape",
                    "zero_width", "ai_density"}: FamilyOf(kind) = "ai"
    /\ \A kind \in {"translationese", "syntactic", "boundary", "long_premodifier", "substring"}:
          FamilyOf(kind) = "translationese"
    /\ \A kind \in {"rhythm_premodifier", "long_sentence", "monotony"}: FamilyOf(kind) = "rhythm"
    /\ \A kind \in {"repetition", "acronym"}: FamilyOf(kind) = "none"
BY DEF FamilyOf, SpellingFamily, OwnPass

LEMMA OffTakes ==
    ASSUME NEW before, NEW after, NEW off \in SUBSET RuleFamily,
           after.on = before.on \ Off(off), after.stance = before.stance
    PROVE  OnlyTheirs(Kinds(before), Kinds(after), off)
<1> DEFINE Taken(kind) == \/ FamilyOf(kind) \in off
                          \/ kind = "rhythm_premodifier" /\ "translationese" \in off
<1>1. SUFFICES ASSUME NEW kind PROVE kind \in Kinds(after) <=> kind \in Kinds(before) /\ ~Taken(kind)
    BY DEF OnlyTheirs
<1>2. \A switch: switch \in after.on <=>
          /\ switch \in before.on
          /\ ~(switch \in off /\ switch # "ai") /\ ~(switch \in AiStages /\ "ai" \in off)
    BY SwitchesOff
<1>3. \A switch \in AiStages: switch \notin off
    BY DEF AiStages, RuleFamily
<1>4. after.on \cap AiStages # {} <=> before.on \cap AiStages # {} /\ "ai" \notin off
    BY <1>2, <1>3 DEF AiStages
<1>5. CASE kind \in SpellingFamily
    <2>1. \A cfg: kind \in Kinds(cfg) <=>
              /\ "spelling" \in cfg.on
              /\ kind = "political_coloring" => \E t \in BOOLEAN: StanceAllows(cfg.stance, t)
        BY <1>5, KindsByKind DEF SpellingFamily, OwnPass
    <2>2. FamilyOf(kind) = "spelling" /\ kind # "rhythm_premodifier"
        BY <1>5, Families DEF SpellingFamily
    <2>3. "spelling" \in after.on <=> "spelling" \in before.on /\ "spelling" \notin off
        BY <1>2 DEF AiStages
    <2>4. QED
        BY <2>1, <2>2, <2>3
<1>6. CASE kind \in OwnPass \cup {"punctuation", "colon", "variant", "grammar"}
    <2>1. \A cfg: kind \in Kinds(cfg) <=> kind \in cfg.on
        BY <1>6, KindsByKind DEF SpellingFamily, OwnPass
    <2>2. FamilyOf(kind) = kind /\ kind # "rhythm_premodifier"
        BY <1>6, Families DEF OwnPass
    <2>3. kind # "ai" /\ kind \notin AiStages
        BY <1>6 DEF AiStages, OwnPass
    <2>4. QED
        BY <1>2, <2>1, <2>2, <2>3
<1>7. CASE kind \in {"ai_filler", "ai_grammar", "bare_attribution", "ai_pattern", "ai_shape",
                     "zero_width", "ai_density"}
    <2>1. FamilyOf(kind) = "ai" /\ kind # "rhythm_premodifier"
        BY <1>7, Families
    <2>2. \A switch \in AiStages: switch \in after.on <=> switch \in before.on /\ "ai" \notin off
        BY <1>2, <1>3
    <2>3. CASE kind \in {"ai_filler", "ai_density"}
        <3>1. \A cfg: kind \in Kinds(cfg) <=> kind \in cfg.on
            BY <2>3, KindsByKind DEF SpellingFamily, OwnPass
        <3>2. QED
            BY <2>1, <2>2, <2>3, <3>1 DEF AiStages
    <2>4. CASE kind \in {"ai_grammar", "bare_attribution"}
        <3>1. \A cfg: kind \in Kinds(cfg) <=> "ai_semantic" \in cfg.on
            BY <2>4, KindsByKind DEF SpellingFamily, OwnPass
        <3>2. QED
            BY <2>1, <2>2, <3>1 DEF AiStages
    <2>5. CASE kind \in {"ai_pattern", "ai_shape"}
        <3>1. \A cfg: kind \in Kinds(cfg) <=> "ai_structural" \in cfg.on
            BY <2>5, KindsByKind DEF SpellingFamily, OwnPass
        <3>2. QED
            BY <2>1, <2>2, <3>1 DEF AiStages
    <2>6. CASE kind = "zero_width"
        <3>1. \A cfg: kind \in Kinds(cfg) <=> cfg.on \cap AiStages # {}
            BY <2>6, KindsByKind DEF SpellingFamily, OwnPass
        <3>2. QED
            BY <1>4, <2>1, <3>1
    <2>7. QED
        BY <1>7, <2>3, <2>4, <2>5, <2>6
<1>8. CASE kind \in {"translationese", "syntactic", "boundary", "long_premodifier", "substring"}
    <2>1. \A cfg: kind \in Kinds(cfg) <=> "translationese" \in cfg.on
        BY <1>8, KindsByKind DEF SpellingFamily, OwnPass
    <2>2. FamilyOf(kind) = "translationese" /\ kind # "rhythm_premodifier"
        BY <1>8, Families
    <2>3. "translationese" \in after.on <=> "translationese" \in before.on /\ "translationese" \notin off
        BY <1>2 DEF AiStages
    <2>4. QED
        BY <2>1, <2>2, <2>3
<1>9. CASE kind \in {"rhythm_premodifier", "long_sentence", "monotony"}
    <2>1. \A cfg: kind \in Kinds(cfg) <=>
              "rhythm" \in cfg.on /\ (kind = "rhythm_premodifier" => "translationese" \in cfg.on)
        BY <1>9, KindsByKind DEF SpellingFamily, OwnPass
    <2>2. FamilyOf(kind) = "rhythm"
        BY <1>9, Families
    <2>3. \A switch \in {"rhythm", "translationese"}:
              switch \in after.on <=> switch \in before.on /\ switch \notin off
        BY <1>2 DEF AiStages
    <2>4. QED
        BY <2>1, <2>2, <2>3
<1>10. CASE kind \in {"repetition", "acronym"}
    <2>1. \A cfg: kind \in Kinds(cfg)
        BY <1>10, KindsByKind
    <2>2. FamilyOf(kind) = "none" /\ kind # "rhythm_premodifier" /\ "none" \notin off
        BY <1>10, Families DEF RuleFamily
    <2>3. QED
        BY <2>1, <2>2
<1>11. CASE kind \notin SpellingFamily \cup OwnPass \cup
              {"punctuation", "colon", "variant", "grammar", "ai_filler", "ai_grammar",
               "bare_attribution", "ai_pattern", "ai_shape", "zero_width", "ai_density",
               "translationese", "syntactic", "boundary", "long_premodifier", "substring",
               "rhythm_premodifier", "long_sentence", "monotony", "repetition", "acronym"}
    BY <1>11, KindsByKind
<1>12. QED
    BY <1>5, <1>6, <1>7, <1>8, <1>9, <1>10, <1>11

----------------------------------------------------------------------------
(* The command line: what the parser has collected names families only. *)

Shape(p) ==
    /\ p \in [at: {p.at}, option: {p.option}, command: {p.command}, stores: {p.stores},
              packs: {p.packs}, lint: {p.lint}, convert: {p.convert}]
    /\ p.lint \in [files: {p.lint.files}, flags: {p.lint.flags}, fix: {p.lint.fix},
                   level: {p.lint.level}, options: {p.lint.options}]
    /\ DOMAIN p.lint.options = LintOptions

ParserInv(p) ==
    /\ Shape(p)
    /\ p.packs \in Seq(STRING)
    /\ p.lint.options["--off"] \in Seq(RuleFamily)

LEMMA StartInv == ParserInv(Start)
<1>1. Start.packs = <<>> /\ Start.lint = LintArgs /\ "--off" \in LintOptions
    BY DEF Start, LintOptions
<1>2. LintArgs.options = [option \in LintOptions |-> IF option \in Lists THEN <<>> ELSE NotGiven]
    BY DEF LintArgs
<1>3. LintArgs.options["--off"] = <<>> /\ DOMAIN LintArgs.options = LintOptions
    BY <1>1, <1>2 DEF Lists
<1>4. Shape(Start)
    <2>1. Start \in [at: {Start.at}, option: {Start.option}, command: {Start.command},
                     stores: {Start.stores}, packs: {Start.packs}, lint: {Start.lint},
                     convert: {Start.convert}]
        BY DEF Start
    <2>2. LintArgs \in [files: {LintArgs.files}, flags: {LintArgs.flags}, fix: {LintArgs.fix},
                        level: {LintArgs.level}, options: {LintArgs.options}]
        BY DEF LintArgs
    <2>3. QED
        BY <1>1, <1>3, <2>1, <2>2 DEF Shape
<1>5. QED
    BY <1>1, <1>3, <1>4 DEF ParserInv

\* The updates the parser makes that leave the lists alone.
LEMMA Moves ==
    ASSUME NEW p, ParserInv(p), NEW v, NEW w
    PROVE  /\ ParserInv([p EXCEPT !.at = v]) /\ ParserInv([p EXCEPT !.at = v, !.option = w])
           /\ ParserInv([p EXCEPT !.command = v]) /\ ParserInv([p EXCEPT !.convert = v])
           /\ ParserInv([p EXCEPT !.stores = v])
BY DEF ParserInv, Shape

LEMMA LintMoves ==
    ASSUME NEW p, ParserInv(p), NEW v
    PROVE  /\ ParserInv([p EXCEPT !.lint.flags = v]) /\ ParserInv([p EXCEPT !.lint.fix = v])
           /\ ParserInv([p EXCEPT !.lint.files = v]) /\ ParserInv([p EXCEPT !.lint.level = v])
BY DEF ParserInv, Shape

LEMMA TopKeeps ==
    ASSUME NEW p, ParserInv(p), NEW token
    PROVE  ParserInv(Top(p, token))
<1>1. ParserInv(Await(p, "global value", StoreOf(token)))
    BY Moves DEF Await
<1>2. ParserInv(Claim(p, token))
    <2>1. ParserInv([p EXCEPT !.command = token])
        BY Moves
    <2>2. ParserInv(Goto([p EXCEPT !.command = token], token)) /\ ParserInv(Fail(p))
        BY <2>1, Moves DEF Goto, Fail
    <2>3. QED
        BY <2>2 DEF Claim
<1>3. ParserInv(Fail(p))
    BY Moves DEF Fail
<1>4. QED
    BY <1>1, <1>2, <1>3 DEF Top

LEMMA GlobalValueKeeps ==
    ASSUME NEW p, ParserInv(p), NEW token \in STRING
    PROVE  ParserInv(GlobalValue(p, token))
<1>1. CASE p.option = "--pack"
    <2>1. Append(p.packs, token) \in Seq(STRING)
        BY DEF ParserInv
    <2>2. ParserInv([p EXCEPT !.packs = Append(@, token)])
        BY <2>1 DEF ParserInv, Shape
    <2>3. QED
        BY <1>1, <2>2, Moves DEF GlobalValue, Goto
<1>2. CASE p.option # "--pack"
    <2>1. [p EXCEPT !.stores[p.option] = token]
              = [p EXCEPT !.stores = [p.stores EXCEPT ![p.option] = token]]
        OBVIOUS
    <2>2. ParserInv([p EXCEPT !.stores[p.option] = token])
        BY <2>1, Moves
    <2>3. QED
        BY <1>2, <2>2, Moves DEF GlobalValue, Goto
<1>3. QED
    BY <1>1, <1>2

LEMMA LintKeeps ==
    ASSUME NEW p, ParserInv(p), NEW token
    PROVE  ParserInv(Lint(p, token))
<1>1. /\ ParserInv([p EXCEPT !.lint.flags = @ \cup {token}])
      /\ ParserInv([p EXCEPT !.lint.fix = token])
      /\ ParserInv([p EXCEPT !.lint.files = Append(@, token)])
    BY LintMoves
<1>2. ParserInv(Await(p, "lint value", token)) /\ ParserInv(Fail(p))
    BY Moves DEF Await, Fail
<1>3. ParserInv(Goto([p EXCEPT !.lint.flags = @ \cup {token}], "level"))
    BY <1>1, Moves DEF Goto
<1>4. QED
    BY <1>1, <1>2, <1>3 DEF Lint

LEMMA LintValueKeeps ==
    ASSUME NEW p, ParserInv(p), NEW token
    PROVE  ParserInv(LintValue(p, token))
<1> DEFINE option == p.option
           value == IF option \in Lists THEN Append(p.lint.options[option], token) ELSE Spelled(token)
           new == [p.lint.options EXCEPT ![option] = value]
           q == [p EXCEPT !.lint.options[option] =
                    IF option \in Lists THEN Append(@, token) ELSE Spelled(token)]
<1>1. CASE option \notin FreeOptions /\ token \notin Accepted(option)
    <2>1. ParserInv(Fail(p))
        BY Moves DEF Fail
    <2>2. QED
        BY <1>1, <2>1 DEF LintValue
<1>2. CASE option \in FreeOptions \/ token \in Accepted(option)
    <2>1. DOMAIN new = LintOptions
        BY DEF ParserInv, Shape
    <2>2. new["--off"] \in Seq(RuleFamily)
        <3>1. CASE option = "--off"
            <4>1. token \in RuleFamily
                BY <1>2, <3>1 DEF FreeOptions, Accepted
            <4>2. p.lint.options["--off"] \in Seq(RuleFamily) /\ "--off" \in DOMAIN p.lint.options
                BY DEF ParserInv, Shape, LintOptions
            <4>3. value = Append(p.lint.options["--off"], token)
                BY <3>1 DEF Lists
            <4> HIDE DEF value
            <4>4. new["--off"] = Append(p.lint.options["--off"], token)
                BY <3>1, <4>2, <4>3
            <4>5. QED
                BY <4>1, <4>2, <4>4
        <3>2. CASE option # "--off"
            <4> HIDE DEF value
            <4>1. new["--off"] = p.lint.options["--off"]
                BY <3>2 DEF ParserInv, Shape, LintOptions
            <4>2. QED
                BY <4>1 DEF ParserInv
        <3>3. QED
            BY <3>1, <3>2
    <2>3. q = [p EXCEPT !.lint = [p.lint EXCEPT !.options = new]]
        OBVIOUS
    <2> HIDE DEF new, q
    <2>4. ParserInv(q)
        BY <2>1, <2>2, <2>3 DEF ParserInv, Shape
    <2>5. ParserInv(Goto(q, "lint"))
        BY <2>4, Moves DEF Goto
    <2>6. LintValue(p, token) = Goto(q, "lint")
        BY <1>2 DEF LintValue, q
    <2>7. QED
        BY <2>5, <2>6
<1>3. QED
    BY <1>1, <1>2

LEMMA StepKeeps ==
    ASSUME NEW p, ParserInv(p), NEW token \in STRING
    PROVE  ParserInv(Step(p, token))
<1>1. \A v: ParserInv(Goto(p, v)) /\ ParserInv(Fail(p))
    BY Moves DEF Goto, Fail
<1>2. ParserInv(Level(p, token))
    <2>1. ParserInv(Goto([p EXCEPT !.lint.level = LevelOf(token)], "lint"))
        BY LintMoves, Moves DEF Goto
    <2>2. ParserInv(Lint(Goto(p, "lint"), token))
        BY <1>1, LintKeeps
    <2>3. QED
        BY <2>1, <2>2 DEF Level
<1>3. ParserInv(Convert(p, token))
    <2>1. ParserInv(Await(p, "convert value", token)) /\ ParserInv([p EXCEPT !.convert = Append(@, token)])
        BY Moves DEF Await
    <2>2. QED
        BY <1>1, <2>1 DEF Convert
<1>4. ParserInv(ConvertValue(p, token)) /\ ParserInv(Tm(p, token))
    BY <1>1 DEF ConvertValue, Tm, Word
<1>5. ParserInv(TmRecord(p, token))
    <2>1. ParserInv(Top(Goto(p, "top"), token))
        BY <1>1, TopKeeps
    <2>2. QED
        BY <1>1, <2>1 DEF TmRecord
<1>6. ParserInv(Word(p, token, {"import", "export", "validate"}))
    BY <1>1 DEF Word
<1>7. /\ ParserInv(Top(p, token)) /\ ParserInv(GlobalValue(p, token)) /\ ParserInv(Lint(p, token))
      /\ ParserInv(LintValue(p, token))
    BY TopKeeps, GlobalValueKeeps, LintKeeps, LintValueKeeps
<1>8. QED
    BY <1>1, <1>2, <1>3, <1>4, <1>5, <1>6, <1>7 DEF Step

\* What holds of a front end at every step: the files are as assumed, and what the user
\* has typed was read as families where families are expected.
SettingsInv == scene \in Scenes /\ text \in Phrase /\ ParserInv(parser)

LEMMA SettingsInit == Init => SettingsInv
BY StartInv DEF Init, SettingsInv, Phrase

LEMMA SettingsStep == SettingsInv /\ [Next]_vars => SettingsInv'
<1> SUFFICES ASSUME SettingsInv, [Next]_vars PROVE SettingsInv'
    OBVIOUS
<1>1. CASE Write
    <2>1. PICK piece \in scene.pieces: text' = text \o piece
        BY <1>1 DEF Write
    <2>2. piece \in Seq(STRING) /\ text \in Seq(STRING)
        BY <2>1, ScenesAssumption DEF SettingsInv, Phrase
    <2>3. text' \in Phrase
        BY <2>1, <2>2 DEF Phrase
    <2>4. QED
        BY <1>1, <2>3 DEF Write, SettingsInv
<1>2. CASE Save
    BY <1>2 DEF Save, SettingsInv
<1>3. CASE Type
    <2>1. PICK token \in STRING: parser' = Step(parser, token)
        BY <1>3, ScenesAssumption DEF Type, SettingsInv
    <2>2. ParserInv(parser')
        BY <2>1, StepKeeps DEF SettingsInv
    <2>3. QED
        BY <1>3, <2>2 DEF Type, SettingsInv
<1>4. CASE Enter
    BY <1>4 DEF Enter, SettingsInv
<1>5. CASE UNCHANGED vars
    BY <1>5 DEF vars, SettingsInv
<1>6. QED
    BY <1>1, <1>2, <1>3, <1>4, <1>5 DEF Next

LEMMA SettingsAlways == Spec => []SettingsInv
BY SettingsInit, SettingsStep, PTL DEF Spec

\* Subtraction changes the switches and nothing else.
LEMMA DisabledIs ==
    ASSUME NEW cfg, "on" \in DOMAIN cfg, "stance" \in DOMAIN cfg, NEW off
    PROVE  /\ WithDisabled(cfg, off).on = cfg.on \ Off(off)
           /\ WithDisabled(cfg, off).stance = cfg.stance
BY DEF WithDisabled, Without, Off

Fields == {"on", "spacing_policy", "range_en_dash", "exempt", "register", "genre", "domain",
           "threshold", "stance"}

LEMMA WithFields ==
    ASSUME NEW cfg, DOMAIN cfg = Fields, NEW switches, NEW choice
    PROVE  /\ DOMAIN With(cfg, switches) = Fields
           /\ DOMAIN Chosen(cfg, switches, choice) = Fields
BY DEF With, Without, Chosen

LEMMA BaseFields ==
    ASSUME NEW profile, NEW relaxed, NEW spacing, NEW exempt
    PROVE  DOMAIN Base(profile, relaxed, spacing, exempt) = Fields
<1>1. DOMAIN AllDisabled = Fields
    BY DEF AllDisabled, Fields
<1>2. DOMAIN Config(profile) = Fields
    BY <1>1 DEF Config
<1>3. DOMAIN Relaxed(Config(profile), relaxed) = Fields
    BY <1>2 DEF Relaxed, WithRelaxed, Without
<1>4. QED
    BY <1>3 DEF Base

LEMMA ToolFields ==
    ASSUME NEW args, NEW cfg, DOMAIN cfg = Fields
    PROVE  DOMAIN ToolCapabilities(args, cfg) = Fields
<1>1. DOMAIN ToolTranslationese(args, With(cfg, When(args.rhythm, {"rhythm"}))) = Fields
    BY WithFields DEF ToolTranslationese
<1>2. QED
    BY <1>1, WithFields DEF ToolCapabilities

\* Without anything turned off a config is as it was.
LEMMA NothingOff ==
    ASSUME NEW cfg, DOMAIN cfg = Fields
    PROVE  /\ WithDisabled(cfg, Range(<<>>)).on = cfg.on
           /\ WithDisabled(cfg, Range(<<>>)).stance = cfg.stance
<1>1. Off(Range(<<>>)) = {}
    BY DEF Range, Off
<1> DEFINE off == Range(<<>>)
<1> HIDE DEF off
<1>2. "on" \in DOMAIN cfg /\ "stance" \in DOMAIN cfg
    BY DEF Fields
<1>3. /\ WithDisabled(cfg, off).on = cfg.on \ Off(off)
      /\ WithDisabled(cfg, off).stance = cfg.stance
    BY <1>2, DisabledIs
<1>4. QED
    BY <1>1, <1>3 DEF off

LEMMA ToolOff ==
    ASSUME NEW args \in CheckFlags
    PROVE  OnlyTheirs(Kinds(ToolSettings([args EXCEPT !.off = <<>>])), Kinds(ToolSettings(args)),
                      Range(args.off))
<1> DEFINE bare == [args EXCEPT !.off = <<>>]
           cfg == ToolCapabilities(args, Base(args.profile, args.relaxed, args.spacing, args.exempt))
<1>1. /\ bare.off = <<>> /\ bare.profile = args.profile /\ bare.relaxed = args.relaxed
      /\ bare.spacing = args.spacing /\ bare.exempt = args.exempt /\ bare.rhythm = args.rhythm
      /\ bare.stance = args.stance /\ bare.detect_style = args.detect_style
      /\ bare.detect_ai = args.detect_ai /\ bare.ai_threshold = args.ai_threshold
      /\ bare.detect_translationese = args.detect_translationese
    BY DEF CheckFlags
<1> HIDE DEF bare
<1>2. \A c: ToolCapabilities(bare, c) = ToolCapabilities(args, c)
    BY <1>1 DEF ToolCapabilities, ToolTranslationese, ToolDetectsAi
<1>3. ToolSettings(bare) = WithDisabled(cfg, Range(<<>>))
    BY <1>1, <1>2 DEF ToolSettings
<1>4. ToolSettings(args) = WithDisabled(cfg, Range(args.off))
    BY DEF ToolSettings
<1>5. DOMAIN cfg = Fields
    BY BaseFields, ToolFields
<1> HIDE DEF cfg
<1>6. Range(args.off) \in SUBSET RuleFamily
    BY DEF CheckFlags, Range
<1>7. /\ ToolSettings(bare).on = cfg.on /\ ToolSettings(bare).stance = cfg.stance
    BY <1>3, <1>5, NothingOff
<1>8. /\ ToolSettings(args).on = cfg.on \ Off(Range(args.off))
      /\ ToolSettings(args).stance = cfg.stance
    BY <1>4, <1>5, DisabledIs DEF Fields
<1>9. QED
    BY <1>6, <1>7, <1>8, OffTakes DEF bare

LEMMA RangeOfConcat ==
    ASSUME NEW X, NEW s \in Seq(X), NEW t \in Seq(X)
    PROVE  s \o t \in Seq(X) /\ Range(s \o t) = Range(s) \cup Range(t)
<1>1. /\ s \o t \in Seq(X) /\ DOMAIN s = 1..Len(s) /\ DOMAIN t = 1..Len(t)
      /\ Len(s) \in Nat /\ Len(t) \in Nat /\ DOMAIN (s \o t) = 1..Len(s) + Len(t)
      /\ \A k \in 1..Len(s) + Len(t): (s \o t)[k] = IF k <= Len(s) THEN s[k] ELSE t[k - Len(s)]
    OBVIOUS
<1>2. ASSUME NEW x \in Range(s \o t) PROVE x \in Range(s) \cup Range(t)
    <2>1. PICK k \in 1..Len(s) + Len(t): x = (s \o t)[k]
        BY <1>1 DEF Range
    <2>2. CASE k <= Len(s)
        <3>1. k \in 1..Len(s) /\ x = s[k]
            BY <1>1, <2>1, <2>2
        <3>2. QED
            BY <1>1, <3>1 DEF Range
    <2>3. CASE ~(k <= Len(s))
        <3>1. k - Len(s) \in 1..Len(t) /\ x = t[k - Len(s)]
            BY <1>1, <2>1, <2>3
        <3>2. QED
            BY <1>1, <3>1 DEF Range
    <2>4. QED
        BY <2>2, <2>3
<1>3. ASSUME NEW x \in Range(s) PROVE x \in Range(s \o t)
    <2>1. PICK k \in 1..Len(s): x = s[k]
        BY <1>1 DEF Range
    <2>2. k \in 1..Len(s) + Len(t) /\ x = (s \o t)[k]
        BY <1>1, <2>1
    <2>3. QED
        BY <1>1, <2>2 DEF Range
<1>4. ASSUME NEW x \in Range(t) PROVE x \in Range(s \o t)
    <2>1. PICK k \in 1..Len(t): x = t[k]
        BY <1>1 DEF Range
    <2>2. Len(s) + k \in 1..Len(s) + Len(t) /\ ~(Len(s) + k <= Len(s)) /\ (Len(s) + k) - Len(s) = k
        BY <1>1
    <2>3. x = (s \o t)[Len(s) + k]
        BY <1>1, <2>1, <2>2
    <2>4. QED
        BY <1>1, <2>2, <2>3 DEF Range
<1>5. QED
    BY <1>1, <1>2, <1>3, <1>4

\* The list of the command line comes first, and the file adds what is not on it.
LEMMA UnionOfLists ==
    ASSUME NEW X, NEW cli \in Seq(X), NEW config \in Seq(X)
    PROVE  /\ UnionConfigList(cli, config) \in Seq(X)
           /\ Range(UnionConfigList(cli, config)) = Range(cli) \cup Range(config)
           /\ cli = <<>> => UnionConfigList(cli, config) = config
<1> DEFINE added == Only(config, Range(config) \ Range(cli))
<1>1. /\ added \in Seq(X) /\ Range(added) = Range(config) \cap (Range(config) \ Range(cli))
      /\ Range(config) \subseteq Range(config) \ Range(cli) => added = config
    BY OnlyKeeps
<1>2. UnionConfigList(cli, config) = cli \o added
    BY DEF UnionConfigList
<1> HIDE DEF added
<1>3. cli = <<>> => Range(cli) = {}
    BY DEF Range
<1>4. cli \o added \in Seq(X) /\ Range(cli \o added) = Range(cli) \cup Range(added)
    BY <1>1, RangeOfConcat
<1>5. <<>> \o added = added
    BY <1>1
<1>6. QED
    BY <1>1, <1>2, <1>3, <1>4, <1>5

LEMMA LintFields == DOMAIN LintCapabilities = Fields
BY BaseFields, WithFields DEF LintCapabilities

LEMMA LintOffs ==
    ASSUME SettingsInv
    PROVE  LintOff \in Seq(RuleFamily) /\ Range(LintOff) \in SUBSET RuleFamily
<1>1. Option("--off") \in Seq(RuleFamily) /\ scene.project.off \in Seq(RuleFamily)
    BY ScenesAssumption DEF SettingsInv, ParserInv, Option, ProjectConfig
<1>2. LintOff \in Seq(RuleFamily)
    BY <1>1, UnionOfLists DEF LintOff
<1>3. QED
    BY <1>2 DEF Range

\* Turning families off takes away the findings that belong to them and no others: in lint
\* whatever else is typed or in the project's file, and in the tool for all arguments.
THEOREM OffAlwaysTakesItsOwn == Spec => []OffTakesOnlyItsOwn
<1>1. SettingsInv => OffTakesOnlyItsOwn
    <2> SUFFICES ASSUME SettingsInv PROVE OffTakesOnlyItsOwn
        OBVIOUS
    <2>1. OnlyTheirs(Kinds(LintCapabilities), Kinds(LintSettings), Range(LintOff))
        <3>1. /\ LintSettings.on = LintCapabilities.on \ Off(Range(LintOff))
              /\ LintSettings.stance = LintCapabilities.stance
            BY LintFields, DisabledIs DEF LintSettings, Fields
        <3>2. QED
            BY <3>1, LintOffs, OffTakes
    <2>2. \A args \in scene.arguments: args \in CheckFlags
        BY ScenesAssumption DEF SettingsInv
    <2>3. QED
        BY <2>1, <2>2, ToolOff DEF OffTakesOnlyItsOwn
<1>2. QED
    BY <1>1, SettingsAlways, PTL

----------------------------------------------------------------------------
(* The hook and lint *)

LEMMA BareLine ==
    ASSUME WithoutFlags
    PROVE  /\ parser.lint.flags = {} /\ parser.packs = <<>>
           /\ parser.stores["--overrides"] = NotGiven
           /\ parser.lint.options["--off"] = <<>>
           /\ \A option \in LintOptions \ Lists: parser.lint.options[option] = NotGiven
<1> DEFINE files == parser.lint.files
           bare == [Start EXCEPT !.at = "lint", !.command = "lint", !.lint.files = @ \o files]
<1>1. parser = bare
    BY DEF WithoutFlags
<1> HIDE DEF files
<1>2. /\ bare.lint.flags = LintArgs.flags /\ bare.lint.options = LintArgs.options
      /\ bare.packs = <<>> /\ bare.stores = Start.stores
    BY DEF Start, LintArgs
<1>3. LintArgs.flags = {} /\ LintArgs.options["--off"] = <<>>
    BY DEF LintArgs, LintOptions, Lists
<1>4. \A option \in LintOptions \ Lists: LintArgs.options[option] = NotGiven
    BY DEF LintArgs
<1>5. Start.stores["--overrides"] = NotGiven
    BY DEF Start, GlobalOptions
<1> HIDE DEF bare
<1>6. QED
    BY <1>1, <1>2, <1>3, <1>4, <1>5

\* What changes nothing.
LEMMA SameConfig ==
    ASSUME NEW cfg, cfg = [field \in Fields |-> cfg[field]]
    PROVE  /\ With(cfg, {}) = cfg
           /\ [cfg EXCEPT !.threshold = @, !.domain = Given(NotGiven, @),
                          !.genre = Given(NotGiven, @), !.register = Given(NotGiven, @)] = cfg
<1>1. With(cfg, {}) = [cfg EXCEPT !.on = cfg.on]
    BY DEF With
<1>2. [cfg EXCEPT !.on = cfg.on] = cfg
    OBVIOUS
<1>3. [cfg EXCEPT !.threshold = @, !.domain = Given(NotGiven, @),
                  !.genre = Given(NotGiven, @), !.register = Given(NotGiven, @)]
          = [cfg EXCEPT !.threshold = cfg.threshold, !.domain = cfg.domain,
                        !.genre = cfg.genre, !.register = cfg.register]
    BY DEF Given
<1>4. [cfg EXCEPT !.threshold = cfg.threshold, !.domain = cfg.domain,
                  !.genre = cfg.genre, !.register = cfg.register] = cfg
    OBVIOUS
<1>5. QED
    BY <1>1, <1>2, <1>3, <1>4

LEMMA BaseIsConfig ==
    ASSUME NEW profile, NEW relaxed, NEW spacing, NEW exempt
    PROVE  Base(profile, relaxed, spacing, exempt)
               = [field \in Fields |-> Base(profile, relaxed, spacing, exempt)[field]]
<1> DEFINE relaxedly == Relaxed(Config(profile), relaxed)
           base == [relaxedly EXCEPT !.spacing_policy = Given(spacing, @), !.exempt = exempt]
<1>1. Base(profile, relaxed, spacing, exempt) = base
    BY DEF Base
<1>2. base = [field \in DOMAIN base |-> base[field]]
    <2> HIDE DEF relaxedly
    <2>1. QED
        OBVIOUS
<1>3. DOMAIN base = Fields
    BY <1>1, BaseFields
<1> HIDE DEF base
<1>4. QED
    BY <1>1, <1>2, <1>3

\* The flags of lint that there are not: its settings are those the hook takes from the file.
LEMMA BareSettings ==
    ASSUME SettingsInv, LintRuns, WithoutFlags
    PROVE  LintSettings = HookSettings
<1> DEFINE profile == IF scene.project.profile = "strict" THEN "strict" ELSE "base"
           base == Base(profile, scene.project.relaxed, scene.project.spacing, scene.project.exempt)
<1>1. /\ \A flag: ~Flag(flag)
      /\ Option("--off") = <<>>
      /\ \A option \in {"--profile", "--spacing", "--translationese-domain", "--document-genre",
                        "--register"}: Option(option) = NotGiven
    BY BareLine DEF Flag, Option, LintOptions, FreeOptions, Lists
<1>2. LintProfile = profile
    <2>1. LintProfile = Given(scene.project.profile, "base")
        BY <1>1 DEF LintProfile, Given
    <2>2. LintProfile \in Profiles
        BY DEF LintRuns
    <2>3. QED
        BY <2>1, <2>2 DEF Profiles, Given, NotGiven
<1>3. ~DetectsAi
    BY <1>1 DEF DetectsAi
<1>4. \A value: Given(NotGiven, value) = value
    BY DEF Given
<1>5. Base(LintProfile, Flag("--relaxed") \/ scene.project.relaxed,
           Given(Option("--spacing"), scene.project.spacing),
           Flag("--exempt-blockquotes") \/ scene.project.exempt) = base
    <2>1. scene.project.relaxed \in BOOLEAN /\ scene.project.exempt \in BOOLEAN
        BY ScenesAssumption DEF SettingsInv, ProjectConfig
    <2>2. (Flag("--relaxed") \/ scene.project.relaxed) = scene.project.relaxed
        BY <1>1, <2>1
    <2>3. (Flag("--exempt-blockquotes") \/ scene.project.exempt) = scene.project.exempt
        BY <1>1, <2>1
    <2>4. Given(Option("--spacing"), scene.project.spacing) = scene.project.spacing
        BY <1>1, <1>4
    <2> HIDE DEF profile
    <2>5. QED
        BY <1>2, <2>2, <2>3, <2>4
<1>6. When(DetectsAi, AiStages)
          \cup When(Flag("--detect-translationese") \/ Flag("--detect-style"), {"translationese"})
          \cup When(Flag("--rhythm"), {"rhythm"}) = {}
    BY <1>1, <1>3 DEF When
<1>7. base = [field \in Fields |-> base[field]]
    BY BaseIsConfig
<1> HIDE DEF base, profile
<1>8. LintCapabilities = base
    <2>1. LintCapabilities =
              [With(base, {}) EXCEPT !.threshold = IF DetectsAi THEN parser.lint.level ELSE @,
                                     !.domain = Given(Option("--translationese-domain"), @),
                                     !.genre = Given(Option("--document-genre"), @),
                                     !.register = Given(Option("--register"), @)]
        BY <1>5, <1>6 DEF LintCapabilities
    <2>2. With(base, {}) = base
        BY <1>7, SameConfig
    <2>3. LintCapabilities =
              [base EXCEPT !.threshold = @, !.domain = Given(NotGiven, @),
                           !.genre = Given(NotGiven, @), !.register = Given(NotGiven, @)]
        BY <1>1, <1>3, <2>1, <2>2
    <2>4. QED
        BY <1>7, <2>3, SameConfig
<1>9. LintOff = scene.project.off
    <2>1. scene.project.off \in Seq(RuleFamily) /\ <<>> \in Seq(RuleFamily)
        BY ScenesAssumption DEF SettingsInv, ProjectConfig
    <2>2. QED
        BY <1>1, <2>1, UnionOfLists DEF LintOff
<1>10. QED
    BY <1>8, <1>9 DEF LintSettings, HookSettings, base, profile

\* The hook reports what lint does without flags, for any file, any project file that names
\* no overrides of its own, any user's overrides and any packs.
THEOREM HookAlwaysSpeaksForLint == Spec => []HookSpeaksForLint
<1>1. SettingsInv => HookSpeaksForLint
    <2> SUFFICES ASSUME SettingsInv, LintRuns, WithoutFlags, scene.project.overrides = NotGiven
                 PROVE  HookReport = LintReport
        BY DEF HookSpeaksForLint
    <2>1. LintSettings = HookSettings
        BY BareSettings
    <2>2. LintOverrides = DefaultOverrides
        BY BareLine DEF LintOverrides, Given
    <2>3. LintPacks = scene.project.packs
        <3>1. scene.project.packs \in Seq(STRING) /\ <<>> \in Seq(STRING)
            BY ScenesAssumption DEF SettingsInv, ProjectConfig
        <3>2. UnionConfigList(<<>>, scene.project.packs) = scene.project.packs
            BY <3>1, UnionOfLists
        <3>3. parser.packs = <<>>
            BY BareLine
        <3>4. QED
            BY <3>2, <3>3 DEF LintPacks
    <2>4. QED
        BY <2>1, <2>2, <2>3 DEF HookReport, LintReport, HookRules, LintRules
<1>2. QED
    BY <1>1, SettingsAlways, PTL

----------------------------------------------------------------------------
(* The rules in force *)

LEMMA FlattenSolves ==
    ASSUME NEW X, NEW seqs \in Seq(Seq(X))
    PROVE  \E g \in [0..Len(seqs) -> Seq(X)]:
                /\ FlattenSeq(seqs) = g[Len(seqs)]
                /\ g[0] = <<>>
                /\ \A k \in 1..Len(seqs): g[k] = g[k - 1] \o seqs[k]
<1> DEFINE n == Len(seqs)
           step == [p \in Seq(X) \X (1..n) |-> p[1] \o seqs[p[2]]]
           Is(f) == f = [i \in 1..n |-> IF i = 1 THEN seqs[i] ELSE f[i - 1] \o seqs[i]]
<1>1. n \in Nat /\ <<>> \in Seq(X) /\ \A k \in 1..n: seqs[k] \in Seq(X)
    OBVIOUS
<1>2. step \in [Seq(X) \X (1..n) -> Seq(X)]
    BY <1>1
<1>3. PICK g \in [0..n -> Seq(X)]: Solves(g, n, <<>>, step)
    <2> HIDE DEF step, n
    <2>1. QED
        BY <1>1, <1>2, SolutionExists
<1>4. \A k \in 1..n: k - 1 \in 0..n /\ step[<<g[k - 1], k>>] = g[k - 1] \o seqs[k]
    <2>1. ASSUME NEW k \in 1..n
          PROVE  k - 1 \in 0..n /\ <<g[k - 1], k>> \in Seq(X) \X (1..n)
        <3> HIDE DEF n, step
        <3>1. k - 1 \in 0..n
            BY <1>1
        <3>2. QED
            BY <1>3, <3>1
    <2> HIDE DEF n
    <2>2. QED
        BY <2>1
<1>5. g[0] = <<>> /\ \A k \in 1..n: g[k] = g[k - 1] \o seqs[k]
    <2> HIDE DEF step, n
    <2>1. \A k \in 0..n: g[k] = IF k = 0 THEN <<>> ELSE step[<<g[k - 1], k>>]
        BY <1>3 DEF Solves
    <2>2. 0 \in 0..n /\ \A k \in 1..n: k \in 0..n /\ k # 0
        BY <1>1
    <2>3. QED
        BY <1>4, <2>1, <2>2
<1> HIDE DEF step
<1>6. CASE n = 0
    <2>1. seqs = <<>>
        BY <1>6
    <2>2. FlattenSeq(seqs) = seqs
        BY <1>6 DEF FlattenSeq
    <2>3. QED
        BY <1>3, <1>5, <1>6, <2>1, <2>2
<1>7. CASE n # 0
    <2> DEFINE f == [i \in 1..n |-> g[i]]
               flatten == CHOOSE x: Is(x)
    <2>0. g[1] = seqs[1]
        <3>1. seqs[1] \in Seq(X) /\ 1 \in 1..n
            BY <1>1, <1>7
        <3> HIDE DEF n, f, flatten, Is
        <3>2. g[1] = g[1 - 1] \o seqs[1]
            BY <1>5, <3>1
        <3>3. g[1] = <<>> \o seqs[1]
            <4>1. 1 - 1 = 0
                OBVIOUS
            <4>2. QED
                BY <1>5, <3>2, <4>1
        <3>4. <<>> \o seqs[1] = seqs[1]
            BY <3>1
        <3>5. QED
            BY <3>3, <3>4
    <2>1. Is(f)
        <3>1. seqs[1] \in Seq(X) /\ 1 \in 1..n /\ 1 - 1 = 0
            BY <1>1, <1>7
        <3>2. g[1] = seqs[1]
            BY <2>0
        <3> HIDE DEF n
        <3>3. \A i \in 1..n: i # 1 => i - 1 \in 1..n
            BY <1>1
        <3>4. \A i \in 1..n: f[i] = IF i = 1 THEN seqs[i] ELSE f[i - 1] \o seqs[i]
            BY <1>5, <3>2, <3>3
        <3>5. f = [i \in 1..n |-> f[i]]
            OBVIOUS
        <3> HIDE DEF f
        <3>6. QED
            BY <3>4, <3>5, Zenon
    <2>2. Is(flatten)
        <3> HIDE DEF Is, f
        <3>1. QED
            BY <2>1
    <2>3. FlattenSeq(seqs) = flatten[n]
        BY <1>7 DEF FlattenSeq
    <2> HIDE DEF flatten, f
    <2>4. \A k \in 1..n: flatten[k] = g[k]
        <3> DEFINE P == {m \in Nat: m + 1 <= n => flatten[m + 1] = g[m + 1]}
        <3> HIDE DEF n
        <3>0. \A i \in 1..n: flatten[i] = IF i = 1 THEN seqs[i] ELSE flatten[i - 1] \o seqs[i]
            BY <2>2
        <3>1. 0 \in P
            <4>1. 1 \in 1..n /\ seqs[1] \in Seq(X) /\ 1 - 1 = 0
                BY <1>1, <1>7
            <4>2. g[1] = seqs[1] /\ flatten[1] = seqs[1]
                BY <2>0, <3>0, <4>1
            <4>3. QED
                BY <4>2
        <3>2. ASSUME NEW m \in P PROVE m + 1 \in P
            <4>1. SUFFICES ASSUME m + 1 + 1 <= n PROVE flatten[m + 1 + 1] = g[m + 1 + 1]
                OBVIOUS
            <4>2. flatten[m + 1] = g[m + 1] /\ m \in Nat
                BY <1>1, <4>1
            <4> DEFINE i == m + 1 + 1
            <4>3. i \in 1..n /\ i - 1 = m + 1 /\ i # 1
                BY <1>1, <4>1, <4>2
            <4> HIDE DEF i
            <4>4. g[i] = g[i - 1] \o seqs[i] /\ flatten[i] = flatten[i - 1] \o seqs[i]
                BY <1>5, <3>0, <4>3
            <4>5. g[i] = flatten[i]
                BY <4>2, <4>3, <4>4
            <4>6. QED
                BY <4>5 DEF i
        <3>3. P \in SUBSET Nat
            OBVIOUS
        <3> HIDE DEF P
        <3>4. P = Nat
            BY <3>1, <3>2, <3>3, NatInduct
        <3>5. ASSUME NEW k \in 1..n PROVE flatten[k] = g[k]
            <4>1. k - 1 \in P
                BY <1>1, <3>4
            <4>2. (k - 1) + 1 = k /\ k <= n
                BY <1>1
            <4>3. QED
                BY <4>1, <4>2 DEF P
        <3>6. QED
            BY <3>5
    <2>5. n \in 1..n
        BY <1>1, <1>7
    <2> HIDE DEF n
    <2>6. FlattenSeq(seqs) = g[n]
        BY <2>3, <2>4, <2>5
    <2>7. QED
        BY <1>3, <1>5, <2>6 DEF n
<1>8. QED
    BY <1>6, <1>7

\* One sequence more in front.
LEMMA FlattenCons ==
    ASSUME NEW X, NEW a \in Seq(X), NEW seqs \in Seq(Seq(X))
    PROVE  /\ FlattenSeq(seqs) \in Seq(X)
           /\ FlattenSeq(<<a>> \o seqs) = a \o FlattenSeq(seqs)
<1> DEFINE n == Len(seqs)
           more == <<a>> \o seqs
<1>1. /\ n \in Nat /\ Len(more) = n + 1 /\ more \in Seq(Seq(X)) /\ more[1] = a
      /\ \A k \in 1..n: more[k + 1] = seqs[k] /\ seqs[k] \in Seq(X)
    OBVIOUS
<1>2. PICK g \in [0..n -> Seq(X)]:
          /\ FlattenSeq(seqs) = g[n] /\ g[0] = <<>>
          /\ \A k \in 1..n: g[k] = g[k - 1] \o seqs[k]
    BY FlattenSolves
<1>3. PICK h \in [0..n + 1 -> Seq(X)]:
          /\ FlattenSeq(more) = h[n + 1] /\ h[0] = <<>>
          /\ \A k \in 1..n + 1: h[k] = h[k - 1] \o more[k]
    <2> HIDE DEF n, more
    <2>1. \E h \in [0..Len(more) -> Seq(X)]:
              /\ FlattenSeq(more) = h[Len(more)] /\ h[0] = <<>>
              /\ \A k \in 1..Len(more): h[k] = h[k - 1] \o more[k]
        BY <1>1, FlattenSolves
    <2>2. QED
        BY <1>1, <2>1
<1> HIDE DEF n, more
<1> DEFINE P == {m \in Nat: m <= n => h[m + 1] = a \o g[m]}
<1>4. 0 \in P
    <2>1. 1 \in 1..n + 1 /\ 0 + 1 = 1
        BY <1>1
    <2>2. h[1] = h[1 - 1] \o more[1]
        <3> HIDE DEF P
        <3>1. QED
            BY <1>3, <2>1
    <2>3. h[1] = <<>> \o a
        <3>1. 1 - 1 = 0
            OBVIOUS
        <3> HIDE DEF P
        <3>2. QED
            BY <1>1, <1>3, <2>2, <3>1
    <2>4. <<>> \o a = a \o <<>>
        OBVIOUS
    <2>5. h[1] = a \o g[0]
        BY <1>2, <2>3, <2>4
    <2>6. QED
        BY <2>1, <2>5
<1>5. ASSUME NEW m \in P PROVE m + 1 \in P
    <2>1. SUFFICES ASSUME m + 1 <= n PROVE h[m + 1 + 1] = a \o g[m + 1]
        OBVIOUS
    <2>2. m \in Nat /\ h[m + 1] = a \o g[m]
        <3>1. m \in Nat /\ (m <= n => h[m + 1] = a \o g[m])
            OBVIOUS
        <3> HIDE DEF P
        <3>2. m <= n
            BY <1>1, <2>1, <3>1
        <3>3. QED
            BY <3>1, <3>2
    <2> HIDE DEF P
    <2> DEFINE i == m + 1 + 1
               j == m + 1
    <2>3. i \in 1..n + 1 /\ i - 1 = j /\ j \in 1..n /\ j - 1 = m /\ m \in 0..n /\ i = j + 1
        BY <1>1, <2>1, <2>2
    <2>4. g[m] \in Seq(X) /\ seqs[j] \in Seq(X) /\ h[j] = a \o g[m]
        BY <1>1, <1>2, <2>2, <2>3
    <2> HIDE DEF i, j
    <2>5. h[i] = h[j] \o more[i] /\ more[i] = seqs[j] /\ g[j] = g[m] \o seqs[j]
        BY <1>1, <1>2, <1>3, <2>3
    <2>6. (a \o g[m]) \o seqs[j] = a \o (g[m] \o seqs[j])
        <3> DEFINE x == g[m]
                   y == seqs[j]
        <3>1. x \in Seq(X) /\ y \in Seq(X)
            BY <2>4
        <3> HIDE DEF x, y
        <3>2. (a \o x) \o y = a \o (x \o y)
            BY <3>1, ConcatAssociative
        <3>3. QED
            BY <3>2 DEF x, y
    <2>7. h[i] = a \o g[j]
        BY <2>4, <2>5, <2>6
    <2>8. QED
        BY <2>7 DEF i, j
<1>6. P \in SUBSET Nat
    OBVIOUS
<1> HIDE DEF P
<1>7. P = Nat
    BY <1>4, <1>5, <1>6, NatInduct
<1>8. h[n + 1] = a \o g[n]
    <2>1. n \in P /\ n <= n
        BY <1>1, <1>7
    <2>2. QED
        BY <2>1 DEF P
<1>9. FlattenSeq(seqs) \in Seq(X)
    <2>1. n \in 0..n
        BY <1>1
    <2>2. QED
        BY <1>2, <2>1
<1>10. FlattenSeq(more) = a \o FlattenSeq(seqs)
    BY <1>2, <1>3, <1>8
<1>11. QED
    BY <1>9, <1>10 DEF more

\* A rule decides about its phrase where it is the last of the sequence that names it.
Decides(rule, rules) ==
    \E k \in 1..Len(rules):
        /\ rules[k] = rule
        /\ \A j \in 1..Len(rules): rules[j].from = rule.from => j <= k

LEMMA LastOfIs ==
    ASSUME NEW X, NEW rules \in Seq(X), NEW phrase, Names(rules, phrase) # {}
    PROVE  /\ LastOf(rules, phrase) \in Range(rules)
           /\ LastOf(rules, phrase).from = phrase
           /\ Decides(LastOf(rules, phrase), rules)
<1> DEFINE S == Names(rules, phrase)
           Is(k) == k \in S /\ \A j \in S: k >= j
<1>1. DOMAIN rules = 1..Len(rules) /\ Len(rules) \in Nat
    OBVIOUS
<1>2. S \in SUBSET (1..Len(rules)) /\ \A k \in S: rules[k].from = phrase
    BY <1>1 DEF Names
<1>3. PICK k \in S: \A j \in S: j <= k
    <2> HIDE DEF S
    <2>1. S # {}
        BY DEF S
    <2>2. QED
        BY <1>1, <1>2, <2>1, Largest
<1>4. Is(k)
    <2>1. \A j \in S: j \in Nat /\ k \in Nat
        BY <1>1, <1>2
    <2> HIDE DEF S
    <2>2. QED
        BY <1>3, <2>1
<1>5. Is(Max(S))
    <2>1. Max(S) = CHOOSE x \in S: \A y \in S: x >= y
        BY DEF Max
    <2> HIDE DEF S
    <2>2. QED
        BY <1>4, <2>1
<1> DEFINE last == Max(S)
<1>6. LastOf(rules, phrase) = rules[last]
    BY DEF LastOf
<1>7. \A j \in 1..Len(rules): rules[j].from = phrase => j \in S
    BY <1>1 DEF Names
<1> HIDE DEF S
<1>8. last \in 1..Len(rules) /\ rules[last].from = phrase
    BY <1>2, <1>5
<1>9. \A j \in 1..Len(rules): rules[j].from = phrase => j <= last
    BY <1>1, <1>5, <1>7, <1>8
<1> HIDE DEF last, Is
<1>10. rules[last] \in Range(rules)
    BY <1>1, <1>8 DEF Range
<1>11. QED
    BY <1>6, <1>8, <1>9, <1>10 DEF Decides

LEMMA OneDecides ==
    ASSUME NEW X, NEW rules \in Seq(X), NEW a, NEW b, Decides(a, rules), Decides(b, rules),
           a.from = b.from
    PROVE  a = b
<1>1. PICK k \in 1..Len(rules): /\ rules[k] = a
                                /\ \A j \in 1..Len(rules): rules[j].from = a.from => j <= k
    BY DEF Decides
<1>2. PICK l \in 1..Len(rules): /\ rules[l] = b
                                /\ \A j \in 1..Len(rules): rules[j].from = b.from => j <= l
    BY DEF Decides
<1>3. k <= l /\ l <= k
    BY <1>1, <1>2
<1>4. k = l
    BY <1>3
<1>5. QED
    BY <1>1, <1>2, <1>4

LEMMA DecidesIsLast ==
    ASSUME NEW X, NEW rules \in Seq(X), NEW rule
    PROVE  Decides(rule, rules) <=> rule \in Range(rules) /\ rule = LastOf(rules, rule.from)
<1>1. DOMAIN rules = 1..Len(rules)
    OBVIOUS
<1>2. rule \in Range(rules) => Names(rules, rule.from) # {}
    BY <1>1 DEF Range, Names
<1>3. Decides(rule, rules) => rule \in Range(rules)
    BY <1>1 DEF Decides, Range
<1>4. ASSUME rule \in Range(rules)
      PROVE  /\ LastOf(rules, rule.from).from = rule.from
             /\ Decides(LastOf(rules, rule.from), rules)
    BY <1>2, <1>4, LastOfIs
<1>5. Decides(rule, rules) => rule = LastOf(rules, rule.from)
    BY <1>3, <1>4, OneDecides
<1>6. QED
    BY <1>3, <1>4, <1>5

LEMMA UniqueDecides ==
    ASSUME NEW X, NEW rules \in Seq(X), \A a, b \in Range(rules): a.from = b.from => a = b,
           NEW rule
    PROVE  Decides(rule, rules) <=> rule \in Range(rules)
<1>1. DOMAIN rules = 1..Len(rules)
    OBVIOUS
<1>2. rule \in Range(rules) => Names(rules, rule.from) # {}
    BY <1>1 DEF Range, Names
<1>3. rule \in Range(rules) => /\ LastOf(rules, rule.from) \in Range(rules)
                               /\ LastOf(rules, rule.from).from = rule.from
    BY <1>2, LastOfIs
<1>4. QED
    BY <1>3, DecidesIsLast

\* Of two sequences the second has the last word.
LEMMA DecidesConcat ==
    ASSUME NEW X, NEW s \in Seq(X), NEW t \in Seq(X), NEW rule
    PROVE  Decides(rule, s \o t)
             <=> \/ Decides(rule, t)
                 \/ /\ Decides(rule, s)
                    /\ \A k \in 1..Len(t): t[k].from # rule.from
<1> DEFINE n == Len(s)
           m == Len(t)
           both == s \o t
<1>1. /\ n \in Nat /\ m \in Nat /\ Len(both) = n + m
      /\ \A k \in 1..n: both[k] = s[k]
      /\ \A k \in 1..m: both[n + k] = t[k]
    OBVIOUS
<1> HIDE DEF n, m, both
<1>2. /\ \A k \in 1..n: k \in 1..n + m
      /\ \A k \in 1..m: n + k \in 1..n + m
      /\ \A k \in 1..n + m: k \in 1..n \/ (k - n \in 1..m /\ n + (k - n) = k)
    BY <1>1
<1>3. ASSUME Decides(rule, t) PROVE Decides(rule, both)
    <2>1. PICK k \in 1..m: t[k] = rule /\ \A j \in 1..m: t[j].from = rule.from => j <= k
        BY <1>3 DEF Decides, m
    <2>2. n + k \in 1..n + m /\ both[n + k] = rule
        BY <1>1, <1>2, <2>1
    <2>3. ASSUME NEW j \in 1..n + m, both[j].from = rule.from PROVE j <= n + k
        <3>1. CASE j \in 1..n
            BY <1>1, <3>1
        <3>2. CASE j - n \in 1..m /\ n + (j - n) = j
            <4> DEFINE i == j - n
            <4>1. i \in 1..m /\ n + i = j
                BY <3>2
            <4> HIDE DEF i
            <4>2. t[i].from = rule.from
                BY <1>1, <2>3, <4>1
            <4>3. i <= k
                BY <2>1, <4>1, <4>2
            <4>4. QED
                BY <1>1, <4>1, <4>3
        <3>3. QED
            BY <1>2, <3>1, <3>2
    <2>4. QED
        BY <1>1, <2>2, <2>3 DEF Decides
<1>4. ASSUME Decides(rule, s), \A k \in 1..m: t[k].from # rule.from
      PROVE  Decides(rule, both)
    <2>1. PICK k \in 1..n: s[k] = rule /\ \A j \in 1..n: s[j].from = rule.from => j <= k
        BY <1>4 DEF Decides, n
    <2>2. k \in 1..n + m /\ both[k] = rule
        BY <1>1, <1>2, <2>1
    <2>3. ASSUME NEW j \in 1..n + m, both[j].from = rule.from PROVE j <= k
        <3>1. CASE j \in 1..n
            BY <1>1, <2>1, <2>3, <3>1
        <3>2. CASE j - n \in 1..m /\ n + (j - n) = j
            <4> DEFINE i == j - n
            <4>1. i \in 1..m /\ n + i = j
                BY <3>2
            <4> HIDE DEF i
            <4>2. t[i].from = rule.from
                BY <1>1, <2>3, <4>1
            <4>3. QED
                BY <1>4, <4>1, <4>2
        <3>3. QED
            BY <1>2, <3>1, <3>2
    <2>4. QED
        BY <1>1, <2>2, <2>3 DEF Decides
<1>5. ASSUME Decides(rule, both)
      PROVE  \/ Decides(rule, t)
             \/ Decides(rule, s) /\ \A k \in 1..m: t[k].from # rule.from
    <2>1. PICK k \in 1..n + m: /\ both[k] = rule
                               /\ \A j \in 1..n + m: both[j].from = rule.from => j <= k
        BY <1>1, <1>5 DEF Decides
    <2>2. CASE k \in 1..n
        <3>1. ASSUME NEW i \in 1..m PROVE t[i].from # rule.from
            <4>1. n + i \in 1..n + m /\ ~(n + i <= k) /\ both[n + i] = t[i]
                BY <1>1, <1>2, <2>2
            <4>2. QED
                BY <2>1, <4>1
        <3>2. \A j \in 1..n: s[j].from = rule.from => j <= k
            BY <1>1, <1>2, <2>1
        <3>3. s[k] = rule
            BY <1>1, <2>1, <2>2
        <3>4. QED
            BY <2>2, <3>1, <3>2, <3>3 DEF Decides, n
    <2>3. CASE k - n \in 1..m /\ n + (k - n) = k
        <3> DEFINE i == k - n
        <3>1. i \in 1..m /\ n + i = k
            BY <2>3
        <3> HIDE DEF i
        <3>2. t[i] = rule
            BY <1>1, <2>1, <3>1
        <3>3. ASSUME NEW j \in 1..m, t[j].from = rule.from PROVE j <= i
            <4>1. n + j \in 1..n + m /\ both[n + j].from = rule.from
                BY <1>1, <1>2, <3>3
            <4>2. n + j <= k
                BY <2>1, <4>1
            <4>3. QED
                BY <1>1, <3>1, <4>2
        <3>4. QED
            BY <3>1, <3>2, <3>3 DEF Decides, m
    <2>4. QED
        BY <1>2, <2>2, <2>3
<1>6. QED
    BY <1>3, <1>4, <1>5 DEF both, m

\* Merging leaves of every phrase the rule that decides, if it is not disabled.
LEMMA MergeIs ==
    ASSUME NEW layers \in Seq(Seq(SpellingRule))
    PROVE  LET all == FlattenSeq(layers)
               merged == MergeSpellingRules(layers)
           IN  /\ all \in Seq(SpellingRule)
               /\ merged \in Seq(SpellingRule)
               /\ Range(merged) = {rule \in Range(all): Decides(rule, all) /\ ~rule.disabled}
<1> DEFINE all == FlattenSeq(layers)
           places == [k \in DOMAIN all |-> k]
           firsts == {k \in DOMAIN all: k = Min(Names(all, all[k].from))}
           first == Only(places, firsts)
           last == [k \in DOMAIN first |-> LastOf(all, all[first[k]].from)]
<1>1. all \in Seq(SpellingRule)
    <2>1. <<>> \in Seq(SpellingRule)
        OBVIOUS
    <2>2. QED
        BY <2>1, FlattenCons
<1>2. MergeSpellingRules(layers) = Enabled(last)
    BY DEF MergeSpellingRules
<1> HIDE DEF all
<1>3. /\ DOMAIN all = 1..Len(all) /\ Len(all) \in Nat
      /\ \A k \in 1..Len(all): all[k] \in SpellingRule /\ all[k] \in Range(all)
      /\ Range(all) \subseteq SpellingRule
      /\ \A rule \in Range(all): \E k \in 1..Len(all): all[k] = rule
    BY <1>1 DEF Range
<1>4. places \in Seq(1..Len(all)) /\ Range(places) = 1..Len(all)
    BY <1>3 DEF Range
<1>5. first \in Seq(1..Len(all)) /\ Range(first) = firsts
    <2>1. firsts \subseteq 1..Len(all)
        BY <1>3
    <2> HIDE DEF places, firsts
    <2>2. first \in Seq(1..Len(all)) /\ Range(first) = Range(places) \cap firsts
        BY <1>4, OnlyKeeps
    <2> HIDE DEF first
    <2>3. QED
        BY <1>4, <2>1, <2>2
<1>6. ASSUME NEW k \in 1..Len(all)
      PROVE  /\ LastOf(all, all[k].from) \in Range(all)
             /\ LastOf(all, all[k].from).from = all[k].from
             /\ Decides(LastOf(all, all[k].from), all)
    <2>1. Names(all, all[k].from) # {}
        BY <1>3 DEF Names
    <2>2. QED
        BY <1>1, <2>1, LastOfIs
<1>7. ASSUME NEW rule \in Range(all)
      PROVE  \E k \in firsts: all[k].from = rule.from
    <2> DEFINE S == Names(all, rule.from)
               Is(x) == x \in S /\ \A y \in S: x =< y
    <2>1. S \in SUBSET Nat /\ S # {} /\ \A k \in S: k \in DOMAIN all /\ all[k].from = rule.from
        <3> HIDE DEF firsts, first, places, last
        <3>1. PICK k \in 1..Len(all): all[k] = rule
            BY <1>3
        <3>2. k \in S
            BY <1>3, <3>1 DEF Names
        <3>3. S = {j \in 1..Len(all): all[j].from = rule.from}
            BY <1>3 DEF Names
        <3> HIDE DEF S
        <3>4. QED
            BY <1>3, <3>2, <3>3
    <2>2. PICK k \in S: \A j \in S: k <= j
        <3> HIDE DEF S
        <3>1. QED
            BY <2>1, Smallest
    <2>3. Is(k)
        <3> HIDE DEF S
        <3>1. QED
            BY <2>2
    <2>4. Min(S) = CHOOSE x \in S: \A y \in S: x =< y
        BY DEF Min
    <2>5. Is(Min(S))
        <3> HIDE DEF S
        <3>1. QED
            BY <2>3, <2>4
    <2> DEFINE low == Min(S)
    <2>6. low \in DOMAIN all /\ all[low].from = rule.from
        BY <2>1, <2>5
    <2>7. low = Min(Names(all, all[low].from))
        BY <2>6
    <2> HIDE DEF low
    <2>8. low \in firsts
        BY <2>6, <2>7
    <2>9. QED
        BY <2>6, <2>8
<1> HIDE DEF firsts, first, places
<1>8. firsts \subseteq 1..Len(all)
    BY <1>3 DEF firsts
<1>9. /\ last \in Seq(SpellingRule)
      /\ Range(last) = {rule \in Range(all): Decides(rule, all)}
    <2>1. /\ DOMAIN first = 1..Len(first) /\ Len(first) \in Nat
          /\ \A k \in 1..Len(first): first[k] \in 1..Len(all)
          /\ firsts = {first[k]: k \in 1..Len(first)}
        <3>1. /\ DOMAIN first = 1..Len(first) /\ Len(first) \in Nat
              /\ \A k \in 1..Len(first): first[k] \in 1..Len(all)
            BY <1>5
        <3>2. QED
            BY <1>5, <3>1 DEF Range
    <2>2. DOMAIN last = 1..Len(first)
        BY <2>1
    <2>3. \A k \in 1..Len(first): last[k] \in Range(all) /\ Decides(last[k], all)
        BY <1>6, <2>1
    <2>4. last \in Seq(SpellingRule)
        <3>1. last = [k \in 1..Len(first) |-> last[k]]
            BY <2>1
        <3>2. \A k \in 1..Len(first): last[k] \in SpellingRule
            BY <1>3, <2>3
        <3> HIDE DEF last
        <3>3. QED
            BY <2>1, <3>1, <3>2
    <2>5. ASSUME NEW rule \in Range(all), Decides(rule, all) PROVE rule \in Range(last)
        <3>1. PICK k \in firsts: all[k].from = rule.from
            BY <1>7
        <3>2. PICK j \in 1..Len(first): k = first[j]
            BY <2>1
        <3>3. last[j] = LastOf(all, rule.from)
            BY <2>1, <3>1, <3>2
        <3>4. last[j] = rule
            BY <1>1, <2>5, <3>3, DecidesIsLast
        <3> HIDE DEF last
        <3>5. QED
            BY <2>2, <3>4 DEF Range
    <2> HIDE DEF last
    <2>6. ASSUME NEW rule \in Range(last) PROVE rule \in Range(all) /\ Decides(rule, all)
        BY <2>2, <2>3 DEF Range
    <2>7. QED
        BY <2>4, <2>5, <2>6
<1> HIDE DEF last
<1>10. /\ Enabled(last) \in Seq(SpellingRule)
       /\ Range(Enabled(last)) = Range(last) \cap {rule \in Range(last): ~rule.disabled}
    BY <1>9, OnlyKeeps DEF Enabled
<1>11. QED
    BY <1>1, <1>2, <1>9, <1>10 DEF all

LEMMA FlattenTwo ==
    ASSUME NEW X, NEW two \in Seq(Seq(X)), Len(two) = 2, NEW seqs \in Seq(Seq(X))
    PROVE  FlattenSeq(two \o seqs) = (two[1] \o two[2]) \o FlattenSeq(seqs)
<1> DEFINE rest == FlattenSeq(seqs)
           a == two[1]
           b == two[2]
           tail == <<b>> \o seqs
           all == <<a>> \o tail
<1>1. a \in Seq(X) /\ b \in Seq(X)
    <2> DEFINE S == Seq(X)
    <2>1. two \in Seq(S) /\ 1 \in 1..Len(two) /\ 2 \in 1..Len(two)
        OBVIOUS
    <2> HIDE DEF S
    <2>2. \A k \in 1..Len(two): two[k] \in S
        BY <2>1, ElementOfSeq
    <2>3. two[1] \in S /\ two[2] \in S
        BY <2>1, <2>2
    <2>4. QED
        BY <2>3 DEF S
<1> HIDE DEF a, b
<1>2. rest \in Seq(X) /\ FlattenSeq(tail) = b \o rest
    BY <1>1, FlattenCons
<1>3. /\ tail \in Seq(Seq(X)) /\ Len(tail) = Len(seqs) + 1 /\ tail[1] = b
      /\ \A k \in 1..Len(seqs): tail[k + 1] = seqs[k]
    BY <1>1
<1> HIDE DEF rest, tail
<1>4. /\ all \in Seq(Seq(X)) /\ Len(all) = Len(seqs) + 2 /\ all[1] = a
      /\ \A k \in 1..Len(tail): all[k + 1] = tail[k]
    BY <1>1, <1>3
<1> HIDE DEF all
<1>5. /\ two \o seqs \in Seq(Seq(X)) /\ Len(two \o seqs) = Len(seqs) + 2
      /\ (two \o seqs)[1] = a /\ (two \o seqs)[2] = b
      /\ \A k \in 1..Len(seqs): (two \o seqs)[k + 2] = seqs[k]
    <2> DEFINE S == Seq(X)
    <2>1. two \in Seq(S) /\ seqs \in Seq(S)
        OBVIOUS
    <2> HIDE DEF S
    <2> HIDE DEF all, tail
    <2>2. /\ two \o seqs \in Seq(S) /\ Len(two \o seqs) = Len(seqs) + 2
          /\ \A k \in 1..Len(seqs) + 2:
                (two \o seqs)[k] = IF k <= 2 THEN two[k] ELSE seqs[k - 2]
        <3>1. /\ two \o seqs \in Seq(S) /\ Len(two \o seqs) = Len(two) + Len(seqs)
              /\ \A k \in 1..Len(two) + Len(seqs):
                    (two \o seqs)[k] = IF k <= Len(two) THEN two[k] ELSE seqs[k - Len(two)]
            BY <2>1, ConcatProperties
        <3>2. Len(two) = 2 /\ Len(two) + Len(seqs) = Len(seqs) + 2
            BY <2>1
        <3>3. QED
            BY <3>1, <3>2
    <2>3. 1 \in 1..Len(seqs) + 2 /\ 2 \in 1..Len(seqs) + 2 /\ Len(seqs) \in Nat
        BY <2>1
    <2>4. ASSUME NEW k \in 1..Len(seqs) PROVE (two \o seqs)[k + 2] = seqs[k]
        <3>1. k + 2 \in 1..Len(seqs) + 2 /\ ~(k + 2 <= 2) /\ (k + 2) - 2 = k
            BY <2>3
        <3>2. QED
            BY <2>2, <3>1
    <2>5. QED
        BY <2>2, <2>3, <2>4 DEF a, b, S
<1>6. ASSUME NEW k \in 1..Len(seqs) + 2 PROVE all[k] = (two \o seqs)[k]
    <2>1. CASE k = 1
        BY <1>4, <1>5, <2>1
    <2>2. CASE k = 2
        <3>1. 1 \in 1..Len(tail) /\ 1 + 1 = 2
            BY <1>3
        <3>2. QED
            BY <1>3, <1>4, <1>5, <2>2, <3>1
    <2>3. CASE k # 1 /\ k # 2
        <3> DEFINE i == k - 2
        <3>1. i \in 1..Len(seqs) /\ i + 1 \in 1..Len(tail) /\ (i + 1) + 1 = k /\ i + 2 = k
            <4>1. Len(seqs) \in Nat /\ Len(tail) = Len(seqs) + 1
                BY <1>3
            <4> HIDE DEF all, tail
            <4>2. k \in 1..Len(seqs) + 2 /\ ~(k = 1) /\ ~(k = 2)
                BY <2>3
            <4>3. QED
                BY <4>1, <4>2
        <3> HIDE DEF i
        <3>2. all[(i + 1) + 1] = tail[i + 1] /\ tail[i + 1] = seqs[i]
              /\ (two \o seqs)[i + 2] = seqs[i]
            BY <1>3, <1>4, <1>5, <3>1
        <3>3. QED
            BY <3>1, <3>2
    <2>4. QED
        BY <2>1, <2>2, <2>3
<1>7. all = two \o seqs
    <2> DEFINE S == Seq(X)
               t == two \o seqs
    <2>1. all \in Seq(S) /\ t \in Seq(S) /\ Len(all) = Len(t) /\ \A k \in 1..Len(all): all[k] = t[k]
        BY <1>4, <1>5, <1>6
    <2> HIDE DEF S, t
    <2>2. all = t
        BY <2>1, SeqEqual
    <2>3. QED
        BY <2>2 DEF t
<1>8. FlattenSeq(all) = a \o FlattenSeq(tail)
    BY <1>1, <1>3, FlattenCons DEF all
<1>9. a \o (b \o rest) = (a \o b) \o rest
    <2>1. a \in Seq(X) /\ b \in Seq(X) /\ rest \in Seq(X)
        BY <1>1, <1>2
    <2> HIDE DEF all
    <2>2. QED
        BY <2>1, ConcatAssociative, SMTT(30)
<1>10. QED
    BY <1>2, <1>7, <1>8, <1>9 DEF rest, a, b

LEMMA FlattenPair ==
    ASSUME NEW X, NEW two \in Seq(Seq(X)), Len(two) = 2
    PROVE  FlattenSeq(two) = two[1] \o two[2]
<1> DEFINE none == <<>>
           both == two[1] \o two[2]
<1>1. none \in Seq(Seq(X)) /\ two \o none = two
    OBVIOUS
<1>2. both \o none = both
    <2>1. both \in Seq(X)
        OBVIOUS
    <2> HIDE DEF both
    <2>2. QED
        BY <2>1
<1>3. FlattenSeq(none) = none
    BY DEF FlattenSeq
<1> HIDE DEF none
<1>4. FlattenSeq(two \o none) = (two[1] \o two[2]) \o FlattenSeq(none)
    BY <1>1, FlattenTwo
<1>5. QED
    BY <1>1, <1>2, <1>3, <1>4

\* The user's rules replace embedded ones, and a pack's replace both: as if all layers had
\* been laid one after the other.
LEMMA LayersInTurn ==
    ASSUME NEW base \in Seq(SpellingRule), NEW user \in Seq(SpellingRule),
           NEW packs \in Seq(Seq(SpellingRule))
    PROVE  LET all == FlattenSeq(<<base, user>> \o packs)
               merged == MergeSpellingRules(<<MergeSpellingRules(<<base, user>>)>> \o packs)
           IN  /\ all \in Seq(SpellingRule)
               /\ merged \in Seq(SpellingRule)
               /\ Range(merged) = {rule \in Range(all): Decides(rule, all) /\ ~rule.disabled}
<1> DEFINE own == base \o user
           late == FlattenSeq(packs)
           all == FlattenSeq(<<base, user>> \o packs)
           first == MergeSpellingRules(<<base, user>>)
           laid == FlattenSeq(<<first>> \o packs)
           merged == MergeSpellingRules(<<first>> \o packs)
<1>1. late \in Seq(SpellingRule) /\ own \in Seq(SpellingRule) /\ all = own \o late
    <2>1. late \in Seq(SpellingRule)
        BY FlattenCons, Zenon
    <2>2. own \in Seq(SpellingRule)
        OBVIOUS
    <2>3. all = own \o late
        <3> DEFINE two == <<base, user>>
        <3>1. two \in Seq(Seq(SpellingRule)) /\ Len(two) = 2 /\ two[1] = base /\ two[2] = user
            OBVIOUS
        <3> HIDE DEF two
        <3>2. FlattenSeq(two \o packs) = (two[1] \o two[2]) \o FlattenSeq(packs)
            BY <3>1, FlattenTwo
        <3>3. QED
            BY <3>1, <3>2 DEF two
    <2>4. QED
        BY <2>1, <2>2, <2>3
<1>2. /\ first \in Seq(SpellingRule)
      /\ Range(first) = {rule \in Range(own): Decides(rule, own) /\ ~rule.disabled}
    <2> DEFINE two == <<base, user>>
    <2>1. two \in Seq(Seq(SpellingRule)) /\ Len(two) = 2 /\ two[1] = base /\ two[2] = user
        OBVIOUS
    <2> HIDE DEF two
    <2>2. FlattenSeq(two) = own
        BY <2>1, FlattenPair
    <2>3. /\ MergeSpellingRules(two) \in Seq(SpellingRule)
          /\ Range(MergeSpellingRules(two))
               = {rule \in Range(FlattenSeq(two)): Decides(rule, FlattenSeq(two)) /\ ~rule.disabled}
        BY <2>1, MergeIs
    <2>4. QED
        BY <2>2, <2>3 DEF two
<1> HIDE DEF own, late, all, first
<1>3. laid = first \o late
    BY <1>2, FlattenCons DEF late
<1>4. /\ merged \in Seq(SpellingRule)
      /\ Range(merged) = {rule \in Range(laid): Decides(rule, laid) /\ ~rule.disabled}
    <2> DEFINE some == <<first>> \o packs
    <2>1. some \in Seq(Seq(SpellingRule))
        BY <1>2
    <2> HIDE DEF some
    <2>2. /\ MergeSpellingRules(some) \in Seq(SpellingRule)
          /\ Range(MergeSpellingRules(some))
               = {rule \in Range(FlattenSeq(some)): Decides(rule, FlattenSeq(some)) /\ ~rule.disabled}
        BY <2>1, MergeIs
    <2>3. QED
        BY <2>2 DEF some
<1> HIDE DEF laid, merged
<1>5. \A a, b \in Range(first): a.from = b.from => a = b
    BY <1>1, <1>2, OneDecides
<1>6. ASSUME NEW rule
      PROVE  Decides(rule, laid) /\ ~rule.disabled <=> Decides(rule, all) /\ ~rule.disabled
    <2>1. Decides(rule, laid) <=> \/ Decides(rule, late)
                                  \/ /\ Decides(rule, first)
                                     /\ \A k \in 1..Len(late): late[k].from # rule.from
        BY <1>1, <1>2, <1>3, DecidesConcat
    <2>2. Decides(rule, all) <=> \/ Decides(rule, late)
                                 \/ /\ Decides(rule, own)
                                    /\ \A k \in 1..Len(late): late[k].from # rule.from
        BY <1>1, DecidesConcat
    <2>3. Decides(rule, first) <=> rule \in Range(first)
        BY <1>2, <1>5, UniqueDecides
    <2>4. Decides(rule, own) => rule \in Range(own)
        BY <1>1, DecidesIsLast
    <2>5. QED
        BY <1>2, <2>1, <2>2, <2>3, <2>4
<1>7. \A rule: /\ Decides(rule, laid) => rule \in Range(laid)
               /\ Decides(rule, all) => rule \in Range(all)
    <2>1. laid \in Seq(SpellingRule) /\ all \in Seq(SpellingRule)
        BY <1>1, <1>2, <1>3
    <2>2. QED
        BY <2>1, DecidesIsLast
<1>8. all \in Seq(SpellingRule)
    BY <1>1
<1>9. QED
    BY <1>4, <1>6, <1>7, <1>8 DEF all, merged, first

LEMMA RangeOfRules ==
    ASSUME NEW S \in SUBSET RuleLayer, NEW layers \in Seq(S)
    PROVE  [k \in DOMAIN layers |-> layers[k].rules] \in Seq(Seq(SpellingRule))
<1>1. DOMAIN layers = 1..Len(layers) /\ Len(layers) \in Nat
      /\ \A k \in 1..Len(layers): layers[k] \in RuleLayer
    OBVIOUS
<1>2. \A k \in 1..Len(layers): layers[k].rules \in Seq(SpellingRule)
    BY <1>1 DEF RuleLayer
<1>3. QED
    BY <1>1, <1>2

\* The merged rules are those in force.
LEMMA MergedInForce ==
    ASSUME SettingsInv, NEW path, NEW packs \in Seq(STRING)
    PROVE  /\ Merged(path, packs) \in Seq(SpellingRule)
           /\ Range(Merged(path, packs)) = InForce(LayersOf(path, packs))
           /\ \A rule \in Range(Merged(path, packs)): ~rule.disabled
           /\ \A a, b \in Range(Merged(path, packs)): a.from = b.from => a = b
<1> DEFINE readable == Only(packs, DOMAIN scene.packs)
           own == OverridesAt(path)
           base == scene.base
           bottom == [rules |-> base, disabled_tags |-> {}]
           theirs == [k \in DOMAIN readable |-> scene.packs[readable[k]]]
           packRules == [k \in DOMAIN readable |-> scene.packs[readable[k]].rules]
           layers == <<bottom, own>> \o theirs
           laid == [k \in DOMAIN layers |-> layers[k].rules]
           two == <<base, own.rules>>
           all == FlattenSeq(two \o packRules)
           merged == MergeSpellingRules(<<MergeSpellingRules(two)>> \o packRules)
           tags == own.disabled_tags
                       \cup UNION {scene.packs[name].disabled_tags: name \in Range(readable)}
           retired == UNION {layers[k].disabled_tags: k \in DOMAIN layers}
<1>1. readable \in Seq(STRING) /\ Range(readable) = Range(packs) \cap DOMAIN scene.packs
    BY OnlyKeeps
<1>2. LayersOf(path, packs) = layers
    BY DEF LayersOf
<1>3. Merged(path, packs) = DropDisabledTags(merged, tags)
    BY DEF Merged, BuildMergedRules, LoadSpellingRules
<1> HIDE DEF readable
<1>4. base \in Seq(SpellingRule) /\ \A name \in DOMAIN scene.packs: scene.packs[name] \in RuleLayer
    BY ScenesAssumption DEF SettingsInv
<1>5. own \in RuleLayer
    <2>1. \A known \in DOMAIN scene.overrides: scene.overrides[known] \in RuleLayer
        BY ScenesAssumption DEF SettingsInv
    <2>2. [rules |-> <<>>, disabled_tags |-> {}] \in RuleLayer
        BY DEF RuleLayer
    <2>3. QED
        BY <2>1, <2>2 DEF OverridesAt
<1>6. /\ DOMAIN readable = 1..Len(readable) /\ Len(readable) \in Nat
      /\ \A k \in 1..Len(readable): scene.packs[readable[k]] \in RuleLayer
    <2>1. DOMAIN readable = 1..Len(readable) /\ Len(readable) \in Nat
        BY <1>1
    <2>2. \A k \in 1..Len(readable): readable[k] \in DOMAIN scene.packs
        BY <1>1, <2>1 DEF Range
    <2>3. QED
        BY <1>4, <2>1, <2>2
<1> HIDE DEF own, base
<1>7. /\ packRules \in Seq(Seq(SpellingRule)) /\ Len(packRules) = Len(readable)
      /\ \A k \in 1..Len(readable): packRules[k] = scene.packs[readable[k]].rules
    <2>1. \A k \in 1..Len(readable): scene.packs[readable[k]].rules \in Seq(SpellingRule)
        BY <1>6 DEF RuleLayer
    <2>2. QED
        BY <1>6, <2>1
<1>8. /\ theirs \in Seq(RuleLayer) /\ Len(theirs) = Len(readable)
      /\ \A k \in 1..Len(readable): theirs[k] = scene.packs[readable[k]]
    BY <1>6
<1>9. bottom \in RuleLayer /\ bottom.rules = base /\ bottom.disabled_tags = {}
    BY <1>4 DEF RuleLayer
<1>10. /\ two \in Seq(Seq(SpellingRule)) /\ Len(two) = 2 /\ two[1] = base /\ two[2] = own.rules
    BY <1>4, <1>5 DEF RuleLayer
<1>11. /\ layers \in Seq(RuleLayer) /\ Len(layers) = 2 + Len(readable)
       /\ layers[1] = bottom /\ layers[2] = own
       /\ \A k \in 1..Len(readable): layers[2 + k] = scene.packs[readable[k]]
    <2> DEFINE low == <<bottom, own>>
    <2>1. low \in Seq(RuleLayer) /\ Len(low) = 2 /\ low[1] = bottom /\ low[2] = own
        BY <1>5, <1>9
    <2>2. layers = low \o theirs
        OBVIOUS
    <2> HIDE DEF low, theirs, layers, bottom
    <2>3. /\ layers \in Seq(RuleLayer) /\ Len(layers) = Len(low) + Len(theirs)
          /\ \A k \in 1..Len(low) + Len(theirs):
                layers[k] = IF k <= Len(low) THEN low[k] ELSE theirs[k - Len(low)]
        <3>1. low \in Seq(RuleLayer) /\ theirs \in Seq(RuleLayer)
            BY <1>8, <2>1
        <3>2. /\ low \o theirs \in Seq(RuleLayer) /\ Len(low \o theirs) = Len(low) + Len(theirs)
              /\ \A k \in 1..Len(low) + Len(theirs):
                    (low \o theirs)[k] = IF k <= Len(low) THEN low[k] ELSE theirs[k - Len(low)]
            BY <3>1, ConcatProperties
        <3>3. QED
            BY <2>2, <3>2
    <2>4. Len(layers) = 2 + Len(readable)
        BY <1>6, <1>8, <2>1, <2>3
    <2>5. \A k \in 1..2 + Len(readable): layers[k] = IF k <= 2 THEN low[k] ELSE theirs[k - 2]
        BY <1>8, <2>1, <2>3
    <2>6. layers[1] = bottom /\ layers[2] = own
        <3>1. 1 \in 1..2 + Len(readable) /\ 2 \in 1..2 + Len(readable)
            BY <1>6
        <3>2. QED
            BY <2>1, <2>5, <3>1
    <2>7. ASSUME NEW k \in 1..Len(readable) PROVE layers[2 + k] = scene.packs[readable[k]]
        <3>1. 2 + k \in 1..2 + Len(readable) /\ ~(2 + k <= 2) /\ (2 + k) - 2 = k
            BY <1>6
        <3>2. QED
            BY <1>8, <2>5, <3>1
    <2>8. QED
        BY <2>3, <2>4, <2>6, <2>7
<1> HIDE DEF two, packRules, theirs, layers, bottom
<1>12. laid = two \o packRules
    <2> DEFINE S == Seq(SpellingRule)
               t == two \o packRules
    <2>1. two \in Seq(S) /\ packRules \in Seq(S)
        BY <1>7, <1>10
    <2> HIDE DEF S
    <2>2. /\ t \in Seq(S) /\ Len(t) = Len(two) + Len(packRules)
          /\ \A k \in 1..Len(two) + Len(packRules):
                t[k] = IF k <= Len(two) THEN two[k] ELSE packRules[k - Len(two)]
        BY <2>1, ConcatProperties
    <2> HIDE DEF t
    <2>3. laid \in Seq(S)
        <3>1. RuleLayer \in SUBSET RuleLayer
            OBVIOUS
        <3>2. QED
            BY <1>11, <3>1, RangeOfRules DEF S
    <2>4. /\ DOMAIN layers = 1..Len(layers) /\ Len(layers) = Len(t)
          /\ Len(laid) = Len(layers)
        BY <1>6, <1>7, <1>10, <1>11, <2>2
    <2>5. ASSUME NEW k \in 1..Len(layers) PROVE laid[k] = t[k]
        <3>1. laid[k] = layers[k].rules
            BY <2>4
        <3>2. k = 1 \/ k = 2 \/ (k - 2 \in 1..Len(readable) /\ 2 + (k - 2) = k /\ ~(k <= 2))
            BY <1>6, <1>11
        <3>3. t[k] = IF k <= 2 THEN two[k] ELSE packRules[k - 2]
            BY <1>10, <2>2, <2>4
        <3> HIDE DEF laid
        <3>4. CASE k = 1 \/ k = 2
            BY <1>9, <1>10, <1>11, <3>1, <3>3, <3>4
        <3>5. CASE k - 2 \in 1..Len(readable) /\ 2 + (k - 2) = k /\ ~(k <= 2)
            <4> DEFINE i == k - 2
            <4>1. i \in 1..Len(readable) /\ 2 + i = k /\ t[k] = packRules[i]
                BY <3>3, <3>5
            <4> HIDE DEF i
            <4>2. layers[2 + i] = scene.packs[readable[i]]
                BY <1>11, <4>1
            <4>3. QED
                BY <1>7, <3>1, <4>1, <4>2
        <3>6. QED
            BY <3>2, <3>4, <3>5
    <2> HIDE DEF laid
    <2>6. laid = t
        BY <2>2, <2>3, <2>4, <2>5, SeqEqual
    <2>7. QED
        BY <2>6 DEF t
<1>13. retired = tags
    <2>1. DOMAIN layers = 1..2 + Len(readable)
        BY <1>11
    <2>2. ASSUME NEW tag \in retired PROVE tag \in tags
        <3>1. PICK k \in 1..2 + Len(readable): tag \in layers[k].disabled_tags
            BY <2>1
        <3>2. k = 1 \/ k = 2 \/ (k - 2 \in 1..Len(readable) /\ 2 + (k - 2) = k)
            BY <1>6
        <3>3. CASE k = 1 \/ k = 2
            BY <1>9, <1>11, <3>1, <3>3
        <3>4. CASE k - 2 \in 1..Len(readable) /\ 2 + (k - 2) = k
            <4> DEFINE i == k - 2
            <4>1. i \in 1..Len(readable) /\ layers[k] = scene.packs[readable[i]]
                BY <1>11, <3>4
            <4> HIDE DEF i
            <4>2. readable[i] \in Range(readable)
                BY <1>6, <4>1 DEF Range
            <4>3. QED
                BY <3>1, <4>1, <4>2
        <3>5. QED
            BY <3>2, <3>3, <3>4
    <2>3. ASSUME NEW tag \in tags PROVE tag \in retired
        <3>1. CASE tag \in own.disabled_tags
            <4>1. 2 \in 1..2 + Len(readable)
                BY <1>6
            <4>2. QED
                BY <1>11, <2>1, <3>1, <4>1
        <3>2. CASE \E name \in Range(readable): tag \in scene.packs[name].disabled_tags
            <4>1. PICK i \in 1..Len(readable): tag \in scene.packs[readable[i]].disabled_tags
                BY <1>6, <3>2 DEF Range
            <4>2. 2 + i \in 1..2 + Len(readable) /\ layers[2 + i] = scene.packs[readable[i]]
                BY <1>6, <1>11
            <4>3. QED
                BY <2>1, <4>1, <4>2
        <3>3. QED
            BY <2>3, <3>1, <3>2
    <2>4. QED
        BY <2>2, <2>3
<1>14. /\ all \in Seq(SpellingRule) /\ merged \in Seq(SpellingRule)
       /\ Range(merged) = {rule \in Range(all): Decides(rule, all) /\ ~rule.disabled}
    <2>1. own.rules \in Seq(SpellingRule)
        BY <1>5 DEF RuleLayer
    <2> DEFINE user == own.rules
    <2>2. two = <<base, user>>
        BY DEF two
    <2> HIDE DEF user
    <2>3. user \in Seq(SpellingRule)
        BY <2>1 DEF user
    <2>4. QED
        BY <1>4, <1>7, <2>2, <2>3, LayersInTurn
<1> HIDE DEF merged, tags, retired, laid
<1>15. InForce(layers) = {rule \in Range(all): /\ rule = LastOf(all, rule.from)
                                               /\ ~rule.disabled /\ rule.tags \cap tags = {}}
    BY <1>12, <1>13 DEF InForce, retired, laid
<1> HIDE DEF all
<1>16. /\ DropDisabledTags(merged, tags) \in Seq(SpellingRule)
       /\ Range(DropDisabledTags(merged, tags))
            = Range(merged) \cap {rule \in Range(merged): rule.tags \cap tags = {}}
    BY <1>14, OnlyKeeps DEF DropDisabledTags
<1>17. \A rule: Decides(rule, all) <=> rule \in Range(all) /\ rule = LastOf(all, rule.from)
    BY <1>14, DecidesIsLast
<1>18. Range(DropDisabledTags(merged, tags)) = InForce(layers)
    BY <1>14, <1>15, <1>16, <1>17
<1>19. \A rule \in Range(DropDisabledTags(merged, tags)): Decides(rule, all) /\ ~rule.disabled
    BY <1>14, <1>16
<1>20. QED
    BY <1>2, <1>3, <1>14, <1>16, <1>18, <1>19, OneDecides

\* Where every phrase has one rule, and none is disabled, all rules are compiled.
LEMMA AllWin ==
    ASSUME NEW rules \in Seq(SpellingRule), \A rule \in Range(rules): ~rule.disabled,
           \A a, b \in Range(rules): a.from = b.from => a = b
    PROVE  Winners(rules) = Range(rules)
<1>1. Enabled(rules) = rules
    BY OnlyKeeps DEF Enabled
<1>2. ASSUME NEW rule \in Range(rules) PROVE LastOf(rules, rule.from) = rule
    BY UniqueDecides, DecidesIsLast
<1>3. QED
    BY <1>1, <1>2 DEF Winners

\* Whatever the layers say, the last that names a phrase decides about it.
THEOREM LastLayerAlwaysDecides == Spec => []LastLayerDecides
<1>1. SettingsInv => LastLayerDecides
    <2> SUFFICES ASSUME SettingsInv
                 PROVE  LET excluded == ExcludedTypes(LintSettings)
                            rules == InForce(LayersOf(LintOverrides, LintPacks))
                        IN  /\ PrepareRules(LintRules, excluded) =
                                   {rule \in rules: rule.guard = NoGuard /\ rule.type \notin excluded}
                            /\ GuardRules(LintRules, excluded)
                                 = {rule \in rules: rule.guard \in KnownGuards}
        BY DEF LastLayerDecides
    <2>1. LintPacks \in Seq(STRING)
        <3>1. parser.packs \in Seq(STRING) /\ scene.project.packs \in Seq(STRING)
            BY ScenesAssumption DEF SettingsInv, ParserInv, ProjectConfig
        <3>2. QED
            BY <3>1, UnionOfLists DEF LintPacks
    <2>2. /\ LintRules \in Seq(SpellingRule)
          /\ Range(LintRules) = InForce(LayersOf(LintOverrides, LintPacks))
          /\ \A rule \in Range(LintRules): ~rule.disabled
          /\ \A a, b \in Range(LintRules): a.from = b.from => a = b
        BY <2>1, MergedInForce DEF LintRules
    <2>3. Winners(LintRules) = InForce(LayersOf(LintOverrides, LintPacks))
        BY <2>2, AllWin
    <2>4. QED
        BY <2>3 DEF PrepareRules, GuardRules
<1>2. QED
    BY <1>1, SettingsAlways, PTL

----------------------------------------------------------------------------
(* Absorbers *)

\* A phrase begins at a place of a text, and all of it is there.
Begins(phrase, in, i) ==
    Len(phrase) <= Len(in) - i + 1 /\ \A j \in 1..Len(phrase): phrase[j] = in[i + j - 1]

LEMMA PrefixBegins ==
    ASSUME NEW phrase \in Phrase, NEW in \in Phrase, NEW i \in 1..Len(in) + 1
    PROVE  IsPrefix(phrase, SubSeq(in, i, Len(in))) <=> Begins(phrase, in, i)
<1> DEFINE n == Len(in)
           m == Len(phrase)
           rest == SubSeq(in, i, n)
<1>1. n \in Nat /\ m \in Nat /\ i \in Nat /\ phrase \in Seq(STRING) /\ in \in Seq(STRING)
    BY DEF Phrase
<1>2. /\ rest \in Seq(STRING) /\ Len(rest) = n - i + 1
      /\ \A j \in 1..n - i + 1: rest[j] = in[i + j - 1]
    BY <1>1
<1> HIDE DEF rest
<1>3. SubSeq(phrase, 1, m) = phrase
    BY <1>1
<1>4. IsPrefix(phrase, rest) <=> m <= n - i + 1 /\ phrase = SubSeq(rest, 1, m)
    BY <1>2, <1>3 DEF IsPrefix
<1>5. ASSUME m <= n - i + 1
      PROVE  phrase = SubSeq(rest, 1, m) <=> \A j \in 1..m: phrase[j] = in[i + j - 1]
    <2> DEFINE top == SubSeq(rest, 1, m)
    <2>1. top \in Seq(STRING) /\ Len(top) = m /\ \A j \in 1..m: top[j] = rest[j]
        BY <1>1, <1>2, <1>5
    <2>2. \A j \in 1..m: rest[j] = in[i + j - 1]
        BY <1>1, <1>2, <1>5
    <2> HIDE DEF top
    <2>3. phrase = top <=> \A j \in 1..m: phrase[j] = top[j]
        <3>1. (\A j \in 1..Len(phrase): phrase[j] = top[j]) => phrase = top
            BY <1>1, <2>1, SeqEqual
        <3>2. QED
            BY <3>1
    <2>4. QED
        BY <2>1, <2>2, <2>3 DEF top
<1>6. QED
    BY <1>4, <1>5 DEF Begins, rest

\* The end of a form is the beginning of a phrase.
LEMMA PrefixEnds ==
    ASSUME NEW form \in Phrase, NEW phrase \in Phrase, NEW i \in 1..Len(form)
    PROVE  /\ SubSeq(form, i, Len(form)) \in Phrase
           /\ Len(SubSeq(form, i, Len(form))) = Len(form) - i + 1
           /\ (/\ Len(form) - i + 1 <= Len(phrase)
               /\ \A j \in 1..Len(form) - i + 1: form[i + j - 1] = phrase[j])
                 => IsPrefix(SubSeq(form, i, Len(form)), phrase)
<1> DEFINE end == SubSeq(form, i, Len(form))
           m == Len(form) - i + 1
<1>1. form \in Seq(STRING) /\ phrase \in Seq(STRING) /\ i \in Nat /\ Len(form) \in Nat /\ m \in Nat
      /\ Len(phrase) \in Nat
    BY DEF Phrase
<1>2. end \in Seq(STRING) /\ Len(end) = m /\ \A j \in 1..m: end[j] = form[i + j - 1]
    BY <1>1
<1> HIDE DEF end
<1>3. ASSUME m <= Len(phrase), \A j \in 1..m: form[i + j - 1] = phrase[j]
      PROVE  IsPrefix(end, phrase)
    <2> DEFINE top == SubSeq(phrase, 1, m)
    <2>1. SubSeq(end, 1, Len(end)) = end
        BY <1>2
    <2>2. top \in Seq(STRING) /\ Len(top) = m /\ \A j \in 1..m: top[j] = phrase[j]
        BY <1>1, <1>3
    <2> HIDE DEF top, m
    <2>3. \A j \in 1..Len(end): end[j] = top[j]
        BY <1>2, <1>3, <2>2
    <2>4. end = top
        BY <1>2, <2>2, <2>3, SeqEqual
    <2>5. QED
        BY <1>2, <1>3, <2>1, <2>4 DEF IsPrefix, top
<1>4. QED
    BY <1>2, <1>3 DEF end, Phrase

\* The scan as a function of the place it has come to.
States(in, patterns) ==
    [next: Nat, hits: SUBSET [at: 1..Len(in), rule: patterns]]

LEMMA ScanSolves ==
    ASSUME NEW in \in Phrase, NEW patterns, \A p \in patterns: p.from \in Phrase
    PROVE  \E g \in [0..Len(in) -> States(in, patterns)]:
                /\ FindIter(in, patterns) = g[Len(in)].hits
                /\ g[0] = [next |-> 1, hits |-> {}]
                /\ \A i \in 1..Len(in):
                      g[i] = Advance(g[i - 1], i, LongestAt(in, i, patterns))
<1> DEFINE n == Len(in)
           S == States(in, patterns)
           start == [next |-> 1, hits |-> {}]
           longest(i) == LongestAt(in, i, patterns)
           step == [p \in S \X (1..n) |-> Advance(p[1], p[2], longest(p[2]))]
           Is(f) == f = [i \in 0..n |-> IF i = 0 THEN start ELSE Advance(f[i - 1], i, longest(i))]
<1>1. n \in Nat /\ start \in S
    BY DEF Phrase, States
<1>2. ASSUME NEW state \in S, NEW i \in 1..n PROVE Advance(state, i, longest(i)) \in S
    <2>1. longest(i) \subseteq patterns
        BY DEF LongestAt
    <2> DEFINE p == CHOOSE p \in longest(i): TRUE
    <2>2. CASE longest(i) # {}
        <3>1. p \in patterns
            <4>1. p \in longest(i)
                <5> HIDE DEF longest
                <5>1. QED
                    BY <2>2
            <4> HIDE DEF longest, p
            <4>2. QED
                BY <2>1, <4>1
        <3> DEFINE after == [next |-> i + Len(p.from), hits |-> state.hits \cup {[at |-> i, rule |-> p]}]
        <3>2. Advance(state, i, longest(i)) = state \/ Advance(state, i, longest(i)) = after
            <4> HIDE DEF longest
            <4>1. QED
                BY DEF Advance
        <3> HIDE DEF p, longest
        <3>3. Len(p.from) \in Nat
            BY <3>1 DEF Phrase
        <3> HIDE DEF n
        <3>4. after \in S
            <4>1. i \in Nat /\ i + Len(p.from) \in Nat
                BY <1>1, <3>3
            <4>2. [at |-> i, rule |-> p] \in [at: 1..Len(in), rule: patterns]
                BY <3>1 DEF n
            <4>3. state.hits \subseteq [at: 1..Len(in), rule: patterns]
                BY DEF States
            <4>4. QED
                BY <4>1, <4>2, <4>3 DEF States
        <3>5. QED
            BY <3>2, <3>4
    <2>3. CASE longest(i) = {}
        <3> HIDE DEF longest, S
        <3>1. QED
            BY <2>3 DEF Advance
    <2>4. QED
        BY <2>2, <2>3
<1> HIDE DEF longest
<1>3. step \in [S \X (1..n) -> S]
    <2> HIDE DEF S, n
    <2>1. QED
        BY <1>2
<1>4. PICK g \in [0..n -> S]: Solves(g, n, start, step)
    <2> HIDE DEF step, n, S, start
    <2>1. QED
        BY <1>1, <1>3, SolutionExists
<1> HIDE DEF S, start
<1>5. \A i \in 1..n: i - 1 \in 0..n /\ step[<<g[i - 1], i>>] = Advance(g[i - 1], i, longest(i))
    <2>1. ASSUME NEW i \in 1..n PROVE i - 1 \in 0..n /\ <<g[i - 1], i>> \in S \X (1..n)
        <3> HIDE DEF n, step
        <3>1. i - 1 \in 0..n
            BY <1>1
        <3>2. QED
            BY <1>4, <3>1
    <2> HIDE DEF n
    <2>2. QED
        BY <2>1
<1> HIDE DEF step
<1>6. Is(g)
    <2> HIDE DEF n
    <2>1. \A i \in 0..n: g[i] = IF i = 0 THEN start ELSE step[<<g[i - 1], i>>]
        BY <1>4 DEF Solves
    <2>2. \A i \in 0..n: i # 0 => i \in 1..n
        BY <1>1
    <2>3. g = [i \in 0..n |-> g[i]]
        OBVIOUS
    <2>4. QED
        BY <1>5, <2>1, <2>2, <2>3
<1> DEFINE state == CHOOSE f: Is(f)
<1>7. Is(state)
    <2> HIDE DEF Is
    <2>1. QED
        BY <1>6
<1>8. FindIter(in, patterns) = state[n].hits
    BY DEF FindIter, longest, start
<1> HIDE DEF state, n
<1>9. \A i \in 0..n: state[i] = g[i]
    <2> DEFINE P == {m \in Nat: m <= n => state[m] = g[m]}
    <2>0. 0 \in 0..n
        BY <1>1
    <2>1. 0 \in P
        BY <1>6, <1>7, <2>0
    <2>2. ASSUME NEW m \in P PROVE m + 1 \in P
        <3>1. SUFFICES ASSUME m + 1 <= n PROVE state[m + 1] = g[m + 1]
            OBVIOUS
        <3>2. m \in Nat /\ (m <= n => state[m] = g[m])
            OBVIOUS
        <3> HIDE DEF P
        <3> DEFINE i == m + 1
        <3>3. i \in 0..n /\ i # 0 /\ i - 1 = m /\ state[m] = g[m]
            BY <1>1, <3>1, <3>2
        <3> HIDE DEF i
        <3>4. state[i] = Advance(state[i - 1], i, longest(i)) /\ g[i] = Advance(g[i - 1], i, longest(i))
            BY <1>6, <1>7, <3>3
        <3>5. state[i] = g[i]
            BY <3>3, <3>4
        <3>6. QED
            BY <3>5 DEF i
    <2>3. P \in SUBSET Nat
        OBVIOUS
    <2> HIDE DEF P
    <2>4. P = Nat
        BY <2>1, <2>2, <2>3, NatInduct
    <2>5. QED
        BY <1>1, <2>4 DEF P
<1>10. FindIter(in, patterns) = g[n].hits
    BY <1>1, <1>8, <1>9
<1>11. g[0] = start /\ \A i \in 1..n: g[i] = Advance(g[i - 1], i, longest(i))
    <2>1. 0 \in 0..n /\ \A i \in 1..n: i \in 0..n /\ i # 0
        BY <1>1
    <2>2. QED
        BY <1>6, <2>1
<1>12. QED
    BY <1>4, <1>10, <1>11 DEF S, start, n, longest

AbsorberOf(form, rule, compiled) ==
    /\ rule \in compiled /\ form \in LongerForms(rule)
    /\ \A other \in compiled: form # other.from /\ (other = rule \/ ~Shadows(form, other.from))

LEMMA AbsorberForms ==
    ASSUME NEW compiled \in SUBSET SpellingRule
    PROVE  /\ \A p \in Absorbers(compiled): p.type = "absorber"
           /\ \A p \in Absorbers(compiled):
                 p.from \in Phrase /\ \E rule \in compiled: AbsorberOf(p.from, rule, compiled)
<1>1. ASSUME NEW rule \in compiled, NEW form \in LongerForms(rule) PROVE form \in Phrase
    BY DEF LongerForms, Forms, SpellingRule
<1>2. QED
    BY <1>1 DEF Absorbers, AbsorberOf

\* What the rules match where a form of one of them stands is that rule, within the form.
LEMMA InsideForm ==
    ASSUME NEW compiled \in SUBSET SpellingRule, NEW in \in Phrase,
           NEW form \in Phrase, NEW rule, AbsorberOf(form, rule, compiled),
           ~EndsInPartOfItself(rule),
           NEW a \in 1..Len(in), Begins(form, in, a),
           NEW p \in Nat, a <= p, p < a + Len(form),
           NEW q \in compiled, Begins(q.from, in, p), p = a => Len(q.from) <= Len(form)
    PROVE  /\ p + Len(q.from) <= a + Len(form)
           /\ CoveredByForm(in, [at |-> p, rule |-> q])
<1> DEFINE i == p - a + 1
           phrase == q.from
<1>1. /\ phrase \in Phrase /\ Len(phrase) \in Nat /\ Len(form) \in Nat /\ Len(in) \in Nat
      /\ a \in Nat
    BY DEF SpellingRule, Phrase
<1>2. i \in 1..Len(form) /\ p = a + i - 1
    BY <1>1
<1> HIDE DEF phrase, i
<1>3. /\ Len(form) <= Len(in) - a + 1
      /\ \A j \in 1..Len(form): form[j] = in[a + j - 1]
    BY DEF Begins
<1>4. \A j \in 1..Len(phrase): phrase[j] = in[p + j - 1]
    BY DEF Begins, phrase
<1>5. \A j \in 1..Len(form) - i + 1: form[i + j - 1] = in[p + j - 1]
    <2>1. ASSUME NEW j \in 1..Len(form) - i + 1 PROVE form[i + j - 1] = in[p + j - 1]
        <3> DEFINE l == i + j - 1
        <3>1. l \in 1..Len(form) /\ a + l - 1 = p + j - 1
            BY <1>1, <1>2
        <3> HIDE DEF l
        <3>2. form[l] = in[p + j - 1]
            BY <1>3, <3>1
        <3>3. QED
            BY <3>2 DEF l
    <2>2. QED
        BY <2>1
<1>6. /\ rule \in compiled /\ form \in LongerForms(rule)
      /\ q = rule \/ ~Shadows(form, phrase)
    BY DEF AbsorberOf, phrase
<1>7. CASE Len(phrase) <= Len(form) - i + 1
    <2>1. Begins(phrase, form, i)
        <3>1. ASSUME NEW j \in 1..Len(phrase) PROVE phrase[j] = form[i + j - 1]
            <4>1. j \in 1..Len(form) - i + 1
                BY <1>1, <1>2, <1>7
            <4>2. QED
                BY <1>4, <1>5, <4>1
        <3>2. QED
            BY <1>7, <3>1 DEF Begins
    <2>2. IsPrefix(phrase, SubSeq(form, i, Len(form)))
        <3>1. i \in 1..Len(form) + 1
            BY <1>1, <1>2
        <3>2. QED
            BY <1>1, <2>1, <3>1, PrefixBegins
    <2>3. q = rule
        <3>1. i \in DOMAIN form
            BY <1>2 DEF Phrase
        <3>2. Holds(form, phrase)
            BY <2>2, <3>1 DEF Holds
        <3>3. QED
            BY <1>6, <3>2 DEF Shadows
    <2>4. IsPrefix(form, SubSeq(in, a, Len(in)))
        <3>1. a \in 1..Len(in) + 1
            BY <1>1
        <3>2. QED
            BY <3>1, PrefixBegins
    <2>5. CoveredByForm(in, [at |-> p, rule |-> q])
        <3> DEFINE k == i - 1
        <3>1. k \in 0..Len(in) /\ k + 1 = i /\ p > k /\ p - k = a
            BY <1>1, <1>2, <1>3
        <3> HIDE DEF k
        <3>2. QED
            BY <1>6, <2>2, <2>3, <2>4, <3>1 DEF CoveredByForm, LongerForms, phrase
    <2>6. p + Len(phrase) <= a + Len(form)
        BY <1>1, <1>2, <1>7
    <2>7. QED
        BY <2>5, <2>6 DEF phrase
<1>8. CASE ~(Len(phrase) <= Len(form) - i + 1)
    <2> DEFINE end == SubSeq(form, i, Len(form))
    <2>1. p # a
        <3>1. p = a => i = 1
            BY <1>1 DEF i
        <3>2. p = a => Len(phrase) <= Len(form)
            BY DEF phrase
        <3>3. QED
            BY <1>1, <1>8, <3>1, <3>2
    <2>2. i \in 2..Len(form)
        BY <1>1, <1>2, <2>1
    <2>3. \A j \in 1..Len(form) - i + 1: form[i + j - 1] = phrase[j]
        <3>1. ASSUME NEW j \in 1..Len(form) - i + 1 PROVE form[i + j - 1] = phrase[j]
            <4>1. j \in 1..Len(phrase)
                BY <1>1, <1>2, <1>8
            <4>2. QED
                BY <1>4, <1>5, <4>1
        <3>2. QED
            BY <3>1
    <2>4. Len(form) - i + 1 <= Len(phrase)
        BY <1>1, <1>2, <1>8
    <2>5. IsPrefix(end, phrase) /\ Len(end) = Len(form) - i + 1
        BY <1>1, <1>2, <2>3, <2>4, PrefixEnds
    <2>6. end # phrase
        BY <1>8, <2>5, <1>1, <1>2
    <2>7. q = rule
        BY <1>6, <2>2, <2>5 DEF Shadows
    <2> HIDE DEF end
    <2>8. EndsInPartOfItself(rule)
        BY <1>6, <2>2, <2>5, <2>6, <2>7 DEF EndsInPartOfItself, phrase, end
    <2>9. QED
        BY <2>8
<1>9. QED
    BY <1>7, <1>8

LEMMA SamePhrase ==
    ASSUME NEW in \in Phrase, NEW i \in 1..Len(in), NEW s \in Phrase, NEW t \in Phrase,
           Begins(s, in, i), Begins(t, in, i), Len(s) = Len(t)
    PROVE  s = t
<1>1. s \in Seq(STRING) /\ t \in Seq(STRING) /\ \A j \in 1..Len(s): s[j] = t[j]
    BY DEF Phrase, Begins
<1>2. QED
    BY <1>1, SeqEqual

LEMMA LongestBegins ==
    ASSUME NEW in \in Phrase, NEW i \in 1..Len(in), NEW patterns,
           \A p \in patterns: p.from \in Phrase
    PROVE  LongestAt(in, i, patterns) =
               {p \in patterns: /\ Begins(p.from, in, i)
                                /\ \A other \in patterns:
                                      Begins(other.from, in, i) => Len(other.from) <= Len(p.from)}
<1>1. i \in 1..Len(in) + 1
    BY DEF Phrase
<1>2. \A p \in patterns: IsPrefix(p.from, SubSeq(in, i, Len(in))) <=> Begins(p.from, in, i)
    BY <1>1, PrefixBegins
<1>3. QED
    BY <1>2 DEF LongestAt

\* Some phrase is the longest of those that begin at a place, if any does.
LEMMA SomeLongest ==
    ASSUME NEW in \in Phrase, NEW i \in 1..Len(in), NEW patterns,
           \A p \in patterns: p.from \in Phrase,
           NEW q \in patterns, Begins(q.from, in, i)
    PROVE  LongestAt(in, i, patterns) # {}
<1> DEFINE n == Len(in)
           S == {k \in Nat: \E p \in patterns: Begins(p.from, in, i) /\ k = n - Len(p.from)}
<1>1. n \in Nat /\ i \in Nat /\ \A p \in patterns: Len(p.from) \in Nat
    BY DEF Phrase
<1>2. \A p \in patterns: Begins(p.from, in, i) => n - Len(p.from) \in Nat
    BY <1>1 DEF Begins
<1>3. S \in SUBSET Nat /\ S # {}
    BY <1>2
<1>4. PICK low \in S: \A j \in S: low <= j
    <2> HIDE DEF S
    <2>1. QED
        BY <1>3, Smallest
<1>5. PICK p \in patterns: Begins(p.from, in, i) /\ low = n - Len(p.from)
    BY <1>4
<1>6. ASSUME NEW other \in patterns, Begins(other.from, in, i)
      PROVE  Len(other.from) <= Len(p.from)
    <2>1. n - Len(other.from) \in S
        BY <1>2, <1>6
    <2> HIDE DEF S
    <2>2. low <= n - Len(other.from)
        BY <1>4, <2>1
    <2>3. QED
        BY <1>1, <1>5, <2>2
<1>7. QED
    BY <1>5, <1>6, LongestBegins

\* The two scans are at the same place, or both may go on, or the one with the absorbers
\* stands in a form of a rule and the other is no farther.
InStep(one, two, in, compiled, i) ==
    \/ one.next = two.next
    \/ one.next <= i + 1 /\ two.next <= i + 1
    \/ \E rule \in compiled, form \in Phrase, a \in 1..i:
          /\ AbsorberOf(form, rule, compiled) /\ Begins(form, in, a)
          /\ one.next <= two.next /\ two.next = a + Len(form)

LEMMA AdvanceIs ==
    ASSUME NEW state, NEW i, NEW longest
    PROVE  \/ /\ i < state.next \/ longest = {}
              /\ Advance(state, i, longest) = state
           \/ /\ ~(i < state.next)
              /\ \E p \in longest:
                    Advance(state, i, longest) =
                        [next |-> i + Len(p.from),
                         hits |-> state.hits \cup {[at |-> i, rule |-> p]}]
<1>1. CASE i < state.next \/ longest = {}
    BY <1>1 DEF Advance
<1>2. CASE ~(i < state.next) /\ longest # {}
    <2> DEFINE p == CHOOSE p \in longest: TRUE
    <2>1. Advance(state, i, longest) = [next |-> i + Len(p.from),
                                        hits |-> state.hits \cup {[at |-> i, rule |-> p]}]
        BY <1>2 DEF Advance
    <2>2. p \in longest
        BY <1>2
    <2>3. QED
        BY <1>2, <2>1, <2>2
<1>3. QED
    BY <1>1, <1>2

LEMMA NotReported ==
    ASSUME NEW in, NEW hits, NEW kinds, NEW hit,
           hit.rule.type \notin kinds \/ CoveredByForm(in, hit)
    PROVE  Reported(in, hits \cup {hit}, kinds) = Reported(in, hits, kinds)
BY DEF Reported

LEMMA StepInStep ==
    ASSUME NEW compiled \in SUBSET SpellingRule,
           \A a, b \in compiled: a.from = b.from => a = b,
           \A rule \in compiled: ~EndsInPartOfItself(rule),
           NEW kinds, "absorber" \notin kinds,
           NEW in \in Phrase, NEW i \in 1..Len(in),
           NEW one \in States(in, compiled),
           NEW two \in States(in, compiled \cup Absorbers(compiled)),
           InStep(one, two, in, compiled, i - 1),
           Reported(in, one.hits, kinds) = Reported(in, two.hits, kinds)
    PROVE  LET next1 == Advance(one, i, LongestAt(in, i, compiled))
               next2 == Advance(two, i, LongestAt(in, i, compiled \cup Absorbers(compiled)))
           IN  /\ InStep(next1, next2, in, compiled, i)
               /\ Reported(in, next1.hits, kinds) = Reported(in, next2.hits, kinds)
<1> DEFINE all == compiled \cup Absorbers(compiled)
           longest1 == LongestAt(in, i, compiled)
           longest2 == LongestAt(in, i, all)
           next1 == Advance(one, i, longest1)
           next2 == Advance(two, i, longest2)
<1>1. /\ \A p \in Absorbers(compiled): p.type = "absorber"
      /\ \A p \in Absorbers(compiled):
            p.from \in Phrase /\ \E rule \in compiled: AbsorberOf(p.from, rule, compiled)
    BY AbsorberForms
<1>2. \A p \in all: p.from \in Phrase
    BY <1>1 DEF SpellingRule
<1>3. /\ longest1 = {p \in compiled: /\ Begins(p.from, in, i)
                                     /\ \A other \in compiled:
                                           Begins(other.from, in, i) => Len(other.from) <= Len(p.from)}
      /\ longest2 = {p \in all: /\ Begins(p.from, in, i)
                                /\ \A other \in all:
                                      Begins(other.from, in, i) => Len(other.from) <= Len(p.from)}
    <2>1. \A p \in compiled: p.from \in Phrase
        BY <1>2
    <2> HIDE DEF all
    <2>2. QED
        BY <1>2, <2>1, LongestBegins
<1>4. /\ one.next \in Nat /\ two.next \in Nat /\ i \in Nat /\ (i - 1) + 1 = i /\ Len(in) \in Nat
      /\ \A p \in all: Len(p.from) \in Nat
    BY <1>2 DEF States, Phrase
<1>5. compiled \subseteq all /\ \A p \in all: p \in compiled \/ p \in Absorbers(compiled)
    OBVIOUS
<1> HIDE DEF all
<1>6. (\E q \in compiled: Begins(q.from, in, i)) => longest2 # {}
    BY <1>2, <1>5, SomeLongest
<1> HIDE DEF longest1, longest2
<1>7. \/ /\ i < one.next \/ longest1 = {}
         /\ next1 = one
      \/ /\ ~(i < one.next)
         /\ \E p \in longest1:
               next1 = [next |-> i + Len(p.from), hits |-> one.hits \cup {[at |-> i, rule |-> p]}]
    BY AdvanceIs
<1>8. \/ /\ i < two.next \/ longest2 = {}
         /\ next2 = two
      \/ /\ ~(i < two.next)
         /\ \E p \in longest2:
               next2 = [next |-> i + Len(p.from), hits |-> two.hits \cup {[at |-> i, rule |-> p]}]
    BY AdvanceIs
<1>9. longest1 # {} => longest2 # {}
    BY <1>3, <1>6
<1> HIDE DEF next1, next2
<1> SUFFICES /\ InStep(next1, next2, in, compiled, i)
             /\ Reported(in, next1.hits, kinds) = Reported(in, next2.hits, kinds)
    BY DEF next1, next2, longest1, longest2, all
\* The scan with the absorbers goes on here.
<1>10. CASE i >= two.next
    <2>1. ~(i < two.next) /\ ~(i < one.next)
        BY <1>4, <1>10 DEF InStep
    <2>2. CASE longest2 = {}
        <3>1. next1 = one /\ next2 = two
            BY <1>7, <1>8, <1>9, <2>2
        <3>2. one.next <= i + 1 /\ two.next <= i + 1
            BY <1>4, <2>1
        <3>3. QED
            BY <3>1, <3>2 DEF InStep
    <2>3. CASE longest2 # {}
        <3>1. PICK p \in longest2:
                  next2 = [next |-> i + Len(p.from), hits |-> two.hits \cup {[at |-> i, rule |-> p]}]
            BY <1>8, <2>1, <2>3
        <3>2. /\ p \in all /\ Begins(p.from, in, i) /\ p.from \in Phrase
              /\ \A other \in all: Begins(other.from, in, i) => Len(other.from) <= Len(p.from)
            BY <1>2, <1>3
        <3>3. CASE p \in compiled
            <4>1. p \in longest1
                BY <1>3, <1>5, <3>2, <3>3
            <4>2. ASSUME NEW q \in longest1 PROVE q = p
                <5>1. q \in compiled /\ Begins(q.from, in, i) /\ q.from \in Phrase
                    BY <1>2, <1>3, <1>5
                <5>2. Len(p.from) <= Len(q.from) /\ Len(q.from) <= Len(p.from)
                    BY <1>3, <1>5, <3>2, <3>3, <5>1
                <5>3. Len(p.from) = Len(q.from)
                    BY <1>4, <1>5, <3>2, <5>1, <5>2
                <5>4. p.from = q.from
                    BY <3>2, <5>1, <5>3, SamePhrase
                <5>5. QED
                    BY <3>3, <5>1, <5>4
            <4>3. next1 = [next |-> i + Len(p.from), hits |-> one.hits \cup {[at |-> i, rule |-> p]}]
                BY <1>7, <2>1, <4>1, <4>2
            <4>4. next1.next = next2.next
                BY <3>1, <4>3
            <4>5. Reported(in, next1.hits, kinds) = Reported(in, next2.hits, kinds)
                <5> DEFINE hit == [at |-> i, rule |-> p]
                <5>1. next1.hits = one.hits \cup {hit} /\ next2.hits = two.hits \cup {hit}
                    BY <3>1, <4>3
                <5> HIDE DEF hit
                <5>2. \A hits: Reported(in, hits \cup {hit}, kinds)
                                  = Reported(in, hits, kinds) \cup Reported(in, {hit}, kinds)
                    BY DEF Reported
                <5>3. QED
                    BY <5>1, <5>2
            <4>6. QED
                BY <4>4, <4>5 DEF InStep
        <3>4. CASE p \in Absorbers(compiled)
            <4> DEFINE form == p.from
            <4>1. PICK rule \in compiled: AbsorberOf(form, rule, compiled)
                BY <1>1, <3>4
            <4>2. Reported(in, next2.hits, kinds) = Reported(in, two.hits, kinds)
                <5> DEFINE hit == [at |-> i, rule |-> p]
                <5>1. hit.rule.type = "absorber" /\ next2.hits = two.hits \cup {hit}
                    BY <1>1, <3>1, <3>4
                <5> HIDE DEF hit
                <5>2. hit.rule.type \notin kinds
                    BY <5>1
                <5>3. Reported(in, two.hits \cup {hit}, kinds) = Reported(in, two.hits, kinds)
                    BY <5>2, NotReported
                <5>4. QED
                    BY <5>1, <5>3
            <4>3. next2.next = i + Len(form)
                BY <3>1
            <4>4. form \in Phrase /\ Begins(form, in, i) /\ Len(form) \in Nat
                BY <1>4, <3>2
            <4>5. next1.next <= next2.next /\ Reported(in, next1.hits, kinds) = Reported(in, one.hits, kinds)
                <5>1. CASE next1 = one
                    BY <1>4, <2>1, <4>3, <4>4, <5>1
                <5>2. CASE next1 # one
                    <6>1. PICK q \in longest1:
                              next1 = [next |-> i + Len(q.from),
                                       hits |-> one.hits \cup {[at |-> i, rule |-> q]}]
                        BY <1>7, <5>2
                    <6>2. q \in compiled /\ Begins(q.from, in, i) /\ Len(q.from) <= Len(form)
                        BY <1>3, <1>5, <3>2
                    <6>3. i < i + Len(form) /\ i <= i
                        <7>1. form # <<>>
                            BY <4>1 DEF AbsorberOf, LongerForms, Forms, Holds
                        <7>2. Len(form) # 0
                            BY <4>4, <7>1 DEF Phrase
                        <7>3. QED
                            BY <1>4, <4>4, <7>2
                    <6> HIDE DEF form
                    <6>4. /\ i + Len(q.from) <= i + Len(form)
                          /\ CoveredByForm(in, [at |-> i, rule |-> q])
                        BY <1>4, <4>1, <4>4, <6>2, <6>3, InsideForm
                    <6>5. Reported(in, next1.hits, kinds) = Reported(in, one.hits, kinds)
                        BY <6>1, <6>4, NotReported
                    <6>6. QED
                        BY <4>3, <6>1, <6>4, <6>5
                <5>3. QED
                    BY <5>1, <5>2
            <4> HIDE DEF form
            <4>6. InStep(next1, next2, in, compiled, i)
                <5>1. i \in 1..i
                    BY <1>4
                <5>2. QED
                    BY <4>1, <4>3, <4>4, <4>5, <5>1 DEF InStep
            <4>7. QED
                BY <4>2, <4>5, <4>6
        <3>5. QED
            BY <1>5, <3>2, <3>3, <3>4
    <2>4. QED
        BY <2>2, <2>3
\* It is still within the last match.
<1>11. CASE i < two.next
    <2>1. next2 = two
        BY <1>8, <1>11
    <2>2. CASE one.next = two.next
        BY <1>7, <1>11, <2>1, <2>2 DEF InStep
    <2>3. CASE \E rule \in compiled, form \in Phrase, a \in 1..i - 1:
                  /\ AbsorberOf(form, rule, compiled) /\ Begins(form, in, a)
                  /\ one.next <= two.next /\ two.next = a + Len(form)
        <3>1. PICK rule \in compiled, form \in Phrase, a \in 1..i - 1:
                  /\ AbsorberOf(form, rule, compiled) /\ Begins(form, in, a)
                  /\ one.next <= two.next /\ two.next = a + Len(form)
            BY <2>3
        <3>2. a \in 1..Len(in) /\ a \in 1..i /\ a <= i /\ a # i /\ i < a + Len(form)
            BY <1>4, <1>11, <3>1
        <3>3. /\ next1.next <= two.next
              /\ Reported(in, next1.hits, kinds) = Reported(in, one.hits, kinds)
            <4>1. CASE next1 = one
                BY <3>1, <4>1
            <4>2. CASE next1 # one
                <5>1. PICK q \in longest1:
                          next1 = [next |-> i + Len(q.from),
                                   hits |-> one.hits \cup {[at |-> i, rule |-> q]}]
                    BY <1>7, <4>2
                <5>2. q \in compiled /\ Begins(q.from, in, i)
                    BY <1>3
                <5>3. /\ i + Len(q.from) <= a + Len(form)
                      /\ CoveredByForm(in, [at |-> i, rule |-> q])
                    <6>1. /\ ~EndsInPartOfItself(rule) /\ AbsorberOf(form, rule, compiled)
                          /\ Begins(form, in, a)
                          /\ i = a => Len(q.from) <= Len(form)
                        BY <3>1, <3>2
                    <6>2. i \in Nat /\ a <= i /\ i < a + Len(form) /\ a \in 1..Len(in)
                        BY <1>4, <3>2
                    <6>3. QED
                        BY <5>2, <6>1, <6>2, InsideForm
                <5>4. Reported(in, next1.hits, kinds) = Reported(in, one.hits, kinds)
                    BY <5>1, <5>3, NotReported
                <5>5. QED
                    BY <3>1, <5>1, <5>3, <5>4
            <4>3. QED
                BY <4>1, <4>2
        <3>4. InStep(next1, next2, in, compiled, i)
            BY <2>1, <3>1, <3>2, <3>3 DEF InStep
        <3>5. QED
            BY <2>1, <3>3, <3>4
    <2>4. QED
        BY <1>4, <1>11, <2>2, <2>3 DEF InStep
<1>12. QED
    BY <1>4, <1>10, <1>11

\* Of the rules of a scanner that has one for each phrase, none is lost to the absorbers,
\* and nothing is reported that would not be without them.
LEMMA AbsorbersSaveWork ==
    ASSUME NEW compiled \in SUBSET SpellingRule,
           \A a, b \in compiled: a.from = b.from => a = b,
           \A rule \in compiled: ~EndsInPartOfItself(rule),
           NEW kinds, "absorber" \notin kinds, NEW in \in Phrase
    PROVE  Reported(in, FindIter(in, compiled \cup Absorbers(compiled)), kinds)
             = Reported(in, FindIter(in, compiled), kinds)
<1> DEFINE n == Len(in)
           all == compiled \cup Absorbers(compiled)
<1>1. n \in Nat /\ (\A p \in compiled: p.from \in Phrase) /\ (\A p \in all: p.from \in Phrase)
    BY AbsorberForms DEF SpellingRule, Phrase
<1>2. PICK one \in [0..n -> States(in, compiled)]:
          /\ FindIter(in, compiled) = one[n].hits
          /\ one[0] = [next |-> 1, hits |-> {}]
          /\ \A i \in 1..n: one[i] = Advance(one[i - 1], i, LongestAt(in, i, compiled))
    BY <1>1, ScanSolves
<1>3. PICK two \in [0..n -> States(in, all)]:
          /\ FindIter(in, all) = two[n].hits
          /\ two[0] = [next |-> 1, hits |-> {}]
          /\ \A i \in 1..n: two[i] = Advance(two[i - 1], i, LongestAt(in, i, all))
    <2> HIDE DEF all
    <2>1. QED
        BY <1>1, ScanSolves
<1> DEFINE Alike(i) == /\ InStep(one[i], two[i], in, compiled, i)
                       /\ Reported(in, one[i].hits, kinds) = Reported(in, two[i].hits, kinds)
           P == {m \in Nat: m <= n => Alike(m)}
<1> HIDE DEF n
<1>4. 0 \in P
    <2>1. one[0] = two[0]
        BY <1>2, <1>3
    <2>2. Alike(0)
        BY <2>1 DEF InStep
    <2>3. QED
        BY <2>2
<1>5. ASSUME NEW m \in P PROVE m + 1 \in P
    <2>1. SUFFICES ASSUME m + 1 <= n PROVE Alike(m + 1)
        OBVIOUS
    <2>2. m \in Nat /\ (m <= n => Alike(m))
        OBVIOUS
    <2> HIDE DEF P, Alike
    <2>3. Alike(m)
        BY <1>1, <2>1, <2>2
    <2> DEFINE i == m + 1
    <2>4. i \in 1..n /\ i - 1 = m /\ m \in 0..n
        BY <1>1, <2>1, <2>2
    <2> HIDE DEF i
    <2> DEFINE before1 == one[m]
               before2 == two[m]
    <2>5. before1 \in States(in, compiled) /\ before2 \in States(in, all)
        <3> HIDE DEF all
        <3>1. QED
            BY <1>2, <1>3, <2>4
    <2>6. /\ InStep(before1, before2, in, compiled, i - 1)
          /\ Reported(in, before1.hits, kinds) = Reported(in, before2.hits, kinds)
        BY <2>3, <2>4 DEF Alike
    <2>7. /\ one[i] = Advance(before1, i, LongestAt(in, i, compiled))
          /\ two[i] = Advance(before2, i, LongestAt(in, i, all))
        <3> HIDE DEF all
        <3>1. QED
            BY <1>2, <1>3, <2>4
    <2> HIDE DEF before1, before2
    <2>8. LET next1 == Advance(before1, i, LongestAt(in, i, compiled))
              next2 == Advance(before2, i, LongestAt(in, i, compiled \cup Absorbers(compiled)))
          IN  /\ InStep(next1, next2, in, compiled, i)
              /\ Reported(in, next1.hits, kinds) = Reported(in, next2.hits, kinds)
        BY <2>4, <2>5, <2>6, StepInStep DEF n
    <2>9. Alike(i)
        BY <2>7, <2>8 DEF Alike
    <2>10. QED
        BY <2>9 DEF i
<1>6. P \in SUBSET Nat
    OBVIOUS
<1> HIDE DEF P, Alike
<1>7. P = Nat
    BY <1>4, <1>5, <1>6, NatInduct
<1>8. Alike(n)
    <2>1. n \in P /\ n <= n
        BY <1>1, <1>7
    <2>2. QED
        BY <2>1 DEF P
<1>9. QED
    BY <1>2, <1>3, <1>8 DEF Alike

\* For any rules, any settings and any text: the absorbers hide no rule's match.
THEOREM AbsorbersNeverHide == Spec => []AbsorbersHideNothing
<1>1. SettingsInv => AbsorbersHideNothing
    <2> DEFINE compiled == PrepareRules(LintRules, ExcludedTypes(LintSettings))
               kinds == LexicalKinds(LintSettings)
    <2> SUFFICES ASSUME SettingsInv, \A rule \in compiled: ~EndsInPartOfItself(rule)
                 PROVE  LintReport.phrases = Reported(text, FindIter(text, compiled), kinds)
        BY DEF AbsorbersHideNothing
    <2>1. LintPacks \in Seq(STRING)
        <3>1. parser.packs \in Seq(STRING) /\ scene.project.packs \in Seq(STRING)
            BY ScenesAssumption DEF SettingsInv, ParserInv, ProjectConfig
        <3>2. QED
            BY <3>1, UnionOfLists DEF LintPacks
    <2>2. /\ LintRules \in Seq(SpellingRule)
          /\ \A rule \in Range(LintRules): ~rule.disabled
          /\ \A a, b \in Range(LintRules): a.from = b.from => a = b
        BY <2>1, MergedInForce DEF LintRules
    <2>3. Winners(LintRules) = Range(LintRules) /\ Range(LintRules) \subseteq SpellingRule
        BY <2>2, AllWin DEF Range
    <2>4. compiled \in SUBSET SpellingRule /\ \A a, b \in compiled: a.from = b.from => a = b
        BY <2>2, <2>3 DEF PrepareRules
    <2>5. "absorber" \notin kinds
        <3>1. "absorber" \notin RuleType
            BY DEF RuleType, SpellingFamily
        <3> HIDE DEF compiled
        <3>2. kinds \subseteq RuleType
            BY DEF LexicalKinds
        <3>3. QED
            BY <3>1, <3>2
    <2>6. text \in Phrase
        BY DEF SettingsInv
    <2>7. LintReport.phrases = ScanSpelling(text, compiled, LintSettings)
        BY DEF LintReport, Report
    <2>8. LintReport.phrases = Reported(text, FindIter(text, compiled \cup Absorbers(compiled)), kinds)
        BY <2>7 DEF ScanSpelling
    <2> HIDE DEF compiled, kinds
    <2>9. QED
        BY <2>4, <2>5, <2>6, <2>8, AbsorbersSaveWork
<1>2. QED
    BY <1>1, SettingsAlways, PTL
===============================================================================
