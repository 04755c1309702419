--------------------------- MODULE MCCheckPipeline ---------------------------
(***************************************************************************)
(* CheckPipeline on all texts of three words that contain a term a store   *)
(* may name, and on the constructs around each word, with at most two of   *)
(* the five stores filled (at most one when the findings are verified).    *)
(***************************************************************************)
EXTENDS CheckPipeline

Words == {"latin", "calque", "code", "homonym", "filler", "identity", "cue", "veto"}
MCTexts == {t \in [1..3 -> Words]: \E p \in 1..3: t[p] \in {"calque", "homonym"}}
            \cup {<<w, "front", x, "perform">>: w, x \in Words \cup {"perform"}}

Store(name) == IF name = "proper" THEN {{}, {"homonym"}} ELSE {{}, {"calque"}, {"homonym"}}
Filled(set) == {name \in {"tm", "ignored", "suppressed", "banned", "proper"}: set[name] # {}}
AtMost(n) ==
    {set \in [tm: Store("tm"), ignored: Store("ignored"), suppressed: Store("suppressed"),
              banned: Store("banned"), proper: Store("proper"), stance: {"roc_centric", "neutral"}]:
        Cardinality(Filled(set)) <= (IF set.stance = "neutral" THEN 1 ELSE n)}
MCSettings == AtMost(2)
MCVerified == {set \in AtMost(1): set.stance = "roc_centric"}
=============================================================================
