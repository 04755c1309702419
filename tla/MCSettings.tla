----------------------------- MODULE MCSettings -----------------------------
EXTENDS Settings

Rule(from, type) == [from |-> from, to |-> {}, exceptions |-> {}, type |-> type,
                     disabled |-> FALSE, guard |-> NoGuard, tags |-> {}]
Layer(rules, tags) == [rules |-> rules, disabled_tags |-> tags]

Empty == [base |-> <<>>, overrides |-> <<>>, packs |-> <<>>, project |-> NoProject,
          pieces |-> {}, max_text |-> 0, first |-> {"lint"}, tokens |-> {"f"}, max_tokens |-> 2,
          arguments |-> {NoArguments}]

\* Words that can be taken for one another.
LineScenes ==
    {[Empty EXCEPT !.tokens = {"f", "low", "high", "--detect-ai", "--off", "rhythm", "--profile"},
                   !.max_tokens = 5],
     [Empty EXCEPT !.tokens = {"f", "--detect-style", "--format", "json", "low", "--fix"},
                   !.max_tokens = 6],
     [Empty EXCEPT !.first = Subcommands \cup {"--pack", "--overrides", "--verbose", "--help"},
                   !.tokens = Subcommands \cup {"f", "--pack", "record", "--found", "clear", "install", "--help",
                               "hook-callback", "--content-type", "md", "export", "--verify"},
                   !.max_tokens = 4]}

\* Every family turned off, on the line or in the file or by the tool.
FamilyScenes ==
    {[Empty EXCEPT !.tokens = {"f", "--off", "--rhythm", "--detect-ai", family},
                   !.max_tokens = 5,
                   !.project = [NoProject EXCEPT !.profile = "strict", !.off = off],
                   !.arguments = {[NoArguments EXCEPT !.off = <<family>>, !.detect_ai = ai,
                                       !.detect_style = style, !.rhythm = rhythm]:
                                    ai \in {NotGiven, "on", "off"}, style \in BOOLEAN,
                                    rhythm \in BOOLEAN}]:
        family \in RuleFamily, off \in {<<>>, <<"translationese">>}}

\* Layers over the same two phrases.
Versions(phrase) ==
    {Rule(phrase, "cross_strait"), [Rule(phrase, "ai_filler") EXCEPT !.guard = "attribution"],
     [Rule(phrase, "typo") EXCEPT !.disabled = TRUE], [Rule(phrase, "translationese") EXCEPT !.tags = {"t"}]}
Layers == {Layer(<<>>, {"t"})} \cup
    {Layer(<<rule>>, {}): rule \in Versions(<<"a">>)} \cup
    {Layer(<<[Rule(<<"a", "b">>, "variant") EXCEPT !.tags = {"t"}], Rule(<<"a">>, "confusable")>>, {"t"})}
LayerScenes ==
    {[Empty EXCEPT !.base = <<rule, Rule(<<"a", "b">>, "translationese")>>,
                   !.overrides = ("overrides.json" :> own @@ "project.json" :> Layer(<<>>, {})),
                   !.packs = ("p" :> p @@ "q" :> q),
                   !.project = [NoProject EXCEPT !.packs = packs, !.off = off],
                   !.pieces = {<<"a", "b">>}, !.max_text = 2,
                   !.first = {"--pack", "lint"}, !.tokens = {"lint", "p", "f"}, !.max_tokens = 4]:
        rule \in Versions(<<"a">>), own \in Layers, p \in Layers, q \in {Layer(<<>>, {"t"}), Layer(<<Rule(<<"a">>, "typo")>>, {})},
        packs \in {<<"q", "p", "missing">>}, off \in {<<"ai">>}}

\* A project with overrides of its own, and phrases within phrases.
ProjectScenes ==
    {[Empty EXCEPT !.base = <<Rule(<<"a">>, "typo"), Rule(<<"a", "b">>, "translationese")>>,
                   !.overrides = ("overrides.json" :> Layer(<<>>, {}) @@ "project.json" :> own),
                   !.project = [NoProject EXCEPT !.overrides = "project.json", !.off = off],
                   !.pieces = {<<"a">>, <<"b">>}, !.max_text = 2]: own \in Layers, off \in {<<>>, <<"translationese">>}}

\* Phrases that overlap the exceptions of one another.
Phrases == {<<"b">>, <<"a", "b">>, <<"b", "c">>, <<"c", "a">>}
MatchScenes ==
    {[Empty EXCEPT !.base = <<[Rule(from, "cross_strait") EXCEPT !.exceptions = {exception}],
                              Rule(other, "typo")>>,
                   !.pieces = {<<"a">>, <<"b">>, <<"c">>}, !.max_text = 5]:
        from \in Phrases, other \in Phrases,
        exception \in {<<"a", "b">>, <<"b", "c">>, <<"a", "b", "c">>, <<"c", "b">>, <<"b", "c", "a">>,
                       <<"c", "c", "a">>}}

MCScenes == LineScenes \cup FamilyScenes \cup LayerScenes \cup ProjectScenes \cup MatchScenes
=============================================================================
