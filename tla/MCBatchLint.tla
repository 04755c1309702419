----------------------------- MODULE MCBatchLint -----------------------------
EXTENDS BatchLint, TLC

MCProcesses == {"p", "q", "r"}
Entry(severity, ambiguous, fix) == [severity |-> severity, ambiguous |-> ambiguous, fix |-> fix]
\* The repair of "chain" is itself the word of a rule.
MCRules == ("typo" :> Entry("error", FALSE, "fine") @@ "chain" :> Entry("warning", FALSE, "stuck")
            @@ "stuck" :> Entry("error", FALSE, NoFix) @@ "vague" :> Entry("warning", TRUE, NoFix))
MCExtension == ("docs" :> "" @@ "vendor" :> "" @@ ".git" :> "" @@ "a.md" :> "md" @@ "b.md" :> "md"
                @@ "c.txt" :> "txt" @@ "d.rs" :> "rs" @@ "docs.md" :> "md")
MCHiddenNames == {".git"}

Doc(words) == [readable |-> TRUE, simplified |-> FALSE, words |-> words]
Simplified(words) == [Doc(words) EXCEPT !.simplified = TRUE]
Unreadable == [Doc(<<>>) EXCEPT !.readable = FALSE]

A == <<"docs", "a.md">>
B == <<"docs", "b.md">>
Plain == [args |-> {<<"docs">>}, stdin |-> Doc(<<>>), exclude |-> {}, diff |-> {NotGiven}, fix |-> FALSE,
          dry_run |-> FALSE, format |-> "human", max_errors |-> 0, max_warnings |-> {},
          ignored |-> {}, rejected |-> {}, baseline |-> FALSE, update_baseline |-> FALSE]
Fix == [Plain EXCEPT !.fix = TRUE]
Update == [Plain EXCEPT !.baseline = TRUE, !.update_baseline = TRUE]
Known == [Plain EXCEPT !.baseline = TRUE, !.max_warnings = {0}]

Tree == (<<"docs">> :> "dir" @@ A :> "file" @@ B :> "file")
Scene(a, b, first, second) ==
    [tree |-> Tree, documents |-> (A :> a @@ B :> b), drafts |-> {}, max_edits |-> 0,
     commands |-> ("p" :> first @@ "q" :> second @@ "r" :> {})]

Texts == {Doc(<<"typo", "vague">>), Doc(<<"chain", "fine">>), Simplified(<<"stuck", "fine">>),
          Doc(<<"vague", Clue>>)}

\* Two runs over two files, with everything in between.
PairScenes ==
    {Scene(a, b, {[first EXCEPT !.rejected = rejected]}, {[second EXCEPT !.rejected = rejected]}):
        a \in Texts, b \in {Doc(<<"fine", "stuck">>), Unreadable}, first \in {Fix, Update},
        second \in {Plain, Update, Known, [Fix EXCEPT !.dry_run = TRUE], Fix},
        rejected \in {{}, {"chain", "stuck"}}}
\* A gate on warnings: a run that fixes, then one that looks.
GateScenes ==
    {Scene(a, Doc(<<"fine">>), {[Fix EXCEPT !.max_warnings = {0}]}, {[Plain EXCEPT !.max_warnings = {0}]}): a \in Texts}
\* Two runs that adopt at the same time, and one that looks.
AdoptScenes ==
    {[Scene(Doc(<<"typo">>), Doc(<<"stuck">>), {Update}, {[Known EXCEPT !.args = {A}]}) EXCEPT
        !.commands["r"] = {[Update EXCEPT !.args = {B}]}]}
\* The user edits one file while it is linted.
EditScenes ==
    {[Scene(Doc(<<"typo">>), Doc(<<"chain", "stuck">>), {first}, {second}) EXCEPT
        !.drafts = {Doc(<<"stuck">>), Simplified(<<"typo">>)}, !.max_edits = 1]:
        first \in {[Fix EXCEPT !.args = {A}], [Update EXCEPT !.args = {A}]},
        second \in {[Fix EXCEPT !.args = {A}, !.dry_run = TRUE], [Known EXCEPT !.args = {A}],
                    [Update EXCEPT !.args = {A}]}}
\* What is found, and what is passed over.
Wide == (<<"docs">> :> "dir" @@ A :> "file" @@ <<"docs", "d.rs">> :> "file"
         @@ <<"docs", "docs.md">> :> "link" @@ <<"docs", ".git">> :> "dir" @@ <<"docs", ".git", "c.txt">> :> "file"
         @@ <<"docs", "vendor">> :> "dir" @@ <<"docs", "vendor", "b.md">> :> "file" @@ <<"c.txt">> :> "file")
WideScenes ==
    {[Scene(Doc(<<>>), Doc(<<>>), {}, {}) EXCEPT
        !.tree = [Wide EXCEPT ![<<"docs", "vendor">>] = kind, ![<<"docs", "vendor", "b.md">>] = entry],
        !.documents = [path \in {path \in DOMAIN Wide: Wide[path] = "file"} |-> Doc(<<"typo">>)],
        !.commands = [p \in MCProcesses |->
            IF p # "p" THEN {}
            ELSE {[Plain EXCEPT !.args = args, !.exclude = exclude, !.diff = diff, !.max_errors = 1, !.stdin = Simplified(<<"chain">>)]:
                    args \in {{<<"docs">>}, {<<"docs">>, <<"c.txt">>}, {<<"docs", "d.rs">>}, {Stdin}, {Stdin, A},
                              {<<"gone.md">>}, {<<"docs", "docs.md">>}},
                    exclude \in {{}, {[kind |-> "component", of |-> "vendor"]}, {[kind |-> "extension", of |-> "txt"]}},
                    diff \in {{NotGiven}, {}, {<<"docs", "vendor", "b.md">>, <<"gone.md">>}}}]]:
        kind \in {"dir", "locked", "link"}, entry \in {"file", "unlisted"}}
StdinScenes ==
    {[Scene(Doc(<<>>), Doc(<<>>), {[Fix EXCEPT !.args = {Stdin}, !.stdin = text, !.format = format, !.dry_run = dry]}, {})
        EXCEPT !.drafts = {}]:
        text \in Texts, format \in {"human", "json"}, dry \in BOOLEAN}

MCScenes == PairScenes \cup GateScenes \cup AdoptScenes \cup EditScenes \cup WideScenes \cup StdinScenes
=============================================================================
