----------------------------- MODULE CommandLine -----------------------------
(* argv in, a typed command line out (cli/args.rs). The parser reads one token at a    *)
(* time; "at" says what the next one is taken for.                                     *)
EXTENDS Sequences, SequencesExt, Profiles

NotGiven == "not given"

Subcommands == {"lint", "convert", "setup", "pack", "tm", "cache", "hook", "internal"}
HelpTopics == {"lint", "convert", "setup", "pack", "tm", "cache"}
Quiet == {"--verbose", "--debug"}  \* read elsewhere, accepted anywhere

\* Options of the whole program; a path or a name follows.
GlobalOptions == {"--overrides", "--db", "--suppressions", "--packs-dir", "--config", "--pack"}
StoreOf(option) == IF option = "--db" THEN "--overrides" ELSE option

\* Lint flags that stand alone, that may be followed by a level, that take a value.
BareFlags == {"--relaxed", "--exempt-blockquotes", "--consistency", "--dry-run", "--explain",
              "--update-baseline", "--detect-translationese", "--rhythm", "--telemetry", "--verify"}
FixFlags == {"--fix", "--fix=lexical_safe", "--fix=orthographic", "--fix=lexical_contextual"}
DetectFlags == {"--detect-ai", "--detect-style"}
LevelWords == {"low", "medium", "high"}
LevelOf(word) == CASE word = "low" -> 50 [] word = "high" -> 150 [] OTHER -> 100

ContentTypes == {"plain", "markdown", "markdown-scan-code", "yaml"}
Numbers == {"0", "1", "2"}
\* The values an option refuses everything but; the others take any word.
Accepted(option) ==
    CASE option = "--format" -> {"json", "human", "sarif", "compact", "tabular"}
      [] option \in {"--max-errors", "--max-warnings"} -> Numbers
      [] option = "--spacing" -> SpacingPolicy
      [] option = "--off" -> RuleFamily
      [] option = "--content-type" -> ContentTypes \cup {"md", "yml"}
      [] option = "--translationese-domain" -> Domain
      [] option = "--document-genre" -> AttributionGenre
      [] option = "--register" -> RegisterMode
FreeOptions == {"--profile", "--exclude", "--baseline", "--diff-from"}
LintOptions == FreeOptions \cup
    {"--format", "--max-errors", "--max-warnings", "--spacing", "--off", "--content-type",
     "--translationese-domain", "--document-genre", "--register"}
Spelled(value) == CASE value = "md" -> "markdown" [] value = "yml" -> "yaml" [] OTHER -> value

\* What the options that may be repeated collect; of the others the last one counts.
Lists == {"--off", "--exclude"}

LintArgs == [files |-> <<>>, flags |-> {}, fix |-> NotGiven, level |-> 100,
             options |-> [option \in LintOptions |->
                            IF option \in Lists THEN <<>> ELSE NotGiven]]

----------------------------------------------------------------------------

\* "option" is what a value is awaited for.
Start == [at |-> "top", option |-> NotGiven, command |-> "server",
          stores |-> [option \in GlobalOptions \ {"--pack", "--db"} |-> NotGiven],
          packs |-> <<>>, lint |-> LintArgs, convert |-> <<>>]

Fail(parser) == [parser EXCEPT !.at = "failed"]
Goto(parser, at) == [parser EXCEPT !.at = at]
Await(parser, at, option) == [parser EXCEPT !.at = at, !.option = option]

\* A second subcommand is refused rather than one of the two winning.
Claim(parser, name) ==
    IF parser.command = "server"
    THEN Goto([parser EXCEPT !.command = name], name)
    ELSE Fail(parser)

Top(parser, token) ==
    CASE token \in GlobalOptions -> Await(parser, "global value", StoreOf(token))
      [] token \in Subcommands -> Claim(parser, token)
      [] token \in Quiet -> parser
      [] OTHER -> Fail(parser)

GlobalValue(parser, token) ==
    IF parser.option = "--pack"
    THEN Goto([parser EXCEPT !.packs = Append(@, token)], "top")
    ELSE Goto([parser EXCEPT !.stores[parser.option] = token], "top")

\* Everything after lint that is not a flag is a file, global options included.
Lint(parser, token) ==
    CASE token \in BareFlags -> [parser EXCEPT !.lint.flags = @ \cup {token}]
      [] token \in Quiet -> parser
      [] token \in LintOptions -> Await(parser, "lint value", token)
      [] token \in FixFlags -> [parser EXCEPT !.lint.fix = token]
      [] token = "--fix=other" -> Fail(parser)
      [] token \in DetectFlags -> Goto([parser EXCEPT !.lint.flags = @ \cup {token}], "level")
      [] OTHER -> [parser EXCEPT !.lint.files = Append(@, token)]

LintValue(parser, token) ==
    LET option == parser.option
    IN  IF option \notin FreeOptions /\ token \notin Accepted(option) THEN Fail(parser)
        ELSE Goto([parser EXCEPT !.lint.options[option] =
                       IF option \in Lists THEN Append(@, token) ELSE Spelled(token)], "lint")

\* Without a level of its own the flag leaves that of an earlier one alone.
Level(parser, token) ==
    IF token \in LevelWords
    THEN Goto([parser EXCEPT !.lint.level = LevelOf(token)], "lint")
    ELSE Lint(Goto(parser, "lint"), token)

\* The words that begin with a dash.
Dashed == GlobalOptions \cup Quiet \cup BareFlags \cup FixFlags \cup DetectFlags \cup LintOptions

Convert(parser, token) ==
    CASE token = "--verify" -> parser
      [] token = "--content-type" -> Await(parser, "convert value", token)
      [] token \in Dashed -> Fail(parser)
      [] OTHER -> [parser EXCEPT !.convert = Append(@, token)]
ConvertValue(parser, token) ==
    IF token \in Accepted("--content-type") THEN Goto(parser, "convert") ELSE Fail(parser)

\* tm and pack take a word and, after some words, one argument; the rest of the line is
\* the program's again.
Word(parser, token, taking) == Goto(parser, IF token \in taking THEN "argument" ELSE "top")
Tm(parser, token) ==
    IF token = "record" THEN Goto(parser, "tm record")
    ELSE Word(parser, token, {"export", "import"})
TmFields == {"--found", "--suggested", "--chose", "--context"}
TmRecord(parser, token) ==
    CASE token \in TmFields -> Goto(parser, "tm value")
      [] token \in Dashed -> Fail(parser)
      [] OTHER -> Top(Goto(parser, "top"), token)

\* cache, hook and internal know one word, and nothing may follow it.
OnlyWord == [cache |-> "clear", hook |-> "install", internal |-> "hook-callback"]

Step(parser, token) ==
    CASE parser.at = "top" -> Top(parser, token)
      [] parser.at = "global value" -> GlobalValue(parser, token)
      [] parser.at = "lint" -> Lint(parser, token)
      [] parser.at = "lint value" -> LintValue(parser, token)
      [] parser.at = "level" -> Level(parser, token)
      [] parser.at = "convert" -> Convert(parser, token)
      [] parser.at = "convert value" -> ConvertValue(parser, token)
      [] parser.at \in {"setup", "argument"} -> Goto(parser, "top")
      [] parser.at = "tm" -> Tm(parser, token)
      [] parser.at = "tm record" -> TmRecord(parser, token)
      [] parser.at = "tm value" -> Goto(parser, "tm record")
      [] parser.at = "pack" -> Word(parser, token, {"import", "export", "validate"})
      [] parser.at \in DOMAIN OnlyWord ->
            IF token = OnlyWord[parser.at] THEN Goto(parser, "end") ELSE Fail(parser)
      [] OTHER -> Fail(parser)

\* The line ends: a word may be missing, and lint has demands of its own.
Complete(parser) ==
    /\ parser.at \in {"top", "lint", "level", "convert", "tm record", "end"}
    /\ parser.command = "lint" =>
        /\ parser.lint.files # <<>> \/ parser.lint.options["--diff-from"] # NotGiven
        /\ "--detect-style" \in parser.lint.flags => parser.lint.options["--format"] = "json"

\* Help is asked for anywhere, as a value too, and named by the first topic anywhere.
AsksForHelp(tokens) == \E k \in DOMAIN tokens: tokens[k] \in {"--help", "-h"}
HelpTopic(tokens) ==
    LET topics == SelectSeq(tokens, LAMBDA token: token \in HelpTopics)
    IN  IF topics = <<>> THEN "global" ELSE topics[1]

ParseArgs(tokens, parser) ==
    CASE AsksForHelp(tokens) -> "help"
      [] ~Complete(parser) -> "failed"
      [] OTHER -> parser.command
=============================================================================
