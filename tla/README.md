# zhtw-mcp: TLA+ models and proofs

zhtw-mcp checks Chinese text for usage that is not Taiwan's: as an MCP server on
stdio, as a batch linter, and as a hook that runs after an agent has written a
file. Two kinds of mistakes are hard to reach with tests here. Around the text
there is a session that must end without losing a response, one lock held across
questions to the client, five JSON files that several processes rewrite, and a
user who edits while a file is linted. Inside the text there are a dozen passes
that each read what another has written, move each other's offsets, and are
switched on and off by a command line, a file and a tool's arguments. Both are
modelled; what a rule says about language is not.

Paths are relative to the repository (`src/mcp/transport.rs`). `PROJECT.json` maps
each definition to its lines and lists components, runs, mutants, hazards,
findings and theorems.

## 1. Inventory

| Component | State it keeps | Operations | What is hard | What makes it correct |
|---|---|---|---|---|
| stdio session: `mcp/transport.rs`, `main.rs`, the RMCP service loop | `Lifecycle` (initialized, shutdown, write_failed, in_flight, outbound), writer queue, drain deadline, exit hook | receive, gate, send, writer task, terminate, drain, close | Five tasks interleave; a read is a future that is dropped and restarted; a dead stdout, end of input, `shutdown` and `exit` in any order | Every accepted request is answered, or the session says why not; exit has one owner; the process ends |
| Line framing: `mcp/transport.rs` | bytes of the current line, bytes discarded | read_line, drain_until_newline | A read dropped anywhere, lines over the limit, bytes that are not UTF-8 | The lines answered are the lines sent; memory is bounded |
| Tool calls, sampling bridge, judgment cache: `mcp/sdk.rs`, `mcp/sampling.rs`, `rules/judgment_cache.rs` | the server's mutex; budget, answers, statistics; entries, `dirty`, `judged`, file | call_tool, cancel, panic, the sampling loop, flush_if_judged, flush_before_exit | The mutex is held across questions to the client; caps that overlap; answers late, missing or cached; signals and restarts | A call ends; a panic costs one call; the budget holds; no issue is uncounted; what a finished call judged is on disk |
| Override store, translation memory: `rules/store.rs` | entries, index, file, lock file | open, with_overrides and its callers; record, import, clear, should_suppress | Several processes; a missing or damaged file; caps and rollback keep two structures in step | No edit is lost; the index answers what the list says |
| Scan cache: `cache.rs`, `cli/lint.rs` | entries, `dirty`, file, lock file | check_fast, check_content, put, flush | A timestamp stands for a content; editors and other runs | The result reported is the file's; runs keep each other's work |
| Hook callback: `cli/hook.rs` | cache of content, verdict and fingerprint | callback, persist | Callbacks race on the cache and with edits of the files a verdict depends on; a process may be stopped before it prints | A problem is reported, and once |
| Check pipelines, Tier 2, glossary: `mcp/tools.rs`, `cli/lint.rs`, `cli/hook.rs`, `engine/disambig.rs`, `rules/glossary.rs` | issues of one text | the stages, fix, second scan, restoring of verdicts | The front ends order the same stages differently; what was learned has to survive a fix | Verdicts and exclusions survive; nothing inside code is reported |
| Fixer: `fixer.rs` | none between calls | verdict, forward pass, remapping, convergence | Offsets after a fix, overlaps, constructs over code | Only what was vetted is rewritten, whole |
| Text passes, convert: `engine/scan/{punctuation,quotes,spacing,ellipsis,repetition,acronym}.rs`, `main.rs` | none between calls; convert's rounds | the passes, up to three rounds | One pass rewrites what another reads | Pairs stay pairs; quotations survive |
| Command line, profiles, settings: `cli/args.rs`, `rules/ruleset.rs`, `config.rs` | what was given | parse, resolve, subtract families | Three front ends put the same settings together by hand | Off takes only its own; the hook speaks for lint |
| Rule merging and compilation: `rules/store.rs`, `engine/scan/rule_ir.rs` | the merged rules, the compiled patterns | merge, compile, match | Layers, disabled rules, tags, exceptions that take text | The last layer decides; an exception silences only its own rule |
| Batch linter: `cli/lint.rs`, `cli/discover.rs`, `baseline.rs` | targets, totals, baseline | discover, scan, fix, report, update the baseline | A batch goes on after a failure; other runs and an editor in between | The exit status speaks for every file; reports are true of the disk |
| Excluded ranges, markup: `engine/{excluded,html_lang,suppression,markdown}.rs` | the stack of open elements | collect, merge, look up | Overlapping notations, whichever is met first decides | Masked is what the document marks, and what looks like an address |
| Normalization, line index: `engine/{normalize,lineindex}.rs` | the map of offsets | compose, map back, line and column | Several characters become one | A finding is reported where it was written |
| Scanner and overlap resolution: `engine/scan/mod.rs` | none between calls | passes, boost, overlaps, order | Order is relied on by every consumer | Sorted, one issue per place |
| Suppression store, packs | terms and set; read-only packs | add, remove, clear, load | As the translation memory | As above |
| Log forwarding: `trace.rs`, `mcp/sdk.rs` | one channel for all requests | enable_logs, queue_logs, flush_logs | Requests that overlap, with and without the opt-in | Lines go to a request that asked |
| Detectors, scores, text services, translation client, setup, audit, build, extension and wasm | none, or one-shot writes | | | Linguistic, or outside the program |

Interaction: `main` opens the stores, builds a `Server` behind one mutex and
serves it over the transport. RMCP hands requests to `sdk.rs`; `tools/call` takes
the mutex on the blocking pool and sends its questions back through the same
session. Handlers and transport share `Lifecycle`. The stores and caches are also
opened by the batch linter, the hook and the `overrides`, `tm` and `cache`
subcommands, which share nothing with the server but the files. All three front
ends call the same scanner with settings they derive on their own, and pass its
issues through the same stages in orders of their own.

## 2. Modules

| Module | Models | Correspondence |
|---|---|---|
| `Transport` | the session from `receive` to the end of the process | Fields of `Lifecycle` are variables of the same name. Each await point ends an action: reading one line and acting on it (`ForwardRequest`, `ReadExit`...), a drain poll, the two halves of a write (`WriteHead`, `SettleHead`), `terminate` and `close` step by step. RMCP is external: what is used of it is what transport.rs says of it |
| `RequestLedger` | what the session promises of each request | new, owed, answered or waived; closed in order only when nothing is owed |
| `LineReader` | framing | Bytes arrive one by one, a read may be cancelled at every await; lines are compared with `Framing`, a fold over the whole stream |
| `ToolCalls` | call_tool, its mutex and sampling loop, the judgment cache, exits, kills, restarts | The state of a scan is kept once, for the holder of the mutex. An issue is the key of its judgment |
| `OverrideStore` | programs that open and edit overrides.json | Open, re-read under the lock, edit and write are separate steps; a damaged file is reset without the lock, as in the code |
| `AtomicStore` | a file edited atomically | What `OverrideStore` implements while nobody acts on having seen the file missing or damaged |
| `TranslationMemory` | programs that open, record, import and clear | The list, the index and both rollbacks are as in the code; an import takes one entry at a time, and the file may be missing at the start; `tainted` says somebody replaced what he had not read |
| `ScanCache` | lint runs, an editor and the clock | Metadata, reading and storing are separate steps; time is in the seconds the code sees |
| `HookCache` | callbacks, the cache file and its lock, whoever edits the inputs of a verdict | The early inputs (project file, overrides) are loaded before the fingerprint is taken, the late ones (memory, packs) after it; persist and print are separate steps |
| `CheckPipeline` | the three front ends between scan and report | A stage of the pipeline is an action; `plan` is the order of a front end. A text is a sequence of words, `Rules` a lookup |
| `Fixer` | fixer.rs | `FixVerdict`, the forward pass and both ways of moving offsets are operators |
| `Prose`, `PunctuationPass`, `QuotePass`, `SpacingPass` | the passes of a scan that need no rule | One operator per pass or helper, over texts of kinds of characters |
| `Convert` | the rounds of scan and fix | Composes the four above with `Fixer`; typing a text enumerates the inputs |
| `Profiles`, `CommandLine` | ruleset.rs and cli/args.rs | A configuration is the set of its switches that are on; the parser takes a token at a time |
| `RuleLayers` | merging, compilation and matching | Operators over layers and phrases |
| `Settings` | the three front ends' settings, rules and reports | Composes the three above: a scene is typed word by word and text by text |
| `BatchLint` | lint over trees, diffs and stdin | Reading, the second phase, each file's write, its report and the baseline are separate steps of a run; a user saves files in between. Discovery is operators over a tree and patterns; `command.rejected` is what the translation memory the run loads rejects |
| `LangScopes`, `ForeignText`, `Html` | lang= in HTML | `LangScopes` keeps the code's stack, index, count and pending range; `ForeignText` searches a stack; `Html` is the tables both use |
| `Suppression`, `Markdown`, `Patterns`, `Ranges` | what is left out of a scan | Folds over lines, parser events and characters, as in the code; pulldown-cmark is external. The ranges of `Suppression` and `Markdown` are of tokens, those of `Patterns` of bytes |
| `Normalize` | composition, the map back, lines and columns | Segments and offsets in bytes; Unicode's tables are external, on ten characters |
| `Markup` | what of a document is scanned, and where it is reported | Composes the modules of the three rows above, one document typed token by token. A token is a piece of characters; the ranges of all four collectors become ranges of bytes and are merged |
| `TransportProofs`, `StoreProofs`, `ToolCallsProofs`, `ScanCacheProofs`, `HookCacheProofs`, `SettingsProofs`, `BatchLintProofs`, `TextProofs` | theorems | section 5; `TransportProofs` has those of `LineReader` as well, `StoreProofs` those of both stores, `TextProofs` those of `LangScopes` and `Fixer` |

The `MC*` modules give symmetry (`MCTranslationMemory`, `MCScanCache`,
`MCHookCache`) or the scenes that are typed (the others). `Transport`,
`LineReader`, `OverrideStore` and `ToolCalls` need none.

Abstractions:

- A message, a term, a judgment or a content is a model value; a replaced file is
  old or new, never half (`atomic.rs` renames a temporary file); file locks are
  dropped when their process ends. The baseline is the exception: it is written in
  place, and may be torn.
- In `ScanCache` all contents of a file have one size, the case in which the
  timestamp alone decides.
- In the text modules a character is the kind of character a pass asks for (an
  ideograph, a letter, a digit, each mark), and a masked stretch is one character.
  Offsets count characters there, so guards on character boundaries are guards on
  the length. In `Patterns`, `Normalize` and `Markup`, where bytes matter, they
  count bytes.
- Where the modules that only TLC runs have a `CASE` whose conditions overlap, its arms
  are meant in the order they are written in, as TLC takes them. The modules with proofs
  have none.
- In `Markdown` and `Markup` what is typed is a token: a line, a tag, a comment or a
  key. How a line is recognised for one is not modelled; what follows from a sequence
  of them is. A document is the characters of its tokens, over which the patterns run:
  the slash of a closing tag, those of a comment and of plain text, spaces, quotation
  marks and line ends are characters of their own, and the rest of a tag or a fence is
  one (`PieceOf`). Left out there are the space a key is followed by and the dots and
  tilde a path may begin with.
- A read of a cache file, `ScanCache`'s or `HookCache`'s, gives the file, or nothing when
  it fails or does not parse (`Readings`). `unread` says that of the read under the lock,
  after which the code replaces the file by what it has of its own.

## 3. Runs

| Run | Question | Bounds |
|---|---|---|
| `transport` | Does any order of lines, responses, failures, end of input, shutdown and exit lose an owed response or an acknowledgement, or keep the process alive? (`OwedIsCounted`, `EofLosesNothing`, `ShutdownIsAcknowledged`; refinement of `RequestLedger`; `DeadStdoutEndsProcess`, `EofEndsProcess`, `ExitEndsProcess`) | 2 ids, queue of 2: a response and an acknowledgement or a sentinel wait at once, a third sender blocks |
| `line_reader` | Are the lines answered the lines sent, and is what is held bounded? (`LinesAreWhole`, `RawIsBounded`) | limit of 2 bytes, discard limit of 1, 6 bytes: a line over both limits with another before or after it |
| `override_store` | Do three programs keep each other's edits? (`EditsWhatIsThere`, refinement of `AtomicStore`) | 2 keys, 1 value, 1 damage |
| `translation_memory` | Do index, rollback and file agree? (`IndexFindsLatest`, `FreshWritersLoseNothing`) | 2 processes, 3 terms, cap of 2, imports of 2, 1 damage: imports beyond the cap, with duplicates |
| `scan_cache` | Is a reported result the file's, and does a flush keep the newest? (`ReportsTheFile`, `FlushKeepsNewest`) | 2 runs, 2 files, 3 seconds, 1 edit, time to live 1, cap 1, scans of at most a second; any read of the cache may fail |
| `tool_calls` | Do budget, statistics, judgments and progress survive every ending of a question and of the process? (`BudgetHolds`, `EveryIssueIsAccountedFor`, `CompletedCallIsWritten`, `EveryCallEnds`) | 2 calls, 2 questions, 4 issues, budget of 2, collection cap of 3, 1 restart |
| `hook_cache` | Can a callback be silent about what nobody reported, or drop another's record? (`SilenceIsEarned`, `RecordsAreKept`) | 2 callbacks, 3 files, a cache of 2, 3 writes, 2 edits of the inputs: an eviction, and two callbacks on one file; any read of the cache may fail |
| `check_pipeline` | Does a fix keep what was learned, spare code and leave constructs whole? (`FixForgetsNothing`, `CodeIsNotReported`, `NoHalfConstruct`) | all texts of three words with a term a store may name, and constructs of four; at most 2 of 5 stores filled, at most 1 with verification; three fix modes, dry runs |
| `convert` | Does what one round writes survive the next? (`PairsStayWhole`, `FlatQuotesSurvive`, `QuotesOffKeepsMarks`) | ten alphabets of two to seven pieces, texts of up to four to seven characters, three rounds |
| `settings` | Do the front ends mean the same by the same settings, and does the last layer decide? (`OffTakesOnlyItsOwn`, `HookSpeaksForLint`, `LastLayerDecides`, `AbsorbersHideNothing`) | lines of up to six words; every family off in every front end; up to four layers over two phrases; all texts of five characters over phrases that overlap |
| `batch_lint` | Does the exit status speak for every file, are reports true, does adoption hold? (`VerdictIsHonest`, `AdoptionIsClean`, `ReportDescribesTheDisk`, `FixReportIsConfirmed`) | two runs over two files, three with two that adopt into one baseline while the third is measured by it, or one over a tree with a link, a hidden name, a locked directory and exclusions, or over stdin; at most 1 edit |
| `markup` | Is what is masked, promoted and reported what the document says? (`MaskedAsMarked`, `HeadingsStandOut`, `SpansComeBack`, `ReportsWhatIsWritten`; refinement of `ForeignText`) | seventeen vocabularies of four to eight tokens, documents of up to four to six; two elements deep; a scene with `heading_severity_boost` off |

`MaskedAsMarked` compares, for every stretch of a document, what the code excludes with
what the notation says: the tokens that are marked, as the whole document determines
them, and the addresses, paths and mentioned terms, as a search of the characters does.
It does not say that a path is one: that a closing tag is taken for the beginning of one
is finding 22.

Every property has a mutant, a plausible bug in a mapped definition, under which
the run fails. The mutants stand beside the definitions.

Why the bounds are enough. In the modules of processes the actions never compare
two ids, keys, files or processes beyond equality, so a second one gives the
overlap a property is about, and limits (queue, caps, budgets, times to live) are
crossed within the bounds. What is proved does not depend on them. In the modules
of text a pass looks at its mark, at the neighbours of the mark and at one partner:
four to six characters hold a pair with something inside and something outside, and
each alphabet puts the characters a pass looks at next to those that make it hold
back. The search distance of 512 bytes is not reached, and the fallback it guards
against is shown with a smaller one (section 4).

Fairness. `Transport` (`FairSpec`) assumes that the runtime runs the tasks it owns
and that timers fire: weak fairness of `ReadDeadStdout`, `ReadEof`, `DrainPoll`,
`DrainTimer`, `StartTerminate`, `FlushAcked`, `FlushTimeout`, `Close`, `CloseJoined`
and `MainReturns`. It assumes nothing of the client, of handlers or of stdout: a
handler may run for ever and a client may never read. `ToolCalls` assumes that a
runnable scan runs (`Scan`), that a question's deadline passes (`NoAnswer`) and that
the mutex is handed on (`Begin(c)`). `std::sync::Mutex` is not fair, but each call
enters once, so a waiter is only passed by as many calls as there are. The other
runs check safety only.

`CHECK_DEADLOCK FALSE` stands where everything may be over: all programs have
exited, a text is typed and its rounds done, the clock, the edits or the restarts
are used up. `transport` and `line_reader` check for deadlock.

Some properties are stated beside these and belong to no run: a theorem has them, or
they are of less interest than those that are run. TLC finds no violation of any of
them with the bounds above: `ExitHasOneOwner` and
`NothingMoreAccepted` (`Transport`), `AnsweredOnce` and `CleanMeansSaved`
(`ToolCalls`), `EofReportsEverything` (`LineReader`), `CapHolds` and `MemoryIsSaved`
(`TranslationMemory`), `RejectedIsNotRewritten` and `BannedOutranksMemory`
(`CheckPipeline`), `ExcludedSurvives` and `NeverReturns` (`Convert`),
`EveryWordHasOneRole` (`Settings`), and each module's `TypeOK`. `ExtensionsNameFiles`
(`BatchLint`) is what a comment says and the code does not do (section 4, 20).

## 4. Where code and documentation disagree

Each of these is a property that a comment or a document states and that the code
does not have. The modules define them, so that TLC shows the behaviour when the
property is put in place of the invariants of a configuration. `SPECIFICATION` is
`Spec` and `CHECK_DEADLOCK` is `FALSE` throughout; constants are as in the module's
configuration unless the table says otherwise.

| Property | Module to run | Constants |
|---|---|---|
| 1. `StatusIsOrderly` | `Transport` | `Ids = {i1}` |
| 2. `CountedAtEndOfInput` | `Transport` | `Ids = {i1}`, `ReuseIds = TRUE` |
| 3. `DiscardIsBounded` | `LineReader` | `MaxLine = 1`, `MaxSent = 5` |
| 4. `NoDecisionLost` | `MCTranslationMemory` | `Terms = {t1, t2}`, `MaxImport = 1`, `MaxDamage = 0` |
| 5. `ReportsTheFile` | `MCScanCache` | one process, one file, `Ttl = 3`, `MaxTime = 4`, `MaxScan = 3` |
| 6. `HitsWereTold` | `MCHookCache` | one callback, one file, `Cap = 1`, `MaxWrites = 2`, `QuietRules = FALSE` |
| 7. `BannedAlwaysFires`, 8. `LearnedVerdictsSurvive` | `MCCheckPipeline` | |
| 9. `NestedQuotesSurvive` | `MCConvert` | `Sheets <- NestedSheets` |
| 10. `NeverHalfRewritten` | `MCConvert` | `Sheets <- HalfSheets` |
| 11. `PlannedDirectionKept` | `MCConvert` | `Sheets <- DirectionSheets` |
| 12. `PairsStayWhole` | `MCConvert` | `Sheets <- FarSheets`, `SearchBytes = 3` |
| 13. `FilterIsTransparent`, 14. `RhythmIsIndependent`, 15. `HookSpeaksForLintAlways` | `MCSettings` | |
| 16. `TornBaselineIsRegenerated`, 17. `BaselineIsThisRun`, 18. `FixVerdictStands`, 19. `ReportIsOfTheUsersText`, 20. `NothingToLintIsClean`, 21. `GreenMeansRead` | `MCBatchLint` | |
| 22. `UnmarkedIsScanned` | `MCMarkup` | |
| 23. `ClosedMeansScanned` | `MCMarkup` | `Scenes <- DepthScenes` |
| 24. `SpansComeBack` | `MCMarkup` | `Scenes <- JamoScenes` |

1. **Exit status.** "The status `exit` terminates with: 0 when `shutdown` came first"
   (`mcp/transport.rs:176`). It is read when the process terminates. The read that
   parks on `exit` can be dropped for a response, and a `shutdown` behind `exit` is
   then read and makes the status 0.
2. **Request ids used again.** The comment at `mcp/transport.rs:728` leaves no window
   between dispatch and registration. `in_flight` is a set: a second request with an
   id whose first response is still queued is retired when that response is settled.
   MCP forbids clients to repeat ids, and the theorems assume they do not.
3. **Discarding a long line.** `docs/mcp.md` closes the session after a further 64 MiB.
   The count is a local of a future that is dropped whenever a response is ready, and
   starts from zero.
4. **Translation memory.** The lock is said to prevent races of read-modify-write
   sequences (`rules/store.rs:22`). `record`, `import` and `clear` take it after the
   read, so of two concurrent `tm record` one is lost. `with_overrides` reads again
   under the lock, and `override_store` shows that this is enough.
5. **Fast path.** `fast_path_safe` is meant to be false for a file written within a
   second of its scan. It compares with the time the result is stored; a scan of more
   than a second leaves the window open, and an entry can answer for a content it
   never saw.
6. **Hook and edited rules.** A cached verdict is "already reported, or clean"
   (`cli/hook.rs:132`). The rules are read before the fingerprint reads their files
   again: edited in between, the verdict of the old rules is recorded under the
   fingerprint of the new.
7. **Banned terms** are "always be flagged regardless of context clues"
   (`config.rs:55`). In the linter Tier 2 runs after the glossary and lowers a banned
   ambiguous term without a clue to info; in the MCP tool the glossary runs last.
8. **Verdicts behind an insertion.** Verdicts are carried over a fix so that what
   remains is not "stripped of everything that was learned" (`mcp/tools.rs:1152`). An
   offset moves by fixes strictly before it (`fixer.rs:516`), so a term right behind an
   inserted space matches no snapshot and is reported at full severity again.
9. **Nested quotations.** Depth is counted over the curly marks of one scan. When the
   outer marks convert a round before the inner ones, the inner ones count from zero,
   and the spacing pass deletes one of the doubled brackets as a repeated mark.
10. **Half a quotation.** A single curly quotation becomes 『』, which the next round
    reports as misplaced; the suggestion is a deletion, so a quotation converted in the
    second round keeps one mark. The comment: "a quotation is never half-rewritten".
11. **Direction of marks.** The plan and the repair "have to reach the same verdict"
    (`quotes.rs:92`). The repair judges only the marks that convert, and with some
    English ones left out it can reach another.
12. **Brackets 512 bytes apart.** The search from the opening one ends before 512
    bytes, the one from the closing one includes the 512th: only the closer converts.
13. **Families turned off.** "Families are independent" (`docs/cli.md:110`), but a
    scanner built without a family also lacks the place its phrases took: what one of
    them hid is reported.
14. **Rhythm** is "independent of translationese_detection on purpose"
    (`engine/scan/mod.rs:1740`), but the advice on long premodifiers comes from the
    translationese pass alone.
15. **Hook and project overrides.** The hook loads the user's overrides, never those
    the project's file names, so it reports what the project has turned off.
16. **Torn baseline.** "A torn baseline is regenerated by rerunning
    `--update-baseline`" (`baseline.rs:40`). That run loads the old file first and fails.
17. **Updating the baseline** is documented as rewriting it "from this run"; it only
    adds, so an issue that was repaired stays known when it comes back.
18. **Verdict of a fixing run.** "Phase 2 always disambiguates" (`cli/lint.rs:595`). The
    scan after a fix does not, so a term a plain run lowers to info counts against the
    gate.
19. **Text that is nowhere.** With stdin, `--fix` and a machine format, the rewritten
    text is not emitted and the report is of it; a dry run over Simplified text reports
    on the converted text.
20. **An excluded diff.** A diff whose files are all excluded ends with 2, an empty one
    with 0; a test says an empty diff is clean, the documentation keeps 2 for failures.
    Exclusion says less than it does elsewhere, too: `*.ext` is to "match files with the
    given extension" (`cli/discover.rs:210`), and passes over a directory so named with
    all that is in it (`ExtensionsNameFiles`).
21. **Unlisted entries.** A directory entry the system fails to list is passed over with
    a warning, and the run may end with 0; the documentation says a green build cannot
    come from a file nobody managed to read.
22. **Prose behind a closing tag.** "The same word outside the marked runs is" reported
    (`docs/cli.md:304`). The pattern of a path also runs over Markdown and YAML
    (`engine/scan/mod.rs:781`); it takes the slash of `</span>` for the beginning of one,
    and what follows the tag is left out of the scan up to the next space, quotation mark
    or line end.
23. **Deep markup.** Past the depth limit closers only balance a count. When a tag that
    only implies its end was counted, the closer of the foreign element is used up for
    it, and the rest is left out of the scan; the comment says the cap lints too much
    rather than too little. It holds when the depth is not reached (`MaxDepth = 8`).
24. **Jamo.** A vowel followed by a trailing jamo is kept as one segment though nothing
    composes, and in a text that composes elsewhere the trailing one maps to the vowel.
    The comment asks for "one Hangul composition actually forms".

One more comment is not what the code does, with no behaviour to show for it: packs are
merged in the order they were asked for, not "in lexicographic filename order"
(`rules/store.rs:1117`). `LastLayerDecides` is of the order asked for.

## 5. Proofs

TLAPS proves these for every value of the constants that satisfies the named
assumption of the module (`ConstantsAssumption`, `LineReaderAssumption`,
`OverrideAssumption`, `MemoryAssumption`, `CacheAssumption` with `NoneAssumption`,
`CallsAssumption`, `HookAssumption`, `ScenesAssumption` with `ProfilesAreConfigs`,
`BatchLintAssumption`, `TagsAssumption` with `DepthAssumption`), which TLC evaluates in
the module's run.

| Module | Theorems | Further assumption |
|---|---|---|
| `TransportProofs` | `TypeCorrect` | none |
| | `Inductive`, `OwedAlwaysCounted`, `EofNeverLoses`, `ShutdownAlwaysAcknowledged`, `ExitAlwaysOwned`, `NothingMoreIsAccepted`; `Refinement`: `Transport` implements `RequestLedger` | unique ids (`~ReuseIds`) |
| | of `LineReader`: `RawAlwaysBounded`, `LinesAlwaysWhole`, `EofComesLast` | none |
| `StoreProofs` | of `OverrideStore`: `OverrideTypeCorrect`, `OverrideInductive`, `AlwaysEditsWhatIsThere` (`EditsWhatIsThere`), `OverrideRefinement` (`ImplementsAtomicStore`) | none |
| | of `TranslationMemory`: `TypeCorrect`, `Inductive`, `IndexAlwaysFindsLatest`, `FreshWritersNeverLose`, `CapAlwaysHolds`, `MemoryAlwaysSaved` | none |
| `ToolCallsProofs` | `TypeCorrect`, `Inductive`, `BudgetNeverExceeded`, `EveryIssueAlwaysCounted`, `FinishedAlwaysWritten`, `NeverAnsweredTwice`, `CleanAlwaysSaved` | none |
| `ScanCacheProofs` | `TypeCorrect`, `Inductive`, `FlushAlwaysKeepsNewest` | none |
| | `ReportsAreOfTheFile` | scans of at most a second (`MaxScan <= 1`) |
| `HookCacheProofs` | `TypeCorrect`, `Inductive`, `RecordsAlwaysKept` | none |
| | `SilenceAlwaysEarned` | inputs are not edited while a callback loads them (`QuietRules`) |
| `SettingsProofs` | `OffAlwaysTakesItsOwn` (`OffTakesOnlyItsOwn`), `HookAlwaysSpeaksForLint` (`HookSpeaksForLint`), `LastLayerAlwaysDecides` (`LastLayerDecides`), `AbsorbersNeverHide` (`AbsorbersHideNothing`) | none |
| `BatchLintProofs` | `TypeCorrect`, `Inductive`, `VerdictAlwaysHonest`, `AdoptionAlwaysClean`, `ReportAlwaysDescribesTheDisk`, `FixReportAlwaysConfirmed` | none |
| `TextProofs` | of `LangScopes`: `TypeCorrect`, `Inductive`, `Refinement` of `ForeignText` | none |
| | of `Fixer`: `FixesAreApart`, `WrittenWhereSaid`, `LeftWhereSaid` | none but types (`Finding`: an offset, a length, a list of suggestions) |

The further assumptions are the ones without which the property is false: findings
2, 5 and 6 are what TLC shows when they are dropped.

None of the properties is inductive alone. The strengthenings:

- `Transport`. That nothing is lost at end of input depends on `in_flight`, which
  shrinks when a write is settled, not when it happens; so `IInv` follows an id from
  RMCP's pool (`CountedInv`) through the queue (`QueueInv`: a queued response is no
  longer in the pool, and was dispatched) to the wire (`WriterInv`: a head that was
  written has been recorded). `SessionInv` ties the reader's verdict to the phases of
  closing, and to the stored wakeup that carries a write failure across a dropped
  read. `FlushInv` says that the sentinel a termination waits for stands behind the
  acknowledgement, or the acknowledgement is out. `Refinement` uses `IInv` to show each
  action a step of the ledger or a stutter.
- `LineReader`. `RawInv` is the bound with the types of the two buffers. For the lines,
  `AnsweredWith` compares what was answered with `Framing(consumed)`: either the reader is
  at a delimiter, or inside a line of which `raw` holds a prefix or the discard the rest,
  or it has answered the last line, or it gave up in the middle of one. That a fold over
  one more byte is one more step of the framing is not by definition, since a fold is a
  recursive function, chosen: `FoldExists` shows that there is one and its uniqueness
  follows, both by induction on the length written as a set of numbers.
- `OverrideStore`. `EditorInv` (one holder) and `RereadInv` (what it re-read is what is
  stored until it writes, unless an open without the lock has replaced the file).
  The refinement maps the file to the abstract one while it is settled.
- `TranslationMemory`. `LockInv` (one process at a mutation). `ListInv`: an index finds
  the last entry of each term, also in the middle of an import, and so does the one the
  import would go back to; an import that has changed nothing holds what it began with,
  so that returning without a write loses nothing. `SavedInv`: while nobody has replaced
  what he had not read, the file says what was decided last, and who has read it holds
  the same or held it before its import.
- `ToolCalls`. `LockInv`: one call is inside, and only in a process that runs; `AskInv`:
  what is being asked has no answer yet; `AnswerInv`: answers are remembered and
  marked; `BudgetInv`: the bridge's own count is the number of questions that were put;
  `CleanMeansSaved`: a cache that passes for clean is the file. The write a call
  ends with is then enough for all it has judged, through restarts.
- `ScanCache`. `TimeInv` and `VisitInv` follow a visit from its metadata to its result;
  `CacheInv` says that an entry the fast path trusts is older than the second it was
  stored in and of the content its time stands for. For the flush, `SaveInv` says that
  what is about to be written has every younger entry; that the eviction drops the
  oldest and no more than it must rests on `RanksAreAllTaken`: the ranks of the entries
  by age are a bijection. A flush that could not read the file knows of no entry but its
  own, and is excepted (`unread`).
- `HookCache`. `LockInv`: what is merged under the lock is the cache file, or nothing when
  the file could not be read, which `RecordsAreKept` excepts (`unread`); `SilenceInv`:
  every record, in the file or in a callback, is of the verdict under the inputs it
  names, and somebody printed it, is about to, or was stopped after recording it.
- `Settings`. The invariant itself is small (`SettingsInv`: the files are as assumed, and
  families were typed where families are read), since each property is about what the
  front ends and the scanner make of one scene. `OffTakesOnlyItsOwn` and
  `HookSpeaksForLint` follow what is turned on and off from the parser to the passes, one
  kind of finding at a time. For `LastLayerDecides`, to decide about a phrase
  (`Decides`: to be the last that names it) carries through one layer laid on another
  (`MergeIs`, `LayersInTurn`), so that merging layer by layer and merging them all is the
  same. `AbsorbersHideNothing` is a simulation: the scan with the absorbers and the one
  without go over the text side by side, at the same place or with one of them inside a
  form that neither reports in (`InStep`), until they agree again. `FlattenSeq`, `Only`
  and the scan are recursive functions, chosen: that there is one that solves the
  equations is `SolutionExists`.
- `BatchLint`. `Local` is what one run knows of itself: targets are taken in order and
  each once, each is told of or has failed, what is told is what the rules find in the
  text that is told of, and the errors counted bound the standing ones, file by file
  (`StandingCounted`). `Fresh` and `True` tie it to the disk: what was read and is not
  yet told of, and what is told of, is what the file holds, or somebody else has saved
  it. `KnownInv` ties runs to the baseline: what an adopting run has marked is in the
  baseline while that is whole, and in what every later run has loaded, or another
  adopted at the same time. That the verdict reaches every file in scope rests on the
  recursive walk over the tree, which is shown to exist by induction on the distance
  from the deepest path (`WalkExists`) and to find a file below any chain of directories
  that nothing excludes (`WalkFindsAll`, `ScopeIsTargeted`).
- `LangScopes`. `IndexInv` (the index lists the elements that declared a language, in
  order), `CountInv` (the counter is the number of elements a sibling may end), `RawInv` and `RangeInv` (the
  ranges and the one in progress cover what `ForeignText` has skipped). Cutting and
  pushing are lemmas on stacks (`CutIndex`, `PushIndex`, `CutCount`, `PushCount`).
- `Fixer`. These are theorems about an operator, so the induction is over the issues
  (`FixRun` lists the fixer's states, one per issue; `FixerRuns` shows that the fold goes
  through them). `FixedSoFar` says of each state that the fixes end before the cursor and
  that the barrier stands behind every span that was left; `Told` says of the text
  written so far that each replacement, and each character between two of them, stands as
  far from its old place as the fixes before it add up to (`CopyOn`, `WriteOn`). The
  sums of `WrittenRanges` and `RemapToPostFix` are folds too, over other sequences or
  with other weights; `SameSums` and `NothingAdded` compare them. Nothing is assumed of
  the order of the issues: one that begins before the cursor is passed over. The case
  `LeftWhereSaid` excepts, a character right behind an insertion, is finding 8.

Two of the properties had to be said more exactly before they could be proved.
`AdoptionIsClean` is false when two runs adopt at the same time, each without knowing of
the other: the last to write the baseline drops what only the first had found
(`Overlapped`; TLC shows it with a third run). `VerdictIsHonest` counts the errors of a
file in the text that is reported, so those that Tier 2 is not sure of are no errors in
it; `FixReportIsConfirmed` holds for dry runs as well.

Only model-checked: liveness (the prover has no fairness), and the invariants of
`CheckPipeline`, `Convert` and `Markup` other than those of `LangScopes`. These three
compare whole texts before and after many folds (rounds of fixes, a sort, rebuilt
offsets, patterns on lines), where the induction would be over characters, lines and
findings at once; `SelectSeq` and `SortSeq`, on which the scan, the overlap pass and the
filters rest, are opaque to the provers. Of the fixer, the pass over the text and the
offsets after it are proved, `MergeRanges` and `RemapExclusions` only model-checked.

## 6. Partly modelled and not modelled

Partly modelled:

- stdio session: log messages are frames that answer nothing; the handshake order
  that RMCP enforces is left open.
- Scan cache: the byte budget, entries from before a field existed, and those with more
  issues than an entry may have, which a load drops.
- Tool calls, sampling bridge, judgment cache: handlers that only read the catalog;
  prompts and matching of answers; a file that does not parse; two servers on one
  judgment_cache.json, which the code replaces without a lock and promises nothing of.
- Check pipelines: scores, gates and output. Tier 2: collocations and profile priors,
  the extraction of a window. Convert: conversion of Simplified characters before the
  rounds, optional verification after them.
- Command line: help texts, and which kind of failure a missing value is. Settings: the
  search for .zhtw-mcp.toml upwards, what each detector finds.
- Rule merging: case rules merge the same way and are left out, and so are context
  clues and segmentation in a match. Where a phrase occurs in a form twice and overlaps
  itself, both count (`CoveredByForm`); `match_indices` passes over the second.
- Batch linter: rendering, `--verify`, the consistency report.
- Excluded ranges and markup: coordinates of table cells, and the recognition of a line
  or a tag.
- Scanner: the automaton's own construction.

Not modelled:

- Detectors, segmentation, conversion between scripts: heuristics and tables over
  Chinese text, without state between calls; their correctness is linguistic. Scores
  are floating point.
- Suppression store: it has the write discipline of the translation memory, so finding
  4 holds for it too. Pack store: reads only.
- Log forwarding: log lines carry no request, so whose line goes to whom is not
  promised.
- Parameters, schema, output and telemetry of the tool; handlers of catalog, prompts
  and resources; audit; setup; rendering: decoding and writing of immutable data.
- Translation service client: a remote service, outside the default build.
- Atomic replacement: one step, the operating system's.
- Browser extension, wasm, build and scripts.

Left for later: theorems about `Suppression`, `Ranges` and `Normalize` on the way to
those of `Markup`, beside the ones of `LangScopes`; two servers on one judgment cache,
the suppression store beside the translation memory with its own set, log routing, and
context clues in `RuleLayers`.
