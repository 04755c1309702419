----------------------------- MODULE BatchLint -----------------------------
(* "lint" over files, directories, a diff or stdin (cli/lint.rs, cli/discover.rs,      *)
(* baseline.rs): several runs at a time, on one tree of files and one baseline, while  *)
(* the user goes on editing.                                                           *)
(*                                                                                     *)
(* A path is a sequence of names. A document is [readable, simplified, words]; a word  *)
(* that some rule names is an issue. What the stages of one file do to issues that     *)
(* overlap is CheckPipeline's; here an issue is one word.                              *)
EXTENDS Naturals, Sequences, SequencesExt, FiniteSets, FiniteSetsExt, Functions

CONSTANTS
    Processes,
    Scenes,      \* files, what the user may save, what the processes may be asked
    Rules,       \* word -> [severity, ambiguous, fix]
    Extension,   \* name -> its extension
    HiddenNames  \* the names that begin with a dot

VARIABLES
    scene,
    disk,      \* file -> document
    baseline,  \* [state: "missing", "whole" or "torn", marks]
    run,       \* process -> where it is and what it has gathered
    edits      \* how often the user has saved

vars == <<scene, disk, baseline, run, edits>>

NotGiven == "not given"
NoFix == "no fix"
Stdin == <<"--">>
Clue == "clue"

ProcessStates == {"idle", "scanning", "reporting", "persisting", "saving", "ended", "killed"}

Severities == {"error", "warning", "info"}
Document == [readable: BOOLEAN, simplified: BOOLEAN, words: Seq(STRING)]
Flags == {"fix", "dry_run", "baseline", "update_baseline"}

\* A tree has the directories of its files; "--" is no file of it.
IsTree(tree) ==
    /\ IsFiniteSet(DOMAIN tree) /\ Stdin \notin DOMAIN tree
    /\ \A path \in DOMAIN tree:
          /\ path \in Seq(STRING) \ {<<>>}
          /\ tree[path] \in {"dir", "locked", "link", "file", "unlisted"}
          /\ \A k \in 1..(Len(path) - 1): /\ SubSeq(path, 1, k) \in DOMAIN tree
                                          /\ tree[SubSeq(path, 1, k)] \in {"dir", "locked", "link"}
IsCommand(command) ==
    /\ IsFiniteSet(command.args) /\ command.stdin \in Document /\ command.max_errors \in Nat
    /\ \A flag \in Flags: command[flag] \in BOOLEAN

ASSUME BatchLintAssumption ==
    /\ NotGiven \notin Processes
    /\ Rules \in [DOMAIN Rules -> [severity: Severities, ambiguous: BOOLEAN, fix: STRING]]
    /\ \A s \in Scenes:
          /\ IsTree(s.tree)
          /\ s.documents \in [{path \in DOMAIN s.tree: s.tree[path] \in {"file", "unlisted"}} -> Document]
          /\ s.drafts \subseteq Document
          /\ \A p \in Processes: \A command \in s.commands[p]: IsCommand(command)

----------------------------------------------------------------------------
(* Discovery *)

Supported == {"md", "markdown", "yml", "yaml", "txt"}
KindOf(tree, path) == IF path \in DOMAIN tree THEN tree[path] ELSE "missing"
Name(path) == Last(path)

\* A pattern is an extension, or the name of a component wherever it stands.
PathExcluded(path, patterns) ==
    \E pattern \in patterns:
        \/ pattern.kind = "extension" /\ Extension[Name(path)] = pattern.of
        \/ pattern.kind = "component" /\ pattern.of \in Range(path)

Entries(tree, dir) == {path \in DOMAIN tree: Len(path) = Len(dir) + 1 /\ IsPrefix(dir, path)}

\* walk_directory: links, hidden names, excluded directories and entries the system
\* fails to list are passed over.
Listed(tree, dir) ==
    {path \in Entries(tree, dir): tree[path] \notin {"link", "unlisted"} /\ Name(path) \notin HiddenNames}
Directories(tree) == {path \in DOMAIN tree: tree[path] \in {"dir", "locked"}}
Below(tree, dir, patterns) ==
    {path \in Listed(tree, dir): path \in Directories(tree) /\ ~PathExcluded(path, patterns)}
FilesIn(tree, dir, patterns) ==
    {path \in Listed(tree, dir): /\ tree[path] = "file"
                                 /\ Extension[Name(path)] \in Supported
                                 /\ ~PathExcluded(path, patterns)}
WalkDirectory(tree, patterns) ==
    LET walk[dir \in Directories(tree)] ==
            FilesIn(tree, dir, patterns) \cup UNION {walk[path]: path \in Below(tree, dir, patterns)}
    IN  walk
\* A directory that cannot be read stops the whole run.
Stopped(tree, patterns) ==
    LET stopped[dir \in Directories(tree)] ==
            tree[dir] = "locked" \/ \E path \in Below(tree, dir, patterns): stopped[path]
    IN  stopped

ResolveFileArgs(tree, args, patterns) ==
    {arg \in args: arg = Stdin \/ (KindOf(tree, arg) = "file" /\ ~PathExcluded(arg, patterns))}
        \cup UNION {WalkDirectory(tree, patterns)[arg]: arg \in args \cap Directories(tree)}
Refused(tree, args, patterns) ==
    \/ \E arg \in args: arg # Stdin /\ KindOf(tree, arg) = "missing"
    \/ \E arg \in args \cap Directories(tree): Stopped(tree, patterns)[arg]
    \/ ResolveFileArgs(tree, args, patterns) = {}

\* resolve_diff_files: what git names as changed, as far as it is there and supported.
ResolveDiffFiles(tree, changed) ==
    {path \in changed: KindOf(tree, path) # "missing" /\ Extension[Name(path)] \in Supported}
FileArgs(tree, command) ==
    IF command.diff = {NotGiven} THEN command.args ELSE ResolveDiffFiles(tree, command.diff)
Targets(tree, command) == ResolveFileArgs(tree, FileArgs(tree, command), command.exclude)

----------------------------------------------------------------------------
(* One document *)

\* A document that reads as Simplified is converted before anything else.
Converted(document) == [document EXCEPT !.simplified = FALSE]
ScanOf(document) ==
    {[at |-> k, word |-> document.words[k], severity |-> Rules[document.words[k]].severity]:
        k \in {k \in DOMAIN document.words: document.words[k] \in DOMAIN Rules}}

\* Tier 2 weighs the words around: an ambiguous term without a clue is lowered.
Disambiguated(issues, document) ==
    {[issue EXCEPT !.severity = IF Rules[issue.word].ambiguous /\ Clue \notin Range(document.words)
                                THEN "info" ELSE @]: issue \in issues}
Fixes(issues, document, command) ==
    {issue.at: issue \in {issue \in issues:
        /\ command.fix
        /\ issue.word \notin command.rejected
        /\ Rules[issue.word].fix # NoFix
        /\ ~(Rules[issue.word].ambiguous /\ Clue \notin Range(document.words))}}
Fixed(document, fixes) ==
    [document EXCEPT !.words = [k \in DOMAIN @ |-> IF k \in fixes THEN Rules[@[k]].fix ELSE @[k]]]

\* The second scan leaves out what the fixer itself has written.
RescanWrittenText(document, fixes) == {issue \in ScanOf(document): issue.at \notin fixes}

\* The memory and the ignored terms lower what is left.
Lowered(issues, command) ==
    {[issue EXCEPT !.severity = IF issue.word \in command.rejected \cup command.ignored
                                THEN "info" ELSE @]: issue \in issues}

\* A fingerprint has no position: edits that move an issue do not make it new.
Fingerprint(path, issue) == <<path, issue.word>>
Count(issues, severity) == Cardinality({issue \in issues: issue.severity = severity})

----------------------------------------------------------------------------
(* A run *)

Idle == [at |-> "idle", command |-> NotGiven, after |-> {}, targets |-> <<>>, read |-> <<>>, next |-> 1,
         loaded |-> {}, marks |-> {}, told |-> <<>>, foreign |-> {}, errors |-> 0, warnings |-> 0,
         failed |-> 0, code |-> 0]

Init ==
    /\ scene \in Scenes
    /\ disk = scene.documents
    /\ baseline = [state |-> "missing", marks |-> {}]
    /\ run = [p \in Processes |-> Idle]
    /\ edits = 0

Ended(process, code) == [process EXCEPT !.at = "ended", !.code = code]
Running(p) == run[p].at \in {"scanning", "reporting", "persisting", "saving"}
Becomes(p, process) == run' = [run EXCEPT ![p] = process]

\* Arguments, files and baseline are settled before the first file is read. Without a
\* changed file there is nothing to do.
Asked(command, ended) == [Idle EXCEPT !.command = command, !.after = ended]
Prepared(process, tree, marks) ==
    LET known == IF process.command.baseline THEN marks ELSE {}
    IN  [process EXCEPT !.at = "scanning", !.targets = SetToSeq(Targets(tree, process.command)),
                        !.loaded = known, !.marks = known]
Start(p) ==
    /\ run[p].at = "idle"
    /\ \E command \in scene.commands[p]:
          LET args == FileArgs(scene.tree, command)
              process == Asked(command, {q \in Processes: run[q].at = "ended"})
              torn == command.baseline /\ baseline.state = "torn"
          IN  Becomes(p,
                IF command.diff # {NotGiven} /\ args = {} THEN Ended(process, 0)
                ELSE IF Refused(scene.tree, args, command.exclude) \/ torn THEN Ended(process, 2)
                ELSE Prepared(process, scene.tree, baseline.marks))
    /\ UNCHANGED <<scene, disk, baseline, edits>>

\* Phase 1: files in any order, unless one of them is stdin.
MayRead(process, k) ==
    /\ k \in DOMAIN process.targets \ DOMAIN process.read
    /\ Stdin \in Range(process.targets) => \A j \in 1..(k - 1): j \in DOMAIN process.read
Content(process, path) == IF path = Stdin THEN process.command.stdin ELSE disk[path]
WithRead(process, k, document) ==
    LET read == [j \in {k} \cup DOMAIN process.read |-> IF j = k THEN document ELSE process.read[j]]
    IN  [process EXCEPT
            !.read = read,
            !.at = IF DOMAIN read = DOMAIN process.targets THEN "reporting" ELSE "scanning"]
ScanOne(p) ==
    /\ run[p].at = "scanning"
    /\ \E k \in DOMAIN run[p].targets:
          /\ MayRead(run[p], k)
          /\ Becomes(p, WithRead(run[p], k, Content(run[p], run[p].targets[k])))
    /\ UNCHANGED <<scene, disk, baseline, edits>>

\* What the file that is next has come to: "text" is the document after conversion.
Subject(process) == process.targets[process.next]
Raw(process) == process.read[process.next]
Found(process) == Disambiguated(ScanOf(Converted(Raw(process))), Converted(Raw(process)))
Applied(process) == Fixes(Found(process), Converted(Raw(process)), process.command)
Output(process) == Fixed(Converted(Raw(process)), Applied(process))
HasTextChanges(process) == Raw(process).simplified \/ Applied(process) # {}

\* A dry run reports on the text before the fix, every other run on what it wrote.
WroteChanges(process) == HasTextChanges(process) /\ ~process.command.dry_run

\* A bug the property would show: the report is that of the text before the fix.
ReportBefore(process) ==
    [text |-> Converted(Raw(process)), issues |-> Lowered(Found(process), process.command)]

\* A bug the property would show: the new text with the issues of the old one.
ReportStale(process) ==
    [text |-> IF WroteChanges(process) THEN Output(process) ELSE Converted(Raw(process)),
     issues |-> Lowered(Found(process), process.command)]

Report(process) ==
    IF WroteChanges(process)
    THEN [text |-> Output(process),
          issues |-> Lowered(RescanWrittenText(Output(process), Applied(process)), process.command)]
    ELSE [text |-> Converted(Raw(process)), issues |-> Lowered(Found(process), process.command)]

\* A bug the property would show: what does not count against the gate is not adopted.
AdoptedIfCounted(path, issues) ==
    {Fingerprint(path, issue): issue \in {issue \in issues: issue.severity # "info"}}

Adopted(path, issues) == {Fingerprint(path, issue): issue \in issues}

Filters(process) == process.command.baseline /\ ~process.command.update_baseline
\* apply_baseline_and_count
Reported(process) ==
    LET path == Subject(process)
        report == Report(process)
        new == {issue \in report.issues:
                  Filters(process) => Fingerprint(path, issue) \notin process.marks}
    IN  [process EXCEPT
            !.at = "reporting",
            !.next = @ + 1,
            !.marks = IF process.command.update_baseline THEN @ \cup Adopted(path, report.issues) ELSE @,
            !.told = [told \in {path} \cup DOMAIN @ |->
                        IF told = path
                        THEN [text |-> report.text, issues |-> new, written |-> Applied(process)]
                        ELSE @[told]],
            !.errors = @ + Count(new, "error"),
            !.warnings = @ + Count(new, "warning")]

\* A bug the property would show: a file that could not be written is no failure.
PassedOver(process) == [process EXCEPT !.at = "reporting", !.next = @ + 1]

Unprocessed(process) == [process EXCEPT !.at = "reporting", !.next = @ + 1, !.failed = @ + 1]

\* Phase 2, one file after the other: a new document goes to a temporary file first.
ProcessFile(p) ==
    /\ run[p].at = "reporting"
    /\ run[p].next \in DOMAIN run[p].targets
    /\ Becomes(p, IF ~Raw(run[p]).readable THEN Unprocessed(run[p])
                  ELSE IF WroteChanges(run[p]) /\ Subject(run[p]) # Stdin
                       THEN [run[p] EXCEPT !.at = "persisting"]
                       ELSE Reported(run[p]))
    /\ UNCHANGED <<scene, disk, baseline, edits>>

\* Every other process that has read the file has read what is no longer there.
Read(process, path) == \E k \in DOMAIN process.read: process.targets[k] = path
Foreign(processes, path, writer) ==
    [p \in Processes |-> IF p # writer /\ Read(processes[p], path)
                         THEN [processes[p] EXCEPT !.foreign = @ \cup {path}] ELSE processes[p]]

Persist(p) ==
    /\ run[p].at = "persisting"
    /\ disk' = [disk EXCEPT ![Subject(run[p])] = Output(run[p])]
    /\ run' = Foreign([run EXCEPT ![p] = Reported(@)], Subject(run[p]), p)
    /\ UNCHANGED <<scene, baseline, edits>>
PersistFails(p) ==
    /\ run[p].at = "persisting"
    /\ Becomes(p, Unprocessed(run[p]))
    /\ UNCHANGED <<scene, disk, baseline, edits>>

\* A file that could not be processed outranks the gate.
ExitCode(process) ==
    LET command == process.command
        gated == \/ process.errors > command.max_errors
                 \/ command.max_warnings # {} /\ \A limit \in command.max_warnings:
                        process.warnings > limit
    IN  IF process.failed > 0 THEN 2 ELSE IF gated THEN 1 ELSE 0

AllTold(p) == run[p].at = "reporting" /\ run[p].next > Len(run[p].targets)
Conclude(p) ==
    /\ AllTold(p) /\ ~run[p].command.update_baseline
    /\ Becomes(p, Ended(run[p], ExitCode(run[p])))
    /\ UNCHANGED <<scene, disk, baseline, edits>>

\* The baseline is written in place: empty first, then whole. That there is none to
\* write is found out only here.
OpenBaseline(p) ==
    /\ AllTold(p) /\ run[p].command.update_baseline
    /\ IF run[p].command.baseline
       THEN baseline' = [state |-> "torn", marks |-> {}] /\ Becomes(p, [run[p] EXCEPT !.at = "saving"])
       ELSE UNCHANGED baseline /\ Becomes(p, Ended(run[p], 2))
    /\ UNCHANGED <<scene, disk, edits>>
SaveBaseline(p) ==
    /\ run[p].at = "saving"
    /\ baseline' = [state |-> "whole", marks |-> run[p].marks]
    /\ Becomes(p, Ended(run[p], ExitCode(run[p])))
    /\ UNCHANGED <<scene, disk, edits>>
SaveFails(p) ==
    /\ AllTold(p) /\ run[p].command.update_baseline /\ run[p].command.baseline
    /\ Becomes(p, Ended(run[p], 2))
    /\ UNCHANGED <<scene, disk, baseline, edits>>

Kill(p) ==
    /\ Running(p)
    /\ Becomes(p, [run[p] EXCEPT !.at = "killed"])
    /\ UNCHANGED <<scene, disk, baseline, edits>>

\* The user saves a file, at any time.
Edit(path) ==
    /\ edits < scene.max_edits
    /\ \E document \in scene.drafts \ {disk[path]}: disk' = [disk EXCEPT ![path] = document]
    /\ run' = Foreign(run, path, NotGiven)
    /\ edits' = edits + 1
    /\ UNCHANGED <<scene, baseline>>

Next ==
    \/ \E p \in Processes:
        \/ Start(p) \/ ScanOne(p) \/ ProcessFile(p) \/ Persist(p) \/ PersistFails(p)
        \/ Conclude(p) \/ OpenBaseline(p) \/ SaveBaseline(p) \/ SaveFails(p) \/ Kill(p)
    \/ \E path \in DOMAIN disk: Edit(path)

Spec == Init /\ [][Next]_vars

----------------------------------------------------------------------------
(* Properties *)

Finished(p) == run[p].at = "ended" /\ run[p].targets # <<>>

\* What a person who looks at the tree would say is to be linted.
Component(path, k) == SubSeq(path, 1, k)
Leads(tree, arg, path, patterns) ==
    /\ IsPrefix(arg, path) /\ Len(arg) < Len(path)
    /\ KindOf(tree, arg) # "link"
    /\ Extension[Name(path)] \in Supported
    /\ \A k \in (Len(arg) + 1)..Len(path):
          /\ path[k] \notin HiddenNames
          /\ KindOf(tree, Component(path, k)) # "link"
          /\ ~PathExcluded(Component(path, k), patterns)
InScope(tree, command) ==
    {path \in DOMAIN tree:
        /\ tree[path] = "file" /\ ~PathExcluded(path, command.exclude)
        /\ \E arg \in FileArgs(tree, command): path = arg \/ Leads(tree, arg, path, command.exclude)}

\* Errors a reader would find in what the report is about: not those that the user or
\* Tier 2 has lowered, the fixer has written or the baseline knows.
StandingErrors(process, path) ==
    LET told == process.told[path]
        words == told.text.words
    IN  {k \in DOMAIN words \ told.written:
            /\ words[k] \in DOMAIN Rules
            /\ Rules[words[k]].severity = "error"
            /\ ~(Rules[words[k]].ambiguous /\ Clue \notin Range(words))
            /\ words[k] \notin process.command.rejected \cup process.command.ignored
            /\ <<path, words[k]>> \notin process.loaded}
AllStandingErrors(process) ==
    UNION {{path} \X StandingErrors(process, path): path \in DOMAIN process.told}

\* The verdict stands for every file in scope: with 0 or 1 each of them was read and
\* reported on, and with 0 the errors in all of them together are within the limit.
VerdictIsHonest ==
    \A p \in Processes: Finished(p) /\ run[p].code \in {0, 1} =>
        /\ InScope(scene.tree, run[p].command) \subseteq DOMAIN run[p].told
        /\ \A k \in DOMAIN run[p].read: run[p].read[k].readable
        /\ run[p].code = 0 => Cardinality(AllStandingErrors(run[p])) <= run[p].command.max_errors

\* q started after p had ended, and they tell of the same text of a file.
SameText(p, q, path) ==
    /\ p \in run[q].after
    /\ path \in DOMAIN run[p].told \cap DOMAIN run[q].told
    /\ run[p].told[path].text = run[q].told[path].text

\* p may have written a baseline, and certainly has: with 2 it may have failed to.
Adopts(p) == Finished(p) /\ run[p].command.baseline /\ run[p].command.update_baseline
Saved(p) == Adopts(p) /\ run[p].code # 2

\* One of the others adopted at the same time as p, neither knowing of the other: the
\* last to write drops what only the first had found.
Overlapped(p, others) ==
    \E r \in others \ {p}: Adopts(r) /\ p \notin run[r].after /\ r \notin run[p].after

\* What a run has adopted, a later one passes over: a project that adopts its baseline
\* and is not edited is clean. A fix changes what there is to adopt.
AdoptionIsClean ==
    \A p, q \in Processes: \A path \in DOMAIN scene.documents:
        /\ SameText(p, q, path)
        /\ Saved(p) /\ ~Overlapped(p, run[q].after)
        /\ Filters(run[q])
        /\ ~run[p].command.fix /\ ~run[q].command.fix
        => run[q].told[path].issues = {}

\* What a run has told of a file is true of the file, unless somebody else has saved it
\* since. A dry run on Simplified text has told of text that is nowhere.
ReportDescribesTheDisk ==
    \A p \in Processes: \A path \in DOMAIN run[p].told \cap DOMAIN disk:
        \/ path \in run[p].foreign
        \/ run[p].told[path].text = disk[path]
        \/ run[p].command.dry_run /\ disk[path].simplified

\* Whatever a fixing run still reports, the next run reports as well.
FixReportIsConfirmed ==
    \A p, q \in Processes: \A path \in DOMAIN scene.documents:
        /\ SameText(p, q, path)
        /\ ~run[q].command.fix
        /\ ~Filters(run[q])
        => {<<issue.at, issue.word>>: issue \in run[p].told[path].issues}
              \subseteq {<<issue.at, issue.word>>: issue \in run[q].told[path].issues}

----------------------------------------------------------------------------
(* What comments and documentation say, and the code does not do *)

\* "Phase 2 always disambiguates" (lint.rs): the verdict after a fix is that of a run
\* that only looks.
FixVerdictStands ==
    \A p, q \in Processes:
        /\ Finished(p) /\ Finished(q) /\ p \in run[q].after
        /\ run[p].targets = run[q].targets
        /\ \A path \in DOMAIN run[p].told: SameText(p, q, path)
        /\ [run[p].command EXCEPT !.fix = FALSE] = run[q].command
        /\ ~run[p].command.dry_run /\ ~run[p].command.baseline
        /\ run[p].code # 2 /\ run[q].code # 2
        => run[p].code = run[q].code

\* "A torn baseline is regenerated by rerunning --update-baseline" (baseline.rs).
TornBaselineIsRegenerated ==
    \A p, q \in Processes:
        /\ run[p].at = "killed" /\ baseline.state = "torn"
        /\ run[q].at = "ended" /\ run[q].targets = <<>>
        /\ run[q].command.update_baseline
        => Refused(scene.tree, FileArgs(scene.tree, run[q].command), run[q].command.exclude)

\* "Rewrite the baseline file from this run" (docs/cli.md).
BaselineIsThisRun ==
    \A p \in Processes: Finished(p) /\ run[p].command.update_baseline /\ run[p].code # 2
        /\ (\A q \in Processes \ {p}: run[q].at \in {"idle", "ended"} /\ p \notin run[q].after)
        => baseline.marks = UNION {Adopted(path, run[p].told[path].issues):
                                      path \in DOMAIN run[p].told}

\* "A dry run ... reporting has to stay on the text the user still has" (lint.rs), and a
\* filter whose text is not emitted leaves the user the old one.
UserHas(p, path) ==
    IF path # Stdin THEN disk[path]
    ELSE IF run[p].command.format = "human" /\ ~run[p].command.dry_run
         THEN run[p].told[path].text ELSE run[p].command.stdin
ReportIsOfTheUsersText ==
    \A p \in Processes: \A path \in DOMAIN run[p].told \ run[p].foreign:
        run[p].told[path].text = UserHas(p, path)

\* "An empty diff should be a clean lint batch" (tests/cli-lint.rs), also when all of it
\* is excluded.
NothingToLintIsClean ==
    \A p \in Processes:
        run[p].at = "ended" /\ run[p].command.diff # {NotGiven}
            /\ Targets(scene.tree, run[p].command) = {}
        => run[p].code = 0

\* "A green build cannot come from a file nobody managed to read" (docs/cli.md).
GreenMeansRead ==
    \A p \in Processes: Finished(p) /\ run[p].code = 0 =>
        \A path \in DOMAIN scene.tree: \A arg \in FileArgs(scene.tree, run[p].command):
            IsPrefix(arg, path) => scene.tree[path] # "unlisted"

\* "*.ext: match files with the given extension" (discover.rs): directories as well.
ExtensionsNameFiles ==
    \A p \in Processes: Finished(p) /\ run[p].code \in {0, 1} =>
        LET exclude == run[p].command.exclude
            named == {pattern \in exclude: pattern.kind = "component"}
        IN  \A path \in DOMAIN scene.documents: \A arg \in FileArgs(scene.tree, run[p].command):
                Leads(scene.tree, arg, path, named) /\ ~PathExcluded(path, exclude)
                    /\ scene.tree[path] = "file"
                => path \in DOMAIN run[p].told
=============================================================================
