--------------------------- MODULE BatchLintProofs ---------------------------
(* Proofs about BatchLint, for every set of processes, trees, commands and rules and   *)
(* any number of edits: a report is true of the file, a verdict stands for every file  *)
(* in scope, and what one run adopts a later one passes over.                          *)
EXTENDS BatchLint, TLAPS, FiniteSetTheorems, FunctionTheorems, SequenceTheorems, WellFoundedInduction

----------------------------------------------------------------------------
(* What the proofs say of one run *)

Paths == Seq(STRING)
FilesOf(tree) == {path \in DOMAIN tree: tree[path] = "file"}
Places(s) == FilesOf(s.tree) \cup {Stdin}
CommandsOf(s) == UNION {s.commands[p]: p \in Processes}
Issue == [at: Nat, word: STRING, severity: Severities]
Telling == [text: Document, issues: SUBSET Issue, written: SUBSET Nat]

Shape(r) ==
    r \in [at: {r.at}, command: {r.command}, after: {r.after}, targets: {r.targets}, read: {r.read},
          next: {r.next}, loaded: {r.loaded}, marks: {r.marks}, told: {r.told}, foreign: {r.foreign},
          errors: {r.errors}, warnings: {r.warnings}, failed: {r.failed}, code: {r.code}]
Typed(s, r) ==
    /\ Shape(r)
    /\ r.at \in ProcessStates /\ r.after \subseteq Processes
    /\ r.at # "idle" => r.command \in CommandsOf(s)
    /\ r.targets \in Seq(Places(s)) /\ r.read \in [DOMAIN r.read -> Document]
    /\ r.told \in [DOMAIN r.told -> Telling]
    /\ r.next \in Nat /\ r.errors \in Nat /\ r.warnings \in Nat /\ r.failed \in Nat /\ r.code \in 0..2

Working == {"scanning", "reporting", "persisting", "saving"}

\* The files are taken one after the other, and no file twice.
InOrder(r) ==
    /\ IsInjective(r.targets)
    /\ DOMAIN r.read \subseteq DOMAIN r.targets
    /\ r.next \in 1..(Len(r.targets) + 1)
    /\ \/ DOMAIN r.read = DOMAIN r.targets
       \/ r.next = 1 /\ r.at \in {"scanning", "killed"}
    /\ r.at \in {"idle", "scanning"} => r.next = 1
    /\ r.at \in Working => r.targets # <<>>
    /\ DOMAIN r.told \subseteq {r.targets[k]: k \in 1..(r.next - 1)}
    /\ r.at = "persisting" =>
          /\ r.next \in DOMAIN r.targets
          /\ Raw(r).readable /\ WroteChanges(r) /\ Subject(r) # Stdin

\* Every file that was taken has been told of, or has failed; a verdict comes last.
Complete(s, r) ==
    /\ r.targets # <<>> => /\ Range(r.targets) = Targets(s.tree, r.command)
                           /\ ~Refused(s.tree, FileArgs(s.tree, r.command), r.command.exclude)
    /\ r.failed = 0 => \A k \in 1..(r.next - 1): r.targets[k] \in DOMAIN r.told /\ r.read[k].readable
    /\ r.at = "saving" => /\ r.next > Len(r.targets)
                          /\ r.command.baseline /\ r.command.update_baseline
    /\ r.at = "ended" /\ r.code # 2 /\ r.targets # <<>> =>
          /\ r.failed = 0 /\ r.next > Len(r.targets)
          /\ r.code = 0 => r.errors <= r.command.max_errors

Pairs(issues) == {<<issue.at, issue.word>>: issue \in issues}

\* What is told of a file, by where and what.
Tells(r, path) ==
    LET told == r.told[path]
        all == Pairs(ScanOf(told.text))
    IN  /\ Pairs(told.issues) \subseteq all
        /\ ~r.command.fix /\ ~Filters(r) => Pairs(told.issues) = all
        /\ Filters(r) => \A issue \in told.issues: Fingerprint(path, issue) \notin r.loaded
        /\ r.command.update_baseline => Adopted(path, told.issues) \subseteq r.marks
Told(r) ==
    /\ \A path \in DOMAIN r.told: Tells(r, path)
    /\ r.loaded \subseteq r.marks
    /\ r.at # "idle" /\ ~r.command.update_baseline => r.marks = r.loaded
    /\ IsFiniteSet(AllStandingErrors(r)) /\ Cardinality(AllStandingErrors(r)) <= r.errors

Local(s, r) == Typed(s, r) /\ InOrder(r) /\ Complete(s, r) /\ Told(r)

----------------------------------------------------------------------------
(* What they say of a run and the disk, and of one run and another *)

\* What was read and is not yet told of is what the file holds.
Fresh(d, r) ==
    \A k \in DOMAIN r.read:
        k >= r.next /\ r.targets[k] \in DOMAIN d \ r.foreign => r.read[k] = d[r.targets[k]]
True(d, r) ==
    \A path \in DOMAIN r.told \cap DOMAIN d:
        \/ path \in r.foreign
        \/ r.told[path].text = d[path]
        \/ r.command.dry_run /\ d[path].simplified

Everyone == {p \in Processes: run[p].at = "ended"}
KnownTo(marks, p, others) == run[p].marks \subseteq marks \/ Overlapped(p, others)
KnownInv ==
    \A p \in Processes: Saved(p) =>
        /\ baseline.state # "missing"
        /\ baseline.state = "whole" => KnownTo(baseline.marks, p, Everyone)
        /\ \A q \in Processes: p \in run[q].after /\ run[q].targets # <<>> /\ run[q].command.baseline =>
              KnownTo(run[q].loaded, p, run[q].after)

SceneInv ==
    /\ scene \in Scenes
    /\ disk \in [DOMAIN scene.documents -> Document]
    /\ baseline \in [state: {"missing", "whole", "torn"}, marks: {baseline.marks}]
    /\ DOMAIN run = Processes /\ edits \in Nat
LocalInv == \A p \in Processes: Local(scene, run[p])
DiskInv == \A p \in Processes: Fresh(disk, run[p]) /\ True(disk, run[p])
AfterInv == \A p, q \in Processes: p \in run[q].after => run[p].at = "ended"

IInv == SceneInv /\ LocalInv /\ DiskInv /\ AfterInv /\ KnownInv

----------------------------------------------------------------------------
(* A set as a sequence *)

LEMMA SeqOfSet ==
  ASSUME NEW S, IsFiniteSet(S)
  PROVE  /\ SetToSeq(S) \in Seq(S) /\ IsInjective(SetToSeq(S))
         /\ Range(SetToSeq(S)) = S
<1> DEFINE n == Cardinality(S)
<1>1. n \in Nat /\ ExistsBijection(1..n, S)
  BY FS_CardinalityType
<1>2. \E f \in [1..n -> S]: IsInjective(f)
  BY <1>1 DEF ExistsBijection, Bijection, Injection
<1> HIDE DEF n
<1>3. SetToSeq(S) \in [1..n -> S] /\ IsInjective(SetToSeq(S))
  BY <1>2, Zenon DEF SetToSeq, n
<1> DEFINE f == SetToSeq(S)
<1> HIDE DEF f
<1>4. f \in Injection(1..n, S)
  BY <1>3 DEF f, Injection
<1>5. IsFiniteSet(1..n) /\ Cardinality(1..n) = n
  BY <1>1, FS_Interval
<1>6. f \in Surjection(1..n, S)
  BY <1>4, <1>5, FS_Injection DEF n
<1>7. Range(f) = S
  BY <1>3, <1>6 DEF Surjection, Range, f
<1>8. QED
  BY <1>1, <1>3, <1>7 DEF f

----------------------------------------------------------------------------
(* Discovery. The function that walks a tree calls itself for the directories below,   *)
(* so that there is one is shown by induction on how far a directory is from the       *)
(* deepest path.                                                                       *)

LEMMA Smallest ==
  ASSUME NEW D \in SUBSET Nat, D # {}
  PROVE  \E d \in D: \A e \in D: d <= e
<1> DEFINE Below2 == {ss \in Nat \X Nat: ss[1] < ss[2]}
<1>1. IsWellFoundedOn(Below2, Nat)
  BY NatLessThanWellFounded DEF OpToRel
<1>2. PICK d \in D: \A e \in D: ~(<<e, d>> \in Below2)
  <2> HIDE DEF Below2
  <2>1. QED
    BY <1>1, WFMin, Zenon
<1>3. ASSUME NEW e \in D PROVE d <= e
  <2>1. e \in Nat /\ d \in Nat /\ ~(<<e, d>> \in Below2)
    BY <1>2
  <2>2. ~(e < d)
    BY <2>1
  <2>3. QED
    BY <2>1, <2>2
<1>4. QED
  BY <1>3

LEMMA NatInduct ==
  ASSUME NEW P \in SUBSET Nat, 0 \in P, \A m \in P: m + 1 \in P
  PROVE  P = Nat
<1> SUFFICES ASSUME Nat \ P # {} PROVE FALSE
  OBVIOUS
<1> DEFINE rest == Nat \ P
<1>1. PICK low \in rest: \A j \in rest: low <= j
  <2>1. rest \in SUBSET Nat /\ rest # {}
    OBVIOUS
  <2> HIDE DEF rest
  <2>2. QED
    BY <2>1, Smallest
<1>2. low \in Nat /\ low # 0
  OBVIOUS
<1>3. low - 1 \in Nat /\ ~(low <= low - 1)
  BY <1>2
<1>4. low - 1 \in P
  BY <1>1, <1>3
<1>5. (low - 1) + 1 = low
  BY <1>2
<1>6. QED
  BY <1>4, <1>5

LEMMA Bounded ==
  ASSUME NEW S \in SUBSET Paths, IsFiniteSet(S)
  PROVE  \E n \in Nat: \A path \in S: Len(path) <= n
<1> DEFINE f == SetToSeq(S)
           P == {m \in Nat: \E n \in Nat: \A i \in DOMAIN f: i <= m => Len(f[i]) <= n}
<1>1. f \in Seq(S) /\ Range(f) = S
  BY SeqOfSet
<1> HIDE DEF f
<1>2. \A i \in DOMAIN f: i \in Nat /\ i >= 1 /\ Len(f[i]) \in Nat
  BY <1>1 DEF Paths
<1>3. 0 \in P
  BY <1>2
<1>4. ASSUME NEW m \in P PROVE m + 1 \in P
  <2>1. PICK n \in Nat: \A i \in DOMAIN f: i <= m => Len(f[i]) <= n
    OBVIOUS
  <2>2. CASE m + 1 \in DOMAIN f
    <3> DEFINE top == Len(f[m + 1])
    <3>1. top \in Nat
      BY <1>2, <2>2
    <3>2. ASSUME NEW i \in DOMAIN f, i <= m + 1 PROVE Len(f[i]) <= n + top
      <4> HIDE DEF top
      <4>1. CASE i = m + 1
        <5>1. Len(f[i]) = top
          BY <4>1 DEF top
        <5>2. QED
          BY <5>1, <3>1
      <4>2. CASE i # m + 1
        <5>1. i <= m /\ Len(f[i]) \in Nat
          BY <4>2, <3>2, <1>2
        <5>2. Len(f[i]) <= n
          BY <2>1, <5>1
        <5>3. QED
          BY <5>1, <5>2, <3>1
      <4>3. QED
        BY <4>1, <4>2
    <3>3. n + top \in Nat /\ m + 1 \in Nat
      BY <3>1
    <3> HIDE DEF top
    <3>4. QED
      BY <3>2, <3>3
  <2>3. CASE m + 1 \notin DOMAIN f
    <3>1. \A i \in DOMAIN f: i <= m + 1 => i <= m
      BY <1>2, <2>3
    <3>2. QED
      BY <2>1, <3>1
  <2>4. QED
    BY <2>2, <2>3
<1>5. P \in SUBSET Nat
  OBVIOUS
<1> HIDE DEF P
<1>6. P = Nat
  BY <1>3, <1>4, <1>5, NatInduct
<1>7. Len(f) \in Nat /\ \A i \in DOMAIN f: i <= Len(f)
  BY <1>1
<1>8. PICK n \in Nat: \A i \in DOMAIN f: Len(f[i]) <= n
  <2>1. Len(f) \in P
    BY <1>6, <1>7
  <2>2. \E n \in Nat: \A i \in DOMAIN f: i <= Len(f) => Len(f[i]) <= n
    BY <2>1 DEF P
  <2>3. QED
    BY <1>7, <2>2
<1>9. \A path \in S: \E i \in DOMAIN f: f[i] = path
  BY <1>1 DEF Range
<1>10. QED
  BY <1>8, <1>9

Step(tree, patterns, w, dir) ==
    FilesIn(tree, dir, patterns) \cup UNION {w[path]: path \in Below(tree, dir, patterns)}
Deep(tree, bound, n) == {dir \in Directories(tree): Len(dir) + n > bound}

LEMMA BelowIsDeeper ==
  ASSUME NEW tree, IsTree(tree), NEW patterns, NEW bound \in Nat, NEW n \in Nat,
         NEW dir \in Deep(tree, bound, n + 1), NEW path \in Below(tree, dir, patterns)
  PROVE  path \in Deep(tree, bound, n)
<1>1. path \in Directories(tree) /\ Len(path) = Len(dir) + 1
  BY DEF Below, Listed, Entries
<1>2. Len(dir) \in Nat /\ Len(dir) + (n + 1) > bound
  BY DEF Deep, Directories, IsTree
<1>3. Len(path) + n > bound
  BY <1>1, <1>2
<1>4. QED
  BY <1>1, <1>3 DEF Deep

LEMMA WalkExists ==
  ASSUME NEW tree, IsTree(tree), NEW patterns
  PROVE  \E w: w = [dir \in Directories(tree) |-> Step(tree, patterns, w, dir)]
<1> DEFINE D == Directories(tree)
           W(bound, w, n) == /\ w \in [D -> SUBSET DOMAIN tree]
                             /\ \A dir \in Deep(tree, bound, n): w[dir] = Step(tree, patterns, w, dir)
<1>1. PICK bound \in Nat: \A path \in D: Len(path) <= bound
  <2>1. DOMAIN tree \in SUBSET Paths /\ IsFiniteSet(DOMAIN tree)
    BY DEF IsTree, Paths
  <2>2. QED
    BY <2>1, Bounded DEF Directories
<1> DEFINE P == {n \in Nat: \E w: W(bound, w, n)}
<1>2. 0 \in P
  <2>1. Deep(tree, bound, 0) = {}
    <3> SUFFICES ASSUME NEW dir \in Deep(tree, bound, 0) PROVE FALSE
      OBVIOUS
    <3>1. dir \in D /\ Len(dir) \in Nat /\ Len(dir) + 0 > bound
      BY DEF Deep, Directories, IsTree
    <3>2. QED
      BY <1>1, <3>1
  <2>2. [dir \in D |-> {}] \in [D -> SUBSET DOMAIN tree]
    OBVIOUS
  <2>3. W(bound, [dir \in D |-> {}], 0)
    BY <2>1, <2>2
  <2>4. QED
    BY <2>3
<1>3. ASSUME NEW n \in P PROVE n + 1 \in P
  <2>1. PICK w: W(bound, w, n)
    OBVIOUS
  <2> DEFINE v == [dir \in D |-> IF dir \in Deep(tree, bound, n + 1)
                                 THEN Step(tree, patterns, w, dir) ELSE {}]
  <2>2. Deep(tree, bound, n + 1) \subseteq D
    BY DEF Deep
  <2>3. \A dir \in D: Below(tree, dir, patterns) \subseteq D
    BY DEF Below
  <2>4. ASSUME NEW dir \in D PROVE Step(tree, patterns, w, dir) \subseteq DOMAIN tree
    <3>1. FilesIn(tree, dir, patterns) \subseteq DOMAIN tree
      BY DEF FilesIn, Listed, Entries
    <3>2. \A path \in Below(tree, dir, patterns): w[path] \subseteq DOMAIN tree
      BY <2>1, <2>3
    <3>3. QED
      BY <3>1, <3>2 DEF Step
  <2>5. v \in [D -> SUBSET DOMAIN tree]
    BY <2>4
  <2>6. ASSUME NEW path \in Deep(tree, bound, n) PROVE v[path] = w[path]
    <3>1. path \in Deep(tree, bound, n + 1) /\ path \in D
      BY DEF Deep, Directories, IsTree
    <3>2. v[path] = Step(tree, patterns, w, path)
      BY <3>1
    <3>3. QED
      BY <2>1, <3>2
  <2>7. ASSUME NEW dir \in Deep(tree, bound, n + 1)
        PROVE  v[dir] = Step(tree, patterns, v, dir)
    <3>1. v[dir] = Step(tree, patterns, w, dir)
      BY <2>2
    <3>2. \A path \in Below(tree, dir, patterns): v[path] = w[path]
      BY <2>6, BelowIsDeeper
    <3> HIDE DEF v
    <3>3. {v[path]: path \in Below(tree, dir, patterns)} = {w[path]: path \in Below(tree, dir, patterns)}
      BY <3>2
    <3>4. QED
      BY <3>1, <3>3 DEF Step
  <2> HIDE DEF v
  <2>8. W(bound, v, n + 1)
    BY <2>5, <2>7
  <2>9. QED
    BY <2>8
<1>4. P \in SUBSET Nat
  OBVIOUS
<1>5. \E w: W(bound, w, bound + 1)
  <2> HIDE DEF P
  <2>1. P = Nat
    BY <1>2, <1>3, <1>4, NatInduct
  <2>2. bound + 1 \in P
    BY <2>1
  <2>3. QED
    BY <2>2 DEF P
<1>6. PICK w: W(bound, w, bound + 1)
  BY <1>5
<1>7. \A dir \in D: dir \in Deep(tree, bound, bound + 1)
  BY DEF Deep, Directories, IsTree
<1>8. w = [dir \in D |-> Step(tree, patterns, w, dir)]
  BY <1>6, <1>7
<1>9. QED
  BY <1>8

LEMMA WalkStep ==
  ASSUME NEW tree, IsTree(tree), NEW patterns, NEW dir \in Directories(tree)
  PROVE  WalkDirectory(tree, patterns)[dir] = Step(tree, patterns, WalkDirectory(tree, patterns), dir)
<1> DEFINE w == WalkDirectory(tree, patterns)
<1>1. \E walk: walk = [d \in Directories(tree) |-> FilesIn(tree, d, patterns)
                           \cup UNION {walk[path]: path \in Below(tree, d, patterns)}]
  BY WalkExists DEF Step
<1>2. w = [d \in Directories(tree) |-> FilesIn(tree, d, patterns)
                           \cup UNION {w[path]: path \in Below(tree, d, patterns)}]
  BY <1>1, Zenon DEF WalkDirectory
<1> HIDE DEF w
<1>3. w[dir] = Step(tree, patterns, w, dir)
  BY <1>2 DEF Step
<1>4. QED
  BY <1>3 DEF w

LEMMA WalkFindsFiles ==
  ASSUME NEW tree, IsTree(tree), NEW patterns, NEW dir \in Directories(tree)
  PROVE  WalkDirectory(tree, patterns)[dir] \subseteq FilesOf(tree)
<1> DEFINE w == WalkDirectory(tree, patterns)
<1>1. PICK bound \in Nat: \A path \in Directories(tree): Len(path) <= bound
  <2>1. DOMAIN tree \in SUBSET Paths /\ IsFiniteSet(DOMAIN tree)
    BY DEF IsTree, Paths
  <2>2. QED
    BY <2>1, Bounded DEF Directories
<1> DEFINE P == {n \in Nat: \A d \in Deep(tree, bound, n): w[d] \subseteq FilesOf(tree)}
<1>2. 0 \in P
  <2> SUFFICES ASSUME NEW d \in Deep(tree, bound, 0) PROVE FALSE
    OBVIOUS
  <2>1. d \in Directories(tree) /\ Len(d) \in Nat /\ Len(d) + 0 > bound
    BY DEF Deep, Directories, IsTree
  <2>2. QED
    BY <1>1, <2>1
<1>3. ASSUME NEW n \in P PROVE n + 1 \in P
  <2>1. ASSUME NEW d \in Deep(tree, bound, n + 1) PROVE w[d] \subseteq FilesOf(tree)
    <3>1. w[d] = Step(tree, patterns, w, d)
      BY WalkStep DEF Deep
    <3>2. FilesIn(tree, d, patterns) \subseteq FilesOf(tree)
      BY DEF FilesIn, FilesOf, Listed, Entries
    <3>3. \A path \in Below(tree, d, patterns): w[path] \subseteq FilesOf(tree)
      BY BelowIsDeeper
    <3> HIDE DEF w
    <3>4. QED
      BY <3>1, <3>2, <3>3 DEF Step
  <2> HIDE DEF w
  <2>2. QED
    BY <2>1
<1>4. P \in SUBSET Nat
  OBVIOUS
<1>5. bound + 1 \in P
  <2> HIDE DEF P
  <2>1. P = Nat
    BY <1>2, <1>3, <1>4, NatInduct
  <2>2. QED
    BY <2>1
<1>6. dir \in Deep(tree, bound, bound + 1)
  BY DEF Deep, Directories, IsTree
<1> HIDE DEF w
<1>7. w[dir] \subseteq FilesOf(tree)
  BY <1>5, <1>6
<1>8. QED
  BY <1>7 DEF w

LEMMA TargetsArePlaces ==
  ASSUME NEW tree, IsTree(tree), NEW command, IsCommand(command)
  PROVE  /\ Targets(tree, command) \subseteq FilesOf(tree) \cup {Stdin}
         /\ IsFiniteSet(Targets(tree, command))
<1>1. ASSUME NEW args, NEW patterns
      PROVE  ResolveFileArgs(tree, args, patterns) \subseteq FilesOf(tree) \cup {Stdin}
  <2> DEFINE w == WalkDirectory(tree, patterns)
  <2>1. \A arg \in args \cap Directories(tree): w[arg] \subseteq FilesOf(tree)
    BY WalkFindsFiles
  <2>2. \A arg: KindOf(tree, arg) = "file" => arg \in FilesOf(tree)
    BY DEF KindOf, FilesOf
  <2> HIDE DEF w
  <2>3. QED
    BY <2>1, <2>2 DEF ResolveFileArgs, w
<1>2. Targets(tree, command) \subseteq FilesOf(tree) \cup {Stdin}
  BY <1>1 DEF Targets
<1>3. IsFiniteSet(FilesOf(tree) \cup {Stdin})
  <2>1. IsFiniteSet(DOMAIN tree) /\ FilesOf(tree) \in SUBSET DOMAIN tree
    BY DEF IsTree, FilesOf
  <2>2. IsFiniteSet(FilesOf(tree))
    BY <2>1, FS_Subset
  <2>3. QED
    BY <2>2, FS_AddElement
<1>4. QED
  BY <1>2, <1>3, FS_Subset

LEMMA Components ==
  ASSUME NEW path \in Paths, NEW k \in 1..Len(path)
  PROVE  /\ Component(path, k) \in Paths /\ Len(Component(path, k)) = k
         /\ \A i \in 1..k: Component(path, k)[i] = path[i]
         /\ Last(Component(path, k)) = path[k]
         /\ Component(path, Len(path)) = path
BY DEF Component, Paths, Last

LEMMA PrefixIsComponent ==
  ASSUME NEW T, NEW arg \in Seq(T), NEW path \in Paths, IsPrefix(arg, path), arg # <<>>
  PROVE  arg = Component(path, Len(arg)) /\ Len(arg) \in 1..Len(path)
<1>1. Len(arg) <= Len(path) /\ SubSeq(arg, 1, Len(arg)) = SubSeq(path, 1, Len(arg))
  BY DEF IsPrefix
<1>2. SubSeq(arg, 1, Len(arg)) = arg /\ Len(arg) \in 1..Len(path)
  BY <1>1 DEF Paths
<1>3. QED
  BY <1>1, <1>2 DEF Component

LEMMA ComponentsAreNested ==
  ASSUME NEW path \in Paths, NEW k \in 1..(Len(path) - 1)
  PROVE  IsPrefix(Component(path, k), Component(path, k + 1))
<1> DEFINE a == Component(path, k)
           b == Component(path, k + 1)
<1>1. Len(path) \in Nat /\ k \in 1..Len(path) /\ k + 1 \in 1..Len(path) /\ k \in Nat
  BY DEF Paths
<1>2. a \in Paths /\ Len(a) = k /\ \A i \in 1..k: a[i] = path[i]
  BY <1>1, Components
<1>3. b \in Paths /\ Len(b) = k + 1 /\ \A i \in 1..(k + 1): b[i] = path[i]
  BY <1>1, Components
<1> HIDE DEF a, b
<1>4. SubSeq(a, 1, k) \in Seq(STRING) /\ Len(SubSeq(a, 1, k)) = k
      /\ \A i \in 1..k: SubSeq(a, 1, k)[i] = path[i]
  BY <1>1, <1>2 DEF Paths
<1>5. SubSeq(b, 1, k) \in Seq(STRING) /\ Len(SubSeq(b, 1, k)) = k
      /\ \A i \in 1..k: SubSeq(b, 1, k)[i] = path[i]
  BY <1>1, <1>3 DEF Paths
<1> DEFINE x == SubSeq(a, 1, k)
           y == SubSeq(b, 1, k)
<1>6. x \in Seq(STRING) /\ y \in Seq(STRING) /\ Len(x) = Len(y) /\ \A i \in 1..Len(x): x[i] = y[i]
  BY <1>4, <1>5
<1>7. x = y
  <2> HIDE DEF x, y
  <2>1. QED
    BY <1>6
<1>8. Len(a) <= Len(b)
  BY <1>1, <1>2, <1>3
<1>9. QED
  BY <1>2, <1>7, <1>8 DEF IsPrefix, a, b

\* Every directory on the way to a file in scope has the file in its walk.
LEMMA WalkFindsAll ==
  ASSUME NEW tree, IsTree(tree), NEW patterns, NEW path \in FilesOf(tree), ~PathExcluded(path, patterns),
         NEW arg \in DOMAIN tree, Leads(tree, arg, path, patterns)
  PROVE  arg \in Directories(tree) /\ path \in WalkDirectory(tree, patterns)[arg]
<1> DEFINE w == WalkDirectory(tree, patterns)
           n == Len(path)
           low == Len(arg)
<1>1. path \in Paths /\ path \in DOMAIN tree /\ arg \in Paths /\ arg # <<>>
  BY DEF FilesOf, IsTree, Paths
<1>2. n \in Nat /\ low \in Nat /\ low >= 1 /\ low < n /\ arg = Component(path, low)
  BY <1>1, PrefixIsComponent DEF Leads, Paths
<1>3. ASSUME NEW k \in low..(n - 1) PROVE Component(path, k) \in Directories(tree)
  <2>1. Component(path, k) \in DOMAIN tree /\ tree[Component(path, k)] \in {"dir", "locked", "link"}
    <3>1. k \in 1..(Len(path) - 1)
      BY <1>2
    <3>2. QED
      BY <1>1, <3>1 DEF IsTree, Component
  <2>2. tree[Component(path, k)] # "link"
    <3>1. CASE k = low
      BY <1>2, <2>1, <3>1 DEF Leads, KindOf
    <3>2. CASE k # low
      <4>1. k \in (Len(arg) + 1)..Len(path)
        BY <1>2, <3>2
      <4>2. KindOf(tree, Component(path, k)) # "link"
        BY <4>1 DEF Leads
      <4>3. QED
        BY <2>1, <4>2 DEF KindOf
    <3>3. QED
      BY <3>1, <3>2
  <2>3. QED
    BY <2>1, <2>2 DEF Directories
<1>4. ASSUME NEW k \in low..(n - 1)
      PROVE  /\ Component(path, k + 1) \in Entries(tree, Component(path, k))
             /\ tree[Component(path, k + 1)] \notin {"link", "unlisted"}
             /\ Name(Component(path, k + 1)) \notin HiddenNames
             /\ ~PathExcluded(Component(path, k + 1), patterns)
  <2>1. k + 1 \in (Len(arg) + 1)..Len(path) /\ k + 1 \in 1..Len(path) /\ k \in 1..Len(path)
        /\ k \in 1..(Len(path) - 1)
    BY <1>2
  <2>2. Component(path, k + 1) \in DOMAIN tree /\ tree[Component(path, k + 1)] \notin {"link", "unlisted"}
    <3>1. CASE k = n - 1
      <4>1. k + 1 = Len(path)
        BY <1>2, <3>1
      <4>2. Component(path, k + 1) = path
        BY <1>1, <2>1, <4>1, Components
      <4>3. QED
        BY <1>1, <4>2 DEF FilesOf
    <3>2. CASE k # n - 1
      <4>1. k + 1 \in low..(n - 1)
        BY <1>2, <3>2
      <4>2. QED
        BY <1>3, <4>1 DEF Directories
    <3>3. QED
      BY <3>1, <3>2
  <2>3. Len(Component(path, k)) = k /\ Len(Component(path, k + 1)) = k + 1
    BY <1>1, <2>1, Components
  <2>4. IsPrefix(Component(path, k), Component(path, k + 1))
    BY <1>1, <2>1, ComponentsAreNested
  <2>5. Name(Component(path, k + 1)) = path[k + 1]
    BY <1>1, <2>1, Components DEF Name
  <2>6. path[k + 1] \notin HiddenNames /\ ~PathExcluded(Component(path, k + 1), patterns)
    BY <2>1 DEF Leads
  <2>7. QED
    BY <2>2, <2>3, <2>4, <2>5, <2>6 DEF Entries
<1> DEFINE P == {m \in Nat: \A k \in low..(n - 1): k + m + 1 >= n => path \in w[Component(path, k)]}
<1>5. 0 \in P
  <2> SUFFICES ASSUME NEW k \in low..(n - 1), k + 0 + 1 >= n PROVE path \in w[Component(path, k)]
    OBVIOUS
  <2>1. k + 1 = n /\ n \in 1..Len(path)
    BY <1>2
  <2>2. Component(path, k + 1) = path
    BY <1>1, <2>1, Components
  <2>3. path \in FilesIn(tree, Component(path, k), patterns)
    BY <1>4, <2>2 DEF FilesIn, Listed, Leads, FilesOf
  <2>4. w[Component(path, k)] = Step(tree, patterns, w, Component(path, k))
    BY <1>3, WalkStep
  <2> HIDE DEF w
  <2>5. QED
    BY <2>3, <2>4 DEF Step
<1>6. ASSUME NEW m \in P PROVE m + 1 \in P
  <2>1. ASSUME NEW k \in low..(n - 1), k + (m + 1) + 1 >= n PROVE path \in w[Component(path, k)]
    <3>1. CASE k + m + 1 >= n
      BY <3>1
    <3>2. CASE ~(k + m + 1 >= n)
      <4>1. k + 1 \in low..(n - 1) /\ (k + 1) + m + 1 >= n
        BY <1>2, <2>1, <3>2
      <4>2. path \in w[Component(path, k + 1)]
        BY <4>1
      <4>3. Component(path, k + 1) \in Below(tree, Component(path, k), patterns)
        BY <1>3, <1>4, <4>1 DEF Below, Listed, Entries
      <4>4. w[Component(path, k)] = Step(tree, patterns, w, Component(path, k))
        BY <1>3, WalkStep
      <4> HIDE DEF w
      <4>5. QED
        BY <4>2, <4>3, <4>4 DEF Step
    <3>3. QED
      BY <3>1, <3>2
  <2> HIDE DEF w
  <2>2. QED
    BY <2>1
<1>7. P \in SUBSET Nat
  OBVIOUS
<1>8. n \in P
  <2> HIDE DEF P
  <2>1. P = Nat
    BY <1>5, <1>6, <1>7, NatInduct
  <2>2. QED
    BY <1>2, <2>1
<1>9. low \in low..(n - 1) /\ low + n + 1 >= n
  BY <1>2
<1> HIDE DEF w
<1>10. path \in w[Component(path, low)]
  BY <1>8, <1>9
<1>11. QED
  BY <1>2, <1>3, <1>9, <1>10 DEF w

LEMMA ScopeIsTargeted ==
  ASSUME NEW tree, IsTree(tree), NEW command,
         ~Refused(tree, FileArgs(tree, command), command.exclude)
  PROVE  InScope(tree, command) \subseteq Targets(tree, command)
<1> DEFINE args == FileArgs(tree, command)
           w == WalkDirectory(tree, command.exclude)
<1> SUFFICES ASSUME NEW path \in InScope(tree, command)
             PROVE  path \in Targets(tree, command)
  OBVIOUS
<1>1. path \in FilesOf(tree) /\ ~PathExcluded(path, command.exclude)
  BY DEF InScope, FilesOf
<1>2. PICK arg \in args: path = arg \/ Leads(tree, arg, path, command.exclude)
  BY DEF InScope
<1>3. CASE path = arg
  <2>1. KindOf(tree, arg) = "file"
    BY <1>1, <1>3 DEF KindOf, FilesOf
  <2>2. QED
    BY <1>1, <1>3, <2>1 DEF Targets, ResolveFileArgs
<1>4. CASE Leads(tree, arg, path, command.exclude)
  <2>1. arg \in DOMAIN tree
    <3>1. arg # Stdin => arg \in DOMAIN tree
      BY <1>2 DEF Refused, KindOf
    <3>2. ASSUME arg = Stdin PROVE FALSE
      <4>1. arg \in Seq({"--"}) /\ arg # <<>> /\ Len(arg) = 1
        <5>1. <<"--">> \in Seq({"--"})
          OBVIOUS
        <5>2. Len(<<"--">>) = 1 /\ <<"--">> # <<>>
          OBVIOUS
        <5>3. QED
          BY <3>2, <5>1, <5>2 DEF Stdin
      <4>2. path \in Paths /\ path \in DOMAIN tree /\ IsPrefix(arg, path) /\ Len(path) > 1
        BY <1>1, <1>4, <4>1 DEF FilesOf, IsTree, Paths, Leads
      <4>3. arg = Component(path, 1)
        BY <4>1, <4>2, PrefixIsComponent
      <4>4. 1 \in 1..(Len(path) - 1)
        BY <4>2 DEF Paths
      <4>5. Component(path, 1) \in DOMAIN tree
        BY <4>2, <4>4 DEF IsTree, Component
      <4>6. QED
        BY <3>2, <4>3, <4>5 DEF IsTree
    <3>3. QED
      BY <3>1, <3>2
  <2>2. arg \in Directories(tree) /\ path \in w[arg]
    BY <1>1, <1>4, <2>1, WalkFindsAll
  <2> HIDE DEF w
  <2>3. QED
    BY <1>2, <2>2 DEF Targets, ResolveFileArgs, w
<1>5. QED
  BY <1>2, <1>3, <1>4

----------------------------------------------------------------------------
(* One document *)

LEMMA RuleFacts ==
  ASSUME NEW word \in DOMAIN Rules
  PROVE  Rules[word].severity \in Severities /\ Rules[word].ambiguous \in BOOLEAN /\ Rules[word].fix \in STRING
BY BatchLintAssumption

LEMMA ConvertedDocument ==
  ASSUME NEW document \in Document
  PROVE  /\ Converted(document) \in Document
         /\ Converted(document).words = document.words
         /\ ~document.simplified => Converted(document) = document
BY DEF Document, Converted

LEMMA ScannedIssues ==
  ASSUME NEW document \in Document
  PROVE  /\ ScanOf(document) \in SUBSET Issue
         /\ \A issue \in ScanOf(document):
               issue.at \in DOMAIN document.words /\ issue.word = document.words[issue.at]
               /\ issue.word \in DOMAIN Rules
<1>1. \A k \in DOMAIN document.words: k \in Nat /\ document.words[k] \in STRING
  BY DEF Document
<1>2. QED
  BY <1>1, RuleFacts DEF ScanOf, Issue

LEMMA SamePlaces ==
  ASSUME NEW issues \in SUBSET Issue, NEW Level,
         NEW others, others = {[issue EXCEPT !.severity = Level[issue]]: issue \in issues},
         \A issue \in issues: Level[issue] \in Severities
  PROVE  others \in SUBSET Issue /\ Pairs(others) = Pairs(issues)
<1>1. \A issue \in issues: LET other == [issue EXCEPT !.severity = Level[issue]]
                           IN  other \in Issue /\ other.at = issue.at /\ other.word = issue.word
  BY DEF Issue
<1> DEFINE Other(issue) == [issue EXCEPT !.severity = Level[issue]]
<1>2. others = {Other(issue): issue \in issues} /\ others \in SUBSET Issue
  BY <1>1
<1>3. \A issue \in issues: Other(issue).at = issue.at /\ Other(issue).word = issue.word
  BY <1>1
<1> HIDE DEF Other
<1>4. ASSUME NEW x PROVE x \in Pairs(others) <=> x \in Pairs(issues)
  <2>1. x \in Pairs(others) <=> \E issue \in issues: x = <<Other(issue).at, Other(issue).word>>
    BY <1>2 DEF Pairs
  <2>2. x \in Pairs(issues) <=> \E issue \in issues: x = <<issue.at, issue.word>>
    BY DEF Pairs
  <2>3. QED
    BY <1>3, <2>1, <2>2
<1>5. QED
  BY <1>2, <1>4

LEMMA LoweredIssues ==
  ASSUME NEW issues \in SUBSET Issue, NEW command
  PROVE  Lowered(issues, command) \in SUBSET Issue /\ Pairs(Lowered(issues, command)) = Pairs(issues)
<1> DEFINE Level == [issue \in issues |-> IF issue.word \in command.rejected \cup command.ignored
                                          THEN "info" ELSE issue.severity]
<1>1. \A issue \in issues: Level[issue] \in Severities
  BY DEF Issue, Severities
<1>2. Lowered(issues, command) = {[issue EXCEPT !.severity = Level[issue]]: issue \in issues}
  BY DEF Lowered
<1> HIDE DEF Level
<1>3. QED
  BY <1>1, <1>2, SamePlaces

LEMMA DisambiguatedIssues ==
  ASSUME NEW issues \in SUBSET Issue, NEW document
  PROVE  Disambiguated(issues, document) \in SUBSET Issue
         /\ Pairs(Disambiguated(issues, document)) = Pairs(issues)
<1> DEFINE Level == [issue \in issues |->
                      IF Rules[issue.word].ambiguous /\ Clue \notin Range(document.words)
                      THEN "info" ELSE issue.severity]
<1>1. \A issue \in issues: Level[issue] \in Severities
  BY DEF Issue, Severities
<1>2. Disambiguated(issues, document) = {[issue EXCEPT !.severity = Level[issue]]: issue \in issues}
  BY DEF Disambiguated
<1> HIDE DEF Level
<1>3. QED
  BY <1>1, <1>2, SamePlaces

LEMMA FixedDocument ==
  ASSUME NEW document \in Document, NEW fixes,
         \A k \in fixes: k \in DOMAIN document.words => document.words[k] \in DOMAIN Rules
  PROVE  /\ Fixed(document, fixes) \in Document
         /\ fixes = {} => Fixed(document, fixes) = document
<1> DEFINE words == document.words
           fixed == [k \in DOMAIN words |-> IF k \in fixes THEN Rules[words[k]].fix ELSE words[k]]
<1>1. Fixed(document, fixes) = [document EXCEPT !.words = fixed]
  BY DEF Fixed
<1>2. words \in Seq(STRING) /\ DOMAIN words = 1..Len(words)
  BY DEF Document
<1>3. \A k \in DOMAIN words: fixed[k] \in STRING
  BY <1>2, RuleFacts
<1>4. fixed \in [1..Len(words) -> STRING] /\ Len(words) \in Nat
  <2>1. fixed \in [DOMAIN words -> STRING]
    BY <1>3
  <2> HIDE DEF fixed, words
  <2>2. QED
    BY <1>2, <2>1
<1>5. fixed \in Seq(STRING)
  <2> HIDE DEF fixed
  <2>1. QED
    BY <1>4
<1>6. fixes = {} => fixed = words
  BY <1>2
<1> HIDE DEF fixed
<1>7. QED
  BY <1>1, <1>5, <1>6 DEF Document

----------------------------------------------------------------------------
(* What is reported of one file *)

\* The file that is next has been read.
Ready(r) == Raw(r) \in Document /\ r.command.fix \in BOOLEAN /\ r.command.dry_run \in BOOLEAN

LEMMA FoundIssues ==
  ASSUME NEW r, Ready(r)
  PROVE  /\ Found(r) \in SUBSET Issue
         /\ Pairs(Found(r)) = Pairs(ScanOf(Converted(Raw(r))))
         /\ Applied(r) \in SUBSET Nat
         /\ ~r.command.fix => Applied(r) = {}
         /\ Output(r) \in Document
         /\ Applied(r) = {} => Output(r) = Converted(Raw(r))
<1> DEFINE document == Converted(Raw(r))
           issues == ScanOf(document)
<1>1. document \in Document
  BY ConvertedDocument DEF Ready
<1> HIDE DEF document
<1>2. issues \in SUBSET Issue /\ \A issue \in issues: issue.at \in DOMAIN document.words
           /\ issue.word = document.words[issue.at] /\ issue.word \in DOMAIN Rules
  BY <1>1, ScannedIssues
<1> HIDE DEF issues
<1>3. Found(r) = Disambiguated(issues, document)
  BY DEF Found, document, issues
<1>4. Found(r) \in SUBSET Issue /\ Pairs(Found(r)) = Pairs(issues)
  BY <1>2, <1>3, DisambiguatedIssues
<1>5. \A issue \in Found(r): \E other \in issues: other.at = issue.at /\ other.word = issue.word
  <2> SUFFICES ASSUME NEW issue \in Found(r)
               PROVE  \E other \in issues: other.at = issue.at /\ other.word = issue.word
    OBVIOUS
  <2>1. <<issue.at, issue.word>> \in Pairs(issues)
    BY <1>4 DEF Pairs
  <2>2. QED
    BY <2>1 DEF Pairs
<1>6. Applied(r) = Fixes(Found(r), document, r.command)
  BY DEF Applied, document
<1>7. \A k \in Applied(r): \E issue \in Found(r): issue.at = k
  BY <1>6 DEF Fixes
<1>8. \A k \in Applied(r): k \in Nat /\ document.words[k] \in DOMAIN Rules
  BY <1>2, <1>4, <1>5, <1>7 DEF Issue
<1>9. ~r.command.fix => Applied(r) = {}
  BY <1>6 DEF Fixes
<1>10. Output(r) = Fixed(document, Applied(r))
  BY DEF Output, document
<1>11. QED
  BY <1>1, <1>4, <1>8, <1>9, <1>10, FixedDocument DEF document, issues

LEMMA ReportedIssues ==
  ASSUME NEW r, Ready(r)
  PROVE  /\ Report(r).text \in Document /\ Report(r).issues \in SUBSET Issue
         /\ Report(r).text = IF WroteChanges(r) THEN Output(r) ELSE Converted(Raw(r))
         /\ Pairs(Report(r).issues) \subseteq Pairs(ScanOf(Report(r).text))
         /\ ~r.command.fix => Pairs(Report(r).issues) = Pairs(ScanOf(Report(r).text))
<1>1. /\ Found(r) \in SUBSET Issue /\ Pairs(Found(r)) = Pairs(ScanOf(Converted(Raw(r))))
      /\ ~r.command.fix => Applied(r) = {}
      /\ Output(r) \in Document
  BY FoundIssues
<1>2. CASE WroteChanges(r)
  <2> DEFINE scanned == RescanWrittenText(Output(r), Applied(r))
  <2>1. Report(r).text = Output(r) /\ Report(r).issues = Lowered(scanned, r.command)
    BY <1>2 DEF Report
  <2>2. scanned \subseteq ScanOf(Output(r)) /\ (Applied(r) = {} => scanned = ScanOf(Output(r)))
    BY DEF RescanWrittenText
  <2>3. scanned \in SUBSET Issue
    BY <1>1, <2>2, ScannedIssues
  <2> HIDE DEF scanned
  <2>4. Report(r).issues \in SUBSET Issue /\ Pairs(Report(r).issues) = Pairs(scanned)
    BY <2>1, <2>3, LoweredIssues
  <2>5. Pairs(scanned) \subseteq Pairs(ScanOf(Output(r)))
    BY <2>2 DEF Pairs
  <2>6. QED
    BY <1>1, <1>2, <2>1, <2>2, <2>4, <2>5
<1>3. CASE ~WroteChanges(r)
  <2>1. Report(r).text = Converted(Raw(r)) /\ Report(r).issues = Lowered(Found(r), r.command)
    BY <1>3 DEF Report
  <2>2. Report(r).issues \in SUBSET Issue /\ Pairs(Report(r).issues) = Pairs(Found(r))
    BY <1>1, <2>1, LoweredIssues
  <2>3. QED
    BY <1>1, <1>3, <2>1, <2>2, ConvertedDocument DEF Ready
<1>4. QED
  BY <1>2, <1>3

LEMMA FiniteImage ==
  ASSUME NEW f, IsFiniteSet(DOMAIN f)
  PROVE  IsFiniteSet(Range(f)) /\ Cardinality(Range(f)) <= Cardinality(DOMAIN f)
<1> DEFINE g == [x \in DOMAIN f |-> f[x]]
<1>1. g \in Surjection(DOMAIN f, Range(f))
  BY DEF Surjection, Range
<1> HIDE DEF g
<1>2. QED
  BY <1>1, FS_Surjection

LEMMA FiniteReport ==
  ASSUME NEW r, Ready(r)
  PROVE  IsFiniteSet(Report(r).issues)
<1>1. ASSUME NEW document \in Document PROVE IsFiniteSet(ScanOf(document))
  <2> DEFINE words == document.words
             K == {k \in DOMAIN words: words[k] \in DOMAIN Rules}
             f == [k \in K |-> [at |-> k, word |-> words[k], severity |-> Rules[words[k]].severity]]
  <2>1. DOMAIN words = 1..Len(words) /\ Len(words) \in Nat
    BY DEF Document
  <2>2. IsFiniteSet(1..Len(words)) /\ K \in SUBSET (1..Len(words))
    BY <2>1, FS_Interval
  <2>3. IsFiniteSet(K)
    BY <2>2, FS_Subset
  <2>4. DOMAIN f = K /\ Range(f) = ScanOf(document)
    BY DEF Range, ScanOf
  <2> HIDE DEF f, K
  <2>5. QED
    BY <2>3, <2>4, FiniteImage
<1>2. ASSUME NEW issues, IsFiniteSet(issues), NEW command PROVE IsFiniteSet(Lowered(issues, command))
  <2> DEFINE f == [issue \in issues |-> [issue EXCEPT !.severity =
                     IF issue.word \in command.rejected \cup command.ignored THEN "info" ELSE @]]
  <2>1. DOMAIN f = issues /\ Range(f) = Lowered(issues, command)
    BY DEF Range, Lowered
  <2> HIDE DEF f
  <2>2. QED
    BY <1>2, <2>1, FiniteImage
<1>3. ASSUME NEW issues, IsFiniteSet(issues), NEW document PROVE IsFiniteSet(Disambiguated(issues, document))
  <2> DEFINE f == [issue \in issues |-> [issue EXCEPT !.severity =
                     IF Rules[issue.word].ambiguous /\ Clue \notin Range(document.words) THEN "info" ELSE @]]
  <2>1. DOMAIN f = issues /\ Range(f) = Disambiguated(issues, document)
    BY DEF Range, Disambiguated
  <2> HIDE DEF f
  <2>2. QED
    BY <1>3, <2>1, FiniteImage
<1>4. Converted(Raw(r)) \in Document /\ Output(r) \in Document
  BY ConvertedDocument, FoundIssues DEF Ready
<1>5. IsFiniteSet(Found(r))
  BY <1>1, <1>3, <1>4 DEF Found
<1>6. IsFiniteSet(RescanWrittenText(Output(r), Applied(r)))
  <2>1. RescanWrittenText(Output(r), Applied(r)) \in SUBSET ScanOf(Output(r))
    BY DEF RescanWrittenText
  <2>2. QED
    BY <1>1, <1>4, <2>1, FS_Subset
<1>7. CASE WroteChanges(r)
  BY <1>2, <1>6, <1>7 DEF Report
<1>8. CASE ~WroteChanges(r)
  BY <1>2, <1>5, <1>8 DEF Report
<1>9. QED
  BY <1>7, <1>8

\* An error that nothing lowers, the fixer has not written and Tier 2 is sure of is
\* reported as one.
LEMMA ErrorsAreReported ==
  ASSUME NEW r, Ready(r), NEW k \in DOMAIN Report(r).text.words \ Applied(r),
         NEW word, word = Report(r).text.words[k],
         word \in DOMAIN Rules, Rules[word].severity = "error",
         ~(Rules[word].ambiguous /\ Clue \notin Range(Report(r).text.words)),
         word \notin r.command.rejected \cup r.command.ignored
  PROVE  [at |-> k, word |-> word, severity |-> "error"] \in Report(r).issues
<1> DEFINE issue == [at |-> k, word |-> word, severity |-> "error"]
<1>1. issue.word = word /\ issue.at = k /\ issue.severity = "error"
  OBVIOUS
<1>2. [issue EXCEPT !.severity = "error"] = issue
  OBVIOUS
<1>3. issue \in ScanOf(Report(r).text)
  BY DEF ScanOf
<1> HIDE DEF issue
<1>4. ASSUME NEW issues, issue \in issues PROVE issue \in Lowered(issues, r.command)
  <2> DEFINE Level(other) == [other EXCEPT !.severity =
               IF other.word \in r.command.rejected \cup r.command.ignored THEN "info" ELSE @]
  <2>1. Level(issue) = issue
    BY <1>1, <1>2
  <2>2. Lowered(issues, r.command) = {Level(other): other \in issues}
    BY DEF Lowered
  <2> HIDE DEF Level
  <2>3. QED
    BY <1>4, <2>1, <2>2
<1>5. CASE WroteChanges(r)
  <2>1. Report(r).text = Output(r)
        /\ Report(r).issues = Lowered(RescanWrittenText(Output(r), Applied(r)), r.command)
    BY <1>5 DEF Report
  <2>2. issue \in RescanWrittenText(Output(r), Applied(r))
    BY <1>1, <1>3, <2>1 DEF RescanWrittenText
  <2>3. QED
    BY <1>4, <2>1, <2>2 DEF issue
<1>6. CASE ~WroteChanges(r)
  <2> DEFINE document == Converted(Raw(r))
             Level(other) == [other EXCEPT !.severity =
               IF Rules[other.word].ambiguous /\ Clue \notin Range(document.words) THEN "info" ELSE @]
  <2>1. Report(r).text = document /\ Report(r).issues = Lowered(Found(r), r.command)
    BY <1>6 DEF Report
  <2>2. Level(issue) = issue
    BY <1>1, <1>2, <2>1
  <2>3. Found(r) = {Level(other): other \in ScanOf(document)}
    BY DEF Found, Disambiguated
  <2> HIDE DEF Level
  <2>4. issue \in Found(r)
    BY <1>3, <2>1, <2>2, <2>3
  <2>5. QED
    BY <1>4, <2>1, <2>4 DEF issue
<1>7. QED
  BY <1>5, <1>6

----------------------------------------------------------------------------
(* What one step does to the run that takes it *)

LEMMA SceneFacts ==
  ASSUME NEW s \in Scenes
  PROVE  /\ IsTree(s.tree)
         /\ \A command \in CommandsOf(s): IsCommand(command)
         /\ \A path \in FilesOf(s.tree): path \in DOMAIN s.documents
         /\ s.documents \in [DOMAIN s.documents -> Document]
         /\ DOMAIN s.documents \subseteq DOMAIN s.tree
         /\ s.drafts \subseteq Document
BY BatchLintAssumption DEF CommandsOf, FilesOf

\* The same findings, in a run that has gone on.
LEMMA ToldStays ==
  ASSUME NEW r, Told(r), NEW q, q.told = r.told, q.command = r.command, q.loaded = r.loaded,
         q.marks = r.marks, q.errors = r.errors, q.at # "idle" => r.at # "idle"
  PROVE  Told(q)
<1>1. AllStandingErrors(q) = AllStandingErrors(r)
  <2>1. \A path: StandingErrors(q, path) = StandingErrors(r, path)
    BY DEF StandingErrors
  <2>2. QED
    BY <2>1 DEF AllStandingErrors
<1>2. Filters(q) <=> Filters(r)
  BY DEF Filters
<1>3. \A path: Tells(r, path) => Tells(q, path)
  BY <1>2 DEF Tells
<1>4. QED
  BY <1>1, <1>3 DEF Told

LEMMA NothingTold ==
  ASSUME NEW r, r.told = <<>>, r.marks = r.loaded, r.errors = 0
  PROVE  Told(r)
<1>1. DOMAIN r.told = {}
  OBVIOUS
<1>2. AllStandingErrors(r) = {}
  BY <1>1 DEF AllStandingErrors
<1>3. QED
  BY <1>1, <1>2, FS_EmptySet DEF Told

LEMMA EmptyFunction ==
  ASSUME NEW S
  PROVE  <<>> \in Seq(S) /\ <<>> \in [DOMAIN <<>> -> S] /\ DOMAIN <<>> = {}
<1>1. <<>> = [x \in {} |-> {}]
  OBVIOUS
<1>2. QED
  BY <1>1

LEMMA IdleLocal ==
  ASSUME NEW s \in Scenes
  PROVE  Local(s, Idle)
<1>1. Typed(s, Idle)
  <2>1. Shape(Idle)
    BY DEF Shape, Idle
  <2>2. Idle.targets \in Seq(Places(s)) /\ Idle.read \in [DOMAIN Idle.read -> Document]
        /\ Idle.told \in [DOMAIN Idle.told -> Telling]
    BY EmptyFunction DEF Idle
  <2>3. QED
    BY <2>1, <2>2 DEF Typed, Idle, ProcessStates
<1>2. InOrder(Idle)
  BY DEF InOrder, Idle, IsInjective, Working
<1>3. Complete(s, Idle)
  BY DEF Complete, Idle
<1>4. Told(Idle)
  BY NothingTold DEF Idle
<1>5. QED
  BY <1>1, <1>2, <1>3, <1>4 DEF Local

LEMMA AskedLocal ==
  ASSUME NEW s \in Scenes, NEW command \in CommandsOf(s), NEW ended \in SUBSET Processes, NEW code \in {0, 2}
  PROVE  Local(s, Ended(Asked(command, ended), code))
<1> DEFINE q == Ended(Asked(command, ended), code)
<1>1. /\ q = [Idle EXCEPT !.command = command, !.after = ended, !.at = "ended", !.code = code]
      /\ q.at = "ended" /\ q.command = command /\ q.targets = <<>> /\ q.read = <<>> /\ q.next = 1
      /\ q.loaded = {} /\ q.marks = {} /\ q.told = <<>> /\ q.errors = 0 /\ q.failed = 0 /\ q.code = code
      /\ q.after = ended /\ q.warnings = 0 /\ Shape(q)
  BY DEF Ended, Asked, Idle, Shape
<1> HIDE DEF q
<1>2. Typed(s, q)
  <2>1. q.targets \in Seq(Places(s)) /\ q.read \in [DOMAIN q.read -> Document]
        /\ q.told \in [DOMAIN q.told -> Telling]
    BY <1>1, EmptyFunction
  <2>2. QED
    BY <1>1, <2>1 DEF Typed, ProcessStates
<1>3. InOrder(q)
  BY <1>1 DEF InOrder, IsInjective, Working
<1>4. Complete(s, q)
  BY <1>1 DEF Complete
<1>5. Told(q)
  BY <1>1, NothingTold
<1>6. QED
  BY <1>2, <1>3, <1>4, <1>5 DEF Local, q

LEMMA PreparedLocal ==
  ASSUME NEW s \in Scenes, NEW command \in CommandsOf(s), NEW ended \in SUBSET Processes, NEW marks,
         ~Refused(s.tree, FileArgs(s.tree, command), command.exclude)
  PROVE  Local(s, Prepared(Asked(command, ended), s.tree, marks))
<1> DEFINE targets == Targets(s.tree, command)
           order == SetToSeq(targets)
           known == IF command.baseline THEN marks ELSE {}
           q == Prepared(Asked(command, ended), s.tree, marks)
<1>1. targets \subseteq Places(s) /\ IsFiniteSet(targets)
  BY SceneFacts, TargetsArePlaces DEF Places
<1>2. order \in Seq(Places(s)) /\ IsInjective(order) /\ Range(order) = targets
  <2> HIDE DEF targets
  <2>1. order \in Seq(targets) /\ IsInjective(order) /\ Range(order) = targets
    BY <1>1, SeqOfSet
  <2> HIDE DEF order
  <2>2. QED
    BY <1>1, <2>1
<1>3. q = [Idle EXCEPT !.command = command, !.after = ended, !.at = "scanning", !.targets = order,
                       !.loaded = known, !.marks = known]
  BY DEF Prepared, Asked, Idle
<1> HIDE DEF order, known, targets
<1>4. /\ q.at = "scanning" /\ q.command = command /\ q.targets = order /\ q.read = <<>> /\ q.next = 1
      /\ q.loaded = known /\ q.marks = known /\ q.told = <<>> /\ q.errors = 0 /\ q.failed = 0 /\ q.code = 0
      /\ q.after = ended /\ q.warnings = 0 /\ Shape(q)
  BY <1>3 DEF Idle, Shape
<1> HIDE DEF q
<1>5. Typed(s, q)
  BY <1>2, <1>4, EmptyFunction DEF Typed, ProcessStates
<1>6. Len(order) \in Nat
  BY <1>2
<1>7. InOrder(q)
  <2>1. order # <<>>
    <3>1. targets # {}
      BY DEF Refused, Targets, targets
    <3>2. Range(<<>>) = {}
      BY DEF Range
    <3>3. QED
      BY <1>2, <3>1, <3>2
  <2>2. QED
    BY <1>2, <1>4, <1>6, <2>1 DEF InOrder
<1>8. Complete(s, q)
  BY <1>2, <1>4 DEF Complete, targets
<1>9. Told(q)
  BY <1>4, NothingTold
<1>10. QED
  BY <1>5, <1>7, <1>8, <1>9 DEF Local, q

LEMMA WithReadLocal ==
  ASSUME NEW s \in Scenes, NEW r, Local(s, r), r.at = "scanning",
         NEW k \in DOMAIN r.targets \ DOMAIN r.read, NEW document \in Document
  PROVE  Local(s, WithRead(r, k, document))
<1> DEFINE q == WithRead(r, k, document)
<1>1. /\ q = [r EXCEPT !.read = q.read, !.at = q.at] /\ Shape(q)
      /\ DOMAIN q.read = {k} \cup DOMAIN r.read
      /\ q.read[k] = document
      /\ \A j \in DOMAIN r.read: j # k => q.read[j] = r.read[j]
      /\ q.at = IF DOMAIN q.read = DOMAIN r.targets THEN "reporting" ELSE "scanning"
  <2>1. Typed(s, r)
    BY DEF Local
  <2>2. QED
    BY <2>1 DEF WithRead, Typed, Shape
<1>2. q.read = [j \in DOMAIN q.read |-> q.read[j]]
  BY DEF WithRead, Local, Typed, Shape
<1> HIDE DEF q
<1>3. q.read \in [DOMAIN q.read -> Document]
  <2>1. \A j \in DOMAIN q.read: q.read[j] \in Document
    BY <1>1 DEF Local, Typed
  <2>2. QED
    BY <1>2, <2>1
<1>4. /\ q.command = r.command /\ q.targets = r.targets /\ q.next = r.next /\ q.loaded = r.loaded
      /\ q.marks = r.marks /\ q.told = r.told /\ q.errors = r.errors /\ q.failed = r.failed
      /\ q.after = r.after /\ q.warnings = r.warnings /\ q.code = r.code
  BY <1>1 DEF Local, Typed, Shape
<1>5. Typed(s, q)
  BY <1>1, <1>3, <1>4 DEF Local, Typed, ProcessStates
<1>6. r.next = 1 /\ r.next \in Nat
  BY DEF Local, InOrder
<1>7. InOrder(q)
  BY <1>1, <1>4, <1>6 DEF Local, InOrder, Working
<1>8. Complete(s, q)
  BY <1>1, <1>4, <1>6 DEF Local, Complete
<1>9. Told(q)
  BY <1>4, ToldStays DEF Local
<1>10. QED
  BY <1>5, <1>7, <1>8, <1>9 DEF Local, q

\* Everything but where the run is and who has saved since.
Same(q, r) ==
    /\ Shape(q)
    /\ q.command = r.command /\ q.after = r.after /\ q.targets = r.targets /\ q.read = r.read
    /\ q.next = r.next /\ q.loaded = r.loaded /\ q.marks = r.marks /\ q.told = r.told
    /\ q.errors = r.errors /\ q.warnings = r.warnings /\ q.failed = r.failed

LEMMA SameViews ==
  ASSUME NEW r, NEW q, q.command = r.command, q.targets = r.targets, q.read = r.read, q.next = r.next
  PROVE  /\ Raw(q) = Raw(r) /\ Subject(q) = Subject(r) /\ Applied(q) = Applied(r)
         /\ Output(q) = Output(r) /\ (WroteChanges(q) <=> WroteChanges(r))
<1>1. Raw(q) = Raw(r) /\ Subject(q) = Subject(r)
  BY DEF Raw, Subject
<1>2. Found(q) = Found(r)
  BY <1>1 DEF Found
<1>3. Applied(q) = Applied(r)
  BY <1>1, <1>2 DEF Applied
<1>4. QED
  BY <1>1, <1>3 DEF Output, WroteChanges, HasTextChanges

LEMMA SameLocal ==
  ASSUME NEW s \in Scenes, NEW r, Local(s, r), NEW q, Same(q, r),
         q.at \in ProcessStates, q.code \in 0..2, r.at # "idle" \/ q.at = "idle",
         \/ DOMAIN r.read = DOMAIN r.targets
         \/ r.next = 1 /\ q.at \in {"scanning", "killed"},
         q.at \in {"idle", "scanning"} => r.next = 1,
         q.at = "persisting" => /\ r.next \in DOMAIN r.targets
                                /\ Raw(r).readable /\ WroteChanges(r) /\ Subject(r) # Stdin,
         q.at \in Working => r.targets # <<>>,
         q.at = "saving" => /\ r.next > Len(r.targets)
                            /\ r.command.baseline /\ r.command.update_baseline,
         q.at = "ended" /\ q.code # 2 /\ r.targets # <<>> =>
            /\ r.failed = 0 /\ r.next > Len(r.targets)
            /\ q.code = 0 => r.errors <= r.command.max_errors
  PROVE  Local(s, q)
<1>1. Typed(s, q)
  BY DEF Local, Typed, Same
<1>2. InOrder(q)
  BY SameViews DEF Local, InOrder, Same
<1>3. Complete(s, q)
  BY DEF Local, Complete, Same
<1>4. Told(q)
  BY ToldStays DEF Local, Same
<1>5. QED
  BY <1>1, <1>2, <1>3, <1>4 DEF Local

LEMMA ForeignLocal ==
  ASSUME NEW s \in Scenes, NEW r, Local(s, r), NEW foreign
  PROVE  Local(s, [r EXCEPT !.foreign = foreign])
<1> DEFINE q == [r EXCEPT !.foreign = foreign]
<1>1. Same(q, r) /\ q.at = r.at /\ q.code = r.code
  BY DEF Local, Typed, Shape, Same
<1> HIDE DEF q
<1>2. Local(s, q)
  BY <1>1, SameLocal DEF Local, Typed, InOrder, Complete
<1>3. QED
  BY <1>2 DEF q

LEMMA KilledLocal ==
  ASSUME NEW s \in Scenes, NEW r, Local(s, r), r.at # "idle"
  PROVE  Local(s, [r EXCEPT !.at = "killed"])
<1> DEFINE q == [r EXCEPT !.at = "killed"]
<1>1. Same(q, r) /\ q.at = "killed" /\ q.code = r.code
  BY DEF Local, Typed, Shape, Same
<1> HIDE DEF q
<1>2. Local(s, q)
  BY <1>1, SameLocal DEF Local, Typed, InOrder, ProcessStates, Working
<1>3. QED
  BY <1>2 DEF q

LEMMA PersistingLocal ==
  ASSUME NEW s \in Scenes, NEW r, Local(s, r), r.at = "reporting", r.next \in DOMAIN r.targets,
         Raw(r).readable, WroteChanges(r), Subject(r) # Stdin
  PROVE  Local(s, [r EXCEPT !.at = "persisting"])
<1> DEFINE q == [r EXCEPT !.at = "persisting"]
<1>1. Same(q, r) /\ q.at = "persisting" /\ q.code = r.code
  BY DEF Local, Typed, Shape, Same
<1> HIDE DEF q
<1>2. Local(s, q)
  BY <1>1, SameLocal DEF Local, Typed, InOrder, ProcessStates, Working
<1>3. QED
  BY <1>2 DEF q

LEMMA SavingLocal ==
  ASSUME NEW s \in Scenes, NEW r, Local(s, r), r.at = "reporting", r.next > Len(r.targets),
         r.command.baseline, r.command.update_baseline
  PROVE  Local(s, [r EXCEPT !.at = "saving"])
<1> DEFINE q == [r EXCEPT !.at = "saving"]
<1>1. Same(q, r) /\ q.at = "saving" /\ q.code = r.code
  BY DEF Local, Typed, Shape, Same
<1> HIDE DEF q
<1>2. Local(s, q)
  BY <1>1, SameLocal DEF Local, Typed, InOrder, ProcessStates, Working
<1>3. QED
  BY <1>2 DEF q

LEMMA EndedLocal ==
  ASSUME NEW s \in Scenes, NEW r, Local(s, r), r.at \in {"reporting", "saving"}, r.next > Len(r.targets),
         NEW code \in {2, ExitCode(r)}
  PROVE  Local(s, Ended(r, code))
<1> DEFINE q == Ended(r, code)
<1>1. Same(q, r) /\ q.at = "ended" /\ q.code = code
  BY DEF Local, Typed, Shape, Same, Ended
<1>2. r.failed \in Nat /\ r.errors \in Nat /\ r.command.max_errors \in Nat
  BY SceneFacts DEF Local, Typed, IsCommand
<1>3. /\ code \in 0..2
      /\ code # 2 => r.failed = 0
      /\ code = 0 => r.errors <= r.command.max_errors
  <2>1. CASE r.failed > 0
    <3>1. ExitCode(r) = 2
      BY <2>1 DEF ExitCode
    <3>2. QED
      BY <3>1
  <2>2. CASE ~(r.failed > 0) /\ r.errors > r.command.max_errors
    <3>1. ExitCode(r) = 1 /\ r.failed = 0
      BY <1>2, <2>2 DEF ExitCode
    <3>2. QED
      BY <3>1
  <2>3. CASE ~(r.failed > 0) /\ ~(r.errors > r.command.max_errors)
    <3>1. ExitCode(r) \in {0, 1} /\ r.failed = 0 /\ r.errors <= r.command.max_errors
      BY <1>2, <2>3 DEF ExitCode
    <3>2. QED
      BY <3>1
  <2>4. QED
    BY <2>1, <2>2, <2>3
<1> HIDE DEF q
<1>4. Local(s, q)
  BY <1>1, <1>3, SameLocal DEF Local, Typed, InOrder, ProcessStates, Working
<1>5. QED
  BY <1>4 DEF q

LEMMA UnprocessedLocal ==
  ASSUME NEW s \in Scenes, NEW r, Local(s, r), r.at \in {"reporting", "persisting"}, r.next \in DOMAIN r.targets
  PROVE  Local(s, Unprocessed(r))
<1> DEFINE q == Unprocessed(r)
<1>1. /\ q.at = "reporting" /\ q.next = r.next + 1 /\ q.failed = r.failed + 1 /\ q.code = r.code
      /\ q.command = r.command /\ q.after = r.after /\ q.targets = r.targets /\ q.read = r.read
      /\ q.loaded = r.loaded /\ q.marks = r.marks /\ q.told = r.told
      /\ q.errors = r.errors /\ q.warnings = r.warnings /\ Shape(q)
  BY DEF Local, Typed, Shape, Unprocessed
<1> HIDE DEF q
<1>2. r.next \in 1..Len(r.targets) /\ Len(r.targets) \in Nat /\ r.failed \in Nat
  BY DEF Local, Typed
<1>3. Typed(s, q)
  BY <1>1, <1>2 DEF Local, Typed, ProcessStates
<1>4. InOrder(q)
  <2>1. DOMAIN q.told \subseteq {q.targets[k]: k \in 1..(q.next - 1)}
    <3>1. \A k \in 1..(r.next - 1): k \in 1..(q.next - 1)
      BY <1>1, <1>2
    <3>2. QED
      BY <1>1, <3>1 DEF Local, InOrder
  <2>2. q.next \in 1..(Len(q.targets) + 1)
    BY <1>1, <1>2
  <2>3. QED
    BY <1>1, <2>1, <2>2 DEF Local, InOrder, Working
<1>5. Complete(s, q)
  <2>1. q.failed # 0
    BY <1>1, <1>2
  <2>2. QED
    BY <1>1, <2>1 DEF Local, Complete
<1>6. Told(q)
  BY <1>1, ToldStays DEF Local
<1>7. QED
  BY <1>3, <1>4, <1>5, <1>6 DEF Local, q

\* What Reported adds: the issues the baseline does not know, and what is told of the file.
NewIssues(r) ==
    {issue \in Report(r).issues: Filters(r) => Fingerprint(Subject(r), issue) \notin r.marks}
Entry(r) == [text |-> Report(r).text, issues |-> NewIssues(r), written |-> Applied(r)]

LEMMA ReportedFields ==
  ASSUME NEW s \in Scenes, NEW r, Typed(s, r), NEW q, q = Reported(r)
  PROVE  /\ q.at = "reporting" /\ q.next = r.next + 1 /\ q.failed = r.failed /\ q.code = r.code
         /\ q.command = r.command /\ q.after = r.after /\ q.targets = r.targets /\ q.read = r.read
         /\ q.loaded = r.loaded /\ q.foreign = r.foreign /\ Shape(q)
         /\ q.marks = IF r.command.update_baseline THEN r.marks \cup Adopted(Subject(r), Report(r).issues)
                      ELSE r.marks
         /\ q.told = [told \in {Subject(r)} \cup DOMAIN r.told |->
                        IF told = Subject(r) THEN Entry(r) ELSE r.told[told]]
         /\ q.errors = r.errors + Count(NewIssues(r), "error")
         /\ q.warnings = r.warnings + Count(NewIssues(r), "warning")
<1> DEFINE told == [told \in {Subject(r)} \cup DOMAIN r.told |->
                        IF told = Subject(r) THEN Entry(r) ELSE r.told[told]]
           marks == IF r.command.update_baseline THEN r.marks \cup Adopted(Subject(r), Report(r).issues)
                      ELSE r.marks
           errors == r.errors + Count(NewIssues(r), "error")
           warnings == r.warnings + Count(NewIssues(r), "warning")
<1>1. q = [r EXCEPT !.at = "reporting", !.next = r.next + 1, !.marks = marks, !.told = told,
                    !.errors = errors, !.warnings = warnings]
  BY DEF Reported, NewIssues, Entry
<1> HIDE DEF told, marks, errors, warnings
<1>2. /\ q.at = "reporting" /\ q.next = r.next + 1 /\ q.failed = r.failed /\ q.code = r.code
      /\ q.command = r.command /\ q.after = r.after /\ q.targets = r.targets /\ q.read = r.read
      /\ q.loaded = r.loaded /\ q.foreign = r.foreign /\ Shape(q)
      /\ q.marks = marks /\ q.told = told /\ q.errors = errors /\ q.warnings = warnings
  BY <1>1 DEF Typed, Shape
<1>3. QED
  BY <1>2 DEF told, marks, errors, warnings

\* What the taken file adds to the standing errors is counted.
LEMMA StandingCounted ==
  ASSUME NEW s \in Scenes, NEW r, Typed(s, r), Ready(r), Told(r), r.at # "idle", Subject(r) \notin DOMAIN r.told,
         NEW q, q = Reported(r)
  PROVE  /\ Count(NewIssues(r), "error") \in Nat /\ Count(NewIssues(r), "warning") \in Nat
         /\ IsFiniteSet(AllStandingErrors(q)) /\ Cardinality(AllStandingErrors(q)) <= q.errors
<1> DEFINE path == Subject(r)
           rest == AllStandingErrors(r)
           mine == {path} \X StandingErrors(q, path)
           E == {issue \in NewIssues(r): issue.severity = "error"}
<1>1. /\ q.command = r.command /\ q.loaded = r.loaded
      /\ q.told = [told \in {path} \cup DOMAIN r.told |-> IF told = path THEN Entry(r) ELSE r.told[told]]
      /\ q.errors = r.errors + Count(NewIssues(r), "error")
  BY ReportedFields
<1>2. IsFiniteSet(NewIssues(r))
  <2>1. NewIssues(r) \in SUBSET Report(r).issues
    BY DEF NewIssues
  <2>2. QED
    BY <2>1, FiniteReport, FS_Subset
<1>3. \A severity: Count(NewIssues(r), severity) \in Nat
  <2> SUFFICES ASSUME NEW severity PROVE Count(NewIssues(r), severity) \in Nat
    OBVIOUS
  <2>1. {issue \in NewIssues(r): issue.severity = severity} \in SUBSET NewIssues(r)
    OBVIOUS
  <2>2. QED
    BY <1>2, <2>1, FS_Subset, FS_CardinalityType DEF Count
<1>4. AllStandingErrors(q) = rest \cup mine
  <2>1. ASSUME NEW told \in DOMAIN r.told PROVE StandingErrors(q, told) = StandingErrors(r, told)
    BY <1>1 DEF StandingErrors
  <2>2. DOMAIN q.told = {path} \cup DOMAIN r.told
    BY <1>1
  <2> DEFINE Of(x, told) == {told} \X StandingErrors(x, told)
  <2>3. \A told \in DOMAIN r.told: Of(q, told) = Of(r, told)
    BY <2>1
  <2>4. rest = UNION {Of(r, told): told \in DOMAIN r.told} /\ mine = Of(q, path)
        /\ AllStandingErrors(q) = UNION {Of(q, told): told \in DOMAIN q.told}
    BY DEF AllStandingErrors
  <2> HIDE DEF Of, rest, mine, path
  <2>5. QED
    BY <2>2, <2>3, <2>4
<1>5. ASSUME NEW k \in StandingErrors(q, path) PROVE \E issue \in E: issue.at = k
  <2> DEFINE word == Report(r).text.words[k]
             issue == [at |-> k, word |-> word, severity |-> "error"]
  <2>1. q.told[path].text = Report(r).text /\ q.told[path].written = Applied(r)
    BY <1>1 DEF Entry
  <2>2. /\ k \in DOMAIN Report(r).text.words \ Applied(r)
        /\ word \in DOMAIN Rules /\ Rules[word].severity = "error"
        /\ ~(Rules[word].ambiguous /\ Clue \notin Range(Report(r).text.words))
        /\ word \notin r.command.rejected \cup r.command.ignored
        /\ <<path, word>> \notin r.loaded
    BY <1>1, <2>1 DEF StandingErrors
  <2>3. issue \in Report(r).issues
    BY <2>2, ErrorsAreReported
  <2>4. Filters(r) => r.marks = r.loaded
    BY DEF Told, Filters
  <2>5. issue \in NewIssues(r)
    BY <2>2, <2>3, <2>4 DEF NewIssues, Fingerprint
  <2>6. QED
    BY <2>5
<1>6. IsFiniteSet(mine) /\ Cardinality(mine) <= Count(NewIssues(r), "error")
  <2> DEFINE f == [issue \in E |-> <<path, issue.at>>]
  <2>1. IsFiniteSet(E) /\ Cardinality(E) = Count(NewIssues(r), "error")
    <3>1. E \in SUBSET NewIssues(r)
      OBVIOUS
    <3>2. QED
      BY <1>2, <3>1, FS_Subset DEF Count
  <2>2. DOMAIN f = E /\ mine \in SUBSET Range(f)
    <3> SUFFICES ASSUME NEW x \in mine PROVE x \in Range(f)
      OBVIOUS
    <3>1. PICK k \in StandingErrors(q, path): x = <<path, k>>
      OBVIOUS
    <3>2. PICK issue \in E: issue.at = k
      BY <1>5
    <3>3. f[issue] = x /\ issue \in DOMAIN f
      BY <3>1, <3>2
    <3> HIDE DEF f
    <3>4. QED
      BY <3>3 DEF Range
  <2> HIDE DEF f, mine, E
  <2>3. IsFiniteSet(Range(f)) /\ Cardinality(Range(f)) <= Cardinality(E)
    BY <2>1, <2>2, FiniteImage
  <2>4. IsFiniteSet(mine) /\ Cardinality(mine) <= Cardinality(Range(f))
    BY <2>2, <2>3, FS_Subset
  <2>5. Cardinality(mine) \in Nat /\ Cardinality(Range(f)) \in Nat /\ Cardinality(E) \in Nat
    BY <2>1, <2>3, <2>4, FS_CardinalityType
  <2>6. QED
    BY <2>1, <2>3, <2>4, <2>5
<1>7. IsFiniteSet(rest) /\ Cardinality(rest) <= r.errors /\ r.errors \in Nat
  BY DEF Told, Typed
<1> DEFINE n == Count(NewIssues(r), "error")
           all == AllStandingErrors(q)
<1> HIDE DEF rest, mine, n, all
<1>8. IsFiniteSet(all) /\ Cardinality(all) = Cardinality(rest) + Cardinality(mine) - Cardinality(rest \cap mine)
  BY <1>4, <1>6, <1>7, FS_Union DEF all
<1>9. Cardinality(rest) \in Nat /\ Cardinality(mine) \in Nat /\ Cardinality(rest \cap mine) \in Nat
  BY <1>6, <1>7, FS_CardinalityType, FS_Intersection
<1>10. n \in Nat /\ Cardinality(mine) <= n
  BY <1>3, <1>6 DEF n
<1>11. Cardinality(all) <= r.errors + n
  BY <1>7, <1>8, <1>9, <1>10
<1>12. QED
  BY <1>1, <1>3, <1>8, <1>11 DEF n, all

LEMMA TakenOnce ==
  ASSUME NEW r, InOrder(r), r.next \in DOMAIN r.targets, DOMAIN r.targets = 1..Len(r.targets)
  PROVE  Subject(r) \notin DOMAIN r.told
<1> SUFFICES ASSUME NEW k \in 1..(r.next - 1), r.targets[k] = r.targets[r.next] PROVE FALSE
  BY DEF InOrder, Subject
<1>1. k \in DOMAIN r.targets /\ k # r.next
  OBVIOUS
<1>2. QED
  BY <1>1 DEF InOrder, IsInjective, Working

LEMMA ReportedLocal ==
  ASSUME NEW s \in Scenes, NEW r, Local(s, r), r.at \in {"reporting", "persisting"}, r.next \in DOMAIN r.targets,
         Raw(r).readable
  PROVE  Local(s, Reported(r))
<1> DEFINE q == Reported(r)
           path == Subject(r)
<1>1. /\ q.at = "reporting" /\ q.next = r.next + 1 /\ q.failed = r.failed /\ q.code = r.code
      /\ q.command = r.command /\ q.after = r.after /\ q.targets = r.targets /\ q.read = r.read
      /\ q.loaded = r.loaded /\ q.foreign = r.foreign /\ Shape(q)
      /\ q.marks = IF r.command.update_baseline THEN r.marks \cup Adopted(path, Report(r).issues)
                   ELSE r.marks
      /\ q.told = [told \in {path} \cup DOMAIN r.told |-> IF told = path THEN Entry(r) ELSE r.told[told]]
      /\ q.errors = r.errors + Count(NewIssues(r), "error")
      /\ q.warnings = r.warnings + Count(NewIssues(r), "warning")
  BY ReportedFields DEF Local
<1> HIDE DEF q
<1>2. r.next \in 1..Len(r.targets) /\ Len(r.targets) \in Nat /\ DOMAIN r.read = DOMAIN r.targets
      /\ DOMAIN r.targets = 1..Len(r.targets)
  BY DEF Local, Typed, InOrder
<1>3. Ready(r)
  BY <1>2, SceneFacts DEF Local, Typed, Ready, Raw, IsCommand, Flags
<1>4. path \notin DOMAIN r.told
  BY <1>2, TakenOnce DEF Local
<1>5. /\ Report(r).text \in Document /\ Report(r).issues \in SUBSET Issue
      /\ Pairs(Report(r).issues) \subseteq Pairs(ScanOf(Report(r).text))
      /\ ~r.command.fix => Pairs(Report(r).issues) = Pairs(ScanOf(Report(r).text))
      /\ Applied(r) \in SUBSET Nat
  BY <1>3, ReportedIssues, FoundIssues
<1>6. /\ Count(NewIssues(r), "error") \in Nat /\ Count(NewIssues(r), "warning") \in Nat
      /\ IsFiniteSet(AllStandingErrors(q)) /\ Cardinality(AllStandingErrors(q)) <= q.errors
  BY <1>3, <1>4, StandingCounted DEF Local, q
<1>7. Entry(r) \in Telling
  BY <1>5 DEF Entry, Telling, NewIssues
<1>8. Typed(s, q)
  <2>1. q.told \in [DOMAIN q.told -> Telling]
    BY <1>1, <1>7 DEF Local, Typed
  <2>2. q.errors \in Nat /\ q.warnings \in Nat /\ q.next \in Nat
    BY <1>1, <1>6 DEF Local, Typed
  <2>3. QED
    BY <1>1, <2>1, <2>2 DEF Local, Typed, ProcessStates
<1>9. InOrder(q)
  <2>1. DOMAIN q.told \subseteq {q.targets[k]: k \in 1..(q.next - 1)}
    <3>1. \A k \in 1..(r.next - 1): k \in 1..(q.next - 1)
      BY <1>1, <1>2
    <3>2. r.next \in 1..(q.next - 1) /\ path = q.targets[r.next]
      BY <1>1, <1>2 DEF Subject
    <3>3. DOMAIN q.told = {path} \cup DOMAIN r.told
      BY <1>1
    <3>4. QED
      BY <1>1, <3>1, <3>2, <3>3 DEF Local, InOrder
  <2>2. q.next \in 1..(Len(q.targets) + 1)
    BY <1>1, <1>2
  <2>3. QED
    BY <1>1, <2>1, <2>2 DEF Local, InOrder, Working
<1>10. Complete(s, q)
  <2>1. ASSUME q.failed = 0, NEW k \in 1..(q.next - 1)
        PROVE  q.targets[k] \in DOMAIN q.told /\ q.read[k].readable
    <3>1. CASE k = r.next
      BY <1>1, <3>1 DEF Subject, Raw
    <3>2. CASE k # r.next
      <4>1. k \in 1..(r.next - 1)
        BY <1>1, <1>2, <3>2
      <4>2. QED
        BY <1>1, <2>1, <4>1 DEF Local, Complete
    <3>3. QED
      BY <3>1, <3>2
  <2>2. QED
    BY <1>1, <2>1 DEF Local, Complete
<1>11. Told(q)
  <2>1. Filters(q) <=> Filters(r)
    BY <1>1 DEF Filters
  <2>2. r.marks \subseteq q.marks
    BY <1>1
  <2>3. ASSUME NEW told \in DOMAIN r.told PROVE Tells(q, told)
    <3>1. q.told[told] = r.told[told]
      BY <1>1, <1>4
    <3>2. Tells(r, told)
      BY DEF Local, Told
    <3>3. QED
      BY <1>1, <2>1, <2>2, <3>1, <3>2 DEF Tells
  <2>4. Tells(q, path)
    <3>1. q.told[path] = Entry(r)
      BY <1>1
    <3>2. Entry(r).text = Report(r).text /\ Entry(r).issues = NewIssues(r)
      BY DEF Entry
    <3>3. NewIssues(r) \subseteq Report(r).issues /\ (~Filters(r) => NewIssues(r) = Report(r).issues)
      BY DEF NewIssues
    <3>4. Pairs(NewIssues(r)) \subseteq Pairs(Report(r).issues)
      BY <3>3 DEF Pairs
    <3>5. Filters(r) => \A issue \in NewIssues(r): Fingerprint(path, issue) \notin r.loaded
      BY DEF NewIssues, Local, Told
    <3>6. r.command.update_baseline => Adopted(path, NewIssues(r)) \subseteq q.marks
      <4>1. Adopted(path, NewIssues(r)) \subseteq Adopted(path, Report(r).issues)
        BY <3>3 DEF Adopted
      <4>2. QED
        BY <1>1, <4>1
    <3>7. QED
      BY <1>1, <1>5, <2>1, <3>1, <3>2, <3>3, <3>4, <3>5, <3>6 DEF Tells
  <2>5. DOMAIN q.told = {path} \cup DOMAIN r.told
    BY <1>1
  <2>6. q.loaded \subseteq q.marks /\ (~q.command.update_baseline => q.marks = q.loaded)
    BY <1>1 DEF Local, Told
  <2>7. QED
    BY <1>6, <2>3, <2>4, <2>5, <2>6 DEF Told
<1>12. QED
  BY <1>8, <1>9, <1>10, <1>11 DEF Local, q

----------------------------------------------------------------------------
(* Every step keeps what is said of each run *)

RunsInv == SceneInv /\ LocalInv

\* What has been read and is next is a document.
LEMMA NextIsReady ==
  ASSUME RunsInv, NEW p \in Processes, run[p].at \in {"reporting", "persisting"},
         run[p].next \in DOMAIN run[p].targets
  PROVE  /\ Ready(run[p]) /\ Output(run[p]) \in Document
         /\ Subject(run[p]) \in Places(scene)
<1> DEFINE r == run[p]
<1>1. Local(scene, r) /\ scene \in Scenes
  BY DEF RunsInv, LocalInv, SceneInv
<1> HIDE DEF r
<1>2. r.at \in {"reporting", "persisting"} /\ r.next \in DOMAIN r.targets
  BY DEF r
<1>3. DOMAIN r.read = DOMAIN r.targets
  BY <1>1, <1>2 DEF Local, InOrder
<1>4. Ready(r)
  BY <1>1, <1>2, <1>3, SceneFacts DEF Local, Typed, Ready, Raw, IsCommand, Flags
<1>5. Subject(r) \in Places(scene)
  BY <1>1, <1>2 DEF Local, Typed, Subject
<1>6. QED
  BY <1>4, <1>5, FoundIssues DEF r

LEMMA ReadIsDocument ==
  ASSUME RunsInv, NEW p \in Processes, run[p].at # "idle", NEW k \in DOMAIN run[p].targets
  PROVE  Content(run[p], run[p].targets[k]) \in Document
<1> DEFINE r == run[p]
           path == r.targets[k]
<1>1. Local(scene, r) /\ scene \in Scenes /\ disk \in [DOMAIN scene.documents -> Document]
  BY DEF RunsInv, LocalInv, SceneInv
<1>2. path \in Places(scene) /\ r.command.stdin \in Document
  BY <1>1, SceneFacts DEF Local, Typed, IsCommand
<1>3. path # Stdin => path \in DOMAIN disk
  BY <1>1, <1>2, SceneFacts DEF Places
<1>4. QED
  BY <1>1, <1>2, <1>3 DEF Content

LEMMA BecomesLocal ==
  ASSUME RunsInv, NEW p \in Processes, NEW x, Local(scene, x), Becomes(p, x), scene' = scene
  PROVE  LocalInv' /\ DOMAIN run' = Processes
<1>1. DOMAIN run = Processes /\ \A q \in Processes: Local(scene, run[q])
  BY DEF RunsInv, SceneInv, LocalInv
<1>2. run' = [run EXCEPT ![p] = x]
  BY DEF Becomes
<1>3. DOMAIN run' = Processes
  BY <1>1, <1>2
<1>4. ASSUME NEW q \in Processes PROVE Local(scene, run'[q])
  BY <1>1, <1>2
<1>5. QED
  BY <1>3, <1>4 DEF LocalInv

LEMMA ForeignKeepsLocal ==
  ASSUME RunsInv, NEW before, NEW path, NEW writer, \A q \in Processes: Local(scene, before[q]),
         run' = Foreign(before, path, writer), scene' = scene
  PROVE  LocalInv' /\ DOMAIN run' = Processes
<1>1. DOMAIN run' = Processes
  BY DEF Foreign
<1>2. ASSUME NEW q \in Processes PROVE Local(scene, run'[q])
  <2>1. \/ run'[q] = before[q]
        \/ run'[q] = [before[q] EXCEPT !.foreign = before[q].foreign \cup {path}]
    BY DEF Foreign
  <2>2. scene \in Scenes
    BY DEF RunsInv, SceneInv
  <2>3. QED
    BY <2>1, <2>2, ForeignLocal
<1>3. QED
  BY <1>1, <1>2 DEF LocalInv

LEMMA StepLocal ==
  ASSUME RunsInv, Next
  PROVE  LocalInv' /\ DOMAIN run' = Processes /\ scene' = scene
<1>1. scene \in Scenes /\ \A p \in Processes: Local(scene, run[p])
  BY DEF RunsInv, SceneInv, LocalInv
<1>2. scene' = scene
  BY DEF Next, Start, ScanOne, ProcessFile, Persist, PersistFails, Conclude, OpenBaseline, SaveBaseline,
         SaveFails, Kill, Edit
<1>3. ASSUME NEW p \in Processes, Start(p) PROVE LocalInv' /\ DOMAIN run' = Processes
  <2> DEFINE ended == {q \in Processes: run[q].at = "ended"}
  <2>1. PICK command \in scene.commands[p]:
          \/ Becomes(p, Ended(Asked(command, ended), 0))
          \/ Becomes(p, Ended(Asked(command, ended), 2))
          \/ /\ ~Refused(scene.tree, FileArgs(scene.tree, command), command.exclude)
             /\ Becomes(p, Prepared(Asked(command, ended), scene.tree, baseline.marks))
    BY <1>3, Zenon DEF Start
  <2>2. command \in CommandsOf(scene) /\ ended \in SUBSET Processes
    BY DEF CommandsOf
  <2> HIDE DEF ended
  <2>3. Local(scene, Ended(Asked(command, ended), 0)) /\ Local(scene, Ended(Asked(command, ended), 2))
    BY <1>1, <2>2, AskedLocal
  <2>4. CASE ~Refused(scene.tree, FileArgs(scene.tree, command), command.exclude)
    <3>1. Local(scene, Prepared(Asked(command, ended), scene.tree, baseline.marks))
      BY <1>1, <2>2, <2>4, PreparedLocal
    <3>2. QED
      BY <1>2, <2>1, <2>3, <3>1, BecomesLocal
  <2>5. CASE Refused(scene.tree, FileArgs(scene.tree, command), command.exclude)
    BY <1>2, <2>1, <2>3, <2>5, BecomesLocal
  <2>6. QED
    BY <2>4, <2>5
<1>4. ASSUME NEW p \in Processes, ScanOne(p) PROVE LocalInv' /\ DOMAIN run' = Processes
  <2>1. PICK k \in DOMAIN run[p].targets:
          MayRead(run[p], k) /\ Becomes(p, WithRead(run[p], k, Content(run[p], run[p].targets[k])))
    BY <1>4 DEF ScanOne
  <2>2. Local(scene, run[p]) /\ run[p].at = "scanning" /\ k \in DOMAIN run[p].targets \ DOMAIN run[p].read
    BY <1>1, <1>4, <2>1 DEF ScanOne, MayRead
  <2>3. Content(run[p], run[p].targets[k]) \in Document
    BY <2>2, ReadIsDocument
  <2>4. Local(scene, WithRead(run[p], k, Content(run[p], run[p].targets[k])))
    BY <1>1, <2>2, <2>3, WithReadLocal
  <2>5. QED
    BY <1>2, <2>1, <2>4, BecomesLocal
<1>5. ASSUME NEW p \in Processes, ProcessFile(p) PROVE LocalInv' /\ DOMAIN run' = Processes
  <2>1. run[p].at = "reporting" /\ run[p].next \in DOMAIN run[p].targets /\ Local(scene, run[p])
    BY <1>1, <1>5 DEF ProcessFile
  <2>2. CASE ~Raw(run[p]).readable
    <3>1. Becomes(p, Unprocessed(run[p]))
      BY <1>5, <2>2 DEF ProcessFile
    <3>2. Local(scene, Unprocessed(run[p]))
      BY <1>1, <2>1, UnprocessedLocal
    <3>3. QED
      BY <1>2, <3>1, <3>2, BecomesLocal
  <2>3. CASE Raw(run[p]).readable /\ WroteChanges(run[p]) /\ Subject(run[p]) # Stdin
    <3>1. Becomes(p, [run[p] EXCEPT !.at = "persisting"])
      BY <1>5, <2>3 DEF ProcessFile
    <3>2. Local(scene, [run[p] EXCEPT !.at = "persisting"])
      BY <1>1, <2>1, <2>3, PersistingLocal
    <3>3. QED
      BY <1>2, <3>1, <3>2, BecomesLocal
  <2>4. CASE Raw(run[p]).readable /\ ~(WroteChanges(run[p]) /\ Subject(run[p]) # Stdin)
    <3>1. Becomes(p, Reported(run[p]))
      BY <1>5, <2>4 DEF ProcessFile
    <3>2. Local(scene, Reported(run[p]))
      BY <1>1, <2>1, <2>4, ReportedLocal
    <3>3. QED
      BY <1>2, <3>1, <3>2, BecomesLocal
  <2>5. QED
    BY <2>2, <2>3, <2>4
<1>6. ASSUME NEW p \in Processes, run[p].at = "persisting"
      PROVE  /\ run[p].next \in DOMAIN run[p].targets /\ Raw(run[p]).readable
             /\ Local(scene, run[p])
  BY <1>1, <1>6 DEF Local, InOrder
<1>7. ASSUME NEW p \in Processes, Persist(p) PROVE LocalInv' /\ DOMAIN run' = Processes
  <2> DEFINE before == [run EXCEPT ![p] = Reported(@)]
  <2>1. Local(scene, Reported(run[p]))
    BY <1>1, <1>6, <1>7, ReportedLocal DEF Persist
  <2>2. DOMAIN run = Processes
    BY DEF RunsInv, SceneInv
  <2>3. \A q \in Processes: Local(scene, before[q])
    BY <1>1, <2>1, <2>2
  <2>4. run' = Foreign(before, Subject(run[p]), p)
    BY <1>7 DEF Persist
  <2> HIDE DEF before
  <2>5. QED
    BY <1>2, <2>3, <2>4, ForeignKeepsLocal
<1>8. ASSUME NEW p \in Processes, PersistFails(p) PROVE LocalInv' /\ DOMAIN run' = Processes
  <2>1. Local(scene, Unprocessed(run[p])) /\ Becomes(p, Unprocessed(run[p]))
    BY <1>1, <1>6, <1>8, UnprocessedLocal DEF PersistFails
  <2>2. QED
    BY <1>2, <2>1, BecomesLocal
<1>9. ASSUME NEW p \in Processes, AllTold(p)
      PROVE  run[p].at = "reporting" /\ run[p].next > Len(run[p].targets) /\ Local(scene, run[p])
  BY <1>1, <1>9 DEF AllTold
<1>10. ASSUME NEW p \in Processes, NEW code \in {2, ExitCode(run[p])}, AllTold(p) \/ run[p].at = "saving",
              Becomes(p, Ended(run[p], code))
       PROVE  LocalInv' /\ DOMAIN run' = Processes
  <2>1. run[p].at \in {"reporting", "saving"} /\ run[p].next > Len(run[p].targets) /\ Local(scene, run[p])
    BY <1>1, <1>9, <1>10 DEF Local, Complete
  <2>2. Local(scene, Ended(run[p], code))
    BY <1>1, <2>1, EndedLocal
  <2>3. QED
    BY <1>2, <1>10, <2>2, BecomesLocal
<1>11. ASSUME NEW p \in Processes, OpenBaseline(p) PROVE LocalInv' /\ DOMAIN run' = Processes
  <2>1. CASE run[p].command.baseline
    <3>1. Local(scene, [run[p] EXCEPT !.at = "saving"]) /\ Becomes(p, [run[p] EXCEPT !.at = "saving"])
      BY <1>1, <1>9, <1>11, <2>1, SavingLocal DEF OpenBaseline
    <3>2. QED
      BY <1>2, <3>1, BecomesLocal
  <2>2. CASE ~run[p].command.baseline
    BY <1>10, <1>11, <2>2 DEF OpenBaseline
  <2>3. QED
    BY <2>1, <2>2
<1>12. ASSUME NEW p \in Processes, Kill(p) PROVE LocalInv' /\ DOMAIN run' = Processes
  <2>1. Local(scene, [run[p] EXCEPT !.at = "killed"]) /\ Becomes(p, [run[p] EXCEPT !.at = "killed"])
    BY <1>1, <1>12, KilledLocal DEF Kill, Running
  <2>2. QED
    BY <1>2, <2>1, BecomesLocal
<1>13. ASSUME NEW path, Edit(path) PROVE LocalInv' /\ DOMAIN run' = Processes
  BY <1>1, <1>2, <1>13, ForeignKeepsLocal DEF Edit
<1>14. QED
  BY <1>2, <1>3, <1>4, <1>5, <1>7, <1>8, <1>10, <1>11, <1>12, <1>13
     DEF Next, Conclude, SaveBaseline, SaveFails

LEMMA StepScene ==
  ASSUME RunsInv, Next
  PROVE  SceneInv'
<1>1. scene' = scene /\ DOMAIN run' = Processes
  BY StepLocal
<1>2. scene \in Scenes /\ disk \in [DOMAIN scene.documents -> Document] /\ edits \in Nat
      /\ baseline \in [state: {"missing", "whole", "torn"}, marks: {baseline.marks}]
      /\ scene.drafts \subseteq Document
  BY SceneFacts DEF RunsInv, SceneInv
<1>3. disk' \in [DOMAIN scene.documents -> Document] /\ edits' \in Nat
  <2>1. ASSUME NEW p \in Processes, Persist(p) PROVE disk' \in [DOMAIN scene.documents -> Document]
    <3>1. run[p].next \in DOMAIN run[p].targets
      BY <2>1 DEF Persist, RunsInv, LocalInv, Local, InOrder
    <3>2. Output(run[p]) \in Document
      BY <2>1, <3>1, NextIsReady DEF Persist
    <3>3. QED
      BY <1>2, <2>1, <3>2 DEF Persist
  <2>2. ASSUME NEW path \in DOMAIN disk, Edit(path)
        PROVE  disk' \in [DOMAIN scene.documents -> Document] /\ edits' \in Nat
    BY <1>2, <2>2 DEF Edit
  <2>3. QED
    BY <1>2, <2>1, <2>2 DEF Next, Start, ScanOne, ProcessFile, Persist, PersistFails, Conclude, OpenBaseline,
                            SaveBaseline, SaveFails, Kill
<1>4. baseline' \in [state: {"missing", "whole", "torn"}, marks: {baseline'.marks}]
  <2>1. ASSUME NEW p \in Processes, OpenBaseline(p) \/ SaveBaseline(p)
        PROVE  \/ baseline' = baseline
               \/ \E state \in {"whole", "torn"}: \E marks: baseline' = [state |-> state, marks |-> marks]
    BY <2>1 DEF OpenBaseline, SaveBaseline
  <2>2. \/ baseline' = baseline
        \/ \E state \in {"whole", "torn"}: \E marks: baseline' = [state |-> state, marks |-> marks]
    BY <2>1 DEF Next, Start, ScanOne, ProcessFile, Persist, PersistFails, Conclude, SaveFails, Kill, Edit
  <2>3. QED
    BY <1>2, <2>2
<1>5. QED
  BY <1>1, <1>2, <1>3, <1>4 DEF SceneInv

----------------------------------------------------------------------------
(* Reports and the disk *)

\* The run that takes a step leaves the disk alone.
LEMMA BecomesFresh ==
  ASSUME DOMAIN run = Processes, DiskInv, NEW p \in Processes, NEW x, Becomes(p, x), disk' = disk,
         Fresh(disk, x), True(disk, x)
  PROVE  DiskInv'
<1>1. \A q \in Processes: run'[q] = IF q = p THEN x ELSE run[q]
  BY DEF Becomes
<1>2. \A q \in Processes: Fresh(disk, run'[q]) /\ True(disk, run'[q])
  BY <1>1 DEF DiskInv
<1>3. QED
  BY <1>2 DEF DiskInv

LEMMA SameFresh ==
  ASSUME NEW d, NEW r, Fresh(d, r), True(d, r),
         NEW q, Same(q, r), q.foreign = r.foreign
  PROVE  Fresh(d, q) /\ True(d, q)
BY DEF Fresh, True, Same

\* Somebody else saves a file: who has read it has read what is no longer there.
LEMMA SavedByOther ==
  ASSUME NEW s, NEW r, Local(s, r), NEW d, Fresh(d, r), True(d, r), NEW path \in DOMAIN d, NEW document,
         NEW q, q = IF Read(r, path) THEN [r EXCEPT !.foreign = @ \cup {path}] ELSE r
  PROVE  Fresh([d EXCEPT ![path] = document], q) /\ True([d EXCEPT ![path] = document], q)
<1> DEFINE d2 == [d EXCEPT ![path] = document]
<1>1. DOMAIN d2 = DOMAIN d /\ \A other \in DOMAIN d: other # path => d2[other] = d[other]
  OBVIOUS
<1> HIDE DEF d2
<1>2. q.read = r.read /\ q.next = r.next /\ q.targets = r.targets /\ q.told = r.told /\ q.command = r.command
      /\ q.foreign = IF Read(r, path) THEN r.foreign \cup {path} ELSE r.foreign
  BY DEF Local, Typed, Shape
<1>3. path \in q.foreign \/ ~Read(r, path)
  BY <1>2
<1>4. ASSUME ~Read(r, path) PROVE path \notin DOMAIN r.told
  <2> SUFFICES ASSUME NEW k \in 1..(r.next - 1), r.targets[k] = path PROVE FALSE
    BY DEF Local, InOrder
  <2>1. r.targets \in Seq(Places(s)) /\ r.next \in 1..(Len(r.targets) + 1)
    BY DEF Local, Typed, InOrder
  <2>2. DOMAIN r.read = DOMAIN r.targets
    BY DEF Local, InOrder
  <2>3. k \in DOMAIN r.read
    BY <2>1, <2>2
  <2>4. QED
    BY <1>4, <2>3 DEF Read
<1>5. Fresh(d2, q)
  <2> SUFFICES ASSUME NEW k \in DOMAIN r.read, k >= r.next, r.targets[k] \in DOMAIN d, r.targets[k] \notin q.foreign
               PROVE  r.read[k] = d2[r.targets[k]]
    BY <1>1, <1>2 DEF Fresh
  <2>1. r.targets[k] # path
    BY <1>3 DEF Read
  <2>2. r.targets[k] \notin r.foreign
    BY <1>2
  <2>3. QED
    BY <1>1, <2>1, <2>2 DEF Fresh
<1>6. True(d2, q)
  <2> SUFFICES ASSUME NEW other \in DOMAIN r.told, other \in DOMAIN d, other \notin q.foreign
               PROVE  r.told[other].text = d2[other] \/ (r.command.dry_run /\ d2[other].simplified)
    BY <1>1, <1>2 DEF True
  <2>1. other # path /\ other \notin r.foreign
    BY <1>2, <1>3, <1>4
  <2>2. QED
    BY <1>1, <2>1 DEF True
<1>7. QED
  BY <1>5, <1>6 DEF d2

\* What a run tells of a file it has not written is what it has read.
LEMMA TellsWhatIsRead ==
  ASSUME NEW r, Ready(r), ~WroteChanges(r)
  PROVE  /\ Report(r).text = Raw(r) \/ (r.command.dry_run /\ Raw(r).simplified)
         /\ Entry(r).text = Report(r).text
<1>1. Report(r).text = Converted(Raw(r)) /\ Entry(r).text = Report(r).text
  BY DEF Report, Entry
<1>2. CASE Raw(r).simplified
  BY <1>1, <1>2 DEF WroteChanges, HasTextChanges, Ready
<1>3. CASE ~Raw(r).simplified
  <2>1. Raw(r) \in Document
    BY DEF Ready
  <2>2. Converted(Raw(r)) = Raw(r)
    BY <1>3, <2>1 DEF Converted, Document
  <2>3. QED
    BY <1>1, <2>2
<1>4. QED
  BY <1>2, <1>3

LEMMA ReportedKeeps ==
  ASSUME NEW s \in Scenes, NEW r, Local(s, r)
  PROVE  /\ Reported(r).next = r.next + 1 /\ Reported(r).command = r.command
         /\ Reported(r).targets = r.targets /\ Reported(r).read = r.read
         /\ Reported(r).foreign = r.foreign
         /\ Reported(r).told = [told \in {Subject(r)} \cup DOMAIN r.told |->
                                  IF told = Subject(r) THEN Entry(r) ELSE r.told[told]]
         /\ Reported(r).after = r.after /\ Reported(r).loaded = r.loaded /\ Reported(r).at = "reporting"
<1> DEFINE q == Reported(r)
<1> HIDE DEF q
<1>1. Typed(s, r) /\ q = Reported(r)
  BY DEF Local, q
<1>2. /\ q.at = "reporting" /\ q.next = r.next + 1 /\ q.failed = r.failed /\ q.code = r.code
      /\ q.command = r.command /\ q.after = r.after /\ q.targets = r.targets /\ q.read = r.read
      /\ q.loaded = r.loaded /\ q.foreign = r.foreign /\ Shape(q)
      /\ q.marks = IF r.command.update_baseline THEN r.marks \cup Adopted(Subject(r), Report(r).issues)
                   ELSE r.marks
      /\ q.told = [told \in {Subject(r)} \cup DOMAIN r.told |-> IF told = Subject(r) THEN Entry(r) ELSE r.told[told]]
      /\ q.errors = r.errors + Count(NewIssues(r), "error")
      /\ q.warnings = r.warnings + Count(NewIssues(r), "warning")
  BY <1>1, ReportedFields
<1>3. QED
  BY <1>2 DEF q

\* What is told of a file that is written, or need not be, is what the file then holds.
LEMMA ReportedFresh ==
  ASSUME NEW s \in Scenes, NEW r, Local(s, r), r.at \in {"reporting", "persisting"}, r.next \in DOMAIN r.targets,
         Ready(r), NEW d, NEW d2, Fresh(d, r), True(d, r), DOMAIN d2 = DOMAIN d,
         \A path \in DOMAIN d: path # Subject(r) => d2[path] = d[path],
         \/ Subject(r) \in DOMAIN d /\ WroteChanges(r) /\ d2[Subject(r)] = Output(r)
         \/ d2 = d /\ (WroteChanges(r) => Subject(r) \notin DOMAIN d)
  PROVE  Fresh(d2, Reported(r)) /\ True(d2, Reported(r))
<1> DEFINE q == Reported(r)
           path == Subject(r)
<1>1. /\ q.next = r.next + 1 /\ q.command = r.command /\ q.targets = r.targets /\ q.read = r.read
      /\ q.foreign = r.foreign
      /\ q.told = [told \in {path} \cup DOMAIN r.told |-> IF told = path THEN Entry(r) ELSE r.told[told]]
  BY ReportedKeeps
<1> HIDE DEF q
<1>2. r.next \in 1..Len(r.targets) /\ Len(r.targets) \in Nat /\ DOMAIN r.read = DOMAIN r.targets
      /\ DOMAIN r.targets = 1..Len(r.targets) /\ IsInjective(r.targets)
  BY DEF Local, Typed, InOrder
<1>3. Fresh(d2, q)
  <2> SUFFICES ASSUME NEW k \in DOMAIN r.read, k >= r.next + 1, r.targets[k] \in DOMAIN d,
                      r.targets[k] \notin r.foreign
               PROVE  r.read[k] = d2[r.targets[k]]
    BY <1>1 DEF Fresh
  <2>1. k >= r.next /\ k # r.next /\ k \in DOMAIN r.targets
    BY <1>2
  <2>2. r.targets[k] # path
    BY <1>2, <2>1 DEF Subject, IsInjective
  <2>3. QED
    BY <2>1, <2>2 DEF Fresh
<1>4. ASSUME path \in DOMAIN d, path \notin r.foreign
      PROVE  Entry(r).text = d2[path] \/ (r.command.dry_run /\ d2[path].simplified)
  <2>1. Raw(r) = d[path]
    BY <1>2, <1>4 DEF Fresh, Raw, Subject
  <2>2. CASE WroteChanges(r) /\ d2[path] = Output(r)
    BY <2>2 DEF Entry, Report
  <2>3. CASE d2 = d /\ ~WroteChanges(r)
    BY <2>1, <2>3, TellsWhatIsRead
  <2>4. QED
    BY <1>4, <2>2, <2>3
<1>5. True(d2, q)
  <2> SUFFICES ASSUME NEW told \in DOMAIN q.told, told \in DOMAIN d, told \notin r.foreign
               PROVE  q.told[told].text = d2[told] \/ (r.command.dry_run /\ d2[told].simplified)
    BY <1>1 DEF True
  <2>1. CASE told = path
    BY <1>1, <1>4, <2>1
  <2>2. CASE told # path
    <3>1. told \in DOMAIN r.told /\ q.told[told] = r.told[told] /\ d2[told] = d[told]
      BY <1>1, <2>2
    <3>2. QED
      BY <3>1 DEF True
  <2>3. QED
    BY <2>1, <2>2
<1>6. QED
  BY <1>3, <1>5 DEF q

\* Somebody saves a file; the runs of the others are as they were before.
LEMMA SavingFresh ==
  ASSUME RunsInv, NEW before, NEW path \in DOMAIN disk, NEW writer, NEW document,
         disk' = [disk EXCEPT ![path] = document], run' = Foreign(before, path, writer),
         \A q \in Processes \ {writer}:
            Local(scene, before[q]) /\ Fresh(disk, before[q]) /\ True(disk, before[q]),
         writer \in Processes =>
            Fresh([disk EXCEPT ![path] = document], before[writer]) /\ True([disk EXCEPT ![path] = document], before[writer])
  PROVE  DiskInv'
<1> DEFINE d2 == [disk EXCEPT ![path] = document]
<1>1. ASSUME NEW q \in Processes PROVE Fresh(d2, run'[q]) /\ True(d2, run'[q])
  <2>1. CASE q = writer
    <3>1. run'[q] = before[q]
      BY <2>1 DEF Foreign
    <3>2. QED
      BY <2>1, <3>1
  <2>2. CASE q # writer
    <3>1. run'[q] = IF Read(before[q], path) THEN [before[q] EXCEPT !.foreign = @ \cup {path}] ELSE before[q]
      BY <2>2 DEF Foreign
    <3>2. Local(scene, before[q]) /\ Fresh(disk, before[q]) /\ True(disk, before[q])
      BY <2>2
    <3>3. QED
      BY <3>1, <3>2, SavedByOther
  <2>3. QED
    BY <2>1, <2>2
<1>2. disk' = d2
  OBVIOUS
<1> HIDE DEF d2
<1>3. QED
  BY <1>1, <1>2 DEF DiskInv

LEMMA NothingFresh ==
  ASSUME NEW d, NEW q, q.read = <<>>, q.told = <<>>
  PROVE  Fresh(d, q) /\ True(d, q)
<1>1. DOMAIN q.read = {} /\ DOMAIN q.told = {}
  OBVIOUS
<1>2. QED
  BY <1>1 DEF Fresh, True

LEMMA StartedFresh ==
  ASSUME NEW d, NEW command, NEW ended, NEW code, NEW tree, NEW marks
  PROVE  LET asked == Ended(Asked(command, ended), code)
             ready == Prepared(Asked(command, ended), tree, marks)
         IN  Fresh(d, asked) /\ True(d, asked) /\ Fresh(d, ready) /\ True(d, ready)
<1> DEFINE asked == Ended(Asked(command, ended), code)
           ready == Prepared(Asked(command, ended), tree, marks)
<1>1. asked.read = <<>> /\ asked.told = <<>> /\ ready.read = <<>> /\ ready.told = <<>>
  BY DEF Ended, Asked, Prepared, Idle
<1> HIDE DEF asked, ready
<1>2. QED
  BY <1>1, NothingFresh DEF asked, ready

LEMMA ScannedFresh ==
  ASSUME RunsInv, NEW p \in Processes, run[p].at = "scanning", NEW k \in DOMAIN run[p].targets \ DOMAIN run[p].read,
         Fresh(disk, run[p])
  PROVE  LET q == WithRead(run[p], k, Content(run[p], run[p].targets[k]))
         IN  Fresh(disk, q) /\ (True(disk, run[p]) => True(disk, q))
<1> DEFINE r == run[p]
           path == r.targets[k]
           q == WithRead(r, k, Content(r, path))
<1>1. Shape(r) /\ Stdin \notin DOMAIN disk
  BY SceneFacts DEF RunsInv, LocalInv, Local, Typed, SceneInv, IsTree
<1> HIDE DEF r
<1>2. /\ DOMAIN q.read = {k} \cup DOMAIN r.read
      /\ q.read[k] = Content(r, path) /\ \A j \in DOMAIN r.read: j # k => q.read[j] = r.read[j]
      /\ q.targets = r.targets /\ q.next = r.next /\ q.foreign = r.foreign /\ q.told = r.told
      /\ q.command = r.command
  BY <1>1 DEF WithRead, Shape
<1>3. path \in DOMAIN disk => Content(r, path) = disk[path]
  BY <1>1 DEF Content
<1> HIDE DEF q
<1>4. Fresh(disk, q)
  BY <1>2, <1>3 DEF Fresh, r
<1>5. True(disk, r) => True(disk, q)
  BY <1>2 DEF True
<1>6. QED
  BY <1>4, <1>5 DEF q, r

LEMMA UnprocessedFresh ==
  ASSUME NEW s, NEW r, Typed(s, r), NEW d, Fresh(d, r), True(d, r), r.next \in Nat, DOMAIN r.read \subseteq Nat
  PROVE  Fresh(d, Unprocessed(r)) /\ True(d, Unprocessed(r))
<1> DEFINE q == Unprocessed(r)
<1>1. /\ q.next = r.next + 1 /\ q.command = r.command /\ q.targets = r.targets /\ q.read = r.read
      /\ q.told = r.told /\ q.foreign = r.foreign
  BY DEF Unprocessed, Typed, Shape
<1> HIDE DEF q
<1>2. \A k \in DOMAIN r.read: k >= r.next + 1 => k >= r.next
  OBVIOUS
<1>3. Fresh(d, q) /\ True(d, q)
  BY <1>1, <1>2 DEF Fresh, True
<1>4. QED
  BY <1>3 DEF q

LEMMA StepDisk ==
  ASSUME RunsInv, DiskInv, Next
  PROVE  DiskInv'
<1>1. DOMAIN run = Processes /\ scene \in Scenes /\ \A p \in Processes: Local(scene, run[p])
  BY DEF RunsInv, SceneInv, LocalInv
<1>2. \A p \in Processes: Fresh(disk, run[p]) /\ True(disk, run[p])
  BY DEF DiskInv
<1>3. ASSUME NEW p \in Processes, Start(p) PROVE DiskInv'
  <2> DEFINE ended == {q \in Processes: run[q].at = "ended"}
  <2>1. PICK command \in scene.commands[p]:
          \/ Becomes(p, Ended(Asked(command, ended), 0))
          \/ Becomes(p, Ended(Asked(command, ended), 2))
          \/ Becomes(p, Prepared(Asked(command, ended), scene.tree, baseline.marks))
    BY <1>3, Zenon DEF Start
  <2>2. disk' = disk
    BY <1>3 DEF Start
  <2> HIDE DEF ended
  <2>3. \A code: LET asked == Ended(Asked(command, ended), code)
                     ready == Prepared(Asked(command, ended), scene.tree, baseline.marks)
                 IN  Fresh(disk, asked) /\ True(disk, asked) /\ Fresh(disk, ready) /\ True(disk, ready)
    BY StartedFresh
  <2>4. QED
    BY <1>1, <2>1, <2>2, <2>3, BecomesFresh
<1>4. ASSUME NEW p \in Processes, ScanOne(p) PROVE DiskInv'
  <2>1. PICK k \in DOMAIN run[p].targets:
          MayRead(run[p], k) /\ Becomes(p, WithRead(run[p], k, Content(run[p], run[p].targets[k])))
    BY <1>4 DEF ScanOne
  <2>2. run[p].at = "scanning" /\ k \in DOMAIN run[p].targets \ DOMAIN run[p].read /\ disk' = disk
    BY <1>4, <2>1 DEF ScanOne, MayRead
  <2> DEFINE q == WithRead(run[p], k, Content(run[p], run[p].targets[k]))
  <2>3. Fresh(disk, q) /\ True(disk, q)
    BY <1>2, <2>2, ScannedFresh
  <2>4. Becomes(p, q)
    BY <2>1
  <2> HIDE DEF q
  <2>5. QED
    BY <1>1, <2>2, <2>3, <2>4, BecomesFresh
<1>5. ASSUME NEW p \in Processes, run[p].at \in {"reporting", "persisting"}, disk' = disk, Becomes(p, Unprocessed(run[p]))
      PROVE  DiskInv'
  <2>1. Typed(scene, run[p]) /\ run[p].next \in Nat /\ DOMAIN run[p].read \subseteq Nat
    BY <1>1 DEF Local, Typed, InOrder
  <2>2. Fresh(disk, Unprocessed(run[p])) /\ True(disk, Unprocessed(run[p]))
    BY <1>2, <2>1, UnprocessedFresh
  <2>3. QED
    BY <1>1, <1>5, <2>2, BecomesFresh
<1>6. ASSUME NEW p \in Processes, NEW q, disk' = disk, Becomes(p, q), Same(q, run[p]), q.foreign = run[p].foreign
      PROVE  DiskInv'
  BY <1>1, <1>2, <1>6, SameFresh, BecomesFresh
<1>7. ASSUME NEW p \in Processes, NEW at
      PROVE  /\ Same([run[p] EXCEPT !.at = at], run[p]) /\ [run[p] EXCEPT !.at = at].foreign = run[p].foreign
             /\ \A code: Same(Ended(run[p], code), run[p]) /\ Ended(run[p], code).foreign = run[p].foreign
  <2>1. Shape(run[p])
    BY <1>1 DEF Local, Typed
  <2>2. QED
    BY <2>1 DEF Same, Shape, Ended
<1>8. ASSUME NEW p \in Processes, ProcessFile(p) PROVE DiskInv'
  <2>1. run[p].at = "reporting" /\ run[p].next \in DOMAIN run[p].targets /\ disk' = disk
    BY <1>8 DEF ProcessFile
  <2>2. CASE ~Raw(run[p]).readable
    BY <1>5, <1>8, <2>1, <2>2 DEF ProcessFile
  <2>3. CASE Raw(run[p]).readable /\ WroteChanges(run[p]) /\ Subject(run[p]) # Stdin
    BY <1>6, <1>7, <1>8, <2>1, <2>3 DEF ProcessFile
  <2>4. CASE Raw(run[p]).readable /\ ~(WroteChanges(run[p]) /\ Subject(run[p]) # Stdin)
    <3>1. Becomes(p, Reported(run[p]))
      BY <1>8, <2>4 DEF ProcessFile
    <3>2. Ready(run[p]) /\ Stdin \notin DOMAIN disk
      BY <2>1, NextIsReady, SceneFacts DEF RunsInv, SceneInv, IsTree
    <3>3. WroteChanges(run[p]) => Subject(run[p]) \notin DOMAIN disk
      BY <2>4, <3>2
    <3>4. Fresh(disk, Reported(run[p])) /\ True(disk, Reported(run[p]))
      BY <1>1, <1>2, <2>1, <3>2, <3>3, ReportedFresh
    <3>5. QED
      BY <1>1, <2>1, <3>1, <3>4, BecomesFresh
  <2>5. QED
    BY <2>2, <2>3, <2>4
<1>9. ASSUME NEW p \in Processes, Persist(p) PROVE DiskInv'
  <2> DEFINE r == run[p]
             path == Subject(r)
             document == Output(r)
             before == [run EXCEPT ![p] = Reported(@)]
  <2>1. r.at = "persisting" /\ r.next \in DOMAIN r.targets /\ WroteChanges(r) /\ path # Stdin
    BY <1>1, <1>9 DEF Persist, Local, InOrder
  <2>2. Ready(r) /\ path \in Places(scene)
    BY <2>1, NextIsReady
  <2>3. path \in DOMAIN disk
    BY <1>1, <2>1, <2>2, SceneFacts DEF Places, RunsInv, SceneInv
  <2>4. disk' = [disk EXCEPT ![path] = document] /\ run' = Foreign(before, path, p)
    BY <1>9 DEF Persist
  <2>5. /\ \A q \in Processes \ {p}: before[q] = run[q]
        /\ before[p] = Reported(r)
    BY <1>1
  <2> HIDE DEF r, before, document, path
  <2>6. Fresh([disk EXCEPT ![path] = document], Reported(r)) /\ True([disk EXCEPT ![path] = document], Reported(r))
    <3>1. /\ DOMAIN [disk EXCEPT ![path] = document] = DOMAIN disk
          /\ [disk EXCEPT ![path] = document][path] = document
          /\ \A other \in DOMAIN disk: other # path => [disk EXCEPT ![path] = document][other] = disk[other]
      BY <2>3
    <3>2. Local(scene, r) /\ Fresh(disk, r) /\ True(disk, r)
      BY <1>1, <1>2 DEF r
    <3> DEFINE d2 == [disk EXCEPT ![path] = document]
    <3> HIDE DEF d2
    <3>3. Fresh(d2, Reported(r)) /\ True(d2, Reported(r))
      BY <1>1, <2>1, <2>2, <2>3, <3>1, <3>2, ReportedFresh DEF d2, path, document
    <3>4. QED
      BY <3>3 DEF d2
  <2>7. \A q \in Processes \ {p}: Local(scene, before[q]) /\ Fresh(disk, before[q]) /\ True(disk, before[q])
    BY <1>1, <1>2, <2>5
  <2>8. Fresh([disk EXCEPT ![path] = document], before[p]) /\ True([disk EXCEPT ![path] = document], before[p])
    BY <2>5, <2>6
  <2>9. QED
    BY <2>3, <2>4, <2>7, <2>8, SavingFresh
<1>10. ASSUME NEW path \in DOMAIN disk, Edit(path) PROVE DiskInv'
  <2>1. PICK document: disk' = [disk EXCEPT ![path] = document]
    BY <1>10 DEF Edit
  <2>2. run' = Foreign(run, path, NotGiven) /\ NotGiven \notin Processes
    BY <1>10, BatchLintAssumption DEF Edit
  <2>3. QED
    BY <1>1, <1>2, <2>1, <2>2, SavingFresh
<1>11. ASSUME NEW p \in Processes,
              PersistFails(p) \/ Conclude(p) \/ OpenBaseline(p) \/ SaveBaseline(p) \/ SaveFails(p) \/ Kill(p)
       PROVE  DiskInv'
  <2>1. CASE PersistFails(p)
    BY <1>5, <2>1 DEF PersistFails
  <2>2. CASE Kill(p)
    BY <1>6, <1>7, <2>2 DEF Kill
  <2>3. CASE Conclude(p) \/ SaveBaseline(p) \/ SaveFails(p)
    BY <1>6, <1>7, <2>3 DEF Conclude, SaveBaseline, SaveFails
  <2>4. CASE OpenBaseline(p)
    BY <1>6, <1>7, <2>4 DEF OpenBaseline
  <2>5. QED
    BY <1>11, <2>1, <2>2, <2>3, <2>4
<1>12. QED
  BY <1>3, <1>4, <1>8, <1>9, <1>10, <1>11 DEF Next

----------------------------------------------------------------------------
(* Baselines *)

\* What a run was asked and has loaded does not change on the way.
Moves(q, r) ==
    /\ q.command = r.command /\ q.after = r.after /\ q.targets = r.targets /\ q.loaded = r.loaded
Rests(q, r) == Moves(q, r) /\ q.at = r.at /\ q.code = r.code /\ q.marks = r.marks

LEMMA RunsMove ==
  ASSUME NEW s \in Scenes, NEW r, Local(s, r)
  PROVE  /\ \A k, document: Moves(WithRead(r, k, document), r)
                            /\ WithRead(r, k, document).at \in {"scanning", "reporting"}
         /\ Moves(Reported(r), r) /\ Reported(r).at = "reporting"
         /\ Moves(Unprocessed(r), r) /\ Unprocessed(r).at = "reporting"
         /\ \A at: /\ Moves([r EXCEPT !.at = at], r)
                   /\ [r EXCEPT !.at = at].at = at
         /\ \A code: /\ Moves(Ended(r, code), r) /\ Ended(r, code).at = "ended"
                     /\ Ended(r, code).code = code /\ Ended(r, code).marks = r.marks
         /\ \A foreign: Rests([r EXCEPT !.foreign = foreign], r)
<1>1. Shape(r)
  BY DEF Local, Typed
<1>2. Moves(Reported(r), r) /\ Reported(r).at = "reporting"
  BY ReportedKeeps DEF Moves
<1>3. \A k, document: Moves(WithRead(r, k, document), r) /\ WithRead(r, k, document).at \in {"scanning", "reporting"}
  BY <1>1 DEF Shape, Moves, WithRead
<1>4. Moves(Unprocessed(r), r) /\ Unprocessed(r).at = "reporting"
  BY <1>1 DEF Shape, Moves, Unprocessed
<1>5. \A at: Moves([r EXCEPT !.at = at], r) /\ [r EXCEPT !.at = at].at = at
  BY <1>1 DEF Shape, Moves
<1>6. \A code: /\ Moves(Ended(r, code), r) /\ Ended(r, code).at = "ended"
               /\ Ended(r, code).code = code /\ Ended(r, code).marks = r.marks
  BY <1>1 DEF Shape, Moves, Ended
<1>7. \A foreign: Rests([r EXCEPT !.foreign = foreign], r)
  BY <1>1 DEF Shape, Moves, Rests
<1>8. QED
  BY <1>2, <1>3, <1>4, <1>5, <1>6, <1>7

\* What a step does to the run of q: it starts, it ends, or it goes on; one that has
\* ended stays as it is. Only a run that saves its baseline ends well with one adopted.
Going(q) == Moves(run'[q], run[q]) /\ run[q].at # "ended" /\ run'[q].at # "ended"
Ending(q) ==
    /\ Moves(run'[q], run[q]) /\ run[q].at # "ended"
    /\ run'[q].at = "ended"
    /\ run'[q].code = 2 \/ ~run[q].command.update_baseline \/ SaveBaseline(q)

LEMMA StepRuns ==
  ASSUME RunsInv, Next, NEW q \in Processes
  PROVE  Start(q) \/ Rests(run'[q], run[q]) \/ Going(q) \/ Ending(q)
<1>1. DOMAIN run = Processes /\ scene \in Scenes /\ \A p \in Processes: Local(scene, run[p])
  BY DEF RunsInv, SceneInv, LocalInv
<1> USE DEF Becomes
<1>2. ASSUME NEW p \in Processes, NEW x, Becomes(p, x), q # p
      PROVE  Rests(run'[q], run[q])
  BY <1>2 DEF Rests, Moves
<1>3. ASSUME NEW x, Becomes(q, x) PROVE run'[q] = x
  BY <1>1, <1>3
<1>4. ASSUME NEW before, NEW path, NEW writer, run' = Foreign(before, path, writer), Local(scene, before[q])
      PROVE  Rests(run'[q], before[q]) /\ (q = writer => run'[q] = before[q])
  <2>1. \/ run'[q] = before[q]
        \/ /\ q # writer
           /\ run'[q] = [before[q] EXCEPT !.foreign = before[q].foreign \cup {path}]
    BY <1>4 DEF Foreign
  <2>2. Rests(before[q], before[q])
    BY DEF Rests, Moves
  <2>3. Rests([before[q] EXCEPT !.foreign = before[q].foreign \cup {path}], before[q])
    BY <1>1, <1>4, RunsMove
  <2>4. QED
    BY <2>1, <2>2, <2>3
<1> USE DEF Going, Ending
<1>5. ASSUME NEW p \in Processes, Start(p) PROVE Start(q) \/ Rests(run'[q], run[q])
  <2>1. \E x: Becomes(p, x)
    BY <1>5, Zenon DEF Start
  <2>2. QED
    BY <1>2, <1>5, <2>1
<1>6. ASSUME ScanOne(q) PROVE Going(q)
  <2>1. PICK k: Becomes(q, WithRead(run[q], k, Content(run[q], run[q].targets[k]))) /\ run[q].at = "scanning"
    BY <1>6 DEF ScanOne
  <2>2. run'[q] = WithRead(run[q], k, Content(run[q], run[q].targets[k]))
    BY <1>3, <2>1
  <2>3. QED
    BY <1>1, <2>1, <2>2, RunsMove
<1>7. ASSUME ProcessFile(q) PROVE Going(q)
  <2>1. /\ run[q].at = "reporting"
        /\ \/ run'[q] = Unprocessed(run[q])
           \/ run'[q] = [run[q] EXCEPT !.at = "persisting"]
           \/ run'[q] = Reported(run[q])
    BY <1>1, <1>7 DEF ProcessFile
  <2>2. Moves(Unprocessed(run[q]), run[q]) /\ Unprocessed(run[q]).at = "reporting"
        /\ Moves(Reported(run[q]), run[q]) /\ Reported(run[q]).at = "reporting"
    BY <1>1, RunsMove
  <2>3. Moves([run[q] EXCEPT !.at = "persisting"], run[q]) /\ [run[q] EXCEPT !.at = "persisting"].at = "persisting"
    BY <1>1, RunsMove
  <2>4. QED
    BY <2>1, <2>2, <2>3
<1>8. ASSUME NEW p \in Processes, Persist(p) PROVE Rests(run'[q], run[q]) \/ Going(q)
  <2> DEFINE before == [run EXCEPT ![p] = Reported(@)]
             path == Subject(run[p])
  <2>1. run' = Foreign(before, path, p) /\ run[p].at = "persisting"
    BY <1>8 DEF Persist
  <2>2. CASE q = p
    <3>1. run'[q] = Reported(run[q])
      BY <1>1, <2>1, <2>2 DEF Foreign
    <3>2. QED
      BY <1>1, <2>1, <2>2, <3>1, RunsMove
  <2>3. CASE q # p
    <3>1. before[q] = run[q]
      BY <2>3
    <3> HIDE DEF before, path
    <3>2. QED
      BY <1>1, <1>4, <2>1, <3>1
  <2>4. QED
    BY <2>2, <2>3
<1>9. ASSUME PersistFails(q) \/ Kill(q) PROVE Going(q)
  <2>1. /\ run[q].at # "ended"
        /\ run'[q] = Unprocessed(run[q]) \/ run'[q] = [run[q] EXCEPT !.at = "killed"]
    BY <1>1, <1>9 DEF PersistFails, Kill, Running
  <2>2. Moves(Unprocessed(run[q]), run[q]) /\ Unprocessed(run[q]).at = "reporting"
    BY <1>1, RunsMove
  <2>3. Moves([run[q] EXCEPT !.at = "killed"], run[q]) /\ [run[q] EXCEPT !.at = "killed"].at = "killed"
    BY <1>1, RunsMove
  <2>4. QED
    BY <2>1, <2>2, <2>3
<1>10. ASSUME Conclude(q) \/ SaveBaseline(q) \/ SaveFails(q) PROVE Ending(q)
  <2>1. PICK code: /\ run[q].at # "ended" /\ run'[q] = Ended(run[q], code)
                   /\ code = 2 \/ ~run[q].command.update_baseline \/ SaveBaseline(q)
    BY <1>1, <1>10 DEF Conclude, SaveBaseline, SaveFails, AllTold
  <2>2. QED
    BY <1>1, <2>1, RunsMove
<1>11. ASSUME OpenBaseline(q) PROVE Going(q) \/ Ending(q)
  <2>1. /\ run[q].at # "ended"
        /\ run'[q] = [run[q] EXCEPT !.at = "saving"] \/ run'[q] = Ended(run[q], 2)
    BY <1>1, <1>11 DEF OpenBaseline, AllTold
  <2>2. Moves([run[q] EXCEPT !.at = "saving"], run[q]) /\ [run[q] EXCEPT !.at = "saving"].at = "saving"
    BY <1>1, RunsMove
  <2>3. Moves(Ended(run[q], 2), run[q]) /\ Ended(run[q], 2).at = "ended" /\ Ended(run[q], 2).code = 2
    BY <1>1, RunsMove
  <2>4. QED
    BY <2>1, <2>2, <2>3
<1>12. ASSUME NEW path, Edit(path) PROVE Rests(run'[q], run[q])
  BY <1>1, <1>4, <1>12 DEF Edit
<1> HIDE DEF Going, Ending, Becomes
<1>13. ASSUME NEW p \in Processes, p # q,
              ScanOne(p) \/ ProcessFile(p) \/ PersistFails(p) \/ Conclude(p) \/ OpenBaseline(p) \/ SaveBaseline(p)
                \/ SaveFails(p) \/ Kill(p)
       PROVE  Rests(run'[q], run[q])
  <2>1. \E x: Becomes(p, x)
    BY <1>13, Zenon DEF ScanOne, ProcessFile, PersistFails, Conclude, OpenBaseline, SaveBaseline, SaveFails, Kill
  <2>2. QED
    BY <1>2, <1>13, <2>1
<1>14. QED
  BY <1>5, <1>6, <1>7, <1>8, <1>9, <1>10, <1>11, <1>12, <1>13 DEF Next

\* A run that starts: what it may come to, and that nobody else has moved.
LEMMA StartRuns ==
  ASSUME RunsInv, NEW q \in Processes, Start(q)
  PROVE  /\ run[q].at = "idle" /\ run'[q].after = Everyone /\ run'[q].code \in {0, 2}
         /\ baseline' = baseline
         /\ \/ run'[q].at = "ended" /\ run'[q].targets = <<>>
            \/ /\ run'[q].at = "scanning"
               /\ run'[q].command.baseline =>
                    run'[q].loaded = baseline.marks /\ baseline.state # "torn"
<1>1. PICK command \in scene.commands[q]:
          \/ Becomes(q, Ended(Asked(command, Everyone), 0))
          \/ Becomes(q, Ended(Asked(command, Everyone), 2))
          \/ /\ ~(command.baseline /\ baseline.state = "torn")
             /\ Becomes(q, Prepared(Asked(command, Everyone), scene.tree, baseline.marks))
  BY Zenon DEF Start, Everyone
<1>2. DOMAIN run = Processes /\ run[q].at = "idle" /\ baseline' = baseline
  BY DEF RunsInv, SceneInv, Start
<1>3. \/ run'[q] = Ended(Asked(command, Everyone), 0)
      \/ run'[q] = Ended(Asked(command, Everyone), 2)
      \/ /\ ~(command.baseline /\ baseline.state = "torn")
         /\ run'[q] = Prepared(Asked(command, Everyone), scene.tree, baseline.marks)
  BY <1>1, <1>2 DEF Becomes
<1>4. ASSUME NEW code, NEW x, x = Ended(Asked(command, Everyone), code)
      PROVE  x.at = "ended" /\ x.after = Everyone /\ x.targets = <<>> /\ x.code = code
  BY <1>4 DEF Ended, Asked, Idle
<1>5. ASSUME NEW x, x = Prepared(Asked(command, Everyone), scene.tree, baseline.marks)
      PROVE  /\ x.at = "scanning" /\ x.after = Everyone /\ x.code = 0 /\ x.command = command
             /\ command.baseline => x.loaded = baseline.marks
  BY <1>5 DEF Prepared, Asked, Idle
<1>6. QED
  BY <1>2, <1>3, <1>4, <1>5

LEMMA StepAfter ==
  ASSUME RunsInv, AfterInv, Next
  PROVE  AfterInv'
<1> SUFFICES ASSUME NEW p \in Processes, NEW q \in Processes, p \in run'[q].after
             PROVE  run'[p].at = "ended"
  BY DEF AfterInv
<1>1. run[p].at = "ended"
  <2>1. CASE Start(q)
    BY <2>1, StartRuns DEF Everyone
  <2>2. CASE ~Start(q)
    BY <2>2, StepRuns DEF AfterInv, Rests, Going, Ending, Moves
  <2>3. QED
    BY <2>1, <2>2
<1>2. ~Start(p)
  BY <1>1, StartRuns
<1>3. QED
  BY <1>1, <1>2, StepRuns DEF Rests, Going, Ending

\* Once two runs have overlapped they always have.
LEMMA OverlapStays ==
  ASSUME RunsInv, Next, NEW p \in Processes, run[p].at = "ended",
         NEW few \in SUBSET Processes, NEW many, few \subseteq many, Overlapped(p, few)
  PROVE  Overlapped(p, many)'
<1>1. PICK r \in few \ {p}: Adopts(r) /\ p \notin run[r].after /\ r \notin run[p].after
  BY DEF Overlapped
<1>2. ASSUME NEW q \in Processes, run[q].at = "ended"
      PROVE  Rests(run'[q], run[q])
  BY <1>2, StepRuns, StartRuns DEF Going, Ending
<1>3. Rests(run'[p], run[p]) /\ Rests(run'[r], run[r])
  BY <1>1, <1>2 DEF Adopts, Finished
<1>4. Adopts(r)' /\ p \notin run'[r].after /\ r \notin run'[p].after
  BY <1>1, <1>3 DEF Adopts, Finished, Rests, Moves
<1>5. r \in many \ {p}
  BY <1>1
<1>6. QED
  BY <1>4, <1>5 DEF Overlapped

LEMMA StepBaseline ==
  ASSUME RunsInv, Next
  PROVE  \/ baseline' = baseline
         \/ baseline'.state = "torn"
         \/ \E r \in Processes:
               /\ SaveBaseline(r) /\ baseline'.state = "whole" /\ baseline'.marks = run[r].marks
               /\ Ending(r) /\ run'[r].marks = run[r].marks
               /\ run[r].targets # <<>> /\ run[r].command.baseline /\ run[r].command.update_baseline
<1>1. ASSUME NEW r \in Processes, OpenBaseline(r) PROVE baseline' = baseline \/ baseline'.state = "torn"
  BY <1>1 DEF OpenBaseline
<1>2. ASSUME NEW r \in Processes, SaveBaseline(r)
      PROVE  /\ baseline'.state = "whole" /\ baseline'.marks = run[r].marks
             /\ Ending(r) /\ run'[r].marks = run[r].marks
             /\ run[r].targets # <<>> /\ run[r].command.baseline /\ run[r].command.update_baseline
  <2>1. Local(scene, run[r]) /\ scene \in Scenes /\ DOMAIN run = Processes /\ run[r].at = "saving"
    BY <1>2 DEF RunsInv, SceneInv, LocalInv, SaveBaseline
  <2>2. run'[r] = Ended(run[r], ExitCode(run[r])) /\ baseline'.state = "whole" /\ baseline'.marks = run[r].marks
    BY <1>2, <2>1 DEF SaveBaseline, Becomes
  <2>3. run'[r].marks = run[r].marks /\ run'[r].at = "ended" /\ Moves(run'[r], run[r])
    BY <2>1, <2>2, RunsMove
  <2>4. run[r].targets # <<>> /\ run[r].command.baseline /\ run[r].command.update_baseline
    BY <2>1 DEF Local, InOrder, Complete, Working
  <2>5. QED
    BY <1>2, <2>1, <2>2, <2>3, <2>4 DEF Ending
<1>3. QED
  BY <1>1, <1>2 DEF Next, Start, ScanOne, ProcessFile, Persist, PersistFails, Conclude, SaveFails, Kill, Edit

LEMMA StepKnown ==
  ASSUME RunsInv, AfterInv, KnownInv, Next
  PROVE  KnownInv'
<1>1. \A p \in Processes: Local(scene, run[p])
  BY DEF RunsInv, LocalInv
<1>2. AfterInv'
  BY StepAfter
<1>3. Everyone \subseteq Everyone' /\ Everyone \in SUBSET Processes
  <2>1. ASSUME NEW q \in Processes, run[q].at = "ended" PROVE run'[q].at = "ended"
    BY <2>1, StepRuns, StartRuns DEF Rests, Going, Ending
  <2>2. QED
    BY <2>1 DEF Everyone
<1> SUFFICES ASSUME NEW p \in Processes, Saved(p)'
             PROVE  /\ baseline'.state # "missing"
                    /\ baseline'.state = "whole" => KnownTo(baseline.marks, p, Everyone)'
                    /\ \A q \in Processes:
                          p \in run'[q].after /\ run'[q].targets # <<>> /\ run'[q].command.baseline =>
                              KnownTo(run[q].loaded, p, run[q].after)'
  BY DEF KnownInv
<1>4. ~Start(p)
  <2> SUFFICES ASSUME Start(p) PROVE FALSE
    OBVIOUS
  <2>1. QED
    BY StartRuns DEF Saved, Adopts, Finished
<1>5. CASE run[p].at = "ended"
  <2>1. Rests(run'[p], run[p])
    BY <1>4, <1>5, StepRuns DEF Going, Ending
  <2>2. Saved(p)
    BY <1>5, <2>1 DEF Saved, Adopts, Finished, Rests, Moves
  <2>3. ASSUME NEW marks, NEW few \in SUBSET Processes, KnownTo(marks, p, few),
               NEW more, marks \subseteq more, NEW many, few \subseteq many
        PROVE  KnownTo(more, p, many)'
    <3>1. CASE run[p].marks \subseteq marks
      BY <2>1, <2>3, <3>1 DEF KnownTo, Rests
    <3>2. CASE Overlapped(p, few)
      BY <1>5, <2>3, <3>2, OverlapStays DEF KnownTo
    <3>3. QED
      BY <2>3, <3>1, <3>2 DEF KnownTo
  <2>4. baseline'.state # "missing"
    BY <2>2, StepBaseline DEF KnownInv
  <2>5. ASSUME baseline'.state = "whole" PROVE KnownTo(baseline.marks, p, Everyone)'
    <3>1. CASE baseline' = baseline
      <4>1. KnownTo(baseline.marks, p, Everyone)
        BY <2>2, <2>5, <3>1 DEF KnownInv
      <4>2. \A more, many: baseline.marks \subseteq more /\ Everyone \subseteq many => KnownTo(more, p, many)'
        BY <1>3, <2>3, <4>1
      <4>3. QED
        BY <1>3, <3>1, <4>2 DEF KnownTo, Overlapped
    <3>2. ASSUME NEW r \in Processes, baseline'.marks = run[r].marks, Ending(r), run'[r].marks = run[r].marks,
                 run[r].targets # <<>>, run[r].command.baseline, run[r].command.update_baseline
          PROVE  KnownTo(baseline.marks, p, Everyone)'
      <4>1. r # p /\ Moves(run'[r], run[r])
        BY <1>5, <3>2 DEF Ending
      <4>2. CASE p \in run[r].after
        <5>1. KnownTo(run[r].loaded, p, run[r].after)
          BY <2>2, <3>2, <4>2 DEF KnownInv
        <5>2. run[r].loaded \subseteq run[r].marks /\ run[r].after \subseteq Processes
          BY <1>1 DEF Local, Told, Typed
        <5>3. run[r].after \subseteq Everyone'
          <6>1. \A x \in run[r].after: x \in Processes /\ run[x].at = "ended"
            BY <5>2 DEF AfterInv
          <6>2. QED
            BY <1>3, <6>1 DEF Everyone
        <5>4. \A more, many: run[r].loaded \subseteq more /\ run[r].after \subseteq many => KnownTo(more, p, many)'
          BY <2>3, <5>1, <5>2
        <5>5. QED
          BY <3>2, <5>2, <5>3, <5>4 DEF KnownTo, Overlapped
      <4>3. CASE p \notin run[r].after
        <5>1. r \notin run'[p].after /\ p \notin run'[r].after
          BY <2>1, <3>2, <4>1, <4>3 DEF AfterInv, Ending, Rests, Moves
        <5>2. Adopts(r)'
          BY <3>2, <4>1 DEF Ending, Adopts, Finished, Moves
        <5>3. r \in Everyone'
          BY <3>2 DEF Ending, Everyone
        <5>4. QED
          BY <4>1, <5>1, <5>2, <5>3 DEF KnownTo, Overlapped
      <4>4. QED
        BY <4>2, <4>3
    <3>3. QED
      BY <2>5, <3>1, <3>2, StepBaseline
  <2>6. ASSUME NEW q \in Processes, p \in run'[q].after, run'[q].targets # <<>>, run'[q].command.baseline
        PROVE  KnownTo(run[q].loaded, p, run[q].after)'
    <3>1. CASE Start(q)
      <4>1. run'[q].after = Everyone /\ run'[q].loaded = baseline.marks /\ baseline.state # "torn"
        BY <2>6, <3>1, StartRuns
      <4>2. KnownTo(baseline.marks, p, Everyone)
        <5>1. baseline.state \in {"missing", "whole", "torn"}
          BY DEF RunsInv, SceneInv
        <5>2. QED
          BY <2>2, <4>1, <5>1 DEF KnownInv
      <4>3. \A more, many: baseline.marks \subseteq more /\ Everyone \subseteq many => KnownTo(more, p, many)'
        BY <1>3, <2>3, <4>2
      <4>4. QED
        BY <4>1, <4>3 DEF KnownTo, Overlapped
    <3>2. CASE ~Start(q)
      <4>1. Moves(run'[q], run[q])
        BY <3>2, StepRuns DEF Rests, Going, Ending
      <4>2. KnownTo(run[q].loaded, p, run[q].after) /\ run[q].after \in SUBSET Processes
        BY <1>1, <2>2, <2>6, <4>1 DEF KnownInv, Moves, Local, Typed
      <4>3. \A more, many: run[q].loaded \subseteq more /\ run[q].after \subseteq many => KnownTo(more, p, many)'
        BY <2>3, <4>2
      <4>4. QED
        BY <4>1, <4>3 DEF KnownTo, Overlapped, Moves
    <3>3. QED
      BY <3>1, <3>2
  <2>7. QED
    BY <2>4, <2>5, <2>6
<1>6. CASE run[p].at # "ended"
  <2>1. Ending(p) /\ SaveBaseline(p)
    <3>1. Ending(p)
      BY <1>4, <1>6, StepRuns DEF Saved, Adopts, Finished, Rests, Going
    <3>2. QED
      BY <3>1 DEF Ending, Saved, Adopts, Moves
  <2>2. DOMAIN run = Processes
    BY DEF RunsInv, SceneInv
  <2>3. \A q \in Processes: q # p => run'[q] = run[q]
    BY <2>1, <2>2 DEF SaveBaseline, Becomes
  <2>4. run'[p].marks = run[p].marks /\ baseline'.state = "whole" /\ baseline'.marks = run[p].marks
    <3>1. run'[p] = Ended(run[p], ExitCode(run[p])) /\ baseline' = [state |-> "whole", marks |-> run[p].marks]
      BY <2>1, <2>2 DEF SaveBaseline, Becomes
    <3>2. scene \in Scenes
      BY DEF RunsInv, SceneInv
    <3>3. QED
      BY <1>1, <3>1, <3>2, RunsMove
  <2>5. \A q \in Processes: p \notin run[q].after
    BY <1>6 DEF AfterInv
  <2>6. \A q \in Processes: p \notin run'[q].after
    BY <2>1, <2>3, <2>5 DEF Ending, Moves
  <2>7. QED
    BY <2>4, <2>6 DEF KnownTo
<1>7. QED
  BY <1>5, <1>6

----------------------------------------------------------------------------
(* Theorems *)

LEMMA InitInv ==
  ASSUME Init
  PROVE  IInv
<1>1. scene \in Scenes /\ \A p \in Processes: run[p] = Idle
  BY DEF Init
<1>2. SceneInv
  BY <1>1, SceneFacts DEF Init, SceneInv
<1>3. LocalInv
  BY <1>1, IdleLocal DEF LocalInv
<1>4. DiskInv
  <2>1. Idle.read = <<>> /\ Idle.told = <<>>
    BY DEF Idle
  <2>2. QED
    BY <1>1, <2>1, NothingFresh DEF DiskInv
<1>5. AfterInv /\ KnownInv
  <2>1. Idle.after = {} /\ Idle.at = "idle"
    BY DEF Idle
  <2>2. QED
    BY <1>1, <2>1 DEF AfterInv, KnownInv, Saved, Adopts, Finished
<1>6. QED
  BY <1>2, <1>3, <1>4, <1>5 DEF IInv

\* All that the theorems below rest on, for any processes, trees, commands and rules:
\* no step of lint.rs, discover.rs or baseline.rs, a crash or an edit by the user
\* breaks it.
THEOREM Inductive == Spec => []IInv
<1>1. Init => IInv
  BY InitInv
<1>2. IInv /\ [Next]_vars => IInv'
  <2> SUFFICES ASSUME IInv, [Next]_vars PROVE IInv'
    OBVIOUS
  <2>1. RunsInv
    BY DEF IInv, RunsInv
  <2>2. CASE Next
    BY <2>1, <2>2, StepScene, StepLocal, StepDisk, StepAfter, StepKnown DEF IInv
  <2>3. CASE UNCHANGED vars
    <3>1. scene' = scene /\ disk' = disk /\ baseline' = baseline /\ run' = run /\ edits' = edits
      BY <2>3 DEF vars
    <3>2. SceneInv' /\ LocalInv' /\ DiskInv' /\ AfterInv'
      BY <3>1 DEF IInv, SceneInv, LocalInv, DiskInv, AfterInv
    <3>3. KnownInv'
      BY <3>1 DEF IInv, KnownInv, KnownTo, Saved, Adopts, Finished, Overlapped, Everyone
    <3>4. QED
      BY <3>2, <3>3 DEF IInv
  <2>4. QED
    BY <2>2, <2>3
<1>3. QED
  BY <1>1, <1>2, PTL DEF Spec

\* The variables keep their types: every run holds documents, findings with a severity
\* and counters, and the disk the files of the tree.
THEOREM TypeCorrect == Spec => [](SceneInv /\ \A p \in Processes: Typed(scene, run[p]))
<1>1. IInv => SceneInv /\ \A p \in Processes: Typed(scene, run[p])
  BY DEF IInv, LocalInv, Local
<1>2. QED
  BY <1>1, Inductive, PTL

\* The verdict stands for every file in scope: with 0 or 1 (lint.rs) each file that
\* somebody who looks at the tree would say is to be linted was read and reported on,
\* and with 0 the errors in all of them together are within --max-errors.
THEOREM VerdictAlwaysHonest == Spec => []VerdictIsHonest
<1>1. ASSUME IInv PROVE VerdictIsHonest
  <2> SUFFICES ASSUME NEW p \in Processes, Finished(p), run[p].code \in {0, 1}
               PROVE  /\ InScope(scene.tree, run[p].command) \subseteq DOMAIN run[p].told
                      /\ \A k \in DOMAIN run[p].read: run[p].read[k].readable
                      /\ run[p].code = 0 =>
                            Cardinality(AllStandingErrors(run[p])) <= run[p].command.max_errors
    BY DEF VerdictIsHonest
  <2> DEFINE r == run[p]
  <2>1. Local(scene, r) /\ scene \in Scenes
    BY <1>1 DEF IInv, LocalInv, SceneInv
  <2>2. r.at = "ended" /\ r.targets # <<>> /\ r.code \in {0, 1}
    BY DEF Finished
  <2> HIDE DEF r
  <2>3. /\ r.failed = 0 /\ r.next > Len(r.targets)
        /\ r.code = 0 => r.errors <= r.command.max_errors
        /\ Range(r.targets) = Targets(scene.tree, r.command)
        /\ ~Refused(scene.tree, FileArgs(scene.tree, r.command), r.command.exclude)
    BY <2>1, <2>2 DEF Local, Complete
  <2>4. DOMAIN r.targets = 1..Len(r.targets) /\ Len(r.targets) \in Nat /\ r.next \in Nat
        /\ DOMAIN r.read \subseteq DOMAIN r.targets
    BY <2>1 DEF Local, Typed, InOrder
  <2>5. ASSUME NEW k \in DOMAIN r.targets PROVE r.targets[k] \in DOMAIN r.told /\ r.read[k].readable
    <3>1. k \in 1..(r.next - 1)
      BY <2>3, <2>4
    <3>2. QED
      BY <2>1, <2>3, <3>1 DEF Local, Complete
  <2>6. InScope(scene.tree, r.command) \subseteq DOMAIN r.told
    <3>1. InScope(scene.tree, r.command) \subseteq Targets(scene.tree, r.command)
      BY <2>1, <2>3, SceneFacts, ScopeIsTargeted
    <3>2. QED
      BY <2>3, <2>5, <3>1 DEF Range
  <2>7. r.code = 0 => Cardinality(AllStandingErrors(r)) <= r.command.max_errors
    <3>1. Cardinality(AllStandingErrors(r)) <= r.errors /\ Cardinality(AllStandingErrors(r)) \in Nat
          /\ r.errors \in Nat /\ r.command.max_errors \in Nat
      BY <2>1, <2>2, SceneFacts, FS_CardinalityType DEF Local, Typed, Told, IsCommand
    <3>2. QED
      BY <2>3, <3>1
  <2>8. QED
    BY <2>4, <2>5, <2>6, <2>7 DEF r
<1>2. QED
  BY <1>1, Inductive, PTL

\* What a run has told of a file is true of the file, unless somebody else has saved it
\* since or the run is a dry one on Simplified text (lint.rs, atomic.rs).
THEOREM ReportAlwaysDescribesTheDisk == Spec => []ReportDescribesTheDisk
<1>1. IInv => ReportDescribesTheDisk
  BY DEF IInv, DiskInv, True, ReportDescribesTheDisk
<1>2. QED
  BY <1>1, Inductive, PTL

\* What a run has adopted, a later one passes over, however many others adopt, are
\* killed or fail in between (lint.rs, baseline.rs): unless one of them adopted at the
\* same time as the first.
THEOREM AdoptionAlwaysClean == Spec => []AdoptionIsClean
<1>1. ASSUME IInv PROVE AdoptionIsClean
  <2> SUFFICES ASSUME NEW p \in Processes, NEW q \in Processes, NEW path \in DOMAIN scene.documents,
                      SameText(p, q, path), Saved(p), ~Overlapped(p, run[q].after), Filters(run[q]),
                      ~run[p].command.fix, ~run[q].command.fix
               PROVE  run[q].told[path].issues = {}
    BY DEF AdoptionIsClean
  <2>1. Tells(run[p], path) /\ Tells(run[q], path) /\ Typed(scene, run[q]) /\ InOrder(run[q])
    BY <1>1 DEF IInv, LocalInv, Local, Told, SameText
  <2>2. p \in run[q].after /\ run[q].command.baseline /\ run[q].targets # <<>>
    <3>1. run[q].targets \in Seq(Places(scene)) /\ run[q].next \in 1..(Len(run[q].targets) + 1)
          /\ DOMAIN run[q].told \subseteq {run[q].targets[k]: k \in 1..(run[q].next - 1)}
      BY <2>1 DEF Typed, InOrder
    <3>2. PICK k \in 1..(run[q].next - 1): run[q].targets[k] = path
      BY <3>1 DEF SameText
    <3>3. QED
      BY <3>1, <3>2 DEF SameText, Filters
  <2>3. run[p].marks \subseteq run[q].loaded
    BY <1>1, <2>2 DEF IInv, KnownInv, KnownTo
  <2>4. SUFFICES ASSUME NEW issue \in run[q].told[path].issues PROVE FALSE
    OBVIOUS
  <2>5. Fingerprint(path, issue) \notin run[q].loaded
    BY <2>1 DEF Tells
  <2>6. <<issue.at, issue.word>> \in Pairs(run[p].told[path].issues)
    <3>1. Pairs(run[p].told[path].issues) = Pairs(ScanOf(run[p].told[path].text))
      BY <2>1 DEF Tells, Saved, Adopts, Filters
    <3>2. Pairs(run[q].told[path].issues) \subseteq Pairs(ScanOf(run[p].told[path].text))
      BY <2>1 DEF Tells, SameText
    <3>3. <<issue.at, issue.word>> \in Pairs(run[q].told[path].issues)
      BY DEF Pairs
    <3>4. QED
      BY <3>1, <3>2, <3>3
  <2>7. PICK other \in run[p].told[path].issues: other.word = issue.word
    BY <2>6 DEF Pairs
  <2>8. Fingerprint(path, issue) \in run[p].marks
    BY <2>1, <2>7 DEF Tells, Saved, Adopts, Adopted, Fingerprint
  <2>9. QED
    BY <2>3, <2>5, <2>8
<1>2. QED
  BY <1>1, Inductive, PTL

\* Whatever a fixing run still reports (lint.rs), the next run on the same text reports
\* as well, at the same place.
THEOREM FixReportAlwaysConfirmed == Spec => []FixReportIsConfirmed
<1>1. ASSUME IInv PROVE FixReportIsConfirmed
  <2> SUFFICES ASSUME NEW p \in Processes, NEW q \in Processes, NEW path \in DOMAIN scene.documents,
                      SameText(p, q, path), ~run[q].command.fix, ~Filters(run[q])
               PROVE  Pairs(run[p].told[path].issues) \subseteq Pairs(run[q].told[path].issues)
    BY DEF FixReportIsConfirmed, Pairs
  <2>1. Tells(run[p], path) /\ Tells(run[q], path)
    BY <1>1 DEF IInv, LocalInv, Local, Told, SameText
  <2>2. QED
    BY <2>1 DEF Tells, SameText
<1>2. QED
  BY <1>1, Inductive, PTL

=============================================================================
