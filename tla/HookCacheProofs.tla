--------------------------- MODULE HookCacheProofs ---------------------------
(* Proofs about HookCache, for any number of callbacks, files, terms, writes and edits:  *)
(* a record is changed only by a callback on its file, and where the inputs are quiet    *)
(* while a callback loads them, no callback is silent about what nobody reported.        *)
EXTENDS HookCache, TLAPS, FiniteSetTheorems

\* A verdict on f that is empty, was printed, or is about to be.
ToldOf(f, v) ==
    \/ v = {} \/ v \in said[f]
    \/ \E q \in Callbacks: Reporting(q, f) /\ issues[q] = v

\* A record is of a verdict under the inputs it names, and the verdict was reported.
Honest(f, e) == e.issues = Verdict(e.text, e.print[1], e.print[2]) /\ ToldOf(f, e.issues)

\* The lock: what a callback re-reads of the cache is the cache until it has replaced it, or
\* nothing, when it could not.
LockOf(p) ==
    /\ pc[p] # "idle" => file[p] \in Files
    /\ pc[p] = "idle" => previous[p] = NoEntry
    /\ pc[p] = "replace" => /\ lock = p /\ merged[p] \in Readings
                            /\ unread \/ merged[p] = entries

LockInv == IsFiniteSet(DOMAIN entries) /\ \A p \in Callbacks: LockOf(p)

\* What a callback has loaded and not yet used is what the inputs still hold.
LoadOf(p) ==
    /\ pc[p] \in Loading => loaded[p] = early
    /\ pc[p] \in {"lookup", "scan"} => print[p] = <<early, late>>

\* A verdict is the one due; what a callback keeps silent about was reported.
VerdictOf(p) ==
    /\ previous[p] # NoEntry => Honest(file[p], previous[p])
    /\ pc[p] \in {"persist", "replace", "silent", "print"} => issues[p] = Due(p)
    /\ pc[p] = "known" => Known(p, previous[p])
    /\ pc[p] = "silent" => ToldOf(file[p], issues[p])

HonestRecords == \A f \in DOMAIN entries: Honest(f, entries[f])

SilenceInv == HonestRecords /\ \A p \in Callbacks: LoadOf(p) /\ VerdictOf(p)

IInv == TypeOK /\ LockInv /\ (QuietRules => SilenceInv)

LEMMA NoEntriesRecorded == DOMAIN NoEntries = {} /\ Recorded(NoEntries)
BY DEF NoEntries, Recorded

LEMMA InitInv == Init => IInv
<1> SUFFICES ASSUME Init PROVE IInv
  OBVIOUS
<1>1. DOMAIN NoEntries = {} /\ Recorded(NoEntries)
  BY NoEntriesRecorded
<1>2. TypeOK
  <2>1. <<{}, {}>> \in (SUBSET Terms) \X (SUBSET Terms)
    OBVIOUS
  <2>2. QED
    BY <1>1, <2>1 DEF Init, TypeOK
<1>3. LockInv
  BY <1>1, FS_EmptySet DEF Init, LockInv, LockOf
<1>4. SilenceInv
  BY <1>1 DEF Init, SilenceInv, HonestRecords, LoadOf, VerdictOf, Loading
<1>5. QED
  BY <1>2, <1>3, <1>4 DEF IInv

----------------------------------------------------------------------------
(* What the steps of a callback leave alone *)

\* A callback reads records of the cache, or none.
LEMMA ReadingIsOfTheCache ==
  ASSUME TypeOK, NEW read \in Readings
  PROVE  /\ Recorded(read) /\ DOMAIN read \subseteq DOMAIN entries
         /\ \A f \in DOMAIN read: read[f] = entries[f]
BY NoEntriesRecorded DEF Readings, TypeOK

\* A step of p touches no other callback.
Alone(p) ==
    \A q \in Callbacks: q # p =>
        /\ pc'[q] = pc[q] /\ file'[q] = file[q] /\ text'[q] = text[q]
        /\ loaded'[q] = loaded[q] /\ print'[q] = print[q] /\ previous'[q] = previous[q]
        /\ issues'[q] = issues[q] /\ merged'[q] = merged[q]

LEMMA StepIsAlone ==
  ASSUME TypeOK, NEW p \in Callbacks,
         \/ \E f \in Files, c \in SUBSET Terms: Write(p, f, c)
         \/ Decline(p) \/ ReadFile(p) \/ LoadEarly(p) \/ Fingerprint(p) \/ Lookup(p) \/ Scan(p)
         \/ PersistSkipped(p) \/ PersistLock(p) \/ PersistReplace(p) \/ Exit(p) \/ Kill(p)
  PROVE  Alone(p)
<1>1. CASE \E f \in Files, c \in SUBSET Terms: Write(p, f, c)
  BY <1>1 DEF Write, Goto, Alone, TypeOK
<1>2. CASE Decline(p) \/ Exit(p) \/ Kill(p)
  BY <1>2 DEF Decline, Exit, Kill, Gone, Goto, Alone, TypeOK
<1>3. CASE ReadFile(p) \/ LoadEarly(p) \/ Fingerprint(p)
  BY <1>3 DEF ReadFile, LoadEarly, Fingerprint, Goto, Alone, TypeOK
<1>4. CASE Lookup(p) \/ Scan(p)
  BY <1>4 DEF Lookup, Scan, Goto, Alone, TypeOK
<1>5. CASE PersistSkipped(p) \/ PersistReplace(p)
  BY <1>5 DEF PersistSkipped, PersistReplace, Goto, Alone, TypeOK, local
<1>6. CASE PersistLock(p)
  BY <1>6 DEF PersistLock, Goto, Alone, TypeOK
<1>7. QED
  BY <1>1, <1>2, <1>3, <1>4, <1>5, <1>6

\* What was reported stays reported: a callback that is to print does, or dies.
LEMMA ToldStays ==
  ASSUME TypeOK, Next, NEW f \in Files, NEW v, ToldOf(f, v)
  PROVE  ToldOf(f, v)'
<1>1. ASSUME NEW p \in Callbacks, Alone(p), pc[p] # "print", said' = said
      PROVE  ToldOf(f, v)'
  BY <1>1 DEF ToldOf, Reporting, Alone
<1>2. ASSUME NEW p \in Callbacks, Exit(p) \/ Kill(p)
      PROVE  ToldOf(f, v)'
  <2>1. Alone(p)
    BY <1>2, StepIsAlone
  <2>2. CASE pc[p] = "print"
    <3>1. said' = [said EXCEPT ![file[p]] = @ \cup {issues[p]}]
      BY <1>2, <2>2 DEF Exit, Kill
    <3>2. said[f] \subseteq said'[f] /\ (file[p] = f => issues[p] \in said'[f])
      BY <3>1 DEF TypeOK
    <3>3. CASE v = {} \/ v \in said[f]
      BY <3>2, <3>3 DEF ToldOf
    <3>4. ASSUME NEW q \in Callbacks, Reporting(q, f), issues[q] = v
          PROVE  ToldOf(f, v)'
      BY <2>1, <3>2, <3>4 DEF ToldOf, Reporting, Alone
    <3>5. QED
      BY <3>3, <3>4 DEF ToldOf
  <2>3. CASE pc[p] # "print"
    BY <1>1, <1>2, <2>1, <2>3 DEF Exit, Kill
  <2>4. QED
    BY <2>2, <2>3
<1>3. ASSUME NEW t \in Terms, Edit(t)
      PROVE  ToldOf(f, v)'
  BY <1>3 DEF Edit, local, ToldOf, Reporting
<1>4. ASSUME NEW p \in Callbacks,
             \/ \E g \in Files, c \in SUBSET Terms: Write(p, g, c)
             \/ Decline(p) \/ ReadFile(p) \/ LoadEarly(p) \/ Fingerprint(p) \/ Lookup(p)
             \/ Scan(p) \/ PersistSkipped(p) \/ PersistLock(p) \/ PersistReplace(p)
      PROVE  ToldOf(f, v)'
  <2>1. Alone(p)
    BY <1>4, StepIsAlone
  <2>2. pc[p] # "print" /\ said' = said
    BY <1>4 DEF Write, Decline, ReadFile, LoadEarly, Fingerprint, Lookup, Scan, PersistSkipped,
                PersistLock, PersistReplace
  <2>3. QED
    BY <1>1, <2>1, <2>2
<1>5. QED
  BY <1>2, <1>3, <1>4 DEF Next

LEMMA HonestStays ==
  ASSUME TypeOK, Next, NEW f \in Files, NEW e, Honest(f, e)
  PROVE  Honest(f, e)'
<1>1. ToldOf(f, e.issues)'
  BY ToldStays DEF Honest
<1>2. QED
  BY <1>1 DEF Honest, Verdict

\* What the step of one callback does not disturb.
LEMMA OthersAreFine ==
  ASSUME TypeOK, LockInv, SilenceInv, Next, NEW p \in Callbacks, Alone(p),
         UNCHANGED <<early, late>>,
         NEW q \in Callbacks, q # p
  PROVE  LoadOf(q)' /\ VerdictOf(q)'
<1>1. /\ pc'[q] = pc[q] /\ file'[q] = file[q] /\ text'[q] = text[q] /\ loaded'[q] = loaded[q]
      /\ print'[q] = print[q] /\ previous'[q] = previous[q] /\ issues'[q] = issues[q]
  BY DEF Alone
<1>2. LoadOf(q)'
  BY <1>1 DEF SilenceInv, LoadOf
<1>3. previous[q] # NoEntry => file[q] \in Files /\ Honest(file[q], previous[q])
  BY DEF LockInv, LockOf, SilenceInv, VerdictOf
<1>4. previous'[q] # NoEntry => Honest(file[q], previous[q])'
  <2>1. ASSUME NEW f, NEW e, f = file[q], e = previous[q], e # NoEntry
        PROVE  Honest(f, e)'
    BY <1>3, <2>1, HonestStays
  <2>2. QED
    BY <1>1, <1>3, <2>1 DEF Honest, ToldOf, Reporting
<1>5. pc'[q] = "silent" => ToldOf(file[q], issues[q])'
  <2>1. ASSUME NEW f, NEW v, f = file[q], v = issues[q], pc[q] = "silent"
        PROVE  ToldOf(f, v)'
    <3>1. f \in Files /\ ToldOf(f, v)
      BY <2>1 DEF LockInv, LockOf, SilenceInv, VerdictOf
    <3>2. QED
      BY <3>1, ToldStays
  <2>2. QED
    BY <1>1, <2>1 DEF ToldOf, Reporting
<1>6. /\ pc'[q] \in {"persist", "replace", "silent", "print"} => issues'[q] = Due(q)'
      /\ pc'[q] = "known" => Known(q, previous[q])'
  BY <1>1 DEF SilenceInv, VerdictOf, Due, Known
<1>7. QED
  BY <1>2, <1>4, <1>5, <1>6 DEF VerdictOf

----------------------------------------------------------------------------
(* Types *)

LEMMA UpsertIsRecorded ==
  ASSUME TypeOK, NEW p \in Callbacks, file[p] \in Files
  PROVE  /\ Recorded(Upsert(p)) /\ DOMAIN Upsert(p) = DOMAIN merged[p] \cup {file[p]}
         /\ Upsert(p)[file[p]] = Entry(p)
         /\ \A f \in DOMAIN merged[p]: f # file[p] => Upsert(p)[f] = merged[p][f]
<1>1. Entry(p) \in Record
  BY DEF Entry, Record, TypeOK
<1>2. Recorded(merged[p])
  BY DEF TypeOK
<1>3. QED
  BY <1>1, <1>2 DEF Recorded, Upsert

LEMMA EvictedIsRecorded ==
  ASSUME NEW m, Recorded(m), NEW e \in Evicted(m)
  PROVE  Recorded(e) /\ DOMAIN e \subseteq DOMAIN m /\ \A f \in DOMAIN e: e[f] = m[f]
<1>1. PICK kept \in SUBSET DOMAIN m: e = [f \in kept |-> m[f]]
  BY DEF Evicted
<1>2. QED
  BY <1>1 DEF Recorded

LEMMA GoneType ==
  ASSUME TypeOK, NEW p \in Callbacks, Gone(p)
  PROVE  /\ pc' \in [Callbacks -> Loading \cup
                     {"idle", "read", "load", "persist", "replace", "known", "silent", "print"}]
         /\ file' \in [Callbacks -> Files \cup {NoFile}]
         /\ text' \in [Callbacks -> SUBSET Terms] /\ loaded' \in [Callbacks -> SUBSET Terms]
         /\ print' \in [Callbacks -> (SUBSET Terms) \X (SUBSET Terms)]
         /\ previous' \in [Callbacks -> Record \cup {NoEntry}]
         /\ issues' \in [Callbacks -> SUBSET Terms]
         /\ merged' = [q \in Callbacks |-> merged'[q]] /\ \A q \in Callbacks: Recorded(merged'[q])
<1>1. Recorded(NoEntries)
  BY NoEntriesRecorded
<1>2. merged' = [merged EXCEPT ![p] = NoEntries]
  BY DEF Gone
<1>3. merged' = [q \in Callbacks |-> merged'[q]] /\ \A q \in Callbacks: Recorded(merged'[q])
  BY <1>1, <1>2 DEF TypeOK
<1>4. <<{}, {}>> \in (SUBSET Terms) \X (SUBSET Terms)
  OBVIOUS
<1>5. QED
  BY <1>3, <1>4 DEF Gone, Goto, TypeOK

LEMMA SaidType ==
  ASSUME TypeOK, NEW p \in Callbacks
  PROVE  [said EXCEPT ![file[p]] = @ \cup {issues[p]}] \in [Files -> SUBSET SUBSET Terms]
<1> DEFINE more == said[file[p]] \cup {issues[p]}
<1>1. file[p] \in Files => more \in SUBSET SUBSET Terms
  BY DEF TypeOK
<1> HIDE DEF more
<1>2. [said EXCEPT ![file[p]] = more] \in [Files -> SUBSET SUBSET Terms]
  BY <1>1 DEF TypeOK
<1>3. QED
  BY <1>2 DEF more

LEMMA TypeStep ==
  ASSUME TypeOK, LockInv, Next
  PROVE  TypeOK'
<1>1. ASSUME NEW p \in Callbacks, NEW f \in Files, NEW c \in SUBSET Terms, Write(p, f, c)
      PROVE  TypeOK'
  BY <1>1 DEF Write, Goto, TypeOK, Recorded
<1>2. ASSUME NEW t \in Terms, Edit(t)
      PROVE  TypeOK'
  BY <1>2 DEF Edit, Toggle, local, TypeOK, Recorded
<1>3. ASSUME NEW p \in Callbacks, Decline(p) \/ Exit(p) \/ Kill(p)
      PROVE  TypeOK'
  <2>1. Gone(p) /\ UNCHANGED <<content, early, late, entries, writes, edits>>
        /\ lock' \in {lock, "free"} /\ unread' \in BOOLEAN
        /\ said' \in {said, [said EXCEPT ![file[p]] = @ \cup {issues[p]}]}
    BY <1>3 DEF Decline, Exit, Kill, disk, TypeOK
  <2>2. said' \in [Files -> SUBSET SUBSET Terms]
    <3>1. said \in [Files -> SUBSET SUBSET Terms]
      BY DEF TypeOK
    <3>2. CASE said' = said
      BY <3>1, <3>2
    <3>3. CASE said' = [said EXCEPT ![file[p]] = @ \cup {issues[p]}]
      <4> DEFINE more == [said EXCEPT ![file[p]] = @ \cup {issues[p]}]
      <4>1. more \in [Files -> SUBSET SUBSET Terms]
        BY SaidType
      <4>2. said' = more
        BY <3>3
      <4> HIDE DEF more
      <4>3. QED
        BY <4>1, <4>2
    <3>4. QED
      BY <2>1, <3>2, <3>3
  <2>3. QED
    BY <2>1, <2>2, GoneType DEF TypeOK, Recorded
<1>4. ASSUME NEW p \in Callbacks, ReadFile(p)
      PROVE  TypeOK'
  <2>1. file[p] \in Files
    BY <1>4 DEF ReadFile, LockInv, LockOf
  <2>2. QED
    BY <1>4, <2>1 DEF ReadFile, Goto, disk, TypeOK, Recorded
<1>5. ASSUME NEW p \in Callbacks, LoadEarly(p)
      PROVE  TypeOK'
  BY <1>5 DEF LoadEarly, Goto, disk, TypeOK, Recorded, Loading
<1>6. ASSUME NEW p \in Callbacks, Fingerprint(p)
      PROVE  TypeOK'
  BY <1>6 DEF Fingerprint, Goto, disk, TypeOK, Recorded, Loading
<1>7. ASSUME NEW p \in Callbacks, Lookup(p)
      PROVE  TypeOK'
  <2>0. PICK read \in Readings:
            LET e == IF file[p] \in DOMAIN read THEN read[file[p]] ELSE NoEntry
            IN  /\ previous' = [previous EXCEPT ![p] = e]
                /\ pc' = [pc EXCEPT ![p] = IF Known(p, e) THEN "known" ELSE "scan"]
    BY <1>7 DEF Lookup, Goto
  <2> DEFINE e == IF file[p] \in DOMAIN read THEN read[file[p]] ELSE NoEntry
  <2>1. e \in Record \cup {NoEntry}
    BY NoEntriesRecorded DEF TypeOK, Recorded, Readings
  <2>2. previous' = [previous EXCEPT ![p] = e]
        /\ pc' \in {[pc EXCEPT ![p] = "known"], [pc EXCEPT ![p] = "scan"]}
    BY <2>0
  <2>3. UNCHANGED <<content, early, late, entries, lock, unread, file, text, loaded, print,
                    issues, merged, said, writes, edits>>
    BY <1>7 DEF Lookup, disk
  <2> HIDE DEF e
  <2>4. QED
    BY <2>1, <2>2, <2>3 DEF TypeOK, Recorded, Loading
<1>8. ASSUME NEW p \in Callbacks, Scan(p)
      PROVE  TypeOK'
  BY <1>8 DEF Scan, Verdict, Goto, disk, TypeOK, Recorded
<1>9. ASSUME NEW p \in Callbacks
      PROVE  Report(p) \in {"silent", "print"}
  BY DEF Report
<1>10. ASSUME NEW p \in Callbacks, PersistSkipped(p)
       PROVE  TypeOK'
  BY <1>9, <1>10 DEF PersistSkipped, Goto, disk, local, TypeOK, Recorded
<1>11. ASSUME NEW p \in Callbacks, PersistLock(p)
       PROVE  TypeOK'
  <2>1. PICK read \in Readings: merged' = [merged EXCEPT ![p] = read]
    BY <1>11 DEF PersistLock
  <2>2. Recorded(read)
    BY NoEntriesRecorded DEF Readings, TypeOK
  <2>3. merged' = [q \in Callbacks |-> merged'[q]] /\ \A q \in Callbacks: Recorded(merged'[q])
    BY <2>1, <2>2 DEF TypeOK
  <2>4. unread' \in BOOLEAN
    BY <1>11 DEF PersistLock
  <2>5. QED
    BY <1>11, <2>3, <2>4 DEF PersistLock, Goto, disk, TypeOK, Recorded
<1>12. ASSUME NEW p \in Callbacks, PersistReplace(p)
       PROVE  TypeOK'
  <2>1. file[p] \in Files
    BY <1>12 DEF PersistReplace, LockInv, LockOf
  <2>2. Recorded(entries')
    BY <1>12, <2>1, UpsertIsRecorded, EvictedIsRecorded DEF PersistReplace, TypeOK
  <2>3. QED
    BY <1>9, <1>12, <2>2 DEF PersistReplace, Goto, disk, local, TypeOK, Recorded
<1>13. QED
  BY <1>1, <1>2, <1>3, <1>4, <1>5, <1>6, <1>7, <1>8, <1>10, <1>11, <1>12 DEF Next

----------------------------------------------------------------------------
(* The lock *)

LEMMA LockStep ==
  ASSUME TypeOK, LockInv, Next
  PROVE  LockInv'
<1>1. ASSUME NEW p \in Callbacks, Alone(p), UNCHANGED <<entries, lock, unread>>, LockOf(p)'
      PROVE  LockInv'
  BY <1>1 DEF LockInv, LockOf, Alone, Readings
<1>2. ASSUME NEW p \in Callbacks, NEW f \in Files, NEW c \in SUBSET Terms, Write(p, f, c)
      PROVE  LockInv'
  BY <1>1, <1>2, StepIsAlone DEF Write, Goto, LockInv, LockOf, TypeOK
<1>3. ASSUME NEW t \in Terms, Edit(t)
      PROVE  LockInv'
  BY <1>3 DEF Edit, local, LockInv, LockOf, Readings
<1>4. ASSUME NEW p \in Callbacks, Decline(p) \/ Exit(p) \/ Kill(p)
      PROVE  LockInv'
  <2>1. Alone(p) /\ entries' = entries /\ ((lock' = lock /\ unread' = unread) \/ lock = p)
    BY <1>4, StepIsAlone DEF Decline, Exit, Kill, TypeOK
  <2>2. LockOf(p)'
    BY <1>4 DEF Decline, Exit, Kill, Gone, Goto, LockOf, TypeOK
  <2>3. QED
    BY <2>1, <2>2 DEF LockInv, LockOf, Alone, Readings
<1>5. ASSUME NEW p \in Callbacks,
             \/ ReadFile(p) \/ LoadEarly(p) \/ Fingerprint(p) \/ Lookup(p) \/ Scan(p)
             \/ PersistSkipped(p)
      PROVE  LockInv'
  <2>1. /\ pc[p] # "idle" /\ file'[p] = file[p] /\ UNCHANGED <<entries, lock, unread>>
        /\ pc'[p] \notin {"idle", "replace"}
    BY <1>5 DEF ReadFile, LoadEarly, Fingerprint, Lookup, Scan, PersistSkipped, Report, Goto,
                local, TypeOK
  <2>2. LockOf(p)'
    BY <2>1 DEF LockInv, LockOf
  <2>3. QED
    BY <1>1, <1>5, <2>1, <2>2, StepIsAlone
<1>6. ASSUME NEW p \in Callbacks, PersistLock(p)
      PROVE  LockInv'
  <2>1. /\ lock = "free" /\ lock' = p /\ entries' = entries /\ file' = file
        /\ pc'[p] = "replace" /\ pc[p] = "persist"
        /\ \E read \in Readings: merged'[p] = read /\ unread' = (read # entries)
    BY <1>6 DEF PersistLock, Goto, TypeOK
  <2>2. \A q \in Callbacks: pc[q] # "replace"
    BY <2>1, HookAssumption DEF LockInv, LockOf
  <2>3. Alone(p)
    BY <1>6, StepIsAlone
  <2>4. LockOf(p)'
    BY <2>1 DEF LockInv, LockOf, Readings
  <2>5. QED
    BY <2>1, <2>2, <2>3, <2>4 DEF LockInv, LockOf, Alone
<1>7. ASSUME NEW p \in Callbacks, PersistReplace(p)
      PROVE  LockInv'
  <2>1. /\ pc[p] = "replace" /\ file' = file /\ pc'[p] \in {"silent", "print"}
    BY <1>7 DEF PersistReplace, Goto, Report, local, TypeOK
  <2>2. file[p] \in Files /\ lock = p /\ merged[p] \in Readings
    BY <2>1 DEF LockInv, LockOf
  <2>3. IsFiniteSet(DOMAIN entries')
    <3>1. IsFiniteSet(DOMAIN Upsert(p))
      <4>1. DOMAIN Upsert(p) = DOMAIN merged[p] \cup {file[p]}
        BY <2>2, UpsertIsRecorded
      <4>2. DOMAIN merged[p] \in SUBSET DOMAIN entries
        BY <2>2, ReadingIsOfTheCache
      <4>3. IsFiniteSet(DOMAIN merged[p])
        BY <4>2, FS_Subset DEF LockInv
      <4>4. QED
        BY <4>1, <4>3, FS_AddElement
    <3>2. entries' \in Evicted(Upsert(p)) => DOMAIN entries' \in SUBSET DOMAIN Upsert(p)
      BY <2>2, UpsertIsRecorded, EvictedIsRecorded
    <3>3. QED
      BY <1>7, <3>1, <3>2, FS_Subset DEF PersistReplace, LockInv
  <2>4. Alone(p)
    BY <1>7, StepIsAlone
  <2>5. \A q \in Callbacks: q # p => pc[q] # "replace"
    BY <2>2 DEF LockInv, LockOf
  <2>6. QED
    BY <2>1, <2>2, <2>3, <2>4, <2>5 DEF LockInv, LockOf, Alone
<1>8. QED
  BY <1>2, <1>3, <1>4, <1>5, <1>6, <1>7 DEF Next

----------------------------------------------------------------------------
(* Silence *)

LEMMA RecordsStayHonest ==
  ASSUME TypeOK, SilenceInv, Next, UNCHANGED entries
  PROVE  HonestRecords'
<1>1. ASSUME NEW f \in DOMAIN entries, NEW e, e = entries[f]
      PROVE  Honest(f, e)'
  BY <1>1, HonestStays DEF SilenceInv, HonestRecords, TypeOK, Recorded
<1>2. QED
  BY <1>1 DEF HonestRecords, Honest, ToldOf, Reporting

LEMMA PreviousStaysHonest ==
  ASSUME TypeOK, LockInv, SilenceInv, Next, NEW p \in Callbacks, file'[p] = file[p],
         previous'[p] = previous[p]
  PROVE  previous'[p] # NoEntry => Honest(file[p], previous[p])'
<1>1. ASSUME NEW f, NEW e, f = file[p], e = previous[p], e # NoEntry
      PROVE  Honest(f, e)'
  BY <1>1, HonestStays DEF LockInv, LockOf, SilenceInv, VerdictOf
<1>2. QED
  BY <1>1 DEF Honest, ToldOf, Reporting

\* A callback that is silent has nothing to say, or says what the last one said.
LEMMA ReportIsEarned ==
  ASSUME TypeOK, LockInv, SilenceInv, Next, NEW p \in Callbacks,
         pc[p] \in {"persist", "replace"}, pc' = [pc EXCEPT ![p] = Report(p)],
         UNCHANGED <<local, early, late>>
  PROVE  LoadOf(p)' /\ VerdictOf(p)'
<1>1. /\ file' = file /\ text' = text /\ print' = print /\ previous' = previous
      /\ issues' = issues
  BY DEF local
<1>2. pc'[p] = Report(p) /\ Report(p) \in {"silent", "print"}
  BY DEF Report, TypeOK
<1>3. issues'[p] = Due(p)'
  BY <1>1 DEF SilenceInv, VerdictOf, Due
<1>4. ASSUME Report(p) = "silent"
      PROVE  ToldOf(file[p], issues[p])'
  <2>1. CASE issues[p] = {}
    BY <1>1, <2>1 DEF ToldOf
  <2>2. CASE previous[p] # NoEntry /\ previous[p].issues = issues[p]
    <3>1. ASSUME NEW f, NEW v, f = file[p], v = issues[p]
          PROVE  ToldOf(f, v)'
      <4>1. f \in Files /\ ToldOf(f, v)
        BY <2>2, <3>1 DEF LockInv, LockOf, SilenceInv, VerdictOf, Honest
      <4>2. QED
        BY <4>1, ToldStays
    <3>2. QED
      BY <1>1, <3>1 DEF ToldOf, Reporting
  <2>3. QED
    BY <1>4, <2>1, <2>2 DEF Report
<1>5. previous'[p] # NoEntry => Honest(file[p], previous[p])'
  BY <1>1, PreviousStaysHonest
<1>6. QED
  BY <1>2, <1>3, <1>4, <1>5 DEF LoadOf, VerdictOf, Loading

\* The record a callback leaves is of the verdict due, which it is about to print or which
\* somebody has.
LEMMA ReplaceIsHonest ==
  ASSUME TypeOK, LockInv, SilenceInv, Next, NEW p \in Callbacks, PersistReplace(p)
  PROVE  HonestRecords'
<1>1. /\ pc[p] = "replace" /\ pc' = [pc EXCEPT ![p] = Report(p)]
      /\ UNCHANGED <<local, early, late>>
  BY DEF PersistReplace, Goto, disk
<1>2. /\ file[p] \in Files /\ merged[p] \in Readings /\ issues[p] = Due(p)
      /\ file' = file /\ issues' = issues
  BY <1>1 DEF LockInv, LockOf, SilenceInv, VerdictOf, local
<1>3. CASE entries' = entries
  BY <1>3, RecordsStayHonest
<1>4. CASE entries' \in Evicted(Upsert(p))
  <2>1. ToldOf(file[p], issues[p])'
    <3>1. LoadOf(p)' /\ VerdictOf(p)'
      BY <1>1, ReportIsEarned
    <3>2. pc'[p] = "silent" \/ pc'[p] = "print"
      BY <1>1 DEF Report, TypeOK
    <3>3. CASE pc'[p] = "silent"
      BY <3>1, <3>3 DEF VerdictOf
    <3>4. CASE pc'[p] = "print"
      BY <3>4 DEF ToldOf, Reporting
    <3>5. QED
      BY <3>2, <3>3, <3>4
  <2>2. ASSUME NEW f, NEW e, f = file[p], e = Entry(p)
        PROVE  Honest(f, e)'
    <3>1. /\ e.issues = issues[p] /\ e.text = text[p] /\ e.print = print[p]
      BY <2>2 DEF Entry
    <3>2. e.issues = Verdict(e.text, e.print[1], e.print[2])
      BY <1>2, <3>1 DEF Due
    <3>3. ToldOf(f, e.issues)'
      BY <1>2, <2>1, <2>2, <3>1 DEF ToldOf, Reporting
    <3>4. QED
      BY <3>2, <3>3 DEF Honest, Verdict
  <2>3. ASSUME NEW f \in DOMAIN entries, NEW e, e = entries[f]
        PROVE  Honest(f, e)'
    BY <2>3, HonestStays DEF SilenceInv, HonestRecords, TypeOK, Recorded
  <2>4. ASSUME NEW f \in DOMAIN entries', NEW e, e = entries'[f]
        PROVE  Honest(f, e)'
    <3>1. /\ Recorded(Upsert(p)) /\ DOMAIN Upsert(p) = DOMAIN merged[p] \cup {file[p]}
          /\ Upsert(p)[file[p]] = Entry(p)
          /\ \A g \in DOMAIN merged[p]: g # file[p] => Upsert(p)[g] = merged[p][g]
      BY <1>2, UpsertIsRecorded
    <3>2. \A g \in DOMAIN merged[p]: g \in DOMAIN entries /\ merged[p][g] = entries[g]
      BY <1>2, ReadingIsOfTheCache
    <3>3. f \in DOMAIN Upsert(p) /\ e = Upsert(p)[f]
      BY <1>4, <2>4, <3>1, EvictedIsRecorded
    <3>4. QED
      BY <2>2, <2>3, <3>1, <3>2, <3>3
  <2>5. QED
    BY <2>4 DEF HonestRecords, Honest, ToldOf, Reporting
<1>5. QED
  BY <1>3, <1>4 DEF PersistReplace

LEMMA SilenceStep ==
  ASSUME QuietRules, TypeOK, LockInv, SilenceInv, Next
  PROVE  SilenceInv'
<1>1. ASSUME NEW p \in Callbacks, Alone(p), UNCHANGED <<early, late>>, LoadOf(p)', VerdictOf(p)',
             HonestRecords'
      PROVE  SilenceInv'
  BY <1>1, OthersAreFine DEF SilenceInv
<1>2. ASSUME NEW p \in Callbacks, NEW f \in Files, NEW c \in SUBSET Terms, Write(p, f, c)
      PROVE  SilenceInv'
  <2>1. /\ pc[p] = "idle" /\ pc'[p] = "read" /\ previous' = previous
        /\ UNCHANGED <<early, late, entries>>
    BY <1>2 DEF Write, Goto, TypeOK
  <2>2. LoadOf(p)' /\ VerdictOf(p)'
    BY <2>1 DEF LockInv, LockOf, LoadOf, VerdictOf, Loading
  <2>3. QED
    BY <1>1, <1>2, <2>1, <2>2, StepIsAlone, RecordsStayHonest
<1>3. ASSUME NEW t \in Terms, Edit(t)
      PROVE  SilenceInv'
  <2>1. /\ \A p \in Callbacks: pc[p] \notin Loading
        /\ UNCHANGED <<entries, pc, file, text, print, previous, issues, said>>
    BY <1>3 DEF Edit, local
  <2>2. \A f, e: Honest(f, e) => Honest(f, e)'
    BY <2>1 DEF Honest, ToldOf, Reporting, Verdict
  <2>3. HonestRecords'
    BY RecordsStayHonest, <2>1
  <2>4. \A p \in Callbacks: LoadOf(p)'
    BY <2>1 DEF LoadOf, Loading
  <2>5. \A p \in Callbacks: VerdictOf(p)'
    BY <2>1 DEF SilenceInv, VerdictOf, Due, Known, Honest, ToldOf, Reporting
  <2>6. QED
    BY <2>3, <2>4, <2>5 DEF SilenceInv
<1>4. ASSUME NEW p \in Callbacks, Decline(p) \/ Exit(p) \/ Kill(p)
      PROVE  SilenceInv'
  <2>1. pc'[p] = "idle" /\ previous'[p] = NoEntry /\ UNCHANGED <<early, late, entries>>
    BY <1>4 DEF Decline, Exit, Kill, Gone, Goto, disk, TypeOK
  <2>2. LoadOf(p)' /\ VerdictOf(p)'
    BY <2>1 DEF LoadOf, VerdictOf, Loading
  <2>3. QED
    BY <1>1, <1>4, <2>1, <2>2, StepIsAlone, RecordsStayHonest
<1>5. ASSUME NEW p \in Callbacks, ReadFile(p)
      PROVE  SilenceInv'
  <2>1. pc'[p] = "load" /\ UNCHANGED <<early, late, entries, file, previous>>
    BY <1>5 DEF ReadFile, Goto, disk, TypeOK
  <2>2. LoadOf(p)' /\ VerdictOf(p)'
    BY <2>1, PreviousStaysHonest DEF LoadOf, VerdictOf, Loading
  <2>3. QED
    BY <1>1, <1>5, <2>1, <2>2, StepIsAlone, RecordsStayHonest
<1>6. ASSUME NEW p \in Callbacks, LoadEarly(p)
      PROVE  SilenceInv'
  <2>1. pc'[p] = "fingerprint" /\ loaded'[p] = early
        /\ UNCHANGED <<early, late, entries, file, previous>>
    BY <1>6 DEF LoadEarly, Goto, disk, TypeOK
  <2>2. LoadOf(p)' /\ VerdictOf(p)'
    BY <2>1, PreviousStaysHonest DEF LoadOf, VerdictOf, Loading
  <2>3. QED
    BY <1>1, <1>6, <2>1, <2>2, StepIsAlone, RecordsStayHonest
<1>7. ASSUME NEW p \in Callbacks, Fingerprint(p)
      PROVE  SilenceInv'
  <2>1. pc[p] = "fingerprint" /\ pc'[p] = "lookup" /\ print'[p] = <<early, late>>
        /\ UNCHANGED <<early, late, entries, file, previous, loaded>>
    BY <1>7 DEF Fingerprint, Goto, disk, TypeOK
  <2>2. LoadOf(p)' /\ VerdictOf(p)'
    BY <2>1, PreviousStaysHonest DEF SilenceInv, LoadOf, VerdictOf, Loading
  <2>3. QED
    BY <1>1, <1>7, <2>1, <2>2, StepIsAlone, RecordsStayHonest
<1>8. ASSUME NEW p \in Callbacks, Lookup(p)
      PROVE  SilenceInv'
  <2>0. PICK read \in Readings:
            LET e == IF file[p] \in DOMAIN read THEN read[file[p]] ELSE NoEntry
            IN  /\ previous' = [previous EXCEPT ![p] = e]
                /\ pc' = [pc EXCEPT ![p] = IF Known(p, e) THEN "known" ELSE "scan"]
    BY <1>8 DEF Lookup, Goto
  <2> DEFINE e == IF file[p] \in DOMAIN read THEN read[file[p]] ELSE NoEntry
  <2>1. /\ pc[p] = "lookup" /\ previous'[p] = e
        /\ pc'[p] = IF Known(p, e) THEN "known" ELSE "scan"
        /\ UNCHANGED <<early, late, entries, file, loaded, print, text>>
    BY <1>8, <2>0 DEF Lookup, disk, TypeOK
  <2>2. e # NoEntry => file[p] \in DOMAIN entries /\ e = entries[file[p]]
    BY ReadingIsOfTheCache
  <2> HIDE DEF e
  <2>3. previous'[p] # NoEntry => Honest(file[p], previous[p])'
    <3>1. ASSUME NEW f, NEW r, f = file[p], r = e, r # NoEntry
          PROVE  Honest(f, r)'
      BY <2>2, <3>1, HonestStays DEF SilenceInv, HonestRecords, TypeOK, Recorded
    <3>2. QED
      BY <2>1, <3>1 DEF Honest, ToldOf, Reporting
  <2>4. LoadOf(p)'
    BY <2>1 DEF SilenceInv, LoadOf, Loading
  <2>5. VerdictOf(p)'
    BY <2>1, <2>3 DEF VerdictOf, Known
  <2>6. QED
    BY <1>1, <1>8, <2>1, <2>4, <2>5, StepIsAlone, RecordsStayHonest
<1>9. ASSUME NEW p \in Callbacks, Scan(p)
      PROVE  SilenceInv'
  <2>1. /\ pc[p] = "scan" /\ pc'[p] = "persist"
        /\ issues'[p] = Verdict(text[p], loaded[p], late)
        /\ UNCHANGED <<early, late, entries, file, loaded, print, text, previous>>
    BY <1>9 DEF Scan, Goto, disk, TypeOK
  <2>2. print[p] = <<early, late>> /\ loaded[p] = early
    BY <2>1 DEF SilenceInv, LoadOf, Loading
  <2>3. issues'[p] = Due(p)'
    BY <2>1, <2>2 DEF Due
  <2>4. LoadOf(p)' /\ VerdictOf(p)'
    BY <2>1, <2>3, PreviousStaysHonest DEF LoadOf, VerdictOf, Loading
  <2>5. QED
    BY <1>1, <1>9, <2>1, <2>4, StepIsAlone, RecordsStayHonest
<1>10. ASSUME NEW p \in Callbacks, PersistSkipped(p)
       PROVE  SilenceInv'
  <2>1. /\ pc[p] = "persist" /\ pc' = [pc EXCEPT ![p] = Report(p)]
        /\ UNCHANGED <<local, early, late, entries>>
    BY <1>10 DEF PersistSkipped, Goto, disk
  <2>2. QED
    BY <1>1, <1>10, <2>1, StepIsAlone, RecordsStayHonest, ReportIsEarned
<1>11. ASSUME NEW p \in Callbacks, PersistLock(p)
       PROVE  SilenceInv'
  <2>1. /\ pc[p] = "persist" /\ pc'[p] = "replace"
        /\ UNCHANGED <<early, late, entries, file, print, text, previous, issues>>
    BY <1>11 DEF PersistLock, Goto, disk, TypeOK
  <2>2. LoadOf(p)' /\ VerdictOf(p)'
    BY <2>1, PreviousStaysHonest DEF SilenceInv, LoadOf, VerdictOf, Loading, Due
  <2>3. QED
    BY <1>1, <1>11, <2>1, <2>2, StepIsAlone, RecordsStayHonest
<1>12. ASSUME NEW p \in Callbacks, PersistReplace(p)
       PROVE  SilenceInv'
  <2>1. /\ pc[p] = "replace" /\ pc' = [pc EXCEPT ![p] = Report(p)]
        /\ UNCHANGED <<local, early, late>>
    BY <1>12 DEF PersistReplace, Goto, disk
  <2>2. QED
    BY <1>1, <1>12, <2>1, StepIsAlone, ReportIsEarned, ReplaceIsHonest
<1>13. QED
  BY <1>2, <1>3, <1>4, <1>5, <1>6, <1>7, <1>8, <1>9, <1>10, <1>11, <1>12 DEF Next

----------------------------------------------------------------------------
(* The theorems *)

\* Types; the lock; and, where inputs are quiet while they are loaded, that every record and
\* every verdict is of the inputs it names and was reported.
THEOREM Inductive == Spec => []IInv
<1>1. IInv /\ UNCHANGED vars => IInv'
  <2>1. SUFFICES ASSUME IInv, UNCHANGED vars PROVE IInv'
    OBVIOUS
  <2>2. TypeOK' /\ LockInv'
    BY <2>1 DEF vars, disk, local, IInv, TypeOK, Recorded, LockInv, LockOf, Readings
  <2>3. SilenceInv => SilenceInv'
    BY <2>1 DEF vars, disk, local, SilenceInv, HonestRecords, LoadOf, VerdictOf, Honest, ToldOf,
                Reporting, Due, Known
  <2>4. QED
    BY <2>1, <2>2, <2>3 DEF IInv
<1>2. IInv /\ Next => IInv'
  BY TypeStep, LockStep, SilenceStep DEF IInv
<1>3. QED
  BY <1>1, <1>2, InitInv, PTL DEF Spec

\* Each variable keeps its type.
THEOREM TypeCorrect == Spec => []TypeOK
<1>1. IInv => TypeOK
  BY DEF IInv
<1>2. QED
  BY Inductive, <1>1, PTL

\* Where no input is edited while a callback loads them, a callback that the cache silences,
\* or that finds what the last one found, has nothing to say that was not said.
THEOREM SilenceAlwaysEarned == QuietRules /\ Spec => []SilenceIsEarned
<1>1. ASSUME QuietRules
      PROVE  Spec => []SilenceIsEarned
  <2>1. IInv => SilenceIsEarned
    <3>1. SUFFICES ASSUME TypeOK, SilenceInv, NEW p \in Callbacks, pc[p] \in {"known", "silent"}
                   PROVE  Told(p)
      BY <1>1 DEF IInv, SilenceIsEarned, HitsWereTold
    <3>2. CASE pc[p] = "silent"
      BY <3>1, <3>2 DEF SilenceInv, VerdictOf, ToldOf, Told
    <3>3. CASE pc[p] = "known"
      <4>1. Known(p, previous[p])
        BY <3>1, <3>3 DEF SilenceInv, VerdictOf
      <4>2. print[p] \in (SUBSET Terms) \X (SUBSET Terms)
        BY <3>1 DEF TypeOK
      <4>3. previous[p] # NoEntry
        BY <4>1, <4>2 DEF Known, NoEntry
      <4>4. Honest(file[p], previous[p])
        BY <3>1, <4>3 DEF SilenceInv, VerdictOf
      <4>5. previous[p].issues = Due(p)
        BY <4>1, <4>4 DEF Known, Honest, Due
      <4>6. QED
        BY <4>4, <4>5 DEF Honest, ToldOf, Told
    <3>4. QED
      BY <3>1, <3>2, <3>3
  <2>2. QED
    BY Inductive, <2>1, PTL
<1>2. QED
  BY <1>1

\* Under the lock a callback changes no record but its own, and drops only the oldest of a
\* cache that is full.
THEOREM RecordsAlwaysKept == Spec => RecordsAreKept
<1> DEFINE KeptOrOld ==
      \A f \in DOMAIN entries :
        \/ unread /\ pc'[lock] # pc[lock]
        \/ f \in DOMAIN entries' /\ entries'[f] = entries[f]
        \/ \E p \in Callbacks : file[p] = f /\ pc[p] = "replace" /\ pc'[p] # "replace"
        \/ /\ f \notin DOMAIN entries' /\ Cardinality(DOMAIN entries') = Cap
           /\ \A g \in DOMAIN entries' : entries[f].at <= entries'[g].at
<1>1. IInv /\ [Next]_vars => KeptOrOld
  <2>1. SUFFICES ASSUME TypeOK, LockInv, [Next]_vars, NEW f \in DOMAIN entries,
                        ~(f \in DOMAIN entries' /\ entries'[f] = entries[f]),
                        ~(unread /\ pc'[lock] # pc[lock])
                 PROVE  \/ \E p \in Callbacks :
                             file[p] = f /\ pc[p] = "replace" /\ pc'[p] # "replace"
                        \/ /\ f \notin DOMAIN entries' /\ Cardinality(DOMAIN entries') = Cap
                           /\ \A g \in DOMAIN entries' : entries[f].at <= entries'[g].at
    BY DEF IInv
  <2>2. PICK p \in Callbacks: PersistReplace(p)
    BY <2>1 DEF vars, Next, Write, Edit, Decline, ReadFile, LoadEarly, Fingerprint, Lookup, Scan,
                PersistSkipped, PersistLock, Exit, Kill
  <2>3. /\ pc[p] = "replace" /\ pc'[p] # "replace" /\ file[p] \in Files /\ merged[p] = entries
    <3>1. pc[p] = "replace" /\ pc'[p] # "replace"
      BY <2>1, <2>2 DEF PersistReplace, Goto, Report, TypeOK
    <3>2. file[p] \in Files /\ lock = p /\ (unread \/ merged[p] = entries)
      BY <2>1, <3>1 DEF LockInv, LockOf
    <3>3. QED
      BY <2>1, <3>1, <3>2
  <2>4. CASE f = file[p]
    BY <2>3, <2>4
  <2>5. CASE f # file[p]
    <3> DEFINE m == Upsert(p)
    <3>1. /\ DOMAIN m = DOMAIN entries \cup {file[p]} /\ m[f] = entries[f]
      <4>1. f \in DOMAIN merged[p]
        BY <2>1, <2>3
      <4>2. QED
        BY <2>1, <2>3, <2>5, <4>1, UpsertIsRecorded
    <3>2. entries' \in Evicted(m)
      BY <2>1, <2>2 DEF PersistReplace
    <3> HIDE DEF m
    <3>3. PICK kept \in SUBSET DOMAIN m:
            /\ Cardinality(kept) = IF Cardinality(DOMAIN m) > Cap THEN Cap
                                   ELSE Cardinality(DOMAIN m)
            /\ \A h \in DOMAIN m \ kept, g \in kept: m[h].at <= m[g].at
            /\ entries' = [h \in kept |-> m[h]]
      BY <3>2 DEF Evicted
    <3>4. DOMAIN entries' = kept /\ \A g \in kept: entries'[g] = m[g]
      BY <3>3
    <3>5. f \notin kept /\ f \in DOMAIN m
      BY <2>1, <3>1, <3>4
    <3>6. Cardinality(kept) = Cap
      <4>1. IsFiniteSet(DOMAIN m)
        <5>1. IsFiniteSet(DOMAIN entries)
          BY <2>1 DEF LockInv
        <5>2. QED
          BY <3>1, <5>1, FS_AddElement
      <4>2. Cardinality(DOMAIN m) = Cardinality(kept) => DOMAIN m = kept
        BY <4>1, FS_Subset
      <4>3. QED
        BY <3>3, <3>5, <4>2
    <3>7. QED
      BY <3>1, <3>3, <3>4, <3>5, <3>6
  <2>6. QED
    BY <2>4, <2>5
<1>2. QED
  BY <1>1, Inductive, PTL DEF Spec, RecordsAreKept
=============================================================================
