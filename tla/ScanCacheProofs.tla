--------------------------- MODULE ScanCacheProofs ---------------------------
(* Proofs about ScanCache, for every set of runs, files and contents, any number of    *)
(* edits and any time to live: while no scan takes more than a second, a result is of  *)
(* what the file held. With longer ones it is not, as TLC shows.                       *)
EXTENDS ScanCache, TLAPS, FiniteSetTheorems, FunctionTheorems

\* An entry that the fast path may answer from is older than the second it was stored in,
\* and of the content the file has if it has that time.
Trusted(e, f) ==
    MaxScan <= 1 /\ e # None /\ e.safe =>
        /\ e.mtime < now /\ e.mtime <= mtime[f]
        /\ e.mtime = mtime[f] => e.content = content[f]

CacheInv ==
    /\ \A f \in Files: Trusted(disk[f], f)
    /\ \A p \in Procs: mem[p] # None => \A f \in Files: Trusted(mem[p][f], f)

\* A scan began within a second, and what it read is the file's content if the file has
\* the time it was opened with and had it before that second.
Scanning(p) ==
    /\ readAt[p] <= now /\ now <= readAt[p] + MaxScan
    /\ meta[p] <= mtime[target[p]]
    /\ meta[p] = mtime[target[p]] /\ meta[p] < readAt[p] => text[p] = content[target[p]]
    /\ text[p] \in had[p] /\ text[p] \in Contents

VisitInv ==
    \A p \in Procs:
        /\ at[p] # "idle" => mem[p] # None
        /\ at[p] \in {"opened", "scanning"} => target[p] \in Files
        /\ at[p] = "opened" => content[target[p]] \in had[p] /\ meta[p] <= mtime[target[p]]
        /\ at[p] = "scanning" => Scanning(p)

TimeInv == \A f \in Files: mtime[f] <= now

IInv == TypeOK /\ TimeInv /\ CacheInv /\ VisitInv /\ (MaxScan <= 1 => ReportsTheFile)

LEMMA NoEntriesInCache == NoEntries \in Cache
BY DEF NoEntries, Cache

LEMMA WithoutInCache ==
  ASSUME NEW c \in Cache, NEW gone
  PROVE  Without(c, gone) \in Cache /\ \A f \in Files: Without(c, gone)[f] \in {None, c[f]}
BY DEF Without, Cache

LEMMA MergeInCache ==
  ASSUME NEW c \in Cache, NEW d \in Cache
  PROVE  Merge(c, d) \in Cache /\ \A f \in Files: Merge(c, d)[f] \in {c[f], d[f]}
BY DEF Merge, Cache

LEMMA EvictInCache ==
  ASSUME NEW c \in Cache
  PROVE  EvictOldest(c) \in Cache /\ \A f \in Files: EvictOldest(c)[f] \in {None, c[f]}
BY WithoutInCache DEF EvictOldest

\* A read gives a cache, and only what the file holds.
LEMMA ReadingInCache ==
  ASSUME IInv, NEW read \in Readings
  PROVE  /\ read \in Cache /\ \A f \in Files: read[f] \in {None, disk[f]}
         /\ \A f \in Files: Trusted(read[f], f)
<1>1. disk \in Cache /\ \A f \in Files: Trusted(disk[f], f)
  BY DEF IInv, TypeOK, CacheInv
<1>2. \A f: Trusted(None, f)
  BY DEF Trusted
<1>3. NoEntries \in Cache /\ \A f \in Files: NoEntries[f] = None
  BY NoEntriesInCache DEF NoEntries
<1>4. QED
  BY <1>1, <1>2, <1>3 DEF Readings

\* What a run has loaded is what it has, or what it read of the file.
LEMMA LoadedInCache ==
  ASSUME IInv, NEW p \in Procs, NEW read \in Readings
  PROVE  /\ Loaded(p, read) \in Cache /\ Loaded(p, read) # None
         /\ \A f \in Files: Trusted(Loaded(p, read)[f], f)
<1>1. read \in Cache /\ mem[p] \in Cache \cup {None} /\ \A f \in Files: Trusted(read[f], f)
  BY ReadingInCache DEF IInv, TypeOK
<1>2. CASE mem[p] = None
  <2>1. Loaded(p, read) = Without(read, Expired(read))
    BY <1>2 DEF Loaded
  <2>2. Loaded(p, read) \in Cache /\ \A f \in Files: Loaded(p, read)[f] \in {None, read[f]}
    BY <1>1, <2>1, WithoutInCache
  <2>3. \A f: Trusted(None, f)
    BY DEF Trusted
  <2>4. QED
    BY <1>1, <2>2, <2>3, NoneAssumption
<1>3. CASE mem[p] # None
  BY <1>1, <1>3 DEF Loaded, IInv, CacheInv
<1>4. QED
  BY <1>2, <1>3

LEMMA InitInv == Init => IInv
<1> SUFFICES ASSUME Init PROVE IInv
  OBVIOUS
<1>1. TypeOK
  BY NoEntriesInCache DEF Init, TypeOK
<1>2. TimeInv /\ VisitInv /\ ReportsTheFile
  BY DEF Init, TimeInv, VisitInv, ReportsTheFile
<1>3. CacheInv
  BY DEF Init, CacheInv, Trusted, NoEntries
<1>4. QED
  BY <1>1, <1>2, <1>3 DEF IInv

----------------------------------------------------------------------------
(* The steps *)

\* An edit is later than everything the fast path may answer from.
LEMMA EditStep ==
  ASSUME IInv, NEW f \in Files, NEW c \in Contents, Edit(f, c)
  PROVE  IInv'
<1>1. /\ edits' = edits + 1
      /\ content' = [content EXCEPT ![f] = c] /\ mtime' = [mtime EXCEPT ![f] = now]
      /\ had' = [p \in Procs |-> IF target[p] = f THEN had[p] \cup {c} ELSE had[p]]
      /\ UNCHANGED <<now, disk, lock, unread, at, target, meta, text, readAt, mem, dirty>>
  BY DEF Edit
<1>2. TypeOK'
  BY <1>1 DEF IInv, TypeOK
<1>3. TimeInv'
  BY <1>1 DEF IInv, TypeOK, TimeInv
<1>4. \A e, g: g \in Files /\ (e \in Entry \/ e = None) /\ Trusted(e, g)
                 => (MaxScan <= 1 /\ e # None /\ e.safe =>
                       /\ e.mtime < now /\ e.mtime <= mtime'[g]
                       /\ e.mtime = mtime'[g] => e.content = content'[g])
  BY <1>1 DEF IInv, TypeOK, TimeInv, Trusted, Entry
<1>5. CacheInv'
  <2>1. \A g \in Files: (disk[g] \in Entry \/ disk[g] = None) /\ Trusted(disk[g], g)
    BY DEF IInv, TypeOK, Cache, CacheInv
  <2>2. \A p \in Procs: mem[p] # None =>
            \A g \in Files: (mem[p][g] \in Entry \/ mem[p][g] = None) /\ Trusted(mem[p][g], g)
    BY DEF IInv, TypeOK, Cache, CacheInv
  <2>3. QED
    BY <1>1, <1>4, <2>1, <2>2 DEF CacheInv, Trusted
<1>6. ASSUME NEW p \in Procs, at[p] \in {"opened", "scanning"}
      PROVE  /\ meta[p] <= mtime'[target[p]]
             /\ at[p] = "opened" => content'[target[p]] \in had'[p]
             /\ at[p] = "scanning" => Scanning(p)'
  <2>1. target[p] \in Files /\ meta[p] \in Nat /\ readAt[p] \in Nat /\ now \in Nat
        /\ meta[p] <= mtime[target[p]] /\ mtime[target[p]] <= now
        /\ mtime[target[p]] \in Nat
    BY <1>6 DEF IInv, TypeOK, VisitInv, Scanning, TimeInv
  <2>2. meta[p] <= mtime'[target[p]]
    BY <1>1, <2>1 DEF IInv, TypeOK
  <2>3. at[p] = "opened" => content'[target[p]] \in had'[p]
    BY <1>1, <2>1 DEF IInv, TypeOK, VisitInv
  <2>4. ASSUME at[p] = "scanning" PROVE Scanning(p)'
    <3>1. Scanning(p)
      BY <2>4 DEF IInv, VisitInv
    <3>2. meta[p] = mtime'[target[p]] /\ meta[p] < readAt[p] => text[p] = content'[target[p]]
      BY <1>1, <2>1, <3>1 DEF IInv, TypeOK, Scanning
    <3>3. text[p] \in had'[p]
      BY <1>1, <3>1 DEF Scanning
    <3>4. QED
      BY <1>1, <2>2, <3>1, <3>2, <3>3 DEF Scanning
  <2>5. QED
    BY <2>2, <2>3, <2>4
<1>7. VisitInv'
  BY <1>1, <1>6 DEF IInv, VisitInv
<1>8. (MaxScan <= 1 => ReportsTheFile')
  BY <1>1 DEF IInv, TypeOK, ReportsTheFile
<1>9. QED
  BY <1>2, <1>3, <1>5, <1>7, <1>8 DEF IInv

LEMMA TickStep ==
  ASSUME IInv, Tick
  PROVE  IInv'
<1>1. /\ now' = now + 1
      /\ UNCHANGED <<content, mtime, edits, disk, lock, unread, at, mem, dirty, target, meta,
                     text, readAt, had>>
      /\ \A p \in Procs: at[p] = "scanning" => now < readAt[p] + MaxScan
  BY DEF Tick, visit
<1>2. TypeOK'
  BY <1>1 DEF IInv, TypeOK
<1>3. TimeInv'
  BY <1>1 DEF IInv, TypeOK, TimeInv
<1>4. \A e, g: g \in Files /\ (e \in Entry \/ e = None) /\ Trusted(e, g)
                 => (MaxScan <= 1 /\ e # None /\ e.safe => e.mtime < now + 1)
  BY DEF IInv, TypeOK, Trusted, Entry
<1>5. CacheInv'
  <2>1. \A g \in Files: (disk[g] \in Entry \/ disk[g] = None) /\ Trusted(disk[g], g)
    BY DEF IInv, TypeOK, Cache, CacheInv
  <2>2. \A p \in Procs: mem[p] # None =>
            \A g \in Files: (mem[p][g] \in Entry \/ mem[p][g] = None) /\ Trusted(mem[p][g], g)
    BY DEF IInv, TypeOK, Cache, CacheInv
  <2>3. QED
    BY <1>1, <1>4, <2>1, <2>2 DEF CacheInv, Trusted
<1>6. VisitInv'
  <2>1. SUFFICES ASSUME NEW p \in Procs, at[p] = "scanning"
                 PROVE  readAt[p] <= now + 1 /\ now + 1 <= readAt[p] + MaxScan
    BY <1>1 DEF IInv, VisitInv, Scanning
  <2>2. now \in Nat /\ readAt[p] \in Nat /\ MaxScan \in Nat /\ readAt[p] <= now
    BY <2>1, CacheAssumption DEF IInv, TypeOK, VisitInv, Scanning
  <2>3. QED
    BY <1>1, <2>1, <2>2
<1>7. (MaxScan <= 1 => ReportsTheFile')
  BY <1>1 DEF IInv, ReportsTheFile
<1>8. QED
  BY <1>2, <1>3, <1>5, <1>6, <1>7 DEF IInv

LEMMA LookupStep ==
  ASSUME IInv, NEW p \in Procs, NEW f \in Files, Lookup(p, f)
  PROVE  IInv'
<1>1. /\ at[p] = "idle" /\ mem' = [mem EXCEPT ![p] = mem'[p]]
      /\ target' = [target EXCEPT ![p] = f] /\ had' = [had EXCEPT ![p] = {content[f]}]
      /\ UNCHANGED <<disk, lock, unread, readAt, now, content, mtime, edits>>
      /\ \/ /\ FastHit(mem'[p][f], mtime[f]) /\ meta' = meta
            /\ text' = [text EXCEPT ![p] = mem'[p][f].content]
            /\ at' = [at EXCEPT ![p] = "reported"]
         \/ /\ meta' = [meta EXCEPT ![p] = mtime[f]] /\ text' = text
            /\ at' = [at EXCEPT ![p] = "opened"]
  BY DEF Lookup, Goto, world, IInv, TypeOK
<1>2. /\ mem'[p] \in Cache /\ mem'[p] # None /\ \A g \in Files: Trusted(mem'[p][g], g)
      /\ dirty' \in [Procs -> BOOLEAN]
  <2>1. PICK read \in Readings: /\ mem' = [mem EXCEPT ![p] = Loaded(p, read)]
                                /\ dirty' = [dirty EXCEPT ![p] = LoadDirty(p, read)]
    BY DEF Lookup
  <2>2. mem'[p] = Loaded(p, read)
    BY <2>1 DEF IInv, TypeOK
  <2>3. LoadDirty(p, read) \in BOOLEAN
    BY Zenon DEF LoadDirty, IInv, TypeOK
  <2>4. dirty' \in [Procs -> BOOLEAN]
    BY <2>1, <2>3 DEF IInv, TypeOK
  <2>5. QED
    BY <2>2, <2>4, LoadedInCache
<1>3. FastHit(mem'[p][f], mtime[f]) =>
          /\ mem'[p][f] \in Entry
          /\ MaxScan <= 1 => mem'[p][f].content = content[f]
  BY <1>2 DEF FastHit, Trusted, Cache
<1>4. TypeOK'
  <2>1. /\ target' \in [Procs -> Files \cup {None}] /\ meta' \in [Procs -> Nat]
        /\ had' \in [Procs -> SUBSET Contents] /\ mem' \in [Procs -> Cache \cup {None}]
        /\ at' \in [Procs -> {"idle", "opened", "scanning", "reported", "flushing"}]
    BY <1>1, <1>2 DEF IInv, TypeOK
  <2>2. text' \in [Procs -> Contents \cup {None}]
    <3>1. FastHit(mem'[p][f], mtime[f]) => mem'[p][f].content \in Contents
      BY <1>3 DEF Entry
    <3>2. QED
      BY <1>1, <3>1 DEF IInv, TypeOK
  <2>3. QED
    BY <1>1, <1>2, <2>1, <2>2 DEF IInv, TypeOK
<1>5. \A q \in Procs: q # p => mem'[q] = mem[q]
  BY <1>1 DEF IInv, TypeOK
<1>6. TimeInv'
  BY <1>1 DEF IInv, TimeInv
<1>7. CacheInv'
  BY <1>1, <1>2, <1>5 DEF IInv, CacheInv, Trusted
<1>8. VisitInv'
  <2>1. at'[p] \in {"reported", "opened"} /\ mem'[p] # None /\ target'[p] = f
        /\ content[f] \in had'[p]
    BY <1>1, <1>2 DEF IInv, TypeOK
  <2>2. at'[p] = "opened" => meta'[p] = mtime[f]
    BY <1>1 DEF IInv, TypeOK
  <2>3. mtime[f] <= mtime[f]
    BY DEF IInv, TypeOK
  <2>4. \A q \in Procs: q # p =>
            /\ at'[q] = at[q] /\ mem'[q] = mem[q] /\ target'[q] = target[q]
            /\ meta'[q] = meta[q] /\ text'[q] = text[q] /\ had'[q] = had[q]
    BY <1>1 DEF IInv, TypeOK
  <2>5. QED
    BY <1>1, <2>1, <2>2, <2>3, <2>4 DEF IInv, VisitInv, Scanning
<1>9. (MaxScan <= 1 => ReportsTheFile')
  BY <1>1, <1>3 DEF IInv, TypeOK, ReportsTheFile
<1>10. QED
  BY <1>4, <1>6, <1>7, <1>8, <1>9 DEF IInv

LEMMA ReadStep ==
  ASSUME IInv, NEW p \in Procs, Read(p)
  PROVE  IInv'
<1> DEFINE f == target[p]
<1>1. /\ at[p] = "opened" /\ text' = [text EXCEPT ![p] = content[f]]
      /\ UNCHANGED <<disk, lock, unread, target, mem, dirty, had, now, content, mtime, edits>>
      /\ \/ /\ at' = [at EXCEPT ![p] = "reported"] /\ meta' = [meta EXCEPT ![p] = 0]
            /\ readAt' = readAt
         \/ /\ at' = [at EXCEPT ![p] = "scanning"] /\ readAt' = [readAt EXCEPT ![p] = now]
            /\ meta' = meta
  BY DEF Read, Goto, world
<1>2. f \in Files /\ content[f] \in Contents /\ content[f] \in had[p] /\ mem[p] # None
      /\ meta[p] <= mtime[f]
  BY <1>1 DEF IInv, TypeOK, VisitInv
<1>3. TypeOK'
  BY <1>1, <1>2 DEF IInv, TypeOK
<1>4. TimeInv' /\ CacheInv'
  BY <1>1 DEF IInv, TimeInv, CacheInv, Trusted
<1>5. \A q \in Procs: q # p =>
          /\ at'[q] = at[q] /\ meta'[q] = meta[q] /\ text'[q] = text[q]
          /\ readAt'[q] = readAt[q]
  BY <1>1 DEF IInv, TypeOK
<1>6. at'[p] = "reported" \/ (at'[p] = "scanning" /\ Scanning(p)')
  <2>1. now \in Nat /\ MaxScan \in Nat
    BY CacheAssumption DEF IInv, TypeOK
  <2>2. text'[p] = content[f]
    BY <1>1 DEF IInv, TypeOK
  <2>3. CASE at' = [at EXCEPT ![p] = "reported"]
    BY <2>3 DEF IInv, TypeOK
  <2>4. CASE at' = [at EXCEPT ![p] = "scanning"] /\ readAt' = [readAt EXCEPT ![p] = now]
             /\ meta' = meta
    <3>1. at'[p] = "scanning" /\ readAt'[p] = now
      BY <2>4 DEF IInv, TypeOK
    <3>2. QED
      BY <1>1, <1>2, <2>1, <2>2, <2>4, <3>1 DEF Scanning
  <2>5. QED
    BY <1>1, <2>3, <2>4
<1>7. VisitInv'
  BY <1>1, <1>2, <1>5, <1>6 DEF IInv, VisitInv, Scanning
<1>8. (MaxScan <= 1 => ReportsTheFile')
  BY <1>1, <1>2, <1>5 DEF IInv, TypeOK, ReportsTheFile
<1>9. QED
  BY <1>3, <1>4, <1>7, <1>8 DEF IInv

\* A result that is stored as safe was read in a later second than the file was written
\* in, since the scan has not taken two.
LEMMA PutStep ==
  ASSUME IInv, NEW p \in Procs, Put(p)
  PROVE  IInv'
<1> DEFINE f == target[p]
           e == [content |-> text[p], mtime |-> meta[p], ts |-> now,
                 safe |-> Safe(meta[p], now)]
<1>1. /\ at[p] = "scanning" /\ at' = [at EXCEPT ![p] = "reported"]
      /\ meta' = [meta EXCEPT ![p] = 0] /\ readAt' = [readAt EXCEPT ![p] = 0]
      /\ UNCHANGED <<disk, lock, unread, target, text, had, now, content, mtime, edits>>
      /\ \/ mem' = [mem EXCEPT ![p][f] = e] /\ dirty' = [dirty EXCEPT ![p] = TRUE]
         \/ UNCHANGED <<mem, dirty>>
  BY DEF Put, Goto, world
<1>2. /\ f \in Files /\ Scanning(p) /\ mem[p] # None /\ mem[p] \in Cache
      /\ now \in Nat /\ readAt[p] \in Nat /\ meta[p] \in Nat /\ mtime[f] \in Nat
  BY <1>1 DEF IInv, TypeOK, VisitInv
<1>3. e \in Entry /\ e # None => Trusted(e, f)
  <2>1. e.safe <=> meta[p] + 1 < now
    BY DEF Safe
  <2>2. e.mtime = meta[p] /\ e.content = text[p]
    OBVIOUS
  <2>3. MaxScan \in Nat
    BY CacheAssumption
  <2> HIDE DEF e, f
  <2>4. SUFFICES ASSUME e.safe, MaxScan <= 1
                 PROVE  /\ e.mtime < now /\ e.mtime <= mtime[f]
                        /\ e.mtime = mtime[f] => e.content = content[f]
    BY DEF Trusted
  <2>5. meta[p] < readAt[p] /\ meta[p] < now
    BY <1>2, <2>1, <2>3, <2>4 DEF Scanning
  <2>6. QED
    BY <1>2, <2>2, <2>5 DEF Scanning, f
<1>4. e \in Entry
  <2>1. Safe(meta[p], now) \in BOOLEAN
    BY <1>2 DEF Safe
  <2>2. text[p] \in Contents
    BY <1>2 DEF Scanning
  <2>3. QED
    BY <1>2, <2>1, <2>2 DEF Entry
<1>5. mem'[p] \in Cache /\ mem'[p] # None /\ \A g \in Files: Trusted(mem'[p][g], g)
  <2>1. CASE mem' = mem
    BY <1>2, <2>1 DEF IInv, CacheInv
  <2>2. CASE mem' = [mem EXCEPT ![p][f] = e]
    <3> HIDE DEF e
    <3>1. mem'[p] = [mem[p] EXCEPT ![f] = e]
      BY <2>2 DEF IInv, TypeOK
    <3>2. mem'[p] \in Cache
      BY <1>2, <1>4, <3>1 DEF Cache
    <3>3. \A g \in Files: mem'[p][g] = mem[p][g] \/ (g = f /\ mem'[p][g] = e)
      BY <1>2, <3>1 DEF Cache
    <3>4. Trusted(e, f)
      BY <1>3, <1>4 DEF Trusted
    <3>5. \A g \in Files: Trusted(mem[p][g], g)
      BY <1>2 DEF IInv, CacheInv
    <3>6. QED
      BY <3>2, <3>3, <3>4, <3>5, NoneAssumption
  <2>3. QED
    BY <1>1, <2>1, <2>2
<1>6. \A q \in Procs: q # p =>
          /\ at'[q] = at[q] /\ meta'[q] = meta[q] /\ readAt'[q] = readAt[q]
          /\ mem'[q] = mem[q]
  BY <1>1 DEF IInv, TypeOK
<1>7. TypeOK'
  <2>1. mem' \in [Procs -> Cache \cup {None}]
    <3>1. CASE mem' = mem
      BY <3>1 DEF IInv, TypeOK
    <3>2. CASE mem' = [mem EXCEPT ![p][f] = e]
      <4> HIDE DEF e
      <4>1. mem' = [mem EXCEPT ![p] = mem'[p]]
        BY <3>2 DEF IInv, TypeOK
      <4>2. QED
        BY <1>5, <4>1 DEF IInv, TypeOK
    <3>3. QED
      BY <1>1, <3>1, <3>2
  <2>2. at' \in [Procs -> {"idle", "opened", "scanning", "reported", "flushing"}]
        /\ meta' \in [Procs -> Nat] /\ readAt' \in [Procs -> Nat]
        /\ dirty' \in [Procs -> BOOLEAN]
    BY <1>1 DEF IInv, TypeOK
  <2>3. QED
    BY <1>1, <2>1, <2>2 DEF IInv, TypeOK
<1>8. TimeInv'
  BY <1>1 DEF IInv, TimeInv
<1>9. CacheInv'
  BY <1>1, <1>5, <1>6 DEF IInv, CacheInv, Trusted
<1>10. at'[p] = "reported"
  BY <1>1 DEF IInv, TypeOK
<1>11. VisitInv'
  BY <1>1, <1>5, <1>6, <1>10 DEF IInv, VisitInv, Scanning
<1>12. (MaxScan <= 1 => ReportsTheFile')
  BY <1>1, <1>2, <1>6 DEF IInv, ReportsTheFile, Scanning
<1>13. QED
  BY <1>7, <1>8, <1>9, <1>11, <1>12 DEF IInv

LEMMA EndStep ==
  ASSUME IInv, NEW p \in Procs, NextFile(p) \/ Exit(p)
  PROVE  IInv'
<1>1. /\ at' = [at EXCEPT ![p] = "idle"]
      /\ target' = [target EXCEPT ![p] = None] /\ meta' = [meta EXCEPT ![p] = 0]
      /\ text' = [text EXCEPT ![p] = None] /\ readAt' = [readAt EXCEPT ![p] = 0]
      /\ had' = [had EXCEPT ![p] = {}]
      /\ mem' \in {mem, [mem EXCEPT ![p] = None]}
      /\ dirty' \in {dirty, [dirty EXCEPT ![p] = FALSE]}
      /\ lock' \in {lock, None} /\ unread' \in BOOLEAN
      /\ UNCHANGED <<disk, now, content, mtime, edits>>
  BY DEF NextFile, Exit, Goto, Forget, world, IInv, TypeOK
<1>2. TypeOK'
  BY <1>1 DEF IInv, TypeOK
<1>3. TimeInv'
  BY <1>1 DEF IInv, TimeInv
<1>4. CacheInv'
  BY <1>1 DEF IInv, TypeOK, CacheInv, Trusted
<1>5. at'[p] = "idle"
      /\ \A q \in Procs: q # p =>
            /\ at'[q] = at[q] /\ mem'[q] = mem[q] /\ target'[q] = target[q]
            /\ meta'[q] = meta[q] /\ text'[q] = text[q] /\ had'[q] = had[q]
            /\ readAt'[q] = readAt[q]
  BY <1>1 DEF IInv, TypeOK
<1>6. VisitInv' /\ (MaxScan <= 1 => ReportsTheFile')
  BY <1>1, <1>5 DEF IInv, VisitInv, Scanning, ReportsTheFile
<1>7. QED
  BY <1>2, <1>3, <1>4, <1>6 DEF IInv

LEMMA FlushStep ==
  ASSUME IInv, NEW p \in Procs, FlushMerge(p) \/ FlushWrite(p)
  PROVE  IInv'
<1>1. CASE FlushMerge(p)
  <2>0. PICK read \in Readings:
            LET merged == Merge(Loaded(p, read), Without(read, Expired(read)))
            IN  /\ mem' = [mem EXCEPT ![p] = EvictOldest(Without(merged, Expired(merged)))]
                /\ unread' = (read # disk)
    BY <1>1 DEF FlushMerge
  <2> DEFINE merged == Merge(Loaded(p, read), Without(read, Expired(read)))
             kept == EvictOldest(Without(merged, Expired(merged)))
  <2>1. /\ at[p] = "idle" /\ lock' = p /\ mem' = [mem EXCEPT ![p] = kept]
        /\ at' = [at EXCEPT ![p] = "flushing"] /\ unread' \in BOOLEAN
        /\ UNCHANGED <<disk, dirty, target, meta, text, readAt, had, now, content, mtime,
                       edits>>
    BY <1>1, <2>0 DEF FlushMerge, Goto, visit, world
  <2>2. kept \in Cache /\ \A f \in Files: kept[f] \in {None, Loaded(p, read)[f], read[f]}
    <3>1. Loaded(p, read) \in Cache /\ read \in Cache
      BY LoadedInCache, ReadingInCache
    <3>2. Without(read, Expired(read)) \in Cache
          /\ \A f \in Files: Without(read, Expired(read))[f] \in {None, read[f]}
      BY <3>1, WithoutInCache
    <3>3. merged \in Cache
          /\ \A f \in Files: merged[f] \in {None, Loaded(p, read)[f], read[f]}
      BY <3>1, <3>2, MergeInCache
    <3> HIDE DEF merged
    <3>4. Without(merged, Expired(merged)) \in Cache
          /\ \A f \in Files: Without(merged, Expired(merged))[f] \in {None, merged[f]}
      BY <3>3, WithoutInCache
    <3>5. QED
      BY <3>3, <3>4, EvictInCache
  <2>3. kept # None /\ \A f \in Files: Trusted(kept[f], f)
    <3>1. \A f \in Files: Trusted(Loaded(p, read)[f], f) /\ Trusted(read[f], f)
      BY LoadedInCache, ReadingInCache
    <3>2. \A f: Trusted(None, f)
      BY DEF Trusted
    <3> HIDE DEF kept
    <3>3. QED
      BY <2>2, <3>1, <3>2, NoneAssumption
  <2> HIDE DEF kept
  <2>4. TypeOK'
    BY <2>1, <2>2 DEF IInv, TypeOK
  <2>5. TimeInv'
    BY <2>1 DEF IInv, TimeInv
  <2>6. CacheInv'
    BY <2>1, <2>3 DEF IInv, TypeOK, CacheInv, Trusted
  <2>7. at'[p] = "flushing" /\ mem'[p] # None
        /\ \A q \in Procs: q # p => at'[q] = at[q] /\ mem'[q] = mem[q]
    BY <2>1, <2>3 DEF IInv, TypeOK
  <2>8. VisitInv' /\ (MaxScan <= 1 => ReportsTheFile')
    BY <2>1, <2>7 DEF IInv, VisitInv, Scanning, ReportsTheFile
  <2>9. QED
    BY <2>4, <2>5, <2>6, <2>8 DEF IInv
<1>2. CASE FlushWrite(p)
  <2>1. /\ at[p] = "flushing" /\ lock' = None /\ at' = [at EXCEPT ![p] = "idle"]
        /\ disk' \in {disk, mem[p]} /\ dirty' \in {dirty, [dirty EXCEPT ![p] = FALSE]}
        /\ unread' = FALSE
        /\ UNCHANGED <<mem, target, meta, text, readAt, had, now, content, mtime, edits>>
    BY <1>2 DEF FlushWrite, Goto, visit, world
  <2>2. mem[p] # None /\ mem[p] \in Cache /\ \A f \in Files: Trusted(mem[p][f], f)
    BY <2>1 DEF IInv, TypeOK, VisitInv, CacheInv
  <2>3. TypeOK'
    BY <2>1, <2>2 DEF IInv, TypeOK
  <2>4. TimeInv'
    BY <2>1 DEF IInv, TimeInv
  <2>5. CacheInv'
    BY <2>1, <2>2 DEF IInv, CacheInv, Trusted
  <2>6. at'[p] = "idle" /\ \A q \in Procs: q # p => at'[q] = at[q]
    BY <2>1 DEF IInv, TypeOK
  <2>7. VisitInv' /\ (MaxScan <= 1 => ReportsTheFile')
    BY <2>1, <2>6 DEF IInv, VisitInv, Scanning, ReportsTheFile
  <2>8. QED
    BY <2>3, <2>4, <2>5, <2>7 DEF IInv
<1>3. QED
  BY <1>1, <1>2

LEMMA StepInv == IInv /\ Next => IInv'
BY EditStep, TickStep, LookupStep, ReadStep, PutStep, EndStep, FlushStep DEF Next

\* What the fast path may answer from is of what the file holds if the file has that
\* time, in every run's memory and in the file of the cache.
THEOREM Inductive == Spec => []IInv
<1>1. IInv /\ UNCHANGED vars => IInv'
  BY DEF vars, IInv, TypeOK, TimeInv, CacheInv, Trusted, VisitInv, Scanning, ReportsTheFile
<1>2. QED
  BY <1>1, InitInv, StepInv, PTL DEF Spec

\* Each variable keeps its type.
THEOREM TypeCorrect == Spec => []TypeOK
<1>1. IInv => TypeOK
  BY DEF IInv
<1>2. QED
  BY Inductive, <1>1, PTL

\* fast_path_safe is enough for scans of at most a second: whatever was cached, by whom
\* and when, the result reported for a file is of something it held since it was opened.
THEOREM ReportsAreOfTheFile == MaxScan <= 1 /\ Spec => []ReportsTheFile
<1>1. ASSUME MaxScan <= 1
      PROVE  Spec => []ReportsTheFile
  <2>1. IInv => ReportsTheFile
    BY <1>1 DEF IInv
  <2>2. QED
    BY Inductive, <2>1, PTL
<1>2. QED
  BY <1>1

----------------------------------------------------------------------------
(* The cap *)

Above(c, f) == {g \in Keys(c) : Older(c, f, g)}
Rank(c, f) == Cardinality(Above(c, f))

LEMMA KeyEntries ==
  ASSUME NEW c \in Cache, NEW f \in Keys(c)
  PROVE  f \in Nat /\ c[f] \in Entry /\ c[f].ts \in Nat
BY CacheAssumption DEF Keys, Cache, Entry

LEMMA OlderIsTotal ==
  ASSUME NEW c \in Cache, NEW f \in Keys(c), NEW g \in Keys(c), NEW h \in Keys(c)
  PROVE  /\ ~Older(c, f, f)
         /\ Older(c, f, g) /\ Older(c, g, h) => Older(c, f, h)
         /\ f = g \/ Older(c, f, g) \/ Older(c, g, f)
<1>1. {f, g, h} \subseteq Nat /\ {c[f].ts, c[g].ts, c[h].ts} \subseteq Nat
  BY KeyEntries
<1>2. QED
  BY <1>1 DEF Older

LEMMA RankIsANumber ==
  ASSUME NEW c \in Cache, IsFiniteSet(Keys(c)), NEW f \in Keys(c)
  PROVE  /\ IsFiniteSet(Above(c, f)) /\ Rank(c, f) \in Nat
         /\ Cardinality(Keys(c)) \in Nat /\ Rank(c, f) < Cardinality(Keys(c))
<1>1. Above(c, f) \in SUBSET Keys(c) /\ f \notin Above(c, f)
  BY OlderIsTotal DEF Above
<1>2. /\ IsFiniteSet(Above(c, f)) /\ Cardinality(Above(c, f)) <= Cardinality(Keys(c))
      /\ Cardinality(Keys(c)) = Cardinality(Above(c, f)) => Keys(c) = Above(c, f)
  BY <1>1, FS_Subset
<1>3. Cardinality(Above(c, f)) \in Nat /\ Cardinality(Keys(c)) \in Nat
  BY <1>2, FS_CardinalityType
<1>4. QED
  BY <1>1, <1>2, <1>3 DEF Rank

LEMMA OlderRanksHigher ==
  ASSUME NEW c \in Cache, IsFiniteSet(Keys(c)), NEW f \in Keys(c), NEW g \in Keys(c),
         Older(c, f, g)
  PROVE  Rank(c, g) < Rank(c, f)
<1>1. Above(c, g) \in SUBSET Above(c, f)
  BY OlderIsTotal DEF Above
<1>2. g \in Above(c, f) /\ g \notin Above(c, g)
  BY OlderIsTotal DEF Above
<1>3. IsFiniteSet(Above(c, f)) /\ Rank(c, f) \in Nat /\ Rank(c, g) \in Nat
  BY RankIsANumber
<1>4. /\ Cardinality(Above(c, g)) <= Cardinality(Above(c, f))
      /\ Cardinality(Above(c, f)) = Cardinality(Above(c, g)) => Above(c, f) = Above(c, g)
  BY <1>1, <1>3, FS_Subset
<1>5. QED
  BY <1>2, <1>3, <1>4 DEF Rank

\* The ranks of the keys are the numbers below how many there are.
LEMMA RanksAreAllTaken ==
  ASSUME NEW c \in Cache, IsFiniteSet(Keys(c))
  PROVE  [f \in Keys(c) |-> Rank(c, f)]
             \in Bijection(Keys(c), 0..(Cardinality(Keys(c)) - 1))
<1> DEFINE n == Cardinality(Keys(c))
           R == [f \in Keys(c) |-> Rank(c, f)]
           T == 0..(n - 1)
<1>1. n \in Nat
  BY FS_CardinalityType
<1>2. R \in [Keys(c) -> T]
  BY <1>1, RankIsANumber
<1>3. \A f, g \in Keys(c): R[f] = R[g] => f = g
  <2>1. SUFFICES ASSUME NEW f \in Keys(c), NEW g \in Keys(c), Rank(c, f) = Rank(c, g)
                 PROVE  f = g
    OBVIOUS
  <2>2. Rank(c, f) \in Nat /\ Rank(c, g) \in Nat
    BY RankIsANumber
  <2>3. ~Older(c, f, g) /\ ~Older(c, g, f)
    BY <2>1, <2>2, OlderRanksHigher
  <2>4. QED
    BY <2>3, OlderIsTotal
<1>4. IsFiniteSet(T) /\ Cardinality(T) = n
  BY <1>1, FS_Interval
<1> HIDE DEF R, T
<1>5. R \in Injection(Keys(c), T)
  BY <1>2, <1>3, Fun_IsInj
<1>6. R \in Surjection(Keys(c), T)
  BY <1>4, <1>5, FS_Injection
<1>7. QED
  BY <1>5, <1>6 DEF R, T, Bijection

\* What evict_oldest drops, it drops for as many as there may be, none of them older.
LEMMA EvictKeepsTheYoungest ==
  ASSUME NEW c \in Cache, IsFiniteSet(Keys(c)), NEW f \in Keys(c), EvictOldest(c)[f] = None
  PROVE  /\ Cardinality(Keys(EvictOldest(c))) = MaxEntries
         /\ \A g \in Keys(EvictOldest(c)): EvictOldest(c)[g].ts >= c[f].ts
<1> DEFINE K == Keys(EvictOldest(c))
           R == [g \in Keys(c) |-> Rank(c, g)]
           T == 0..(Cardinality(Keys(c)) - 1)
           U == 0..(MaxEntries - 1)
<1>1. MaxEntries \in Nat
  BY CacheAssumption
<1>2. K = {g \in Keys(c) : ~(Rank(c, g) >= MaxEntries)}
  BY DEF Keys, EvictOldest, Without, Rank, Above
<1>3. \A g \in K: EvictOldest(c)[g] = c[g]
  BY EvictInCache DEF Keys
<1>4. /\ Cardinality(Keys(c)) \in Nat /\ Rank(c, f) >= MaxEntries
      /\ Rank(c, f) < Cardinality(Keys(c)) /\ Rank(c, f) \in Nat
  <2>1. c[f] # None /\ f \in Files
    BY DEF Keys
  <2>2. Rank(c, f) >= MaxEntries
    BY <2>1 DEF Keys, EvictOldest, Without, Rank, Above
  <2>3. QED
    BY <2>2, RankIsANumber
<1>5. Cardinality(K) = MaxEntries
  <2> DEFINE S == [g \in K |-> Rank(c, g)]
  <2>1. /\ \A a, b \in Keys(c): R[a] = R[b] => a = b
        /\ \A t \in T: \E a \in Keys(c): R[a] = t
    <3>1. R \in Bijection(Keys(c), T)
      BY RanksAreAllTaken
    <3> HIDE DEF R, T
    <3>2. QED
      BY <3>1, Fun_BijectionProperties
  <2>2. S \in [K -> U]
    BY <1>1, <1>2, RankIsANumber
  <2>3. \A a, b \in K: S[a] = S[b] => a = b
    BY <1>2, <2>1
  <2>4. \A t \in U: \E a \in K: S[a] = t
    <3>1. TAKE t \in U
    <3>2. t \in T /\ t \in Nat /\ t < MaxEntries
      BY <1>1, <1>4
    <3>3. PICK a \in Keys(c): R[a] = t
      BY <2>1, <3>2
    <3>4. a \in K /\ S[a] = t
      BY <1>1, <1>2, <3>2, <3>3
    <3>5. QED
      BY <3>4
  <2> HIDE DEF S, U, K
  <2>5. S \in Bijection(K, U)
    BY <2>2, <2>3, <2>4, Fun_IsBij
  <2>6. K \in SUBSET Keys(c)
    BY <1>2
  <2>7. IsFiniteSet(K)
    BY <2>6, FS_Subset
  <2>8. Cardinality(U) = Cardinality(K)
    BY <2>5, <2>7, FS_Bijection DEF ExistsBijection
  <2>9. Cardinality(U) = MaxEntries
    BY <1>1, FS_Interval DEF U
  <2>10. QED
    BY <2>8, <2>9
<1>6. ASSUME NEW g \in K
      PROVE  c[g].ts >= c[f].ts
  <2>1. g \in Keys(c) /\ ~(Rank(c, g) >= MaxEntries) /\ Rank(c, g) \in Nat
    BY <1>2, RankIsANumber
  <2>2. ~Older(c, g, f)
    BY <1>1, <1>4, <2>1, OlderRanksHigher
  <2>3. c[g].ts \in Nat /\ c[f].ts \in Nat
    BY <2>1, KeyEntries
  <2>4. QED
    BY <2>2, <2>3 DEF Older
<1>7. QED
  BY <1>3, <1>5, <1>6

----------------------------------------------------------------------------
(* The write of the cache file *)

\* What m in the place of the cache file would lose: entries that have expired, ones it
\* has as new, and ones that as many younger as there may be have pushed out.
Keeps(m) ==
    \A f \in Files: disk[f] # None =>
        \/ now > disk[f].ts + Ttl
        \/ m[f] # None /\ m[f].ts >= disk[f].ts
        \/ /\ m[f] = None
           /\ Cardinality(Keys(m)) = MaxEntries
           /\ \A g \in Keys(m): m[g].ts >= disk[f].ts

\* Between the merge and the write the run that flushes has the lock, so that the file it
\* has merged is the file it replaces, unless it could not read it.
SaveInv ==
    /\ IsFiniteSet(Keys(disk))
    /\ \A p \in Procs: mem[p] # None => IsFiniteSet(Keys(mem[p]))
    /\ \A p \in Procs: at[p] = "flushing" =>
           lock = p /\ mem[p] # None /\ (unread \/ Keeps(mem[p]))

LEMMA KeysOfWithout ==
  ASSUME NEW c \in Cache, NEW gone
  PROVE  /\ Keys(Without(c, gone)) = Keys(c) \ gone
         /\ IsFiniteSet(Keys(c)) => IsFiniteSet(Keys(Without(c, gone)))
<1>1. Keys(Without(c, gone)) = Keys(c) \ gone
  BY DEF Keys, Without
<1>2. QED
  BY <1>1, FS_Subset

LEMMA KeysOfMerge ==
  ASSUME NEW c \in Cache, NEW d \in Cache, IsFiniteSet(Keys(c)), IsFiniteSet(Keys(d))
  PROVE  IsFiniteSet(Keys(Merge(c, d)))
<1>1. IsFiniteSet(Keys(c) \cup Keys(d))
  BY FS_Union
<1>2. Keys(Merge(c, d)) \in SUBSET (Keys(c) \cup Keys(d))
  BY DEF Keys, Merge
<1>3. QED
  BY <1>1, <1>2, FS_Subset

LEMMA ReadingIsFinite ==
  ASSUME SaveInv, NEW read \in Readings
  PROVE  IsFiniteSet(Keys(read))
<1>1. Keys(NoEntries) = {}
  BY DEF NoEntries, Keys
<1>2. QED
  BY <1>1, FS_EmptySet DEF Readings, SaveInv

LEMMA LoadedIsFinite ==
  ASSUME IInv, SaveInv, NEW p \in Procs, NEW read \in Readings
  PROVE  IsFiniteSet(Keys(Loaded(p, read)))
BY ReadingInCache, ReadingIsFinite, KeysOfWithout DEF Loaded, IInv, TypeOK, SaveInv

\* What a flush merges keeps the newer of each two, and evict_oldest drops the oldest.
LEMMA MergeKeeps ==
  ASSUME IInv, SaveInv, NEW p \in Procs, NEW read \in Readings
  PROVE  LET merged == Merge(Loaded(p, read), Without(read, Expired(read)))
             kept == EvictOldest(Without(merged, Expired(merged)))
         IN  kept \in Cache /\ IsFiniteSet(Keys(kept)) /\ (read = disk => Keeps(kept))
<1> DEFINE theirs == Without(read, Expired(read))
           merged == Merge(Loaded(p, read), theirs)
           alive == Without(merged, Expired(merged))
           kept == EvictOldest(alive)
<1>1. /\ read \in Cache /\ theirs \in Cache /\ Loaded(p, read) \in Cache
      /\ IsFiniteSet(Keys(theirs)) /\ IsFiniteSet(Keys(Loaded(p, read)))
  BY LoadedInCache, LoadedIsFinite, ReadingInCache, ReadingIsFinite, WithoutInCache,
     KeysOfWithout
<1>2. merged \in Cache /\ IsFiniteSet(Keys(merged))
  BY <1>1, MergeInCache, KeysOfMerge
<1>3. alive \in Cache /\ IsFiniteSet(Keys(alive))
  BY <1>2, WithoutInCache, KeysOfWithout
<1>4. kept \in Cache /\ IsFiniteSet(Keys(kept))
  BY <1>3, EvictInCache, KeysOfWithout DEF EvictOldest
<1>5. ASSUME read = disk, NEW f \in Files, disk[f] # None, ~(now > disk[f].ts + Ttl)
      PROVE  \/ kept[f] # None /\ kept[f].ts >= disk[f].ts
             \/ /\ kept[f] = None
                /\ Cardinality(Keys(kept)) = MaxEntries
                /\ \A g \in Keys(kept): kept[g].ts >= disk[f].ts
  <2>1. disk[f] \in Entry /\ disk[f].ts \in Nat /\ now \in Nat /\ Ttl \in Nat
    BY <1>1, <1>5, KeyEntries, CacheAssumption DEF Keys, IInv, TypeOK
  <2>2. theirs[f] = disk[f]
    <3>1. f \notin Expired(disk)
      BY <1>5, <2>1 DEF Expired, Alive
    <3>2. QED
      BY <1>5, <3>1 DEF Without
  <2>3. merged[f] # None /\ merged[f].ts >= disk[f].ts
    BY <1>5, <2>1, <2>2 DEF Merge
  <2>4. merged[f].ts \in Nat
    BY <1>2, <2>3, KeyEntries DEF Keys
  <2>5. alive[f] = merged[f]
    <3>1. Alive(merged[f])
      BY <1>5, <2>1, <2>3, <2>4 DEF Alive
    <3>2. QED
      BY <3>1 DEF Without, Expired
  <2>6. f \in Keys(alive)
    BY <2>3, <2>5 DEF Keys
  <2>7. kept[f] \in {None, alive[f]}
    BY <1>3, EvictInCache
  <2>8. CASE kept[f] = None
    <3>1. /\ Cardinality(Keys(kept)) = MaxEntries
          /\ \A g \in Keys(kept): kept[g].ts >= alive[f].ts
      BY <1>3, <2>6, <2>8, EvictKeepsTheYoungest
    <3>2. \A g \in Keys(kept): kept[g].ts \in Nat
      BY <1>4, KeyEntries
    <3> HIDE DEF kept, alive, merged, theirs
    <3>3. \A g \in Keys(kept): kept[g].ts >= disk[f].ts
      BY <2>1, <2>3, <2>4, <2>5, <3>1, <3>2
    <3>4. QED
      BY <2>8, <3>1, <3>3
  <2>9. CASE kept[f] = alive[f]
    BY <2>3, <2>5, <2>9
  <2>10. QED
    BY <2>7, <2>8, <2>9
<1> HIDE DEF kept
<1>6. read = disk => Keeps(kept)
  BY <1>5 DEF Keeps
<1>7. QED
  BY <1>4, <1>6 DEF kept

LEMMA InitSave == Init => SaveInv
<1> SUFFICES ASSUME Init PROVE SaveInv
  OBVIOUS
<1>1. Keys(disk) = {}
  BY DEF Init, NoEntries, Keys
<1>2. QED
  BY <1>1, FS_EmptySet DEF Init, SaveInv

\* The steps of the others: neither the file nor what is kept for it changes.
LEMMA OtherSteps ==
  ASSUME IInv, SaveInv, UNCHANGED <<disk, lock, unread, at, mem>>, now' \in {now, now + 1}
  PROVE  SaveInv'
<1>1. \A m: Keeps(m) => Keeps(m)'
  <2>1. now \in Nat /\ Ttl \in Nat /\ \A f \in Files: disk[f] # None => disk[f].ts \in Nat
    BY CacheAssumption, KeyEntries DEF IInv, TypeOK, Keys
  <2>2. \A f \in Files: disk[f] # None /\ now > disk[f].ts + Ttl => now' > disk[f].ts + Ttl
    BY <2>1
  <2>3. disk' = disk
    OBVIOUS
  <2>4. QED
    BY <2>2, <2>3 DEF Keeps, Keys
<1>2. QED
  BY <1>1 DEF SaveInv, Keys

LEMMA SaveStep ==
  ASSUME IInv, SaveInv, Next
  PROVE  SaveInv'
<1>1. ASSUME NEW f \in Files, NEW c \in Contents, Edit(f, c)
      PROVE  SaveInv'
  BY <1>1, OtherSteps DEF Edit
<1>2. CASE Tick
  BY <1>2, OtherSteps DEF Tick
<1>3. ASSUME NEW p \in Procs,
             \/ \E f \in Files: Lookup(p, f)
             \/ Read(p) \/ Put(p) \/ NextFile(p)
      PROVE  SaveInv'
  <2>1. /\ at[p] # "flushing" /\ at' = [at EXCEPT ![p] = at'[p]] /\ at'[p] # "flushing"
        /\ UNCHANGED <<disk, lock, unread, now>>
    BY <1>3 DEF Lookup, Read, Put, NextFile, Goto, world, IInv, TypeOK
  <2>2. \A q \in Procs: q # p => mem'[q] = mem[q] /\ at'[q] = at[q]
    BY <1>3, <2>1 DEF Lookup, Read, Put, NextFile, IInv, TypeOK
  <2>3. mem'[p] # None => IsFiniteSet(Keys(mem'[p]))
    <3>1. CASE \E f \in Files: Lookup(p, f)
      <4>1. \E read \in Readings: mem'[p] = Loaded(p, read)
        BY <3>1 DEF Lookup, IInv, TypeOK
      <4>2. QED
        BY <4>1, LoadedIsFinite
    <3>2. CASE Put(p)
      <4> DEFINE f == target[p]
      <4>1. mem[p] \in Cache /\ mem[p] # None
        BY <3>2 DEF Put, IInv, TypeOK, VisitInv
      <4>2. IsFiniteSet(Keys(mem[p]) \cup {f})
        BY <4>1, FS_AddElement DEF SaveInv
      <4>3. \A g \in Files: g # f => mem'[p][g] = mem[p][g]
        BY <3>2, <4>1 DEF Put, IInv, TypeOK, Cache
      <4>4. Keys(mem'[p]) \in SUBSET (Keys(mem[p]) \cup {f})
        BY <4>3 DEF Keys
      <4>5. QED
        BY <4>2, <4>4, FS_Subset
    <3>3. CASE Read(p) \/ NextFile(p)
      BY <3>3 DEF Read, NextFile, SaveInv
    <3>4. QED
      BY <1>3, <3>1, <3>2, <3>3
  <2>4. QED
    <3>1. \A q \in Procs: at'[q] = "flushing" =>
              lock' = q /\ mem'[q] # None /\ mem'[q] = mem[q] /\ (unread \/ Keeps(mem[q]))
      BY <2>1, <2>2 DEF SaveInv, IInv, TypeOK
    <3>2. \A q \in Procs: at'[q] = "flushing" => unread' \/ Keeps(mem[q])'
      BY <2>1, <3>1 DEF Keeps
    <3>3. IsFiniteSet(Keys(disk))'
      BY <2>1 DEF SaveInv, Keys
    <3>4. \A q \in Procs: mem'[q] # None => IsFiniteSet(Keys(mem'[q]))
      BY <2>2, <2>3 DEF SaveInv
    <3>5. \A q \in Procs: mem'[q] # None => IsFiniteSet(Keys(mem[q]))'
      BY <3>4 DEF Keys
    <3>6. QED
      BY <3>1, <3>2, <3>3, <3>5 DEF SaveInv
<1>4. ASSUME NEW p \in Procs, FlushMerge(p)
      PROVE  SaveInv'
  <2>0. PICK read \in Readings:
            LET merged == Merge(Loaded(p, read), Without(read, Expired(read)))
            IN  /\ mem' = [mem EXCEPT ![p] = EvictOldest(Without(merged, Expired(merged)))]
                /\ unread' = (read # disk)
    BY <1>4 DEF FlushMerge
  <2> DEFINE merged == Merge(Loaded(p, read), Without(read, Expired(read)))
             kept == EvictOldest(Without(merged, Expired(merged)))
  <2>1. /\ lock = None /\ lock' = p /\ mem' = [mem EXCEPT ![p] = kept]
        /\ at' = [at EXCEPT ![p] = "flushing"] /\ UNCHANGED <<disk, now>>
    BY <1>4, <2>0 DEF FlushMerge, Goto, world
  <2>2. kept \in Cache /\ IsFiniteSet(Keys(kept)) /\ (unread' \/ Keeps(kept))
    BY <2>0, MergeKeeps
  <2> HIDE DEF kept
  <2>3. mem'[p] = kept /\ \A q \in Procs: q # p => mem'[q] = mem[q] /\ at'[q] = at[q]
    BY <2>1 DEF IInv, TypeOK
  <2>4. \A q \in Procs: at[q] # "flushing"
    BY <2>1, CacheAssumption DEF SaveInv
  <2>5. kept # None
    BY <2>2, NoneAssumption
  <2>6. /\ IsFiniteSet(Keys(disk)) /\ disk' = disk /\ now' = now
        /\ \A q \in Procs: mem[q] # None => IsFiniteSet(Keys(mem[q]))
    BY <2>1 DEF SaveInv
  <2>7. \A q \in Procs: at'[q] = "flushing" => q = p
    BY <2>3, <2>4
  <2>8. IsFiniteSet(Keys(disk))'
    BY <2>6 DEF Keys
  <2>9. \A q \in Procs: mem'[q] # None => IsFiniteSet(Keys(mem'[q]))
    BY <2>2, <2>3, <2>6
  <2>10. \A q \in Procs: mem'[q] # None => IsFiniteSet(Keys(mem[q]))'
    BY <2>9 DEF Keys
  <2>11. Keeps(kept) => Keeps(mem[p])'
    BY <2>3, <2>6 DEF Keeps, Keys
  <2>12. \A q \in Procs: at'[q] = "flushing" =>
             lock' = q /\ mem'[q] # None /\ (unread' \/ Keeps(mem[q])')
    BY <2>1, <2>2, <2>3, <2>5, <2>7, <2>11
  <2>13. QED
    BY <2>8, <2>10, <2>12 DEF SaveInv
<1>5. ASSUME NEW p \in Procs, FlushWrite(p)
      PROVE  SaveInv'
  <2>1. /\ at[p] = "flushing" /\ disk' \in {disk, mem[p]} /\ UNCHANGED mem
        /\ at' = [at EXCEPT ![p] = "idle"]
    BY <1>5 DEF FlushWrite, Goto
  <2>2. \A q \in Procs: at'[q] # "flushing"
    BY <2>1 DEF SaveInv, IInv, TypeOK
  <2>3. IsFiniteSet(Keys(disk'))
    BY <2>1 DEF SaveInv, Keys
  <2>4. QED
    BY <2>1, <2>2, <2>3 DEF SaveInv, Keys
<1>6. ASSUME NEW p \in Procs, Exit(p)
      PROVE  SaveInv'
  <2>1. /\ at' = [at EXCEPT ![p] = "idle"] /\ mem' = [mem EXCEPT ![p] = None]
        /\ lock' = (IF lock = p THEN None ELSE lock) /\ UNCHANGED <<disk, now>>
        /\ lock # p => unread' = unread
    BY <1>6 DEF Exit, Goto, world, IInv, TypeOK
  <2>2. at'[p] = "idle" /\ mem'[p] = None
        /\ \A q \in Procs: q # p => mem'[q] = mem[q] /\ at'[q] = at[q]
    BY <2>1 DEF IInv, TypeOK
  <2>3. \A q \in Procs: at'[q] = "flushing" => unread' \/ Keeps(mem[q])
    BY <2>1, <2>2 DEF SaveInv
  <2>4. QED
    BY <2>1, <2>2, <2>3 DEF SaveInv, Keeps, Keys
<1>7. QED
  BY <1>1, <1>2, <1>3, <1>4, <1>5, <1>6 DEF Next

\* A write of the cache file loses no entry but to time or to younger ones, whoever else
\* looks up, stores and flushes in between.
THEOREM FlushAlwaysKeepsNewest == Spec => FlushKeepsNewest
<1> DEFINE Fair(f) == \/ unread /\ at'[lock] # at[lock]
                      \/ now > disk[f].ts + Ttl
                      \/ disk'[f] # None /\ disk'[f].ts >= disk[f].ts
                      \/ /\ disk'[f] = None
                         /\ Cardinality(Keys(disk')) = MaxEntries
                         /\ \A g \in Keys(disk') : disk'[g].ts >= disk[f].ts
           KeepsNewest == \A f \in Files : disk'[f] # disk[f] /\ disk[f] # None => Fair(f)
<1>1. IInv /\ SaveInv /\ [Next]_vars => SaveInv'
  <2>1. IInv /\ SaveInv /\ UNCHANGED vars => SaveInv'
    BY OtherSteps DEF vars
  <2>2. QED
    BY <2>1, SaveStep
<1>2. IInv /\ SaveInv /\ [Next]_vars => KeepsNewest
  <2>1. SUFFICES ASSUME IInv, SaveInv, Next, disk' # disk
                 PROVE  KeepsNewest
    BY DEF vars
  <2>2. PICK p \in Procs: FlushWrite(p)
    BY <2>1 DEF Next, Edit, Tick, Lookup, Read, Put, NextFile, FlushMerge, Exit
  <2>3. at[p] = "flushing" /\ disk' = mem[p] /\ at'[p] = "idle" /\ lock = p
    BY <2>1, <2>2 DEF FlushWrite, Goto, IInv, TypeOK, SaveInv
  <2>4. unread \/ Keeps(disk')
    BY <2>1, <2>3 DEF SaveInv, Keeps
  <2>5. CASE unread
    BY <2>3, <2>5
  <2>6. CASE Keeps(disk')
    BY <2>6 DEF Keeps
  <2>7. QED
    BY <2>4, <2>5, <2>6
<1>3. KeepsNewest => [KeepsNewest]_vars
  OBVIOUS
<1>4. QED
  BY <1>1, <1>2, Inductive, InitSave, PTL DEF Spec, FlushKeepsNewest
=============================================================================
