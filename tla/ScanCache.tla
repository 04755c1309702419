------------------------------ MODULE ScanCache ------------------------------
(***************************************************************************)
(* The scan cache of the batch linter (src/cache.rs) and the way scan_path *)
(* of src/cli/lint.rs uses it: lint processes that look a file up by its   *)
(* modification time, read and scan it on a miss, store the result, and    *)
(* merge what they stored into one cache file, while an editor goes on     *)
(* writing the files and time passes.                                      *)
(*                                                                         *)
(* The result of a scan is named by the content it was made from.  All     *)
(* contents of a file have one size, the case in which a modification time *)
(* is all the fast path has.  The key of an entry holds the scan           *)
(* parameters beside the path; runs with other parameters are other files. *)
(***************************************************************************)
EXTENDS Integers, FiniteSets, FiniteSetsExt

CONSTANTS
  Procs,
  Files,      \* natural numbers: the order of the keys
  Contents,
  None,
  Ttl,        \* DEFAULT_TTL_SECS
  MaxEntries, \* MAX_ENTRIES
  MaxTime,    \* bound: the last second of the model
  MaxEdits,   \* bound: writes by the editor
  MaxScan     \* bound: seconds from reading a file to storing its result

ASSUME CacheAssumption ==
  /\ Files \subseteq Nat /\ None \notin Contents /\ None \notin Procs
  /\ {Ttl, MaxEntries, MaxTime, MaxEdits, MaxScan} \subseteq Nat

VARIABLES
  now,      \* now_secs()
  content,  \* what each file holds
  mtime,    \* its modification time, in whole seconds
  edits,
  disk,     \* the cache file: an entry or None for each key
  lock,     \* who holds its lock
  unread,   \* history: the flush that holds it could not read the cache file
  at,       \* where each process is
  target,   \* the file a process is at
  meta,     \* the modification time it was opened with
  text,     \* the content it read, or whose cached result it goes on with
  readAt,   \* when it read it
  mem,      \* ScanCache.entries, None before the first lookup
  dirty,    \* ScanCache.dirty
  had       \* history: what the file has held since it was opened

vars == <<now, content, mtime, edits, disk, lock, unread, at, target, meta, text, readAt,
          mem, dirty, had>>

world == <<now, content, mtime, edits>>
visit == <<target, meta, text, readAt, had>>

Entry == [content : Contents, mtime : Nat, ts : Nat, safe : BOOLEAN]
Cache == [Files -> Entry \cup {None}]
ASSUME NoneAssumption == None \notin Cache

NoEntries == [f \in Files |-> None]
Keys(c) == {f \in Files : c[f] # None}

Init ==
  /\ now = 1
  /\ content \in [Files -> Contents]
  /\ mtime = [f \in Files |-> 1]
  /\ edits = 0
  /\ disk = NoEntries
  /\ lock = None /\ unread = FALSE
  /\ at = [p \in Procs |-> "idle"]
  /\ target = [p \in Procs |-> None] /\ meta = [p \in Procs |-> 0]
  /\ text = [p \in Procs |-> None] /\ readAt = [p \in Procs |-> 0]
  /\ mem = [p \in Procs |-> None] /\ dirty = [p \in Procs |-> FALSE]
  /\ had = [p \in Procs |-> {}]

Goto(p, place) == at' = [at EXCEPT ![p] = place]

-----------------------------------------------------------------------------
(***************************************************************************)
(* The surroundings.                                                       *)
(***************************************************************************)

Edit(f, c) ==
  /\ edits < MaxEdits
  /\ edits' = edits + 1
  /\ content' = [content EXCEPT ![f] = c]
  /\ mtime' = [mtime EXCEPT ![f] = now]
  /\ had' = [p \in Procs |-> IF target[p] = f THEN had[p] \cup {c} ELSE had[p]]
  /\ UNCHANGED <<now, disk, lock, unread, at, target, meta, text, readAt, mem, dirty>>

Tick ==
  /\ now < MaxTime
  /\ \A p \in Procs : at[p] = "scanning" => now < readAt[p] + MaxScan
  /\ now' = now + 1
  /\ UNCHANGED <<content, mtime, edits, disk, lock, unread, at, mem, dirty, visit>>

-----------------------------------------------------------------------------
(***************************************************************************)
(* Entries.                                                                *)
(***************************************************************************)

Alive(e) == now - e.ts <= Ttl
Expired(c) == {f \in Keys(c) : ~Alive(c[f])}
Without(c, gone) == [f \in Files |-> IF f \in gone THEN None ELSE c[f]]

\* Mutant: every entry is trusted.
SafeAlways(m, t) == m <= t
\* Whether the modification time is old enough to stand for the content.
Safe(m, t) == m + 1 < t

FastHit(e, m) == e # None /\ e.safe /\ Alive(e) /\ e.mtime = m
ContentHit(e, c) == e # None /\ Alive(e) /\ e.content = c

\* The newer of two entries, ours when they tie.
Merge(ours, theirs) ==
  [f \in Files |-> IF theirs[f] = None \/ (ours[f] # None /\ ours[f].ts >= theirs[f].ts)
                   THEN ours[f] ELSE theirs[f]]

\* Whether f leaves before g.
Older(c, f, g) == c[f].ts < c[g].ts \/ (c[f].ts = c[g].ts /\ f < g)

\* Mutant: the newest go.
EvictNewest(c) ==
  Without(c, {f \in Keys(c) : Cardinality({g \in Keys(c) : Older(c, g, f)}) >= MaxEntries})
\* The oldest over the cap go.
EvictOldest(c) ==
  Without(c, {f \in Keys(c) : Cardinality({g \in Keys(c) : Older(c, f, g)}) >= MaxEntries})

-----------------------------------------------------------------------------
(***************************************************************************)
(* One file of a lint run.                                                 *)
(***************************************************************************)

\* What a read of the cache file gives: nothing, when it fails or does not parse.
Readings == {disk, NoEntries}

\* The entries as the first lookup loads them; pruning makes them dirty.
Loaded(p, read) == IF mem[p] = None THEN Without(read, Expired(read)) ELSE mem[p]
LoadDirty(p, read) == dirty[p] \/ (mem[p] = None /\ Expired(read) # {})

\* The file is opened, its metadata taken and the fast path tried.  A hit is
\* used only for a clean result that no later phase needs the text for.
Lookup(p, f) ==
  /\ at[p] = "idle"
  /\ target' = [target EXCEPT ![p] = f]
  /\ had' = [had EXCEPT ![p] = {content[f]}]
  /\ \E read \in Readings :
       /\ mem' = [mem EXCEPT ![p] = Loaded(p, read)]
       /\ dirty' = [dirty EXCEPT ![p] = LoadDirty(p, read)]
  /\ \/ /\ FastHit(mem'[p][f], mtime[f])
        /\ text' = [text EXCEPT ![p] = mem'[p][f].content]
        /\ Goto(p, "reported")
        /\ UNCHANGED meta
     \/ /\ meta' = [meta EXCEPT ![p] = mtime[f]]
        /\ Goto(p, "opened")
        /\ UNCHANGED text
  /\ UNCHANGED <<disk, lock, unread, readAt, world>>

\* The file is read and the entry tried against the content.
Read(p) ==
  /\ at[p] = "opened"
  /\ text' = [text EXCEPT ![p] = content[target[p]]]
  /\ IF ContentHit(mem[p][target[p]], content[target[p]])
     THEN /\ Goto(p, "reported")
          /\ meta' = [meta EXCEPT ![p] = 0]
          /\ UNCHANGED readAt
     ELSE /\ Goto(p, "scanning")
          /\ readAt' = [readAt EXCEPT ![p] = now]
          /\ UNCHANGED meta
  /\ UNCHANGED <<disk, lock, unread, target, mem, dirty, had, world>>

\* A result with more than MAX_ENTRY_ISSUES issues is not stored.
Put(p) ==
  /\ at[p] = "scanning"
  /\ Goto(p, "reported")
  /\ meta' = [meta EXCEPT ![p] = 0]
  /\ readAt' = [readAt EXCEPT ![p] = 0]
  /\ \/ /\ mem' = [mem EXCEPT ![p][target[p]] =
                     [content |-> text[p], mtime |-> meta[p], ts |-> now,
                      safe |-> Safe(meta[p], now)]]
        /\ dirty' = [dirty EXCEPT ![p] = TRUE]
     \/ UNCHANGED <<mem, dirty>>
  /\ UNCHANGED <<disk, lock, unread, target, text, had, world>>

Forget(p) ==
  /\ target' = [target EXCEPT ![p] = None]
  /\ meta' = [meta EXCEPT ![p] = 0]
  /\ text' = [text EXCEPT ![p] = None]
  /\ readAt' = [readAt EXCEPT ![p] = 0]
  /\ had' = [had EXCEPT ![p] = {}]

NextFile(p) ==
  /\ at[p] = "reported"
  /\ Goto(p, "idle")
  /\ Forget(p)
  /\ UNCHANGED <<disk, lock, unread, mem, dirty, world>>

-----------------------------------------------------------------------------
(***************************************************************************)
(* The end of a lint run.                                                  *)
(***************************************************************************)

\* A flush that does not get the lock leaves everything to the next one.  One that
\* cannot read the cache file merges with nothing, and goes on to replace it.
FlushMerge(p) ==
  /\ at[p] = "idle" /\ dirty[p] /\ lock = None
  /\ lock' = p
  /\ \E read \in Readings :
       LET merged == Merge(Loaded(p, read), Without(read, Expired(read)))
       IN /\ mem' = [mem EXCEPT ![p] = EvictOldest(Without(merged, Expired(merged)))]
          /\ unread' = (read # disk)
  /\ Goto(p, "flushing")
  /\ UNCHANGED <<disk, dirty, visit, world>>

FlushWrite(p) ==
  /\ at[p] = "flushing"
  /\ \/ disk' = mem[p] /\ dirty' = [dirty EXCEPT ![p] = FALSE]
     \/ UNCHANGED <<disk, dirty>>
  /\ lock' = None /\ unread' = FALSE
  /\ Goto(p, "idle")
  /\ UNCHANGED <<mem, visit, world>>

\* The run ends, or is killed, anywhere.
Exit(p) ==
  /\ mem[p] # None
  /\ Goto(p, "idle")
  /\ Forget(p)
  /\ mem' = [mem EXCEPT ![p] = None]
  /\ dirty' = [dirty EXCEPT ![p] = FALSE]
  /\ lock' = IF lock = p THEN None ELSE lock
  /\ unread' = (unread /\ lock # p)
  /\ UNCHANGED <<disk, world>>

Next ==
  \/ \E f \in Files, c \in Contents : Edit(f, c)
  \/ Tick
  \/ \E p \in Procs : \/ \E f \in Files : Lookup(p, f)
                      \/ Read(p) \/ Put(p) \/ NextFile(p)
                      \/ FlushMerge(p) \/ FlushWrite(p) \/ Exit(p)

Spec == Init /\ [][Next]_vars

-----------------------------------------------------------------------------
(***************************************************************************)
(* Properties.                                                             *)
(***************************************************************************)

TypeOK ==
  /\ now \in Nat /\ edits \in Nat
  /\ content \in [Files -> Contents]
  /\ mtime \in [Files -> Nat]
  /\ disk \in Cache
  /\ lock \in Procs \cup {None} /\ unread \in BOOLEAN
  /\ at \in [Procs -> {"idle", "opened", "scanning", "reported", "flushing"}]
  /\ target \in [Procs -> Files \cup {None}]
  /\ meta \in [Procs -> Nat] /\ readAt \in [Procs -> Nat]
  /\ text \in [Procs -> Contents \cup {None}]
  /\ mem \in [Procs -> Cache \cup {None}]
  /\ dirty \in [Procs -> BOOLEAN]
  /\ had \in [Procs -> SUBSET Contents]

\* Whatever was cached, by whom and when, the result reported for a file is of
\* something the file held after the run opened it.
ReportsTheFile ==
  \A p \in Procs : at[p] = "reported" => text[p] \in had[p]

\* "so neither side loses work it just did": a write of the cache file drops an
\* entry only when it has expired or the file is full of younger ones, and
\* replaces one only by one as new.  A flush that cannot read the cache file is the
\* exception, load_entries taking it for an empty one.
FlushKeepsNewest ==
  [][\A f \in Files : disk'[f] # disk[f] /\ disk[f] # None =>
       \/ unread /\ at'[lock] # at[lock]
       \/ now > disk[f].ts + Ttl
       \/ disk'[f] # None /\ disk'[f].ts >= disk[f].ts
       \/ /\ disk'[f] = None
          /\ Cardinality(Keys(disk')) = MaxEntries
          /\ \A g \in Keys(disk') : disk'[g].ts >= disk[f].ts]_vars

=============================================================================
