-------------------------- MODULE TranslationMemory --------------------------
(***************************************************************************)
(* TranslationMemoryStore of src/rules/store.rs: the file .zhtw-tm.json of *)
(* decisions about flagged terms, and the processes that open, record into,*)
(* import into, clear and reload it.  A process edits the snapshot it took *)
(* when it opened the file, through an index from terms to positions.  The *)
(* advisory lock covers editing and writing, not reading.                  *)
(*                                                                         *)
(* A decision is "keep" when user_chose is the flagged term itself, and    *)
(* "change" otherwise; the other fields of an entry are left out.          *)
(***************************************************************************)
EXTENDS Naturals, Sequences, SequencesExt

CONSTANTS
  Procs,
  Terms,
  None,        \* no decision; also: nobody holds the lock
  MaxEntries,  \* TM_MAX_ENTRIES
  MaxImport,   \* bound: entries of an imported file
  MaxDamage    \* bound: times the file is damaged or removed from outside

ASSUME MemoryAssumption ==
  /\ None \notin Procs
  /\ MaxEntries \in Nat /\ MaxImport \in Nat /\ MaxDamage \in Nat

VARIABLES
  file,     \* .zhtw-tm.json: "missing", "valid", "bad"
  stored,   \* its entries while it is valid
  lock,     \* holder of the lock file
  at,       \* where each process is
  entries,  \* memory.entries of each process
  index,    \* its index; 0 stands for no position
  oldEntries, oldIndex,  \* the locals of import: what a failed save restores
  changed,  \* whether import has added or updated anything
  left,     \* how many imported entries it may still have to look at
  damage,
  decided,  \* history: the last decision on each term that was saved
  pending,  \* history: decided, once what is being imported is saved
  seen,     \* history: whether a process has read the present file
  tainted   \* history: the file was lost, or saved by a process that had not

importVars == <<oldEntries, oldIndex, changed, left, pending>>
vars == <<file, stored, lock, at, entries, index, importVars, damage, decided, seen, tainted>>

Decisions == {"keep", "change"}
Entries == [found: Terms, chose: Decisions]

\* build_tm_index: of duplicates, which only a hand-edited file holds, the last.
BuildIndex(es) ==
  [t \in Terms |-> LET at_t == {i \in 1..Len(es) : es[i].found = t}
                   IN IF at_t = {} THEN 0 ELSE CHOOSE i \in at_t : \A j \in at_t : j <= i]

NoPosition == [t \in Terms |-> 0]
NoDecision == [t \in Terms |-> None]

\* The last entry for a term, and what it says.
LastOf(es, t) == SelectLastInSeq(es, LAMBDA e : e.found = t)
Latest(es, t) == IF LastOf(es, t) = 0 THEN None ELSE es[LastOf(es, t)].chose

Init ==
  /\ \/ file = "valid" /\ stored \in UNION {[1..n -> Entries] : n \in 0..MaxEntries}
     \/ file = "missing" /\ stored = <<>>
  /\ lock = None
  /\ at = [p \in Procs |-> "closed"]
  /\ entries = [p \in Procs |-> <<>>]
  /\ index = [p \in Procs |-> NoPosition]
  /\ oldEntries = <<>> /\ oldIndex = NoPosition /\ changed = FALSE
  /\ left = 0 /\ pending = NoDecision
  /\ damage = 0
  /\ decided = [t \in Terms |-> Latest(stored, t)]
  /\ seen = [p \in Procs |-> FALSE]
  /\ tainted = FALSE

Goto(p, place) == at' = [at EXCEPT ![p] = place]

Hold(p, es, ix) ==
  /\ entries' = [entries EXCEPT ![p] = es]
  /\ index' = [index EXCEPT ![p] = ix]

\* The locals of an import go when it returns.
NoImport ==
  /\ oldEntries' = <<>> /\ oldIndex' = NoPosition /\ changed' = FALSE
  /\ left' = 0 /\ pending' = NoDecision

-----------------------------------------------------------------------------
\* open and reload.  A failed open leaves a process as it was.
Open(p) ==
  /\ at[p] \in {"closed", "open"}
  /\ \/ /\ file = "missing"
        /\ Hold(p, <<>>, NoPosition)
        /\ seen' = [seen EXCEPT ![p] = TRUE]
        /\ Goto(p, "open")
     \/ /\ file = "valid"
        /\ Hold(p, stored, BuildIndex(stored))
        /\ seen' = [seen EXCEPT ![p] = TRUE]
        /\ Goto(p, "open")
     \/ /\ file = "bad"
        /\ Goto(p, "resetting")
        /\ UNCHANGED <<entries, index, seen>>
  /\ UNCHANGED <<file, stored, lock, importVars, damage, decided, tainted>>

\* backup_file renames what the path names by now, without the lock, and
\* ignores a failure.
Reset(p) ==
  /\ at[p] = "resetting"
  /\ file' \in {"missing", file}
  /\ tainted' = TRUE
  /\ Hold(p, <<>>, NoPosition)
  /\ seen' = [q \in Procs |-> FALSE]
  /\ Goto(p, "open")
  /\ UNCHANGED <<stored, lock, importVars, damage, decided>>

Lock(p) ==
  /\ at[p] = "open" /\ lock = None
  /\ lock' = p
  /\ Goto(p, "locked")
  /\ UNCHANGED <<file, stored, entries, index, importVars, damage, decided, seen, tainted>>

\* The end of a mutation that held es and ix in memory: saved, or not saved and
\* rolled back to oldEs and oldIx.  The lock is dropped either way.
Flush(p, es, ix, oldEs, oldIx, decisions) ==
  /\ \/ /\ file' = "valid" /\ stored' = es
        /\ Hold(p, es, ix)
        /\ decided' = decisions
        /\ seen' = [q \in Procs |-> q = p]
        /\ tainted' = (tainted \/ ~seen[p])
     \/ /\ Hold(p, oldEs, oldIx)
        /\ UNCHANGED <<file, stored, decided, seen, tainted>>
  /\ lock' = None
  /\ NoImport
  /\ Goto(p, "open")
  /\ UNCHANGED damage

\* A mutation that returns before it writes.
Unlock(p) ==
  /\ lock' = None
  /\ NoImport
  /\ Goto(p, "open")
  /\ UNCHANGED <<file, stored, entries, index, damage, decided, seen, tainted>>

\* Mutant: the cap is one entry late.
FullLate(p, t) == index[p][t] = 0 /\ Len(entries[p]) > MaxEntries
\* The cap is on new entries only.
Full(p, t) == index[p][t] = 0 /\ Len(entries[p]) >= MaxEntries

\* Mutant: a failed push takes back the entry and leaves its index.
UnpushedNot(ix, t) == ix
Unpushed(ix, t) == [ix EXCEPT ![t] = 0]

\* An update puts the old entry back, a new one is popped.
Record(p, e) ==
  /\ at[p] = "locked"
  /\ LET pos == index[p][e.found]
         es == entries[p]
         ix == index[p]
     IN \/ /\ Full(p, e.found)
           /\ Unlock(p)
        \/ /\ pos = 0 /\ ~Full(p, e.found)
           /\ LET pushed == [ix EXCEPT ![e.found] = Len(es) + 1]
              IN Flush(p, Append(es, e), pushed, es, Unpushed(pushed, e.found),
                       [decided EXCEPT ![e.found] = e.chose])
        \/ /\ pos # 0
           /\ Flush(p, [es EXCEPT ![pos] = e], ix, es, ix,
                    [decided EXCEPT ![e.found] = e.chose])

\* The import takes its two clones and goes through the file's entries; a file
\* that cannot be read ends it.
StartImport(p) ==
  /\ at[p] = "locked"
  /\ \/ Unlock(p)
     \/ /\ Goto(p, "importing")
        /\ oldEntries' = entries[p] /\ oldIndex' = index[p] /\ changed' = FALSE
        /\ left' = MaxImport /\ pending' = decided
        /\ UNCHANGED <<file, stored, lock, entries, index, damage, decided, seen, tainted>>

\* What an entry of the file does to the loop's locals.
Made(e) == changed' = TRUE /\ pending' = [pending EXCEPT ![e.found] = e.chose]

\* Mutant: an entry that is there already is counted and not replaced.
UpdateNot(p, e) ==
  /\ Made(e)
  /\ UNCHANGED <<entries, index>>

\* An update always, a new entry below the cap.
Update(p, e) ==
  /\ Made(e)
  /\ Hold(p, [entries[p] EXCEPT ![index[p][e.found]] = e], index[p])

Add(p, e) ==
  /\ Made(e)
  /\ Hold(p, Append(entries[p], e), [index[p] EXCEPT ![e.found] = Len(entries[p]) + 1])

ImportEntry(p, e) ==
  /\ at[p] = "importing" /\ left > 0
  /\ left' = left - 1
  /\ IF index[p][e.found] # 0 THEN Update(p, e)
     ELSE IF Full(p, e.found) THEN UNCHANGED <<entries, index, changed, pending>>
     ELSE Add(p, e)
  /\ UNCHANGED <<file, stored, lock, at, oldEntries, oldIndex, damage, decided, seen, tainted>>

FinishImport(p) ==
  /\ at[p] = "importing"
  /\ IF changed THEN Flush(p, entries[p], index[p], oldEntries, oldIndex, pending)
     ELSE Unlock(p)

Clear(p) ==
  /\ at[p] = "locked"
  /\ Flush(p, <<>>, NoPosition, entries[p], index[p], NoDecision)

-----------------------------------------------------------------------------
\* A command is done, or the process dies; the lock goes with its file handle.
Exit(p) ==
  /\ at[p] # "closed"
  /\ Goto(p, "closed")
  /\ Hold(p, <<>>, NoPosition)
  /\ IF lock = p THEN lock' = None /\ NoImport ELSE UNCHANGED <<lock, importVars>>
  /\ seen' = [seen EXCEPT ![p] = FALSE]
  /\ UNCHANGED <<file, stored, damage, decided, tainted>>

Damage ==
  /\ damage < MaxDamage
  /\ file' \in {"missing", "bad"}
  /\ damage' = damage + 1
  /\ seen' = [p \in Procs |-> FALSE]
  /\ tainted' = TRUE
  /\ UNCHANGED <<stored, lock, at, entries, index, importVars, decided>>

Next ==
  \/ \E p \in Procs : \/ Open(p) \/ Reset(p) \/ Lock(p) \/ Clear(p) \/ Exit(p)
                      \/ StartImport(p) \/ FinishImport(p)
                      \/ \E e \in Entries : Record(p, e) \/ ImportEntry(p, e)
  \/ Damage

Spec == Init /\ [][Next]_vars

-----------------------------------------------------------------------------
(***************************************************************************)
(* Properties.                                                             *)
(***************************************************************************)

TypeOK ==
  /\ file \in {"missing", "valid", "bad"}
  /\ stored \in Seq(Entries)
  /\ lock \in Procs \cup {None}
  /\ at \in [Procs -> {"closed", "open", "resetting", "locked", "importing"}]
  /\ entries \in [Procs -> Seq(Entries)] /\ oldEntries \in Seq(Entries)
  /\ index \in [Procs -> [Terms -> Nat]] /\ oldIndex \in [Terms -> Nat]
  /\ damage \in Nat /\ left \in Nat /\ changed \in BOOLEAN
  /\ {decided, pending} \subseteq [Terms -> Decisions \cup {None}]
  /\ seen \in [Procs -> BOOLEAN] /\ tainted \in BOOLEAN

\* should_suppress answers from the index: whatever was recorded, imported,
\* refused or rolled back, it names the last entry of every term and no other.
IndexFindsLatest ==
  \A p \in Procs, t \in Terms : index[p][t] = LastOf(entries[p], t)

\* Neither recording nor importing takes a list past the cap.
CapHolds == Len(stored) <= MaxEntries /\ \A p \in Procs : Len(entries[p]) <= MaxEntries

\* A decision is never held in memory only: an operation leaves its process with
\* what it has saved, or with what it had when it took the lock.
Before(p) == IF at[p] = "importing" THEN oldEntries ELSE entries[p]
MemoryIsSaved ==
  [][\A p \in Procs : at[p] \in {"locked", "importing"} /\ at'[p] = "open"
                        => \/ entries'[p] = Before(p)
                           \/ file' = "valid" /\ entries'[p] = stored']_vars

\* What a process that opens the file finds in it.
Kept == IF file = "valid" THEN stored ELSE <<>>

\* As long as every writer had read what it replaced, the file says of each
\* term what was decided last, duplicates or not.
FreshWritersLoseNothing ==
  ~tainted => file # "bad" /\ \A t \in Terms : Latest(Kept, t) = decided[t]

\* "This prevents concurrent MCP server instances from racing on the same JSON
\* file during read-modify-write sequences": with nobody else touching the file,
\* the most recent decision on a term is what the file says.
NoDecisionLost == file = "valid" => \A t \in Terms : Latest(stored, t) = decided[t]

=============================================================================
