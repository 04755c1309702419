---------------------------- MODULE StoreProofs ----------------------------
(* Proofs about TranslationMemory, for every set of processes and terms, every cap and *)
(* any number of damages: the index of each process finds the decision that counts, a  *)
(* list never outgrows the cap, and the file says what was decided last while every    *)
(* writer had read what it replaced.  Then about OverrideStore, for every set of       *)
(* programs, keys and values: the edits of different programs do not overwrite each    *)
(* other.                                                                              *)
EXTENDS TranslationMemory, OverrideStore, TLAPS, WellFoundedInduction

----------------------------------------------------------------------------
(* The last entry for a term *)

\* n is the position of the last entry for t, or 0 for none.
IsLast(es, t, n) ==
    \/ n = 0 /\ \A i \in 1..Len(es): es[i].found # t
    \/ /\ n \in 1..Len(es) /\ es[n].found = t
       /\ \A i \in 1..Len(es): es[i].found = t => i <= n

LEMMA Smallest ==
  ASSUME NEW D \in SUBSET Nat, D # {}
  PROVE  \E d \in D: \A e \in D: d <= e
<1> DEFINE Less == {ss \in Nat \X Nat: ss[1] < ss[2]}
<1>1. IsWellFoundedOn(Less, Nat)
  BY NatLessThanWellFounded DEF OpToRel
<1>2. PICK d \in D: \A e \in D: ~(<<e, d>> \in Less)
  <2> HIDE DEF Less
  <2>1. QED
    BY <1>1, WFMin, Zenon
<1>3. ASSUME NEW e \in D PROVE d <= e
  <2>1. e \in Nat /\ d \in Nat /\ ~(<<e, d>> \in Less)
    BY <1>2
  <2>2. ~(e < d)
    BY <2>1
  <2>3. QED
    BY <2>1, <2>2
<1>4. QED
  BY <1>3

LEMMA Largest ==
  ASSUME NEW n \in Nat, NEW S \in SUBSET (1..n), S # {}
  PROVE  \E x \in S: \A y \in S: y <= x
<1> DEFINE D == {d \in Nat: d <= n /\ n - d \in S}
<1>1. PICK x \in S: TRUE
  OBVIOUS
<1>2. n - x \in D
  BY <1>1
<1>3. PICK d \in D: \A e \in D: d <= e
  <2>1. D \in SUBSET Nat /\ D # {}
    BY <1>2
  <2> HIDE DEF D
  <2>2. QED
    BY <2>1, Smallest
<1>4. n - d \in S
  OBVIOUS
<1>5. ASSUME NEW y \in S PROVE y <= n - d
  <2>1. n - y \in D
    BY <1>5
  <2>2. d <= n - y
    BY <1>3, <2>1
  <2>3. QED
    BY <2>1, <2>2
<1>6. QED
  BY <1>4, <1>5

LEMMA LastIsOne ==
  ASSUME NEW es \in Seq(Entries), NEW t \in Terms, NEW m, NEW n,
         IsLast(es, t, m), IsLast(es, t, n)
  PROVE  m = n
<1>1. Len(es) \in Nat
  OBVIOUS
<1>2. QED
  BY <1>1 DEF IsLast

\* Both searches of the model find it.
LEMMA LastOfIsLast ==
  ASSUME NEW es \in Seq(Entries), NEW t \in Terms
  PROVE  IsLast(es, t, LastOf(es, t)) /\ LastOf(es, t) \in Nat
<1> DEFINE S == {i \in 1..Len(es): es[i].found = t}
<1>1. LastOf(es, t) = IF S # {} THEN Max(S) ELSE 0
  BY DEF LastOf, SelectLastInSeq
<1>2. CASE S = {}
  BY <1>1, <1>2 DEF IsLast
<1>3. CASE S # {}
  <2>1. Len(es) \in Nat /\ S \in SUBSET (1..Len(es))
    OBVIOUS
  <2>2. PICK x \in S: \A y \in S: x >= y
    BY <1>3, <2>1, Largest
  <2>3. Max(S) \in S /\ \A y \in S: Max(S) >= y
    BY <2>2 DEF Max
  <2>4. QED
    BY <1>1, <1>3, <2>1, <2>3 DEF IsLast
<1>4. QED
  BY <1>2, <1>3

LEMMA BuildIndexIsLast ==
  ASSUME NEW es \in Seq(Entries)
  PROVE  /\ BuildIndex(es) \in [Terms -> Nat]
         /\ \A t \in Terms: IsLast(es, t, BuildIndex(es)[t])
<1>1. ASSUME NEW t \in Terms
      PROVE  BuildIndex(es)[t] \in Nat /\ IsLast(es, t, BuildIndex(es)[t])
  <2> DEFINE S == {i \in 1..Len(es): es[i].found = t}
  <2>1. BuildIndex(es)[t] = IF S = {} THEN 0 ELSE CHOOSE i \in S: \A j \in S: j <= i
    BY DEF BuildIndex
  <2>2. CASE S = {}
    BY <2>1, <2>2 DEF IsLast
  <2>3. CASE S # {}
    <3> DEFINE last == CHOOSE i \in S: \A j \in S: j <= i
    <3>1. Len(es) \in Nat /\ S \in SUBSET (1..Len(es))
      OBVIOUS
    <3>2. \E x \in S: \A y \in S: y <= x
      BY <2>3, <3>1, Largest
    <3>3. last \in S /\ \A y \in S: y <= last
      BY <3>2
    <3>4. BuildIndex(es)[t] = last
      BY <2>1, <2>3
    <3> HIDE DEF last
    <3>5. last \in 1..Len(es) /\ es[last].found = t
      BY <3>3
    <3>6. \A i \in 1..Len(es): es[i].found = t => i <= last
      BY <3>3
    <3>7. QED
      BY <3>1, <3>4, <3>5, <3>6 DEF IsLast
  <2>4. QED
    BY <2>2, <2>3
<1>2. BuildIndex(es) \in [Terms -> Nat]
  <2>1. BuildIndex(es) = [t \in Terms |-> BuildIndex(es)[t]]
    BY DEF BuildIndex
  <2>2. QED
    BY <1>1, <2>1
<1>3. QED
  BY <1>1, <1>2

\* What becomes of it: in an empty list, when an entry is added, and when the last
\* entry for a term is replaced.
LEMMA LastOfNone ==
  ASSUME NEW t \in Terms
  PROVE  IsLast(<<>>, t, 0)
BY DEF IsLast

LEMMA LastOfAppended ==
  ASSUME NEW es \in Seq(Entries), NEW e \in Entries, NEW t \in Terms, NEW n,
         IsLast(es, t, n)
  PROVE  /\ Append(es, e) \in Seq(Entries)
         /\ IsLast(Append(es, e), t, IF e.found = t THEN Len(es) + 1 ELSE n)
<1>1. /\ Append(es, e) \in Seq(Entries) /\ Len(es) \in Nat
      /\ Len(Append(es, e)) = Len(es) + 1
      /\ Append(es, e)[Len(es) + 1] = e
      /\ \A i \in 1..Len(es): Append(es, e)[i] = es[i]
  OBVIOUS
<1>2. 1..Len(Append(es, e)) = (1..Len(es)) \cup {Len(es) + 1}
  BY <1>1
<1> HIDE DEF Entries
<1> DEFINE longer == Append(es, e)
<1> HIDE DEF longer
<1>3. CASE e.found = t
  <2>1. IsLast(longer, t, Len(es) + 1)
    BY <1>1, <1>2, <1>3 DEF IsLast, longer
  <2>2. QED
    BY <1>1, <1>3, <2>1 DEF longer
<1>4. CASE e.found # t
  <2>1. IsLast(longer, t, n)
    BY <1>1, <1>2, <1>4 DEF IsLast, longer
  <2>2. QED
    BY <1>1, <1>4, <2>1 DEF longer
<1>5. QED
  BY <1>3, <1>4

LEMMA LastOfReplaced ==
  ASSUME NEW es \in Seq(Entries), NEW e \in Entries, NEW pos \in 1..Len(es),
         IsLast(es, e.found, pos)
  PROVE  /\ [es EXCEPT ![pos] = e] \in Seq(Entries)
         /\ Len([es EXCEPT ![pos] = e]) = Len(es)
         /\ \A t \in Terms: \A n: IsLast(es, t, n) => IsLast([es EXCEPT ![pos] = e], t, n)
<1> DEFINE other == [es EXCEPT ![pos] = e]
<1>1. /\ other \in Seq(Entries) /\ Len(other) = Len(es) /\ Len(es) \in Nat
      /\ other[pos] = e /\ \A i \in 1..Len(es): i # pos => other[i] = es[i]
  OBVIOUS
<1>2. es[pos].found = e.found
  BY DEF IsLast
<1> HIDE DEF other
<1>3. \A i \in 1..Len(es): other[i].found = es[i].found
  BY <1>1, <1>2
<1>4. ASSUME NEW t \in Terms, NEW n, IsLast(es, t, n) PROVE IsLast(other, t, n)
  BY <1>1, <1>3, <1>4 DEF IsLast
<1>5. QED
  BY <1>1, <1>4 DEF other

LEMMA LatestIs ==
  ASSUME NEW es \in Seq(Entries), NEW t \in Terms, NEW n, IsLast(es, t, n)
  PROVE  Latest(es, t) = IF n = 0 THEN None ELSE es[n].chose
<1>1. n = LastOf(es, t)
  BY LastOfIsLast, LastIsOne
<1>2. QED
  BY <1>1 DEF Latest

\* An index that finds the last entry of every term.
Indexes(es, ix) ==
    /\ es \in Seq(Entries) /\ ix \in [Terms -> Nat]
    /\ \A t \in Terms: IsLast(es, t, ix[t])

LEMMA EmptyIndexed == Indexes(<<>>, NoPosition) /\ NoPosition \in [Terms -> Nat]
<1>1. <<>> \in Seq(Entries) /\ NoPosition \in [Terms -> Nat]
  BY DEF NoPosition
<1>2. QED
  BY <1>1, LastOfNone DEF Indexes, NoPosition

LEMMA BuiltIndexed == ASSUME NEW es \in Seq(Entries) PROVE Indexes(es, BuildIndex(es))
BY BuildIndexIsLast DEF Indexes

\* A decision that is added, or put in the place of the last one on its term, is what the
\* list says of the term from then on; the index is up to date, and nothing else changes.
LEMMA Added ==
  ASSUME NEW es, NEW ix, Indexes(es, ix), NEW e \in Entries, ix[e.found] = 0
  PROVE  /\ Indexes(Append(es, e), [ix EXCEPT ![e.found] = Len(es) + 1])
         /\ Len(Append(es, e)) = Len(es) + 1
         /\ \A t \in Terms: Latest(Append(es, e), t) =
                IF e.found = t THEN e.chose ELSE Latest(es, t)
<1> DEFINE longer == Append(es, e)
           ix2 == [ix EXCEPT ![e.found] = Len(es) + 1]
<1>1. es \in Seq(Entries) /\ ix \in [Terms -> Nat] /\ Len(es) \in Nat /\ e.found \in Terms
  BY DEF Indexes, Entries
<1>2. /\ longer \in Seq(Entries) /\ Len(longer) = Len(es) + 1
      /\ longer[Len(es) + 1] = e /\ \A i \in 1..Len(es): longer[i] = es[i]
  BY <1>1
<1>3. ix2 \in [Terms -> Nat]
      /\ \A t \in Terms: ix2[t] = IF e.found = t THEN Len(es) + 1 ELSE ix[t]
  BY <1>1
<1>4. \A t \in Terms: IsLast(longer, t, ix2[t])
  BY <1>1, <1>3, LastOfAppended DEF Indexes
<1> HIDE DEF longer, ix2
<1>5. Indexes(longer, ix2)
  BY <1>2, <1>3, <1>4 DEF Indexes
<1>6. ASSUME NEW t \in Terms
      PROVE  Latest(longer, t) = IF e.found = t THEN e.chose ELSE Latest(es, t)
  <2>1. Latest(longer, t) = IF ix2[t] = 0 THEN None ELSE longer[ix2[t]].chose
    BY <1>2, <1>4, LatestIs
  <2>2. Latest(es, t) = IF ix[t] = 0 THEN None ELSE es[ix[t]].chose
    BY <1>1, LatestIs DEF Indexes
  <2>3. CASE e.found = t
    BY <1>1, <1>2, <1>3, <2>1, <2>3
  <2>4. CASE e.found # t
    <3>1. ix2[t] = ix[t] /\ (ix[t] = 0 \/ ix[t] \in 1..Len(es))
      BY <1>3, <2>4 DEF Indexes, IsLast
    <3>2. QED
      BY <1>2, <2>1, <2>2, <2>4, <3>1
  <2>5. QED
    BY <2>3, <2>4
<1>7. QED
  BY <1>2, <1>5, <1>6 DEF longer, ix2

Replaced(es, ix, e) == [es EXCEPT ![ix[e.found]] = e]

LEMMA ReplacedIndexed ==
  ASSUME NEW es, NEW ix, Indexes(es, ix), NEW e \in Entries, ix[e.found] # 0
  PROVE  /\ Indexes(Replaced(es, ix, e), ix)
         /\ Len(Replaced(es, ix, e)) = Len(es)
         /\ \A t \in Terms: Latest(Replaced(es, ix, e), t) =
                IF e.found = t THEN e.chose ELSE Latest(es, t)
<1> DEFINE pos == ix[e.found]
           other == [es EXCEPT ![pos] = e]
<1>1. es \in Seq(Entries) /\ ix \in [Terms -> Nat] /\ e.found \in Terms
  BY DEF Indexes, Entries
<1>2. pos \in 1..Len(es) /\ IsLast(es, e.found, pos) /\ es[pos].found = e.found
  BY <1>1 DEF Indexes, IsLast
<1> HIDE DEF pos
<1>3. /\ other \in Seq(Entries) /\ Len(other) = Len(es)
      /\ \A t \in Terms: \A n: IsLast(es, t, n) => IsLast(other, t, n)
  BY <1>1, <1>2, LastOfReplaced
<1>4. other[pos] = e /\ \A i \in 1..Len(es): i # pos => other[i] = es[i]
  BY <1>1, <1>2
<1> HIDE DEF other
<1>5. \A t \in Terms: IsLast(other, t, ix[t])
  BY <1>3 DEF Indexes
<1>6. Indexes(other, ix)
  BY <1>1, <1>3, <1>5 DEF Indexes
<1>7. ASSUME NEW t \in Terms
      PROVE  Latest(other, t) = IF e.found = t THEN e.chose ELSE Latest(es, t)
  <2>1. Latest(other, t) = IF ix[t] = 0 THEN None ELSE other[ix[t]].chose
    BY <1>3, <1>5, LatestIs
  <2>2. Latest(es, t) = IF ix[t] = 0 THEN None ELSE es[ix[t]].chose
    BY <1>1, LatestIs DEF Indexes
  <2>3. CASE e.found = t
    BY <1>2, <1>4, <2>1, <2>3 DEF pos
  <2>4. CASE e.found # t
    <3>1. ix[t] = 0 \/ (ix[t] \in 1..Len(es) /\ ix[t] # pos)
      BY <1>2, <2>4 DEF Indexes, IsLast
    <3>2. QED
      BY <1>4, <2>1, <2>2, <2>4, <3>1
  <2>5. QED
    BY <2>3, <2>4
<1>8. QED
  BY <1>3, <1>6, <1>7 DEF other, pos, Replaced

----------------------------------------------------------------------------
(* The inductive invariant *)

Busy == {"locked", "importing"}

Types ==
    /\ file \in {"missing", "valid", "bad"} /\ stored \in Seq(Entries)
    /\ lock \in Procs \cup {None}
    /\ at \in [Procs -> {"closed", "open", "resetting", "locked", "importing"}]
    /\ entries \in [Procs -> Seq(Entries)] /\ index \in [Procs -> [Terms -> Nat]]
    /\ oldEntries \in Seq(Entries) /\ oldIndex \in [Terms -> Nat]
    /\ changed \in BOOLEAN /\ left \in Nat /\ damage \in Nat
    /\ decided \in [Terms -> Decisions \cup {None}]
    /\ pending \in [Terms -> Decisions \cup {None}]
    /\ seen \in [Procs -> BOOLEAN] /\ tainted \in BOOLEAN

\* Who is at a mutation holds the lock, and the other way round.
LockInv == \A p \in Procs: at[p] \in Busy <=> lock = p

\* The index of a process finds what counts in its list, and so does the one an import
\* would go back to; an import that has changed nothing is where it began.
ListInv ==
    /\ \A p \in Procs: Indexes(entries[p], index[p])
    /\ Indexes(oldEntries, oldIndex)
    /\ \A p \in Procs: at[p] = "importing" /\ ~changed => entries[p] = oldEntries

CapInv == CapHolds /\ Len(oldEntries) <= MaxEntries

\* While nothing was lost, the file says what was decided last; who has read it holds what
\* it holds, or held it before the import it is at, whose list says what is pending.
SavedInv ==
    ~tainted =>
      /\ file # "bad"
      /\ \A t \in Terms: Latest(Kept, t) = decided[t]
      /\ \A p \in Procs: seen[p] =>
           /\ Before(p) = Kept
           /\ at[p] = "importing" => \A t \in Terms: Latest(entries[p], t) = pending[t]

IInv == Types /\ LockInv /\ ListInv /\ CapInv /\ SavedInv

LEMMA NoneTypes ==
  /\ <<>> \in Seq(Entries) /\ Len(<<>>) = 0 /\ NoPosition \in [Terms -> Nat]
  /\ NoDecision \in [Terms -> Decisions \cup {None}]
  /\ \A t \in Terms: Latest(<<>>, t) = NoDecision[t]
<1>1. <<>> \in Seq(Entries) /\ Len(<<>>) = 0
  OBVIOUS
<1>2. \A t \in Terms: Latest(<<>>, t) = None
  BY <1>1, LastOfNone, LatestIs
<1>3. QED
  BY <1>1, <1>2, EmptyIndexed DEF NoDecision

LEMMA KeptTypes == ASSUME Types PROVE Kept \in Seq(Entries)
BY NoneTypes DEF Types, Kept

LEMMA InitInv == Init => IInv
<1> SUFFICES ASSUME Init PROVE IInv
  OBVIOUS
<1>1. stored \in Seq(Entries) /\ Len(stored) <= MaxEntries /\ Kept = stored
  <2>1. CASE file = "valid"
    <3>1. PICK n \in 0..MaxEntries: stored \in [1..n -> Entries]
      BY <2>1 DEF Init
    <3>2. stored \in Seq(Entries) /\ Len(stored) = n
      BY <3>1
    <3>3. QED
      BY <2>1, <3>1, <3>2, MemoryAssumption DEF Kept
  <2>2. CASE file = "missing"
    BY <2>2, NoneTypes, MemoryAssumption DEF Init, Kept
  <2>3. QED
    BY <2>1, <2>2 DEF Init
<1>2. decided \in [Terms -> Decisions \cup {None}]
  <2>1. ASSUME NEW t \in Terms PROVE Latest(stored, t) \in Decisions \cup {None}
    <3>1. IsLast(stored, t, LastOf(stored, t))
      BY <1>1, LastOfIsLast
    <3>2. LastOf(stored, t) # 0 => stored[LastOf(stored, t)] \in Entries
      BY <1>1, <3>1 DEF IsLast
    <3>3. QED
      BY <3>2 DEF Latest, Entries
  <2>2. QED
    BY <2>1 DEF Init
<1>3. Types
  BY <1>1, <1>2, NoneTypes DEF Init, Types
<1>4. LockInv
  BY MemoryAssumption DEF Init, LockInv, Busy
<1>5. ListInv
  BY EmptyIndexed DEF Init, ListInv
<1>6. CapInv
  BY <1>1, NoneTypes, MemoryAssumption DEF Init, CapInv, CapHolds
<1>7. SavedInv
  BY <1>1 DEF Init, SavedInv
<1>8. QED
  BY <1>3, <1>4, <1>5, <1>6, <1>7 DEF IInv

\* A mutation that ends, saved or rolled back, keeps the invariant when both of its lists
\* are indexed and capped and what it saves says what it decides.
LEMMA FlushInv ==
  ASSUME IInv, NEW p \in Procs, at[p] \in Busy,
         NEW es, NEW ix, Indexes(es, ix), Len(es) <= MaxEntries,
         NEW oldEs, NEW oldIx, Indexes(oldEs, oldIx), oldEs = Before(p),
         NEW decisions \in [Terms -> Decisions \cup {None}],
         ~tainted /\ seen[p] => \A t \in Terms: Latest(es, t) = decisions[t],
         Flush(p, es, ix, oldEs, oldIx, decisions)
  PROVE  IInv'
<1>1. lock = p /\ \A q \in Procs: q # p => at[q] \notin Busy
  BY DEF IInv, LockInv
<1>2. /\ lock' = None /\ at' = [at EXCEPT ![p] = "open"] /\ damage' = damage
      /\ oldEntries' = <<>> /\ oldIndex' = NoPosition /\ changed' = FALSE
      /\ left' = 0 /\ pending' = NoDecision
  BY DEF Flush, Goto, NoImport
<1>3. \A q \in Procs: at'[q] \notin Busy /\ Before(q)' = entries'[q]
  BY <1>1, <1>2 DEF IInv, Types, Busy, Before
<1>4. LockInv'
  BY <1>2, <1>3, MemoryAssumption DEF LockInv
<1>5. /\ es \in Seq(Entries) /\ ix \in [Terms -> Nat]
      /\ oldEs \in Seq(Entries) /\ oldIx \in [Terms -> Nat] /\ Len(oldEs) <= MaxEntries
  BY DEF Indexes, IInv, CapInv, CapHolds, Before
<1>6. CASE /\ file' = "valid" /\ stored' = es /\ Hold(p, es, ix) /\ decided' = decisions
           /\ seen' = [q \in Procs |-> q = p] /\ tainted' = (tainted \/ ~seen[p])
  <2>1. entries' = [entries EXCEPT ![p] = es] /\ index' = [index EXCEPT ![p] = ix]
    BY <1>6 DEF Hold
  <2>2. Types'
    BY <1>2, <1>5, <1>6, <2>1, NoneTypes DEF IInv, Types
  <2>3. ListInv' /\ CapInv'
    BY <1>2, <1>3, <1>5, <1>6, <2>1, EmptyIndexed, NoneTypes, MemoryAssumption
       DEF IInv, Types, ListInv, CapInv, CapHolds, Busy
  <2>4. Kept' = es /\ entries'[p] = es
    BY <1>6, <2>1 DEF Kept, IInv, Types
  <2>5. SavedInv'
    BY <1>3, <1>6, <2>4 DEF SavedInv, Busy, IInv, Types
  <2>6. QED
    BY <1>4, <2>2, <2>3, <2>5 DEF IInv
<1>7. CASE Hold(p, oldEs, oldIx) /\ UNCHANGED <<file, stored, decided, seen, tainted>>
  <2>1. entries' = [entries EXCEPT ![p] = oldEs] /\ index' = [index EXCEPT ![p] = oldIx]
    BY <1>7 DEF Hold
  <2>2. Types'
    BY <1>2, <1>5, <1>7, <2>1, NoneTypes DEF IInv, Types
  <2>3. ListInv' /\ CapInv'
    BY <1>2, <1>3, <1>5, <1>7, <2>1, EmptyIndexed, NoneTypes, MemoryAssumption
       DEF IInv, Types, ListInv, CapInv, CapHolds, Busy
  <2>4. Kept' = Kept /\ \A q \in Procs: Before(q)' = Before(q)
    BY <1>1, <1>3, <1>7, <2>1 DEF Kept, Before, Busy, IInv, Types
  <2>5. SavedInv'
    BY <1>3, <1>7, <2>4 DEF SavedInv, Busy, IInv
  <2>6. QED
    BY <1>4, <2>2, <2>3, <2>5 DEF IInv
<1>8. QED
  BY <1>6, <1>7 DEF Flush

\* A mutation that returns before it writes; an import that changed nothing is one.
LEMMA UnlockInv ==
  ASSUME IInv, NEW p \in Procs, at[p] \in Busy, Before(p) = entries[p], Unlock(p)
  PROVE  IInv'
<1>1. lock = p /\ \A q \in Procs: q # p => at[q] \notin Busy
  BY DEF IInv, LockInv
<1>2. /\ lock' = None /\ at' = [at EXCEPT ![p] = "open"]
      /\ oldEntries' = <<>> /\ oldIndex' = NoPosition /\ changed' = FALSE
      /\ left' = 0 /\ pending' = NoDecision
      /\ UNCHANGED <<file, stored, entries, index, damage, decided, seen, tainted>>
  BY DEF Unlock, Goto, NoImport
<1>3. \A q \in Procs: at'[q] \notin Busy /\ Before(q)' = entries[q]
  BY <1>1, <1>2 DEF IInv, Types, Busy, Before
<1>4. \A q \in Procs: Before(q)' = Before(q)
  BY <1>1, <1>3 DEF Before, Busy
<1>5. LockInv'
  BY <1>2, <1>3, MemoryAssumption DEF LockInv
<1>6. Types'
  BY <1>2, NoneTypes DEF IInv, Types
<1>7. ListInv' /\ CapInv'
  BY <1>2, <1>3, EmptyIndexed, NoneTypes, MemoryAssumption
     DEF IInv, ListInv, CapInv, CapHolds, Busy
<1>8. SavedInv'
  BY <1>2, <1>3, <1>4 DEF IInv, SavedInv, Kept, Busy
<1>9. QED
  BY <1>5, <1>6, <1>7, <1>8 DEF IInv

----------------------------------------------------------------------------
(* The steps *)

LEMMA OpenStep ==
  ASSUME IInv, NEW p \in Procs, Open(p)
  PROVE  IInv'
<1>1. /\ at[p] \in {"closed", "open"}
      /\ UNCHANGED <<file, stored, lock, oldEntries, oldIndex, changed, left, pending,
                     damage, decided, tainted>>
  BY DEF Open, importVars
<1>2. lock # p
  BY <1>1 DEF IInv, LockInv, Busy
<1>3. Kept \in Seq(Entries) /\ Kept' = Kept /\ Len(Kept) <= MaxEntries
  BY <1>1, KeptTypes, NoneTypes, MemoryAssumption DEF Kept, IInv, CapInv, CapHolds
<1>4. CASE /\ entries' = [entries EXCEPT ![p] = Kept]
           /\ at' = [at EXCEPT ![p] = "open"] /\ seen' = [seen EXCEPT ![p] = TRUE]
           /\ \E ix: Indexes(Kept, ix) /\ index' = [index EXCEPT ![p] = ix]
  <2>1. PICK ix: Indexes(Kept, ix) /\ index' = [index EXCEPT ![p] = ix]
    BY <1>4
  <2>2. ix \in [Terms -> Nat]
    BY <2>1 DEF Indexes
  <2>3. Types'
    BY <1>1, <1>3, <1>4, <2>1, <2>2 DEF IInv, Types
  <2>4. LockInv'
    BY <1>1, <1>2, <1>4 DEF IInv, Types, LockInv, Busy
  <2>5. ListInv' /\ CapInv'
    BY <1>1, <1>3, <1>4, <2>1 DEF IInv, Types, ListInv, CapInv, CapHolds
  <2>6. \A q \in Procs: Before(q)' = IF q = p THEN Kept ELSE Before(q)
    BY <1>1, <1>4 DEF IInv, Types, Before
  <2>7. SavedInv'
    BY <1>1, <1>3, <1>4, <2>6 DEF IInv, Types, SavedInv
  <2>8. QED
    BY <2>3, <2>4, <2>5, <2>7 DEF IInv
<1>5. CASE file = "bad" /\ at' = [at EXCEPT ![p] = "resetting"]
           /\ UNCHANGED <<entries, index, seen>>
  <2>1. Types'
    BY <1>1, <1>5 DEF IInv, Types
  <2>2. LockInv'
    BY <1>1, <1>2, <1>5 DEF IInv, Types, LockInv, Busy
  <2>3. ListInv' /\ CapInv'
    BY <1>1, <1>5 DEF IInv, Types, ListInv, CapInv, CapHolds
  <2>4. SavedInv'
    BY <1>1, <1>5 DEF IInv, SavedInv
  <2>5. QED
    BY <2>1, <2>2, <2>3, <2>4 DEF IInv
<1>6. CASE file = "missing"
  <2>1. Kept = <<>>
    BY <1>6 DEF Kept
  <2>2. QED
    BY <1>4, <1>6, <2>1, EmptyIndexed DEF Open, Hold, Goto
<1>7. CASE file = "valid"
  <2>1. Kept = stored
    BY <1>7 DEF Kept
  <2>2. QED
    BY <1>3, <1>4, <1>7, <2>1, BuiltIndexed DEF Open, Hold, Goto
<1>8. CASE file = "bad"
  BY <1>5, <1>8 DEF Open, Goto
<1>9. QED
  BY <1>6, <1>7, <1>8 DEF IInv, Types

LEMMA ResetStep ==
  ASSUME IInv, NEW p \in Procs, Reset(p)
  PROVE  IInv'
<1>1. /\ at[p] = "resetting" /\ file' \in {"missing", file} /\ tainted' = TRUE
      /\ entries' = [entries EXCEPT ![p] = <<>>] /\ index' = [index EXCEPT ![p] = NoPosition]
      /\ seen' = [q \in Procs |-> FALSE] /\ at' = [at EXCEPT ![p] = "open"]
      /\ UNCHANGED <<stored, lock, oldEntries, oldIndex, changed, left, pending, damage,
                     decided>>
  BY DEF Reset, Hold, Goto, importVars
<1>2. Types'
  BY <1>1, NoneTypes DEF IInv, Types
<1>3. LockInv'
  BY <1>1 DEF IInv, Types, LockInv, Busy
<1>4. ListInv' /\ CapInv'
  BY <1>1, EmptyIndexed, NoneTypes, MemoryAssumption
     DEF IInv, Types, ListInv, CapInv, CapHolds
<1>5. SavedInv'
  BY <1>1 DEF SavedInv
<1>6. QED
  BY <1>2, <1>3, <1>4, <1>5 DEF IInv

LEMMA LockStep ==
  ASSUME IInv, NEW p \in Procs, Lock(p)
  PROVE  IInv'
<1>1. /\ at[p] = "open" /\ lock = None /\ lock' = p /\ at' = [at EXCEPT ![p] = "locked"]
      /\ UNCHANGED <<file, stored, entries, index, oldEntries, oldIndex, changed, left,
                     pending, damage, decided, seen, tainted>>
  BY DEF Lock, Goto, importVars
<1>2. Types'
  BY <1>1 DEF IInv, Types
<1>3. LockInv'
  BY <1>1, MemoryAssumption DEF IInv, Types, LockInv, Busy
<1>4. ListInv' /\ CapInv'
  BY <1>1 DEF IInv, Types, ListInv, CapInv, CapHolds
<1>5. SavedInv'
  BY <1>1 DEF IInv, Types, SavedInv, Kept, Before
<1>6. QED
  BY <1>2, <1>3, <1>4, <1>5 DEF IInv

LEMMA RecordStep ==
  ASSUME IInv, NEW p \in Procs, NEW e \in Entries, Record(p, e)
  PROVE  IInv'
<1> DEFINE es == entries[p]
           ix == index[p]
           decisions == [decided EXCEPT ![e.found] = e.chose]
<1>1. at[p] = "locked" /\ at[p] \in Busy /\ Before(p) = es
  BY DEF Record, Busy, Before
<1>2. /\ Indexes(es, ix) /\ es \in Seq(Entries) /\ ix \in [Terms -> Nat]
      /\ Len(es) \in Nat /\ Len(es) <= MaxEntries
      /\ e.found \in Terms /\ e.chose \in Decisions
  <2>1. e.found \in Terms /\ e.chose \in Decisions
    BY DEF Entries
  <2>2. Indexes(es, ix) /\ Len(es) <= MaxEntries
    BY DEF IInv, ListInv, CapInv, CapHolds
  <2>3. Len(es) \in Nat
    BY <2>2 DEF Indexes
  <2>4. QED
    BY <2>1, <2>2, <2>3 DEF Indexes
<1>3. /\ decisions \in [Terms -> Decisions \cup {None}]
      /\ \A t \in Terms: decisions[t] = IF e.found = t THEN e.chose ELSE decided[t]
  BY <1>2 DEF IInv, Types
<1>4. ~tainted /\ seen[p] => \A t \in Terms: Latest(es, t) = decided[t]
  BY <1>1 DEF IInv, SavedInv
<1> HIDE DEF es, ix, decisions
<1>5. CASE Full(p, e.found) /\ Unlock(p)
  BY <1>1, <1>5, UnlockInv DEF es
<1>6. CASE /\ ix[e.found] = 0 /\ ~Full(p, e.found)
           /\ Flush(p, Append(es, e), [ix EXCEPT ![e.found] = Len(es) + 1], es,
                    Unpushed([ix EXCEPT ![e.found] = Len(es) + 1], e.found), decisions)
  <2>1. Unpushed([ix EXCEPT ![e.found] = Len(es) + 1], e.found) = ix
    BY <1>2, <1>6 DEF Unpushed
  <2>2. /\ Indexes(Append(es, e), [ix EXCEPT ![e.found] = Len(es) + 1])
        /\ Len(Append(es, e)) = Len(es) + 1
        /\ \A t \in Terms: Latest(Append(es, e), t) =
               IF e.found = t THEN e.chose ELSE Latest(es, t)
    BY <1>2, <1>6, Added
  <2>3. Len(Append(es, e)) <= MaxEntries
    BY <1>2, <1>6, <2>2, MemoryAssumption DEF Full, es, ix
  <2>4. ~tainted /\ seen[p] => \A t \in Terms: Latest(Append(es, e), t) = decisions[t]
    BY <1>3, <1>4, <2>2
  <2>5. QED
    BY <1>1, <1>2, <1>3, <1>6, <2>1, <2>2, <2>3, <2>4, FlushInv
<1>7. CASE /\ ix[e.found] # 0
           /\ Flush(p, Replaced(es, ix, e), ix, es, ix, decisions)
  <2>1. /\ Indexes(Replaced(es, ix, e), ix)
        /\ Len(Replaced(es, ix, e)) = Len(es)
        /\ \A t \in Terms: Latest(Replaced(es, ix, e), t) =
               IF e.found = t THEN e.chose ELSE Latest(es, t)
    BY <1>2, <1>7, ReplacedIndexed
  <2>2. ~tainted /\ seen[p]
          => \A t \in Terms: Latest(Replaced(es, ix, e), t) = decisions[t]
    BY <1>3, <1>4, <2>1
  <2>3. QED
    BY <1>1, <1>2, <1>3, <1>7, <2>1, <2>2, FlushInv
<1>8. QED
  BY <1>5, <1>6, <1>7 DEF Record, Replaced, es, ix, decisions

LEMMA ClearStep ==
  ASSUME IInv, NEW p \in Procs, Clear(p)
  PROVE  IInv'
<1>1. at[p] \in Busy /\ Before(p) = entries[p]
  BY DEF Clear, Busy, Before
<1>2. Indexes(entries[p], index[p])
  BY DEF IInv, ListInv
<1>3. Len(<<>>) <= MaxEntries
  BY NoneTypes, MemoryAssumption
<1>4. Flush(p, <<>>, NoPosition, entries[p], index[p], NoDecision)
  BY DEF Clear
<1>5. QED
  BY <1>1, <1>2, <1>3, <1>4, EmptyIndexed, NoneTypes, FlushInv

LEMMA StartImportStep ==
  ASSUME IInv, NEW p \in Procs, StartImport(p)
  PROVE  IInv'
<1>1. at[p] = "locked" /\ at[p] \in Busy /\ Before(p) = entries[p] /\ lock = p
  BY DEF StartImport, Busy, Before, IInv, LockInv
<1>2. CASE Unlock(p)
  BY <1>1, <1>2, UnlockInv
<1>3. CASE /\ at' = [at EXCEPT ![p] = "importing"]
           /\ oldEntries' = entries[p] /\ oldIndex' = index[p] /\ changed' = FALSE
           /\ left' = MaxImport /\ pending' = decided
           /\ UNCHANGED <<file, stored, lock, entries, index, damage, decided, seen, tainted>>
  <2>1. Types'
    BY <1>3, MemoryAssumption DEF IInv, Types
  <2>2. LockInv'
    BY <1>1, <1>3 DEF IInv, Types, LockInv, Busy
  <2>3. ListInv' /\ CapInv'
    BY <1>1, <1>3 DEF IInv, Types, ListInv, CapInv, CapHolds, LockInv, Busy
  <2>4. \A q \in Procs: q # p => at[q] \notin Busy
    BY <1>1 DEF IInv, LockInv
  <2>5. \A q \in Procs: Before(q)' = Before(q)
    BY <1>1, <1>3, <2>4 DEF IInv, Types, Before, Busy
  <2>6. SavedInv'
    BY <1>1, <1>3, <2>4, <2>5 DEF IInv, Types, SavedInv, Kept, Busy
  <2>7. QED
    BY <2>1, <2>2, <2>3, <2>6 DEF IInv
<1>4. QED
  BY <1>2, <1>3 DEF StartImport, Goto

\* An imported entry changes the list in memory, and what is pending with it.
LEMMA HeldInv ==
  ASSUME IInv, NEW p \in Procs, at[p] = "importing", NEW e \in Entries,
         NEW es, NEW ix, Indexes(es, ix), Len(es) <= MaxEntries,
         \A t \in Terms: Latest(es, t) =
             IF e.found = t THEN e.chose ELSE Latest(entries[p], t),
         Hold(p, es, ix), Made(e), left' \in Nat,
         UNCHANGED <<file, stored, lock, at, oldEntries, oldIndex, damage, decided, seen,
                     tainted>>
  PROVE  IInv'
<1>1. /\ entries' = [entries EXCEPT ![p] = es] /\ index' = [index EXCEPT ![p] = ix]
      /\ changed' = TRUE /\ pending' = [pending EXCEPT ![e.found] = e.chose]
      /\ es \in Seq(Entries) /\ ix \in [Terms -> Nat]
      /\ e.found \in Terms /\ e.chose \in Decisions
  BY DEF Hold, Made, Indexes, Entries
<1>2. /\ pending' \in [Terms -> Decisions \cup {None}]
      /\ \A t \in Terms: pending'[t] = IF e.found = t THEN e.chose ELSE pending[t]
  BY <1>1 DEF IInv, Types
<1>3. Types'
  BY <1>1, <1>2 DEF IInv, Types
<1>4. LockInv' /\ ListInv' /\ CapInv'
  BY <1>1 DEF IInv, Types, LockInv, ListInv, CapInv, CapHolds
<1>5. \A q \in Procs: /\ Before(q)' = Before(q)
                      /\ q # p => at[q] # "importing"
                      /\ entries'[q] = IF q = p THEN es ELSE entries[q]
  BY <1>1 DEF IInv, Types, Before, LockInv, Busy
<1>6. SavedInv'
  BY <1>2, <1>5 DEF IInv, SavedInv, Kept
<1>7. QED
  BY <1>3, <1>4, <1>6 DEF IInv

LEMMA ImportEntryStep ==
  ASSUME IInv, NEW p \in Procs, NEW e \in Entries, ImportEntry(p, e)
  PROVE  IInv'
<1> DEFINE es == entries[p]
           ix == index[p]
<1>1. /\ at[p] = "importing" /\ left' = left - 1 /\ left > 0
      /\ UNCHANGED <<file, stored, lock, at, oldEntries, oldIndex, damage, decided, seen,
                     tainted>>
  BY DEF ImportEntry
<1>2. left' \in Nat
  BY <1>1 DEF IInv, Types
<1>3. Indexes(es, ix) /\ Len(es) <= MaxEntries /\ Len(es) \in Nat
  <2>1. Indexes(es, ix) /\ Len(es) <= MaxEntries
    BY DEF IInv, ListInv, CapInv, CapHolds
  <2>2. QED
    BY <2>1 DEF Indexes
<1>4. CASE ix[e.found] # 0 /\ Update(p, e)
  <2>1. Made(e) /\ Hold(p, Replaced(es, ix, e), ix)
    BY <1>4 DEF Update, Replaced
  <2> HIDE DEF es, ix
  <2>2. /\ Indexes(Replaced(es, ix, e), ix) /\ Len(Replaced(es, ix, e)) = Len(es)
        /\ \A t \in Terms: Latest(Replaced(es, ix, e), t) =
               IF e.found = t THEN e.chose ELSE Latest(es, t)
    BY <1>3, <1>4, ReplacedIndexed
  <2>3. QED
    BY <1>1, <1>2, <1>3, <2>1, <2>2, HeldInv DEF es
<1>5. CASE ix[e.found] = 0 /\ ~Full(p, e.found) /\ Add(p, e)
  <2>1. Made(e) /\ Hold(p, Append(es, e), [ix EXCEPT ![e.found] = Len(es) + 1])
    BY <1>5 DEF Add
  <2>2. Len(es) + 1 <= MaxEntries
    BY <1>3, <1>5, MemoryAssumption DEF Full
  <2> HIDE DEF es, ix
  <2>3. /\ Indexes(Append(es, e), [ix EXCEPT ![e.found] = Len(es) + 1])
        /\ Len(Append(es, e)) = Len(es) + 1
        /\ \A t \in Terms: Latest(Append(es, e), t) =
               IF e.found = t THEN e.chose ELSE Latest(es, t)
    BY <1>3, <1>5, Added
  <2>4. QED
    BY <1>1, <1>2, <2>1, <2>2, <2>3, HeldInv DEF es
<1>6. CASE UNCHANGED <<entries, index, changed, pending>>
  <2>1. Types' /\ LockInv' /\ ListInv' /\ CapInv'
    BY <1>1, <1>2, <1>6 DEF IInv, Types, LockInv, ListInv, CapInv, CapHolds
  <2>2. SavedInv'
    BY <1>1, <1>6 DEF IInv, SavedInv, Kept, Before
  <2>3. QED
    BY <2>1, <2>2 DEF IInv
<1>7. QED
  BY <1>4, <1>5, <1>6 DEF ImportEntry

LEMMA FinishImportStep ==
  ASSUME IInv, NEW p \in Procs, FinishImport(p)
  PROVE  IInv'
<1>1. at[p] = "importing" /\ at[p] \in Busy /\ Before(p) = oldEntries
  BY DEF FinishImport, Busy, Before
<1>2. CASE changed
  <2>1. Flush(p, entries[p], index[p], oldEntries, oldIndex, pending)
    BY <1>2 DEF FinishImport
  <2>2. /\ Indexes(entries[p], index[p]) /\ Len(entries[p]) <= MaxEntries
        /\ Indexes(oldEntries, oldIndex) /\ pending \in [Terms -> Decisions \cup {None}]
    BY DEF IInv, Types, ListInv, CapInv, CapHolds
  <2>3. ~tainted /\ seen[p] => \A t \in Terms: Latest(entries[p], t) = pending[t]
    BY <1>1 DEF IInv, SavedInv
  <2>4. QED
    BY <1>1, <2>1, <2>2, <2>3, FlushInv
<1>3. CASE ~changed
  <2>1. Unlock(p) /\ Before(p) = entries[p]
    BY <1>1, <1>3 DEF FinishImport, IInv, ListInv
  <2>2. QED
    BY <1>1, <2>1, UnlockInv
<1>4. QED
  BY <1>2, <1>3 DEF FinishImport

LEMMA ExitStep ==
  ASSUME IInv, NEW p \in Procs, Exit(p)
  PROVE  IInv'
<1>1. /\ at' = [at EXCEPT ![p] = "closed"] /\ entries' = [entries EXCEPT ![p] = <<>>]
      /\ index' = [index EXCEPT ![p] = NoPosition] /\ seen' = [seen EXCEPT ![p] = FALSE]
      /\ UNCHANGED <<file, stored, damage, decided, tainted>>
  BY DEF Exit, Goto, Hold
<1>2. CASE lock = p
  <2>1. lock' = None /\ oldEntries' = <<>> /\ oldIndex' = NoPosition /\ changed' = FALSE
        /\ left' = 0 /\ pending' = NoDecision
    BY <1>2 DEF Exit, NoImport
  <2>2. \A q \in Procs: q # p => at[q] \notin Busy
    BY <1>2 DEF IInv, LockInv
  <2>3. Types'
    BY <1>1, <2>1, NoneTypes DEF IInv, Types
  <2>4. LockInv'
    BY <1>1, <2>1, <2>2, MemoryAssumption DEF IInv, Types, LockInv, Busy
  <2>5. ListInv' /\ CapInv'
    BY <1>1, <2>1, <2>2, EmptyIndexed, NoneTypes, MemoryAssumption
       DEF IInv, Types, ListInv, CapInv, CapHolds, Busy
  <2>6. SavedInv'
    BY <1>1, <2>1, <2>2 DEF IInv, Types, SavedInv, Kept, Before, Busy
  <2>7. QED
    BY <2>3, <2>4, <2>5, <2>6 DEF IInv
<1>3. CASE lock # p
  <2>1. UNCHANGED <<lock, oldEntries, oldIndex, changed, left, pending>>
    BY <1>3 DEF Exit, importVars
  <2>2. Types'
    BY <1>1, <2>1, NoneTypes DEF IInv, Types
  <2>3. LockInv'
    BY <1>1, <1>3, <2>1 DEF IInv, Types, LockInv, Busy
  <2>4. ListInv' /\ CapInv'
    BY <1>1, <2>1, EmptyIndexed, NoneTypes, MemoryAssumption
       DEF IInv, Types, ListInv, CapInv, CapHolds
  <2>5. SavedInv'
    BY <1>1, <2>1 DEF IInv, Types, SavedInv, Kept, Before
  <2>6. QED
    BY <2>2, <2>3, <2>4, <2>5 DEF IInv
<1>4. QED
  BY <1>2, <1>3

LEMMA DamageStep ==
  ASSUME IInv, Damage
  PROVE  IInv'
<1>1. /\ file' \in {"missing", "bad"} /\ damage' = damage + 1 /\ tainted' = TRUE
      /\ seen' = [p \in Procs |-> FALSE]
      /\ UNCHANGED <<stored, lock, at, entries, index, oldEntries, oldIndex, changed, left,
                     pending, decided>>
  BY DEF Damage, importVars
<1>2. Types'
  BY <1>1 DEF IInv, Types
<1>3. LockInv' /\ ListInv' /\ CapInv'
  BY <1>1 DEF IInv, LockInv, ListInv, CapInv, CapHolds
<1>4. SavedInv'
  BY <1>1 DEF SavedInv
<1>5. QED
  BY <1>2, <1>3, <1>4 DEF IInv

LEMMA StepInv == IInv /\ Next => IInv'
BY OpenStep, ResetStep, LockStep, RecordStep, ClearStep, StartImportStep, ImportEntryStep,
   FinishImportStep, ExitStep, DamageStep DEF Next

----------------------------------------------------------------------------
(* The theorems *)

\* One process at a time is at a mutation, every index finds the last entry for each term,
\* no list is over the cap, a process has what the file has or had it before its import,
\* and the file has what was decided.
THEOREM Inductive == Spec => []IInv
<1>1. IInv /\ UNCHANGED vars => IInv'
  <2> SUFFICES ASSUME IInv, UNCHANGED vars PROVE IInv'
    OBVIOUS
  <2>1. Types' /\ LockInv'
    BY DEF IInv, Types, LockInv, vars, importVars
  <2>2. ListInv' /\ CapInv' /\ SavedInv'
    BY DEF IInv, ListInv, CapInv, CapHolds, SavedInv, Kept, Before, vars, importVars
  <2>3. QED
    BY <2>1, <2>2 DEF IInv
<1>2. QED
  BY InitInv, StepInv, <1>1, PTL DEF Spec

\* Each variable keeps its type.
THEOREM TypeCorrect == Spec => []TypeOK
<1>1. IInv => TypeOK
  BY DEF IInv, Types, TypeOK
<1>2. QED
  BY Inductive, <1>1, PTL

\* should_suppress answers from the index: after every record, import, refusal, rollback
\* and reload, and in the middle of an import, it names the last entry of each term.
THEOREM IndexAlwaysFindsLatest == Spec => []IndexFindsLatest
<1>1. IInv => IndexFindsLatest
  <2> SUFFICES ASSUME IInv, NEW p \in Procs, NEW t \in Terms
               PROVE  index[p][t] = LastOf(entries[p], t)
    BY DEF IndexFindsLatest
  <2>1. entries[p] \in Seq(Entries) /\ IsLast(entries[p], t, index[p][t])
    BY DEF IInv, ListInv, Indexes
  <2>2. QED
    BY <2>1, LastOfIsLast, LastIsOne
<1>2. QED
  BY Inductive, <1>1, PTL

\* TM_MAX_ENTRIES: neither recording nor importing takes a list past the cap.
THEOREM CapAlwaysHolds == Spec => []CapHolds
<1>1. IInv => CapHolds
  BY DEF IInv, CapInv
<1>2. QED
  BY Inductive, <1>1, PTL

\* As long as every writer had read what it replaced and nobody damages the file, no
\* decision on any term is lost, whatever writes fail and whoever dies.
THEOREM FreshWritersNeverLose == Spec => []FreshWritersLoseNothing
<1>1. IInv => FreshWritersLoseNothing
  BY DEF IInv, SavedInv, FreshWritersLoseNothing
<1>2. QED
  BY Inductive, <1>1, PTL

\* record, clear and import: an operation that returns leaves memory as it saved it, or as
\* it was when the operation took the lock.
THEOREM MemoryAlwaysSaved == Spec => MemoryIsSaved
<1> DEFINE Settles(p) == \/ entries'[p] = Before(p)
                         \/ file' = "valid" /\ entries'[p] = stored'
           Saved == \A p \in Procs: at[p] \in Busy /\ at'[p] = "open" => Settles(p)
<1>1. IInv /\ [Next]_vars => [Saved]_vars
  <2> SUFFICES ASSUME IInv, Next, NEW p \in Procs, at[p] \in Busy, at'[p] = "open"
               PROVE  Settles(p)
    OBVIOUS
  <2>1. at[p] # at'[p] /\ at[p] \notin {"closed", "open", "resetting"}
    BY DEF Busy
  <2>2. ASSUME NEW es, NEW ix, NEW oldIx, NEW decisions,
               Flush(p, es, ix, Before(p), oldIx, decisions)
        PROVE  Settles(p)
    BY <2>2 DEF Flush, Hold, IInv, Types
  <2>3. CASE Unlock(p) /\ Before(p) = entries[p]
    BY <2>3 DEF Unlock
  <2>4. ASSUME NEW q \in Procs, q # p PROVE at'[p] # at[p] => ~(Open(q) \/ Reset(q) \/ Lock(q)
          \/ Clear(q) \/ Exit(q) \/ StartImport(q) \/ FinishImport(q)
          \/ \E e \in Entries: Record(q, e) \/ ImportEntry(q, e))
    BY <2>4 DEF Open, Reset, Lock, Clear, Exit, StartImport, FinishImport, Record,
                ImportEntry, Flush, Unlock, Goto, IInv, Types
  <2>5. ~Damage /\ ~Open(p) /\ ~Reset(p) /\ ~Lock(p) /\ ~Exit(p)
        /\ \A e \in Entries: ~ImportEntry(p, e)
    BY <2>1 DEF Damage, Open, Reset, Lock, Exit, ImportEntry, Goto, IInv, Types
  <2>6. CASE Clear(p)
    BY <2>2, <2>6 DEF Clear, Before
  <2>7. CASE StartImport(p)
    BY <2>3, <2>7 DEF StartImport, Goto, Before, IInv, Types
  <2>8. CASE FinishImport(p)
    BY <2>2, <2>3, <2>8 DEF FinishImport, Before, IInv, ListInv
  <2>9. ASSUME NEW e \in Entries, Record(p, e)
        PROVE  Settles(p)
    BY <2>2, <2>3, <2>9 DEF Record, Before
  <2>10. QED
    BY <2>1, <2>4, <2>5, <2>6, <2>7, <2>8, <2>9 DEF Next
<1>2. QED
  BY Inductive, <1>1, PTL DEF Spec, MemoryIsSaved, Busy

----------------------------------------------------------------------------
(* OverrideStore *)

Mutating == {"locked", "editing", "editing_blind"}

\* Who is at a mutation holds the lock, and the other way round.
EditorInv == \A p \in Programs: place[p] \in Mutating <=> holder = p

\* What was re-read is what is stored, unless an open has replaced the file since.
RereadInv == \A p \in Programs: place[p] = "editing" /\ overtaken # p => mem[p] = onDisk

OverrideInv == StoreTypeOK /\ EditorInv /\ RereadInv

LEMMA EmptyIsContents == Empty \in Contents
BY DEF Empty, Contents

LEMMA OverrideInitInv == StoreInit => OverrideInv
<1> SUFFICES ASSUME StoreInit PROVE OverrideInv
  OBVIOUS
<1>1. StoreTypeOK
  BY EmptyIsContents DEF StoreInit, StoreTypeOK
<1>2. EditorInv /\ RereadInv
  BY OverrideAssumption DEF StoreInit, EditorInv, RereadInv, Mutating
<1>3. QED
  BY <1>1, <1>2 DEF OverrideInv

\* A mutation that ends gives up the lock, and leaves the written content or what was
\* there.
LEMMA FlushedInv ==
  ASSUME OverrideInv, NEW p \in Programs, place[p] \in Mutating, NEW written \in Contents,
         Flushed(p, written)
  PROVE  OverrideInv'
<1>1. /\ holder = p /\ \A q \in Programs: q # p => place[q] \notin Mutating
  BY DEF OverrideInv, EditorInv
<1>2. /\ holder' = Nothing /\ place' = [place EXCEPT ![p] = "idle"]
      /\ UNCHANGED <<up, losses, overtaken>>
      /\ \/ json' = "valid" /\ onDisk' = written /\ mem' = [mem EXCEPT ![p] = written]
         \/ UNCHANGED <<json, onDisk, mem>>
  BY DEF Flushed, Move, Remember
<1>3. \A q \in Programs: place'[q] \notin Mutating
  BY <1>1, <1>2 DEF OverrideInv, StoreTypeOK, Mutating
<1>4. StoreTypeOK'
  BY <1>2 DEF OverrideInv, StoreTypeOK
<1>5. EditorInv'
  BY <1>2, <1>3, OverrideAssumption DEF EditorInv
<1>6. RereadInv'
  BY <1>3 DEF RereadInv, Mutating
<1>7. QED
  BY <1>4, <1>5, <1>6 DEF OverrideInv

\* The contents a mutation may write.
LEMMA EditIsContents ==
  ASSUME OverrideInv, NEW p \in Programs, NEW k \in Keys, NEW v \in Values \cup {Nothing}
  PROVE  [mem[p] EXCEPT ![k] = v] \in Contents
BY DEF OverrideInv, StoreTypeOK, Contents

LEMMA OverrideStepInv ==
  ASSUME OverrideInv, StoreNext
  PROVE  OverrideInv'
<1>1. ASSUME NEW p \in Programs, OpenCheck(p) \/ OpenRead(p) \/ OpenReset(p)
                                \/ OpenCreate(p)
      PROVE  OverrideInv'
  <2>1. /\ place[p] \notin Mutating /\ holder # p /\ UNCHANGED <<holder, losses>>
        /\ place' \in [Programs -> {"idle", "reading", "creating", "resetting"} \cup Mutating]
        /\ place'[p] \notin Mutating /\ \A q \in Programs: q # p => place'[q] = place[q]
    BY <1>1 DEF OpenCheck, OpenRead, OpenReset, OpenCreate, Move, OverrideInv,
                StoreTypeOK, EditorInv, Mutating
  <2>2. StoreTypeOK'
    BY <1>1, EmptyIsContents
       DEF OpenCheck, OpenRead, OpenReset, OpenCreate, Move, Remember,
           OverrideInv, StoreTypeOK
  <2>3. EditorInv'
    BY <2>1 DEF OverrideInv, EditorInv
  <2>4. RereadInv'
    <3>1. SUFFICES ASSUME NEW q \in Programs, place'[q] = "editing", overtaken' # q
                   PROVE  mem'[q] = onDisk'
      BY DEF RereadInv
    <3>2. q # p /\ place[q] = "editing" /\ holder = q
      BY <2>1, <3>1 DEF OverrideInv, EditorInv, Mutating
    <3>3. mem'[q] = mem[q]
      BY <1>1, <3>2
         DEF OpenCheck, OpenRead, OpenReset, OpenCreate, Remember, OverrideInv,
                StoreTypeOK
    <3>4. onDisk' = onDisk /\ overtaken' = overtaken
      BY <1>1, <3>1, <3>2 DEF OpenCheck, OpenRead, OpenReset, OpenCreate
    <3>5. QED
      BY <3>1, <3>2, <3>3, <3>4 DEF OverrideInv, RereadInv
  <2>5. QED
    BY <2>2, <2>3, <2>4 DEF OverrideInv
<1>2. ASSUME NEW p \in Programs, Acquire(p)
      PROVE  OverrideInv'
  BY <1>2, OverrideAssumption DEF Acquire, Move, OverrideInv, StoreTypeOK, EditorInv,
         RereadInv, Mutating
<1>3. ASSUME NEW p \in Programs, Reread(p)
      PROVE  OverrideInv'
  <2>1. holder = p /\ \A q \in Programs: q # p => place[q] \notin Mutating
    BY <1>3 DEF Reread, OverrideInv, EditorInv, Mutating
  <2>2. StoreTypeOK'
    BY <1>3 DEF Reread, Move, Remember, OverrideInv, StoreTypeOK
  <2>3. EditorInv'
    BY <1>3, <2>1 DEF Reread, Move, OverrideInv, StoreTypeOK, EditorInv, Mutating
  <2>4. RereadInv'
    BY <1>3, <2>1 DEF Reread, Move, Remember, OverrideInv, StoreTypeOK, RereadInv,
           Mutating
  <2>5. QED
    BY <2>2, <2>3, <2>4 DEF OverrideInv
<1>4. ASSUME NEW p \in Programs, ClearOverrides(p)
      PROVE  OverrideInv'
  BY <1>4, FlushedInv, EmptyIsContents DEF ClearOverrides, Mutating
<1>5. ASSUME NEW p \in Programs, NEW k \in Keys, Delete(p, k)
      PROVE  OverrideInv'
  <2>1. place[p] \in Mutating
    BY <1>5 DEF Delete, Mutating
  <2>2. CASE mem[p][k] = Nothing
    <3>1. holder = p /\ \A q \in Programs: q # p => place[q] \notin Mutating
      BY <2>1 DEF OverrideInv, EditorInv
    <3>2. /\ holder' = Nothing /\ place' = [place EXCEPT ![p] = "idle"]
          /\ UNCHANGED <<json, onDisk, up, mem, losses, overtaken>>
      BY <1>5, <2>2 DEF Delete, Move
    <3>3. QED
      BY <3>1, <3>2, OverrideAssumption DEF OverrideInv, StoreTypeOK, EditorInv, RereadInv,
             Mutating
  <2>3. CASE mem[p][k] # Nothing
    BY <1>5, <2>1, <2>3, FlushedInv, EditIsContents DEF Delete
  <2>4. QED
    BY <2>2, <2>3
<1>6. ASSUME NEW p \in Programs, NEW k \in Keys, NEW v \in Values, Upsert(p, k, v)
      PROVE  OverrideInv'
  BY <1>6, FlushedInv, EditIsContents DEF Upsert, Mutating
<1>7. ASSUME NEW p \in Programs, Crash(p)
      PROVE  OverrideInv'
  <2>1. /\ place' = [place EXCEPT ![p] = "idle"] /\ mem' = [mem EXCEPT ![p] = Empty]
        /\ holder' = IF holder = p THEN Nothing ELSE holder
        /\ up' = [up EXCEPT ![p] = FALSE]
        /\ UNCHANGED <<json, onDisk, losses, overtaken>>
    BY <1>7 DEF Crash
  <2>2. StoreTypeOK'
    BY <2>1, EmptyIsContents DEF OverrideInv, StoreTypeOK
  <2>3. EditorInv'
    BY <2>1, OverrideAssumption DEF OverrideInv, StoreTypeOK, EditorInv, Mutating
  <2>4. RereadInv'
    BY <2>1 DEF OverrideInv, StoreTypeOK, RereadInv
  <2>5. QED
    BY <2>2, <2>3, <2>4 DEF OverrideInv
<1>8. ASSUME DamageFile
      PROVE  OverrideInv'
  BY <1>8 DEF DamageFile, OverrideInv, StoreTypeOK, EditorInv, RereadInv
<1>9. QED
  BY <1>1, <1>2, <1>3, <1>4, <1>5, <1>6, <1>7, <1>8 DEF StoreNext

\* The lock has one holder, who between re-reading and writing remembers what is stored,
\* unless an open without the lock has replaced the file.
THEOREM OverrideInductive == StoreSpec => []OverrideInv
<1>1. OverrideInv /\ UNCHANGED storeVars => OverrideInv'
  BY DEF storeVars, OverrideInv, StoreTypeOK, EditorInv, RereadInv
<1>2. OverrideInv /\ StoreNext => OverrideInv'
  BY OverrideStepInv
<1>3. QED
  BY OverrideInitInv, <1>1, <1>2, PTL DEF StoreSpec

\* Each variable keeps its type.
THEOREM OverrideTypeCorrect == StoreSpec => []StoreTypeOK
<1>1. OverrideInv => StoreTypeOK
  BY DEF OverrideInv
<1>2. QED
  BY OverrideInductive, <1>1, PTL

\* with_overrides edits what the file holds: its snapshot is the file's content while
\* nobody acts on a missing or damaged file.
THEOREM AlwaysEditsWhatIsThere == StoreSpec => []EditsWhatIsThere
<1>1. OverrideInv => EditsWhatIsThere
  <2> SUFFICES ASSUME OverrideInv, NEW p \in Programs, Settled, place[p] = "editing"
               PROVE  mem[p] = onDisk
    BY DEF EditsWhatIsThere
  <2>1. holder = p
    BY DEF OverrideInv, EditorInv, Mutating
  <2>2. overtaken # p
    BY <2>1, OverrideAssumption DEF Settled
  <2>3. QED
    BY <2>2 DEF OverrideInv, RereadInv
<1>2. QED
  BY OverrideInductive, <1>1, PTL

----------------------------------------------------------------------------
(* The refinement *)

\* A step that leaves the content alone at most settles or unsettles it.
LEMMA SameContentRefines ==
  ASSUME OverrideInv, UNCHANGED onDisk
  PROVE  [Store!Next]_(Store!vars)
<1>1. CASE Settled /\ ~Settled'
  <2>1. Settled' = FALSE
    BY <1>1
  <2>2. Store!Unsettle
    BY <2>1 DEF Store!Unsettle
  <2>3. QED
    BY <2>2 DEF Store!Next
<1>2. CASE ~Settled
  <2>1. onDisk' \in Store!Contents
    BY DEF OverrideInv, StoreTypeOK, Contents, Store!Contents
  <2>2. Settled' \in BOOLEAN
    BY Zenon DEF Settled
  <2>3. Store!Recover
    BY <1>2, <2>1, <2>2 DEF Store!Recover
  <2>4. QED
    BY <2>3 DEF Store!Next
<1>3. CASE Settled /\ Settled'
  <2>1. Settled' = Settled
    BY <1>3, Zenon DEF Settled
  <2>2. QED
    BY <2>1 DEF Store!vars
<1>4. QED
  BY <1>1, <1>2, <1>3

\* Whatever becomes of an unsettled content is a recovery.
LEMMA UnsettledRefines ==
  ASSUME ~Settled, onDisk' \in Contents
  PROVE  Store!Next
<1>1. onDisk' \in Store!Contents
  BY DEF Contents, Store!Contents
<1>2. Settled' \in BOOLEAN
  BY Zenon DEF Settled
<1>3. QED
  BY <1>1, <1>2 DEF Store!Next, Store!Recover

\* A write is one edit of what is there.
LEMMA FlushedRefines ==
  ASSUME OverrideInv, OverrideInv', NEW p \in Programs, place[p] \in Mutating, NEW written,
         Flushed(p, written),
         Settled => \/ \E k \in Keys, v \in Values \cup {Nothing}:
                         written = [onDisk EXCEPT ![k] = v]
                  \/ written = Empty
  PROVE  [Store!Next]_(Store!vars)
<1>1. CASE UNCHANGED onDisk
  BY <1>1, SameContentRefines
<1>2. CASE ~Settled
  BY <1>2, UnsettledRefines DEF OverrideInv, StoreTypeOK
<1>3. CASE Settled /\ json' = "valid" /\ onDisk' = written
  <2>1. /\ holder' = Nothing /\ place' = [place EXCEPT ![p] = "idle"]
    BY DEF Flushed, Move
  <2>2. \A q \in Programs: place'[q] \notin {"creating", "resetting", "editing_blind"}
    BY <1>3, <2>1 DEF Settled, OverrideInv, StoreTypeOK
  <2>3. Settled'
    BY <1>3, <2>1, <2>2 DEF Settled
  <2>4. Settled' = Settled
    BY <1>3, <2>3, Zenon DEF Settled
  <2>5. Store!Edit
    BY <1>3, <2>4 DEF Store!Edit, Empty
  <2>6. QED
    BY <2>5 DEF Store!Next
<1>4. QED
  BY <1>1, <1>2, <1>3 DEF Flushed

LEMMA OverrideStepRefines ==
  ASSUME OverrideInv, StoreNext
  PROVE  [Store!Next]_(Store!vars)
<1>1. OverrideInv'
  BY OverrideStepInv
<1>2. ASSUME NEW p \in Programs, place[p] \in Mutating
      PROVE  Settled => place[p] # "editing_blind" /\ (place[p] = "editing" => mem[p] = onDisk)
  <2>1. holder = p /\ holder # Nothing
    BY <1>2, OverrideAssumption DEF OverrideInv, EditorInv
  <2>2. QED
    BY <2>1 DEF OverrideInv, RereadInv, Settled
<1>3. ASSUME NEW p \in Programs, OpenCreate(p)
      PROVE  [Store!Next]_(Store!vars)
  <2>1. ~Settled
    BY <1>3 DEF OpenCreate, Settled
  <2>2. onDisk' \in Contents
    BY <1>1 DEF OverrideInv, StoreTypeOK
  <2>3. QED
    BY <2>1, <2>2, UnsettledRefines
<1>4. ASSUME NEW p \in Programs, NEW k \in Keys, NEW v \in Values, Upsert(p, k, v)
      PROVE  [Store!Next]_(Store!vars)
  <2>1. place[p] \in Mutating /\ place[p] \in {"editing", "editing_blind"}
        /\ Flushed(p, [mem[p] EXCEPT ![k] = v])
    BY <1>4 DEF Upsert, Mutating
  <2>2. Settled => [mem[p] EXCEPT ![k] = v] = [onDisk EXCEPT ![k] = v]
    BY <1>2, <2>1
  <2>3. QED
    BY <1>1, <2>1, <2>2, FlushedRefines
<1>5. ASSUME NEW p \in Programs, NEW k \in Keys, Delete(p, k)
      PROVE  [Store!Next]_(Store!vars)
  <2>1. CASE mem[p][k] = Nothing
    BY <1>5, <2>1, SameContentRefines DEF Delete
  <2>2. CASE mem[p][k] # Nothing
    <3>1. place[p] \in Mutating /\ place[p] \in {"editing", "editing_blind"}
          /\ Flushed(p, [mem[p] EXCEPT ![k] = Nothing])
      BY <1>5, <2>2 DEF Delete, Mutating
    <3>2. Settled => [mem[p] EXCEPT ![k] = Nothing] = [onDisk EXCEPT ![k] = Nothing]
      BY <1>2, <3>1
    <3>3. QED
      BY <1>1, <3>1, <3>2, FlushedRefines
  <2>3. QED
    BY <2>1, <2>2
<1>6. ASSUME NEW p \in Programs, ClearOverrides(p)
      PROVE  [Store!Next]_(Store!vars)
  BY <1>1, <1>6, FlushedRefines DEF ClearOverrides, Mutating
<1>7. ASSUME NEW p \in Programs,
             OpenCheck(p) \/ OpenRead(p) \/ OpenReset(p) \/ Acquire(p)
                    \/ Reread(p) \/ Crash(p)
      PROVE  [Store!Next]_(Store!vars)
  <2>1. UNCHANGED onDisk
    BY <1>7 DEF OpenCheck, OpenRead, OpenReset, Acquire, Reread, Crash
  <2>2. QED
    BY <2>1, SameContentRefines
<1>8. CASE DamageFile
  BY <1>8, SameContentRefines DEF DamageFile
<1>9. QED
  BY <1>3, <1>4, <1>5, <1>6, <1>7, <1>8 DEF StoreNext

\* Programs that edit overrides.json through with_overrides never lose each other's edit:
\* while no one acts on a missing or damaged file, each write is one edit of what is there.
THEOREM OverrideRefinement == StoreSpec => ImplementsAtomicStore
<1>1. StoreInit => Store!Init
  <2>1. Settled \in BOOLEAN
    BY Zenon DEF Settled
  <2>2. Empty \in Store!Contents
    BY DEF Empty, Store!Contents
  <2>3. QED
    BY <2>1, <2>2 DEF StoreInit, Store!Init
<1>2. OverrideInv /\ [StoreNext]_(storeVars) => [Store!Next]_(Store!vars)
  <2>1. OverrideInv /\ StoreNext => [Store!Next]_(Store!vars)
    BY OverrideStepRefines
  <2>2. OverrideInv /\ UNCHANGED storeVars => [Store!Next]_(Store!vars)
    BY SameContentRefines DEF storeVars
  <2>3. QED
    BY <2>1, <2>2
<1>3. QED
  BY OverrideInductive, <1>1, <1>2, PTL DEF StoreSpec, ImplementsAtomicStore, Store!Spec
============================================================================
