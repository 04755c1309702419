------------------------------ MODULE TextProofs ------------------------------
(* Proofs about two passes over a text. LangScopes, for every set of tags and every    *)
(* depth: the index, the count and the range in progress agree with the stack they are *)
(* kept beside, and so the ranges are those of ForeignText, which searches the stack.  *)
(* Fixer, for every text and every list of issues: the fixes lie one behind the other, *)
(* and what they say of the text is what has become of it.                             *)
EXTENDS LangScopes, Fixer, TLAPS, FiniteSetTheorems, SequenceTheorems, WellFoundedInduction

Element == [name: STRING, lang: {"foreign", "home", Undeclared}]

\* The numbers of the elements a sibling could end, and what an index says of a stack.
Closables(stack) == {k \in 1..Len(stack): stack[k].name \in ImplicitlyClosable}
Indexes(index, stack) ==
    /\ \A i \in DOMAIN index: index[i] \in DOMAIN stack /\ stack[index[i]].lang # Undeclared
    /\ \A i, j \in DOMAIN index: i < j => index[i] < index[j]
    /\ \A k \in DOMAIN stack: stack[k].lang # Undeclared => \E i \in DOMAIN index: index[i] = k

IndexInv == Indexes(declared, open)
CountInv == closable = Cardinality(Closables(open))
DepthInv == Len(open) <= MaxDepth

\* A raw-text element is the innermost, since nothing opens inside it.
RawInv ==
    /\ \A k \in DOMAIN open: open[k].name \in RawTextElements => k = Len(open)
    /\ in_raw_text <=> open # <<>> /\ open[Len(open)].name \in RawTextElements

\* A range is in progress exactly while the text is foreign. It began before this token,
\* and the finished ones have ended by now.
RangeInv ==
    /\ pending # {} <=> Foreign
    /\ \A s, t \in pending: s = t
    /\ \A s \in pending: s < at
    /\ \A range \in ranges: range.end <= at

IInv == TypeOK /\ IndexInv /\ CountInv /\ DepthInv /\ RawInv /\ RangeInv

----------------------------------------------------------------------------
(* Numbers and sequences *)

\* A set of numbers up to a bound that holds zero has a largest one.
LEMMA LargestExists ==
  ASSUME NEW n \in Nat, NEW S \in SUBSET (0..n), S # {}
  PROVE  \E m \in S: \A k \in S: k <= m
<1> DEFINE T == {x \in Nat: x <= n /\ n - x \in S}
<1> DEFINE R == {ss \in Nat \X Nat: ss[1] < ss[2]}
<1>1. T \subseteq Nat
  OBVIOUS
<1>2. T # {}
  <2>1. PICK k \in S: TRUE
    OBVIOUS
  <2>2. n - k \in T
    BY <2>1
  <2>3. QED
    BY <2>2
<1>3. IsWellFoundedOn(R, Nat)
  BY NatLessThanWellFounded DEF OpToRel
<1>4. PICK x \in T: \A y \in T: ~(<<y, x>> \in R)
  <2> HIDE DEF T, R
  <2>1. QED
    BY <1>1, <1>2, <1>3, WFMin, Zenon
<1>5. n - x \in S /\ \A k \in S: k <= n - x
  <2>1. n - x \in S
    OBVIOUS
  <2>2. ASSUME NEW k \in S PROVE k <= n - x
    <3>1. n - k \in T /\ k \in 0..n /\ x \in 0..n
      OBVIOUS
    <3>2. ~(<<n - k, x>> \in R)
      BY <3>1, <1>4
    <3>3. ~(n - k < x)
      BY <3>1, <3>2
    <3>4. QED
      BY <3>1, <3>3
  <2>3. QED
    BY <2>1, <2>2
<1>6. QED
  BY <1>5

----------------------------------------------------------------------------
(* The index and the count beside the stack *)

\* What is left of the index when the stack is cut indexes what is left of the stack.
LEMMA CutIndex ==
  ASSUME TypeOK, IndexInv, NEW n \in 0..Len(open)
  PROVE  /\ DeclaredUpTo(n) \in Seq(Nat)
         /\ Indexes(DeclaredUpTo(n), SubSeq(open, 1, n))
<1> DEFINE Fits(m) == /\ m = 0 \/ declared[m] <= n
                      /\ \A j \in (m + 1)..Len(declared): declared[j] > n
           S == {m \in 0..Len(declared): m = 0 \/ declared[m] <= n}
<1>1. /\ open \in Seq(Element) /\ declared \in Seq(Nat)
      /\ Len(declared) \in Nat /\ Len(open) \in Nat
  BY DEF TypeOK, Element
<1>2. \A i \in 1..Len(declared): declared[i] \in Nat
  BY <1>1
<1>3. \E m \in 0..Len(declared): Fits(m)
  <2>1. PICK m \in S: \A k \in S: k <= m
    <3>1. S # {} /\ S \in SUBSET (0..Len(declared))
      BY <1>1
    <3> HIDE DEF S
    <3>2. QED
      BY <1>1, <3>1, LargestExists
  <2>2. \A j \in (m + 1)..Len(declared): declared[j] > n
    BY <1>1, <1>2, <2>1
  <2>3. QED
    BY <2>1, <2>2
<1>4. PICK m \in 0..Len(declared): Fits(m) /\ DeclaredUpTo(n) = SubSeq(declared, 1, m)
  BY <1>3 DEF DeclaredUpTo
<1>5. /\ SubSeq(declared, 1, m) \in Seq(Nat) /\ Len(SubSeq(declared, 1, m)) = m
      /\ \A i \in 1..m: SubSeq(declared, 1, m)[i] = declared[i]
  BY <1>1, <1>4, SubSeqProperties
<1>6. /\ Len(SubSeq(open, 1, n)) = n /\ SubSeq(open, 1, n) \in Seq(Element)
      /\ \A k \in 1..n: SubSeq(open, 1, n)[k] = open[k]
  BY <1>1, SubSeqProperties
<1>7. \A i \in 1..m: declared[i] \in 1..n /\ open[declared[i]].lang # Undeclared
  <2>1. SUFFICES ASSUME NEW i \in 1..m
                 PROVE  declared[i] \in 1..n /\ open[declared[i]].lang # Undeclared
    OBVIOUS
  <2>2. declared[i] \in 1..Len(open) /\ open[declared[i]].lang # Undeclared
    BY <1>1 DEF IndexInv, Indexes
  <2>3. declared[m] <= n
    BY <1>4
  <2>4. declared[i] <= declared[m]
    <3>1. DOMAIN declared = 1..Len(declared) /\ m \in 1..Len(declared) /\ i \in 1..Len(declared)
      BY <1>1
    <3>2. i < m => declared[i] < declared[m]
      BY <3>1 DEF IndexInv, Indexes
    <3>3. declared[i] \in Nat /\ declared[m] \in Nat
      BY <1>2, <3>1
    <3>4. i <= m
      OBVIOUS
    <3>5. QED
      BY <3>1, <3>2, <3>3, <3>4
  <2>5. QED
    BY <1>1, <1>2, <2>2, <2>3, <2>4
<1>8. \A k \in 1..n: open[k].lang # Undeclared => \E i \in 1..m: declared[i] = k
  <2>1. SUFFICES ASSUME NEW k \in 1..n, open[k].lang # Undeclared
                 PROVE  \E i \in 1..m: declared[i] = k
    OBVIOUS
  <2>2. PICK i \in 1..Len(declared): declared[i] = k
    BY <1>1, <2>1 DEF IndexInv, Indexes
  <2>3. i \in 1..m
    BY <1>1, <1>4, <2>2
  <2>4. QED
    BY <2>2, <2>3
<1>9. \A i, j \in 1..m: i < j => declared[i] < declared[j]
  BY <1>1 DEF IndexInv, Indexes
<1>10. DOMAIN SubSeq(declared, 1, m) = 1..m /\ DOMAIN SubSeq(open, 1, n) = 1..n
  BY <1>5, <1>6
<1>11. Indexes(SubSeq(declared, 1, m), SubSeq(open, 1, n))
  BY <1>5, <1>6, <1>7, <1>8, <1>9, <1>10 DEF Indexes
<1>12. QED
  BY <1>4, <1>5, <1>11

\* An element that is pushed is indexed when it declares a language.
LEMMA PushIndex ==
  ASSUME NEW stack \in Seq(Element), NEW index \in Seq(Nat), Indexes(index, stack),
         NEW element \in Element
  PROVE  Indexes(IF element.lang = Undeclared THEN index ELSE Append(index, Len(stack) + 1),
                 Append(stack, element))
<1>1. /\ Len(Append(stack, element)) = Len(stack) + 1
      /\ \A k \in 1..Len(stack): Append(stack, element)[k] = stack[k]
      /\ Append(stack, element)[Len(stack) + 1] = element
      /\ DOMAIN Append(stack, element) = 1..(Len(stack) + 1)
  BY AppendProperties
<1> DEFINE longer == Append(stack, element)
<1>2. CASE element.lang = Undeclared
  <2>1. \A i \in DOMAIN index: index[i] \in 1..Len(stack) /\ longer[index[i]].lang # Undeclared
    BY <1>1 DEF Indexes
  <2>2. \A k \in DOMAIN longer: longer[k].lang # Undeclared => \E i \in DOMAIN index: index[i] = k
    BY <1>1, <1>2 DEF Indexes
  <2>3. QED
    BY <1>1, <1>2, <2>1, <2>2 DEF Indexes
<1>3. CASE element.lang # Undeclared
  <2>1. /\ Len(Append(index, Len(stack) + 1)) = Len(index) + 1
        /\ \A i \in 1..Len(index): Append(index, Len(stack) + 1)[i] = index[i]
        /\ Append(index, Len(stack) + 1)[Len(index) + 1] = Len(stack) + 1
        /\ DOMAIN Append(index, Len(stack) + 1) = 1..(Len(index) + 1)
    BY AppendProperties
  <2> DEFINE more == Append(index, Len(stack) + 1)
  <2>2. \A i \in 1..Len(index): index[i] \in 1..Len(stack) /\ stack[index[i]].lang # Undeclared
    BY DEF Indexes
  <2>3. \A i \in DOMAIN more: more[i] \in DOMAIN longer /\ longer[more[i]].lang # Undeclared
    BY <1>1, <1>3, <2>1, <2>2
  <2>4. \A i, j \in DOMAIN more: i < j => more[i] < more[j]
    BY <1>1, <2>1, <2>2 DEF Indexes
  <2>5. ASSUME NEW k \in DOMAIN longer, longer[k].lang # Undeclared
        PROVE  \E i \in DOMAIN more: more[i] = k
    <3>1. CASE k = Len(stack) + 1
      BY <2>1, <3>1
    <3>2. CASE k \in 1..Len(stack)
      <4>1. PICK i \in 1..Len(index): index[i] = k
        BY <1>1, <2>5, <3>2 DEF Indexes
      <4>2. QED
        BY <2>1, <4>1
    <3>3. QED
      BY <1>1, <3>1, <3>2
  <2>6. QED
    BY <1>3, <2>3, <2>4, <2>5 DEF Indexes
<1>4. QED
  BY <1>2, <1>3

\* The last entry of the index is the innermost declaration.
LEMMA LastIsInnermost ==
  ASSUME NEW stack \in Seq(Element), NEW index \in Seq(Nat), Indexes(index, stack)
  PROVE  index # <<>> /\ stack[index[Len(index)]].lang = "foreign"
           <=> \E k \in DOMAIN stack:
                   /\ stack[k].lang = "foreign"
                   /\ \A j \in DOMAIN stack: stack[j].lang # Undeclared => j <= k
<1> DEFINE last == index[Len(index)]
<1>1. CASE index = <<>>
  <2>1. \A k \in DOMAIN stack: stack[k].lang = Undeclared
    BY <1>1 DEF Indexes
  <2>2. QED
    BY <1>1, <2>1 DEF Undeclared
<1>2. CASE index # <<>>
  <2>1. Len(index) \in DOMAIN index /\ DOMAIN index = 1..Len(index) /\ Len(index) \in Nat
    BY <1>2
  <2>2. last \in DOMAIN stack /\ stack[last].lang # Undeclared
    BY <2>1 DEF Indexes
  <2>3. ASSUME NEW j \in DOMAIN stack, stack[j].lang # Undeclared
        PROVE  j <= last
    <3>1. PICK i \in DOMAIN index: index[i] = j
      BY <2>3 DEF Indexes
    <3>2. i < Len(index) => j < last
      BY <2>1, <3>1 DEF Indexes
    <3>3. i = Len(index) => j = last
      BY <3>1
    <3>4. QED
      BY <2>1, <2>2, <3>1, <3>2, <3>3
  <2>4. \A k \in DOMAIN stack:
            stack[k].lang = "foreign"
              /\ (\A j \in DOMAIN stack: stack[j].lang # Undeclared => j <= k) => k = last
    BY <2>2, <2>3 DEF Undeclared
  <2>5. QED
    BY <1>2, <2>2, <2>3, <2>4
<1>3. QED
  BY <1>1, <1>2

\* The count loses what is cut and gains what is pushed.
LEMMA CutCount ==
  ASSUME TypeOK, CountInv, NEW n \in 0..Len(open)
  PROVE  /\ closable - ClosableAbove(n) \in Nat
         /\ closable - ClosableAbove(n) = Cardinality(Closables(SubSeq(open, 1, n)))
<1> DEFINE kept == Closables(SubSeq(open, 1, n))
           above == {k \in (n + 1)..Len(open): open[k].name \in ImplicitlyClosable}
<1>1. open \in Seq(Element) /\ Len(open) \in Nat
  BY DEF TypeOK, Element
<1>2. kept = {k \in 1..n: open[k].name \in ImplicitlyClosable}
  BY <1>1, SubSeqProperties DEF Closables
<1>3. Closables(open) = kept \cup above /\ kept \cap above = {}
  BY <1>1, <1>2 DEF Closables
<1>4. /\ IsFiniteSet(1..n) /\ IsFiniteSet((n + 1)..Len(open))
      /\ kept \in SUBSET (1..n) /\ above \in SUBSET ((n + 1)..Len(open))
  <2>1. n \in Int /\ n + 1 \in Int /\ 1 \in Int /\ Len(open) \in Int
    BY <1>1
  <2>2. IsFiniteSet(1..n) /\ IsFiniteSet((n + 1)..Len(open))
    BY <2>1, FS_Interval
  <2>3. QED
    BY <1>2, <2>2
<1>5. IsFiniteSet(kept) /\ IsFiniteSet(above)
  BY <1>4, FS_Subset
<1>6. Cardinality(kept) \in Nat /\ Cardinality(above) \in Nat
  BY <1>5, FS_CardinalityType
<1>7. Cardinality(kept \cup above) = Cardinality(kept) + Cardinality(above)
  <2> HIDE DEF kept, above
  <2>1. Cardinality(kept \cap above) = 0
    BY <1>3, FS_EmptySet
  <2>2. QED
    <3>1. Cardinality(kept \cup above)
            = Cardinality(kept) + Cardinality(above) - Cardinality(kept \cap above)
      BY <1>5, FS_Union, Zenon
    <3>2. QED
      BY <1>6, <2>1, <3>1
<1>8. closable = Cardinality(kept) + ClosableAbove(n) /\ ClosableAbove(n) = Cardinality(above)
  BY <1>3, <1>7 DEF CountInv, ClosableAbove
<1>9. QED
  BY <1>6, <1>8

LEMMA PushCount ==
  ASSUME NEW stack \in Seq(Element), NEW element \in Element
  PROVE  Cardinality(Closables(Append(stack, element)))
           = Cardinality(Closables(stack))
               + (IF element.name \in ImplicitlyClosable THEN 1 ELSE 0)
<1>1. /\ Len(Append(stack, element)) = Len(stack) + 1 /\ Len(stack) \in Nat
      /\ \A k \in 1..Len(stack): Append(stack, element)[k] = stack[k]
      /\ Append(stack, element)[Len(stack) + 1] = element
  BY AppendProperties
<1>2. Closables(Append(stack, element))
        = Closables(stack)
            \cup (IF element.name \in ImplicitlyClosable THEN {Len(stack) + 1} ELSE {})
  BY <1>1 DEF Closables
<1>3. IsFiniteSet(Closables(stack)) /\ Len(stack) + 1 \notin Closables(stack)
  <2>1. IsFiniteSet(1..Len(stack)) /\ Closables(stack) \in SUBSET (1..Len(stack))
    BY <1>1, FS_Interval DEF Closables
  <2>2. QED
    BY <1>1, <2>1, FS_Subset
<1>4. Cardinality(Closables(stack)) \in Nat
  BY <1>3, FS_CardinalityType
<1>5. CASE element.name \in ImplicitlyClosable
  <2>1. Closables(Append(stack, element)) = Closables(stack) \cup {Len(stack) + 1}
    BY <1>2, <1>5
  <2>2. QED
    BY <1>3, <1>4, <1>5, <2>1, FS_AddElement
<1>6. CASE element.name \notin ImplicitlyClosable
  BY <1>2, <1>4, <1>6
<1>7. QED
  BY <1>5, <1>6

\* A count of zero says that there is nothing to walk the stack for.
LEMMA NothingToEnd ==
  ASSUME TypeOK, CountInv
  PROVE  closable = 0 <=> ~\E k \in DOMAIN open: open[k].name \in ImplicitlyClosable
<1>1. open \in Seq(Element) /\ Len(open) \in Nat /\ DOMAIN open = 1..Len(open)
  BY DEF TypeOK, Element
<1>2. IsFiniteSet(1..Len(open)) /\ Closables(open) \in SUBSET (1..Len(open))
  BY <1>1, FS_Interval DEF Closables
<1>3. closable = 0 <=> Closables(open) = {}
  BY <1>2, FS_Subset, FS_EmptySet DEF CountInv
<1>4. QED
  BY <1>1, <1>3 DEF Closables

----------------------------------------------------------------------------
(* The range in progress *)

\* The range in progress stands beside the finished ones, ended at this position.
LEMMA InProgressCounts ==
  ASSUME NEW done, NEW pend, NEW now, NEW k
  PROVE  (\E range \in done \cup {[start |-> s, end |-> now]: s \in pend}:
              range.start <= k /\ k < range.end)
           <=> \/ \E range \in done: range.start <= k /\ k < range.end
               \/ \E s \in pend: s <= k /\ k < now
<1> DEFINE going == {[start |-> s, end |-> now]: s \in pend}
<1>1. ASSUME NEW range \in going, range.start <= k, k < range.end
      PROVE  \E s \in pend: s <= k /\ k < now
  <2>1. PICK s \in pend: range = [start |-> s, end |-> now]
    OBVIOUS
  <2>2. range.start = s /\ range.end = now
    BY <2>1
  <2>3. QED
    BY <1>1, <2>2
<1>2. ASSUME NEW s \in pend, s <= k, k < now
      PROVE  \E range \in going: range.start <= k /\ k < range.end
  <2>1. [start |-> s, end |-> now] \in going
    OBVIOUS
  <2>2. [start |-> s, end |-> now].start = s /\ [start |-> s, end |-> now].end = now
    OBVIOUS
  <2>3. QED
    BY <1>2, <2>1, <2>2
<1> HIDE DEF going
<1>3. (\E range \in done \cup going: range.start <= k /\ k < range.end)
        <=> \/ \E range \in done: range.start <= k /\ k < range.end
            \/ \E s \in pend: s <= k /\ k < now
  BY <1>1, <1>2
<1>4. QED
  BY <1>3 DEF going

\* A token moves the end of the range in progress past itself, begins a range at itself
\* or ends one behind itself: it is covered when the text is foreign on either side.
LEMMA Settled ==
  ASSUME TypeOK, RangeInv, at' = at + 1, Settle(Foreign')
  PROVE  /\ RangeInv'
         /\ pending' \in SUBSET Nat /\ ranges' \subseteq [start: Nat, end: Nat]
         /\ Covered' = IF Foreign \/ Foreign' THEN Covered \cup {at} ELSE Covered
<1> DEFINE In(k, pend, done, now) ==
             \/ \E range \in done: range.start <= k /\ k < range.end
             \/ \E s \in pend: s <= k /\ k < now
<1>1. /\ at \in Nat /\ pending \in SUBSET Nat /\ ranges \subseteq [start: Nat, end: Nat]
      /\ pending # {} <=> Foreign
      /\ \A s, t \in pending: s = t
      /\ \A s \in pending: s < at
      /\ \A range \in ranges: range.end <= at
  BY DEF TypeOK, RangeInv
<1>2. Covered = {k \in 0..(at - 1): In(k, pending, ranges, at)}
  <2>1. \A k: (\E range \in Finish(at): range.start <= k /\ k < range.end)
               <=> In(k, pending, ranges, at)
    BY InProgressCounts DEF Finish
  <2>2. QED
    BY <2>1 DEF Covered
<1>3. Covered' = {k \in 0..at: In(k, pending', ranges', at + 1)}
  <2>1. \A k: (\E range \in Finish(at)': range.start <= k /\ k < range.end)
               <=> In(k, pending', ranges', at')
    BY InProgressCounts DEF Finish
  <2>2. Covered' = {k \in 0..(at' - 1): In(k, pending', ranges', at')}
    BY <2>1 DEF Covered
  <2>3. at' = at + 1 /\ at' - 1 = at
    BY <1>1
  <2>4. QED
    BY <1>1, <2>2, <2>3
<1>4. CASE pending = {} /\ Foreign'
  <2>1. pending' = {at} /\ ranges' = ranges /\ ~Foreign
    BY <1>1, <1>4 DEF Settle
  <2>2. RangeInv'
    BY <1>1, <1>4, <2>1 DEF RangeInv
  <2>3. \A k \in 0..at: In(k, {at}, ranges, at + 1) <=> k = at \/ In(k, {}, ranges, at)
    BY <1>1
  <2>4. Covered' = Covered \cup {at}
    BY <1>1, <1>2, <1>3, <1>4, <2>1, <2>3
  <2>5. QED
    BY <1>1, <1>4, <2>1, <2>2, <2>4
<1>5. CASE pending # {} /\ ~Foreign'
  <2>1. PICK s \in pending: TRUE
    BY <1>5
  <2>2. pending = {s} /\ s \in Nat /\ s < at /\ Foreign
    BY <1>1, <2>1
  <2>3. pending' = {} /\ ranges' = ranges \cup {[start |-> s, end |-> at + 1]}
    BY <1>5, <2>2 DEF Settle, ClosePending
  <2>4. ranges' \subseteq [start: Nat, end: Nat] /\ \A range \in ranges': range.end <= at + 1
    BY <1>1, <2>2, <2>3
  <2>5. RangeInv'
    BY <1>5, <2>3, <2>4 DEF RangeInv
  <2>6. \A k \in 0..at: In(k, {}, ranges', at + 1) <=> k = at \/ In(k, {s}, ranges, at)
    <3>1. ASSUME NEW k
          PROVE  In(k, {}, ranges', at + 1) <=> In(k, {s}, ranges, at + 1)
      <4> DEFINE ended == [start |-> s, end |-> at + 1]
      <4>1. ended.start = s /\ ended.end = at + 1
        OBVIOUS
      <4>2. ranges' = ranges \cup {ended}
        BY <2>3
      <4> HIDE DEF ended
      <4>3. QED
        BY <4>1, <4>2
    <3>2. \A k \in 0..at: In(k, {s}, ranges, at + 1) <=> k = at \/ In(k, {s}, ranges, at)
      BY <1>1, <2>2
    <3>3. QED
      BY <3>1, <3>2
  <2>7. Covered' = Covered \cup {at}
    BY <1>1, <1>2, <1>3, <2>2, <2>3, <2>6
  <2>8. QED
    BY <2>2, <2>3, <2>4, <2>5, <2>7
<1>6. CASE pending # {} /\ Foreign'
  <2>1. PICK s \in pending: TRUE
    BY <1>6
  <2>2. pending = {s} /\ s \in Nat /\ s < at /\ Foreign
    BY <1>1, <2>1
  <2>3. pending' = pending /\ ranges' = ranges
    BY <1>6 DEF Settle
  <2>4. RangeInv'
    BY <1>1, <1>6, <2>3 DEF RangeInv
  <2>5. \A k \in 0..at: In(k, {s}, ranges, at + 1) <=> k = at \/ In(k, {s}, ranges, at)
    BY <1>1, <2>2
  <2>6. Covered' = Covered \cup {at}
    BY <1>1, <1>2, <1>3, <2>2, <2>3, <2>5
  <2>7. QED
    BY <1>1, <2>2, <2>3, <2>4, <2>6
<1>7. CASE pending = {} /\ ~Foreign'
  <2>1. pending' = {} /\ ranges' = ranges /\ ~Foreign
    BY <1>1, <1>7 DEF Settle
  <2>2. RangeInv'
    BY <1>1, <1>7, <2>1 DEF RangeInv
  <2>3. \A k \in 0..at: In(k, {}, ranges, at + 1) <=> k # at /\ In(k, {}, ranges, at)
    BY <1>1
  <2>4. Covered' = Covered
    BY <1>1, <1>2, <1>3, <1>7, <2>1, <2>3
  <2>5. QED
    BY <1>1, <1>7, <2>1, <2>2, <2>4
<1>8. QED
  BY <1>4, <1>5, <1>6, <1>7

\* A tag that changes nothing has nothing to settle.
LEMMA NothingToSettle ==
  ASSUME RangeInv, Foreign' <=> Foreign, UNCHANGED <<pending, ranges>>
  PROVE  Settle(Foreign')
BY DEF RangeInv, Settle

----------------------------------------------------------------------------
(* The invariant *)

\* What is known before every step.
LEMMA Known ==
  ASSUME IInv
  PROVE  /\ TypeOK /\ IndexInv /\ CountInv /\ DepthInv /\ RawInv /\ RangeInv
         /\ open \in Seq(Element) /\ declared \in Seq(Nat)
         /\ Len(open) \in Nat /\ DOMAIN open = 1..Len(open)
BY DEF IInv, TypeOK, Element

\* Nothing but the offset moves.
LEMMA StayInv ==
  ASSUME IInv, UNCHANGED <<open, declared, closable, pending, in_raw_text, ranges>>,
         suppressed' \in Nat, Advance
  PROVE  /\ IInv'
         /\ Covered' = IF Foreign \/ Foreign' THEN Covered \cup {at} ELSE Covered
<1>1. Foreign' <=> Foreign
  BY DEF Foreign
<1>2. at' = at + 1 /\ at \in Nat
  BY DEF Advance, IInv, TypeOK
<1>3. Settle(Foreign')
  BY <1>1, Known, NothingToSettle
<1>4. /\ RangeInv'
      /\ Covered' = IF Foreign \/ Foreign' THEN Covered \cup {at} ELSE Covered
  BY <1>2, <1>3, Known, Settled
<1>5. TypeOK'
  BY <1>2 DEF IInv, TypeOK
<1>6. IndexInv' /\ CountInv' /\ DepthInv' /\ RawInv'
  BY DEF IInv, IndexInv, CountInv, DepthInv, RawInv
<1>7. QED
  BY <1>4, <1>5, <1>6 DEF IInv

LEMMA CloseInv ==
  ASSUME IInv, NEW tag \in Tags, Close(tag)
  PROVE  /\ IInv'
         /\ Covered' = IF Foreign \/ Foreign' THEN Covered \cup {at} ELSE Covered
<1>1. PICK k \in DOMAIN open: Truncate(k - 1)
  BY DEF Close, Matching
<1> DEFINE n == k - 1
<1>2. n \in 0..Len(open) /\ n < Len(open)
  BY Known
<1>3. /\ open' = SubSeq(open, 1, n) /\ open' \in Seq(Element) /\ Len(open') = n
      /\ DOMAIN open' = 1..n /\ \A j \in 1..n: open'[j] = open[j]
  BY <1>1, <1>2, Known, SubSeqProperties DEF Truncate
<1>4. declared' = DeclaredUpTo(n) /\ declared' \in Seq(Nat) /\ IndexInv'
  <2>1. declared' = DeclaredUpTo(n)
    BY <1>1 DEF Truncate
  <2>2. DeclaredUpTo(n) \in Seq(Nat) /\ Indexes(DeclaredUpTo(n), SubSeq(open, 1, n))
    BY <1>2, Known, CutIndex
  <2>3. QED
    BY <1>3, <2>1, <2>2 DEF IndexInv
<1>5. closable' \in Nat /\ CountInv'
  <2>1. closable' = closable - ClosableAbove(n)
    BY <1>1 DEF Truncate
  <2>2. QED
    BY <1>2, <1>3, <2>1, Known, CutCount DEF CountInv
<1>6. at' = at + 1 /\ in_raw_text' = FALSE /\ suppressed' = suppressed /\ Settle(Foreign')
  BY DEF Close, Advance
<1>7. /\ RangeInv' /\ pending' \in SUBSET Nat /\ ranges' \subseteq [start: Nat, end: Nat]
      /\ Covered' = IF Foreign \/ Foreign' THEN Covered \cup {at} ELSE Covered
  BY <1>6, Known, Settled
<1>8. TypeOK'
  <2>1. at \in Nat /\ suppressed \in Nat
    BY Known DEF TypeOK
  <2>2. at' \in Nat /\ suppressed' \in Nat
    BY <1>6, <2>1
  <2>3. in_raw_text' \in BOOLEAN
    BY <1>6
  <2>4. QED
    BY <1>3, <1>4, <1>5, <1>7, <2>2, <2>3 DEF TypeOK, Element
<1>9. DepthInv'
  BY <1>2, <1>3, Known, DepthAssumption DEF DepthInv
<1>10. RawInv'
  <2>1. \A j \in 1..n: open[j].name \notin RawTextElements
    BY <1>2, Known DEF RawInv
  <2>2. QED
    BY <1>2, <1>3, <1>6, <2>1 DEF RawInv
<1>11. QED
  BY <1>4, <1>5, <1>7, <1>8, <1>9, <1>10 DEF IInv

\* At the cap nothing has been ended, or there would have been room.
LEMMA CapInv ==
  ASSUME IInv, NEW tag \in Tags, Cap(tag)
  PROVE  /\ IInv' /\ open' = open
         /\ Len(open) = LeftByTag(tag) /\ Len(open) >= MaxDepth
         /\ Covered' = IF Foreign \/ Foreign' THEN Covered \cup {at} ELSE Covered
<1>1. PICK n \in 0..Len(open): n = LeftByTag(tag) /\ n >= MaxDepth /\ Truncate(n)
  BY DEF Cap
<1>2. n = Len(open)
  BY <1>1, Known, DepthAssumption DEF DepthInv
<1>3. open' = open
  BY <1>1, <1>2, Known, SubSeqProperties DEF Truncate
<1>4. declared' \in Seq(Nat) /\ IndexInv'
  <2>1. DeclaredUpTo(n) \in Seq(Nat) /\ Indexes(DeclaredUpTo(n), SubSeq(open, 1, n))
    BY Known, CutIndex
  <2>2. QED
    BY <1>1, <2>1 DEF IndexInv, Truncate
<1>5. closable' \in Nat /\ CountInv'
  BY <1>1, Known, CutCount DEF CountInv, Truncate
<1>6. /\ at' = at + 1 /\ at \in Nat /\ suppressed' = 1
      /\ UNCHANGED <<pending, in_raw_text, ranges>>
  BY DEF Cap, Advance, IInv, TypeOK
<1>7. Foreign' <=> Foreign
  BY <1>3, <1>4, Known, LastIsInnermost DEF Foreign, IndexInv
<1>8. /\ RangeInv'
      /\ Covered' = IF Foreign \/ Foreign' THEN Covered \cup {at} ELSE Covered
  BY <1>6, <1>7, Known, NothingToSettle, Settled
<1>9. TypeOK'
  BY <1>3, <1>4, <1>5, <1>6 DEF IInv, TypeOK
<1>10. DepthInv' /\ RawInv'
  BY <1>3, <1>6, Known DEF DepthInv, RawInv
<1>11. QED
  BY <1>1, <1>2, <1>3, <1>4, <1>5, <1>8, <1>9, <1>10 DEF IInv

LEMMA PushInv ==
  ASSUME IInv, NEW tag \in Tags, Push(tag)
  PROVE  /\ IInv'
         /\ Covered' = IF Foreign \/ Foreign' THEN Covered \cup {at} ELSE Covered
<1> DEFINE element == [name |-> tag.name, lang |-> Foreignness(tag.lang)]
<1>1. PICK n \in 0..Len(open): n < MaxDepth /\ PushOpen(n, element)
  BY DEF Push
<1>2. element \in Element
  BY TagsAssumption DEF Element, Foreignness
<1> DEFINE left == SubSeq(open, 1, n)
<1>3. /\ left \in Seq(Element) /\ Len(left) = n
      /\ \A j \in 1..n: left[j] = open[j]
  BY Known, SubSeqProperties
<1>4. /\ open' = Append(left, element) /\ open' \in Seq(Element) /\ Len(open') = n + 1
      /\ \A j \in 1..n: open'[j] = open[j]
      /\ open'[n + 1] = element /\ DOMAIN open' = 1..(n + 1)
  <2> HIDE DEF element
  <2>1. open' = Append(left, element)
    BY <1>1 DEF PushOpen
  <2> HIDE DEF left
  <2>2. QED
    BY <1>2, <1>3, <2>1, AppendProperties
<1>5. declared' \in Seq(Nat) /\ IndexInv'
  <2>1. DeclaredUpTo(n) \in Seq(Nat) /\ Indexes(DeclaredUpTo(n), left)
    BY Known, CutIndex
  <2>2. declared' = IF element.lang = Undeclared THEN DeclaredUpTo(n)
                    ELSE Append(DeclaredUpTo(n), Len(left) + 1)
    BY <1>1, <1>3 DEF PushOpen
  <2> HIDE DEF element, left
  <2>3. declared' \in Seq(Nat)
    BY <1>3, <2>1, <2>2
  <2>4. Indexes(declared', Append(left, element))
    BY <1>2, <1>3, <2>1, <2>2, PushIndex
  <2>5. QED
    BY <1>4, <2>3, <2>4 DEF IndexInv
<1>6. closable' \in Nat /\ CountInv'
  <2>1. /\ closable - ClosableAbove(n) \in Nat
        /\ closable - ClosableAbove(n) = Cardinality(Closables(left))
    BY Known, CutCount
  <2>2. closable' = (closable - ClosableAbove(n))
                      + (IF element.name \in ImplicitlyClosable THEN 1 ELSE 0)
    BY <1>1 DEF PushOpen
  <2> HIDE DEF element, left
  <2>3. Cardinality(Closables(open'))
          = Cardinality(Closables(left))
              + (IF element.name \in ImplicitlyClosable THEN 1 ELSE 0)
    BY <1>2, <1>3, <1>4, PushCount
  <2>4. QED
    BY <2>1, <2>2, <2>3 DEF CountInv
<1>7. /\ at' = at + 1 /\ at \in Nat /\ Settle(Foreign')
      /\ in_raw_text' = (tag.name \in RawTextElements) /\ suppressed' = suppressed
      /\ ~in_raw_text
  BY DEF Push, Advance, IsMarkup, Opens, IInv, TypeOK
<1>8. /\ RangeInv' /\ pending' \in SUBSET Nat /\ ranges' \subseteq [start: Nat, end: Nat]
      /\ Covered' = IF Foreign \/ Foreign' THEN Covered \cup {at} ELSE Covered
  BY <1>7, Known, Settled
<1>9. TypeOK'
  BY <1>4, <1>5, <1>6, <1>7, <1>8 DEF IInv, TypeOK, Element
<1>10. DepthInv'
  BY <1>1, <1>4, DepthAssumption DEF DepthInv
<1>11. RawInv'
  <2>1. \A j \in 1..n: open[j].name \notin RawTextElements
    BY <1>7, Known DEF RawInv
  <2>2. \A j \in DOMAIN open': open'[j].name \in RawTextElements => j = Len(open')
    BY <1>4, <2>1
  <2>3. open' # <<>> /\ open'[Len(open')].name = tag.name
    BY <1>4
  <2>4. QED
    BY <1>7, <2>2, <2>3 DEF RawInv
<1>12. QED
  BY <1>5, <1>6, <1>8, <1>9, <1>10, <1>11 DEF IInv

LEMMA InitInv == ScopesInit => IInv
<1> SUFFICES ASSUME ScopesInit PROVE IInv
  OBVIOUS
<1>1. /\ at = 0 /\ open = <<>> /\ declared = <<>> /\ closable = 0 /\ suppressed = 0
      /\ pending = {} /\ in_raw_text = FALSE /\ ranges = {}
  BY DEF ScopesInit
<1>2. DOMAIN open = {} /\ DOMAIN declared = {} /\ Len(open) = 0 /\ Closables(open) = {}
  BY <1>1 DEF Closables
<1>3. TypeOK
  <2>1. open \in Seq(Element) /\ declared \in Seq(Nat)
    BY <1>1
  <2>2. pending \in SUBSET Nat /\ in_raw_text \in BOOLEAN
    BY <1>1
  <2>3. ranges \subseteq [start: Nat, end: Nat]
    BY <1>1
  <2>4. QED
    BY <1>1, <2>1, <2>2, <2>3 DEF TypeOK, Element
<1>4. CountInv
  BY <1>1, <1>2, FS_EmptySet DEF CountInv
<1>5. IndexInv /\ DepthInv /\ RawInv /\ RangeInv
  BY <1>1, <1>2, DepthAssumption
     DEF IndexInv, Indexes, DepthInv, RawInv, RangeInv, Foreign
<1>6. QED
  BY <1>3, <1>4, <1>5 DEF IInv

\* A step keeps the invariant, and covers its token when the text is foreign before or
\* after it.
LEMMA StepInv ==
  ASSUME IInv, ScopesNext
  PROVE  /\ IInv' /\ at' = at + 1
         /\ Covered' = IF Foreign \/ Foreign' THEN Covered \cup {at} ELSE Covered
<1>1. CASE Text
  <2>1. suppressed' \in Nat
    BY <1>1, Known DEF Text, scopes, TypeOK
  <2>2. QED
    BY <1>1, <2>1, StayInv DEF Text, scopes, Advance
<1>2. ASSUME NEW tag \in Tags, Apply(tag)
      PROVE  /\ IInv' /\ at' = at + 1
             /\ Covered' = IF Foreign \/ Foreign' THEN Covered \cup {at} ELSE Covered
  <2>1. CASE Balance(tag)
    <3>1. suppressed' \in Nat
      BY <2>1, Known DEF Balance, TypeOK
    <3>2. QED
      BY <2>1, <3>1, StayInv DEF Balance, Advance
  <2>2. CASE Close(tag)
    BY <2>2, CloseInv DEF Close, Advance
  <2>3. CASE Cap(tag)
    BY <2>3, CapInv DEF Cap, Advance
  <2>4. CASE Push(tag)
    BY <2>4, PushInv DEF Push, Advance
  <2>5. CASE Ignore(tag)
    <3>1. suppressed' \in Nat
      BY <2>5, Known DEF Ignore, scopes, TypeOK
    <3>2. QED
      BY <2>5, <3>1, StayInv DEF Ignore, scopes, Advance
  <2>6. QED
    BY <1>2, <2>1, <2>2, <2>3, <2>4, <2>5 DEF Apply
<1>3. QED
  BY <1>1, <1>2 DEF ScopesNext

\* The index of declarations, the count of elements a sibling may end, the flag of raw
\* text and the start of the range in progress agree with the stack of html_lang.rs
\* after every token, whatever the tags and the depth.
THEOREM Inductive == ScopesSpec => []IInv
<1>1. IInv /\ UNCHANGED scopeVars => IInv'
  BY DEF scopeVars, scopes, IInv, TypeOK, IndexInv, CountInv, DepthInv, RawInv, RangeInv,
         Foreign
<1>2. IInv /\ ScopesNext => IInv'
  BY StepInv
<1>3. QED
  BY InitInv, <1>1, <1>2, PTL DEF ScopesSpec

\* Each variable keeps its type.
THEOREM TypeCorrect == ScopesSpec => []TypeOK
<1>1. IInv => TypeOK
  BY DEF IInv
<1>2. QED
  BY Inductive, <1>1, PTL

----------------------------------------------------------------------------
(* The refinement *)

\* Both modules know the same HTML.
LEMMA SameHtml ==
  /\ Foreignly!VoidElements = VoidElements
  /\ Foreignly!RawTextElements = RawTextElements
  /\ Foreignly!ImplicitlyClosable = ImplicitlyClosable
  /\ \A lang: Foreignly!Foreignness(lang) = Foreignness(lang)
<1>1. /\ Foreignly!VoidElements = VoidElements
      /\ Foreignly!RawTextElements = RawTextElements
      /\ Foreignly!ImplicitlyClosable = ImplicitlyClosable
      /\ Foreignly!ChinesePrimarySubtags = ChinesePrimarySubtags
      /\ Foreignly!Undeclared = Undeclared
  BY DEF Foreignly!VoidElements, VoidElements, Foreignly!RawTextElements, RawTextElements,
         Foreignly!ImplicitlyClosable, ImplicitlyClosable, Foreignly!ChinesePrimarySubtags,
         ChinesePrimarySubtags, Foreignly!Undeclared, Undeclared
<1>2. \A lang: Foreignly!Foreignness(lang) = Foreignness(lang)
  BY <1>1 DEF Foreignly!Foreignness, Foreignness, Foreignly!Excludes, Excludes
<1>3. QED
  BY <1>1, <1>2

LEMMA SameLeft ==
  \A stack, name: Foreignly!LeftBy(stack, name) = LeftBy(stack, name)
<1> SUFFICES ASSUME NEW stack, NEW name
             PROVE  Foreignly!LeftBy(stack, name) = LeftBy(stack, name)
  OBVIOUS
<1>1. QED
  BY DEF Foreignly!LeftBy, LeftBy, Foreignly!LastClosed, LastClosed,
         Foreignly!ClosedImplicitlyBy, ClosedImplicitlyBy,
         Foreignly!TransparentToImplicitClose, TransparentToImplicitClose,
         Foreignly!ClosesParagraph, ClosesParagraph, Foreignly!TableParts, TableParts,
         Foreignly!InlineElements, InlineElements

\* Searching the stack and asking the index give the same answer, before a step and
\* after it.
LEMMA SameForeign ==
  ASSUME IInv, IInv'
  PROVE  (Foreign <=> Foreignly!Foreign) /\ (Foreign' <=> Foreignly!Foreign')
<1>1. /\ open \in Seq(Element) /\ declared \in Seq(Nat) /\ Indexes(declared, open)
      /\ open' \in Seq(Element) /\ declared' \in Seq(Nat) /\ Indexes(declared', open')
  BY DEF IInv, TypeOK, Element, IndexInv
<1>2. Foreign <=> Foreignly!Foreign
  BY <1>1, LastIsInnermost DEF Foreign, Foreignly!Foreign, Foreignly!Declarations,
                               Foreignly!Undeclared, Undeclared
<1>3. Foreign' <=> Foreignly!Foreign'
  BY <1>1, LastIsInnermost DEF Foreign, Foreignly!Foreign, Foreignly!Declarations,
                               Foreignly!Undeclared, Undeclared
<1>4. QED
  BY <1>2, <1>3

\* Both agree on what is markup.
LEMMA SameMarkup ==
  ASSUME IInv, NEW tag \in Tags
  PROVE  /\ IsMarkup(tag) <=> Foreignly!IsMarkup(tag)
         /\ Opens(tag) <=> Foreignly!Opens(tag)
         /\ Matching(tag) = Foreignly!Matching(tag)
<1>1. in_raw_text <=> Foreignly!InRawText
  BY SameHtml DEF IInv, RawInv, Foreignly!InRawText
<1>2. IsMarkup(tag) <=> Foreignly!IsMarkup(tag)
  BY <1>1 DEF IsMarkup, Foreignly!IsMarkup, Foreignly!InRawText
<1>3. QED
  BY <1>2, SameHtml DEF Opens, Foreignly!Opens, Matching, Foreignly!Matching

\* Every token is a step of ForeignText on the same token.
LEMMA StepRefines ==
  ASSUME IInv, ScopesNext
  PROVE  Foreignly!Next
<1>1. IInv' /\ Foreignly!Advance
  BY StepInv, SameForeign DEF Foreignly!Advance
<1>2. CASE Text
  BY <1>1, <1>2 DEF Text, scopes, Foreignly!Next, Foreignly!Text
<1>3. ASSUME NEW tag \in Tags, Apply(tag)
      PROVE  Foreignly!Next
  <2>1. CASE Balance(tag)
    BY <1>1, <2>1, SameMarkup DEF Balance, Foreignly!Next, Foreignly!Balance
  <2>2. CASE Close(tag)
    <3>1. Foreignly!Close(tag)
      BY <1>1, <2>2, SameMarkup DEF Close, Truncate, Foreignly!Close
    <3>2. QED
      BY <3>1 DEF Foreignly!Next
  <2>3. CASE Cap(tag)
    <3> DEFINE n == Len(open)
    <3>1. n \in 0..Len(open) /\ n >= MaxDepth /\ n = LeftByTag(tag) /\ open' = open
      BY <2>3, Known, CapInv
    <3>2. n = IF \E k \in DOMAIN open: open[k].name \in Foreignly!ImplicitlyClosable
              THEN Foreignly!LeftBy(open, tag.name) ELSE Len(open)
      BY <3>1, Known, NothingToEnd, SameHtml, SameLeft DEF LeftByTag
    <3>3. open' = SubSeq(open, 1, n)
      BY <3>1, Known, SubSeqProperties
    <3>4. suppressed = 0 /\ suppressed' = 1 /\ IsMarkup(tag) /\ Opens(tag)
      BY <2>3 DEF Cap
    <3>5. Foreignly!Open(tag)
      BY <1>1, <3>1, <3>2, <3>3, <3>4, SameMarkup DEF Foreignly!Open
    <3>6. QED
      BY <3>5 DEF Foreignly!Next
  <2>4. CASE Push(tag)
    <3>1. PICK n \in 0..Len(open):
              /\ n = LeftByTag(tag) /\ n < MaxDepth
              /\ PushOpen(n, [name |-> tag.name, lang |-> Foreignness(tag.lang)])
      BY <2>4 DEF Push
    <3>2. n = IF \E k \in DOMAIN open: open[k].name \in Foreignly!ImplicitlyClosable
              THEN Foreignly!LeftBy(open, tag.name) ELSE Len(open)
      BY <3>1, Known, NothingToEnd, SameHtml, SameLeft DEF LeftByTag
    <3>3. open' = Append(SubSeq(open, 1, n),
                         [name |-> tag.name, lang |-> Foreignly!Foreignness(tag.lang)])
      BY <3>1, SameHtml DEF PushOpen
    <3>4. suppressed = 0 /\ suppressed' = suppressed /\ IsMarkup(tag) /\ Opens(tag)
      BY <2>4 DEF Push
    <3>5. ~(n >= MaxDepth)
      BY <3>1, Known, DepthAssumption
    <3>6. Foreignly!Open(tag)
      BY <1>1, <3>2, <3>3, <3>4, <3>5, SameMarkup DEF Foreignly!Open
    <3>7. QED
      BY <3>6 DEF Foreignly!Next
  <2>5. CASE Ignore(tag)
    <3>1. Foreignly!Inert(tag)
      BY <1>1, <2>5, SameMarkup DEF Ignore, scopes, Foreignly!Inert
    <3>2. QED
      BY <3>1 DEF Foreignly!Next
  <2>6. QED
    BY <1>3, <2>1, <2>2, <2>3, <2>4, <2>5 DEF Apply
<1>4. QED
  BY <1>2, <1>3 DEF ScopesNext

\* The ranges html_lang.rs leaves out are the text whose innermost declaring element
\* declares another language: with the index, the count and the pending range the
\* tracker is a program that searches its stack at every token, whatever the tags, the
\* text and the depth at which it stops to look.
THEOREM Refinement == ScopesSpec => ImplementsForeignText
<1>1. ScopesInit => Foreignly!Init
  BY DEF ScopesInit, Foreignly!Init, Covered, Finish
<1>2. IInv /\ [ScopesNext]_scopeVars => [Foreignly!Next]_(Foreignly!vars)
  <2>1. IInv /\ ScopesNext => Foreignly!Next
    BY StepRefines
  <2>2. UNCHANGED scopeVars => UNCHANGED Foreignly!vars
    BY DEF scopeVars, scopes, Foreignly!vars, Covered, Finish
  <2>3. QED
    BY <2>1, <2>2
<1>3. QED
  BY Inductive, <1>1, <1>2, PTL DEF ScopesSpec, ImplementsForeignText, Foreignly!Spec

----------------------------------------------------------------------------
(* The fixer: what a fold over a sequence computes, place by place *)

LEMMA Smallest ==
  ASSUME NEW S \in SUBSET Nat, S # {}
  PROVE  \E k \in S: \A j \in S: k <= j
<1> DEFINE R == {ss \in Nat \X Nat: ss[1] < ss[2]}
<1>1. IsWellFoundedOn(R, Nat)
  BY NatLessThanWellFounded DEF OpToRel
<1>2. PICK k \in S: \A j \in S: ~(<<j, k>> \in R)
  <2> HIDE DEF R
  <2>1. QED
    BY <1>1, WFMin, Zenon
<1>3. ASSUME NEW j \in S PROVE k <= j
  <2>1. j \in Nat /\ k \in Nat /\ ~(<<j, k>> \in R)
    BY <1>2
  <2>2. ~(j < k)
    BY <2>1
  <2>3. QED
    BY <2>1, <2>2
<1>4. QED
  BY <1>3

LEMMA NatInduct ==
  ASSUME NEW P \in SUBSET Nat, 0 \in P, \A m \in P: m + 1 \in P
  PROVE  P = Nat
<1> SUFFICES ASSUME Nat \ P # {} PROVE FALSE
  OBVIOUS
<1> DEFINE rest == Nat \ P
<1>1. PICK low \in rest: \A j \in rest: low <= j
  <2>1. rest \in SUBSET Nat /\ rest # {}
    OBVIOUS
  <2> HIDE DEF rest
  <2>2. QED
    BY <2>1, Smallest
<1>2. low \in Nat /\ low # 0
  OBVIOUS
<1>3. low - 1 \in Nat /\ ~(low <= low - 1) /\ (low - 1) + 1 = low
  BY <1>2
<1>4. low - 1 \in P
  BY <1>1, <1>3
<1>5. QED
  BY <1>3, <1>4

LEMMA MaxOfRange ==
  ASSUME NEW m \in Nat, NEW T \in SUBSET (1..m + 1), m + 1 \in T
  PROVE  Max(T) = m + 1
<1>1. m + 1 \in T /\ \A y \in T: m + 1 >= y
  OBVIOUS
<1>2. \A x \in T: (\A y \in T: x >= y) => x = m + 1
  <2>1. SUFFICES ASSUME NEW x \in T, x >= m + 1 PROVE x = m + 1
    OBVIOUS
  <2>2. x \in 1..m + 1
    OBVIOUS
  <2>3. QED
    BY <2>1, <2>2
<1>3. QED
  BY <1>1, <1>2 DEF Max

\* `g` folds the elements of every set of places, highest place last.
Folds(g, n, base, op, seq) ==
  g = [T \in SUBSET (1..n) |->
         IF T = {} THEN base ELSE op[<<g[T \ {Max(T)}], seq[Max(T)]>>]]

LEMMA MaxIsIn ==
  ASSUME NEW n \in Nat, NEW T \in SUBSET (1..n), T # {}
  PROVE  Max(T) \in T /\ \A j \in T: j <= Max(T)
<1> DEFINE D == {n - j: j \in T}
<1>1. D \in SUBSET Nat /\ D # {}
  <2>1. \A j \in T: n - j \in Nat
    OBVIOUS
  <2>2. QED
    BY <2>1
<1>2. PICK low \in D: \A j \in D: low <= j
  <2> HIDE DEF D
  <2>1. QED
    BY <1>1, Smallest
<1>3. PICK k \in T: low = n - k
  OBVIOUS
<1>4. ASSUME NEW j \in T PROVE k >= j
  <2>1. n - j \in D
    OBVIOUS
  <2>2. n - k <= n - j
    BY <1>2, <1>3, <2>1
  <2>3. j \in Nat /\ k \in Nat
    OBVIOUS
  <2>4. QED
    BY <2>2, <2>3
<1>5. Max(T) \in T /\ \A j \in T: Max(T) >= j
  BY <1>4 DEF Max
<1>6. QED
  BY <1>5

LEMMA FoldExtends ==
  ASSUME NEW S, NEW X, NEW base \in S, NEW m \in Nat, NEW seq, NEW op \in [S \X X -> S],
         \A k \in 1..m + 1: seq[k] \in X,
         NEW g \in [SUBSET (1..m) -> S], Folds(g, m, base, op, seq)
  PROVE  \E h \in [SUBSET (1..m + 1) -> S]: Folds(h, m + 1, base, op, seq)
<1> DEFINE h == [T \in SUBSET (1..m + 1) |->
                   IF m + 1 \in T THEN op[<<g[T \ {m + 1}], seq[m + 1]>>] ELSE g[T]]
<1>1. ASSUME NEW T \in SUBSET (1..m + 1)
      PROVE  h[T] = IF T = {} THEN base ELSE op[<<h[T \ {Max(T)}], seq[Max(T)]>>]
  <2>1. CASE m + 1 \in T
    <3>1. Max(T) = m + 1
      BY <2>1, MaxOfRange
    <3>2. T \ {m + 1} \in SUBSET (1..m + 1) /\ ~(m + 1 \in T \ {m + 1})
      OBVIOUS
    <3>3. h[T \ {m + 1}] = g[T \ {m + 1}]
      BY <3>2
    <3>4. h[T] = op[<<g[T \ {m + 1}], seq[m + 1]>>]
      BY <2>1
    <3> HIDE DEF h
    <3>5. QED
      BY <2>1, <3>1, <3>3, <3>4
  <2>2. CASE ~(m + 1 \in T)
    <3>1. T \in SUBSET (1..m)
      BY <2>2
    <3>2. h[T] = g[T]
      BY <2>2
    <3>3. T \ {Max(T)} \in SUBSET (1..m + 1) /\ ~(m + 1 \in T \ {Max(T)})
      BY <2>2
    <3>4. h[T \ {Max(T)}] = g[T \ {Max(T)}]
      BY <3>3
    <3> HIDE DEF h
    <3>5. g[T] = IF T = {} THEN base ELSE op[<<g[T \ {Max(T)}], seq[Max(T)]>>]
      BY <3>1, Zenon DEF Folds
    <3>6. QED
      BY <3>2, <3>4, <3>5
  <2>3. QED
    BY <2>1, <2>2
<1>2. ASSUME NEW T \in SUBSET (1..m + 1) PROVE h[T] \in S
  <2>1. CASE m + 1 \in T
    <3>1. T \ {m + 1} \in SUBSET (1..m) /\ seq[m + 1] \in X
      OBVIOUS
    <3>2. g[T \ {m + 1}] \in S
      BY <3>1
    <3>3. QED
      BY <2>1, <3>1, <3>2
  <2>2. CASE ~(m + 1 \in T)
    <3>1. T \in SUBSET (1..m)
      BY <2>2
    <3>2. QED
      BY <2>2, <3>1
  <2>3. QED
    BY <2>1, <2>2
<1>3. h = [T \in SUBSET (1..m + 1) |-> h[T]]
  OBVIOUS
<1> HIDE DEF h
<1>4. Folds(h, m + 1, base, op, seq)
  BY <1>1, <1>3, Zenon DEF Folds
<1>5. h \in [SUBSET (1..m + 1) -> S]
  BY <1>2, <1>3
<1>6. QED
  BY <1>4, <1>5

LEMMA FoldExists ==
  ASSUME NEW S, NEW X, NEW base \in S, NEW n \in Nat, NEW seq, NEW op \in [S \X X -> S],
         \A k \in 1..n: seq[k] \in X
  PROVE  \E g \in [SUBSET (1..n) -> S]: Folds(g, n, base, op, seq)
<1> DEFINE Q(m) == \E g \in [SUBSET (1..m) -> S]: Folds(g, m, base, op, seq)
           P == {m \in Nat: m <= n => Q(m)}
<1>1. Q(0)
  <2> DEFINE g == [T \in SUBSET (1..0) |-> base]
  <2>1. \A T \in SUBSET (1..0): T = {}
    OBVIOUS
  <2>2. g = [T \in SUBSET (1..0) |->
               IF T = {} THEN base ELSE op[<<g[T \ {Max(T)}], seq[Max(T)]>>]]
    BY <2>1, Zenon
  <2>3. g \in [SUBSET (1..0) -> S]
    OBVIOUS
  <2> HIDE DEF g
  <2>4. Folds(g, 0, base, op, seq)
    BY <2>2, Zenon DEF Folds
  <2>5. QED
    BY <2>3, <2>4
<1>2. ASSUME NEW m \in Nat, m + 1 <= n, Q(m) PROVE Q(m + 1)
  <2>1. PICK g \in [SUBSET (1..m) -> S]: Folds(g, m, base, op, seq)
    BY <1>2
  <2>2. \A k \in 1..m + 1: seq[k] \in X
    BY <1>2
  <2>3. QED
    BY <2>1, <2>2, FoldExtends
<1> HIDE DEF Q
<1>3. 0 \in P
  BY <1>1
<1>4. \A m \in P: m + 1 \in P
  BY <1>2
<1>5. P \in SUBSET Nat
  OBVIOUS
<1> HIDE DEF P
<1>6. P = Nat
  BY <1>3, <1>4, <1>5, NatInduct
<1>7. Q(n)
  BY <1>6 DEF P
<1>8. QED
  BY <1>7 DEF Q

----------------------------------------------------------------------------
(* The fixer's pass over the issues *)

Edit(C) == [offset: Nat, old_len: Nat, replacement: Seq(C)]
FixState(C) == [out: Seq(C), cursor: Nat, skipUntil: Nat, declined: Nat, fixes: Seq(Edit(C))]
Finding(issue, C) ==
  issue.offset \in Nat /\ issue.length \in Nat /\ issue.suggestions \in Seq(Seq(C))
EditOf(issue) ==
  [offset |-> issue.offset, old_len |-> issue.length, replacement |-> issue.suggestions[1]]
EditEnd(edit) == edit.offset + edit.old_len

LEMMA OnlyOneSuggestion ==
  ASSUME NEW issue, NEW mode, FixVerdict(issue, mode) = "apply"
  PROVE  Len(issue.suggestions) = 1
<1>1. ByArity(issue) = "apply" => Len(issue.suggestions) = 1
  BY DEF ByArity
<1>2. LexicalVerdict(issue, mode) = "apply" => ByArity(issue) = "apply"
  BY DEF LexicalVerdict
<1>3. QED
  BY <1>1, <1>2 DEF FixVerdict

LEMMA MaxOfTwo ==
  ASSUME NEW a \in Nat, NEW b \in Nat
  PROVE  Max({a, b}) = IF a <= b THEN b ELSE a
<1>1. CASE a <= b
  <2>1. b \in {a, b} /\ \A y \in {a, b}: b >= y
    BY <1>1
  <2>2. \A x \in {a, b}: (\A y \in {a, b}: x >= y) => x = b
    BY <1>1
  <2>3. QED
    BY <1>1, <2>1, <2>2 DEF Max
<1>2. CASE ~(a <= b)
  <2>1. a \in {a, b} /\ \A y \in {a, b}: a >= y
    BY <1>2
  <2>2. \A x \in {a, b}: (\A y \in {a, b}: x >= y) => x = a
    BY <1>2
  <2>3. QED
    BY <1>2, <2>1, <2>2 DEF Max
<1>3. QED
  BY <1>1, <1>2

LEMMA CopiedIs ==
  ASSUME NEW C, NEW text \in Seq(C), NEW from \in Nat, NEW to \in Nat, from <= to, to <= Len(text)
  PROVE  /\ Copied(text, from, to) \in Seq(C)
         /\ Len(Copied(text, from, to)) = to - from
         /\ \A k \in 1..(to - from): Copied(text, from, to)[k] = text[from + k]
BY DEF Copied

\* An issue leaves the text as it is, perhaps raising the barrier, or is written behind
\* what has been written.
LeavesText(s, t, text, issue, barred) ==
  /\ t.out = s.out /\ t.cursor = s.cursor /\ t.fixes = s.fixes
  /\ t.skipUntil >= s.skipUntil /\ t.skipUntil \in {s.skipUntil, IssueEnd(issue)}
  /\ WritesInto(issue, barred) /\ IssueEnd(issue) <= Len(text) /\ ~Blocked(s, issue)
       => t.skipUntil >= IssueEnd(issue)
WritesText(s, t, text, mode, issue, barred) ==
  /\ IssueEnd(issue) <= Len(text) /\ ~Blocked(s, issue) /\ ~WritesInto(issue, barred)
  /\ FixVerdict(issue, mode) = "apply"
  /\ t.out = s.out \o Copied(text, s.cursor, issue.offset) \o issue.suggestions[1]
  /\ t.cursor = IssueEnd(issue) /\ t.fixes = Append(s.fixes, EditOf(issue))
  /\ t.skipUntil = s.skipUntil

LEMMA FixStepIs ==
  ASSUME NEW C, NEW text \in Seq(C), NEW mode, NEW barred, NEW s \in FixState(C),
         NEW issue, Finding(issue, C)
  PROVE  LET t == FixStep(text, mode, barred, s, issue)
         IN  /\ t \in FixState(C)
             /\ LeavesText(s, t, text, issue, barred)
                \/ WritesText(s, t, text, mode, issue, barred)
<1> DEFINE t == FixStep(text, mode, barred, s, issue)
           verdict == FixVerdict(issue, mode)
<1>1. IssueEnd(issue) \in Nat /\ issue.offset \in Nat /\ issue.offset <= IssueEnd(issue)
  BY DEF IssueEnd, Finding
<1>2. /\ s.out \in Seq(C) /\ s.cursor \in Nat /\ s.skipUntil \in Nat /\ s.declined \in Nat
      /\ s.fixes \in Seq(Edit(C))
  BY DEF FixState
<1>3. CASE IssueEnd(issue) > Len(text)
  <2>1. t = s
    BY <1>3 DEF FixStep
  <2>2. QED
    BY <1>1, <1>2, <1>3, <2>1 DEF LeavesText
<1>4. CASE ~(IssueEnd(issue) > Len(text)) /\ Blocked(s, issue)
  <2>1. t = s
    BY <1>4 DEF FixStep
  <2>2. QED
    BY <1>1, <1>2, <1>4, <2>1 DEF LeavesText
<1>5. CASE ~(IssueEnd(issue) > Len(text)) /\ ~Blocked(s, issue) /\ WritesInto(issue, barred)
  <2>1. t = [s EXCEPT !.skipUntil = Max({s.skipUntil, IssueEnd(issue)})]
    BY <1>5 DEF FixStep
  <2>2. /\ Max({s.skipUntil, IssueEnd(issue)}) \in {s.skipUntil, IssueEnd(issue)}
        /\ Max({s.skipUntil, IssueEnd(issue)}) >= s.skipUntil
        /\ Max({s.skipUntil, IssueEnd(issue)}) >= IssueEnd(issue)
    BY <1>1, <1>2, MaxOfTwo
  <2> DEFINE m == Max({s.skipUntil, IssueEnd(issue)})
  <2>3. m \in Nat
    BY <1>1, <1>2, <2>2
  <2> HIDE DEF m
  <2>4. t = [out |-> s.out, cursor |-> s.cursor, skipUntil |-> m, declined |-> s.declined,
             fixes |-> s.fixes]
    BY <2>1 DEF FixState, m
  <2> HIDE DEF t
  <2>5. t \in FixState(C)
    BY <1>2, <2>3, <2>4 DEF FixState
  <2>6. LeavesText(s, t, text, issue, barred)
    BY <2>2, <2>4 DEF LeavesText, m
  <2>7. QED
    BY <2>5, <2>6 DEF t
<1>6. CASE /\ ~(IssueEnd(issue) > Len(text)) /\ ~Blocked(s, issue) /\ ~WritesInto(issue, barred)
           /\ verdict = "apply"
  <2>1. Len(issue.suggestions) = 1
    BY <1>6, OnlyOneSuggestion
  <2>2. issue.suggestions[1] \in Seq(C)
    BY <2>1 DEF Finding
  <2>3. IssueEnd(issue) <= Len(text) /\ s.cursor <= issue.offset /\ issue.offset <= Len(text)
    BY <1>1, <1>2, <1>6 DEF Blocked
  <2>4. Copied(text, s.cursor, issue.offset) \in Seq(C)
    BY <1>1, <1>2, <2>3, CopiedIs
  <2> DEFINE copied == Copied(text, s.cursor, issue.offset)
             written == issue.suggestions[1]
             edit == EditOf(issue)
  <2>5. edit \in Edit(C)
    BY <2>2 DEF EditOf, Edit, Finding
  <2>6. t = [out |-> s.out \o copied \o written, cursor |-> IssueEnd(issue),
             skipUntil |-> s.skipUntil, declined |-> s.declined, fixes |-> Append(s.fixes, edit)]
    BY <1>6 DEF FixStep, FixState, EditOf
  <2>7. s.out \o copied \o written \in Seq(C) /\ Append(s.fixes, edit) \in Seq(Edit(C))
    <3> HIDE DEF copied, written, edit
    <3>1. copied \in Seq(C) /\ written \in Seq(C)
      BY <2>2, <2>4 DEF copied, written
    <3>2. s.out \o copied \in Seq(C)
      BY <1>2, <3>1
    <3>3. (s.out \o copied) \o written \in Seq(C)
      BY <3>1, <3>2
    <3>4. Append(s.fixes, edit) \in Seq(Edit(C))
      BY <1>2, <2>5
    <3>5. QED
      BY <3>3, <3>4
  <2>8. t \in FixState(C)
    <3> HIDE DEF t, copied, written, edit
    <3>1. QED
      BY <1>1, <1>2, <2>6, <2>7 DEF FixState
  <2>9. WritesText(s, t, text, mode, issue, barred)
    <3> HIDE DEF t
    <3>1. QED
      BY <1>6, <2>3, <2>6 DEF WritesText
  <2>10. QED
    BY <2>8, <2>9
<1>7. CASE /\ ~(IssueEnd(issue) > Len(text)) /\ ~Blocked(s, issue) /\ ~WritesInto(issue, barred)
           /\ verdict # "apply"
  <2>1. t = s \/ t = [s EXCEPT !.declined = s.declined + 1]
    BY <1>7 DEF FixStep
  <2>2. t \in FixState(C) /\ t.out = s.out /\ t.cursor = s.cursor /\ t.fixes = s.fixes
        /\ t.skipUntil = s.skipUntil
    BY <1>2, <2>1 DEF FixState
  <2>3. LeavesText(s, t, text, issue, barred)
    <3> HIDE DEF t
    <3>1. QED
      BY <1>2, <1>7, <2>2 DEF LeavesText
  <2>4. QED
    BY <2>2, <2>3
<1>8. QED
  BY <1>3, <1>4, <1>5, <1>6, <1>7

NothingFixed == [out |-> <<>>, cursor |-> 0, skipUntil |-> 0, declined |-> 0, fixes |-> <<>>]

LEMMA NothingFixedYet == ASSUME NEW C PROVE NothingFixed \in FixState(C)
<1>1. <<>> \in Seq(C) /\ <<>> \in Seq(Edit(C))
  OBVIOUS
<1>2. QED
  BY <1>1 DEF NothingFixed, FixState

\* The states of the fixer, issue by issue.
FixRun(h, C, text, issues, mode, barred) ==
  /\ h \in [0..Len(issues) -> FixState(C)]
  /\ h[0] = NothingFixed
  /\ \A k \in 1..Len(issues): h[k] = FixStep(text, mode, barred, h[k - 1], issues[k])

\* What is returned is what the last of those states holds.
Returns(h, text, issues, mode, excluded) ==
  /\ ApplyFixes(text, issues, mode, excluded).text =
       h[Len(issues)].out \o Copied(text, h[Len(issues)].cursor, Len(text))
  /\ ApplyFixes(text, issues, mode, excluded).fixes = h[Len(issues)].fixes
  /\ ApplyFixes(text, issues, mode, excluded).applied = Len(h[Len(issues)].fixes)

LEMMA FixerRuns ==
  ASSUME NEW C, NEW text \in Seq(C), NEW X, NEW issues \in Seq(X),
         \A k \in 1..Len(issues): Finding(issues[k], C),
         NEW mode, mode # 0, NEW excluded
  PROVE  \E h: FixRun(h, C, text, issues, mode, Normalized(excluded))
               /\ Returns(h, text, issues, mode, excluded)
<1> DEFINE n == Len(issues)
           barred == Normalized(excluded)
           Y == {issue \in X: Finding(issue, C)}
           S == FixState(C)
           op == [p \in S \X Y |-> FixStep(text, mode, barred, p[1], p[2])]
           Is(g) == g = [T \in SUBSET DOMAIN issues |->
                            IF T = {} THEN NothingFixed
                            ELSE FixStep(text, mode, barred, g[T \ {Max(T)}], issues[Max(T)])]
<1>1. n \in Nat /\ DOMAIN issues = 1..n /\ \A k \in 1..n: issues[k] \in Y
  OBVIOUS
<1>2. op \in [S \X Y -> S]
  <2>1. ASSUME NEW s \in S, NEW issue \in Y PROVE FixStep(text, mode, barred, s, issue) \in S
    <3>1. Finding(issue, C)
      OBVIOUS
    <3> HIDE DEF Y, op, barred
    <3>2. QED
      BY <3>1, FixStepIs
  <2> HIDE DEF S, Y, barred
  <2>2. \A p \in S \X Y: FixStep(text, mode, barred, p[1], p[2]) \in S
    BY <2>1
  <2>3. QED
    BY <2>2
<1>3. PICK g \in [SUBSET (1..n) -> S]: Folds(g, n, NothingFixed, op, issues)
  <2>1. NothingFixed \in S
    BY NothingFixedYet
  <2> HIDE DEF S, Y, op, n
  <2>2. QED
    BY <1>1, <1>2, <2>1, FoldExists
<1>4. Is(g)
  <2> HIDE DEF S, Y, barred, n, op
  <2>1. ASSUME NEW T \in SUBSET (1..n), T # {}
        PROVE  op[<<g[T \ {Max(T)}], issues[Max(T)]>>]
                   = FixStep(text, mode, barred, g[T \ {Max(T)}], issues[Max(T)])
    <3>1. Max(T) \in T
      BY <1>1, <2>1, MaxIsIn
    <3>2. issues[Max(T)] \in Y /\ T \ {Max(T)} \in SUBSET (1..n)
      BY <1>1, <3>1
    <3>3. g[T \ {Max(T)}] \in S
      BY <1>3, <3>2
    <3>4. QED
      BY <3>2, <3>3 DEF op
  <2>2. g = [T \in SUBSET (1..n) |->
               IF T = {} THEN NothingFixed ELSE op[<<g[T \ {Max(T)}], issues[Max(T)]>>]]
    BY <1>3 DEF Folds
  <2>3. g = [T \in SUBSET (1..n) |->
               IF T = {} THEN NothingFixed
               ELSE FixStep(text, mode, barred, g[T \ {Max(T)}], issues[Max(T)])]
    BY <2>1, <2>2, Zenon
  <2>4. QED
    BY <1>1, <2>3, Zenon
<1> DEFINE f == CHOOSE iter: Is(iter)
<1>5. Is(f)
  <2> HIDE DEF Is
  <2>1. QED
    BY <1>4, Zenon
<1>6. FoldLeft(LAMBDA state, issue: FixStep(text, mode, barred, state, issue), NothingFixed, issues)
        = f[1..n]
  <2>1. FoldLeft(LAMBDA state, issue: FixStep(text, mode, barred, state, issue), NothingFixed, issues)
          = f[DOMAIN issues]
    <3> HIDE DEF barred
    <3>1. QED
      BY Zenon DEF FoldLeft, MapThenFoldSet
  <2>2. QED
    BY <1>1, <2>1
<1> DEFINE h == [k \in 0..n |-> f[1..k]]
<1>7. h[0] = NothingFixed
  <2>1. 0 \in 0..n /\ 1..0 = {} /\ {} \in SUBSET DOMAIN issues
    BY <1>1
  <2> HIDE DEF f, n
  <2>2. f[{}] = NothingFixed
    BY <1>5, <2>1
  <2>3. QED
    BY <2>1, <2>2
<1>8. ASSUME NEW k \in 1..n PROVE h[k] = FixStep(text, mode, barred, h[k - 1], issues[k])
  <2> HIDE DEF f, n, barred
  <2> DEFINE T == 1..k
             j == k - 1
  <2>1. k \in 0..n /\ k - 1 \in 0..n /\ k - 1 \in Nat /\ (k - 1) + 1 = k
    BY <1>1
  <2>2. T \in SUBSET DOMAIN issues /\ T # {} /\ T \ {k} = 1..(k - 1)
    BY <1>1, <2>1
  <2>3. Max(T) = k
    <3>1. T \in SUBSET (1..j + 1) /\ j + 1 \in T /\ j \in Nat /\ j + 1 = k
      BY <2>1
    <3> HIDE DEF T, j
    <3>2. QED
      BY <3>1, MaxOfRange
  <2> HIDE DEF T
  <2>4. f[T] = FixStep(text, mode, barred, f[T \ {Max(T)}], issues[Max(T)])
    BY <1>5, <2>2, Zenon
  <2>5. h[k] = f[T] /\ h[k - 1] = f[T \ {k}]
    BY <2>1, <2>2 DEF T
  <2>6. QED
    BY <2>3, <2>4, <2>5
<1>9. \A k \in 0..n: h[k] \in S
  <2> DEFINE P == {m \in Nat: m <= n => h[m] \in S}
  <2>1. 0 \in P
    <3> HIDE DEF h
    <3>1. QED
      BY <1>7, NothingFixedYet
  <2>2. ASSUME NEW m \in P PROVE m + 1 \in P
    <3>1. SUFFICES ASSUME m + 1 <= n PROVE h[m + 1] \in S
      OBVIOUS
    <3> HIDE DEF h
    <3>2. m \in Nat /\ h[m] \in S
      BY <1>1, <3>1
    <3> HIDE DEF P, n, barred
    <3>3. m + 1 \in 1..n /\ (m + 1) - 1 = m
      BY <1>1, <3>1, <3>2
    <3>4. h[m + 1] = FixStep(text, mode, barred, h[m], issues[m + 1])
      BY <1>8, <3>3
    <3>5. Finding(issues[m + 1], C)
      BY <3>3 DEF n
    <3>6. QED
      BY <3>2, <3>4, <3>5, FixStepIs
  <2>3. P \in SUBSET Nat
    OBVIOUS
  <2> HIDE DEF P, h
  <2>4. P = Nat
    BY <2>1, <2>2, <2>3, NatInduct
  <2>5. QED
    BY <1>1, <2>4 DEF P
<1>10. FixRun(h, C, text, issues, mode, barred)
  <2>1. h \in [0..n -> S]
    <3> HIDE DEF f, n, S
    <3>1. QED
      BY <1>9
  <2> HIDE DEF h, barred
  <2>2. QED
    BY <1>7, <1>8, <2>1 DEF FixRun
<1> DEFINE done == h[n]
           fixed == ApplyFixes(text, issues, mode, excluded)
<1>11. done = FoldLeft(LAMBDA state, issue: FixStep(text, mode, barred, state, issue),
                       NothingFixed, issues)
  <2> HIDE DEF f, barred, n
  <2>1. n \in 0..n
    BY <1>1
  <2>2. h[n] = f[1..n]
    BY <2>1
  <2>3. QED
    BY <1>6, <2>2
<1>12. /\ fixed.text = done.out \o Copied(text, done.cursor, Len(text))
       /\ fixed.fixes = done.fixes /\ fixed.applied = Len(done.fixes)
  <2> HIDE DEF h
  <2>1. fixed = [text |-> done.out \o Copied(text, done.cursor, Len(text)),
                 applied |-> Len(done.fixes),
                 skipped |-> IF mode = 0 THEN 0 ELSE Len(issues) - Len(done.fixes),
                 declined |-> done.declined, fixes |-> done.fixes]
    <3> HIDE DEF done
    <3>1. QED
      BY <1>11, Zenon DEF ApplyFixes, NothingFixed
  <2> HIDE DEF fixed, done
  <2>2. QED
    BY <2>1
<1> HIDE DEF h, barred
<1>13. Returns(h, text, issues, mode, excluded)
  BY <1>12 DEF Returns
<1>14. FixRun(h, C, text, issues, mode, Normalized(excluded))
  BY <1>10 DEF barred
<1>15. QED
  BY <1>13, <1>14

\* An issue that is left because it writes into an excluded range, with nothing before it
\* that reaches into it.
Bars(j, text, issues, barred) ==
  /\ WritesInto(issues[j], barred) /\ IssueEnd(issues[j]) <= Len(text)
  /\ \A i \in 1..(j - 1): IssueEnd(issues[i]) <= issues[j].offset

\* One fix, made from an issue.
FixIs(edit, m, text, issues, mode, barred) ==
  /\ edit = EditOf(issues[m]) /\ EditEnd(edit) <= Len(text)
  /\ FixVerdict(issues[m], mode) = "apply" /\ ~WritesInto(issues[m], barred)
  /\ issues[m].type = "grammar" =>
       \A j \in 1..(m - 1): Bars(j, text, issues, barred) => IssueEnd(issues[j]) <= edit.offset

\* The fixes, and the issues from among the first k that they were made from.
FixesAre(fixes, src, k, text, issues, mode, barred) ==
  /\ src \in [1..Len(fixes) -> 1..k]
  /\ \A i, j \in 1..Len(fixes): i < j => src[i] < src[j] /\ EditEnd(fixes[i]) <= fixes[j].offset
  /\ \A i \in 1..Len(fixes): FixIs(fixes[i], src[i], text, issues, mode, barred)

Ends(k, issues) == {0} \cup {IssueEnd(issues[i]): i \in 1..k}

FixedSoFar(s, k, text, issues, mode, barred) ==
  /\ s.cursor \in Ends(k, issues) /\ s.skipUntil \in Ends(k, issues) /\ s.cursor <= Len(text)
  /\ \A j \in 1..k: Bars(j, text, issues, barred) => s.skipUntil >= IssueEnd(issues[j])
  /\ \E src: /\ FixesAre(s.fixes, src, k, text, issues, mode, barred)
             /\ \A i \in 1..Len(s.fixes): EditEnd(s.fixes[i]) <= s.cursor

LEMMA FixesGrow ==
  ASSUME NEW C, NEW text \in Seq(C), NEW X, NEW issues \in Seq(X),
         \A k \in 1..Len(issues): Finding(issues[k], C),
         NEW mode, NEW barred, NEW k \in Nat, k + 1 <= Len(issues),
         NEW s \in FixState(C), NEW t \in FixState(C),
         FixedSoFar(s, k, text, issues, mode, barred),
         LeavesText(s, t, text, issues[k + 1], barred)
           \/ WritesText(s, t, text, mode, issues[k + 1], barred)
  PROVE  FixedSoFar(t, k + 1, text, issues, mode, barred)
<1> DEFINE issue == issues[k + 1]
           end == IssueEnd(issue)
           B(j) == Bars(j, text, issues, barred)
           F(e, m) == FixIs(e, m, text, issues, mode, barred)
           E(m) == Ends(m, issues)
<1>1. k + 1 \in 1..Len(issues) /\ Finding(issue, C) /\ k \in Nat /\ Len(text) \in Nat
  OBVIOUS
<1>2. issue.offset \in Nat /\ issue.length \in Nat /\ end \in Nat /\ issue.offset <= end
      /\ end = issue.offset + issue.length
  BY <1>1 DEF Finding, IssueEnd
<1>3. /\ s.cursor \in Nat /\ s.skipUntil \in Nat /\ s.fixes \in Seq(Edit(C))
      /\ t.cursor \in Nat /\ t.skipUntil \in Nat /\ t.fixes \in Seq(Edit(C))
  BY DEF FixState
<1>4. E(k) \subseteq E(k + 1) /\ end \in E(k + 1)
  <2>1. 1..k \subseteq 1..(k + 1) /\ k + 1 \in 1..(k + 1)
    BY <1>1
  <2>2. QED
    BY <2>1 DEF Ends
<1>5. \A j \in 1..(k + 1): j \in 1..k \/ j = k + 1
  BY <1>1
<1>6. ASSUME B(k + 1) PROVE s.cursor <= issue.offset /\ s.skipUntil <= issue.offset
                            /\ WritesInto(issue, barred) /\ end <= Len(text)
  <2>1. (k + 1) - 1 = k
    BY <1>1
  <2>2. \A i \in 1..k: IssueEnd(issues[i]) <= issue.offset
    BY <1>6, <2>1 DEF Bars
  <2>3. WritesInto(issue, barred) /\ end <= Len(text)
    BY <1>6 DEF Bars
  <2>4. \A x \in E(k): x <= issue.offset
    BY <1>2, <2>2 DEF Ends
  <2>5. s.cursor \in E(k) /\ s.skipUntil \in E(k)
    BY DEF FixedSoFar
  <2>6. QED
    BY <2>3, <2>4, <2>5
<1>7. s.cursor \in E(k) /\ s.skipUntil \in E(k) /\ s.cursor <= Len(text)
      /\ \A j \in 1..k: B(j) => s.skipUntil >= IssueEnd(issues[j])
  BY DEF FixedSoFar
<1>8. PICK src: /\ FixesAre(s.fixes, src, k, text, issues, mode, barred)
                /\ \A i \in 1..Len(s.fixes): EditEnd(s.fixes[i]) <= s.cursor
  BY DEF FixedSoFar
<1> DEFINE n == Len(s.fixes)
<1>9. n \in Nat
  BY <1>3
<1>10. /\ src \in [1..n -> 1..k]
       /\ \A i, j \in 1..n: i < j => src[i] < src[j] /\ EditEnd(s.fixes[i]) <= s.fixes[j].offset
       /\ \A i \in 1..n: F(s.fixes[i], src[i])
  BY <1>8 DEF FixesAre
<1>11. \A j \in 1..k: IssueEnd(issues[j]) \in Nat
  <2>1. ASSUME NEW j \in 1..k PROVE IssueEnd(issues[j]) \in Nat
    <3>1. j \in 1..Len(issues)
      BY <1>1
    <3>2. Finding(issues[j], C)
      BY <3>1
    <3>3. QED
      BY <3>2 DEF Finding, IssueEnd
  <2>2. QED
    BY <2>1
<1>12. CASE LeavesText(s, t, text, issue, barred)
  <2>1. /\ t.cursor = s.cursor /\ t.fixes = s.fixes /\ t.skipUntil >= s.skipUntil
        /\ t.skipUntil \in {s.skipUntil, end}
        /\ WritesInto(issue, barred) /\ end <= Len(text) /\ ~Blocked(s, issue)
             => t.skipUntil >= end
    BY <1>12 DEF LeavesText
  <2> HIDE DEF issue, end, B, F, E, n
  <2>2. t.cursor \in E(k + 1) /\ t.skipUntil \in E(k + 1) /\ t.cursor <= Len(text)
    BY <1>4, <1>7, <2>1
  <2>3. ASSUME B(k + 1) PROVE t.skipUntil >= end
    <3>1. ~Blocked(s, issue)
      BY <1>2, <1>3, <1>6, <2>3 DEF Blocked
    <3>2. QED
      BY <1>6, <2>1, <2>3, <3>1
  <2>4. ASSUME NEW j \in 1..(k + 1), B(j) PROVE t.skipUntil >= IssueEnd(issues[j])
    <3>1. CASE j \in 1..k
      BY <1>3, <1>7, <1>11, <2>1, <2>4, <3>1
    <3>2. CASE j = k + 1
      BY <2>3, <2>4, <3>2 DEF issue, end
    <3>3. QED
      BY <1>5, <3>1, <3>2
  <2>5. src \in [1..n -> 1..(k + 1)]
    <3>1. 1..k \subseteq 1..(k + 1)
      BY <1>1
    <3>2. QED
      BY <1>10, <3>1
  <2>6. FixesAre(t.fixes, src, k + 1, text, issues, mode, barred)
    BY <1>10, <2>1, <2>5 DEF FixesAre, n, F
  <2>7. QED
    BY <1>8, <2>1, <2>2, <2>4, <2>6 DEF FixedSoFar, B, E
<1>13. CASE WritesText(s, t, text, mode, issue, barred)
  <2> DEFINE edit == EditOf(issue)
             to == [i \in 1..(n + 1) |-> IF i <= n THEN src[i] ELSE k + 1]
  <2>1. /\ end <= Len(text) /\ ~Blocked(s, issue) /\ ~WritesInto(issue, barred)
        /\ FixVerdict(issue, mode) = "apply"
        /\ t.cursor = end /\ t.skipUntil = s.skipUntil /\ t.fixes = Append(s.fixes, edit)
    BY <1>13 DEF WritesText
  <2>2. edit.offset = issue.offset /\ EditEnd(edit) = end
    BY <1>2 DEF EditOf, EditEnd
  <2>3. s.cursor <= issue.offset /\ (issue.type = "grammar" => s.skipUntil <= issue.offset)
    BY <1>2, <1>3, <2>1 DEF Blocked
  <2>4. /\ Len(t.fixes) = n + 1 /\ t.fixes[n + 1] = edit
        /\ \A i \in 1..n: t.fixes[i] = s.fixes[i]
    BY <1>3, <2>1
  <2>5. ~B(k + 1)
    BY <2>1 DEF Bars
  <2> HIDE DEF issue, end, B, F, E, n, edit
  <2>6. \A i \in 1..(n + 1): i \in 1..n \/ i = n + 1
    BY <1>9
  <2>7. /\ \A i \in 1..n: to[i] = src[i] /\ i \in 1..(n + 1) /\ i <= n
        /\ to[n + 1] = k + 1 /\ \A i \in 1..n: src[i] \in 1..k
    BY <1>9, <1>10
  <2>8. to \in [1..(n + 1) -> 1..(k + 1)]
    <3>1. \A i \in 1..(n + 1): to[i] \in 1..(k + 1)
      BY <1>1, <2>6, <2>7
    <3>2. QED
      BY <3>1
  <2> HIDE DEF to
  <2>9. ASSUME NEW i \in 1..(n + 1), NEW j \in 1..(n + 1), i < j
        PROVE  to[i] < to[j] /\ EditEnd(t.fixes[i]) <= t.fixes[j].offset
    <3>1. i \in 1..n
      BY <1>9, <2>6, <2>9
    <3>2. CASE j \in 1..n
      BY <1>10, <2>4, <2>7, <2>9, <3>1, <3>2
    <3>3. CASE j = n + 1
      <4>1. to[i] \in 1..k /\ to[j] = k + 1
        BY <2>7, <3>1, <3>3
      <4>2. EditEnd(s.fixes[i]) <= s.cursor /\ t.fixes[i] = s.fixes[i]
        BY <1>8, <2>4, <3>1 DEF n
      <4>3. t.fixes[j].offset = issue.offset
        BY <2>2, <2>4, <3>3
      <4>4. s.fixes[i] \in Edit(C)
        BY <1>3, <3>1 DEF n
      <4>5. EditEnd(s.fixes[i]) \in Nat
        BY <4>4 DEF Edit, EditEnd
      <4>6. EditEnd(s.fixes[i]) <= issue.offset
        <5> DEFINE past == EditEnd(s.fixes[i])
        <5>1. past \in Nat /\ past <= s.cursor /\ s.cursor \in Nat /\ s.cursor <= issue.offset
              /\ issue.offset \in Nat
          BY <1>2, <1>3, <2>3, <4>2, <4>5
        <5> HIDE DEF past
        <5>2. past <= issue.offset
          BY <5>1
        <5>3. QED
          BY <5>2 DEF past
      <4>7. QED
        BY <1>1, <4>1, <4>2, <4>3, <4>6
    <3>4. QED
      BY <2>6, <3>2, <3>3
  <2>10. F(edit, k + 1)
    <3>1. (k + 1) - 1 = k
      BY <1>1
    <3>2. ASSUME issue.type = "grammar", NEW j \in 1..k, B(j)
          PROVE  IssueEnd(issues[j]) <= edit.offset
      <4>1. IssueEnd(issues[j]) <= s.skipUntil /\ IssueEnd(issues[j]) \in Nat
        BY <1>3, <1>7, <1>11, <3>2
      <4>2. s.skipUntil <= edit.offset /\ edit.offset \in Nat
        BY <1>2, <2>2, <2>3, <3>2
      <4>3. QED
        BY <1>3, <4>1, <4>2
    <3>3. edit = EditOf(issues[k + 1]) /\ EditEnd(edit) <= Len(text)
      BY <2>1, <2>2 DEF edit, issue
    <3>4. QED
      BY <2>1, <3>1, <3>2, <3>3 DEF FixIs, F, B, issue
  <2>11. ASSUME NEW i \in 1..(n + 1) PROVE F(t.fixes[i], to[i])
    BY <1>10, <2>4, <2>6, <2>7, <2>10
  <2>12. FixesAre(t.fixes, to, k + 1, text, issues, mode, barred)
    BY <2>4, <2>8, <2>9, <2>11 DEF FixesAre, F
  <2>13. ASSUME NEW i \in 1..(n + 1) PROVE EditEnd(t.fixes[i]) <= t.cursor
    <3>1. CASE i = n + 1
      BY <1>2, <2>1, <2>2, <2>4, <3>1
    <3>2. CASE i \in 1..n
      <4>1. EditEnd(s.fixes[i]) <= s.cursor /\ t.fixes[i] = s.fixes[i]
        BY <1>8, <2>4, <3>2 DEF n
      <4>2. s.fixes[i] \in Edit(C)
        BY <1>3, <3>2 DEF n
      <4>3. EditEnd(s.fixes[i]) \in Nat
        BY <4>2 DEF Edit, EditEnd
      <4>4. QED
        BY <1>2, <1>3, <2>1, <2>3, <4>1, <4>3
    <3>3. QED
      BY <2>6, <3>1, <3>2
  <2>14. \A j \in 1..(k + 1): B(j) => t.skipUntil >= IssueEnd(issues[j])
    BY <1>5, <1>7, <2>1, <2>5
  <2>15. t.cursor \in E(k + 1) /\ t.skipUntil \in E(k + 1) /\ t.cursor <= Len(text)
    BY <1>4, <1>7, <2>1
  <2>16. QED
    BY <2>4, <2>12, <2>13, <2>14, <2>15 DEF FixedSoFar, B, E
<1>14. QED
  BY <1>12, <1>13

LEMMA FixedAllAlong ==
  ASSUME NEW C, NEW text \in Seq(C), NEW X, NEW issues \in Seq(X),
         \A k \in 1..Len(issues): Finding(issues[k], C),
         NEW mode, NEW barred, NEW h, FixRun(h, C, text, issues, mode, barred)
  PROVE  \A k \in 0..Len(issues): FixedSoFar(h[k], k, text, issues, mode, barred)
<1> DEFINE n == Len(issues)
           Q(k) == FixedSoFar(h[k], k, text, issues, mode, barred)
           P == {k \in Nat: k <= n => Q(k)}
<1>1. n \in Nat
  OBVIOUS
<1>2. Q(0)
  <2> DEFINE none == [i \in 1..0 |-> 0]
  <2>1. h[0] = NothingFixed
    BY DEF FixRun
  <2>2. 1..0 = {} /\ 1..Len(<<>>) = {} /\ Len(text) \in Nat /\ Len(<<>>) = 0
    OBVIOUS
  <2>3. none \in [1..0 -> 1..0]
    BY <2>2
  <2> HIDE DEF none
  <2>4. FixesAre(<<>>, none, 0, text, issues, mode, barred)
    BY <2>2, <2>3 DEF FixesAre
  <2>5. QED
    BY <2>1, <2>2, <2>4 DEF FixedSoFar, NothingFixed, Ends
<1>3. ASSUME NEW k \in Nat, k + 1 <= n, Q(k) PROVE Q(k + 1)
  <2>1. k \in 0..n /\ k + 1 \in 0..n /\ k + 1 \in 1..n /\ (k + 1) - 1 = k
    BY <1>1, <1>3
  <2>2. /\ h[k] \in FixState(C) /\ h[k + 1] \in FixState(C)
        /\ h[k + 1] = FixStep(text, mode, barred, h[k], issues[k + 1])
    BY <2>1 DEF FixRun
  <2>3. Finding(issues[k + 1], C)
    BY <2>1
  <2>4. LeavesText(h[k], h[k + 1], text, issues[k + 1], barred)
          \/ WritesText(h[k], h[k + 1], text, mode, issues[k + 1], barred)
    BY <2>2, <2>3, FixStepIs
  <2>5. QED
    BY <1>3, <2>2, <2>4, FixesGrow
<1> HIDE DEF Q
<1>4. 0 \in P /\ \A k \in P: k + 1 \in P
  BY <1>1, <1>2, <1>3
<1>5. P \in SUBSET Nat
  OBVIOUS
<1> HIDE DEF P
<1>6. P = Nat
  BY <1>4, <1>5, NatInduct
<1>7. \A k \in 0..n: Q(k)
  BY <1>1, <1>6 DEF P
<1>8. QED
  BY <1>7 DEF Q

\* Whatever the issues, in whatever order, the fixes lie one behind the other in the text,
\* each is of an issue that the verdict lets through and that writes into no excluded
\* range, and no grammar issue is rewritten inside a span that was left because it does.
THEOREM FixesAreApart ==
  ASSUME NEW C, NEW text \in Seq(C), NEW X, NEW issues \in Seq(X),
         \A k \in 1..Len(issues): Finding(issues[k], C), NEW mode, NEW excluded
  PROVE  \E src: FixesAre(ApplyFixes(text, issues, mode, excluded).fixes, src, Len(issues),
                          text, issues, mode, Normalized(excluded))
<1>1. CASE mode # 0
  <2> DEFINE n == Len(issues)
  <2>1. \E h: FixRun(h, C, text, issues, mode, Normalized(excluded))
               /\ Returns(h, text, issues, mode, excluded)
    BY <1>1, FixerRuns
  <2>2. PICK h: FixRun(h, C, text, issues, mode, Normalized(excluded))
               /\ Returns(h, text, issues, mode, excluded)
    BY <2>1
  <2>3. FixedSoFar(h[n], n, text, issues, mode, Normalized(excluded))
    <3>1. n \in 0..n
      OBVIOUS
    <3>2. QED
      BY <2>2, <3>1, FixedAllAlong
  <2>4. PICK src: FixesAre(h[n].fixes, src, n, text, issues, mode, Normalized(excluded))
    BY <2>3 DEF FixedSoFar
  <2>5. ApplyFixes(text, issues, mode, excluded).fixes = h[n].fixes
    BY <2>2 DEF Returns
  <2>6. QED
    BY <2>4, <2>5
<1>2. CASE mode = 0
  <2> DEFINE none == [i \in 1..0 |-> 0]
  <2>1. ApplyFixes(text, issues, mode, excluded).fixes = <<>>
    BY <1>2 DEF ApplyFixes
  <2>2. 1..0 = {} /\ Len(<<>>) = 0
    OBVIOUS
  <2>3. none \in [1..0 -> 1..Len(issues)]
    BY <2>2
  <2> HIDE DEF none
  <2>4. FixesAre(<<>>, none, Len(issues), text, issues, mode, Normalized(excluded))
    BY <2>2, <2>3 DEF FixesAre
  <2>5. QED
    BY <2>1, <2>4
<1>3. QED
  BY <1>1, <1>2

----------------------------------------------------------------------------
(* Sums along a sequence *)

PartialSums(d, seq, w) ==
  /\ d \in [0..Len(seq) -> Int] /\ d[0] = 0
  /\ \A k \in 1..Len(seq): d[k] = d[k - 1] + w[seq[k]]

\* `g` sums the weights of every set of places.
SumsSets(g, seq, w) ==
  g = [T \in SUBSET DOMAIN seq |-> IF T = {} THEN 0 ELSE g[T \ {Max(T)}] + w[seq[Max(T)]]]

LEMMA SetsAreSummed ==
  ASSUME NEW E, NEW seq \in Seq(E), NEW w \in [E -> Int]
  PROVE  \E g: SumsSets(g, seq, w)
<1> DEFINE n == Len(seq)
           op == [p \in Int \X E |-> p[1] + w[p[2]]]
<1>1. n \in Nat /\ DOMAIN seq = 1..n /\ \A k \in 1..n: seq[k] \in E
  OBVIOUS
<1>2. op \in [Int \X E -> Int]
  OBVIOUS
<1>3. PICK g \in [SUBSET (1..n) -> Int]: Folds(g, n, 0, op, seq)
  <2> HIDE DEF n, op
  <2>1. 0 \in Int
    OBVIOUS
  <2>2. QED
    BY <1>1, <1>2, <2>1, FoldExists
<1>4. ASSUME NEW T \in SUBSET (1..n), T # {}
      PROVE  op[<<g[T \ {Max(T)}], seq[Max(T)]>>] = g[T \ {Max(T)}] + w[seq[Max(T)]]
  <2> HIDE DEF n, op
  <2>1. Max(T) \in T
    BY <1>1, <1>4, MaxIsIn
  <2>2. seq[Max(T)] \in E /\ T \ {Max(T)} \in SUBSET (1..n)
    BY <1>1, <2>1
  <2>3. g[T \ {Max(T)}] \in Int
    BY <1>3, <2>2
  <2>4. QED
    BY <2>2, <2>3 DEF op
<1> HIDE DEF n, op
<1>5. g = [T \in SUBSET (1..n) |->
             IF T = {} THEN 0 ELSE op[<<g[T \ {Max(T)}], seq[Max(T)]>>]]
  BY <1>3 DEF Folds
<1>6. g = [T \in SUBSET (1..n) |-> IF T = {} THEN 0 ELSE g[T \ {Max(T)}] + w[seq[Max(T)]]]
  BY <1>4, <1>5, Zenon
<1>7. QED
  BY <1>1, <1>6, Zenon DEF SumsSets

LEMMA SumsAreSums ==
  ASSUME NEW E, NEW seq \in Seq(E), NEW w \in [E -> Int], NEW g, SumsSets(g, seq, w)
  PROVE  PartialSums([k \in 0..Len(seq) |-> g[1..k]], seq, w)
<1> DEFINE n == Len(seq)
           d == [k \in 0..n |-> g[1..k]]
<1>1. n \in Nat /\ DOMAIN seq = 1..n /\ \A k \in 1..n: seq[k] \in E
  OBVIOUS
<1>2. d[0] = 0
  <2>1. 0 \in 0..n /\ 1..0 = {} /\ {} \in SUBSET DOMAIN seq
    BY <1>1
  <2>2. g[{}] = 0
    BY <2>1, Zenon DEF SumsSets
  <2> HIDE DEF n
  <2>3. QED
    BY <2>1, <2>2
<1>3. ASSUME NEW k \in 1..n PROVE d[k] = d[k - 1] + w[seq[k]]
  <2> HIDE DEF n
  <2> DEFINE T == 1..k
             j == k - 1
  <2>1. k \in 0..n /\ k - 1 \in 0..n /\ k - 1 \in Nat /\ (k - 1) + 1 = k
    BY <1>1
  <2>2. T \in SUBSET DOMAIN seq /\ T # {} /\ T \ {k} = 1..(k - 1)
    <3>1. T \subseteq 1..n /\ k \in T
      BY <1>1, <2>1
    <3>2. T \ {k} = 1..(k - 1)
      BY <2>1
    <3> HIDE DEF T
    <3>3. QED
      BY <1>1, <3>1, <3>2
  <2>3. Max(T) = k
    <3>1. j \in Nat /\ k = j + 1 /\ j + 1 \in T /\ T \in SUBSET (1..j + 1)
      BY <2>1
    <3> HIDE DEF T, j
    <3>2. QED
      BY <3>1, MaxOfRange
  <2> HIDE DEF T
  <2>4. g[T] = g[T \ {Max(T)}] + w[seq[Max(T)]]
    BY <2>2, Zenon DEF SumsSets
  <2>5. d[k] = g[T] /\ d[k - 1] = g[T \ {k}]
    BY <2>1, <2>2 DEF T
  <2>6. QED
    BY <2>3, <2>4, <2>5
<1>4. \A k \in 0..n: d[k] \in Int
  <2> DEFINE P == {m \in Nat: m <= n => d[m] \in Int}
  <2> HIDE DEF d
  <2>1. 0 \in P
    BY <1>2
  <2>2. ASSUME NEW m \in P PROVE m + 1 \in P
    <3>1. SUFFICES ASSUME m + 1 <= n PROVE d[m + 1] \in Int
      OBVIOUS
    <3>2. m \in Nat /\ d[m] \in Int
      BY <1>1, <3>1
    <3> HIDE DEF P, n
    <3>3. m + 1 \in 1..n /\ (m + 1) - 1 = m
      BY <1>1, <3>1, <3>2
    <3>4. d[m + 1] = d[m] + w[seq[m + 1]]
      BY <1>3, <3>3
    <3>5. w[seq[m + 1]] \in Int
      BY <1>1, <3>3
    <3>6. QED
      BY <3>2, <3>4, <3>5
  <2>3. P \in SUBSET Nat
    OBVIOUS
  <2> HIDE DEF P
  <2>4. P = Nat
    BY <2>1, <2>2, <2>3, NatInduct
  <2>5. QED
    BY <1>1, <2>4 DEF P
<1>5. d \in [0..n -> Int]
  BY <1>4
<1> HIDE DEF d
<1>6. PartialSums(d, seq, w)
  BY <1>2, <1>3, <1>5 DEF PartialSums
<1>7. QED
  BY <1>6 DEF d

\* Sums over sequences that weigh the same for a while are the same for as long.
LEMMA SameSums ==
  ASSUME NEW s, NEW t, NEW w, NEW v, NEW d, NEW e, NEW m \in Nat,
         Len(s) \in Nat, Len(t) \in Nat, m <= Len(s), m <= Len(t),
         PartialSums(d, s, w), PartialSums(e, t, v), \A k \in 1..m: w[s[k]] = v[t[k]]
  PROVE  \A k \in 0..m: d[k] = e[k]
<1> DEFINE P == {k \in Nat: k <= m => d[k] = e[k]}
<1>1. 0 \in P
  BY DEF PartialSums
<1>2. ASSUME NEW k \in P PROVE k + 1 \in P
  <2>1. SUFFICES ASSUME k + 1 <= m PROVE d[k + 1] = e[k + 1]
    OBVIOUS
  <2>2. k \in Nat /\ d[k] = e[k]
    BY <2>1
  <2> HIDE DEF P
  <2>3. k + 1 \in 1..m /\ k + 1 \in 1..Len(s) /\ k + 1 \in 1..Len(t) /\ (k + 1) - 1 = k
    BY <2>1, <2>2
  <2>4. d[k + 1] = d[k] + w[s[k + 1]] /\ e[k + 1] = e[k] + v[t[k + 1]]
    BY <2>3 DEF PartialSums
  <2>5. QED
    BY <2>2, <2>3, <2>4
<1>3. P \in SUBSET Nat
  OBVIOUS
<1> HIDE DEF P
<1>4. P = Nat
  BY <1>1, <1>2, <1>3, NatInduct
<1>5. QED
  BY <1>4 DEF P

\* What weighs nothing adds nothing.
LEMMA NothingAdded ==
  ASSUME NEW s, NEW w, NEW d, NEW i \in Nat, Len(s) \in Nat, i <= Len(s),
         PartialSums(d, s, w), \A k \in (i + 1)..Len(s): w[s[k]] = 0
  PROVE  d[Len(s)] = d[i]
<1> DEFINE P == {k \in Nat: i + k <= Len(s) => d[i + k] = d[i]}
<1>1. 0 \in P
  OBVIOUS
<1>2. ASSUME NEW k \in P PROVE k + 1 \in P
  <2>1. SUFFICES ASSUME i + (k + 1) <= Len(s) PROVE d[i + (k + 1)] = d[i]
    OBVIOUS
  <2>2. k \in Nat /\ d[i + k] = d[i]
    BY <2>1
  <2> HIDE DEF P
  <2>3. /\ i + (k + 1) \in 1..Len(s) /\ i + (k + 1) \in (i + 1)..Len(s)
        /\ (i + (k + 1)) - 1 = i + k /\ i \in 0..Len(s)
    BY <2>1, <2>2
  <2>4. d[i + (k + 1)] = d[i + k] + w[s[i + (k + 1)]]
    BY <2>3 DEF PartialSums
  <2>5. w[s[i + (k + 1)]] = 0 /\ d[i] \in Int
    BY <2>3 DEF PartialSums
  <2>6. QED
    BY <2>2, <2>4, <2>5
<1>3. P \in SUBSET Nat
  OBVIOUS
<1> HIDE DEF P
<1>4. P = Nat
  BY <1>1, <1>2, <1>3, NatInduct
<1>5. Len(s) - i \in Nat /\ i + (Len(s) - i) = Len(s)
  OBVIOUS
<1>6. Len(s) - i \in P
  BY <1>4, <1>5
<1>7. QED
  BY <1>5, <1>6 DEF P

----------------------------------------------------------------------------
(* What the fixes add to a text *)

Grows(C) == [edit \in Edit(C) |-> Growth(edit)]
\* What the fixes before an offset add.
GrowsBefore(C, offset) ==
  [edit \in Edit(C) |-> IF edit.offset < offset THEN Growth(edit) ELSE 0]

LEMMA GrowthIsInt ==
  ASSUME NEW C, NEW edit \in Edit(C)
  PROVE  Growth(edit) \in Int /\ EditEnd(edit) \in Nat /\ edit.offset \in Nat
         /\ edit.replacement \in Seq(C) /\ Growth(edit) = Len(edit.replacement) - edit.old_len
         /\ EditEnd(edit) = edit.offset + edit.old_len /\ edit.old_len \in Nat
BY DEF Edit, EditEnd, Growth

LEMMA GrowthIs ==
  ASSUME NEW C, NEW seq \in Seq(Edit(C))
  PROVE  \E d: PartialSums(d, seq, Grows(C)) /\ SumOver(seq, Growth) = d[Len(seq)]
<1> DEFINE w == Grows(C)
           Is(g) == g = [T \in SUBSET DOMAIN seq |->
                            IF T = {} THEN 0 ELSE g[T \ {Max(T)}] + Growth(seq[Max(T)])]
           f == CHOOSE iter: Is(iter)
<1>1. Len(seq) \in Nat /\ DOMAIN seq = 1..Len(seq) /\ \A k \in 1..Len(seq): seq[k] \in Edit(C)
  OBVIOUS
<1>2. w \in [Edit(C) -> Int]
  BY GrowthIsInt DEF Grows
<1>3. \A T \in SUBSET DOMAIN seq: T # {} => w[seq[Max(T)]] = Growth(seq[Max(T)])
  <2>1. SUFFICES ASSUME NEW T \in SUBSET DOMAIN seq, T # {}
                 PROVE  w[seq[Max(T)]] = Growth(seq[Max(T)])
    OBVIOUS
  <2>2. Max(T) \in T
    BY <1>1, <2>1, MaxIsIn
  <2>3. seq[Max(T)] \in Edit(C)
    BY <1>1, <2>2
  <2>4. QED
    BY <2>3 DEF Grows
<1> HIDE DEF w
<1>4. \A g: [T \in SUBSET DOMAIN seq |-> IF T = {} THEN 0 ELSE g[T \ {Max(T)}] + w[seq[Max(T)]]]
          = [T \in SUBSET DOMAIN seq |->
               IF T = {} THEN 0 ELSE g[T \ {Max(T)}] + Growth(seq[Max(T)])]
  BY <1>3, Zenon
<1>5. \A g: SumsSets(g, seq, w) <=> Is(g)
  BY <1>4, Zenon DEF SumsSets
<1> HIDE DEF Is
<1>6. \E g: Is(g)
  BY <1>2, <1>5, SetsAreSummed
<1>7. Is(f)
  BY <1>6, Zenon
<1>8. SumOver(seq, Growth) = f[DOMAIN seq]
  <2>1. FoldLeft(LAMBDA sum, e: sum + Growth(e), 0, seq) = f[DOMAIN seq]
    BY Zenon DEF FoldLeft, MapThenFoldSet, Is
  <2>2. QED
    BY <2>1 DEF SumOver
<1> HIDE DEF f
<1>9. PartialSums([k \in 0..Len(seq) |-> f[1..k]], seq, w)
  BY <1>2, <1>5, <1>7, SumsAreSums
<1>10. Len(seq) \in 0..Len(seq)
  BY <1>1
<1>11. QED
  BY <1>1, <1>8, <1>9, <1>10 DEF w

LEMMA RemapIs ==
  ASSUME NEW C, NEW seq \in Seq(Edit(C)), NEW offset \in Nat
  PROVE  \E d: PartialSums(d, seq, GrowsBefore(C, offset))
               /\ RemapToPostFix(offset, seq) = Moved(offset + d[Len(seq)])
<1> DEFINE w == GrowsBefore(C, offset)
           Is(g) == g = [T \in SUBSET DOMAIN seq |->
                            IF T = {} THEN 0 ELSE g[T \ {Max(T)}]
                              + (IF seq[Max(T)].offset < offset THEN Growth(seq[Max(T)]) ELSE 0)]
           f == CHOOSE iter: Is(iter)
<1>1. Len(seq) \in Nat /\ DOMAIN seq = 1..Len(seq) /\ \A k \in 1..Len(seq): seq[k] \in Edit(C)
  OBVIOUS
<1>2. w \in [Edit(C) -> Int]
  BY GrowthIsInt DEF GrowsBefore
<1>3. \A T \in SUBSET DOMAIN seq: T # {} =>
         w[seq[Max(T)]] = (IF seq[Max(T)].offset < offset THEN Growth(seq[Max(T)]) ELSE 0)
  <2>1. SUFFICES ASSUME NEW T \in SUBSET DOMAIN seq, T # {}
                 PROVE  w[seq[Max(T)]]
                          = (IF seq[Max(T)].offset < offset THEN Growth(seq[Max(T)]) ELSE 0)
    OBVIOUS
  <2>2. Max(T) \in T
    BY <1>1, <2>1, MaxIsIn
  <2>3. seq[Max(T)] \in Edit(C)
    BY <1>1, <2>2
  <2>4. QED
    BY <2>3 DEF GrowsBefore
<1> HIDE DEF w
<1>4. \A g: [T \in SUBSET DOMAIN seq |-> IF T = {} THEN 0 ELSE g[T \ {Max(T)}] + w[seq[Max(T)]]]
          = [T \in SUBSET DOMAIN seq |->
               IF T = {} THEN 0 ELSE g[T \ {Max(T)}]
                 + (IF seq[Max(T)].offset < offset THEN Growth(seq[Max(T)]) ELSE 0)]
  BY <1>3, Zenon
<1>5. \A g: SumsSets(g, seq, w) <=> Is(g)
  BY <1>4, Zenon DEF SumsSets
<1> HIDE DEF Is
<1>6. \E g: Is(g)
  BY <1>2, <1>5, SetsAreSummed
<1>7. Is(f)
  BY <1>6, Zenon
<1>8. RemapToPostFix(offset, seq) = Moved(offset + f[DOMAIN seq])
  <2>1. FoldLeft(LAMBDA sum, e: sum + (IF e.offset < offset THEN Growth(e) ELSE 0), 0, seq)
          = f[DOMAIN seq]
    BY Zenon DEF FoldLeft, MapThenFoldSet, Is
  <2>2. QED
    BY <2>1, Zenon DEF SumOver, RemapToPostFix
<1> HIDE DEF f
<1>9. PartialSums([k \in 0..Len(seq) |-> f[1..k]], seq, w)
  BY <1>2, <1>5, <1>7, SumsAreSums
<1>10. Len(seq) \in 0..Len(seq)
  BY <1>1
<1>11. QED
  BY <1>1, <1>8, <1>9, <1>10 DEF w

\* An offset behind the first i fixes and before the others.
Between(i, p, fixes) ==
  /\ i > 0 => EditEnd(fixes[i]) <= p
  /\ i < Len(fixes) => p < fixes[i + 1].offset

\* `out` holds the text up to the cursor with the fixes made: each replacement stands
\* where the fixes before it have moved it, and so does each character between them.
WrittenIn(out, fixes, d) ==
  \A i \in 1..Len(fixes): LET place == fixes[i].offset + d[i - 1]
                          IN  /\ place \in Nat /\ place + Len(fixes[i].replacement) <= Len(out)
                              /\ \A q \in 1..Len(fixes[i].replacement):
                                    out[place + q] = fixes[i].replacement[q]
LeftIn(out, fixes, d, cursor, text) ==
  \A i \in 0..Len(fixes): \A p \in Nat: p < cursor /\ Between(i, p, fixes) =>
    p + d[i] \in Nat /\ p + d[i] < Len(out) /\ out[p + d[i] + 1] = text[p + 1]
Told(out, fixes, d, cursor, text) ==
  /\ Len(out) = cursor + d[Len(fixes)]
  /\ WrittenIn(out, fixes, d) /\ LeftIn(out, fixes, d, cursor, text)

LEMMA CopyOn ==
  ASSUME NEW C, NEW text \in Seq(C), NEW out \in Seq(C), NEW fixes \in Seq(Edit(C)),
         NEW d, PartialSums(d, fixes, Grows(C)), NEW cursor \in Nat, NEW to \in Nat,
         cursor <= to, to <= Len(text), \A i \in 1..Len(fixes): EditEnd(fixes[i]) <= cursor,
         Told(out, fixes, d, cursor, text)
  PROVE  Told(out \o Copied(text, cursor, to), fixes, d, to, text)
<1> DEFINE n == Len(fixes)
           more == Copied(text, cursor, to)
           whole == out \o more
<1>1. n \in Nat /\ n \in 0..n /\ Len(out) \in Nat /\ \A i \in 1..n: fixes[i] \in Edit(C)
  OBVIOUS
<1>2. more \in Seq(C) /\ Len(more) = to - cursor /\ \A k \in 1..(to - cursor): more[k] = text[cursor + k]
  BY CopiedIs
<1> HIDE DEF more
<1>3. /\ Len(whole) = Len(out) + (to - cursor)
      /\ \A k \in 1..Len(out): whole[k] = out[k]
      /\ \A k \in 1..(to - cursor): whole[Len(out) + k] = more[k]
  BY <1>2
<1>4. d \in [0..n -> Int]
  BY DEF PartialSums
<1>5. Len(out) = cursor + d[n] /\ d[n] \in Int
  BY <1>1, <1>4 DEF Told
<1> HIDE DEF whole
<1>6. Len(whole) = to + d[n]
  BY <1>3, <1>5
<1>7. WrittenIn(whole, fixes, d)
  <2>1. SUFFICES ASSUME NEW i \in 1..n
                 PROVE  LET place == fixes[i].offset + d[i - 1]
                        IN  /\ place \in Nat /\ place + Len(fixes[i].replacement) <= Len(whole)
                            /\ \A q \in 1..Len(fixes[i].replacement):
                                  whole[place + q] = fixes[i].replacement[q]
    BY DEF WrittenIn
  <2> DEFINE place == fixes[i].offset + d[i - 1]
             new == fixes[i].replacement
  <2>2. new \in Seq(C) /\ Len(new) \in Nat
    BY <1>1, GrowthIsInt
  <2>3. place \in Nat /\ place + Len(new) <= Len(out) /\ \A q \in 1..Len(new): out[place + q] = new[q]
    BY DEF Told, WrittenIn
  <2> HIDE DEF place, new
  <2>4. place + Len(new) <= Len(whole)
    BY <1>1, <1>3, <2>2, <2>3
  <2>5. \A q \in 1..Len(new): place + q \in 1..Len(out)
    BY <1>1, <2>2, <2>3
  <2>6. \A q \in 1..Len(new): whole[place + q] = new[q]
    BY <1>3, <2>3, <2>5
  <2>7. QED
    BY <2>3, <2>4, <2>6 DEF place, new
<1>8. LeftIn(whole, fixes, d, to, text)
  <2>1. SUFFICES ASSUME NEW i \in 0..n, NEW p \in Nat, p < to, Between(i, p, fixes)
                 PROVE  p + d[i] \in Nat /\ p + d[i] < Len(whole) /\ whole[p + d[i] + 1] = text[p + 1]
    BY DEF LeftIn
  <2>2. CASE p < cursor
    <3>1. p + d[i] \in Nat /\ p + d[i] < Len(out) /\ out[p + d[i] + 1] = text[p + 1]
      BY <2>1, <2>2 DEF Told, LeftIn
    <3>2. p + d[i] + 1 \in 1..Len(out) /\ p + d[i] < Len(whole)
      BY <1>1, <1>3, <3>1
    <3>3. QED
      BY <1>3, <3>1, <3>2
  <2>3. CASE ~(p < cursor)
    <3>1. i = n
      <4>1. SUFFICES ASSUME i < n PROVE FALSE
        BY <1>1
      <4>2. i + 1 \in 1..n /\ p < fixes[i + 1].offset
        BY <1>1, <2>1, <4>1 DEF Between
      <4>3. EditEnd(fixes[i + 1]) <= cursor /\ fixes[i + 1] \in Edit(C)
        BY <1>1, <4>2
      <4> DEFINE next == fixes[i + 1]
      <4>4. next.offset \in Nat /\ next.old_len \in Nat /\ EditEnd(next) = next.offset + next.old_len
        BY <4>3, GrowthIsInt
      <4>5. QED
        BY <2>3, <4>2, <4>3, <4>4
    <3> DEFINE k == p - cursor + 1
    <3>2. k \in 1..(to - cursor) /\ Len(out) + k = p + d[n] + 1 /\ cursor + k = p + 1
      BY <1>5, <2>1, <2>3
    <3>3. p + d[n] \in Nat /\ p + d[n] < Len(whole)
      BY <1>1, <1>5, <1>6, <2>1, <2>3
    <3> HIDE DEF k
    <3>4. whole[Len(out) + k] = text[cursor + k]
      BY <1>2, <1>3, <3>2
    <3>5. QED
      BY <3>1, <3>2, <3>3, <3>4
  <2>4. QED
    BY <2>2, <2>3
<1>9. QED
  BY <1>6, <1>7, <1>8 DEF Told, whole, more

LEMMA WriteOn ==
  ASSUME NEW C, NEW text \in Seq(C), NEW out \in Seq(C), NEW fixes \in Seq(Edit(C)),
         NEW d, PartialSums(d, fixes, Grows(C)), NEW edit \in Edit(C),
         \A i \in 1..Len(fixes): EditEnd(fixes[i]) <= edit.offset,
         Told(out, fixes, d, edit.offset, text)
  PROVE  \E e: PartialSums(e, Append(fixes, edit), Grows(C))
               /\ Told(out \o edit.replacement, Append(fixes, edit), e, EditEnd(edit), text)
<1> DEFINE n == Len(fixes)
           new == edit.replacement
           whole == out \o new
           longer == Append(fixes, edit)
           e == [k \in 0..n + 1 |-> IF k = n + 1 THEN d[n] + Growth(edit) ELSE d[k]]
<1>1. n \in Nat /\ n \in 0..n /\ Len(out) \in Nat /\ \A i \in 1..n: fixes[i] \in Edit(C)
  OBVIOUS
<1>2. /\ edit.offset \in Nat /\ edit.old_len \in Nat /\ new \in Seq(C) /\ Len(new) \in Nat
      /\ EditEnd(edit) = edit.offset + edit.old_len
      /\ Growth(edit) = Len(new) - edit.old_len /\ Growth(edit) \in Int
  BY GrowthIsInt
<1>3. Len(longer) = n + 1 /\ longer[n + 1] = edit /\ \A i \in 1..n: longer[i] = fixes[i]
  OBVIOUS
<1> HIDE DEF longer, new
<1>4. /\ Len(whole) = Len(out) + Len(new)
      /\ \A k \in 1..Len(out): whole[k] = out[k]
      /\ \A k \in 1..Len(new): whole[Len(out) + k] = new[k]
  BY <1>2
<1> HIDE DEF whole
<1>5. /\ d \in [0..n -> Int] /\ d[0] = 0
      /\ \A k \in 1..n: d[k] = d[k - 1] + Grows(C)[fixes[k]]
  BY DEF PartialSums
<1>6. e[n + 1] = d[n] + Growth(edit) /\ (\A k \in 0..n: e[k] = d[k]) /\ e \in [0..n + 1 -> Int]
  <2>1. n + 1 \in 0..n + 1 /\ \A k \in 0..n: k \in 0..n + 1 /\ k # n + 1
    BY <1>1
  <2>2. \A k \in 0..n: e[k] = d[k]
    BY <2>1
  <2>3. e[n + 1] = d[n] + Growth(edit)
    BY <2>1
  <2>4. \A k \in 0..n + 1: (IF k = n + 1 THEN d[n] + Growth(edit) ELSE d[k]) \in Int
    <3>1. d[n] + Growth(edit) \in Int
      <4>1. d[n] \in Int
        BY <1>1, <1>5
      <4>2. Growth(edit) \in Int
        BY <1>2
      <4>3. QED
        BY <4>1, <4>2
    <3>2. \A k \in 0..n + 1: k # n + 1 => k \in 0..n
      BY <1>1
    <3>3. QED
      BY <1>5, <3>1, <3>2
  <2>5. QED
    BY <2>2, <2>3, <2>4
<1> HIDE DEF e
<1>7. PartialSums(e, longer, Grows(C))
  <2>1. e[0] = 0
    BY <1>1, <1>5, <1>6
  <2>2. ASSUME NEW k \in 1..n + 1 PROVE e[k] = e[k - 1] + Grows(C)[longer[k]]
    <3>1. CASE k = n + 1
      <4>1. Grows(C)[edit] = Growth(edit)
        BY DEF Grows
      <4>2. k - 1 = n
        BY <1>1, <3>1
      <4>3. e[k - 1] = d[n]
        BY <1>1, <1>6, <4>2
      <4>4. QED
        BY <1>3, <1>6, <3>1, <4>1, <4>3
    <3>2. CASE k # n + 1
      <4>1. k \in 1..n /\ k \in 0..n /\ k - 1 \in 0..n
        BY <1>1, <3>2
      <4>2. QED
        BY <1>3, <1>5, <1>6, <4>1
    <3>3. QED
      BY <3>1, <3>2
  <2>3. QED
    BY <1>3, <1>6, <2>1, <2>2 DEF PartialSums
<1>8. Len(out) = edit.offset + d[n] /\ d[n] \in Int
  BY <1>1, <1>5 DEF Told
<1>9. Len(whole) = EditEnd(edit) + e[n + 1]
  BY <1>2, <1>4, <1>6, <1>8
<1>10. WrittenIn(whole, longer, e)
  <2>1. SUFFICES ASSUME NEW i \in 1..n + 1
                 PROVE  LET place == longer[i].offset + e[i - 1]
                        IN  /\ place \in Nat /\ place + Len(longer[i].replacement) <= Len(whole)
                            /\ \A q \in 1..Len(longer[i].replacement):
                                  whole[place + q] = longer[i].replacement[q]
    BY <1>3 DEF WrittenIn
  <2>2. CASE i = n + 1
    <3>1. i - 1 = n /\ longer[i] = edit
      BY <1>1, <1>3, <2>2
    <3>2. e[i - 1] = d[n]
      BY <1>1, <1>6, <3>1
    <3>3. longer[i].offset + e[i - 1] = Len(out)
      BY <1>8, <3>1, <3>2
    <3>4. longer[i].replacement = new
      BY <3>1 DEF new
    <3> HIDE DEF n
    <3>5. Len(out) + Len(new) <= Len(whole) /\ \A q \in 1..Len(new): whole[Len(out) + q] = new[q]
      BY <1>1, <1>2, <1>4
    <3>6. QED
      BY <1>1, <3>3, <3>4, <3>5
  <2>3. CASE i # n + 1
    <3> DEFINE place == fixes[i].offset + d[i - 1]
               old == fixes[i].replacement
    <3>1. i \in 1..n /\ i - 1 \in 0..n
      BY <1>1, <2>3
    <3>2. old \in Seq(C) /\ Len(old) \in Nat
      BY <1>1, <3>1, GrowthIsInt
    <3>3. place \in Nat /\ place + Len(old) <= Len(out) /\ \A q \in 1..Len(old): out[place + q] = old[q]
      BY <3>1 DEF Told, WrittenIn
    <3>4. longer[i] = fixes[i] /\ e[i - 1] = d[i - 1]
      BY <1>3, <1>6, <3>1
    <3>5. longer[i].offset + e[i - 1] = place /\ longer[i].replacement = old
      BY <3>4
    <3> HIDE DEF place, old
    <3>6. place + Len(old) <= Len(whole)
      BY <1>1, <1>2, <1>4, <3>2, <3>3
    <3>7. \A q \in 1..Len(old): place + q \in 1..Len(out)
      BY <1>1, <3>2, <3>3
    <3>8. \A q \in 1..Len(old): whole[place + q] = old[q]
      BY <1>4, <3>3, <3>7
    <3>9. QED
      BY <3>3, <3>5, <3>6, <3>8
  <2>4. QED
    BY <2>2, <2>3
<1>11. LeftIn(whole, longer, e, EditEnd(edit), text)
  <2>1. SUFFICES ASSUME NEW i \in 0..n + 1, NEW p \in Nat, p < EditEnd(edit), Between(i, p, longer)
                 PROVE  p + e[i] \in Nat /\ p + e[i] < Len(whole) /\ whole[p + e[i] + 1] = text[p + 1]
    BY <1>3 DEF LeftIn
  <2>2. i # n + 1
    <3>1. SUFFICES ASSUME i = n + 1 PROVE FALSE
      OBVIOUS
    <3>2. EditEnd(longer[i]) <= p
      BY <1>1, <2>1, <3>1 DEF Between
    <3>3. QED
      BY <1>2, <1>3, <2>1, <3>1, <3>2
  <2>3. i \in 0..n /\ i < Len(longer)
    BY <1>1, <1>3, <2>2
  <2>4. Between(i, p, fixes)
    <3>1. i > 0 => EditEnd(fixes[i]) <= p
      <4>1. SUFFICES ASSUME i > 0 PROVE EditEnd(fixes[i]) <= p
        OBVIOUS
      <4>2. i \in 1..n
        BY <1>1, <2>3, <4>1
      <4>3. longer[i] = fixes[i] /\ EditEnd(longer[i]) <= p
        BY <1>3, <2>1, <4>1, <4>2 DEF Between
      <4>4. QED
        BY <4>3
    <3>2. i < n => p < fixes[i + 1].offset
      <4>1. SUFFICES ASSUME i < n PROVE p < fixes[i + 1].offset
        OBVIOUS
      <4>2. i + 1 \in 1..n
        BY <1>1, <2>3, <4>1
      <4>3. longer[i + 1] = fixes[i + 1] /\ p < longer[i + 1].offset
        BY <1>3, <2>1, <2>3, <4>2 DEF Between
      <4>4. QED
        BY <4>3
    <3>3. QED
      BY <3>1, <3>2 DEF Between
  <2>5. p < edit.offset
    <3>1. p < longer[i + 1].offset
      BY <2>1, <2>3 DEF Between
    <3>2. CASE i = n
      BY <1>3, <3>1, <3>2
    <3>3. CASE i # n
      <4>1. i + 1 \in 1..n
        BY <1>1, <2>3, <3>3
      <4> DEFINE next == fixes[i + 1]
      <4>2. next \in Edit(C) /\ EditEnd(next) <= edit.offset /\ p < next.offset
        BY <1>1, <1>3, <3>1, <4>1
      <4>3. next.offset \in Nat /\ next.old_len \in Nat /\ EditEnd(next) = next.offset + next.old_len
        BY <4>2, GrowthIsInt
      <4> HIDE DEF next
      <4>4. QED
        BY <1>2, <4>2, <4>3
    <3>4. QED
      BY <3>2, <3>3
  <2>6. p + d[i] \in Nat /\ p + d[i] < Len(out) /\ out[p + d[i] + 1] = text[p + 1]
    BY <2>3, <2>4, <2>5 DEF Told, LeftIn
  <2>7. e[i] = d[i]
    BY <1>6, <2>3
  <2>8. p + d[i] + 1 \in 1..Len(out) /\ p + d[i] < Len(whole)
    <3> DEFINE place == p + d[i]
    <3>1. place \in Nat /\ place < Len(out)
      BY <2>6
    <3> HIDE DEF place
    <3>2. place + 1 \in 1..Len(out) /\ place < Len(whole)
      BY <1>1, <1>2, <1>4, <3>1
    <3>3. QED
      BY <3>2 DEF place
  <2>9. QED
    BY <1>4, <2>6, <2>7, <2>8
<1>12. Told(whole, longer, e, EditEnd(edit), text)
  BY <1>3, <1>9, <1>10, <1>11 DEF Told
<1>13. QED
  BY <1>7, <1>12 DEF whole, longer, new

\* What a state of the fixer says of the text.
Tells(s, C, text) ==
  \E d: PartialSums(d, s.fixes, Grows(C)) /\ Told(s.out, s.fixes, d, s.cursor, text)

LEMMA StepTells ==
  ASSUME NEW C, NEW text \in Seq(C), NEW issues, NEW k, NEW mode, NEW barred,
         NEW s \in FixState(C), NEW t \in FixState(C), NEW issue, Finding(issue, C),
         FixedSoFar(s, k, text, issues, mode, barred), Tells(s, C, text),
         LeavesText(s, t, text, issue, barred) \/ WritesText(s, t, text, mode, issue, barred)
  PROVE  Tells(t, C, text)
<1>1. CASE LeavesText(s, t, text, issue, barred)
  BY <1>1 DEF LeavesText, Tells
<1>2. CASE WritesText(s, t, text, mode, issue, barred)
  <2> DEFINE edit == EditOf(issue)
             between == Copied(text, s.cursor, issue.offset)
  <2>1. /\ IssueEnd(issue) <= Len(text) /\ ~Blocked(s, issue) /\ FixVerdict(issue, mode) = "apply"
        /\ t.out = s.out \o between \o issue.suggestions[1]
        /\ t.cursor = IssueEnd(issue) /\ t.fixes = Append(s.fixes, edit)
    BY <1>2 DEF WritesText
  <2>2. s.out \in Seq(C) /\ s.cursor \in Nat /\ s.fixes \in Seq(Edit(C))
    BY DEF FixState
  <2>3. issue.offset \in Nat /\ issue.length \in Nat /\ issue.suggestions \in Seq(Seq(C))
    BY DEF Finding
  <2>4. issue.suggestions[1] \in Seq(C)
    <3>1. Len(issue.suggestions) = 1
      BY <2>1, OnlyOneSuggestion
    <3>2. QED
      BY <2>3, <3>1
  <2>5. /\ edit \in Edit(C) /\ edit.offset = issue.offset /\ EditEnd(edit) = IssueEnd(issue)
        /\ edit.replacement = issue.suggestions[1]
    BY <2>3, <2>4 DEF Edit, EditOf, EditEnd, IssueEnd
  <2> HIDE DEF edit
  <2>6. s.cursor <= issue.offset /\ issue.offset <= Len(text) /\ Len(text) \in Nat
    <3>1. ~(issue.offset < s.cursor)
      BY <2>1 DEF Blocked
    <3>2. IssueEnd(issue) = issue.offset + issue.length
      BY DEF IssueEnd
    <3>3. QED
      BY <2>1, <2>2, <2>3, <3>1, <3>2
  <2>7. \A i \in 1..Len(s.fixes): EditEnd(s.fixes[i]) <= s.cursor
    BY DEF FixedSoFar
  <2>8. \A i \in 1..Len(s.fixes): EditEnd(s.fixes[i]) <= edit.offset
    <3>1. \A i \in 1..Len(s.fixes): EditEnd(s.fixes[i]) \in Nat
      BY <2>2, GrowthIsInt
    <3>2. QED
      BY <2>2, <2>3, <2>5, <2>6, <2>7, <3>1
  <2>9. PICK d: PartialSums(d, s.fixes, Grows(C)) /\ Told(s.out, s.fixes, d, s.cursor, text)
    BY DEF Tells
  <2>10. Told(s.out \o between, s.fixes, d, edit.offset, text)
    BY <2>2, <2>3, <2>5, <2>6, <2>7, <2>9, CopyOn
  <2>11. between \in Seq(C)
    BY <2>2, <2>3, <2>6, CopiedIs
  <2> HIDE DEF between
  <2>12. s.out \o between \in Seq(C)
    BY <2>2, <2>11
  <2>13. PICK e: /\ PartialSums(e, Append(s.fixes, edit), Grows(C))
                 /\ Told(s.out \o between \o edit.replacement, Append(s.fixes, edit), e,
                         EditEnd(edit), text)
    BY <2>2, <2>5, <2>8, <2>9, <2>10, <2>12, WriteOn
  <2>14. QED
    BY <2>1, <2>5, <2>13 DEF Tells
<1>3. QED
  BY <1>1, <1>2

LEMMA NothingTells == ASSUME NEW C, NEW text \in Seq(C) PROVE Tells(NothingFixed, C, text)
<1> DEFINE d == [i \in 0..0 |-> 0]
<1>1. 1..0 = {} /\ Len(<<>>) = 0 /\ 0 \in 0..0 /\ d[0] = 0 /\ d \in [0..0 -> Int]
  OBVIOUS
<1> HIDE DEF d
<1>2. PartialSums(d, <<>>, Grows(C))
  BY <1>1 DEF PartialSums
<1>3. WrittenIn(<<>>, <<>>, d) /\ LeftIn(<<>>, <<>>, d, 0, text)
  <2>1. WrittenIn(<<>>, <<>>, d)
    BY <1>1 DEF WrittenIn
  <2>2. \A p \in Nat: ~(p < 0)
    OBVIOUS
  <2>3. LeftIn(<<>>, <<>>, d, 0, text)
    BY <2>2 DEF LeftIn
  <2>4. QED
    BY <2>1, <2>3
<1>4. Told(<<>>, <<>>, d, 0, text)
  BY <1>1, <1>3 DEF Told
<1>5. QED
  BY <1>2, <1>4 DEF Tells, NothingFixed

LEMMA TellsAllAlong ==
  ASSUME NEW C, NEW text \in Seq(C), NEW X, NEW issues \in Seq(X),
         \A k \in 1..Len(issues): Finding(issues[k], C),
         NEW mode, NEW barred, NEW h, FixRun(h, C, text, issues, mode, barred)
  PROVE  \A k \in 0..Len(issues): Tells(h[k], C, text)
<1> DEFINE n == Len(issues)
           Q(k) == Tells(h[k], C, text)
           P == {k \in Nat: k <= n => Q(k)}
<1>1. n \in Nat
  OBVIOUS
<1>2. Q(0)
  <2>1. h[0] = NothingFixed
    BY DEF FixRun
  <2>2. QED
    BY <2>1, NothingTells
<1>3. ASSUME NEW k \in Nat, k + 1 <= n, Q(k) PROVE Q(k + 1)
  <2>1. k \in 0..n /\ k + 1 \in 0..n /\ k + 1 \in 1..n /\ (k + 1) - 1 = k
    BY <1>1, <1>3
  <2>2. /\ h[k] \in FixState(C) /\ h[k + 1] \in FixState(C)
        /\ h[k + 1] = FixStep(text, mode, barred, h[k], issues[k + 1])
    BY <2>1 DEF FixRun
  <2>3. Finding(issues[k + 1], C)
    BY <2>1
  <2>4. LeavesText(h[k], h[k + 1], text, issues[k + 1], barred)
          \/ WritesText(h[k], h[k + 1], text, mode, issues[k + 1], barred)
    BY <2>2, <2>3, FixStepIs
  <2>5. FixedSoFar(h[k], k, text, issues, mode, barred)
    BY <2>1, FixedAllAlong
  <2>6. QED
    BY <1>3, <2>2, <2>3, <2>4, <2>5, StepTells
<1> HIDE DEF Q
<1>4. 0 \in P /\ \A k \in P: k + 1 \in P
  BY <1>1, <1>2, <1>3
<1>5. P \in SUBSET Nat
  OBVIOUS
<1> HIDE DEF P
<1>6. P = Nat
  BY <1>4, <1>5, NatInduct
<1>7. \A k \in 0..n: Q(k)
  BY <1>1, <1>6 DEF P
<1>8. QED
  BY <1>7 DEF Q

\* A fixed text, with the fixes in order and the sums of what they add.
Fixed(out, fixes, d, C, text) ==
  /\ out \in Seq(C) /\ fixes \in Seq(Edit(C)) /\ PartialSums(d, fixes, Grows(C))
  /\ Told(out, fixes, d, Len(text), text)
  /\ \A i, j \in 1..Len(fixes): i < j => EditEnd(fixes[i]) <= fixes[j].offset

LEMMA ApplyFixesIsFixed ==
  ASSUME NEW C, NEW text \in Seq(C), NEW X, NEW issues \in Seq(X),
         \A k \in 1..Len(issues): Finding(issues[k], C), NEW mode, NEW excluded
  PROVE  \E d: Fixed(ApplyFixes(text, issues, mode, excluded).text,
                     ApplyFixes(text, issues, mode, excluded).fixes, d, C, text)
<1> DEFINE Made(s, rest) == /\ ApplyFixes(text, issues, mode, excluded).text = s.out \o rest
                            /\ ApplyFixes(text, issues, mode, excluded).fixes = s.fixes
<1>1. ASSUME NEW s \in FixState(C), NEW k, NEW barred, Tells(s, C, text),
             FixedSoFar(s, k, text, issues, mode, barred),
             Made(s, Copied(text, s.cursor, Len(text)))
      PROVE  \E d: Fixed(ApplyFixes(text, issues, mode, excluded).text,
                         ApplyFixes(text, issues, mode, excluded).fixes, d, C, text)
  <2> DEFINE rest == Copied(text, s.cursor, Len(text))
             fixes == s.fixes
  <2>1. s.out \in Seq(C) /\ s.cursor \in Nat /\ fixes \in Seq(Edit(C)) /\ Len(text) \in Nat
    BY DEF FixState
  <2>2. s.cursor <= Len(text) /\ \A i \in 1..Len(fixes): EditEnd(fixes[i]) <= s.cursor
    BY <1>1 DEF FixedSoFar
  <2>3. \A i, j \in 1..Len(fixes): i < j => EditEnd(fixes[i]) <= fixes[j].offset
    BY <1>1 DEF FixedSoFar, FixesAre
  <2>4. PICK d: PartialSums(d, fixes, Grows(C)) /\ Told(s.out, fixes, d, s.cursor, text)
    BY <1>1 DEF Tells
  <2>5. Told(s.out \o rest, fixes, d, Len(text), text)
    <3>1. Len(text) <= Len(text)
      BY <2>1
    <3> HIDE DEF fixes
    <3>2. QED
      BY <2>1, <2>2, <2>4, <3>1, CopyOn
  <2>6. rest \in Seq(C)
    <3>1. Len(text) <= Len(text)
      BY <2>1
    <3>2. QED
      BY <2>1, <2>2, <3>1, CopiedIs
  <2> HIDE DEF rest
  <2>7. s.out \o rest \in Seq(C)
    BY <2>1, <2>6
  <2> HIDE DEF fixes
  <2>8. Fixed(s.out \o rest, fixes, d, C, text)
    BY <2>1, <2>3, <2>4, <2>5, <2>7 DEF Fixed
  <2>9. QED
    BY <1>1, <2>8 DEF rest, fixes
<1>2. CASE mode # 0
  <2> DEFINE n == Len(issues)
  <2>1. PICK h: FixRun(h, C, text, issues, mode, Normalized(excluded))
               /\ Returns(h, text, issues, mode, excluded)
    BY <1>2, FixerRuns
  <2>2. n \in 0..n
    OBVIOUS
  <2>3. h[n] \in FixState(C)
    BY <2>1, <2>2 DEF FixRun
  <2>4. FixedSoFar(h[n], n, text, issues, mode, Normalized(excluded))
    BY <2>1, <2>2, FixedAllAlong
  <2>5. Tells(h[n], C, text)
    BY <2>1, <2>2, TellsAllAlong
  <2>6. Made(h[n], Copied(text, h[n].cursor, Len(text)))
    BY <2>1 DEF Returns
  <2> HIDE DEF Made, n
  <2>7. QED
    BY <1>1, <2>3, <2>4, <2>5, <2>6
<1>3. CASE mode = 0
  <2>1. Made(NothingFixed, Copied(text, NothingFixed.cursor, Len(text)))
    BY <1>3 DEF ApplyFixes, NothingFixed
  <2>2. NothingFixed \in FixState(C) /\ Tells(NothingFixed, C, text)
    BY NothingFixedYet, NothingTells
  <2> DEFINE none == [i \in 1..0 |-> 0]
  <2>3. 1..0 = {} /\ 1..Len(<<>>) = {} /\ Len(text) \in Nat /\ Len(<<>>) = 0
    OBVIOUS
  <2>4. none \in [1..0 -> 1..0]
    BY <2>3
  <2> HIDE DEF none
  <2>5. FixesAre(<<>>, none, 0, text, issues, mode, Normalized(excluded))
    BY <2>3, <2>4 DEF FixesAre
  <2>6. FixedSoFar(NothingFixed, 0, text, issues, mode, Normalized(excluded))
    BY <2>3, <2>5 DEF FixedSoFar, NothingFixed, Ends
  <2> HIDE DEF Made
  <2>7. QED
    BY <1>1, <2>1, <2>2, <2>6
<1>4. QED
  BY <1>2, <1>3

\* Where written_ranges says that the fixer has written, there stands what it wrote.
THEOREM WrittenWhereSaid ==
  ASSUME NEW C, NEW text \in Seq(C), NEW X, NEW issues \in Seq(X),
         \A k \in 1..Len(issues): Finding(issues[k], C), NEW mode, NEW excluded
  PROVE  LET done == ApplyFixes(text, issues, mode, excluded)
         IN  \A k \in 1..Len(done.fixes):
               LET range == WrittenRanges(done.fixes)[k]
                   new == done.fixes[k].replacement
               IN  /\ range.start \in Nat /\ range.end = range.start + Len(new)
                   /\ range.end <= Len(done.text)
                   /\ \A q \in 1..Len(new): done.text[range.start + q] = new[q]
<1> DEFINE done == ApplyFixes(text, issues, mode, excluded)
           out == done.text
           fixes == done.fixes
           n == Len(fixes)
<1>1. PICK d: Fixed(out, fixes, d, C, text)
  BY ApplyFixesIsFixed
<1> HIDE DEF done
<1>2. fixes \in Seq(Edit(C)) /\ PartialSums(d, fixes, Grows(C)) /\ WrittenIn(out, fixes, d)
  BY <1>1 DEF Fixed, Told
<1> HIDE DEF out, fixes
<1>3. n \in Nat /\ DOMAIN fixes = 1..n
  BY <1>2
<1>4. SUFFICES ASSUME NEW k \in 1..n
               PROVE  LET range == WrittenRanges(fixes)[k]
                          new == fixes[k].replacement
                      IN  /\ range.start \in Nat /\ range.end = range.start + Len(new)
                          /\ range.end <= Len(out)
                          /\ \A q \in 1..Len(new): out[range.start + q] = new[q]
  BY DEF out, fixes, done
<1> DEFINE before == SubSeq(fixes, 1, k - 1)
           new == fixes[k].replacement
           place == fixes[k].offset + d[k - 1]
<1>5. /\ before \in Seq(Edit(C)) /\ Len(before) = k - 1 /\ k - 1 \in Nat
      /\ \A i \in 1..(k - 1): before[i] = fixes[i]
  BY <1>2, <1>3
<1> HIDE DEF before
<1>6. SumOver(before, Growth) = d[k - 1]
  <2>1. PICK e: PartialSums(e, before, Grows(C)) /\ SumOver(before, Growth) = e[Len(before)]
    BY <1>5, GrowthIs
  <2> DEFINE m == k - 1
  <2>2. /\ m \in Nat /\ Len(before) \in Nat /\ m <= Len(before) /\ m <= n /\ m \in 0..m
        /\ Len(before) = m /\ \A i \in 1..m: Grows(C)[before[i]] = Grows(C)[fixes[i]]
    BY <1>3, <1>5
  <2> HIDE DEF m
  <2>3. \A i \in 0..m: e[i] = d[i]
    BY <1>2, <1>3, <2>1, <2>2, SameSums
  <2>4. SumOver(before, Growth) = d[m]
    BY <2>1, <2>2, <2>3
  <2>5. QED
    BY <2>4 DEF m
<1>7. place \in Nat /\ place + Len(new) <= Len(out) /\ \A q \in 1..Len(new): out[place + q] = new[q]
  BY <1>2 DEF WrittenIn
<1>8. WrittenRanges(fixes)[k] = Span(Moved(fixes[k].offset + SumOver(before, Growth)), Len(new))
  BY <1>3, Zenon DEF WrittenRanges, before
<1>9. Moved(place) = place
  <2> HIDE DEF place
  <2>1. QED
    BY <1>7 DEF Moved
<1>10. WrittenRanges(fixes)[k] = Span(place, Len(new))
  BY <1>6, <1>8, <1>9
<1>11. WrittenRanges(fixes)[k].start = place /\ WrittenRanges(fixes)[k].end = place + Len(new)
  BY <1>10 DEF Span
<1> HIDE DEF place
<1>12. QED
  BY <1>7, <1>11

\* A character that no fix replaced is found in the fixed text where remap_to_post_fix
\* says, unless something was inserted right before it; and the text has grown by as much
\* as the fixes say.
THEOREM LeftWhereSaid ==
  ASSUME NEW C, NEW text \in Seq(C), NEW X, NEW issues \in Seq(X),
         \A k \in 1..Len(issues): Finding(issues[k], C), NEW mode, NEW excluded
  PROVE  LET done == ApplyFixes(text, issues, mode, excluded)
         IN  /\ Len(done.text) = Len(text) + SumOver(done.fixes, Growth)
             /\ \A p \in 0..(Len(text) - 1):
                  (\A k \in 1..Len(done.fixes):
                     \/ p < done.fixes[k].offset
                     \/ done.fixes[k].offset < p /\ EditEnd(done.fixes[k]) <= p)
                  => /\ RemapToPostFix(p, done.fixes) \in 0..(Len(done.text) - 1)
                     /\ done.text[RemapToPostFix(p, done.fixes) + 1] = text[p + 1]
<1> DEFINE done == ApplyFixes(text, issues, mode, excluded)
           out == done.text
           fixes == done.fixes
           n == Len(fixes)
<1>1. PICK d: Fixed(out, fixes, d, C, text)
  BY ApplyFixesIsFixed
<1> HIDE DEF done
<1>2. /\ out \in Seq(C) /\ fixes \in Seq(Edit(C)) /\ PartialSums(d, fixes, Grows(C))
      /\ LeftIn(out, fixes, d, Len(text), text)
      /\ Len(out) = Len(text) + d[n]
      /\ \A i, j \in 1..n: i < j => EditEnd(fixes[i]) <= fixes[j].offset
  BY <1>1 DEF Fixed, Told
<1> HIDE DEF out, fixes
<1>3. n \in Nat /\ \A k \in 1..n: fixes[k] \in Edit(C)
  BY <1>2
<1>4. Len(out) = Len(text) + SumOver(fixes, Growth)
  <2>1. PICK e: PartialSums(e, fixes, Grows(C)) /\ SumOver(fixes, Growth) = e[n]
    BY <1>2, GrowthIs
  <2>2. \A k \in 0..n: e[k] = d[k]
    <3>1. n <= n /\ \A k \in 1..n: Grows(C)[fixes[k]] = Grows(C)[fixes[k]]
      BY <1>3
    <3>2. QED
      BY <1>2, <1>3, <2>1, <3>1, SameSums
  <2>3. n \in 0..n
    BY <1>3
  <2>4. QED
    BY <1>2, <2>1, <2>2, <2>3
<1>5. ASSUME NEW p \in 0..(Len(text) - 1),
             \A k \in 1..n: p < fixes[k].offset \/ (fixes[k].offset < p /\ EditEnd(fixes[k]) <= p)
      PROVE  /\ RemapToPostFix(p, fixes) \in 0..(Len(out) - 1)
             /\ out[RemapToPostFix(p, fixes) + 1] = text[p + 1]
  <2>1. Len(text) \in Nat /\ Len(out) \in Nat /\ p \in Nat /\ p < Len(text)
    BY <1>2
  <2>2. PICK i \in 0..n: /\ \A k \in 1..n: k <= i => fixes[k].offset < p /\ EditEnd(fixes[k]) <= p
                         /\ \A k \in 1..n: i < k => p < fixes[k].offset
    <3> DEFINE later == {k \in 1..n: p < fixes[k].offset}
    <3>1. CASE later = {}
      <4>1. \A k \in 1..n: ~(p < fixes[k].offset)
        BY <3>1
      <4>2. \A k \in 1..n: fixes[k].offset < p /\ EditEnd(fixes[k]) <= p
        BY <1>5, <4>1
      <4>3. n \in 0..n /\ \A k \in 1..n: ~(n < k)
        BY <1>3
      <4>4. QED
        BY <4>2, <4>3
    <3>2. CASE later # {}
      <4>1. later \in SUBSET Nat
        BY <1>3
      <4>2. PICK low \in later: \A k \in later: low <= k
        <5> HIDE DEF later
        <5>1. QED
          BY <3>2, <4>1, Smallest
      <4>3. low \in 1..n /\ low - 1 \in 0..n /\ p < fixes[low].offset
        BY <1>3
      <4>4. \A k \in 1..n: k <= low - 1 => ~(p < fixes[k].offset)
        <5>1. SUFFICES ASSUME NEW k \in 1..n, k <= low - 1, p < fixes[k].offset PROVE FALSE
          OBVIOUS
        <5>2. low <= k
          BY <4>2, <5>1
        <5>3. QED
          BY <1>3, <4>3, <5>1, <5>2
      <4>5. \A k \in 1..n: k <= low - 1 => fixes[k].offset < p /\ EditEnd(fixes[k]) <= p
        BY <1>5, <4>4
      <4>6. \A k \in 1..n: low - 1 < k => p < fixes[k].offset
        <5>1. SUFFICES ASSUME NEW k \in 1..n, low - 1 < k, k # low PROVE p < fixes[k].offset
          BY <4>3
        <5>2. low < k
          BY <1>3, <4>3, <5>1
        <5>3. EditEnd(fixes[low]) <= fixes[k].offset
          BY <1>2, <4>3, <5>2
        <5> DEFINE first == fixes[low]
        <5>4. /\ first.offset \in Nat /\ first.old_len \in Nat /\ fixes[k].offset \in Nat
              /\ EditEnd(first) = first.offset + first.old_len
          BY <1>3, <4>3, GrowthIsInt
        <5>5. QED
          BY <2>1, <4>3, <5>3, <5>4
      <4> HIDE DEF later
      <4>7. QED
        BY <4>3, <4>5, <4>6
    <3>3. QED
      BY <3>1, <3>2
  <2>3. Between(i, p, fixes)
    <3>1. i > 0 => EditEnd(fixes[i]) <= p
      BY <1>3, <2>2
    <3>2. i < n => p < fixes[i + 1].offset
      <4>1. SUFFICES ASSUME i < n PROVE p < fixes[i + 1].offset
        OBVIOUS
      <4>2. i + 1 \in 1..n /\ i < i + 1
        BY <1>3, <4>1
      <4>3. QED
        BY <2>2, <4>2
    <3>3. QED
      BY <3>1, <3>2 DEF Between
  <2>4. p + d[i] \in Nat /\ p + d[i] < Len(out) /\ out[p + d[i] + 1] = text[p + 1]
    BY <1>2, <2>1, <2>3 DEF LeftIn
  <2>5. RemapToPostFix(p, fixes) = Moved(p + d[i])
    <3> DEFINE w == GrowsBefore(C, p)
    <3>1. PICK e: PartialSums(e, fixes, w) /\ RemapToPostFix(p, fixes) = Moved(p + e[n])
      BY <1>2, <2>1, RemapIs
    <3>2. \A k \in 1..i: w[fixes[k]] = Grows(C)[fixes[k]]
      <4>1. SUFFICES ASSUME NEW k \in 1..i PROVE w[fixes[k]] = Grows(C)[fixes[k]]
        OBVIOUS
      <4>2. k \in 1..n /\ k <= i
        BY <1>3
      <4>3. fixes[k].offset < p /\ fixes[k] \in Edit(C)
        BY <1>3, <2>2, <4>2
      <4>4. QED
        BY <4>3 DEF GrowsBefore, Grows
    <3>3. \A k \in (i + 1)..n: w[fixes[k]] = 0
      <4>1. SUFFICES ASSUME NEW k \in (i + 1)..n PROVE w[fixes[k]] = 0
        OBVIOUS
      <4>2. k \in 1..n /\ i < k
        BY <1>3
      <4>3. p < fixes[k].offset /\ fixes[k] \in Edit(C)
        BY <1>3, <2>2, <4>2
      <4>4. fixes[k].offset \in Nat
        BY <4>3, GrowthIsInt
      <4>5. ~(fixes[k].offset < p)
        BY <2>1, <4>3, <4>4
      <4>6. QED
        BY <4>3, <4>5 DEF GrowsBefore
    <3> HIDE DEF w
    <3>4. i \in Nat /\ i <= n /\ i \in 0..i
      BY <1>3
    <3>5. \A k \in 0..i: e[k] = d[k]
      BY <1>2, <1>3, <3>1, <3>2, <3>4, SameSums
    <3>6. e[n] = e[i]
      BY <1>3, <3>1, <3>3, <3>4, NothingAdded
    <3>7. QED
      BY <3>1, <3>4, <3>5, <3>6
  <2>6. Moved(p + d[i]) = p + d[i]
    <3> DEFINE place == p + d[i]
    <3>1. place \in Nat
      BY <2>4
    <3> HIDE DEF place
    <3>2. Moved(place) = place
      BY <3>1 DEF Moved
    <3>3. QED
      BY <3>2 DEF place
  <2>7. QED
    BY <2>1, <2>4, <2>5, <2>6
<1>6. QED
  BY <1>4, <1>5 DEF out, fixes, done
===============================================================================
