--------------------------- MODULE ToolCallsProofs ---------------------------
(* Proofs about ToolCalls, for every set of calls and keys and every budget, cap and   *)
(* number of restarts: one call at a time scans, within its budget of questions, a     *)
(* client is asked once for what it answers, no issue is left out of the statistics    *)
(* and what a finished call has judged is in the file.                                 *)
EXTENDS ToolCalls, TLAPS

Inside == {"scanning", "asking"}

Types ==
    /\ up \in BOOLEAN /\ dirty \in BOOLEAN /\ news \in BOOLEAN
    /\ lock \in Calls \cup {None}
    /\ pc \in [Calls -> {"unsent", "queued", "scanning", "asking", "done", "failed", "lost"}]
    /\ cancelled \in SUBSET Calls
    /\ issues \in Seq(Keys) /\ rest \in Seq(Keys)
    /\ used \in Nat /\ skipped \in Nat /\ judged \in Nat /\ restarts \in Nat
    /\ memo \in SUBSET Keys /\ cache \in SUBSET Keys /\ disk \in SUBSET Keys
    /\ asked \in Seq(Keys) /\ answered \in Seq(Keys)
    /\ wrote \in {"none", "ok", "failed"}

\* The scan that runs is the one that holds the mutex, and only in a process that runs.
LockInv ==
    /\ \A c \in Calls: pc[c] \in Inside <=> lock = c
    /\ ~up => lock = None /\ \A c \in Calls: pc[c] # "queued"

\* A question is about the first issue that is left, which has no answer yet.
AskInv == lock # None /\ pc[lock] = "asking" => rest # <<>> /\ Head(rest) \notin memo

\* An answer is remembered for the invocation, and marked as news for its end.
AnswerInv ==
    /\ AnsweredOnce
    /\ \A i \in DOMAIN answered: answered[i] \in memo
    /\ ~news \/ ~up => answered = <<>>

\* The bridge counts the questions it puts, and puts none above the budget.
BudgetInv == used = Len(asked) /\ used <= Budget

ScanInv == AskInv /\ AnswerInv /\ BudgetInv /\ EveryIssueIsAccountedFor

IInv == Types /\ LockInv /\ ScanInv /\ CleanMeansSaved

\* Appending to a history, and taking the first of what is left.
LEMMA AppendFacts ==
  ASSUME NEW s \in Seq(Keys), NEW k \in Keys
  PROVE  /\ Append(s, k) \in Seq(Keys) /\ Len(Append(s, k)) = Len(s) + 1
         /\ DOMAIN Append(s, k) = DOMAIN s \cup {Len(s) + 1}
         /\ Append(s, k)[Len(s) + 1] = k
         /\ \A i \in DOMAIN s: i # Len(s) + 1 /\ Append(s, k)[i] = s[i]
OBVIOUS

LEMMA TailFacts ==
  ASSUME NEW s \in Seq(Keys), s # <<>>
  PROVE  /\ Tail(s) \in Seq(Keys) /\ Len(s) \in Nat /\ Len(Tail(s)) \in Nat
         /\ Len(s) = Len(Tail(s)) + 1
OBVIOUS

\* Between two scans the scan's part of the invariant holds trivially.
LEMMA EmptyScan ==
  ASSUME rest' = <<>>, asked' = <<>>, answered' = <<>>, used' = 0, lock' = None
  PROVE  ScanInv'
<1>1. Len(asked') = 0 /\ DOMAIN answered' = {}
  OBVIOUS
<1>2. 0 <= Budget
  BY CallsAssumption
<1>3. QED
  BY <1>1, <1>2 DEF ScanInv, AskInv, AnswerInv, AnsweredOnce, BudgetInv,
                    EveryIssueIsAccountedFor

LEMMA InitInv == Init => IInv
<1> SUFFICES ASSUME Init PROVE IInv
  OBVIOUS
<1>1. Types
  <2>1. /\ issues \in Seq(Keys) /\ rest \in Seq(Keys)
        /\ asked \in Seq(Keys) /\ answered \in Seq(Keys)
    BY DEF Init
  <2>2. QED
    BY <2>1 DEF Init, Types
<1>2. LockInv /\ CleanMeansSaved
  BY CallsAssumption DEF Init, LockInv, Inside, CleanMeansSaved
<1>3. ScanInv
  <2>1. /\ lock = None /\ rest = <<>> /\ asked = <<>> /\ answered = <<>> /\ used = 0
        /\ Len(asked) = 0 /\ DOMAIN answered = {} /\ 0 <= Budget
    BY CallsAssumption DEF Init
  <2>2. QED
    BY <2>1 DEF ScanInv, AskInv, AnswerInv, AnsweredOnce, BudgetInv,
                EveryIssueIsAccountedFor
<1>4. QED
  BY <1>1, <1>2, <1>3 DEF IInv

\* What is collected of the issues found, and how many are not.
LEMMA CollectedProperties ==
  ASSUME NEW n \in Nat, NEW found \in [1..n -> Keys]
  PROVE  /\ found \in Seq(Keys) /\ Collected(found) \in Seq(Keys) /\ Uncollected(found) \in Nat
         /\ Len(found) = Uncollected(found) + Len(Collected(found))
<1>1. found \in Seq(Keys) /\ Len(found) = n
  OBVIOUS
<1>2. Cap \in Nat
  BY CallsAssumption
<1>3. Collected(found) \in Seq(Keys) /\ Len(Collected(found)) <= Len(found)
      /\ Len(Collected(found)) \in Nat
  <2>1. CASE Len(found) > Cap
    <3>1. SubSeq(found, 1, Cap) \in Seq(Keys) /\ Len(SubSeq(found, 1, Cap)) = Cap
      BY <1>1, <1>2, <2>1
    <3>2. QED
      BY <1>1, <1>2, <2>1, <3>1 DEF Collected
  <2>2. CASE ~(Len(found) > Cap)
    BY <1>1, <2>2 DEF Collected
  <2>3. QED
    BY <2>1, <2>2
<1>4. QED
  BY <1>1, <1>3 DEF Uncollected

\* The scan is over: its state goes with the mutex.
LEMMA DropTypes ==
  ASSUME Drop
  PROVE  /\ lock' = None /\ lock' \in Calls \cup {None}
         /\ issues' \in Seq(Keys) /\ rest' \in Seq(Keys) /\ memo' \in SUBSET Keys
         /\ used' \in Nat /\ skipped' \in Nat /\ judged' \in Nat
         /\ asked' \in Seq(Keys) /\ answered' \in Seq(Keys)
         /\ ScanInv'
<1>1. issues' = <<>> /\ rest' = <<>> /\ lock' = None /\ memo' = {}
      /\ used' = 0 /\ skipped' = 0 /\ judged' = 0 /\ asked' = <<>> /\ answered' = <<>>
  BY DEF Drop, Fresh
<1>2. /\ issues' \in Seq(Keys) /\ rest' \in Seq(Keys)
      /\ asked' \in Seq(Keys) /\ answered' \in Seq(Keys)
  BY <1>1
<1>3. QED
  BY <1>1, <1>2, EmptyScan

\* A write makes the cache clean when it succeeds, and leaves it as it was otherwise.
LEMMA FlushClean ==
  ASSUME IInv, up, Flush
  PROVE  /\ dirty' \in BOOLEAN /\ disk' \in SUBSET Keys /\ wrote' \in {"ok", "failed"}
         /\ ~dirty' => disk' = cache
         /\ wrote' # "failed" => disk' = cache
BY DEF IInv, Types, Flush, CleanMeansSaved

----------------------------------------------------------------------------
(* The steps *)

LEMMA ClientStep ==
  ASSUME IInv, NEW c \in Calls, Send(c) \/ Cancel(c) \/ Refuse(c)
  PROVE  IInv'
<1>1. /\ UNCHANGED <<up, lock, scanVars, cacheVars, restarts>>
      /\ cancelled' \in SUBSET Calls
      /\ \/ pc' = pc
         \/ /\ pc[c] \notin Inside
            /\ pc' = [pc EXCEPT ![c] = "queued"] /\ up
         \/ pc[c] \notin Inside /\ pc' = [pc EXCEPT ![c] = "done"]
  BY DEF Send, Cancel, Refuse, Goto, IInv, Types, Inside
<1>2. Types'
  BY <1>1 DEF IInv, Types, scanVars, cacheVars
<1>3. LockInv' /\ CleanMeansSaved'
  BY <1>1, CallsAssumption DEF IInv, Types, LockInv, Inside, CleanMeansSaved, cacheVars
<1>4. lock # None => pc'[lock] = pc[lock]
  BY <1>1 DEF IInv, Types, LockInv, Inside
<1>5. AskInv' /\ EveryIssueIsAccountedFor'
  BY <1>1, <1>4 DEF IInv, ScanInv, AskInv, EveryIssueIsAccountedFor, scanVars
<1>6. AnswerInv' /\ BudgetInv'
  BY <1>1 DEF IInv, ScanInv, AnswerInv, AnsweredOnce, BudgetInv, scanVars, cacheVars
<1>7. QED
  BY <1>2, <1>3, <1>5, <1>6 DEF IInv, ScanInv

LEMMA EnterStep ==
  ASSUME IInv, NEW c \in Calls, NEW n \in Nat, NEW found \in [1..n -> Keys], Enter(c, found)
  PROVE  IInv'
<1>1. /\ pc[c] = "queued" /\ lock = None /\ lock' = c
      /\ pc' = [pc EXCEPT ![c] = "scanning"]
      /\ issues' = found /\ rest' = Collected(found) /\ skipped' = Uncollected(found)
      /\ used' = 0 /\ judged' = 0 /\ memo' = {} /\ asked' = <<>> /\ answered' = <<>>
      /\ wrote' = "none"
      /\ UNCHANGED <<up, cancelled, cache, dirty, news, disk, restarts>>
  BY DEF Enter, Goto, Fresh
<1>2. Types'
  <2>1. issues' \in Seq(Keys) /\ rest' \in Seq(Keys) /\ skipped' \in Nat
    BY <1>1, CollectedProperties
  <2>2. asked' \in Seq(Keys) /\ answered' \in Seq(Keys)
    BY <1>1
  <2>3. QED
    BY <1>1, <2>1, <2>2 DEF IInv, Types
<1>3. LockInv' /\ CleanMeansSaved'
  BY <1>1, CallsAssumption DEF IInv, Types, LockInv, Inside, CleanMeansSaved
<1>4. pc'[c] = "scanning" /\ Len(asked') = 0 /\ Len(answered') = 0 /\ DOMAIN answered' = {}
  BY <1>1 DEF IInv, Types
<1>5. AskInv' /\ AnswerInv' /\ BudgetInv'
  BY <1>1, <1>4, CallsAssumption DEF AskInv, AnswerInv, AnsweredOnce, BudgetInv
<1>6. EveryIssueIsAccountedFor'
  <2>1. /\ Len(found) = Uncollected(found) + Len(Collected(found))
        /\ Len(Collected(found)) \in Nat /\ Uncollected(found) \in Nat
    BY CollectedProperties
  <2>2. QED
    BY <1>1, <1>4, <2>1 DEF EveryIssueIsAccountedFor
<1>7. QED
  BY <1>2, <1>3, <1>5, <1>6 DEF IInv, ScanInv

\* Steps of a scan that ask nothing: the first issue is dealt with, or its judgment
\* expires.
LEMMA QuietStep ==
  ASSUME IInv, NEW k \in Keys, Skip(k) \/ Expire(k) \/ Recall(k)
  PROVE  IInv'
<1>1. /\ At(k) /\ UNCHANGED <<up, lock, pc, cancelled, issues, used, memo, asked, answered,
                              news, disk, wrote, restarts>>
      /\ \/ rest' = rest /\ skipped' = skipped /\ judged' = judged
         \/ rest' = Tail(rest) /\ skipped' = skipped + 1 /\ judged' = judged
         \/ rest' = Tail(rest) /\ skipped' = skipped /\ judged' = judged + 1
      /\ \/ cache' = cache /\ dirty' = dirty
         \/ cache' = cache \ {k} /\ dirty' = TRUE
  BY DEF Skip, Expire, Recall, Judge, Advance, callVars, scanVars, cacheVars
<1>2. /\ rest \in Seq(Keys) /\ rest # <<>> /\ skipped \in Nat /\ judged \in Nat
      /\ Tail(rest) \in Seq(Keys) /\ Len(Tail(rest)) \in Nat /\ Len(rest) \in Nat
      /\ Len(rest) = Len(Tail(rest)) + 1
  BY <1>1, TailFacts DEF At, IInv, Types
<1>3. Types'
  <2>1. rest' \in Seq(Keys) /\ skipped' \in Nat /\ judged' \in Nat
    BY <1>1, <1>2
  <2>2. QED
    BY <1>1, <2>1 DEF IInv, Types
<1>4. LockInv' /\ AskInv' /\ CleanMeansSaved'
  BY <1>1 DEF IInv, ScanInv, LockInv, AskInv, At, CleanMeansSaved
<1>5. AnswerInv' /\ BudgetInv'
  BY <1>1 DEF IInv, ScanInv, AnswerInv, AnsweredOnce, BudgetInv
<1>6. EveryIssueIsAccountedFor'
  <2>1. Len(asked) \in Nat /\ Len(answered) \in Nat /\ Len(issues) \in Nat
    BY DEF IInv, Types
  <2>2. judged + (Len(asked) - Len(answered)) + skipped + Len(rest) = Len(issues)
    BY <1>1 DEF IInv, ScanInv, EveryIssueIsAccountedFor, At
  <2>3. judged' + (Len(asked) - Len(answered)) + skipped' + Len(rest') = Len(issues)
    <3>1. CASE rest' = rest /\ skipped' = skipped /\ judged' = judged
      BY <2>2, <3>1
    <3>2. CASE rest' = Tail(rest) /\ skipped' = skipped + 1 /\ judged' = judged
      BY <1>2, <2>1, <2>2, <3>2
    <3>3. CASE rest' = Tail(rest) /\ skipped' = skipped /\ judged' = judged + 1
      BY <1>2, <2>1, <2>2, <3>3
    <3>4. QED
      BY <1>1, <3>1, <3>2, <3>3
  <2>4. QED
    BY <1>1, <2>3 DEF EveryIssueIsAccountedFor, At
<1>7. QED
  BY <1>3, <1>4, <1>5, <1>6 DEF IInv, ScanInv

LEMMA AskStep ==
  ASSUME IInv, NEW k \in Keys, Ask(k)
  PROVE  IInv'
<1>1. /\ At(k) /\ k \notin memo /\ used < Budget
      /\ pc' = [pc EXCEPT ![lock] = "asking"]
      /\ asked' = Append(asked, k) /\ used' = used + 1
      /\ UNCHANGED <<up, lock, cancelled, issues, rest, skipped, judged, memo, answered,
                     cache, dirty, news, disk, wrote, restarts>>
  BY DEF Ask, HasBudget, Goto, cacheVars
<1>2. Types'
  <2>1. asked' \in Seq(Keys) /\ used' \in Nat
    BY <1>1, AppendFacts DEF IInv, Types
  <2>2. pc' \in [Calls -> {"unsent", "queued", "scanning", "asking", "done", "failed", "lost"}]
    BY <1>1 DEF IInv, Types
  <2>3. QED
    BY <1>1, <2>1, <2>2 DEF IInv, Types
<1>3. LockInv' /\ AskInv' /\ CleanMeansSaved'
  BY <1>1, CallsAssumption
     DEF IInv, ScanInv, Types, LockInv, AskInv, At, Inside, CleanMeansSaved
<1>4. AnswerInv'
  BY <1>1 DEF IInv, ScanInv, AnswerInv, AnsweredOnce
<1>5. Len(asked') = Len(asked) + 1 /\ Len(asked) \in Nat
  BY <1>1, AppendFacts DEF IInv, Types
<1>6. BudgetInv'
  BY <1>1, <1>5, CallsAssumption DEF IInv, ScanInv, BudgetInv, Types
<1>7. EveryIssueIsAccountedFor'
  <2>1. lock # None /\ pc[lock] = "scanning" /\ pc'[lock] = "asking" /\ lock' = lock
    BY <1>1 DEF At, IInv, Types
  <2>2. judged + (Len(asked) - Len(answered)) + skipped + Len(rest) = Len(issues)
    BY <2>1 DEF IInv, ScanInv, EveryIssueIsAccountedFor
  <2>3. /\ Len(answered) \in Nat /\ Len(issues) \in Nat /\ Len(rest) \in Nat
        /\ skipped \in Nat /\ judged \in Nat
    BY DEF IInv, Types
  <2>4. judged + (Len(asked') - Len(answered)) + skipped + Len(rest) = Len(issues) + 1
    BY <1>5, <2>2, <2>3
  <2>5. QED
    BY <1>1, <2>1, <2>4 DEF EveryIssueIsAccountedFor
<1>8. QED
  BY <1>2, <1>3, <1>4, <1>6, <1>7 DEF IInv, ScanInv

LEMMA AnswerStep ==
  ASSUME IInv, NEW k \in Keys, Answer(k)
  PROVE  IInv'
<1>1. /\ lock # None /\ pc[lock] = "asking" /\ Head(rest) = k
      /\ pc' = [pc EXCEPT ![lock] = "scanning"]
      /\ answered' = Append(answered, k)
      /\ judged' = judged + 1 /\ rest' = Tail(rest)
      /\ cache' = cache \cup {k} /\ dirty' = TRUE /\ news' = TRUE /\ memo' = memo \cup {k}
      /\ UNCHANGED <<up, lock, cancelled, issues, used, skipped, asked, disk, wrote, restarts>>
  BY DEF Answer, Asking, Goto, Judge, Advance, NewJudgment, Remember
<1>2. rest # <<>> /\ k \notin memo /\ lock \in Calls /\ up
  BY <1>1 DEF IInv, ScanInv, AskInv, LockInv, Types
<1>3. /\ answered' \in Seq(Keys) /\ Len(answered') = Len(answered) + 1
      /\ DOMAIN answered' = DOMAIN answered \cup {Len(answered) + 1}
      /\ answered'[Len(answered) + 1] = k
      /\ \A i \in DOMAIN answered: i # Len(answered) + 1 /\ answered'[i] = answered[i]
  BY <1>1, AppendFacts DEF IInv, Types
<1>4. rest' \in Seq(Keys) /\ Len(rest') \in Nat /\ Len(rest) = Len(rest') + 1
  BY <1>1, <1>2, TailFacts DEF IInv, Types
<1>5. Types'
  BY <1>1, <1>3, <1>4 DEF IInv, Types
<1>6. LockInv' /\ AskInv' /\ CleanMeansSaved'
  BY <1>1, <1>2, CallsAssumption
     DEF IInv, Types, LockInv, AskInv, Inside, CleanMeansSaved
<1>7. AnswerInv'
  <2>1. \A i \in DOMAIN answered: answered[i] \in memo /\ answered[i] # k
    BY <1>2 DEF IInv, ScanInv, AnswerInv
  <2>2. \A i \in DOMAIN answered': answered'[i] \in memo'
    BY <1>1, <1>3, <2>1
  <2>3. AnsweredOnce'
    BY <1>3, <2>1 DEF IInv, ScanInv, AnswerInv, AnsweredOnce
  <2>4. QED
    BY <1>1, <1>2, <2>2, <2>3 DEF AnswerInv
<1>8. BudgetInv'
  BY <1>1 DEF IInv, ScanInv, BudgetInv
<1>9. EveryIssueIsAccountedFor'
  <2>1. pc'[lock] = "scanning" /\ lock' = lock
    BY <1>1, <1>2 DEF IInv, Types
  <2>2. judged + (Len(asked) - Len(answered)) + skipped + Len(rest) = Len(issues) + 1
    BY <1>1 DEF IInv, ScanInv, EveryIssueIsAccountedFor
  <2>3. /\ Len(asked) \in Nat /\ Len(answered) \in Nat /\ Len(issues) \in Nat
        /\ skipped \in Nat /\ judged \in Nat
    BY DEF IInv, Types
  <2>4. judged' + (Len(asked) - Len(answered')) + skipped + Len(rest') = Len(issues)
    BY <1>1, <1>3, <1>4, <2>2, <2>3
  <2>5. QED
    BY <1>1, <2>1, <2>4 DEF EveryIssueIsAccountedFor
<1>10. QED
  BY <1>5, <1>6, <1>7, <1>8, <1>9 DEF IInv, ScanInv

LEMMA NoAnswerStep ==
  ASSUME IInv, NoAnswer
  PROVE  IInv'
<1>1. /\ lock # None /\ pc[lock] = "asking"
      /\ pc' = [pc EXCEPT ![lock] = "scanning"] /\ rest' = Tail(rest)
      /\ UNCHANGED <<up, lock, cancelled, issues, used, skipped, judged, memo, asked,
                     answered, cache, dirty, news, disk, wrote, restarts>>
  BY DEF NoAnswer, Goto, Advance, cacheVars
<1>2. rest # <<>> /\ lock \in Calls
  BY <1>1 DEF IInv, ScanInv, AskInv, Types
<1>3. rest' \in Seq(Keys) /\ Len(rest') \in Nat /\ Len(rest) = Len(rest') + 1
  BY <1>1, <1>2, TailFacts DEF IInv, Types
<1>4. Types'
  BY <1>1, <1>3 DEF IInv, Types
<1>5. LockInv' /\ AskInv' /\ CleanMeansSaved'
  BY <1>1, <1>2, CallsAssumption
     DEF IInv, Types, LockInv, AskInv, Inside, CleanMeansSaved
<1>6. AnswerInv' /\ BudgetInv'
  BY <1>1 DEF IInv, ScanInv, AnswerInv, AnsweredOnce, BudgetInv
<1>7. EveryIssueIsAccountedFor'
  <2>1. pc'[lock] = "scanning" /\ lock' = lock
    BY <1>1, <1>2 DEF IInv, Types
  <2>2. judged + (Len(asked) - Len(answered)) + skipped + Len(rest) = Len(issues) + 1
    BY <1>1 DEF IInv, ScanInv, EveryIssueIsAccountedFor
  <2>3. /\ Len(asked) \in Nat /\ Len(answered) \in Nat /\ Len(issues) \in Nat
        /\ skipped \in Nat /\ judged \in Nat
    BY DEF IInv, Types
  <2>4. judged + (Len(asked) - Len(answered)) + skipped + Len(rest') = Len(issues)
    BY <1>3, <2>2, <2>3
  <2>5. QED
    BY <1>1, <2>1, <2>4 DEF EveryIssueIsAccountedFor
<1>8. QED
  BY <1>4, <1>5, <1>6, <1>7 DEF IInv, ScanInv

\* A call that ends, or panics, is out, and nobody is inside.
LEMMA FinishStep ==
  ASSUME IInv, Finish
  PROVE  IInv'
<1>1. /\ lock # None /\ pc' = [pc EXCEPT ![lock] = "done"] /\ Drop /\ news' = FALSE
      /\ IF news THEN Flush ELSE UNCHANGED <<dirty, disk, wrote>>
      /\ UNCHANGED <<up, cancelled, cache, restarts>>
  BY DEF Finish, Goto, NoFlush
<1>2. up
  BY <1>1 DEF IInv, LockInv
<1>3. /\ dirty' \in BOOLEAN /\ disk' \in SUBSET Keys /\ wrote' \in {"none", "ok", "failed"}
      /\ ~dirty' => disk' = cache
  BY <1>1, <1>2, FlushClean DEF IInv, Types, CleanMeansSaved
<1>4. Types'
  <2>1. pc' \in [Calls -> {"unsent", "queued", "scanning", "asking", "done", "failed", "lost"}]
    BY <1>1 DEF IInv, Types
  <2>2. up' \in BOOLEAN /\ news' \in BOOLEAN /\ cancelled' \in SUBSET Calls
        /\ cache' \in SUBSET Keys /\ restarts' \in Nat
    BY <1>1 DEF IInv, Types
  <2>3. QED
    BY <1>1, <1>3, <2>1, <2>2, DropTypes DEF Types
<1>5. LockInv'
  BY <1>1, <1>2, DropTypes, CallsAssumption DEF IInv, Types, LockInv, Inside
<1>6. CleanMeansSaved'
  BY <1>1, <1>3 DEF CleanMeansSaved
<1>7. QED
  BY <1>1, <1>4, <1>5, <1>6, DropTypes DEF IInv

LEMMA PanicStep ==
  ASSUME IInv, Panic
  PROVE  IInv'
<1>1. /\ lock # None /\ pc' = [pc EXCEPT ![lock] = "failed"] /\ Drop
      /\ UNCHANGED <<up, cancelled, cache, dirty, news, disk, wrote, restarts>>
  BY DEF Panic, Goto, cacheVars
<1>2. up
  BY <1>1 DEF IInv, LockInv
<1>3. Types'
  BY <1>1, DropTypes DEF IInv, Types
<1>4. LockInv'
  BY <1>1, <1>2, DropTypes, CallsAssumption DEF IInv, Types, LockInv, Inside
<1>5. CleanMeansSaved'
  BY <1>1 DEF IInv, CleanMeansSaved
<1>6. QED
  BY <1>1, <1>3, <1>4, <1>5, DropTypes DEF IInv

\* A process that ends takes its calls along.
LEMMA StopStep ==
  ASSUME IInv, Exit \/ Kill
  PROVE  IInv'
<1>1. /\ up /\ up' = FALSE /\ Drop
      /\ pc' = [c \in Calls |-> IF pc[c] \in {"queued", "scanning", "asking"} THEN "lost"
                                ELSE pc[c]]
      /\ UNCHANGED <<cancelled, cache, news, restarts>>
      /\ Flush \/ UNCHANGED <<dirty, disk, wrote>>
  BY DEF Exit, Kill, Stop, NoFlush
<1>2. dirty' \in BOOLEAN /\ disk' \in SUBSET Keys /\ wrote' \in {"none", "ok", "failed"}
  BY <1>1, FlushClean DEF IInv, Types
<1>3. Types'
  <2>1. pc' \in [Calls -> {"unsent", "queued", "scanning", "asking", "done", "failed", "lost"}]
    BY <1>1 DEF IInv, Types
  <2>2. up' \in BOOLEAN /\ news' \in BOOLEAN /\ cancelled' \in SUBSET Calls
        /\ cache' \in SUBSET Keys /\ restarts' \in Nat
    BY <1>1 DEF IInv, Types
  <2>3. QED
    BY <1>1, <1>2, <2>1, <2>2, DropTypes DEF Types
<1>4. LockInv'
  BY <1>1, DropTypes, CallsAssumption DEF IInv, Types, LockInv, Inside
<1>5. CleanMeansSaved'
  BY <1>1 DEF CleanMeansSaved
<1>6. QED
  BY <1>1, <1>3, <1>4, <1>5, DropTypes DEF IInv

LEMMA RestartStep ==
  ASSUME IInv, Restart
  PROVE  IInv'
<1>1. /\ ~up /\ up' = TRUE /\ restarts' = restarts + 1 /\ cache' \in SUBSET disk
      /\ news' = FALSE
      /\ UNCHANGED <<lock, pc, cancelled, issues, rest, used, skipped, judged, memo, asked,
                     answered, disk, wrote>>
  BY DEF Restart, callVars, scanVars
<1>2. dirty' \in BOOLEAN /\ (~dirty' => cache' = disk)
  BY DEF Restart
<1>3. Types'
  <2>1. cache' \in SUBSET Keys /\ restarts' \in Nat
    BY <1>1 DEF IInv, Types
  <2>2. up' \in BOOLEAN /\ news' \in BOOLEAN
    BY <1>1
  <2>3. QED
    BY <1>1, <1>2, <2>1, <2>2 DEF IInv, Types
<1>4. LockInv' /\ CleanMeansSaved'
  BY <1>1, <1>2 DEF IInv, LockInv, CleanMeansSaved
<1>5. AskInv' /\ AnswerInv' /\ BudgetInv' /\ EveryIssueIsAccountedFor'
  BY <1>1 DEF IInv, ScanInv, LockInv, AskInv, AnswerInv, AnsweredOnce, BudgetInv,
              EveryIssueIsAccountedFor
<1>6. QED
  BY <1>3, <1>4, <1>5 DEF IInv, ScanInv

LEMMA StepInv == IInv /\ Next => IInv'
<1> SUFFICES ASSUME IInv, Next PROVE IInv'
  OBVIOUS
<1>1. ASSUME NEW c \in Calls, Begin(c)
      PROVE  IInv'
  <2>1. MaxIssues \in Nat
    BY CallsAssumption
  <2>2. PICK n \in Nat: \E found \in [1..n -> Keys]: Enter(c, found)
    BY <1>1, <2>1 DEF Begin
  <2>3. QED
    BY <2>2, EnterStep
<1>2. CASE Scan
  BY <1>2, QuietStep, AskStep, FinishStep DEF Scan
<1>3. QED
  BY <1>1, <1>2, ClientStep, AnswerStep, NoAnswerStep, PanicStep, StopStep, RestartStep
     DEF Next

\* One call at a time is inside, what is asked has no answer yet, answers are remembered
\* and marked, the bridge's count is that of the questions put, every issue is accounted
\* for, and a clean cache is the file.
THEOREM Inductive == Spec => []IInv
<1>1. IInv /\ UNCHANGED vars => IInv'
  BY DEF vars, callVars, scanVars, cacheVars, IInv, Types, LockInv, ScanInv, AskInv,
         AnswerInv, AnsweredOnce, BudgetInv, EveryIssueIsAccountedFor, CleanMeansSaved
<1>2. QED
  BY InitInv, StepInv, <1>1, PTL DEF Spec

\* Each variable keeps its type.
THEOREM TypeCorrect == Spec => []TypeOK
<1>1. IInv => TypeOK
  BY DEF IInv, Types, TypeOK
<1>2. QED
  BY Inductive, <1>1, PTL

\* Within an invocation the client is not asked again what it has answered, whatever the
\* persistent cache forgets meanwhile.
THEOREM NeverAnsweredTwice == Spec => []AnsweredOnce
<1>1. IInv => AnsweredOnce
  BY DEF IInv, ScanInv, AnswerInv
<1>2. QED
  BY Inductive, <1>1, PTL

\* SamplingBridge: a call puts at most the budget's number of questions to the client,
\* however many issues it has, however they repeat and however each question ends.
THEOREM BudgetNeverExceeded == Spec => []BudgetHolds
<1>1. IInv => BudgetHolds
  BY DEF IInv, ScanInv, BudgetInv, BudgetHolds
<1>2. QED
  BY Inductive, <1>1, PTL

\* refine_issues_with_sampling: at every moment of a scan the issues judged, asked about
\* in vain, skipped and still to come add up to those found, so that sampling_stats leaves
\* none out and counts none twice.
THEOREM EveryIssueAlwaysCounted == Spec => []EveryIssueIsAccountedFor
<1>1. IInv => EveryIssueIsAccountedFor
  BY DEF IInv, ScanInv
<1>2. QED
  BY Inductive, <1>1, PTL

\* No write of the judgment cache is left out because it passes for clean.
THEOREM CleanAlwaysSaved == Spec => []CleanMeansSaved
<1>1. IInv => CleanMeansSaved
  BY DEF IInv
<1>2. QED
  BY Inductive, <1>1, PTL

\* flush_if_judged: what a finished call has judged is in judgment_cache.json, unless the
\* write failed, however many calls, questions, kills and restarts there were.
THEOREM FinishedAlwaysWritten == Spec => CompletedCallIsWritten
<1> DEFINE Written == \A c \in Calls: pc[c] = "scanning" /\ pc'[c] = "done" =>
                          wrote' = "failed" \/ (cache \cap Range(answered)) \subseteq disk'
<1>1. IInv /\ [Next]_vars => [Written]_vars
  <2> SUFFICES ASSUME IInv, Next, NEW c \in Calls, pc[c] = "scanning", pc'[c] = "done",
                      wrote' # "failed"
               PROVE  (cache \cap Range(answered)) \subseteq disk'
    OBVIOUS
  <2>1. lock = c /\ up
    BY CallsAssumption DEF IInv, LockInv, Inside
  <2>2. Finish
    <3>1. \A d \in Calls: ~Refuse(d)
      BY <2>1, CallsAssumption DEF Refuse
    <3>2. \A d \in Calls: ~Send(d) /\ ~Cancel(d) /\ ~Begin(d)
      BY <2>1, CallsAssumption DEF Send, Cancel, Begin, Enter, Goto, IInv, Types
    <3>3. \A k \in Keys: ~Skip(k) /\ ~Expire(k) /\ ~Recall(k) /\ ~Ask(k) /\ ~Answer(k)
      BY <2>1 DEF Skip, Expire, Recall, Ask, Answer, Asking, Goto, callVars, IInv, Types
    <3>4. ~NoAnswer /\ ~Panic
      BY <2>1 DEF NoAnswer, Panic, Goto, IInv, Types
    <3>5. ~Exit /\ ~Kill /\ ~Restart
      BY <2>1 DEF Exit, Kill, Stop, Restart
    <3>6. QED
      BY <3>1, <3>2, <3>3, <3>4, <3>5 DEF Next, Scan
  <2>3. CASE news
    <3>1. Flush
      BY <2>2, <2>3 DEF Finish
    <3>2. disk' = cache
      BY <2>1, <3>1, FlushClean
    <3>3. QED
      BY <3>2
  <2>4. CASE ~news
    <3>1. answered = <<>> /\ DOMAIN answered = {}
      BY <2>4 DEF IInv, ScanInv, AnswerInv
    <3>2. QED
      BY <3>1 DEF Range
  <2>5. QED
    BY <2>3, <2>4
<1>2. QED
  BY Inductive, <1>1, PTL DEF Spec, CompletedCallIsWritten
=============================================================================
