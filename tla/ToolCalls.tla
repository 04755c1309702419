------------------------------ MODULE ToolCalls ------------------------------
(***************************************************************************)
(* Calls of the zhtw tool in one MCP server: call_tool of src/mcp/sdk.rs   *)
(* with its lock and its sampling loop, refine_issues_with_sampling of     *)
(* src/mcp/sampling.rs, and the judgment cache of                          *)
(* src/rules/judgment_cache.rs, through exits, kills and restarts.         *)
(*                                                                         *)
(* An issue stands for one that is eligible for sampling, and is named by  *)
(* the key of its judgment; what a judgment says is left out.  A call      *)
(* without the sampling capability is one with no issues.  The server's    *)
(* mutex is held for a whole scan, so the state of a scan is kept once,    *)
(* for the call that holds it.                                             *)
(***************************************************************************)
EXTENDS Naturals, Sequences, Functions

CONSTANTS
  Calls,
  Keys,
  None,        \* no call holds the mutex
  Budget,      \* DEFAULT_SAMPLING_BUDGET
  Cap,         \* issues collected for a budget, ten for each request of it
  MaxIssues,   \* bound: issues of a call
  MaxRestarts  \* bound: restarts of the server

ASSUME CallsAssumption ==
  /\ None \notin Calls
  /\ {Budget, Cap, MaxIssues, MaxRestarts} \subseteq Nat

VARIABLES
  up,         \* whether the server runs
  lock,       \* which call holds the server's mutex
  pc,         \* where each call is
  cancelled,  \* calls the client has cancelled
  issues,     \* the eligible issues of the scan
  rest,       \* those refine_issues_with_sampling has still to look at
  used,       \* SamplingBridge.used
  skipped,    \* SamplingStats.skipped
  judged,     \* issues that got a judgment
  memo,       \* keys in the invocation's own cache of answers
  cache,      \* keys in the judgment cache
  dirty,      \* JudgmentCache.dirty
  news,       \* JudgmentCache.judged
  disk,       \* keys in judgment_cache.json
  restarts,
  asked,      \* history: the keys the scan has put to the client, in order
  answered,   \* history: those the client has answered
  wrote       \* history: how the scan's attempt to write went

callVars == <<pc, cancelled>>
scanVars == <<issues, rest, used, skipped, judged, memo, asked, answered>>
cacheVars == <<cache, dirty, news, disk, wrote>>
vars == <<up, lock, callVars, scanVars, cacheVars, restarts>>

\* The state of a scan as it begins, with found and what of it is looked at.
Fresh(found, collected, over) ==
  /\ issues' = found /\ rest' = collected /\ skipped' = over
  /\ used' = 0 /\ judged' = 0 /\ memo' = {}
  /\ asked' = <<>> /\ answered' = <<>>

\* The state of a scan goes with the call, and with the mutex.
Drop == lock' = None /\ Fresh(<<>>, <<>>, 0)

Init ==
  /\ up = TRUE /\ lock = None
  /\ pc = [c \in Calls |-> "unsent"] /\ cancelled = {}
  /\ issues = <<>> /\ rest = <<>>
  /\ used = 0 /\ skipped = 0 /\ judged = 0
  /\ memo = {} /\ asked = <<>> /\ answered = <<>>
  /\ cache = {} /\ disk = {} /\ dirty = FALSE /\ news = FALSE /\ wrote = "none"
  /\ restarts = 0

Goto(c, place) == pc' = [pc EXCEPT ![c] = place]

-----------------------------------------------------------------------------
(***************************************************************************)
(* The client.                                                             *)
(***************************************************************************)

Send(c) ==
  /\ up /\ pc[c] = "unsent"
  /\ Goto(c, "queued")
  /\ UNCHANGED <<up, lock, cancelled, scanVars, cacheVars, restarts>>

Cancel(c) ==
  /\ pc[c] \in {"queued", "scanning", "asking"} /\ c \notin cancelled
  /\ cancelled' = cancelled \cup {c}
  /\ UNCHANGED <<up, lock, pc, scanVars, cacheVars, restarts>>

-----------------------------------------------------------------------------
(***************************************************************************)
(* The scan of a call, on the blocking pool, holding the mutex throughout. *)
(***************************************************************************)

Collected(found) == IF Len(found) > Cap THEN SubSeq(found, 1, Cap) ELSE found

Uncollected(found) == Len(found) - Len(Collected(found))

\* The mutex is taken, the text scanned, and the eligible issues are collected
\* up to the cap; the others count as skipped.  A budget of zero would skip the
\* collection, with the same counts in the end.
Enter(c, found) ==
  /\ pc[c] = "queued" /\ lock = None
  /\ lock' = c
  /\ Goto(c, "scanning")
  /\ Fresh(found, Collected(found), Uncollected(found))
  /\ wrote' = "none"
  /\ UNCHANGED <<up, cancelled, cache, dirty, news, disk, restarts>>

\* A call with another tool's name or unknown parameters returns before any of
\* it, and before flush_if_judged.
Refuse(c) ==
  /\ pc[c] = "queued" /\ lock = None
  /\ Goto(c, "done")
  /\ UNCHANGED <<up, lock, cancelled, scanVars, cacheVars, restarts>>

At(k) == lock # None /\ pc[lock] = "scanning" /\ rest # <<>> /\ Head(rest) = k
HasBudget == used < Budget
Advance == rest' = Tail(rest)
Judge == judged' = judged + 1 /\ Advance

\* Mutant: the issue that found the budget gone is not counted.
SkipSilently(k) ==
  /\ At(k) /\ ~HasBudget
  /\ Advance
  /\ UNCHANGED <<up, lock, callVars, issues, used, skipped, judged, memo, asked, answered,
                 cacheVars, restarts>>

Skip(k) ==
  /\ At(k) /\ ~HasBudget
  /\ skipped' = skipped + 1 /\ Advance
  /\ UNCHANGED <<up, lock, callVars, issues, used, judged, memo, asked, answered,
                 cacheVars, restarts>>

\* JudgmentCache::get on an entry that has expired removes it: the wall clock it
\* asks may have been set forward since the entry was stored.
Expire(k) ==
  /\ At(k) /\ HasBudget /\ k \in cache
  /\ cache' = cache \ {k}
  /\ dirty' = TRUE
  /\ UNCHANGED <<up, lock, callVars, scanVars, news, disk, wrote, restarts>>

\* A judgment from the persistent cache, or from this invocation's.
Recall(k) ==
  /\ At(k) /\ HasBudget /\ (k \in cache \/ k \in memo)
  /\ Judge
  /\ UNCHANGED <<up, lock, callVars, issues, used, skipped, memo, asked, answered,
                 cacheVars, restarts>>

\* Mutant: the budget is charged for answers, not for questions.
AskFree(k) ==
  /\ At(k) /\ HasBudget /\ k \notin cache /\ k \notin memo
  /\ Goto(lock, "asking")
  /\ asked' = Append(asked, k)
  /\ used' = Len(answered)
  /\ UNCHANGED <<up, lock, cancelled, issues, rest, skipped, judged, memo, answered,
                 cacheVars, restarts>>

Ask(k) ==
  /\ At(k) /\ HasBudget /\ k \notin cache /\ k \notin memo
  /\ Goto(lock, "asking")
  /\ asked' = Append(asked, k)
  /\ used' = used + 1
  /\ UNCHANGED <<up, lock, cancelled, issues, rest, skipped, judged, memo, answered,
                 cacheVars, restarts>>

Asking(k) == lock # None /\ pc[lock] = "asking" /\ Head(rest) = k

\* Mutants: what an answer leaves behind misses the invocation's cache, or the
\* mark that the call has news to write.
RememberNot(k) == memo' = memo
ChangeOnly == dirty' = TRUE /\ news' = news

Remember(k) == memo' = memo \cup {k}

NewJudgment == dirty' = TRUE /\ news' = TRUE

\* The client answers in time.  A cancelled call takes no answer any more: the
\* select that waits for one looks at the cancellation first.
Answer(k) ==
  /\ Asking(k) /\ lock \notin cancelled
  /\ Goto(lock, "scanning")
  /\ answered' = Append(answered, k)
  /\ Judge
  /\ cache' = cache \cup {k}
  /\ NewJudgment
  /\ Remember(k)
  /\ UNCHANGED <<up, lock, cancelled, issues, used, skipped, asked, disk, wrote, restarts>>

\* Mutant: only a cancellation ends the wait.
WaitForCancel ==
  /\ lock \in cancelled /\ pc[lock] = "asking"
  /\ Goto(lock, "scanning")
  /\ Advance
  /\ UNCHANGED <<up, lock, cancelled, issues, used, skipped, judged, memo, asked, answered,
                 cacheVars, restarts>>

\* The deadline passes, the request fails, or the call is cancelled.
NoAnswer ==
  /\ lock # None /\ pc[lock] = "asking"
  /\ Goto(lock, "scanning")
  /\ Advance
  /\ UNCHANGED <<up, lock, cancelled, issues, used, skipped, judged, memo, asked, answered,
                 cacheVars, restarts>>

\* JudgmentCache::flush: the whole file is replaced, or the write fails.
Flush ==
  \/ /\ dirty' = FALSE
     /\ disk' = IF dirty THEN cache ELSE disk
     /\ wrote' = "ok"
  \/ /\ dirty
     /\ wrote' = "failed"
     /\ UNCHANGED <<dirty, disk>>

NoFlush == UNCHANGED <<dirty, disk, wrote>>

\* The rest of the pipeline, and flush_if_judged under the mutex.
Finish ==
  /\ lock # None /\ pc[lock] = "scanning" /\ rest = <<>>
  /\ IF news THEN Flush ELSE NoFlush
  /\ news' = FALSE
  /\ Goto(lock, "done")
  /\ Drop
  /\ UNCHANGED <<up, cancelled, cache, restarts>>

\* The pipeline panics; unwinding releases the mutex and its poisoning is ignored.
Panic ==
  /\ lock # None /\ pc[lock] = "scanning"
  /\ Goto(lock, "failed")
  /\ Drop
  /\ UNCHANGED <<up, cancelled, cacheVars, restarts>>

-----------------------------------------------------------------------------
(***************************************************************************)
(* The process.                                                            *)
(***************************************************************************)

Stop ==
  /\ up' = FALSE
  /\ Drop
  /\ pc' = [c \in Calls |-> IF pc[c] \in {"queued", "scanning", "asking"} THEN "lost"
                            ELSE pc[c]]
  /\ UNCHANGED <<cancelled, cache, news, restarts>>

\* flush_before_exit: a mutex held by a scan costs the flush.
Exit == up /\ (IF lock = None THEN Flush ELSE NoFlush) /\ Stop

Kill == up /\ NoFlush /\ Stop

\* Opening the cache drops what has expired, and what is over its cap.
Restart ==
  /\ ~up /\ restarts < MaxRestarts
  /\ up' = TRUE
  /\ restarts' = restarts + 1
  /\ cache' \in SUBSET disk
  /\ dirty' = (cache' # disk)
  /\ news' = FALSE
  /\ UNCHANGED <<lock, callVars, scanVars, disk, wrote>>

Scan ==
  \/ \E k \in Keys : Skip(k) \/ Expire(k) \/ Recall(k) \/ Ask(k)
  \/ Finish

Begin(c) == \E n \in 0..MaxIssues : \E found \in [1..n -> Keys] : Enter(c, found)

Next ==
  \/ \E c \in Calls : Send(c) \/ Cancel(c) \/ Begin(c) \/ Refuse(c)
  \/ Scan \/ NoAnswer \/ Panic
  \/ \E k \in Keys : Answer(k)
  \/ Exit \/ Kill \/ Restart

\* A runnable scan runs, the mutex is handed on, and a deadline passes.
Fairness == WF_vars(Scan) /\ WF_vars(NoAnswer) /\ \A c \in Calls : WF_vars(Begin(c))

Spec == Init /\ [][Next]_vars /\ Fairness

-----------------------------------------------------------------------------
(***************************************************************************)
(* Properties.                                                             *)
(***************************************************************************)

TypeOK ==
  /\ {up, dirty, news} \subseteq BOOLEAN
  /\ lock \in Calls \cup {None}
  /\ pc \in [Calls -> {"unsent", "queued", "scanning", "asking", "done", "failed", "lost"}]
  /\ cancelled \in SUBSET Calls
  /\ issues \in Seq(Keys) /\ rest \in Seq(Keys)
  /\ {used, skipped, judged, restarts} \subseteq Nat
  /\ {memo, cache, disk} \subseteq SUBSET Keys
  /\ {asked, answered} \subseteq Seq(Keys)
  /\ wrote \in {"none", "ok", "failed"}

\* A call puts at most the budget's number of questions to the client, answered
\* or not, however its issues repeat.
BudgetHolds == Len(asked) <= Budget

\* Every eligible issue is judged, was asked about in vain, is reported as
\* skipped or is still to come: the sampling_stats of a finished call leave no
\* issue out and count none twice.
EveryIssueIsAccountedFor ==
  lock # None =>
    judged + (Len(asked) - Len(answered)) + skipped + Len(rest)
      = Len(issues) + (IF pc[lock] = "asking" THEN 1 ELSE 0)

\* Within a call the client is not asked again what it has answered, even when
\* the judgment cache has let the answer expire meanwhile.
AnsweredOnce == \A i, j \in DOMAIN answered : answered[i] = answered[j] => i = j

\* What the cache holds and the file does not is marked: no write is left out
\* because the cache passes for clean.
CleanMeansSaved == up /\ ~dirty => cache = disk

\* A judgment is written by the call that made it, so that it outlives a process
\* ended by a signal: only a write that failed leaves it in memory.
CompletedCallIsWritten ==
  [][\A c \in Calls : pc[c] = "scanning" /\ pc'[c] = "done" =>
       wrote' = "failed" \/ (cache \cap Range(answered)) \subseteq disk']_vars

\* A call ends even if the client never answers, and whoever else holds the
\* server, unless the process does.
EveryCallEnds ==
  \A c \in Calls : pc[c] = "queued" ~> pc[c] \in {"done", "failed", "lost"}

=============================================================================
