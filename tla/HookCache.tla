------------------------------ MODULE HookCache ------------------------------
(***************************************************************************)
(* The hook callback (src/cli/hook.rs): a process per write of the agent,  *)
(* which scans the written file and prints the problems it finds, unless   *)
(* hook-cache.json shows that it has nothing new to say.                   *)
(*                                                                         *)
(* A content is the set of terms in it that are wrong for Taiwan.  Two     *)
(* inputs silence terms: `early`, the overrides and the project            *)
(* configuration, which a callback loads before it takes the fingerprint;  *)
(* and `late`, the translation memory and the packs, which it loads after. *)
(***************************************************************************)
EXTENDS Naturals, FiniteSets

CONSTANTS Callbacks,   \* processes, each may run again
          Files, Terms,
          Cap,         \* HOOK_CACHE_MAX_ENTRIES
          MaxWrites,   \* bound on the writes that start a callback
          MaxEdits,    \* bound on the edits of the inputs
          QuietRules   \* inputs are not edited while a callback loads them

ASSUME HookAssumption ==
  /\ Cap \in Nat \ {0} /\ MaxWrites \in Nat /\ MaxEdits \in Nat
  /\ QuietRules \in BOOLEAN /\ "free" \notin Callbacks

VARIABLES
  content,          \* the files on disk
  early, late,      \* terms silenced by each input on disk
  entries,          \* hook-cache.json: a partial function on Files
  lock,             \* who holds its lock, or "free"
  unread,           \* history: who holds it could not read the cache again
  pc, file,         \* per callback: where it is, the file it is about
  text, loaded,     \* what it read of the file and of the early inputs
  print,            \* fingerprint: the inputs as they were when it was taken
  previous,         \* the entry it looked up, or NoEntry
  issues,           \* its verdict
  merged,           \* the cache file as re-read under the lock
  said,             \* history: verdicts printed, or lost with a process that was to print them
  writes, edits

disk == <<content, early, late>>
local == <<file, text, loaded, print, previous, issues, merged>>
vars == <<disk, entries, lock, unread, pc, local, said, writes, edits>>

NoEntry == [text |-> {}, issues |-> {}, print |-> <<>>, at |-> 0]
NoFile == "none"
NoEntries == [f \in {} |-> NoEntry]
Verdict(c, e, l) == c \ (e \cup l)

Loading == {"fingerprint", "lookup", "scan"}   \* some inputs are loaded, not all

Init ==
  /\ content = [f \in Files |-> {}] /\ early = {} /\ late = {}
  /\ entries = NoEntries /\ lock = "free" /\ unread = FALSE
  /\ pc = [p \in Callbacks |-> "idle"]
  /\ file = [p \in Callbacks |-> NoFile]
  /\ text = [p \in Callbacks |-> {}] /\ loaded = [p \in Callbacks |-> {}]
  /\ print = [p \in Callbacks |-> <<{}, {}>>]
  /\ previous = [p \in Callbacks |-> NoEntry]
  /\ issues = [p \in Callbacks |-> {}] /\ merged = [p \in Callbacks |-> NoEntries]
  /\ said = [f \in Files |-> {}] /\ writes = 0 /\ edits = 0

Goto(p, there) == pc' = [pc EXCEPT ![p] = there]

\* A process that is over leaves nothing behind in memory.
Gone(p) ==
  /\ Goto(p, "idle")
  /\ text' = [text EXCEPT ![p] = {}] /\ loaded' = [loaded EXCEPT ![p] = {}]
  /\ print' = [print EXCEPT ![p] = <<{}, {}>>] /\ previous' = [previous EXCEPT ![p] = NoEntry]
  /\ issues' = [issues EXCEPT ![p] = {}] /\ merged' = [merged EXCEPT ![p] = NoEntries]
  /\ file' = [file EXCEPT ![p] = NoFile]

\* The agent writes f; the host starts a callback for it.
Write(p, f, c) ==
  /\ pc[p] = "idle" /\ writes < MaxWrites /\ writes' = writes + 1
  /\ content' = [content EXCEPT ![f] = c]
  /\ file' = [file EXCEPT ![p] = f] /\ Goto(p, "read")
  /\ UNCHANGED <<early, late, entries, lock, unread, text, loaded, print, previous, issues,
                 merged, said, edits>>

Toggle(S, t) == IF t \in S THEN S \ {t} ELSE S \cup {t}

\* The user, or another program, edits an input: a term is silenced or not.
Edit(t) ==
  /\ edits < MaxEdits /\ edits' = edits + 1
  /\ QuietRules => \A p \in Callbacks : pc[p] \notin Loading
  /\ \/ early' = Toggle(early, t) /\ UNCHANGED late
     \/ late' = Toggle(late, t) /\ UNCHANGED early
  /\ UNCHANGED <<content, entries, lock, unread, pc, local, said, writes>>

\* Another tool, not Write or Edit, another extension, no regular file, or one too large.
Decline(p) ==
  /\ pc[p] = "read" /\ Gone(p)
  /\ UNCHANGED <<disk, entries, lock, unread, said, writes, edits>>

\* read_lintable: the file may have been written again since.
ReadFile(p) ==
  /\ pc[p] = "read" /\ text' = [text EXCEPT ![p] = content[file[p]]] /\ Goto(p, "load")
  /\ UNCHANGED <<disk, entries, lock, unread, file, loaded, print, previous, issues, merged, said,
                 writes, edits>>

LoadEarly(p) ==
  /\ pc[p] = "load" /\ loaded' = [loaded EXCEPT ![p] = early] /\ Goto(p, "fingerprint")
  /\ UNCHANGED <<disk, entries, lock, unread, file, text, print, previous, issues, merged, said,
                 writes, edits>>

\* rules_fingerprint reads every input from its file, again for the early ones.
Fingerprint(p) ==
  /\ pc[p] = "fingerprint" /\ print' = [print EXCEPT ![p] = <<early, late>>]
  /\ Goto(p, "lookup")
  /\ UNCHANGED <<disk, entries, lock, unread, file, text, loaded, previous, issues, merged, said,
                 writes, edits>>

\* Mutant: the rules may change without the content.
KnownByText(p, e) == e # NoEntry /\ e.text = text[p]

Known(p, e) == e.text = text[p] /\ e.print = print[p]

\* What reading the cache gives: nothing, when it fails, does not parse or has another schema.
Readings == {entries, NoEntries}

\* HookCache::open and lookup; nothing more is done when the entry is of this content
\* under these inputs.
Lookup(p) ==
  /\ pc[p] = "lookup"
  /\ \E read \in Readings :
       LET e == IF file[p] \in DOMAIN read THEN read[file[p]] ELSE NoEntry IN
       /\ previous' = [previous EXCEPT ![p] = e]
       /\ Goto(p, IF Known(p, e) THEN "known" ELSE "scan")
  /\ UNCHANGED <<disk, entries, lock, unread, file, text, loaded, print, issues, merged, said,
                 writes, edits>>

\* scan_file: rules merged from what was loaded, glossary, ignored terms, and the
\* translation memory, read only now.
Scan(p) ==
  /\ pc[p] = "scan" /\ issues' = [issues EXCEPT ![p] = Verdict(text[p], loaded[p], late)]
  /\ Goto(p, "persist")
  /\ UNCHANGED <<disk, entries, lock, unread, file, text, loaded, print, previous, merged, said,
                 writes, edits>>

\* Silent when there is nothing to say, or the last verdict was the same.
Report(p) ==
  IF issues[p] = {} \/ (previous[p] # NoEntry /\ previous[p].issues = issues[p])
  THEN "silent" ELSE "print"

\* HookCache::persist gives up when the lock is taken, or its file or the directory of the
\* cache cannot be made.
PersistSkipped(p) ==
  /\ pc[p] = "persist" /\ Goto(p, Report(p))
  /\ UNCHANGED <<disk, entries, lock, unread, local, said, writes, edits>>

\* Mutant: nobody asks whether the lock is free.
PersistUnlocked(p) ==
  /\ pc[p] = "persist" /\ lock' = p /\ unread' = FALSE
  /\ merged' = [merged EXCEPT ![p] = entries] /\ Goto(p, "replace")
  /\ UNCHANGED <<disk, entries, file, text, loaded, print, previous, issues, said, writes,
                 edits>>

\* A cache that cannot be read again is taken for an empty one, and replaced.
PersistLock(p) ==
  /\ pc[p] = "persist" /\ lock = "free" /\ lock' = p /\ Goto(p, "replace")
  /\ \E read \in Readings :
       merged' = [merged EXCEPT ![p] = read] /\ unread' = (read # entries)
  /\ UNCHANGED <<disk, entries, file, text, loaded, print, previous, issues, said, writes,
                 edits>>

Entry(p) == [text |-> text[p], issues |-> issues[p], print |-> print[p], at |-> writes]

Upsert(p) ==
  [f \in DOMAIN merged[p] \cup {file[p]} |-> IF f = file[p] THEN Entry(p) ELSE merged[p][f]]

\* What may be left after the oldest were removed; ties are broken by the order of a hash map.
Evicted(m) ==
  {[f \in kept |-> m[f]] : kept \in
     {k \in SUBSET DOMAIN m :
        /\ Cardinality(k) = IF Cardinality(DOMAIN m) > Cap THEN Cap ELSE Cardinality(DOMAIN m)
        /\ \A f \in DOMAIN m \ k, g \in k : m[f].at <= m[g].at}}

\* The file is replaced and the lock released; a failed replacement changes nothing.
PersistReplace(p) ==
  /\ pc[p] = "replace"
  /\ entries' \in Evicted(Upsert(p)) \cup {entries}
  /\ lock' = "free" /\ unread' = FALSE /\ Goto(p, Report(p))
  /\ UNCHANGED <<disk, local, said, writes, edits>>

\* Its output is written, or there is none: "known", the cache had the answer, or "silent".
Exit(p) ==
  /\ pc[p] \in {"known", "silent", "print"} /\ Gone(p)
  /\ said' = IF pc[p] = "print" THEN [said EXCEPT ![file[p]] = @ \cup {issues[p]}] ELSE said
  /\ UNCHANGED <<disk, entries, lock, unread, writes, edits>>

\* The host stops a callback; the kernel drops its lock.  A verdict it had recorded, or would
\* have printed, is lost.
Kill(p) ==
  /\ pc[p] # "idle" /\ Gone(p)
  /\ lock' = IF lock = p THEN "free" ELSE lock
  /\ unread' = (unread /\ lock # p)
  /\ said' = IF pc[p] = "print" THEN [said EXCEPT ![file[p]] = @ \cup {issues[p]}] ELSE said
  /\ UNCHANGED <<disk, entries, writes, edits>>

Next ==
  \/ \E p \in Callbacks, f \in Files, c \in SUBSET Terms : Write(p, f, c)
  \/ \E t \in Terms : Edit(t)
  \/ \E p \in Callbacks :
       \/ Decline(p) \/ ReadFile(p) \/ LoadEarly(p) \/ Fingerprint(p) \/ Lookup(p) \/ Scan(p)
       \/ PersistSkipped(p) \/ PersistLock(p) \/ PersistReplace(p) \/ Exit(p) \/ Kill(p)

Spec == Init /\ [][Next]_vars

-----------------------------------------------------------------------------
(* Properties *)

Record == [text : SUBSET Terms, issues : SUBSET Terms,
           print : (SUBSET Terms) \X (SUBSET Terms), at : Nat]
Recorded(m) == DOMAIN m \subseteq Files /\ m \in [DOMAIN m -> Record]

TypeOK ==
  /\ content \in [Files -> SUBSET Terms] /\ early \in SUBSET Terms /\ late \in SUBSET Terms
  /\ Recorded(entries) /\ lock \in Callbacks \cup {"free"} /\ unread \in BOOLEAN
  /\ pc \in [Callbacks -> Loading \cup
               {"idle", "read", "load", "persist", "replace", "known", "silent", "print"}]
  /\ file \in [Callbacks -> Files \cup {NoFile}]
  /\ text \in [Callbacks -> SUBSET Terms] /\ loaded \in [Callbacks -> SUBSET Terms]
  /\ print \in [Callbacks -> (SUBSET Terms) \X (SUBSET Terms)]
  /\ previous \in [Callbacks -> Record \cup {NoEntry}]
  /\ issues \in [Callbacks -> SUBSET Terms]
  /\ merged = [p \in Callbacks |-> merged[p]] /\ \A p \in Callbacks : Recorded(merged[p])
  /\ said \in [Files -> SUBSET SUBSET Terms]
  /\ writes \in Nat /\ edits \in Nat

Reporting(p, f) == pc[p] = "print" /\ file[p] = f

\* What a callback would say under the inputs its fingerprint names.
Due(p) == Verdict(text[p], print[p][1], print[p][2])

Told(p) ==
  \/ Due(p) = {} \/ Due(p) \in said[file[p]]
  \/ \E q \in Callbacks : Reporting(q, file[p]) /\ issues[q] = Due(p)

\* When the cache answers, the content under the inputs it is of was "already reported, or
\* clean": its verdict was printed, or a process is about to, or was stopped before it could.
HitsWereTold == \A p \in Callbacks : pc[p] = "known" => Told(p)

\* No callback keeps silent about a verdict that nobody reported, whether the cache answers or
\* the scan finds what the last one found.
SilenceIsEarned == HitsWereTold /\ \A p \in Callbacks : pc[p] = "silent" => Told(p)

\* Callbacks on different files do not clobber each other's records: an entry changes only by
\* a callback on its file, and goes only when the cache is full, an older one never staying.
\* A callback that cannot read the cache again is the exception, starting it over.
RecordsAreKept ==
  [][\A f \in DOMAIN entries :
       \/ unread /\ pc'[lock] # pc[lock]
       \/ f \in DOMAIN entries' /\ entries'[f] = entries[f]
       \/ \E p \in Callbacks : file[p] = f /\ pc[p] = "replace" /\ pc'[p] # "replace"
       \/ /\ f \notin DOMAIN entries' /\ Cardinality(DOMAIN entries') = Cap
          /\ \A g \in DOMAIN entries' : entries[f].at <= entries'[g].at]_vars
=============================================================================
