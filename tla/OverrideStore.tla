---------------------------- MODULE OverrideStore ----------------------------
(***************************************************************************)
(* OverrideStore of src/rules/store.rs: several processes that open, edit, *)
(* clear and reload one overrides.json.  A mutation holds the advisory     *)
(* lock over re-reading, editing and replacing the file; opening takes no  *)
(* lock.  Replacing the file is a rename, so a reader sees one version or  *)
(* the other.                                                              *)
(*                                                                         *)
(* A key stands for a spelling rule's `from`, a case rule's lower-cased    *)
(* term or the list of disabled tags, a value for the rest of the rule.    *)
(***************************************************************************)
EXTENDS Naturals

CONSTANTS
  Programs,   \* the processes that use the file
  Keys,
  Values,
  Nothing,    \* no entry under a key; also: nobody holds the lock
  MaxLosses   \* bound: times the file is damaged or removed from outside

ASSUME OverrideAssumption ==
  /\ Nothing \notin Values /\ Nothing \notin Programs
  /\ MaxLosses \in Nat

VARIABLES
  json,     \* overrides.json: "missing", "valid", "bad" (corrupt, other schema)
  onDisk,   \* what it holds while it is valid
  holder,   \* holder of the lock file
  place,    \* where each process is
  up,       \* whether each process has a store open
  mem,      \* OverrideStore.overrides
  losses,   \* how often the file was damaged
  overtaken \* history: holder of the lock since whose reading the file was
            \* replaced by an open, which takes no lock

storeVars == <<json, onDisk, holder, place, up, mem, losses, overtaken>>

Contents == [Keys -> Values \cup {Nothing}]
Empty == [k \in Keys |-> Nothing]

StoreInit ==
  /\ json \in {"missing", "valid", "bad"}
  /\ onDisk = Empty
  /\ holder = Nothing
  /\ place = [p \in Programs |-> "idle"]
  /\ up = [p \in Programs |-> FALSE]
  /\ mem = [p \in Programs |-> Empty]
  /\ losses = 0
  /\ overtaken = Nothing

Move(p, next) == place' = [place EXCEPT ![p] = next]
Remember(p, content) == mem' = [mem EXCEPT ![p] = content]

-----------------------------------------------------------------------------
(***************************************************************************)
(* open, and reload, which is open by a process that has a store already   *)
(* and keeps it when the open fails.                                       *)
(***************************************************************************)

OpenCheck(p) ==
  /\ place[p] = "idle"
  /\ Move(p, IF json = "missing" THEN "creating" ELSE "reading")
  /\ UNCHANGED <<json, onDisk, holder, up, mem, losses, overtaken>>

OpenRead(p) ==
  /\ place[p] = "reading"
  /\ \/ /\ json = "valid"
        /\ Remember(p, onDisk)
        /\ Move(p, "idle")
        /\ up' = [up EXCEPT ![p] = TRUE]
     \/ /\ json = "bad"
        /\ Move(p, "resetting")
        /\ UNCHANGED <<up, mem>>
     \/ /\ Move(p, "idle")   \* the read fails, as it does once the file is gone
        /\ UNCHANGED <<up, mem>>
  /\ UNCHANGED <<json, onDisk, holder, losses, overtaken>>

\* backup_and_reset renames whatever the path names by now; a rename that
\* fails is ignored.
OpenReset(p) ==
  /\ place[p] = "resetting"
  /\ json' \in {"missing", json}
  /\ Remember(p, Empty)
  /\ Move(p, "idle")
  /\ up' = [up EXCEPT ![p] = TRUE]
  /\ UNCHANGED <<onDisk, holder, losses, overtaken>>

OpenCreate(p) ==
  /\ place[p] = "creating"
  /\ \/ /\ json' = "valid" /\ onDisk' = Empty
        /\ Remember(p, Empty)
        /\ up' = [up EXCEPT ![p] = TRUE]
        /\ overtaken' = holder
     \/ UNCHANGED <<json, onDisk, mem, up, overtaken>>
  /\ Move(p, "idle")
  /\ UNCHANGED <<holder, losses>>

-----------------------------------------------------------------------------
(***************************************************************************)
(* with_overrides and clear_overrides.                                     *)
(***************************************************************************)

Acquire(p) ==
  /\ place[p] = "idle" /\ up[p] /\ holder = Nothing
  /\ holder' = p
  /\ Move(p, "locked")
  /\ UNCHANGED <<json, onDisk, up, mem, losses, overtaken>>

\* Mutant: the staleness bug the source describes, a snapshot never refreshed.
RereadNothing(p) ==
  /\ place[p] = "locked"
  /\ UNCHANGED mem /\ Move(p, "editing")
  /\ overtaken' = Nothing
  /\ UNCHANGED <<json, onDisk, holder, up, losses>>

\* The snapshot is refreshed from a file that can be read and parses, and kept
\* otherwise.
Reread(p) ==
  /\ place[p] = "locked"
  /\ \/ json = "valid" /\ Remember(p, onDisk) /\ Move(p, "editing")
     \/ UNCHANGED mem /\ Move(p, "editing_blind")
  /\ overtaken' = Nothing
  /\ UNCHANGED <<json, onDisk, holder, up, losses>>

\* The end of a mutation: memory follows the file, and the lock is dropped.
Flushed(p, written) ==
  /\ \/ /\ json' = "valid" /\ onDisk' = written
        /\ Remember(p, written)
     \/ UNCHANGED <<json, onDisk, mem>>
  /\ holder' = Nothing
  /\ Move(p, "idle")
  /\ UNCHANGED <<up, losses, overtaken>>

\* Mutant: the edit starts from the defaults, not from a clone of the snapshot.
UpsertFresh(p, k, v) ==
  /\ place[p] \in {"editing", "editing_blind"}
  /\ Flushed(p, [Empty EXCEPT ![k] = v])

Upsert(p, k, v) ==
  /\ place[p] \in {"editing", "editing_blind"}
  /\ Flushed(p, [mem[p] EXCEPT ![k] = v])

\* A delete that matched nothing does not write.
Delete(p, k) ==
  /\ place[p] \in {"editing", "editing_blind"}
  /\ IF mem[p][k] = Nothing
     THEN /\ holder' = Nothing
          /\ Move(p, "idle")
          /\ UNCHANGED <<json, onDisk, up, mem, losses, overtaken>>
     ELSE Flushed(p, [mem[p] EXCEPT ![k] = Nothing])

ClearOverrides(p) ==
  /\ place[p] = "locked"
  /\ Flushed(p, Empty)

-----------------------------------------------------------------------------
\* The process dies; the lock goes with its file handle.
Crash(p) ==
  /\ place' = [place EXCEPT ![p] = "idle"]
  /\ up' = [up EXCEPT ![p] = FALSE]
  /\ mem' = [mem EXCEPT ![p] = Empty]
  /\ holder' = IF holder = p THEN Nothing ELSE holder
  /\ UNCHANGED <<json, onDisk, losses, overtaken>>

\* A hand edit that does not parse, a version with another schema, a removal.
DamageFile ==
  /\ losses < MaxLosses
  /\ json' \in {"missing", "bad"}
  /\ losses' = losses + 1
  /\ UNCHANGED <<onDisk, holder, place, up, mem, overtaken>>

StoreNext ==
  \/ \E p \in Programs :
        \/ OpenCheck(p) \/ OpenRead(p) \/ OpenReset(p) \/ OpenCreate(p)
        \/ Acquire(p) \/ Reread(p) \/ ClearOverrides(p) \/ Crash(p)
        \/ \E k \in Keys : Delete(p, k) \/ \E v \in Values : Upsert(p, k, v)
  \/ DamageFile

StoreSpec == StoreInit /\ [][StoreNext]_storeVars

-----------------------------------------------------------------------------
(***************************************************************************)
(* Properties.                                                             *)
(***************************************************************************)

StoreTypeOK ==
  /\ json \in {"missing", "valid", "bad"}
  /\ onDisk \in Contents
  /\ holder \in Programs \cup {Nothing}
  /\ place \in [Programs -> {"idle", "reading", "creating", "resetting", "locked",
                             "editing", "editing_blind"}]
  /\ up \in [Programs -> BOOLEAN]
  /\ mem \in [Programs -> Contents]
  /\ losses \in Nat
  /\ overtaken \in Programs \cup {Nothing}

\* Nobody acts on having seen the file missing or damaged, or on what it held
\* before an open replaced it.
Settled ==
  /\ json = "valid"
  /\ \A p \in Programs : place[p] \notin {"creating", "resetting", "editing_blind"}
  /\ holder = Nothing \/ overtaken # holder

Store == INSTANCE AtomicStore WITH None <- Nothing, content <- onDisk, settled <- Settled

\* Two programs that edit the file never lose each other's edit: while no one
\* acts on a missing or damaged file, each write is one edit of what is there,
\* and only damage from outside ends that.
ImplementsAtomicStore == Store!Spec

\* The lock is what makes it so: between re-reading and writing, the file is
\* what the writer remembers.
EditsWhatIsThere ==
  \A p \in Programs : Settled /\ place[p] = "editing" => mem[p] = onDisk

=============================================================================
