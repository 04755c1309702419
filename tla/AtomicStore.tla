----------------------------- MODULE AtomicStore -----------------------------
(***************************************************************************)
(* What a shared settings file promises the programs that edit it: while   *)
(* it is settled, every change is one requested edit, applied to what was  *)
(* there.  A file that is missing or damaged unsettles it, and nothing is  *)
(* promised until it is settled again.                                     *)
(***************************************************************************)
CONSTANTS Keys, Values, None

VARIABLES
  content,  \* [Keys -> Values \cup {None}]
  settled

vars == <<content, settled>>

Contents == [Keys -> Values \cup {None}]

Init == content \in Contents /\ settled \in BOOLEAN

Edit ==
  /\ settled
  /\ \/ \E k \in Keys, v \in Values \cup {None} : content' = [content EXCEPT ![k] = v]
     \/ content' = [k \in Keys |-> None]
  /\ UNCHANGED settled

Unsettle ==
  /\ settled' = FALSE
  /\ UNCHANGED content

Recover ==
  /\ ~settled
  /\ content' \in Contents
  /\ settled' \in BOOLEAN

Next == Edit \/ Unsettle \/ Recover

Spec == Init /\ [][Next]_vars

=============================================================================
