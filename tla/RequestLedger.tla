---------------------------- MODULE RequestLedger ----------------------------
(***************************************************************************)
(* What a session owes its client, with nothing of how: every request it   *)
(* accepts is owed a response until it is answered or waived (cancelled by *)
(* the client, or impossible to encode), and a session that closes in      *)
(* order owes nothing.  A cancellation may race the response, so a waived  *)
(* request may still be answered.                                          *)
(***************************************************************************)
CONSTANT Ids

VARIABLES
  account,  \* [Ids -> {"new", "owed", "answered", "waived"}]
  closed    \* "open", "orderly", "broken"

vars == <<account, closed>>

Init ==
  /\ account = [i \in Ids |-> "new"]
  /\ closed = "open"

Owed == {i \in Ids : account[i] = "owed"}

Accept(i) ==
  /\ closed = "open" /\ account[i] = "new"
  /\ account' = [account EXCEPT ![i] = "owed"]
  /\ UNCHANGED closed

Answer(i) ==
  /\ account[i] \in {"owed", "waived"}
  /\ account' = [account EXCEPT ![i] = "answered"]
  /\ UNCHANGED closed

Waive(i) ==
  /\ closed = "open" /\ account[i] = "owed"
  /\ account' = [account EXCEPT ![i] = "waived"]
  /\ UNCHANGED closed

CloseInOrder ==
  /\ closed = "open" /\ Owed = {}
  /\ closed' = "orderly"
  /\ UNCHANGED account

Break ==
  /\ closed = "open"
  /\ closed' = "broken"
  /\ UNCHANGED account

Next == CloseInOrder \/ Break \/ \E i \in Ids : Accept(i) \/ Answer(i) \/ Waive(i)

Spec == Init /\ [][Next]_vars

=============================================================================
