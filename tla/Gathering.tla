------------------------------ MODULE Gathering ------------------------------
(***************************************************************************)
(* What the rendezvous at the relay promises when one party leads it, once  *)
(* the requests, the polling and the failures are forgotten: the parties    *)
(* come, one setup message is agreed on when all of them are there, the      *)
(* session is begun after that, and whoever opens a session opens it from    *)
(* the message agreed on.                                                   *)
(***************************************************************************)
EXTENDS Naturals

CONSTANTS
  Party,     \* the parties of the ceremony
  Message    \* the setup messages

VARIABLES
  present,   \* the parties that have come
  agreed,    \* the set of the setup message agreed on, empty if none
  begun,     \* the parties the session was begun with, empty before
  opened     \* opened[p]: the set of the message p's session is opened from

gatheringVars == <<present, agreed, begun, opened>>

Init ==
  /\ present = {}
  /\ agreed = {}
  /\ begun = {}
  /\ opened = [p \in Party |-> {}]

Join(p) ==
  /\ present' = present \cup {p}
  /\ UNCHANGED <<agreed, begun, opened>>

(* The message is agreed on once, and not before everybody is there.        *)
Agree(m) ==
  /\ present = Party
  /\ agreed = {}
  /\ agreed' = {m}
  /\ UNCHANGED <<present, begun, opened>>

Begin(list) ==
  /\ agreed # {}
  /\ begun' = list
  /\ UNCHANGED <<present, agreed, opened>>

Open(p) ==
  /\ begun # {}
  /\ opened' = [opened EXCEPT ![p] = agreed]
  /\ UNCHANGED <<present, agreed, begun>>

Next ==
  \/ \E p \in Party : Join(p) \/ Open(p)
  \/ \E m \in Message : Agree(m)
  \/ \E list \in (SUBSET Party) \ {{}} : Begin(list)

Spec == Init /\ [][Next]_gatheringVars

(* Whoever has a session has it from the message agreed on, and everybody    *)
(* had come before there was one.                                           *)
OpenedAsAgreed ==
  \A p \in Party : opened[p] # {} => opened[p] = agreed /\ present = Party

=============================================================================
