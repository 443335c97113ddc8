------------------------------- MODULE Reshare -------------------------------
(***************************************************************************)
(* The second half of TssService.Reshare: the parties of an old and a new   *)
(* committee exchange messages, and every party of the new committee writes *)
(* its new share over the file that held the old one.  The loops are those  *)
(* of the exchange, but a party that only leaves has no result, and of the  *)
(* two handles the old key share is freed and the session never.            *)
(***************************************************************************)
EXTENDS ShareFile, Committee

CONSTANTS
  OldCommittee,  \* oldKeygenCommittee: they have a share of the key
  NewCommittee   \* keygenCommittee: they are to have one

(* GetThreshold refuses a committee of one.  The outbound loop is given the  *)
(* new committee only.                                                       *)
ASSUME ReshareAssumption ==
  /\ Party = OldCommittee \cup NewCommittee
  /\ Beneficiary = NewCommittee
  /\ ReceiverLimit = Cardinality(NewCommittee)
  /\ Cardinality(OldCommittee) >= 2
  /\ Cardinality(NewCommittee) >= 2

VARIABLE keyshare    \* keyshare[p]: the handle of p's old key share

vars == <<shareVars, keyshare>>

Init ==
  /\ ShareInit
  /\ store = [p \in Party |-> IF p \in OldCommittee THEN "old" ELSE "none"]
  /\ keyshare = [p \in Party |-> IF p \in OldCommittee THEN "held" ELSE "none"]

(* The deferred free of the key share; with EdDSA the wrapper does nothing.   *)
FreeKeyshare(p) ==
  \/ keyshare[p] = "held" /\ keyshare' = [keyshare EXCEPT ![p] = "freed"]
  \/ UNCHANGED keyshare

(* The deferred KeygenSessionFree is commented out.                          *)
Return(p) ==
  /\ BothDone(p)
  /\ ipc' = [ipc EXCEPT ![p] = "returned"]
  /\ FreeKeyshare(p)
  /\ UNCHANGED <<relayVars, sessionVars, outboundVars, timer, minute, batch, pending,
                 cache, isKeygenFinished, result, faultVars, store>>

Start(p) == StartLoops(p) /\ UNCHANGED <<store, keyshare>>
Receive(p) == Inbound(p) /\ UNCHANGED keyshare
Send(p) == Outbound(p) /\ UNCHANGED keyshare

Next ==
  \E p \in Party :
    \/ Start(p) \/ Receive(p) \/ Send(p) \/ Return(p)
    \/ Environment(p) /\ UNCHANGED keyshare

Spec == Init /\ [][Next]_vars

(* As for keygen: what can run does run.                                     *)
Fairness ==
  \A p \in Party :
    /\ WF_vars(Start(p))
    /\ WF_vars(Receive(p))
    /\ WF_vars(Send(p))
    /\ WF_vars(Return(p))

FairSpec == Spec /\ Fairness

-----------------------------------------------------------------------------
(* Who can still use the key, by the old shares or by the new ones.          *)
OldHolders == {p \in OldCommittee : store[p] = "old"}
NewHolders == {p \in NewCommittee : store[p] = "share"}

Recoverable ==
  \/ Cardinality(OldHolders) >= SharesNeeded(Cardinality(OldCommittee))
  \/ Cardinality(NewHolders) >= SharesNeeded(Cardinality(NewCommittee))

(* As long as one party has not entered the last round, no old share has     *)
(* been touched: whatever fails until then, the key is not lost              *)
(* (reshare.go:267-289, local_state_accessor.go:35-38).                      *)
KeySafeUntilLast ==
  (\E p \in Party : round[p] < Rounds) => OldHolders = OldCommittee /\ Recoverable

(* A party that leaves keeps its old share, and gets an end only by the      *)
(* one-minute timer: the error it ends with leaves the flag down, and its    *)
(* outbound goroutine goes on (reshare.go:166-172, 269-283).                 *)
LeaverStays ==
  \A p \in Party \ NewCommittee :
    /\ store[p] = "old"
    /\ Returned(p) => result[p] = "timeout"

(* The old key share from which a session was made is freed only when no loop *)
(* is left that could use the session, which outlives it                      *)
(* (reshare.go:87-91, 137-151).                                               *)
KeyshareOutlivesLoops ==
  \A p \in Party :
    keyshare[p] = "freed" => opc[p] = "done" /\ ipc[p] = "returned"

(* What the comment of reshare.go:287 promises of the end of the inbound     *)
(* loop, that the party had the chance to send its last message to the       *)
(* others, is there so that they finish too: without a failure the key stays *)
(* usable, by the old shares or by the new ones.                             *)
KeySurvives == <>[]Recoverable

=============================================================================
