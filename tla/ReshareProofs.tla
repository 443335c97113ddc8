---------------------------- MODULE ReshareProofs ----------------------------
(***************************************************************************)
(* Proofs about reshare: it is a ceremony that saves a key share, it does   *)
(* not touch an old share too early, and it depends on how many parties     *)
(* leave whether its exchange can come to an end.                           *)
(***************************************************************************)
EXTENDS Reshare, ShareFileProofs

USE DEF vars, shareVars, exchangeVars, relayVars, sessionVars, inboundVars,
        outboundVars, faultVars

(* Every behaviour of reshare is one of a ceremony that saves a share: its    *)
(* Return is a Leave that does not free the session.                          *)
THEOREM ReshareSavesShare == Spec => ShareSpec
<1>1. Init => ShareInit
  BY DEF Init
<1>2. [Next]_vars => [ShareNext]_shareVars
  <2>1. \A p \in Party : Return(p) => Leave(p) /\ UNCHANGED store
    BY DEF Return, BothDone, Leave
  <2> QED
    BY <2>1 DEF Next, Start, Receive, Send, ShareNext, vars
<1> QED
  BY <1>1, <1>2, PTL DEF Spec, ShareSpec

(* Type correctness of reshare.                                              *)
THEOREM ReshareTypeCorrect == Spec => []TypeOK
<1>1. IInv => TypeOK
  BY DEF IInv, ShareInv, SavedInv
<1> QED
  BY <1>1, ReshareSavesShare, ShareInvariant, PTL

(* Reshare implements the abstract ceremony, leaving parties included: they   *)
(* take part in every round and never hold the result.                        *)
THEOREM ReshareImplementsBarrier == Spec => ImplementsBarrier
BY ReshareSavesShare, ShareImplementsBarrier, PTL

-----------------------------------------------------------------------------
(* The old shares.                                                           *)

(* A file not touched yet is as the operation found it.                      *)
AsFound ==
  \A p \in Party :
    FileUntouched(p) => store[p] = IF p \in OldCommittee THEN "old" ELSE "none"

LEMMA AsFoundStep ==
  ASSUME TypeOK, AsFound, [ShareNext]_shareVars
  PROVE  AsFound'
<1> USE DEF AsFound, FileUntouched, TypeOK
<1>1. CASE UNCHANGED store
  BY <1>1
<1>2. ASSUME NEW p \in Party, TruncateFile(p) \/ WriteShare(p)
      PROVE  AsFound'
  <2>1. \/ UNCHANGED store
        \/ store' = [store EXCEPT ![p] = "torn"]
        \/ store' = [store EXCEPT ![p] = "share"]
    BY <1>2 DEF TruncateFile, WriteShare
  <2> QED
    BY <2>1
<1> QED
  BY <1>1, <1>2 DEF ShareNext, Inbound, CloseFile, Outbound, Environment

LEMMA NeededAtMostAll ==
  ASSUME NEW n \in Nat, n >= 2
  PROVE  SharesNeeded(n) <= n
<1>1. CeilDiv(2 * n, 3) \in Nat /\ CeilDiv(2 * n, 3) <= n
  BY DEF CeilDiv
<1> QED
  BY <1>1 DEF SharesNeeded, GetThreshold

(* As long as one party has not entered the last round every old share is     *)
(* still there, and they are enough to use the key: until then a crash or a   *)
(* failure of any party costs nothing (reshare.go:267-289).                   *)
THEOREM OldSharesKept == Spec => []KeySafeUntilLast
<1> USE ExchangeAssumption, ReshareAssumption
<1>1. Init => AsFound
  BY DEF Init, AsFound
<1>2. IInv /\ AsFound /\ [ShareNext]_shareVars => AsFound'
  BY AsFoundStep DEF IInv, ShareInv, SavedInv
<1>3. Spec => []AsFound
  <2>1. ShareSpec => []IInv
    BY ShareInvariant
  <2> QED
    BY <1>1, <1>2, <2>1, ReshareSavesShare, PTL DEF Spec, ShareSpec
<1>4. ASSUME IInv, AsFound
      PROVE  KeySafeUntilLast
  <2>1. ExchangeTypeOK /\ TouchedLast
    BY <1>4 DEF IInv, ShareInv, SavedInv, ExchangeInv
  <2>2. SUFFICES ASSUME NEW p \in Party, round[p] < Rounds
                 PROVE  OldHolders = OldCommittee /\ Recoverable
    BY DEF KeySafeUntilLast
  <2>3. \A q \in Party : round[q] # Rounds + 1
    <3>1. SUFFICES ASSUME NEW q \in Party, round[q] = Rounds + 1
                   PROVE  FALSE
      OBVIOUS
    <3>2. round[q] > Rounds /\ round[p] \in Nat
      BY <2>1, <3>1 DEF ExchangeTypeOK
    <3>3. round[p] >= Rounds
      BY <1>4, <3>2, LastRoundShared DEF IInv
    <3> QED
      BY <2>2, <3>2, <3>3
  <2>4. OldHolders = OldCommittee
    BY <1>4, <2>1, <2>3 DEF TouchedLast, AsFound, OldHolders
  <2>5. Cardinality(OldCommittee) \in Nat
    <3>1. OldCommittee \in SUBSET Party
      OBVIOUS
    <3>2. IsFiniteSet(OldCommittee)
      BY <3>1, FS_Subset
    <3> QED
      BY <3>2, FS_CardinalityType
  <2>6. Cardinality(OldCommittee) >= SharesNeeded(Cardinality(OldCommittee))
    BY <2>5, NeededAtMostAll
  <2> QED
    BY <2>4, <2>6 DEF Recoverable
<1> QED
  BY <1>3, <1>4, ShareInvariant, ReshareSavesShare, PTL

-----------------------------------------------------------------------------
(* The parties that leave.                                                   *)

(* The outbound goroutine stops only when the flag is up, and for a party     *)
(* without a result only the one-minute timer raises it.                      *)
FlagInv ==
  \A p \in Party :
    /\ Returned(p) => opc[p] = "done"
    /\ opc[p] = "done" => isKeygenFinished[p]
    /\ isKeygenFinished[p] => p \in Beneficiary \/ result[p] = "timeout"

LEMMA FlagStep ==
  ASSUME IInv, FlagInv, [ShareNext]_shareVars
  PROVE  FlagInv'
<1>1. /\ ExchangeTypeOK /\ TypeOK /\ TouchedLast
      /\ \A q \in Party : result[q] # "none" => Ended(q)
  BY DEF IInv, ShareInv, SavedInv, ExchangeInv, ResultLast
<1> USE <1>1 DEF FlagInv, Returned, Ended, ExchangeTypeOK
<1>2. CASE UNCHANGED shareVars
  BY <1>2
<1>3. ASSUME NEW p \in Party, StartLoops(p)
      PROVE  FlagInv'
  <2>1. opc[p] # "done" \/ isKeygenFinished[p]
    BY <1>3
  <2> QED
    BY <1>3, <2>1 DEF StartLoops
<1>4. ASSUME NEW p \in Party, OutboundStep(p)
      PROVE  FlagInv'
  <2>1. CASE TakeOutput(p)
    BY <2>1 DEF TakeOutput
  <2>2. CASE CheckFinished(p)
    BY <2>2 DEF CheckFinished, MayStop
  <2>3. CASE SendToReceiver(p)
    <3>1. UNCHANGED <<ipc, isKeygenFinished, result>> /\ opc[p] = "send"
      BY <2>3 DEF SendToReceiver
    <3>2. opc' = [opc EXCEPT ![p] = "take"] \/ opc' = [opc EXCEPT ![p] = "send"]
      BY <2>3 DEF SendToReceiver
    <3> QED
      BY <3>1, <3>2
  <2>4. CASE LoseReceivers(p)
    BY <2>4 DEF LoseReceivers
  <2> QED
    BY <1>4, <2>1, <2>2, <2>3, <2>4 DEF OutboundStep
<1>5. ASSUME NEW p \in Party, Tick(p) \/ Poll(p) \/ Redeliver(p)
      PROVE  FlagInv'
  BY <1>5 DEF Tick, Poll, Redeliver
<1>6. ASSUME NEW p \in Party, DeleteMessage(p)
      PROVE  FlagInv'
  BY <1>6 DEF DeleteMessage, AfterBatch
<1>7. ASSUME NEW p \in Party, ApplyMessage(p)
      PROVE  FlagInv'
  BY <1>7 DEF ApplyMessage, AfterBatch
<1>8. ASSUME NEW p \in Party, Timeout(p)
      PROVE  FlagInv'
  BY <1>8 DEF Timeout, StoreFinished
<1>9. ASSUME NEW p \in Party, FinishSession(p)
      PROVE  FlagInv'
  <2>1. result[p] = "none"
    BY <1>9 DEF FinishSession
  <2> QED
    BY <1>9, <2>1 DEF FinishSession
<1>10. ASSUME NEW p \in Party, PublishFinished(p)
       PROVE  FlagInv'
  <2>1. p \in Beneficiary
    BY <1>10 DEF PublishFinished, TouchedLast
  <2> QED
    BY <1>10, <2>1 DEF PublishFinished, StoreFinished
<1>11. ASSUME NEW p \in Party, TruncateFile(p) \/ WriteShare(p) \/ CloseFile(p)
       PROVE  FlagInv'
  <2>1. p \in Beneficiary
    BY <1>11 DEF TruncateFile, WriteShare, CloseFile, TouchedLast
  <2>2. \A q \in Party \ {p} : result'[q] = result[q] /\ ipc'[q] = ipc[q]
    BY <1>11 DEF TruncateFile, WriteShare, CloseFile, WriteError
  <2>3. UNCHANGED <<opc, isKeygenFinished>> /\ ipc'[p] # "returned"
    BY <1>11 DEF TruncateFile, WriteShare, CloseFile
  <2> QED
    BY <2>1, <2>2, <2>3
<1>12. ASSUME NEW p \in Party, Leave(p)
       PROVE  FlagInv'
  BY <1>12 DEF Leave
<1>13. ASSUME NEW p \in Party, Crash(p)
       PROVE  FlagInv'
  BY <1>13 DEF Crash
<1> QED
  BY <1>2, <1>3, <1>4, <1>5, <1>6, <1>7, <1>8, <1>9, <1>10, <1>11, <1>12, <1>13
  DEF ShareNext, Inbound, InboundStep, Outbound, Environment

(* A party that leaves keeps its old share; its process comes to an end only  *)
(* if it stalls for a minute: the error with which its session finishes       *)
(* leaves the outbound goroutine running (reshare.go:166-172, 269-283).       *)
THEOREM LeaversStay == Spec => []LeaverStays
<1> USE ReshareAssumption
<1>1. Init => AsFound /\ FlagInv
  BY DEF Init, ShareInit, ExchangeInit, AsFound, FlagInv, Returned
<1>2. IInv /\ AsFound /\ FlagInv /\ [ShareNext]_shareVars => AsFound' /\ FlagInv'
  BY AsFoundStep, FlagStep DEF IInv, ShareInv, SavedInv
<1>3. IInv /\ AsFound /\ FlagInv => LeaverStays
  BY DEF IInv, ShareInv, TouchedLast, AsFound, FlagInv, LeaverStays
<1> QED
  BY <1>1, <1>2, <1>3, ShareInvariant, ReshareSavesShare, PTL DEF Spec, ShareSpec

(* The old key share a session was made from is freed by Return only, which   *)
(* comes when both loops are done and is the last step of the process: nobody *)
(* uses the session, which is never freed, after its key share                *)
(* (reshare.go:87-91, 137-151).                                               *)
KeyshareInv ==
  /\ keyshare \in [Party -> {"none", "held", "freed"}]
  /\ KeyshareOutlivesLoops

LEMMA KeyshareStep ==
  ASSUME TypeOK, KeyshareInv, [Next]_vars
  PROVE  KeyshareInv'
<1>1. /\ ipc \in [Party -> InboundPc] /\ opc \in [Party -> OutboundPc]
      /\ keyshare \in [Party -> {"none", "held", "freed"}]
      /\ \A q \in Party : keyshare[q] = "freed" => opc[q] = "done" /\ ipc[q] = "returned"
  BY DEF TypeOK, ExchangeTypeOK, KeyshareInv, KeyshareOutlivesLoops
<1>2. ASSUME NEW p \in Party, Return(p)
      PROVE  KeyshareInv'
  <2>1. /\ opc[p] = "done" /\ UNCHANGED opc /\ ipc' = [ipc EXCEPT ![p] = "returned"]
        /\ UNCHANGED keyshare \/ keyshare' = [keyshare EXCEPT ![p] = "freed"]
    BY <1>2 DEF Return, BothDone, FreeKeyshare
  <2> QED
    BY <1>1, <2>1 DEF KeyshareInv, KeyshareOutlivesLoops
<1>3. ASSUME UNCHANGED keyshare,
             \A q \in Party : opc[q] = "done" /\ ipc[q] = "returned" =>
                              opc'[q] = "done" /\ ipc'[q] = "returned"
      PROVE  KeyshareInv'
  BY <1>1, <1>3 DEF KeyshareInv, KeyshareOutlivesLoops
<1>4. ASSUME NEW p \in Party, Start(p) \/ Send(p)
      PROVE  KeyshareInv'
  <2>1. /\ opc[p] # "done" \/ ipc[p] # "returned"
        /\ \A q \in Party \ {p} : opc'[q] = opc[q] /\ ipc'[q] = ipc[q]
    <3>1. CASE StartLoops(p)
      BY <1>1, <3>1 DEF StartLoops
    <3>2. CASE TakeOutput(p) \/ CheckFinished(p)
      BY <1>1, <3>2 DEF TakeOutput, CheckFinished
    <3>3. CASE SendToReceiver(p) \/ LoseReceivers(p)
      <4>1. /\ opc[p] = "send" /\ UNCHANGED ipc
            /\ \E pc \in {"take", "send"} : opc' = [opc EXCEPT ![p] = pc]
        BY <3>3 DEF SendToReceiver, LoseReceivers
      <4> QED
        BY <1>1, <4>1
    <3> QED
      BY <1>4, <3>1, <3>2, <3>3 DEF Start, Send, Outbound, OutboundStep
  <2> QED
    BY <1>3, <1>4, <2>1 DEF Start, Send
<1>5. ASSUME NEW p \in Party, Receive(p)
      PROVE  KeyshareInv'
  <2>1. /\ ipc[p] # "returned" /\ UNCHANGED opc
        /\ \A q \in Party \ {p} : ipc'[q] = ipc[q]
    <3>1. CASE Tick(p) \/ Poll(p) \/ Timeout(p)
      BY <1>1, <3>1 DEF Tick, Poll, Timeout
    <3>2. CASE DeleteMessage(p)
      BY <1>1, <3>2 DEF DeleteMessage
    <3>3. CASE ApplyMessage(p)
      BY <1>1, <3>3 DEF ApplyMessage
    <3>4. CASE FinishSession(p) \/ PublishFinished(p)
      BY <1>1, <3>4 DEF FinishSession, PublishFinished
    <3>5. CASE TruncateFile(p) \/ WriteShare(p) \/ CloseFile(p)
      BY <1>1, <3>5 DEF TruncateFile, WriteShare, CloseFile
    <3> QED
      BY <1>5, <3>1, <3>2, <3>3, <3>4, <3>5 DEF Receive, Inbound, InboundStep
  <2> QED
    BY <1>3, <1>5, <2>1 DEF Receive
<1>6. ASSUME NEW p \in Party, Environment(p), UNCHANGED keyshare
      PROVE  KeyshareInv'
  <2>1. UNCHANGED <<opc, ipc>> \/ ipc[p] # "returned"
    BY <1>6 DEF Environment, Redeliver, Crash
  <2>2. \A q \in Party \ {p} : opc'[q] = opc[q] /\ ipc'[q] = ipc[q]
    BY <1>1, <1>6 DEF Environment, Redeliver, Crash
  <2> QED
    BY <1>3, <1>6, <2>1, <2>2
<1>7. CASE UNCHANGED vars
  BY <1>3, <1>7
<1> QED
  BY <1>2, <1>4, <1>5, <1>6, <1>7 DEF Next

(* The old key share from which a session was made is freed last, when both   *)
(* loops that use the session have ended (reshare.go:87-91, 137-151).         *)
THEOREM OldKeyshareFreedLast == Spec => []KeyshareOutlivesLoops
<1>1. Init => KeyshareInv
  BY DEF Init, KeyshareInv, KeyshareOutlivesLoops
<1>2. IInv /\ KeyshareInv /\ [Next]_vars => KeyshareInv'
  BY KeyshareStep DEF IInv, ShareInv, SavedInv
<1>3. KeyshareInv => KeyshareOutlivesLoops
  BY DEF KeyshareInv
<1> QED
  BY <1>1, <1>2, <1>3, ShareInvariant, ReshareSavesShare, PTL DEF Spec

-----------------------------------------------------------------------------
(* How many may leave.                                                       *)

LEMMA AllOrLeaving ==
  /\ Cardinality(Party) \in Nat /\ Cardinality(NewCommittee) \in Nat
  /\ Cardinality(OldCommittee \ NewCommittee) \in Nat
  /\ Cardinality(Party) = Cardinality(NewCommittee) + Cardinality(OldCommittee \ NewCommittee)
<1> USE ExchangeAssumption, ReshareAssumption
<1>1. IsFiniteSet(NewCommittee) /\ IsFiniteSet(OldCommittee \ NewCommittee)
  <2>1. NewCommittee \in SUBSET Party /\ OldCommittee \ NewCommittee \in SUBSET Party
    OBVIOUS
  <2> QED
    BY <2>1, FS_Subset
<1>2. /\ Party = NewCommittee \cup (OldCommittee \ NewCommittee)
      /\ NewCommittee \cap (OldCommittee \ NewCommittee) = {}
  OBVIOUS
<1>3. Cardinality(NewCommittee) \in Nat /\ Cardinality(OldCommittee \ NewCommittee) \in Nat
  BY <1>1, FS_CardinalityType
<1>4. Cardinality(NewCommittee \cap (OldCommittee \ NewCommittee)) = 0
  BY <1>2, FS_EmptySet
<1>5. Cardinality(NewCommittee \cup (OldCommittee \ NewCommittee))
        = Cardinality(NewCommittee) + Cardinality(OldCommittee \ NewCommittee)
          - Cardinality(NewCommittee \cap (OldCommittee \ NewCommittee))
  BY <1>1, FS_Union
<1>6. Cardinality(Party)
        = Cardinality(NewCommittee) + Cardinality(OldCommittee \ NewCommittee) - 0
  BY <1>2, <1>4, <1>5, Zenon
<1> QED
  BY <1>3, <1>6

(* If at most one party leaves, the loop over the receivers is long enough    *)
(* although it is bounded by the new committee, and no message is lost        *)
(* without a failure (reshare.go:175).                                        *)
THEOREM OneLeaverIsServed ==
  ASSUME Cardinality(OldCommittee \ NewCommittee) <= 1
  PROVE  Spec => []NothingLost
<1>1. Cardinality(Party) - 1 <= ReceiverLimit
  BY AllOrLeaving, ReshareAssumption
<1>2. ExchangeSpec => []NothingLost
  BY <1>1, NoMessageLost
<1> QED
  BY <1>2, ReshareSavesShare, ShareRunsExchange, PTL

(* If two or more leave it is not: some party never gets past the first       *)
(* round, and the reshare cannot succeed for all (reshare.go:145, 175).       *)
THEOREM TwoLeaversBlock ==
  ASSUME Cardinality(OldCommittee \ NewCommittee) >= 2
  PROVE  Spec => []SomebodyKeptBack
<1>1. ReceiverLimit < Cardinality(Party) - 1
  BY AllOrLeaving, ReshareAssumption
<1>2. ExchangeSpec => []SomebodyKeptBack
  BY <1>1, TooFewReceivers
<1> QED
  BY <1>2, ReshareSavesShare, ShareRunsExchange, PTL

=============================================================================
