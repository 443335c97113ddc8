--------------------------- MODULE ShareFileProofs ---------------------------
(***************************************************************************)
(* Proofs about the operations that save a key share: they run the          *)
(* exchange, they report success only when the key share is on disk, and    *)
(* they implement the abstract ceremony.                                    *)
(***************************************************************************)
EXTENDS ShareFile, ExchangeProofs

USE DEF shareVars, exchangeVars, relayVars, sessionVars, inboundVars, outboundVars, faultVars

-----------------------------------------------------------------------------
(* A ceremony that saves a share runs the exchange.                          *)

LEMMA StepIsExchangeStep ==
  ASSUME TypeOK, [ShareNext]_shareVars
  PROVE  [ExchangeNext]_exchangeVars
<1>1. CASE UNCHANGED shareVars
  BY <1>1
<1>2. ASSUME NEW p \in Party, TruncateFile(p)
      PROVE  HandleResult(p)
  BY <1>2 DEF TruncateFile, HandleResult
<1>3. ASSUME NEW p \in Party, WriteShare(p)
      PROVE  HandleResult(p)
  BY <1>3 DEF WriteShare, WriteError, HandleResult
<1>4. ASSUME NEW p \in Party, CloseFile(p)
      PROVE  HandleResult(p)
  BY <1>4 DEF CloseFile, WriteError, HandleResult
<1> QED
  BY <1>1, <1>2, <1>3, <1>4 DEF ShareNext, Inbound, Outbound, Environment, ExchangeNext

-----------------------------------------------------------------------------
(* The end of the inbound loop.                                              *)

IInv == ExchangeInv /\ ShareInv

(* The steps that leave the result and the key share alone.                  *)
LEMMA QuietStep ==
  ASSUME NEW p \in Party,
         \/ StartLoops(p) \/ OutboundStep(p)
         \/ Tick(p) \/ Poll(p) \/ DeleteMessage(p) \/ ApplyMessage(p)
         \/ PublishFinished(p) \/ Leave(p) \/ Redeliver(p) \/ Crash(p),
         ExchangeTypeOK
  PROVE  /\ UNCHANGED result
         /\ \A q \in Party : Ended(q) => Ended(q)'
         /\ \A q \in Party : ipc[q] = "close" => (ipc[q] = "close")' \/ Ended(q)'
         /\ \A q \in Party : (ipc[q] = "close")' => ipc[q] = "close"
<1> USE DEF Ended, ExchangeTypeOK
<1>1. CASE StartLoops(p)
  BY <1>1 DEF StartLoops
<1>2. CASE OutboundStep(p)
  <2>1. CASE TakeOutput(p)
    BY <2>1 DEF TakeOutput
  <2>2. CASE CheckFinished(p)
    BY <2>2 DEF CheckFinished
  <2>3. CASE SendToReceiver(p)
    BY <2>3 DEF SendToReceiver
  <2>4. CASE LoseReceivers(p)
    BY <2>4 DEF LoseReceivers
  <2> QED
    BY <1>2, <2>1, <2>2, <2>3, <2>4 DEF OutboundStep
<1>3. CASE Tick(p) \/ Poll(p)
  BY <1>3 DEF Tick, Poll
<1>4. CASE DeleteMessage(p)
  BY <1>4 DEF DeleteMessage, AfterBatch
<1>5. CASE ApplyMessage(p)
  BY <1>5 DEF ApplyMessage, AfterBatch
<1>6. CASE PublishFinished(p)
  BY <1>6 DEF PublishFinished
<1>7. CASE Redeliver(p)
  BY <1>7 DEF Redeliver
<1>8. CASE Crash(p)
  BY <1>8 DEF Crash
<1>9. CASE Leave(p)
  BY <1>9 DEF Leave
<1> QED
  BY <1>1, <1>2, <1>3, <1>4, <1>5, <1>6, <1>7, <1>8, <1>9

LEMMA SavedStep ==
  ASSUME ExchangeInv, SavedInv, [ShareNext]_shareVars
  PROVE  SavedInv'
<1>1. /\ TypeOK /\ ExchangeTypeOK /\ NilMeansSaved
      /\ \A q \in Party : result[q] # "none" => Ended(q)
      /\ \A q \in Party : ipc[q] = "close" => store[q] = "share"
      /\ \A q \in Party : store[q] = "share" => ipc[q] = "close" \/ Ended(q)
  BY DEF SavedInv, TypeOK, ResultLast, ShareWritten
<1>2. ExchangeTypeOK'
  BY <1>1, StepIsExchangeStep, StepInv DEF ExchangeInv
<1>3. CASE /\ UNCHANGED <<result, store>>
           /\ \A q \in Party : Ended(q) => Ended(q)'
           /\ \A q \in Party : ipc[q] = "close" => (ipc[q] = "close")' \/ Ended(q)'
           /\ \A q \in Party : (ipc[q] = "close")' => ipc[q] = "close"
  BY <1>1, <1>2, <1>3 DEF SavedInv, ResultLast, ShareWritten, TypeOK, NilMeansSaved
<1>4. CASE UNCHANGED shareVars
  BY <1>1, <1>3, <1>4 DEF Ended
<1>5. ASSUME NEW p \in Party, ipc[p] # "close", ~ Ended(p),
             ipc'[p] # "close",
             \A q \in Party \ {p} : ipc'[q] = ipc[q],
             \/ UNCHANGED result
             \/ /\ ipc'[p] = "done"
                /\ \E res \in {"timeout", "failed"} : result' = [result EXCEPT ![p] = res],
             UNCHANGED store \/ store' = [store EXCEPT ![p] = "torn"]
      PROVE  SavedInv'
  <2>1. result[p] = "none" /\ store[p] # "share"
    BY <1>1, <1>5
  <2>2. result \in [Party -> Results] /\ store \in [Party -> Contents]
    BY <1>1 DEF TypeOK, ExchangeTypeOK
  <2>3. TypeOK'
    BY <1>2, <1>5, <2>2 DEF TypeOK, Contents
  <2>4. \A q \in Party \ {p} : /\ result'[q] = result[q] /\ store'[q] = store[q]
                               /\ Ended(q)' = Ended(q)
    BY <1>5, <2>2 DEF Ended
  <2>5. /\ result'[p] # "ok" /\ store'[p] # "share"
        /\ result'[p] # "none" => Ended(p)'
    BY <1>5, <2>1, <2>2 DEF Ended
  <2>6. NilMeansSaved'
    BY <1>1, <2>4, <2>5 DEF NilMeansSaved
  <2>7. ResultLast'
    BY <1>1, <2>4, <2>5 DEF ResultLast
  <2>8. ShareWritten'
    BY <1>1, <1>5, <2>4, <2>5 DEF ShareWritten
  <2> QED
    BY <2>3, <2>6, <2>7, <2>8 DEF SavedInv
<1>6. ASSUME NEW p \in Party, Timeout(p) \/ FinishSession(p), UNCHANGED store
      PROVE  SavedInv'
  <2>1. /\ ipc[p] # "close" /\ ~ Ended(p) /\ ipc'[p] # "close"
        /\ \A q \in Party \ {p} : ipc'[q] = ipc[q]
    BY <1>1, <1>6 DEF Timeout, FinishSession, Ended, ExchangeTypeOK
  <2>2. \/ UNCHANGED result
        \/ /\ ipc'[p] = "done"
           /\ \E res \in {"timeout", "failed"} : result' = [result EXCEPT ![p] = res]
    BY <1>1, <1>6 DEF Timeout, FinishSession, ExchangeTypeOK
  <2> QED
    BY <1>5, <1>6, <2>1, <2>2
<1>7. ASSUME NEW p \in Party, TruncateFile(p)
      PROVE  SavedInv'
  <2>1. /\ ipc[p] # "close" /\ ~ Ended(p) /\ ipc'[p] # "close"
        /\ \A q \in Party \ {p} : ipc'[q] = ipc[q]
    BY <1>1, <1>7 DEF TruncateFile, Ended, ExchangeTypeOK
  <2>2. /\ \/ UNCHANGED result
           \/ /\ ipc'[p] = "done"
              /\ result' = [result EXCEPT ![p] = "failed"]
        /\ UNCHANGED store \/ store' = [store EXCEPT ![p] = "torn"]
    BY <1>1, <1>7 DEF TruncateFile, ExchangeTypeOK
  <2> QED
    BY <1>5, <2>1, <2>2
<1>8. ASSUME NEW p \in Party, WriteShare(p)
      PROVE  SavedInv'
  <2>1. /\ ipc[p] # "close" /\ ~ Ended(p)
        /\ \A q \in Party \ {p} : ipc'[q] = ipc[q]
    BY <1>1, <1>8 DEF WriteShare, Ended, ExchangeTypeOK
  <2>2. CASE ipc'[p] = "close" /\ store' = [store EXCEPT ![p] = "share"] /\ UNCHANGED result
    <3>1. result[p] = "none" /\ store \in [Party -> Contents]
      BY <1>1, <2>1 DEF TypeOK
    <3>2. TypeOK' /\ NilMeansSaved'
      BY <1>1, <1>2, <2>2, <3>1 DEF TypeOK, Contents, NilMeansSaved
    <3>3. \A q \in Party \ {p} : Ended(q)' = Ended(q)
      BY <2>1 DEF Ended
    <3>4. ResultLast' /\ ShareWritten'
      BY <1>1, <2>1, <2>2, <3>1, <3>3 DEF ResultLast, ShareWritten
    <3> QED
      BY <3>2, <3>4 DEF SavedInv
  <2>3. CASE ipc'[p] = "done" /\ UNCHANGED store /\ result' = [result EXCEPT ![p] = "failed"]
    BY <1>5, <2>1, <2>3
  <2> QED
    BY <1>1, <1>8, <2>2, <2>3 DEF WriteShare, WriteError, ExchangeTypeOK
<1>9. ASSUME NEW p \in Party, CloseFile(p)
      PROVE  SavedInv'
  <2>1. /\ store[p] = "share" /\ ipc'[p] = "done"
        /\ \A q \in Party \ {p} : ipc'[q] = ipc[q]
        /\ UNCHANGED store
        /\ \E res \in {"ok", "failed"} : result' = [result EXCEPT ![p] = res]
    BY <1>1, <1>9 DEF CloseFile, WriteError, ExchangeTypeOK
  <2>2. TypeOK' /\ result \in [Party -> Results]
    BY <1>1, <1>2, <2>1 DEF TypeOK, ExchangeTypeOK
  <2>3. \A q \in Party \ {p} : result'[q] = result[q] /\ Ended(q)' = Ended(q)
    BY <2>1, <2>2 DEF Ended
  <2>4. Ended(p)' /\ store'[p] = "share"
    BY <2>1 DEF Ended
  <2>5. NilMeansSaved' /\ ResultLast'
    BY <1>1, <2>1, <2>3, <2>4 DEF NilMeansSaved, ResultLast
  <2>6. ShareWritten'
    BY <1>1, <2>1, <2>3, <2>4 DEF ShareWritten
  <2> QED
    BY <2>2, <2>5, <2>6 DEF SavedInv
<1> QED
  BY <1>1, <1>3, <1>4, <1>6, <1>7, <1>8, <1>9, QuietStep
  DEF ShareNext, Inbound, InboundStep, Outbound, Environment

(* A file is touched late, and only for a party that has a result.           *)
LEMMA TouchedStep ==
  ASSUME ExchangeInv, SavedInv, TouchedLast, [ShareNext]_shareVars
  PROVE  TouchedLast'
<1>1. ExchangeTypeOK /\ LoopsAgree /\ ExchangeTypeOK' /\ LoopsAgree' /\ TypeOK
  BY StepIsExchangeStep, StepInv DEF ExchangeInv, SavedInv
<1> USE <1>1 DEF TouchedLast, FileUntouched, ExchangeTypeOK
<1>2. CASE UNCHANGED shareVars
  BY <1>2
<1>3. ASSUME NEW p \in Party,
             \/ OutboundStep(p) \/ Tick(p) \/ Poll(p) \/ Redeliver(p),
             UNCHANGED store
      PROVE  TouchedLast'
  <2>1. UNCHANGED <<ipc, round>> \/ (UNCHANGED round /\ ipc' \in {[ipc EXCEPT ![p] = "select"], [ipc EXCEPT ![p] = "batch"]})
    <3>1. CASE TakeOutput(p) \/ CheckFinished(p)
      BY <3>1 DEF TakeOutput, CheckFinished
    <3>2. CASE SendToReceiver(p) \/ LoseReceivers(p)
      BY <3>2 DEF SendToReceiver, LoseReceivers
    <3>3. CASE Tick(p) \/ Redeliver(p)
      BY <3>3 DEF Tick, Redeliver
    <3>4. CASE Poll(p)
      BY <3>4 DEF Poll
    <3> QED
      BY <1>3, <3>1, <3>2, <3>3, <3>4 DEF OutboundStep
  <2> QED
    BY <1>3, <2>1
<1>4. ASSUME NEW p \in Party, StartLoops(p), UNCHANGED store
      PROVE  TouchedLast'
  BY <1>4, ExchangeAssumption DEF StartLoops, LoopsAgree, Finishing
<1>5. ASSUME NEW p \in Party, DeleteMessage(p), UNCHANGED store
      PROVE  TouchedLast'
  BY <1>5 DEF DeleteMessage, AfterBatch
<1>6. ASSUME NEW p \in Party, ApplyMessage(p), UNCHANGED store
      PROVE  TouchedLast'
  <2>1. \A q \in Party : round[q] = Rounds + 1 => round'[q] = Rounds + 1
    BY <1>6, ExchangeAssumption DEF ApplyMessage, EntersRound
  <2>2. \A q \in Party : ipc'[q] = ipc[q] \/ ipc'[q] \in {"finish", "batch", "select"}
    BY <1>6 DEF ApplyMessage, AfterBatch
  <2> QED
    BY <1>6, <2>1, <2>2
<1>7. ASSUME NEW p \in Party, FinishSession(p) \/ PublishFinished(p) \/ Timeout(p),
             UNCHANGED store
      PROVE  TouchedLast'
  BY <1>7 DEF FinishSession, PublishFinished, Timeout
<1>8. ASSUME NEW p \in Party, TruncateFile(p) \/ WriteShare(p) \/ CloseFile(p)
      PROVE  TouchedLast'
  <2>1. p \in Beneficiary /\ round[p] = Rounds + 1 /\ UNCHANGED round
    BY <1>8 DEF TruncateFile, WriteShare, CloseFile, LoopsAgree, Finishing
  <2>2. \A q \in Party \ {p} : ipc'[q] = ipc[q] /\ store'[q] = store[q]
    BY <1>8 DEF TruncateFile, WriteShare, CloseFile, TypeOK
  <2> QED
    BY <2>1, <2>2
<1>9. ASSUME NEW p \in Party, Leave(p) \/ Crash(p), UNCHANGED store
      PROVE  TouchedLast'
  BY <1>9 DEF Leave, Crash
<1> QED
  BY <1>2, <1>3, <1>4, <1>5, <1>6, <1>7, <1>8, <1>9
  DEF ShareNext, Inbound, InboundStep, Outbound, Environment

LEMMA ShareInitInv == ShareInit => IInv
<1> SUFFICES ASSUME ShareInit PROVE IInv
  OBVIOUS
<1>1. ExchangeInv
  BY InitInv DEF ShareInit
<1>2. SavedInv
  <2>1. store \in [Party -> Contents] /\ \A p \in Party : store[p] \in {"none", "old"}
    BY DEF ShareInit, Contents
  <2>2. \A p \in Party : result[p] = "none"
    BY DEF ShareInit, ExchangeInit
  <2>3. \A p \in Party : ipc[p] = "idle"
    BY DEF ShareInit, ExchangeInit
  <2> QED
    BY <1>1, <2>1, <2>2, <2>3 DEF ExchangeInv, SavedInv, TypeOK, NilMeansSaved, ResultLast, ShareWritten
<1>3. TouchedLast
  BY DEF ShareInit, ExchangeInit, TouchedLast, FileUntouched
<1> QED
  BY <1>1, <1>2, <1>3 DEF IInv, ShareInv

LEMMA ShareStep ==
  ASSUME IInv, [ShareNext]_shareVars
  PROVE  IInv'
<1>1. ExchangeInv'
  BY StepIsExchangeStep, StepInv DEF IInv, ShareInv, SavedInv
<1> QED
  BY <1>1, SavedStep, TouchedStep DEF IInv, ShareInv

(* The inductive invariant: the exchange's, and a share is on disk or a       *)
(* result returned only once the inbound loop has come to its end.            *)
THEOREM ShareInvariant == ShareSpec => []IInv
<1>1. IInv /\ [ShareNext]_shareVars => IInv'
  BY ShareStep
<1> QED
  BY <1>1, ShareInitInv, PTL DEF ShareSpec

(* Every behaviour is a behaviour of the exchange, so what is proved of the   *)
(* exchange holds here.                                                       *)
THEOREM ShareRunsExchange == ShareSpec => ExchangeSpec
<1>1. ShareInit => ExchangeInit
  BY DEF ShareInit
<1>2. IInv /\ [ShareNext]_shareVars => [ExchangeNext]_exchangeVars
  BY StepIsExchangeStep DEF IInv, ShareInv, SavedInv
<1> QED
  BY <1>1, <1>2, ShareInvariant, PTL DEF ShareSpec, ExchangeSpec

-----------------------------------------------------------------------------
(* Refinement of the abstract ceremony.                                      *)

Holders == {p \in Party : store[p] = "share"}

(* Steps that leave the rounds and the key shares alone are stutters.        *)
LEMMA StutterStep ==
  ASSUME UNCHANGED round, UNCHANGED store
  PROVE  [Barrier!Next]_(Barrier!barrierVars)
BY DEF Barrier!barrierVars

(* A step of the exchange that leaves the files alone.                       *)
LEMMA LoopRefines ==
  ASSUME IInv, [ExchangeNext]_exchangeVars, UNCHANGED store
  PROVE  [Barrier!Next]_(Barrier!barrierVars)
<1>1. CASE UNCHANGED round
  BY <1>1, StutterStep
<1>2. CASE \E p \in Party : round[p] = 0 /\ round' = [round EXCEPT ![p] = 1]
  BY <1>2 DEF Barrier!Enter, Barrier!Next
<1>3. CASE \E p \in Party : \E r \in 2 .. (Rounds + 1) :
             /\ round[p] >= 1
             /\ round[p] < r
             /\ \A q \in Party \ {p} : round[q] >= r - 1
             /\ round' = [round EXCEPT ![p] = r]
  BY <1>3 DEF Barrier!Advance, Barrier!Next
<1> QED
  BY <1>1, <1>2, <1>3, RoundStep DEF IInv

LEMMA StepRefines ==
  ASSUME IInv, [ShareNext]_shareVars
  PROVE  [Barrier!Next]_(Barrier!barrierVars)
<1>1. TypeOK /\ ShareWritten /\ LoopsAgree
  BY DEF IInv, ShareInv, SavedInv, ExchangeInv
<1>2. ASSUME NEW p \in Party, TruncateFile(p)
      PROVE  UNCHANGED round /\ UNCHANGED Holders
  <2>1. store[p] # "share"
    BY <1>1, <1>2 DEF TruncateFile, Ended, ShareWritten
  <2>2. store' = [store EXCEPT ![p] = "torn"] \/ UNCHANGED store
    BY <1>2 DEF TruncateFile
  <2>3. UNCHANGED Holders
    BY <1>1, <2>1, <2>2 DEF Holders, TypeOK
  <2> QED
    BY <1>2, <2>3 DEF TruncateFile
<1>3. ASSUME NEW p \in Party, WriteShare(p)
      PROVE  Barrier!Obtain(p) \/ UNCHANGED <<round, store>>
  <2>1. UNCHANGED round /\ round[p] = Rounds + 1
    BY <1>1, <1>3 DEF WriteShare, LoopsAgree, Finishing
  <2>2. CASE store' = [store EXCEPT ![p] = "share"]
    <3>1. Holders' = Holders \cup {p}
      BY <1>1, <2>2 DEF Holders, TypeOK
    <3> QED
      BY <2>1, <3>1 DEF Barrier!Obtain, Holders
  <2>3. CASE UNCHANGED store
    BY <2>1, <2>3
  <2> QED
    BY <1>3, <2>2, <2>3 DEF WriteShare
<1>4. CASE \E p \in Party : TruncateFile(p)
  BY <1>2, <1>4 DEF Barrier!barrierVars, Holders
<1>5. CASE \E p \in Party : WriteShare(p)
  BY <1>3, <1>5, StutterStep DEF Barrier!Next
<1>6. CASE UNCHANGED store
  BY <1>1, <1>6, StepIsExchangeStep, LoopRefines
<1> QED
  BY <1>4, <1>5, <1>6 DEF ShareNext, Inbound, CloseFile, Outbound, Environment

(* A ceremony implements the abstract one: a party goes on to the next round *)
(* only when every other party has entered the last, and has the share on     *)
(* disk only after its last round, whatever fails on the way.                 *)
THEOREM ShareImplementsBarrier == ShareSpec => ImplementsBarrier
<1>1. ShareInit => Barrier!Init
  BY DEF ShareInit, ExchangeInit, Barrier!Init
<1>2. IInv /\ [ShareNext]_shareVars => [Barrier!Next]_(Barrier!barrierVars)
  BY StepRefines
<1> QED
  BY <1>1, <1>2, ShareInvariant, PTL DEF ShareSpec, ImplementsBarrier, Barrier!Spec

-----------------------------------------------------------------------------
(* The abstract ceremony keeps its promise, for every set of parties and     *)
(* number of rounds.                                                         *)

(* Nobody is more than one round ahead of anybody (once he is past round 1), *)
(* and those who have the result have left the last round.                   *)
BarrierInv ==
  /\ round \in [Party -> 0 .. (Rounds + 1)]
  /\ Holders \subseteq {p \in Party : round[p] = Rounds + 1}
  /\ \A p, q \in Party : round[p] >= 2 => round[q] >= round[p] - 1

LEMMA BarrierStep ==
  ASSUME Rounds \in Nat \ {0}, BarrierInv, [Barrier!Next]_(Barrier!barrierVars)
  PROVE  BarrierInv'
<1> USE DEF BarrierInv, Holders
<1>1. CASE UNCHANGED Barrier!barrierVars
  BY <1>1 DEF Barrier!barrierVars
<1>2. ASSUME NEW p \in Party, Barrier!Enter(p)
      PROVE  BarrierInv'
  BY <1>2 DEF Barrier!Enter
<1>3. ASSUME NEW p \in Party, NEW r \in 2 .. (Rounds + 1), Barrier!Advance(p, r)
      PROVE  BarrierInv'
  <2>1. /\ round' = [round EXCEPT ![p] = r]
        /\ Holders' = Holders
        /\ round[p] < r
        /\ \A q \in Party \ {p} : round[q] >= r - 1
    BY <1>3 DEF Barrier!Advance
  <2>2. round' \in [Party -> 0 .. (Rounds + 1)]
    BY <2>1
  <2>3. Holders' \subseteq {q \in Party : round'[q] = Rounds + 1}
    BY <2>1
  <2>4. \A a, b \in Party : round'[a] >= 2 => round'[b] >= round'[a] - 1
    BY <2>1
  <2> QED
    BY <2>2, <2>3, <2>4
<1>4. ASSUME NEW p \in Party, Barrier!Obtain(p)
      PROVE  BarrierInv'
  BY <1>4 DEF Barrier!Obtain
<1> QED
  BY <1>1, <1>2, <1>3, <1>4 DEF Barrier!Next

(* Nobody has the result unless every party has contributed to the last       *)
(* round.                                                                     *)
THEOREM BarrierAllContributed ==
  ASSUME Rounds \in Nat \ {0}
  PROVE  Barrier!Spec => []Barrier!AllContributed
<1>1. Barrier!Init => BarrierInv
  BY DEF Barrier!Init, BarrierInv, Holders
<1>2. BarrierInv /\ [Barrier!Next]_(Barrier!barrierVars) => BarrierInv'
  BY BarrierStep
<1>3. BarrierInv => Barrier!AllContributed
  BY DEF BarrierInv, Barrier!AllContributed, Holders
<1> QED
  BY <1>1, <1>2, <1>3, PTL DEF Barrier!Spec

(* A key share on disk anywhere implies that every party has contributed to   *)
(* the last round.                                                            *)
THEOREM ShareAllContributed == ShareSpec => []AllContributed
BY ShareImplementsBarrier, BarrierAllContributed, ExchangeAssumption, PTL DEF ImplementsBarrier, AllContributed

=============================================================================
