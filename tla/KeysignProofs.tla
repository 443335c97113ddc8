---------------------------- MODULE KeysignProofs ----------------------------
(***************************************************************************)
(* Proofs about keysign: it runs the exchange and implements the abstract   *)
(* ceremony, an ECDSA keysign returns nil only with a signature to which    *)
(* everybody has contributed, and the key share outlives the session.       *)
(***************************************************************************)
EXTENDS Keysign, ExchangeProofs

USE DEF vars, keysignVars, exchangeVars, relayVars, sessionVars, inboundVars,
        outboundVars, faultVars

-----------------------------------------------------------------------------
(* Keysign runs the exchange.                                                *)

LEMMA StepIsExchangeStep == [Next]_vars => [ExchangeNext]_exchangeVars
<1>1. ASSUME NEW p \in Party, ReturnSignature(p)
      PROVE  HandleResult(p)
  BY <1>1 DEF ReturnSignature, HandleResult, Results, NoFault
<1>2. ASSUME NEW p \in Party, FreeSession(p)
      PROVE  Leave(p)
  BY <1>2 DEF FreeSession
<1>3. ASSUME NEW p \in Party, Conclude(p) \/ FreeKeyshare(p)
      PROVE  UNCHANGED exchangeVars
  BY <1>3 DEF Conclude, FreeKeyshare
<1>4. UNCHANGED vars => UNCHANGED exchangeVars
  OBVIOUS
<1> QED
  BY <1>1, <1>2, <1>3, <1>4 DEF Next, ExchangeNext

(* Every behaviour of keysign is one of the exchange, so what is proved of    *)
(* the exchange holds of it: no message is lost or applied twice, no session  *)
(* is used after it has been freed.                                           *)
THEOREM KeysignRunsExchange == Spec => ExchangeSpec
<1>1. Init => ExchangeInit
  BY DEF Init
<1> QED
  BY <1>1, StepIsExchangeStep, PTL DEF Spec, ExchangeSpec

-----------------------------------------------------------------------------
(* What the steps of the loops leave alone.                                  *)

LEMMA LoopStep ==
  ASSUME ExchangeTypeOK, NEW p \in Party,
         \/ StartLoops(p) \/ InboundStep(p) \/ OutboundStep(p)
         \/ Redeliver(p) \/ Crash(p)
  PROVE  \A q \in Party :
           /\ LoopEnded(q) => LoopEnded(q)'
           /\ ipc'[q] = "returned" => ipc[q] = "returned"
           /\ ipc[q] = "returned" /\ sess[q] = "freed" => sess'[q] = "freed"
           /\ ipc[q] = "returned" /\ opc[q] = "done" => opc'[q] = "done"
           /\ round[q] = Rounds + 1 => round'[q] = Rounds + 1 \/ ipc[q] = "idle"
           /\ \/ result'[q] = result[q]
              \/ ~ LoopEnded(q) /\ LoopEnded(q)' /\ result'[q] \in {"timeout", "failed"}
<1> USE DEF ExchangeTypeOK, LoopEnded
<1>1. CASE StartLoops(p)
  BY <1>1 DEF StartLoops
<1>2. CASE OutboundStep(p)
  <2>1. UNCHANGED <<ipc, sess, round, result>>
    BY <1>2 DEF OutboundStep, TakeOutput, CheckFinished, SendToReceiver, LoseReceivers
  <2>2. \A q \in Party : opc[q] = "done" => opc'[q] = "done"
    <3>1. CASE TakeOutput(p)
      BY <3>1 DEF TakeOutput
    <3>2. CASE CheckFinished(p)
      BY <3>2 DEF CheckFinished
    <3>3. CASE SendToReceiver(p)
      BY <3>3 DEF SendToReceiver
    <3>4. CASE LoseReceivers(p)
      BY <3>4 DEF LoseReceivers
    <3> QED
      BY <1>2, <3>1, <3>2, <3>3, <3>4 DEF OutboundStep
  <2> QED
    BY <2>1, <2>2
<1>3. CASE Tick(p) \/ Poll(p) \/ Redeliver(p)
  BY <1>3 DEF Tick, Poll, Redeliver
<1>4. CASE DeleteMessage(p)
  BY <1>4 DEF DeleteMessage, AfterBatch
<1>5. CASE ApplyMessage(p)
  <2>1. \A q \in Party : round[q] = Rounds + 1 => round'[q] = Rounds + 1
    BY <1>5, ExchangeAssumption DEF ApplyMessage, EntersRound
  <2>2. UNCHANGED <<sess, opc, result>> /\ ~ LoopEnded(p) /\ ipc'[p] # "returned"
    BY <1>5 DEF ApplyMessage, AfterBatch
  <2>3. \A q \in Party \ {p} : ipc'[q] = ipc[q]
    BY <1>5 DEF ApplyMessage
  <2> QED
    BY <2>1, <2>2, <2>3
<1>6. CASE Timeout(p) \/ FinishSession(p)
  BY <1>6 DEF Timeout, FinishSession
<1>7. CASE PublishFinished(p)
  BY <1>7 DEF PublishFinished
<1>8. CASE Crash(p)
  BY <1>8 DEF Crash
<1> QED
  BY <1>1, <1>2, <1>3, <1>4, <1>5, <1>6, <1>7, <1>8 DEF InboundStep

-----------------------------------------------------------------------------
(* The end of Keysign.                                                       *)

IInv == ExchangeInv /\ KeysignInv

LEMMA KeysignInitInv == Init => IInv
<1> SUFFICES ASSUME Init PROVE IInv
  OBVIOUS
<1>1. ExchangeInv
  BY InitInv DEF Init
<1>2. KeysignInv
  BY <1>1 DEF ExchangeInv, Init, ExchangeInit, KeysignInv, TypeOK, SignatureLast,
              ConcludedLast, KeyshareOutlivesSession, LoopEnded
<1> QED
  BY <1>1, <1>2 DEF IInv

LEMMA KeysignStep ==
  ASSUME IInv, [Next]_vars
  PROVE  IInv'
<1>1. ExchangeInv'
  BY StepIsExchangeStep, StepInv DEF IInv
<1>2. /\ ExchangeTypeOK /\ ExchangeTypeOK' /\ TypeOK /\ LoopsAgree
      /\ SignatureLast /\ ConcludedLast /\ KeyshareOutlivesSession
  BY <1>1 DEF IInv, ExchangeInv, KeysignInv
<1> SUFFICES KeysignInv'
  BY <1>1 DEF IInv
<1> USE DEF TypeOK, SignatureLast, ConcludedLast, KeyshareOutlivesSession, KeysignInv
<1>3. CASE UNCHANGED vars
  BY <1>2, <1>3 DEF LoopEnded, ExchangeTypeOK
<1>4. ASSUME NEW p \in Party,
             \/ StartLoops(p) \/ InboundStep(p) \/ OutboundStep(p)
             \/ Redeliver(p) \/ Crash(p),
             UNCHANGED keysignVars
      PROVE  KeysignInv'
  <2>1. \A q \in Party :
          /\ LoopEnded(q) => LoopEnded(q)'
          /\ ipc'[q] = "returned" => ipc[q] = "returned"
          /\ ipc[q] = "returned" /\ sess[q] = "freed" => sess'[q] = "freed"
          /\ ipc[q] = "returned" /\ opc[q] = "done" => opc'[q] = "done"
          /\ round[q] = Rounds + 1 => round'[q] = Rounds + 1 \/ ipc[q] = "idle"
          /\ \/ result'[q] = result[q]
             \/ ~ LoopEnded(q) /\ LoopEnded(q)' /\ result'[q] \in {"timeout", "failed"}
    BY <1>2, <1>4, LoopStep
  <2>2. TypeOK'
    BY <1>2, <1>4
  <2>3. SignatureLast'
    <3>1. \A q \in Party : LoopEnded(q) => ipc[q] # "idle"
      BY DEF LoopEnded
    <3> QED
      BY <1>2, <1>4, <2>1, <3>1
  <2>4. ConcludedLast'
    BY <1>2, <1>4, <2>1
  <2>5. KeyshareOutlivesSession'
    <3>1. \A q \in Party : keyshare[q] = "freed" => ipc[q] = "returned"
      BY <1>2 DEF IInv, ExchangeInv, NoUseAfterFree
    <3> QED
      BY <1>2, <1>4, <2>1, <3>1
  <2> QED
    BY <2>2, <2>3, <2>4, <2>5
<1>5. ASSUME NEW p \in Party, ReturnSignature(p)
      PROVE  KeysignInv'
  <2>1. round[p] = Rounds + 1 /\ ~ LoopEnded(p) /\ LoopEnded(p)'
    BY <1>2, <1>5 DEF ReturnSignature, LoopsAgree, Finishing, LoopEnded, ExchangeTypeOK
  <2>2. \A q \in Party \ {p} : ipc'[q] = ipc[q] /\ result'[q] = result[q] /\ sig'[q] = sig[q]
    BY <1>5 DEF ReturnSignature
  <2>3. ipc'[p] = "done" /\ result'[p] = "ok" /\ sig'[p] \in {"valid", "invalid"}
    BY <1>2, <1>5 DEF ReturnSignature, ExchangeTypeOK
  <2>4. UNCHANGED <<isEdDSA, outcome, keyshare, sess, opc, round>>
    BY <1>5 DEF ReturnSignature
  <2>5. TypeOK'
    BY <1>2, <1>5 DEF ReturnSignature
  <2>6. SignatureLast'
    BY <1>2, <2>1, <2>2, <2>3, <2>4 DEF LoopEnded
  <2>7. ConcludedLast'
    BY <1>2, <2>1, <2>2, <2>3, <2>4 DEF LoopEnded
  <2> QED
    BY <1>2, <2>4, <2>5, <2>6, <2>7
<1>6. ASSUME NEW p \in Party, Conclude(p)
      PROVE  KeysignInv'
  BY <1>2, <1>6 DEF Conclude, BothDone, Accepted, LoopEnded
<1>7. ASSUME NEW p \in Party, FreeSession(p)
      PROVE  KeysignInv'
  BY <1>2, <1>7 DEF FreeSession, Leave, LoopEnded, ExchangeTypeOK
<1>8. ASSUME NEW p \in Party, FreeKeyshare(p)
      PROVE  KeysignInv'
  BY <1>2, <1>8 DEF FreeKeyshare, KeyshareDue, LoopEnded
<1> QED
  BY <1>3, <1>4, <1>5, <1>6, <1>7, <1>8 DEF Next

(* The inductive invariant: the exchange's, and a signature is returned at    *)
(* the end of the inbound loop or not at all.                                 *)
THEOREM KeysignInvariant == Spec => []IInv
<1>1. IInv /\ [Next]_vars => IInv'
  BY KeysignStep
<1> QED
  BY <1>1, KeysignInitInv, PTL DEF Spec

(* Type correctness of keysign.                                              *)
THEOREM KeysignTypeCorrect == Spec => []TypeOK
<1>1. IInv => TypeOK
  BY DEF IInv, KeysignInv
<1> QED
  BY <1>1, KeysignInvariant, PTL

(* An ECDSA keysign that returns nil has a signature, and every party of the  *)
(* committee has taken part in the last round (keygen.go:395-412).            *)
THEOREM EcdsaNilIsSigned == Spec => []EcdsaNilMeansAllSigned
<1>1. ASSUME IInv
      PROVE  EcdsaNilMeansAllSigned
  <2>1. SUFFICES ASSUME ~ isEdDSA, NEW p \in Party, outcome[p] = "nil"
                 PROVE  result[p] = "ok" /\ \A q \in Party : round[q] >= Rounds
    BY DEF EcdsaNilMeansAllSigned
  <2>2. result[p] = "ok" /\ round[p] = Rounds + 1
    BY <1>1, <2>1 DEF IInv, KeysignInv, SignatureLast, ConcludedLast
  <2>3. round[p] > Rounds
    BY <2>2, ExchangeAssumption
  <2> QED
    BY <1>1, <2>2, <2>3, LastRoundShared DEF IInv
<1> QED
  BY <1>1, KeysignInvariant, PTL

(* The key share is freed after the session that was made from it             *)
(* (keygen.go:328-332, 383-387).                                              *)
THEOREM KeyshareFreedLast == Spec => []KeyshareOutlivesSession
<1>1. IInv => KeyshareOutlivesSession
  BY DEF IInv, KeysignInv
<1> QED
  BY <1>1, KeysignInvariant, PTL

-----------------------------------------------------------------------------
(* Refinement of the abstract ceremony.                                      *)

Signers == {p \in Party : sig[p] # "none"}

LEMMA StepRefines ==
  ASSUME IInv, [Next]_vars
  PROVE  [Barrier!Next]_(Barrier!barrierVars)
<1>1. TypeOK /\ LoopsAgree
  BY DEF IInv, KeysignInv, ExchangeInv
<1>2. CASE UNCHANGED sig
  <2>1. CASE UNCHANGED round
    BY <1>2, <2>1 DEF Barrier!barrierVars
  <2>2. CASE \E p \in Party : round[p] = 0 /\ round' = [round EXCEPT ![p] = 1]
    BY <1>2, <2>2 DEF Barrier!Enter, Barrier!Next
  <2>3. CASE \E p \in Party : \E r \in 2 .. (Rounds + 1) :
               /\ round[p] >= 1
               /\ round[p] < r
               /\ \A q \in Party \ {p} : round[q] >= r - 1
               /\ round' = [round EXCEPT ![p] = r]
    BY <1>2, <2>3 DEF Barrier!Advance, Barrier!Next
  <2> QED
    BY <2>1, <2>2, <2>3, StepIsExchangeStep, RoundStep DEF IInv
<1>3. ASSUME NEW p \in Party, ReturnSignature(p)
      PROVE  Barrier!Obtain(p)
  <2>1. UNCHANGED round /\ round[p] = Rounds + 1
    BY <1>1, <1>3 DEF ReturnSignature, LoopsAgree, Finishing
  <2>2. Signers' = Signers \cup {p}
    BY <1>1, <1>3 DEF ReturnSignature, Signers, TypeOK
  <2> QED
    BY <2>1, <2>2 DEF Barrier!Obtain, Signers
<1> QED
  BY <1>2, <1>3 DEF Next, Conclude, FreeSession, FreeKeyshare, Barrier!Next

(* Keysign implements the abstract ceremony: a party has a signature only     *)
(* after its last round, and goes on to a round only when every other party   *)
(* has entered the one before, whatever fails on the way.                     *)
THEOREM KeysignImplementsBarrier == Spec => ImplementsBarrier
<1>1. Init => Barrier!Init
  BY DEF Init, ExchangeInit, Barrier!Init
<1>2. IInv /\ [Next]_vars => [Barrier!Next]_(Barrier!barrierVars)
  BY StepRefines
<1> QED
  BY <1>1, <1>2, KeysignInvariant, PTL DEF Spec, ImplementsBarrier, Barrier!Spec

=============================================================================
