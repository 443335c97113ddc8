--------------------------- MODULE ExchangeProofs ---------------------------
(***************************************************************************)
(* Proofs that the message exchange keeps its safety properties for every   *)
(* set of parties, number of rounds, kind and number of failures.           *)
(***************************************************************************)
EXTENDS Exchange, FiniteSetTheorems, WellFoundedInduction, TLAPS

USE DEF exchangeVars, relayVars, sessionVars, inboundVars, outboundVars, faultVars

-----------------------------------------------------------------------------
(* The message of a party and a round is a message of that party and round.  *)
LEMMA MsgType ==
  ASSUME NEW p \in Party, NEW r \in 1 .. Rounds
  PROVE  Msg(p, r) \in Message /\ Msg(p, r).from = p /\ Msg(p, r).round = r
BY DEF Msg, Message

(* What a step does to the failure count and to the history variable.        *)
LEMMA FaultEffect ==
  ASSUME ExchangeTypeOK, NoFault \/ \E kind : Fault(kind)
  PROVE  /\ faults' \in 0 .. MaxFaults
         /\ lossy' \in BOOLEAN
         /\ ~ lossy' => ~ lossy
<1>1. CASE NoFault
  BY <1>1 DEF NoFault, ExchangeTypeOK
<1>2. ASSUME NEW kind, Fault(kind)
      PROVE  /\ faults' \in 0 .. MaxFaults
             /\ lossy' \in BOOLEAN
             /\ ~ lossy' => ~ lossy
  <2>1. faults' \in 0 .. MaxFaults
    BY <1>2, ExchangeAssumption DEF Fault, ExchangeTypeOK
  <2>2. lossy' = (lossy \/ kind \in LossyFaults)
    BY <1>2 DEF Fault
  <2> QED
    BY <2>1, <2>2, Zenon DEF ExchangeTypeOK
<1> QED
  BY <1>1, <1>2

(* Type correctness of one step.                                             *)
LEMMA TypeStep ==
  ASSUME ExchangeTypeOK, OneInHand, [ExchangeNext]_exchangeVars
  PROVE  ExchangeTypeOK'
<1> USE DEF ExchangeTypeOK, InboundPc, OutboundPc, Results
<1>1. CASE UNCHANGED exchangeVars
  BY <1>1
<1>2. ASSUME NEW p \in Party, StartLoops(p)
      PROVE  ExchangeTypeOK'
  BY <1>2, ExchangeAssumption DEF StartLoops
<1>3. ASSUME NEW p \in Party, TakeOutput(p)
      PROVE  ExchangeTypeOK'
  <2>1. faults' \in 0 .. MaxFaults /\ lossy' \in BOOLEAN
    BY <1>3, FaultEffect DEF TakeOutput
  <2> QED
    BY <1>3, <2>1, ExchangeAssumption DEF TakeOutput, HasOutput, Produced
<1>4. ASSUME NEW p \in Party, CheckFinished(p)
      PROVE  ExchangeTypeOK'
  BY <1>4 DEF CheckFinished
<1>5. ASSUME NEW p \in Party, SendToReceiver(p)
      PROVE  ExchangeTypeOK'
  <2>1. Msg(p, taken[p]) \in Message
    BY <1>5, MsgType, ExchangeAssumption DEF SendToReceiver, OneInHand
  <2>2. PICK q \in Peers(p) \ sentTo[p] :
          /\ mailbox' = [mailbox EXCEPT ![q] = @ \cup {Msg(p, taken[p])}] \/ UNCHANGED mailbox
          /\ sentTo' = [sentTo EXCEPT ![p] = IF SendLoopOver(p, sentTo[p] \cup {q}) THEN {} ELSE sentTo[p] \cup {q}]
          /\ opc' = [opc EXCEPT ![p] = IF SendLoopOver(p, sentTo[p] \cup {q}) THEN "take" ELSE "send"]
    BY <1>5 DEF SendToReceiver
  <2>3. faults' \in 0 .. MaxFaults /\ lossy' \in BOOLEAN
    BY <1>5, FaultEffect DEF SendToReceiver
  <2> QED
    BY <1>5, <2>1, <2>2, <2>3 DEF SendToReceiver, Peers
<1>6. ASSUME NEW p \in Party, Tick(p)
      PROVE  ExchangeTypeOK'
  <2>1. faults' \in 0 .. MaxFaults /\ lossy' \in BOOLEAN
    BY <1>6, FaultEffect DEF Tick
  <2> QED
    BY <1>6, <2>1, ExchangeAssumption DEF Tick
<1>7. ASSUME NEW p \in Party, Poll(p)
      PROVE  ExchangeTypeOK'
  <2>1. faults' \in 0 .. MaxFaults /\ lossy' \in BOOLEAN
    BY <1>7, FaultEffect DEF Poll
  <2> QED
    BY <1>7, <2>1, ExchangeAssumption DEF Poll, MinuteRearmed
<1>8. ASSUME NEW p \in Party, Timeout(p)
      PROVE  ExchangeTypeOK'
  BY <1>8, ExchangeAssumption DEF Timeout, StoreFinished
<1>9. ASSUME NEW p \in Party, DeleteMessage(p)
      PROVE  ExchangeTypeOK'
  <2>1. faults' \in 0 .. MaxFaults /\ lossy' \in BOOLEAN
    BY <1>9, FaultEffect DEF DeleteMessage
  <2> QED
    BY <1>9, <2>1, ExchangeAssumption DEF DeleteMessage, AfterBatch
<1>10. ASSUME NEW p \in Party, ApplyMessage(p)
      PROVE  ExchangeTypeOK'
  <2>1. faults' \in 0 .. MaxFaults /\ lossy' \in BOOLEAN
    BY <1>10, FaultEffect DEF ApplyMessage
  <2> QED
    BY <1>10, <2>1, ExchangeAssumption DEF ApplyMessage, AfterBatch
<1>11. ASSUME NEW p \in Party, FinishSession(p)
      PROVE  ExchangeTypeOK'
  <2>1. faults' \in 0 .. MaxFaults /\ lossy' \in BOOLEAN
    BY <1>11, FaultEffect DEF FinishSession
  <2> QED
    BY <1>11, <2>1, ExchangeAssumption DEF FinishSession
<1>12. ASSUME NEW p \in Party, PublishFinished(p)
      PROVE  ExchangeTypeOK'
  BY <1>12, ExchangeAssumption DEF PublishFinished, StoreFinished
<1>13. ASSUME NEW p \in Party, HandleResult(p)
      PROVE  ExchangeTypeOK'
  <2>1. faults' \in 0 .. MaxFaults /\ lossy' \in BOOLEAN
    BY <1>13, FaultEffect DEF HandleResult
  <2> QED
    BY <1>13, <2>1, ExchangeAssumption DEF HandleResult
<1>14. ASSUME NEW p \in Party, Leave(p)
      PROVE  ExchangeTypeOK'
  BY <1>14, ExchangeAssumption DEF Leave
<1>15. ASSUME NEW p \in Party, Redeliver(p)
      PROVE  ExchangeTypeOK'
  BY <1>15, ExchangeAssumption DEF Redeliver, Fault
<1>16. ASSUME NEW p \in Party, Crash(p)
      PROVE  ExchangeTypeOK'
  BY <1>16, ExchangeAssumption DEF Crash, Fault
<1>17. ASSUME NEW p \in Party, LoseReceivers(p)
      PROVE  ExchangeTypeOK'
  BY <1>17, ExchangeAssumption DEF LoseReceivers, Fault
<1> QED
  BY <1>1, <1>2, <1>3, <1>4, <1>5, <1>6, <1>7, <1>8, <1>9, <1>10, <1>11, <1>12,
     <1>13, <1>14, <1>15, <1>16, <1>17 DEF ExchangeNext, OutboundStep, InboundStep
(* The loops of a party start together; past the last message its session has
   left the last round. *)
LEMMA LoopsAgreeStep ==
  ASSUME ExchangeTypeOK, LoopsAgree, [ExchangeNext]_exchangeVars
  PROVE  LoopsAgree'
<1> USE ExchangeAssumption DEF ExchangeTypeOK, LoopsAgree, Finishing, HasOutput, Produced, IsFinished
<1>1. CASE UNCHANGED exchangeVars
  BY <1>1
<1>2. ASSUME NEW p \in Party, StartLoops(p)
      PROVE  LoopsAgree'
  BY <1>2 DEF StartLoops
<1>3. ASSUME NEW p \in Party, TakeOutput(p)
      PROVE  LoopsAgree'
  BY <1>3 DEF TakeOutput
<1>4. ASSUME NEW p \in Party, CheckFinished(p)
      PROVE  LoopsAgree'
  BY <1>4 DEF CheckFinished
<1>5. ASSUME NEW p \in Party, SendToReceiver(p)
      PROVE  LoopsAgree'
  BY <1>5 DEF SendToReceiver, Peers
<1>6. ASSUME NEW p \in Party, Tick(p)
      PROVE  LoopsAgree'
  BY <1>6 DEF Tick
<1>7. ASSUME NEW p \in Party, Poll(p)
      PROVE  LoopsAgree'
  BY <1>7 DEF Poll
<1>8. ASSUME NEW p \in Party, Timeout(p)
      PROVE  LoopsAgree'
  BY <1>8 DEF Timeout
<1>9. ASSUME NEW p \in Party, DeleteMessage(p)
      PROVE  LoopsAgree'
  BY <1>9 DEF DeleteMessage, AfterBatch
<1>10. ASSUME NEW p \in Party, ApplyMessage(p)
      PROVE  LoopsAgree'
  <2>1. CASE UNCHANGED round /\ ipc' = [ipc EXCEPT ![p] = AfterBatch(batch[p])]
    BY <1>10, <2>1 DEF ApplyMessage, AfterBatch
  <2>2. CASE \E r \in round[p] .. (Rounds + 1) :
               /\ round' = [round EXCEPT ![p] = r]
               /\ ipc' = [ipc EXCEPT ![p] = IF IsFinished(r) THEN "finish"
                                           ELSE AfterBatch(batch[p])]
    BY <1>10, <2>2 DEF ApplyMessage, AfterBatch
  <2> QED
    BY <1>10, <2>1, <2>2 DEF ApplyMessage, EntersRound
<1>11. ASSUME NEW p \in Party, FinishSession(p)
      PROVE  LoopsAgree'
  BY <1>11 DEF FinishSession
<1>12. ASSUME NEW p \in Party, PublishFinished(p)
      PROVE  LoopsAgree'
  BY <1>12 DEF PublishFinished
<1>13. ASSUME NEW p \in Party, HandleResult(p)
      PROVE  LoopsAgree'
  BY <1>13 DEF HandleResult
<1>14. ASSUME NEW p \in Party, Leave(p)
      PROVE  LoopsAgree'
  BY <1>14 DEF Leave
<1>15. ASSUME NEW p \in Party, Redeliver(p)
      PROVE  LoopsAgree'
  BY <1>15 DEF Redeliver
<1>16. ASSUME NEW p \in Party, Crash(p)
      PROVE  LoopsAgree'
  BY <1>16 DEF Crash
<1>17. ASSUME NEW p \in Party, LoseReceivers(p)
      PROVE  LoopsAgree'
  BY <1>17 DEF LoseReceivers
<1> QED
  BY <1>1, <1>2, <1>3, <1>4, <1>5, <1>6, <1>7, <1>8, <1>9,
     <1>10, <1>11, <1>12, <1>13, <1>14, <1>15, <1>16, <1>17
  DEF ExchangeNext, OutboundStep, InboundStep

(* There is a message in hand only while it is being sent or applied. *)
LEMMA OneInHandStep ==
  ASSUME ExchangeTypeOK, LoopsAgree, OneInHand, [ExchangeNext]_exchangeVars
  PROVE  OneInHand'
<1> USE ExchangeAssumption DEF ExchangeTypeOK, OneInHand, LoopsAgree, Finishing, Peers
<1>1. CASE UNCHANGED exchangeVars
  BY <1>1
<1>2. ASSUME NEW p \in Party, StartLoops(p)
      PROVE  OneInHand'
  BY <1>2 DEF StartLoops
<1>3. ASSUME NEW p \in Party, TakeOutput(p)
      PROVE  OneInHand'
  BY <1>3 DEF TakeOutput
<1>4. ASSUME NEW p \in Party, CheckFinished(p)
      PROVE  OneInHand'
  BY <1>4 DEF CheckFinished
<1>5. ASSUME NEW p \in Party, SendToReceiver(p)
      PROVE  OneInHand'
  <2>1. PICK q \in Peers(p) \ sentTo[p] :
          /\ sentTo' = [sentTo EXCEPT ![p] = IF SendLoopOver(p, sentTo[p] \cup {q})
                                            THEN {} ELSE sentTo[p] \cup {q}]
          /\ opc' = [opc EXCEPT ![p] = IF SendLoopOver(p, sentTo[p] \cup {q})
                                      THEN "take" ELSE "send"]
    BY <1>5 DEF SendToReceiver
  <2>2. UNCHANGED <<ipc, pending, taken>> /\ opc[p] = "send"
    BY <1>5 DEF SendToReceiver
  <2>3. /\ sentTo'[p] \subseteq Peers(p)
        /\ opc'[p] # "send" => sentTo'[p] = {}
    <3>1. CASE SendLoopOver(p, sentTo[p] \cup {q})
      BY <2>1, <3>1
    <3>2. CASE ~ SendLoopOver(p, sentTo[p] \cup {q})
      BY <2>1, <3>2
    <3> QED
      BY <3>1, <3>2
  <2>4. \A a \in Party \ {p} : sentTo'[a] = sentTo[a] /\ opc'[a] = opc[a]
    BY <2>1
  <2> QED
    BY <2>2, <2>3, <2>4
<1>6. ASSUME NEW p \in Party, Tick(p)
      PROVE  OneInHand'
  BY <1>6 DEF Tick
<1>7. ASSUME NEW p \in Party, Poll(p)
      PROVE  OneInHand'
  BY <1>7 DEF Poll
<1>8. ASSUME NEW p \in Party, Timeout(p)
      PROVE  OneInHand'
  BY <1>8 DEF Timeout
<1>9. ASSUME NEW p \in Party, DeleteMessage(p)
      PROVE  OneInHand'
  BY <1>9 DEF DeleteMessage, AfterBatch
<1>10. ASSUME NEW p \in Party, ApplyMessage(p)
      PROVE  OneInHand'
  BY <1>10 DEF ApplyMessage, AfterBatch
<1>11. ASSUME NEW p \in Party, FinishSession(p)
      PROVE  OneInHand'
  BY <1>11 DEF FinishSession
<1>12. ASSUME NEW p \in Party, PublishFinished(p)
      PROVE  OneInHand'
  BY <1>12 DEF PublishFinished
<1>13. ASSUME NEW p \in Party, HandleResult(p)
      PROVE  OneInHand'
  BY <1>13 DEF HandleResult
<1>14. ASSUME NEW p \in Party, Leave(p)
      PROVE  OneInHand'
  BY <1>14 DEF Leave
<1>15. ASSUME NEW p \in Party, Redeliver(p)
      PROVE  OneInHand'
  BY <1>15 DEF Redeliver
<1>16. ASSUME NEW p \in Party, Crash(p)
      PROVE  OneInHand'
  BY <1>16 DEF Crash
<1>17. ASSUME NEW p \in Party, LoseReceivers(p)
      PROVE  OneInHand'
  BY <1>17 DEF LoseReceivers
<1> QED
  BY <1>1, <1>2, <1>3, <1>4, <1>5, <1>6, <1>7, <1>8, <1>9,
     <1>10, <1>11, <1>12, <1>13, <1>14, <1>15, <1>16, <1>17
  DEF ExchangeNext, OutboundStep, InboundStep

(* A freed session has no loop: only Leave frees, after both loops have ended. *)
LEMMA FreeStep ==
  ASSUME ExchangeTypeOK, NoUseAfterFree, [ExchangeNext]_exchangeVars
  PROVE  NoUseAfterFree'
<1> USE ExchangeAssumption DEF ExchangeTypeOK, NoUseAfterFree
<1>1. CASE UNCHANGED exchangeVars
  BY <1>1
<1>2. ASSUME NEW p \in Party, StartLoops(p)
      PROVE  NoUseAfterFree'
  BY <1>2 DEF StartLoops
<1>3. ASSUME NEW p \in Party, TakeOutput(p)
      PROVE  NoUseAfterFree'
  BY <1>3 DEF TakeOutput
<1>4. ASSUME NEW p \in Party, CheckFinished(p)
      PROVE  NoUseAfterFree'
  BY <1>4 DEF CheckFinished
<1>5. ASSUME NEW p \in Party, SendToReceiver(p)
      PROVE  NoUseAfterFree'
  BY <1>5 DEF SendToReceiver, Peers
<1>6. ASSUME NEW p \in Party, Tick(p)
      PROVE  NoUseAfterFree'
  BY <1>6 DEF Tick
<1>7. ASSUME NEW p \in Party, Poll(p)
      PROVE  NoUseAfterFree'
  BY <1>7 DEF Poll
<1>8. ASSUME NEW p \in Party, Timeout(p)
      PROVE  NoUseAfterFree'
  BY <1>8 DEF Timeout
<1>9. ASSUME NEW p \in Party, DeleteMessage(p)
      PROVE  NoUseAfterFree'
  BY <1>9 DEF DeleteMessage, AfterBatch
<1>10. ASSUME NEW p \in Party, ApplyMessage(p)
      PROVE  NoUseAfterFree'
  BY <1>10 DEF ApplyMessage, AfterBatch
<1>11. ASSUME NEW p \in Party, FinishSession(p)
      PROVE  NoUseAfterFree'
  BY <1>11 DEF FinishSession
<1>12. ASSUME NEW p \in Party, PublishFinished(p)
      PROVE  NoUseAfterFree'
  BY <1>12 DEF PublishFinished
<1>13. ASSUME NEW p \in Party, HandleResult(p)
      PROVE  NoUseAfterFree'
  BY <1>13 DEF HandleResult
<1>14. ASSUME NEW p \in Party, Leave(p)
      PROVE  NoUseAfterFree'
  BY <1>14 DEF Leave
<1>15. ASSUME NEW p \in Party, Redeliver(p)
      PROVE  NoUseAfterFree'
  BY <1>15 DEF Redeliver
<1>16. ASSUME NEW p \in Party, Crash(p)
      PROVE  NoUseAfterFree'
  BY <1>16 DEF Crash
<1>17. ASSUME NEW p \in Party, LoseReceivers(p)
      PROVE  NoUseAfterFree'
  BY <1>17 DEF LoseReceivers
<1> QED
  BY <1>1, <1>2, <1>3, <1>4, <1>5, <1>6, <1>7, <1>8, <1>9,
     <1>10, <1>11, <1>12, <1>13, <1>14, <1>15, <1>16, <1>17
  DEF ExchangeNext, OutboundStep, InboundStep

(* Everything given to the library was entered into the cache before. *)
LEMMA CacheCoversStep ==
  ASSUME ExchangeTypeOK, OneInHand, CacheCovers, [ExchangeNext]_exchangeVars
  PROVE  CacheCovers'
<1> USE ExchangeAssumption DEF ExchangeTypeOK, CacheCovers
<1>1. CASE UNCHANGED exchangeVars
  BY <1>1
<1>2. ASSUME NEW p \in Party, StartLoops(p)
      PROVE  CacheCovers'
  BY <1>2 DEF StartLoops
<1>3. ASSUME NEW p \in Party, TakeOutput(p)
      PROVE  CacheCovers'
  BY <1>3 DEF TakeOutput
<1>4. ASSUME NEW p \in Party, CheckFinished(p)
      PROVE  CacheCovers'
  BY <1>4 DEF CheckFinished
<1>5. ASSUME NEW p \in Party, SendToReceiver(p)
      PROVE  CacheCovers'
  BY <1>5 DEF SendToReceiver, Peers
<1>6. ASSUME NEW p \in Party, Tick(p)
      PROVE  CacheCovers'
  BY <1>6 DEF Tick
<1>7. ASSUME NEW p \in Party, Poll(p)
      PROVE  CacheCovers'
  BY <1>7 DEF Poll
<1>8. ASSUME NEW p \in Party, Timeout(p)
      PROVE  CacheCovers'
  BY <1>8 DEF Timeout
<1>9. ASSUME NEW p \in Party, DeleteMessage(p)
      PROVE  CacheCovers'
  BY <1>9 DEF DeleteMessage, AfterBatch
<1>10. ASSUME NEW p \in Party, ApplyMessage(p)
      PROVE  CacheCovers'
  BY <1>10 DEF ApplyMessage, AfterBatch
<1>11. ASSUME NEW p \in Party, FinishSession(p)
      PROVE  CacheCovers'
  BY <1>11 DEF FinishSession
<1>12. ASSUME NEW p \in Party, PublishFinished(p)
      PROVE  CacheCovers'
  BY <1>12 DEF PublishFinished
<1>13. ASSUME NEW p \in Party, HandleResult(p)
      PROVE  CacheCovers'
  BY <1>13 DEF HandleResult
<1>14. ASSUME NEW p \in Party, Leave(p)
      PROVE  CacheCovers'
  BY <1>14 DEF Leave
<1>15. ASSUME NEW p \in Party, Redeliver(p)
      PROVE  CacheCovers'
  BY <1>15 DEF Redeliver
<1>16. ASSUME NEW p \in Party, Crash(p)
      PROVE  CacheCovers'
  BY <1>16 DEF Crash
<1>17. ASSUME NEW p \in Party, LoseReceivers(p)
      PROVE  CacheCovers'
  BY <1>17 DEF LoseReceivers
<1> QED
  BY <1>1, <1>2, <1>3, <1>4, <1>5, <1>6, <1>7, <1>8, <1>9,
     <1>10, <1>11, <1>12, <1>13, <1>14, <1>15, <1>16, <1>17
  DEF ExchangeNext, OutboundStep, InboundStep

(* Until a failure loses a message, everything in the cache was given to the
   library or is about to be. *)
LEMMA CacheExactStep ==
  ASSUME ExchangeTypeOK, OneInHand, CacheExact, [ExchangeNext]_exchangeVars
  PROVE  CacheExact'
<1> USE ExchangeAssumption DEF ExchangeTypeOK, CacheExact
<1>1. CASE UNCHANGED exchangeVars
  BY <1>1
<1>2. ASSUME NEW p \in Party, StartLoops(p)
      PROVE  CacheExact'
  BY <1>2 DEF StartLoops
<1>3. ASSUME NEW p \in Party, TakeOutput(p)
      PROVE  CacheExact'
  <2>1. ~ lossy' => ~ lossy
    BY <1>3, FaultEffect DEF TakeOutput
  <2> QED
    BY <1>3, <2>1 DEF TakeOutput
<1>4. ASSUME NEW p \in Party, CheckFinished(p)
      PROVE  CacheExact'
  BY <1>4 DEF CheckFinished
<1>5. ASSUME NEW p \in Party, SendToReceiver(p)
      PROVE  CacheExact'
  <2>1. ~ lossy' => ~ lossy
    BY <1>5, FaultEffect DEF SendToReceiver
  <2> QED
    BY <1>5, <2>1 DEF SendToReceiver, Peers
<1>6. ASSUME NEW p \in Party, Tick(p)
      PROVE  CacheExact'
  <2>1. ~ lossy' => ~ lossy
    BY <1>6, FaultEffect DEF Tick
  <2> QED
    BY <1>6, <2>1 DEF Tick
<1>7. ASSUME NEW p \in Party, Poll(p)
      PROVE  CacheExact'
  <2>1. ~ lossy' => ~ lossy
    BY <1>7, FaultEffect DEF Poll
  <2> QED
    BY <1>7, <2>1 DEF Poll
<1>8. ASSUME NEW p \in Party, Timeout(p)
      PROVE  CacheExact'
  BY <1>8 DEF Timeout
<1>9. ASSUME NEW p \in Party, DeleteMessage(p)
      PROVE  CacheExact'
  <2>1. ~ lossy' => ~ lossy
    BY <1>9, FaultEffect DEF DeleteMessage
  <2>2. pending[p] = {}
    BY <1>9 DEF DeleteMessage, OneInHand
  <2>3. CASE UNCHANGED <<pending, cache>>
    BY <1>9, <2>1, <2>3 DEF DeleteMessage
  <2>4. CASE \E m \in batch[p] : /\ cache' = [cache EXCEPT ![p] = @ \cup {m}]
                               /\ pending' = [pending EXCEPT ![p] = {m}]
    BY <1>9, <2>1, <2>2, <2>4 DEF DeleteMessage
  <2> QED
    BY <1>9, <2>3, <2>4 DEF DeleteMessage
<1>10. ASSUME NEW p \in Party, ApplyMessage(p)
      PROVE  CacheExact'
  <2>1. ~ lossy' => ~ lossy
    BY <1>10, FaultEffect DEF ApplyMessage
  <2>2. Fault("input") => lossy'
    BY DEF Fault, LossyFaults
  <2>3. SUFFICES ASSUME ~ lossy', NEW q \in Party
                 PROVE  cache'[q] \subseteq pending'[q] \cup received'[q]
    BY DEF CacheExact
  <2> QED
    BY <1>10, <2>1, <2>2, <2>3 DEF ApplyMessage, AfterBatch
<1>11. ASSUME NEW p \in Party, FinishSession(p)
      PROVE  CacheExact'
  <2>1. ~ lossy' => ~ lossy
    BY <1>11, FaultEffect DEF FinishSession
  <2> QED
    BY <1>11, <2>1 DEF FinishSession
<1>12. ASSUME NEW p \in Party, PublishFinished(p)
      PROVE  CacheExact'
  BY <1>12 DEF PublishFinished
<1>13. ASSUME NEW p \in Party, HandleResult(p)
      PROVE  CacheExact'
  <2>1. ~ lossy' => ~ lossy
    BY <1>13, FaultEffect DEF HandleResult
  <2> QED
    BY <1>13, <2>1 DEF HandleResult
<1>14. ASSUME NEW p \in Party, Leave(p)
      PROVE  CacheExact'
  BY <1>14 DEF Leave
<1>15. ASSUME NEW p \in Party, Redeliver(p)
      PROVE  CacheExact'
  <2>1. ~ lossy' => ~ lossy
    BY <1>15, FaultEffect DEF Redeliver
  <2> QED
    BY <1>15, <2>1 DEF Redeliver
<1>16. ASSUME NEW p \in Party, Crash(p)
      PROVE  CacheExact'
  <2>1. lossy'
    BY <1>16 DEF Crash, Fault, LossyFaults
  <2> QED
    BY <2>1 DEF CacheExact
<1>17. ASSUME NEW p \in Party, LoseReceivers(p)
      PROVE  CacheExact'
  <2>1. lossy'
    BY <1>17 DEF LoseReceivers, Fault, LossyFaults
  <2> QED
    BY <2>1 DEF CacheExact
<1> QED
  BY <1>1, <1>2, <1>3, <1>4, <1>5, <1>6, <1>7, <1>8, <1>9,
     <1>10, <1>11, <1>12, <1>13, <1>14, <1>15, <1>16, <1>17
  DEF ExchangeNext, OutboundStep, InboundStep

(* A message about to be applied was not in the cache, hence not accepted before. *)
LEMMA OnceStep ==
  ASSUME ExchangeTypeOK, CacheCovers, AppliedAtMostOnce, [ExchangeNext]_exchangeVars
  PROVE  AppliedAtMostOnce'
<1> USE ExchangeAssumption DEF ExchangeTypeOK, AppliedAtMostOnce, Seen
<1>1. CASE UNCHANGED exchangeVars
  BY <1>1
<1>2. ASSUME NEW p \in Party, StartLoops(p)
      PROVE  AppliedAtMostOnce'
  BY <1>2 DEF StartLoops
<1>3. ASSUME NEW p \in Party, TakeOutput(p)
      PROVE  AppliedAtMostOnce'
  BY <1>3 DEF TakeOutput
<1>4. ASSUME NEW p \in Party, CheckFinished(p)
      PROVE  AppliedAtMostOnce'
  BY <1>4 DEF CheckFinished
<1>5. ASSUME NEW p \in Party, SendToReceiver(p)
      PROVE  AppliedAtMostOnce'
  BY <1>5 DEF SendToReceiver, Peers
<1>6. ASSUME NEW p \in Party, Tick(p)
      PROVE  AppliedAtMostOnce'
  BY <1>6 DEF Tick
<1>7. ASSUME NEW p \in Party, Poll(p)
      PROVE  AppliedAtMostOnce'
  BY <1>7 DEF Poll
<1>8. ASSUME NEW p \in Party, Timeout(p)
      PROVE  AppliedAtMostOnce'
  BY <1>8 DEF Timeout
<1>9. ASSUME NEW p \in Party, DeleteMessage(p)
      PROVE  AppliedAtMostOnce'
  <2>1. CASE UNCHANGED pending /\ \E rest : ipc' = [ipc EXCEPT ![p] = AfterBatch(rest)]
    BY <1>9, <2>1 DEF DeleteMessage, AfterBatch
  <2>2. CASE \E m \in batch[p] \ cache[p] : pending' = [pending EXCEPT ![p] = {m}]
    <3>1. \A q \in Party \ {p} : ipc'[q] = ipc[q] /\ pending'[q] = pending[q]
      BY <1>9, <2>2 DEF DeleteMessage
    <3>2. pending'[p] \cap received'[p] = {}
      BY <1>9, <2>2 DEF DeleteMessage, CacheCovers
    <3> QED
      BY <1>9, <3>1, <3>2 DEF DeleteMessage
  <2> QED
    BY <1>9, <2>1, <2>2 DEF DeleteMessage
<1>10. ASSUME NEW p \in Party, ApplyMessage(p)
      PROVE  AppliedAtMostOnce'
  BY <1>10 DEF ApplyMessage, AfterBatch
<1>11. ASSUME NEW p \in Party, FinishSession(p)
      PROVE  AppliedAtMostOnce'
  BY <1>11 DEF FinishSession
<1>12. ASSUME NEW p \in Party, PublishFinished(p)
      PROVE  AppliedAtMostOnce'
  BY <1>12 DEF PublishFinished
<1>13. ASSUME NEW p \in Party, HandleResult(p)
      PROVE  AppliedAtMostOnce'
  BY <1>13 DEF HandleResult
<1>14. ASSUME NEW p \in Party, Leave(p)
      PROVE  AppliedAtMostOnce'
  BY <1>14 DEF Leave
<1>15. ASSUME NEW p \in Party, Redeliver(p)
      PROVE  AppliedAtMostOnce'
  BY <1>15 DEF Redeliver
<1>16. ASSUME NEW p \in Party, Crash(p)
      PROVE  AppliedAtMostOnce'
  BY <1>16 DEF Crash
<1>17. ASSUME NEW p \in Party, LoseReceivers(p)
      PROVE  AppliedAtMostOnce'
  BY <1>17 DEF LoseReceivers
<1> QED
  BY <1>1, <1>2, <1>3, <1>4, <1>5, <1>6, <1>7, <1>8, <1>9,
     <1>10, <1>11, <1>12, <1>13, <1>14, <1>15, <1>16, <1>17
  DEF ExchangeNext, OutboundStep, InboundStep

(* Messages move between relay, batch and session; only SendToReceiver makes them. *)
LEMMA MadeStep ==
  ASSUME ExchangeTypeOK, OneInHand, NotBeforeMade, [ExchangeNext]_exchangeVars
  PROVE  NotBeforeMade'
<1> USE ExchangeAssumption DEF ExchangeTypeOK, NotBeforeMade
<1>1. CASE UNCHANGED exchangeVars
  BY <1>1
<1>2. ASSUME NEW p \in Party, StartLoops(p)
      PROVE  NotBeforeMade'
  BY <1>2 DEF StartLoops
<1>3. ASSUME NEW p \in Party, TakeOutput(p)
      PROVE  NotBeforeMade'
  <2>1. \A q \in Party : taken[q] <= taken'[q] /\ taken'[q] \in Nat
    BY <1>3 DEF TakeOutput
  <2>2. UNCHANGED <<mailbox, batch, pending, received, cache>>
    BY <1>3 DEF TakeOutput
  <2>3. \A m \in Message : m.from \in Party /\ m.round \in Nat
    BY DEF Message
  <2> QED
    BY <2>1, <2>2, <2>3
<1>4. ASSUME NEW p \in Party, CheckFinished(p)
      PROVE  NotBeforeMade'
  BY <1>4 DEF CheckFinished
<1>5. ASSUME NEW p \in Party, SendToReceiver(p)
      PROVE  NotBeforeMade'
  <2>1. Msg(p, taken[p]) \in Message /\ Msg(p, taken[p]).from = p
          /\ Msg(p, taken[p]).round = taken[p]
    BY <1>5, MsgType DEF SendToReceiver, OneInHand
  <2>2. UNCHANGED <<batch, pending, received, cache, taken>>
    BY <1>5 DEF SendToReceiver
  <2>3. \A q \in Party : mailbox'[q] \subseteq mailbox[q] \cup {Msg(p, taken[p])}
    BY <1>5 DEF SendToReceiver
  <2> QED
    BY <2>1, <2>2, <2>3
<1>6. ASSUME NEW p \in Party, Tick(p)
      PROVE  NotBeforeMade'
  BY <1>6 DEF Tick
<1>7. ASSUME NEW p \in Party, Poll(p)
      PROVE  NotBeforeMade'
  BY <1>7 DEF Poll
<1>8. ASSUME NEW p \in Party, Timeout(p)
      PROVE  NotBeforeMade'
  BY <1>8 DEF Timeout
<1>9. ASSUME NEW p \in Party, DeleteMessage(p)
      PROVE  NotBeforeMade'
  <2>1. \A q \in Party :
          /\ mailbox'[q] \subseteq mailbox[q]
          /\ batch'[q] \subseteq batch[q]
          /\ pending'[q] \subseteq pending[q] \cup batch[q]
          /\ cache'[q] \subseteq cache[q] \cup batch[q]
    BY <1>9 DEF DeleteMessage
  <2>2. UNCHANGED <<received, taken>>
    BY <1>9 DEF DeleteMessage
  <2> QED
    BY <2>1, <2>2
<1>10. ASSUME NEW p \in Party, ApplyMessage(p)
      PROVE  NotBeforeMade'
  <2>1. \A q \in Party :
          /\ pending'[q] \subseteq pending[q]
          /\ received'[q] \subseteq received[q] \cup pending[q]
    BY <1>10 DEF ApplyMessage
  <2>2. UNCHANGED <<mailbox, batch, cache, taken>>
    BY <1>10 DEF ApplyMessage
  <2> QED
    BY <2>1, <2>2
<1>11. ASSUME NEW p \in Party, FinishSession(p)
      PROVE  NotBeforeMade'
  BY <1>11 DEF FinishSession
<1>12. ASSUME NEW p \in Party, PublishFinished(p)
      PROVE  NotBeforeMade'
  BY <1>12 DEF PublishFinished
<1>13. ASSUME NEW p \in Party, HandleResult(p)
      PROVE  NotBeforeMade'
  BY <1>13 DEF HandleResult
<1>14. ASSUME NEW p \in Party, Leave(p)
      PROVE  NotBeforeMade'
  BY <1>14 DEF Leave
<1>15. ASSUME NEW p \in Party, Redeliver(p)
      PROVE  NotBeforeMade'
  BY <1>15 DEF Redeliver
<1>16. ASSUME NEW p \in Party, Crash(p)
      PROVE  NotBeforeMade'
  BY <1>16 DEF Crash
<1>17. ASSUME NEW p \in Party, LoseReceivers(p)
      PROVE  NotBeforeMade'
  BY <1>17 DEF LoseReceivers
<1> QED
  BY <1>1, <1>2, <1>3, <1>4, <1>5, <1>6, <1>7, <1>8, <1>9,
     <1>10, <1>11, <1>12, <1>13, <1>14, <1>15, <1>16, <1>17
  DEF ExchangeNext, OutboundStep, InboundStep

(* A session goes on only with the messages of the rounds it leaves behind.  *)
LEMMA SkippedStep ==
  ASSUME ExchangeTypeOK, LoopsAgree, NothingSkipped, [ExchangeNext]_exchangeVars
  PROVE  NothingSkipped'
<1> USE ExchangeAssumption DEF ExchangeTypeOK, NothingSkipped
<1>1. CASE UNCHANGED <<round, received>>
  BY <1>1 DEF RoundComplete
<1>2. ASSUME NEW p \in Party, StartLoops(p)
      PROVE  NothingSkipped'
  BY <1>2 DEF StartLoops, LoopsAgree, Finishing, RoundComplete
<1>3. ASSUME NEW p \in Party, ApplyMessage(p)
      PROVE  NothingSkipped'
  <2>1. CASE UNCHANGED <<round, received>>
    BY <1>1, <2>1
  <2>2. CASE \E r \in 1 .. (Rounds + 1) :
               /\ EntersRound(p, received[p] \cup pending[p], r)
               /\ received' = [received EXCEPT ![p] = received[p] \cup pending[p]]
               /\ round' = [round EXCEPT ![p] = r]
    <3>1. PICK r \in 1 .. (Rounds + 1) :
                 /\ EntersRound(p, received[p] \cup pending[p], r)
                 /\ received' = [received EXCEPT ![p] = received[p] \cup pending[p]]
                 /\ round' = [round EXCEPT ![p] = r]
      BY <2>2
    <3>2. \A q \in Party \ {p} : round'[q] = round[q] /\ received'[q] = received[q]
      BY <3>1
    <3>3. round'[p] = r /\ received'[p] = received[p] \cup pending[p]
      BY <3>1
    <3>4. ASSUME NEW k \in 1 .. Rounds, r > k
          PROVE  RoundComplete(p, received[p] \cup pending[p], k)
      <4>1. CASE round[p] > k
        BY <4>1 DEF RoundComplete
      <4>2. CASE round[p] <= k
        <5>1. k \in round[p] .. (r - 1)
          BY <3>4, <4>2
        <5> QED
          BY <3>1, <5>1 DEF EntersRound
      <4> QED
        BY <4>1, <4>2
    <3> QED
      BY <3>2, <3>3, <3>4 DEF RoundComplete
  <2> QED
    BY <1>3, <2>1, <2>2 DEF ApplyMessage
<1>4. ASSUME NEW p \in Party, OutboundStep(p)
      PROVE  UNCHANGED <<round, received>>
  <2>1. CASE TakeOutput(p)
    BY <2>1 DEF TakeOutput
  <2>2. CASE CheckFinished(p)
    BY <2>2 DEF CheckFinished
  <2>3. CASE SendToReceiver(p)
    BY <2>3 DEF SendToReceiver
  <2>4. CASE LoseReceivers(p)
    BY <2>4 DEF LoseReceivers
  <2> QED
    BY <1>4, <2>1, <2>2, <2>3, <2>4 DEF OutboundStep
<1>5. ASSUME NEW p \in Party, Tick(p) \/ Poll(p) \/ Timeout(p) \/ DeleteMessage(p)
      PROVE  UNCHANGED <<round, received>>
  BY <1>5 DEF Tick, Poll, Timeout, DeleteMessage
<1>6. ASSUME NEW p \in Party,
             FinishSession(p) \/ PublishFinished(p) \/ HandleResult(p) \/ Leave(p)
      PROVE  UNCHANGED <<round, received>>
  BY <1>6 DEF FinishSession, PublishFinished, HandleResult, Leave
<1>7. ASSUME NEW p \in Party, Redeliver(p) \/ Crash(p)
      PROVE  UNCHANGED <<round, received>>
  BY <1>7 DEF Redeliver, Crash
<1> QED
  BY <1>1, <1>2, <1>3, <1>4, <1>5, <1>6, <1>7 DEF ExchangeNext, InboundStep

(* A receiver loop that may run over all peers serves every peer.            *)
LEMMA AllServed ==
  ASSUME Cardinality(Party) - 1 <= ReceiverLimit, NEW p \in Party,
         NEW served \in SUBSET Peers(p), SendLoopOver(p, served)
  PROVE  served = Peers(p)
<1>1. /\ IsFiniteSet(Peers(p))
      /\ Cardinality(Peers(p)) = Cardinality(Party) - 1
  BY FS_RemoveElement, ExchangeAssumption DEF Peers
<1>2. Cardinality(Party) \in Nat /\ Cardinality(served) \in Nat
  BY <1>1, FS_CardinalityType, FS_Subset, ExchangeAssumption
<1>3. /\ Cardinality(served) <= Cardinality(Peers(p))
      /\ Cardinality(served) = Cardinality(Peers(p)) => served = Peers(p)
  BY <1>1, FS_Subset
<1>4. CASE Cardinality(served) = ReceiverLimit
  <2>1. Cardinality(served) = Cardinality(Peers(p))
    BY <1>1, <1>2, <1>3, <1>4, ExchangeAssumption
  <2> QED
    BY <1>3, <2>1
<1> QED
  BY <1>4 DEF SendLoopOver

(* Where the message p made in round r is, as seen from its receiver q.      *)
Safe(p, q, r) ==
  \/ opc[p] = "send" /\ r = taken[p] /\ q \notin sentTo[p]
  \/ Msg(p, r) \in mailbox[q] \cup pending[q] \cup received[q]

(* No step but a lossy failure takes a message away from its receiver. *)
LEMMA LostStep ==
  ASSUME Cardinality(Party) - 1 <= ReceiverLimit,
         ExchangeTypeOK, LoopsAgree, OneInHand, CacheExact, NothingLost, [ExchangeNext]_exchangeVars
  PROVE  NothingLost'
<1> USE ExchangeAssumption DEF ExchangeTypeOK, NothingLost
<1>1. CASE UNCHANGED exchangeVars
  BY <1>1
<1>2. ASSUME NEW p \in Party, StartLoops(p)
      PROVE  NothingLost'
  <2>1. opc[p] # "send" /\ opc'[p] # "send"
    BY <1>2 DEF StartLoops, LoopsAgree, Finishing
  <2>2. \A q \in Party \ {p} : opc'[q] = opc[q]
    BY <1>2 DEF StartLoops
  <2>3. UNCHANGED <<sentTo, taken, mailbox, pending, received, lossy>>
    BY <1>2 DEF StartLoops
  <2> QED
    BY <2>1, <2>2, <2>3
<1>3. ASSUME NEW p \in Party, TakeOutput(p)
      PROVE  NothingLost'
  <2>1. opc[p] # "send" /\ sentTo[p] = {}
    BY <1>3 DEF TakeOutput, OneInHand
  <2>2. \A q \in Party \ {p} : opc'[q] = opc[q] /\ taken'[q] = taken[q]
    BY <1>3 DEF TakeOutput
  <2>3. UNCHANGED <<sentTo, mailbox, pending, received>> /\ (~ lossy' => ~ lossy)
    BY <1>3, FaultEffect DEF TakeOutput
  <2>4. taken'[p] = taken[p] \/ (taken'[p] = taken[p] + 1 /\ opc'[p] = "send")
    BY <1>3 DEF TakeOutput
  <2> QED
    BY <2>1, <2>2, <2>3, <2>4
<1>4. ASSUME NEW p \in Party, CheckFinished(p)
      PROVE  NothingLost'
  <2>1. opc[p] # "send"
    BY <1>4 DEF CheckFinished
  <2>2. \A q \in Party \ {p} : opc'[q] = opc[q]
    BY <1>4 DEF CheckFinished
  <2>3. UNCHANGED <<sentTo, taken, mailbox, pending, received, lossy>>
    BY <1>4 DEF CheckFinished
  <2> QED
    BY <2>1, <2>2, <2>3
<1>5. ASSUME NEW p \in Party, SendToReceiver(p)
      PROVE  NothingLost'
  <2>1. SUFFICES ASSUME ~ lossy'
                 PROVE  \A a \in Party : \A b \in Peers(a) : \A r \in 1 .. taken'[a] :
                          Safe(a, b, r)'
    BY DEF NothingLost, Safe
  <2>2. /\ ~ lossy
        /\ ~ Fault("send")
    BY <1>5, <2>1, FaultEffect DEF SendToReceiver, Fault, LossyFaults
  <2>3. PICK q \in Peers(p) \ sentTo[p] :
          /\ mailbox' = [mailbox EXCEPT ![q] = @ \cup {Msg(p, taken[p])}]
          /\ sentTo' = [sentTo EXCEPT ![p] = IF SendLoopOver(p, sentTo[p] \cup {q})
                                            THEN {} ELSE sentTo[p] \cup {q}]
          /\ opc' = [opc EXCEPT ![p] = IF SendLoopOver(p, sentTo[p] \cup {q})
                                      THEN "take" ELSE "send"]
    BY <1>5, <2>2 DEF SendToReceiver
  <2>4. UNCHANGED <<taken, pending, received>>
    BY <1>5 DEF SendToReceiver
  <2>5. SendLoopOver(p, sentTo[p] \cup {q}) => sentTo[p] \cup {q} = Peers(p)
    BY AllServed DEF OneInHand
  <2>6. ASSUME NEW a \in Party, NEW b \in Peers(a), NEW r \in 1 .. taken[a]
        PROVE  Safe(a, b, r)'
    <3>1. Safe(a, b, r)
      BY <2>2, <2>6 DEF NothingLost, Safe
    <3>2. CASE Msg(a, r) \in mailbox[b] \cup pending[b] \cup received[b]
      BY <2>3, <2>4, <3>2 DEF Safe, Peers
    <3>3. CASE opc[a] = "send" /\ r = taken[a] /\ b \notin sentTo[a]
      <4>1. CASE a # p
        BY <2>3, <2>4, <3>3, <4>1 DEF Safe
      <4>2. CASE a = p /\ b = q
        BY <2>3, <3>3, <4>2 DEF Safe, Peers
      <4>3. CASE a = p /\ b # q
        BY <2>3, <2>4, <2>5, <2>6, <3>3, <4>3 DEF Safe
      <4> QED
        BY <4>1, <4>2, <4>3
    <3> QED
      BY <3>1, <3>2, <3>3 DEF Safe
  <2> QED
    BY <2>4, <2>6
<1>6. ASSUME NEW p \in Party, Tick(p)
      PROVE  NothingLost'
  <2>1. UNCHANGED <<opc, sentTo, taken, mailbox, pending, received>>
    BY <1>6 DEF Tick
  <2>2. ~ lossy' => ~ lossy
    BY <1>6, FaultEffect DEF Tick
  <2> QED
    BY <2>1, <2>2
<1>7. ASSUME NEW p \in Party, Poll(p)
      PROVE  NothingLost'
  <2>1. UNCHANGED <<opc, sentTo, taken, mailbox, pending, received>>
    BY <1>7 DEF Poll
  <2>2. ~ lossy' => ~ lossy
    BY <1>7, FaultEffect DEF Poll
  <2> QED
    BY <2>1, <2>2
<1>8. ASSUME NEW p \in Party, Timeout(p)
      PROVE  NothingLost'
  <2>1. UNCHANGED <<opc, sentTo, taken, mailbox, pending, received>>
    BY <1>8 DEF Timeout
  <2>2. ~ lossy' => ~ lossy
    BY <1>8 DEF Timeout
  <2> QED
    BY <2>1, <2>2
<1>9. ASSUME NEW p \in Party, DeleteMessage(p)
      PROVE  NothingLost'
  <2>1. SUFFICES ASSUME ~ lossy'
                 PROVE  \A a \in Party : \A b \in Peers(a) : \A r \in 1 .. taken'[a] :
                          Safe(a, b, r)'
    BY DEF NothingLost, Safe
  <2>2. /\ ~ lossy
        /\ ~ Fault("deleteLost")
    BY <1>9, <2>1, FaultEffect DEF DeleteMessage, Fault, LossyFaults
  <2>3. UNCHANGED <<opc, sentTo, taken, received>>
    BY <1>9 DEF DeleteMessage
  <2>4. pending[p] = {}
    BY <1>9 DEF DeleteMessage, OneInHand
  <2>5. \A b \in Party : mailbox[b] \cup pending[b] \cup received[b]
                          \subseteq mailbox'[b] \cup pending'[b] \cup received[b]
    <3>1. CASE UNCHANGED <<mailbox, pending>>
      BY <3>1
    <3>2. CASE \E m \in batch[p] : /\ mailbox' = [mailbox EXCEPT ![p] = @ \ {m}]
                                 /\ Seen(p, m)
                                 /\ UNCHANGED pending
      BY <2>2, <2>4, <3>2 DEF Seen, CacheExact
    <3>3. CASE \E m \in batch[p] : /\ mailbox' = [mailbox EXCEPT ![p] = @ \ {m}]
                                 /\ pending' = [pending EXCEPT ![p] = {m}]
      BY <2>4, <3>3
    <3> QED
      BY <1>9, <2>2, <3>1, <3>2, <3>3 DEF DeleteMessage
  <2>6. \A a \in Party : \A b \in Peers(a) : \A r \in 1 .. taken[a] : Safe(a, b, r)
    BY <2>2 DEF NothingLost, Safe
  <2> QED
    BY <2>3, <2>5, <2>6 DEF Safe, Peers
<1>10. ASSUME NEW p \in Party, ApplyMessage(p)
      PROVE  NothingLost'
  <2>1. SUFFICES ASSUME ~ lossy'
                 PROVE  \A a \in Party : \A b \in Peers(a) : \A r \in 1 .. taken'[a] :
                          Safe(a, b, r)'
    BY DEF NothingLost, Safe
  <2>2. /\ ~ lossy
        /\ ~ Fault("input")
    BY <1>10, <2>1, FaultEffect DEF ApplyMessage, Fault, LossyFaults
  <2>3. UNCHANGED <<opc, sentTo, taken, mailbox>>
    BY <1>10 DEF ApplyMessage
  <2>4. \A b \in Party : pending[b] \cup received[b] \subseteq pending'[b] \cup received'[b]
    BY <1>10, <2>2 DEF ApplyMessage
  <2>5. \A a \in Party : \A b \in Peers(a) : \A r \in 1 .. taken[a] : Safe(a, b, r)
    BY <2>2 DEF NothingLost, Safe
  <2> QED
    BY <2>3, <2>4, <2>5 DEF Safe, Peers
<1>11. ASSUME NEW p \in Party, FinishSession(p)
      PROVE  NothingLost'
  <2>1. UNCHANGED <<opc, sentTo, taken, mailbox, pending, received>>
    BY <1>11 DEF FinishSession
  <2>2. ~ lossy' => ~ lossy
    BY <1>11, FaultEffect DEF FinishSession
  <2> QED
    BY <2>1, <2>2
<1>12. ASSUME NEW p \in Party, PublishFinished(p)
      PROVE  NothingLost'
  <2>1. UNCHANGED <<opc, sentTo, taken, mailbox, pending, received>>
    BY <1>12 DEF PublishFinished
  <2>2. ~ lossy' => ~ lossy
    BY <1>12 DEF PublishFinished
  <2> QED
    BY <2>1, <2>2
<1>13. ASSUME NEW p \in Party, HandleResult(p)
      PROVE  NothingLost'
  <2>1. UNCHANGED <<opc, sentTo, taken, mailbox, pending, received>>
    BY <1>13 DEF HandleResult
  <2>2. ~ lossy' => ~ lossy
    BY <1>13, FaultEffect DEF HandleResult
  <2> QED
    BY <2>1, <2>2
<1>14. ASSUME NEW p \in Party, Leave(p)
      PROVE  NothingLost'
  <2>1. UNCHANGED <<opc, sentTo, taken, mailbox, pending, received>>
    BY <1>14 DEF Leave
  <2>2. ~ lossy' => ~ lossy
    BY <1>14 DEF Leave
  <2> QED
    BY <2>1, <2>2
<1>15. ASSUME NEW p \in Party, Redeliver(p)
      PROVE  NothingLost'
  <2>1. UNCHANGED <<opc, sentTo, taken, pending, received>>
    BY <1>15 DEF Redeliver
  <2>2. ~ lossy' => ~ lossy
    BY <1>15, FaultEffect DEF Redeliver
  <2>3. \A q \in Party : mailbox[q] \subseteq mailbox'[q]
    BY <1>15 DEF Redeliver
  <2> QED
    BY <2>1, <2>2, <2>3 DEF Peers
<1>16. ASSUME NEW p \in Party, Crash(p)
      PROVE  NothingLost'
  <2>1. lossy'
    BY <1>16 DEF Crash, Fault, LossyFaults
  <2> QED
    BY <2>1
<1>17. ASSUME NEW p \in Party, LoseReceivers(p)
      PROVE  NothingLost'
  <2>1. lossy'
    BY <1>17 DEF LoseReceivers, Fault, LossyFaults
  <2> QED
    BY <2>1 DEF NothingLost
<1> QED
  BY <1>1, <1>2, <1>3, <1>4, <1>5, <1>6, <1>7, <1>8, <1>9,
     <1>10, <1>11, <1>12, <1>13, <1>14, <1>15, <1>16, <1>17
  DEF ExchangeNext, OutboundStep, InboundStep

-----------------------------------------------------------------------------
(* The initial states satisfy every part of the invariant.                   *)
LEMMA InitInv == ExchangeInit => ExchangeInv /\ NothingLost
<1> SUFFICES ASSUME ExchangeInit PROVE ExchangeInv /\ NothingLost
  OBVIOUS
<1>1. ExchangeTypeOK
  <2>1. 0 \in 0 .. (Rounds + 1) /\ 0 \in 0 .. Rounds /\ 0 \in 0 .. MinuteTicks /\ 0 \in 0 .. PollTicks
        /\ 0 \in 0 .. MaxFaults
    BY ExchangeAssumption
  <2>2. /\ mailbox \in [Party -> SUBSET Message] /\ received \in [Party -> SUBSET Message]
        /\ batch \in [Party -> SUBSET Message] /\ pending \in [Party -> SUBSET Message]
        /\ cache \in [Party -> SUBSET Message] /\ sentTo \in [Party -> SUBSET Party]
    BY DEF ExchangeInit
  <2> QED
    BY <2>1, <2>2, Zenon DEF ExchangeInit, ExchangeTypeOK, InboundPc, OutboundPc, Results
<1>2. LoopsAgree /\ OneInHand /\ CacheCovers /\ CacheExact
  BY DEF ExchangeInit, LoopsAgree, Finishing, OneInHand, CacheCovers, CacheExact
<1>3. AppliedAtMostOnce /\ NoUseAfterFree /\ NotBeforeMade /\ NothingLost
  BY DEF ExchangeInit, AppliedAtMostOnce, NoUseAfterFree, NotBeforeMade, NothingLost
<1>4. NothingSkipped
  BY DEF ExchangeInit, NothingSkipped
<1> QED
  BY <1>1, <1>2, <1>3, <1>4 DEF ExchangeInv

LEMMA StepInv ==
  ASSUME ExchangeInv, [ExchangeNext]_exchangeVars
  PROVE  ExchangeInv'
BY TypeStep, LoopsAgreeStep, OneInHandStep, CacheCoversStep, CacheExactStep,
   OnceStep, FreeStep, MadeStep, SkippedStep DEF ExchangeInv

(* The inductive invariant of the exchange: the two loops of a party agree,   *)
(* the hash cache is exactly what the library was given, and with these the   *)
(* properties of the module hold (keygen.go:137-277).                         *)
THEOREM ExchangeInvariant == ExchangeSpec => []ExchangeInv
<1>1. ExchangeInit => ExchangeInv
  BY InitInv
<1>2. ExchangeInv /\ [ExchangeNext]_exchangeVars => ExchangeInv'
  BY StepInv
<1> QED
  BY <1>1, <1>2, PTL DEF ExchangeSpec

(* Type correctness of the exchange, the failure count included.             *)
THEOREM ExchangeTypeCorrect == ExchangeSpec => []ExchangeTypeOK
<1>1. ExchangeInv => ExchangeTypeOK
  BY DEF ExchangeInv
<1> QED
  BY <1>1, ExchangeInvariant, PTL

(* Whatever the relay repeats, the library is given a message at most once    *)
(* (the md5 cache of keygen.go:217-245).                                      *)
THEOREM AtMostOnce == ExchangeSpec => []AppliedAtMostOnce
<1>1. ExchangeInv => AppliedAtMostOnce
  BY DEF ExchangeInv
<1> QED
  BY <1>1, ExchangeInvariant, PTL

(* What a step may do to the rounds: nothing, let a party join, or take one   *)
(* party on to a round whose predecessor every other party has entered.       *)
LEMMA RoundStep ==
  ASSUME ExchangeInv, [ExchangeNext]_exchangeVars
  PROVE  \/ UNCHANGED round
         \/ \E p \in Party : round[p] = 0 /\ round' = [round EXCEPT ![p] = 1]
         \/ \E p \in Party : \E r \in 2 .. (Rounds + 1) :
              /\ round[p] >= 1
              /\ round[p] < r
              /\ \A q \in Party \ {p} : round[q] >= r - 1
              /\ round' = [round EXCEPT ![p] = r]
<1>1. ExchangeTypeOK /\ NotBeforeMade /\ LoopsAgree
  BY DEF ExchangeInv
<1>2. ASSUME NEW p \in Party, ApplyMessage(p), ~ UNCHANGED round
      PROVE  \E r \in 2 .. (Rounds + 1) :
               /\ round[p] >= 1
               /\ round[p] < r
               /\ \A q \in Party \ {p} : round[q] >= r - 1
               /\ round' = [round EXCEPT ![p] = r]
  <2>1. PICK r \in 1 .. (Rounds + 1) :
               /\ EntersRound(p, received[p] \cup pending[p], r)
               /\ round' = [round EXCEPT ![p] = r]
    BY <1>2 DEF ApplyMessage
  <2>2. r >= round[p] /\ round[p] \in 1 .. (Rounds + 1)
    BY <1>1, <1>2, <2>1 DEF EntersRound, ApplyMessage, LoopsAgree, Finishing, ExchangeTypeOK
  <2>3. r # round[p]
    BY <1>1, <1>2, <2>1 DEF ExchangeTypeOK
  <2>4. r - 1 \in round[p] .. (r - 1) /\ r - 1 \in 1 .. Rounds
    BY <2>2, <2>3, ExchangeAssumption
  <2>5. \A q \in Peers(p) : Msg(q, r - 1) \in received[p] \cup pending[p]
    BY <2>1, <2>4 DEF EntersRound, RoundComplete
  <2>6. ASSUME NEW q \in Party \ {p}
        PROVE  round[q] >= r - 1
    <3>1. Msg(q, r - 1).from = q /\ Msg(q, r - 1).round = r - 1
      BY <2>4, MsgType
    <3>2. r - 1 <= taken[q]
      BY <1>1, <2>5, <3>1 DEF NotBeforeMade, Peers
    <3>3. taken[q] <= round[q] /\ taken[q] \in Nat /\ round[q] \in Nat
      BY <1>1, ExchangeAssumption DEF LoopsAgree, Finishing, ExchangeTypeOK
    <3> QED
      BY <2>4, <3>2, <3>3
  <2>7. r \in 2 .. (Rounds + 1) /\ round[p] >= 1 /\ round[p] < r
    BY <2>2, <2>3
  <2> QED
    BY <2>1, <2>6, <2>7
<1>3. ASSUME NEW p \in Party, StartLoops(p)
      PROVE  round[p] = 0 /\ round' = [round EXCEPT ![p] = 1]
  BY <1>1, <1>3 DEF StartLoops, LoopsAgree
<1>4. ASSUME NEW p \in Party, OutboundStep(p)
      PROVE  UNCHANGED round
  <2>1. CASE TakeOutput(p)
    BY <2>1 DEF TakeOutput
  <2>2. CASE CheckFinished(p)
    BY <2>2 DEF CheckFinished
  <2>3. CASE SendToReceiver(p) \/ LoseReceivers(p)
    BY <2>3 DEF SendToReceiver, LoseReceivers
  <2> QED
    BY <1>4, <2>1, <2>2, <2>3 DEF OutboundStep
<1>5. ASSUME NEW p \in Party, Tick(p) \/ Poll(p) \/ Timeout(p) \/ DeleteMessage(p)
      PROVE  UNCHANGED round
  BY <1>5 DEF Tick, Poll, Timeout, DeleteMessage
<1>6. ASSUME NEW p \in Party, FinishSession(p) \/ PublishFinished(p)
      PROVE  UNCHANGED round
  BY <1>6 DEF FinishSession, PublishFinished
<1>7. ASSUME NEW p \in Party,
             HandleResult(p) \/ Leave(p) \/ Redeliver(p) \/ Crash(p)
      PROVE  UNCHANGED round
  BY <1>7 DEF HandleResult, Leave, Redeliver, Crash
<1>8. UNCHANGED exchangeVars => UNCHANGED round
  BY DEF exchangeVars, sessionVars
<1> QED
  BY <1>2, <1>3, <1>4, <1>5, <1>6, <1>7, <1>8 DEF ExchangeNext, InboundStep

(* A session that has left the last round has the last message of every other *)
(* party, which that party has taken from its own session before.             *)
LEMMA LastRoundShared ==
  ASSUME ExchangeInv, NEW p \in Party, round[p] > Rounds
  PROVE  \A q \in Party : round[q] >= Rounds /\ (q # p => taken[q] >= Rounds)
<1>1. ExchangeTypeOK /\ NothingSkipped /\ NotBeforeMade /\ LoopsAgree
  BY DEF ExchangeInv
<1>2. Rounds \in 1 .. Rounds
  BY ExchangeAssumption
<1>3. ASSUME NEW q \in Peers(p)
      PROVE  Rounds <= taken[q] /\ taken[q] <= round[q]
  <2>1. Msg(q, Rounds) \in received[p]
    BY <1>1, <1>2, <1>3 DEF NothingSkipped, RoundComplete
  <2>2. Msg(q, Rounds).from = q /\ Msg(q, Rounds).round = Rounds
    BY <1>2, <1>3, MsgType DEF Peers
  <2>3. Rounds <= taken[q]
    BY <1>1, <2>1, <2>2 DEF NotBeforeMade
  <2> QED
    BY <1>1, <1>3, <2>3 DEF LoopsAgree, Peers
<1> QED
  BY <1>1, <1>3, ExchangeAssumption DEF ExchangeTypeOK, Peers

(* Whoever left with a message unsent is the only party that ever gets past   *)
(* the last round: any other would need the message (keygen.go:145-152).      *)
THEOREM LeaverIsAlone == ExchangeSpec => []EarlyLeaverAlone
<1>1. ASSUME ExchangeInv
      PROVE  EarlyLeaverAlone
  <2>1. SUFFICES ASSUME NEW p \in Party, LeftUnsent(p), NEW q \in Peers(p),
                        round[q] > Rounds
                 PROVE  FALSE
    BY <1>1, ExchangeAssumption
    DEF ExchangeInv, ExchangeTypeOK, LoopsAgree, Finishing, EarlyLeaverAlone, Peers
  <2>2. taken[p] >= Rounds
    BY <1>1, <2>1, LastRoundShared DEF Peers
  <2> QED
    BY <1>1, <2>1, <2>2, ExchangeAssumption
    DEF LeftUnsent, ExchangeInv, ExchangeTypeOK
<1> QED
  BY <1>1, ExchangeInvariant, PTL

(* The deferred free of a session runs when neither loop can use the handle   *)
(* any more (keygen.go:120-134).                                              *)
THEOREM FreedWhenUnused == ExchangeSpec => []NoUseAfterFree
<1>1. ExchangeInv => NoUseAfterFree
  BY DEF ExchangeInv
<1> QED
  BY <1>1, ExchangeInvariant, PTL

(* If the receiver loop may run over all peers, the exchange loses no         *)
(* message as long as no failure does: whatever was taken from a session is   *)
(* still to be sent, at the relay, in hand or accepted                        *)
(* (keygen.go:157-172, 212-249).                                              *)
THEOREM NoMessageLost ==
  ASSUME Cardinality(Party) - 1 <= ReceiverLimit
  PROVE  ExchangeSpec => []NothingLost
<1>1. ExchangeInit => NothingLost
  BY InitInv
<1>2. ExchangeInv /\ NothingLost /\ [ExchangeNext]_exchangeVars => NothingLost'
  BY LostStep DEF ExchangeInv
<1> QED
  BY <1>1, <1>2, ExchangeInvariant, PTL DEF ExchangeSpec

-----------------------------------------------------------------------------
(* The receivers a message gets to when the loop over them is cut short.     *)

(* Everything that is, or was, on its way to q's session.                    *)
EverAt(q) == mailbox[q] \cup batch[q] \cup pending[q] \cup received[q] \cup cache[q]

(* The peers p's message of the first round has got to.                      *)
Reached(p) == {q \in Peers(p) : Msg(p, 1) \in EverAt(q)}

ReachedInv ==
  \A p \in Party :
    /\ Cardinality(sentTo[p]) < ReceiverLimit
    /\ Cardinality(Reached(p)) <= ReceiverLimit
    /\ taken[p] = 0 => Reached(p) = {}
    /\ taken[p] = 1 /\ opc[p] = "send" => Reached(p) \subseteq sentTo[p]

(* Only SendToReceiver brings a message on its way.                          *)
LEMMA OnlySendMakes ==
  ASSUME ExchangeTypeOK, [ExchangeNext]_exchangeVars,
         ~ \E p \in Party : SendToReceiver(p)
  PROVE  \A q \in Party : EverAt(q)' \subseteq EverAt(q)
<1> USE DEF EverAt, ExchangeTypeOK
<1>1. CASE UNCHANGED exchangeVars
  BY <1>1
<1>2. ASSUME NEW p \in Party,
             \/ StartLoops(p) \/ TakeOutput(p) \/ CheckFinished(p) \/ LoseReceivers(p)
             \/ Tick(p) \/ Timeout(p) \/ PublishFinished(p) \/ HandleResult(p) \/ Leave(p)
      PROVE  UNCHANGED <<mailbox, batch, pending, received, cache>>
  <2>1. CASE StartLoops(p) \/ TakeOutput(p) \/ CheckFinished(p) \/ LoseReceivers(p)
    BY <2>1 DEF StartLoops, TakeOutput, CheckFinished, LoseReceivers
  <2>2. CASE Tick(p) \/ Timeout(p) \/ PublishFinished(p)
    BY <2>2 DEF Tick, Timeout, PublishFinished
  <2>3. CASE HandleResult(p) \/ Leave(p)
    BY <2>3 DEF HandleResult, Leave
  <2> QED
    BY <1>2, <2>1, <2>2, <2>3
<1>3. ASSUME NEW p \in Party, Poll(p)
      PROVE  \A q \in Party : EverAt(q)' \subseteq EverAt(q)
  BY <1>3 DEF Poll
<1>4. ASSUME NEW p \in Party, DeleteMessage(p)
      PROVE  \A q \in Party : EverAt(q)' \subseteq EverAt(q)
  <2>1. \A q \in Party :
          /\ mailbox'[q] \subseteq mailbox[q]
          /\ batch'[q] \subseteq batch[q]
          /\ pending'[q] \subseteq pending[q] \cup batch[q]
          /\ cache'[q] \subseteq cache[q] \cup batch[q]
    BY <1>4 DEF DeleteMessage
  <2>2. UNCHANGED received
    BY <1>4 DEF DeleteMessage
  <2> QED
    BY <2>1, <2>2
<1>5. ASSUME NEW p \in Party, ApplyMessage(p)
      PROVE  \A q \in Party : EverAt(q)' \subseteq EverAt(q)
  BY <1>5 DEF ApplyMessage
<1>6. ASSUME NEW p \in Party, FinishSession(p) \/ Redeliver(p) \/ Crash(p)
      PROVE  \A q \in Party : EverAt(q)' \subseteq EverAt(q)
  BY <1>6 DEF FinishSession, Redeliver, Crash
<1> QED
  BY <1>1, <1>2, <1>3, <1>4, <1>5, <1>6 DEF ExchangeNext, OutboundStep, InboundStep

(* What the other steps do to the message in hand.                           *)
LEMMA HandStep ==
  ASSUME ExchangeTypeOK, [ExchangeNext]_exchangeVars,
         ~ \E p \in Party : SendToReceiver(p)
  PROVE  \A p \in Party :
           /\ sentTo'[p] \in {sentTo[p], {}}
           /\ \/ /\ taken'[p] = taken[p]
                 /\ opc'[p] = "send" => opc[p] = "send" /\ sentTo'[p] = sentTo[p]
              \/ taken'[p] = taken[p] + 1
<1> USE DEF ExchangeTypeOK
<1>1. CASE UNCHANGED outboundVars
  BY <1>1
<1>2. ASSUME NEW p \in Party,
             \/ Tick(p) \/ Poll(p) \/ Timeout(p) \/ DeleteMessage(p) \/ ApplyMessage(p)
             \/ FinishSession(p) \/ PublishFinished(p) \/ HandleResult(p) \/ Leave(p)
             \/ Redeliver(p)
      PROVE  UNCHANGED outboundVars
  <2>1. CASE Tick(p) \/ Poll(p) \/ Timeout(p)
    BY <2>1 DEF Tick, Poll, Timeout
  <2>2. CASE DeleteMessage(p) \/ ApplyMessage(p)
    BY <2>2 DEF DeleteMessage, ApplyMessage
  <2>3. CASE FinishSession(p) \/ PublishFinished(p) \/ HandleResult(p)
    BY <2>3 DEF FinishSession, PublishFinished, HandleResult
  <2>4. CASE Leave(p) \/ Redeliver(p)
    BY <2>4 DEF Leave, Redeliver
  <2> QED
    BY <1>2, <2>1, <2>2, <2>3, <2>4
<1>3. ASSUME NEW p \in Party, StartLoops(p) \/ CheckFinished(p)
      PROVE  /\ UNCHANGED <<sentTo, taken>>
             /\ \A q \in Party : opc'[q] = "send" => opc[q] = "send"
  BY <1>3 DEF StartLoops, CheckFinished
<1>4. ASSUME NEW p \in Party, TakeOutput(p)
      PROVE  /\ UNCHANGED sentTo
             /\ \A q \in Party : \/ taken'[q] = taken[q] /\ (opc'[q] = "send" => opc[q] = "send")
                                \/ taken'[q] = taken[q] + 1
  BY <1>4 DEF TakeOutput
<1>5. ASSUME NEW p \in Party, LoseReceivers(p) \/ Crash(p)
      PROVE  /\ UNCHANGED taken
             /\ sentTo' = [sentTo EXCEPT ![p] = {}]
             /\ \A q \in Party : opc'[q] = "send" => q # p /\ opc[q] = "send"
  BY <1>5 DEF LoseReceivers, Crash
<1> QED
  BY <1>1, <1>2, <1>3, <1>4, <1>5 DEF ExchangeNext, OutboundStep, InboundStep

LEMMA ReachedStep ==
  ASSUME ExchangeInv, ReachedInv, [ExchangeNext]_exchangeVars
  PROVE  ReachedInv'
<1> USE ExchangeAssumption
<1>1. ExchangeTypeOK /\ OneInHand /\ LoopsAgree
      /\ ExchangeTypeOK' /\ OneInHand'
  BY StepInv DEF ExchangeInv
<1>2. \A p \in Party : IsFiniteSet(Peers(p))
  BY FS_RemoveElement DEF Peers
<1>3. \A p \in Party : \A S \in SUBSET Peers(p) :
        IsFiniteSet(S) /\ Cardinality(S) \in Nat
  BY <1>2, FS_Subset, FS_CardinalityType
<1>4. ASSUME NEW p \in Party, Reached(p)' \subseteq Reached(p)
      PROVE  Cardinality(Reached(p)') <= ReceiverLimit
  <2>1. Reached(p) \in SUBSET Peers(p) /\ Reached(p)' \in SUBSET Peers(p)
    BY <1>4 DEF Reached
  <2>2. Cardinality(Reached(p)') <= Cardinality(Reached(p))
    BY <1>3, <1>4, <2>1, FS_Subset
  <2>3. Cardinality(Reached(p)') \in Nat /\ Cardinality(Reached(p)) \in Nat
    BY <1>3, <2>1
  <2> QED
    BY <2>2, <2>3 DEF ReachedInv
<1>5. Cardinality({}) = 0
  BY FS_EmptySet
<1>6. CASE ~ \E p \in Party : SendToReceiver(p)
  <2>1. \A q \in Party : EverAt(q)' \subseteq EverAt(q)
    BY <1>1, <1>6, OnlySendMakes
  <2>2. \A p \in Party : Reached(p)' \subseteq Reached(p)
    BY <2>1 DEF Reached, Peers
  <2>3. \A p \in Party : sentTo'[p] \in {sentTo[p], {}}
    BY <1>1, <1>6, HandStep
  <2>4. \A p \in Party :
          \/ taken'[p] = taken[p] /\ (opc'[p] = "send" => opc[p] = "send" /\ sentTo'[p] = sentTo[p])
          \/ taken'[p] = taken[p] + 1
    BY <1>1, <1>6, HandStep
  <2>5. ASSUME NEW p \in Party
        PROVE  /\ Cardinality(sentTo'[p]) < ReceiverLimit
               /\ taken'[p] = 0 => Reached(p)' = {}
               /\ taken'[p] = 1 /\ opc'[p] = "send" => Reached(p)' \subseteq sentTo'[p]
    <3>1. taken[p] \in Nat
      BY <1>1 DEF ExchangeTypeOK
    <3>2. Cardinality(sentTo'[p]) < ReceiverLimit
      <4>1. CASE sentTo'[p] = sentTo[p]
        <5>1. Cardinality(sentTo[p]) < ReceiverLimit
          BY DEF ReachedInv
        <5> QED
          BY <4>1, <5>1
      <4>2. CASE sentTo'[p] = {}
        <5>1. Cardinality(sentTo'[p]) = 0
          BY <1>5, <4>2
        <5> QED
          BY <5>1 DEF ExchangeAssumption
      <4> QED
        BY <2>3, <4>1, <4>2
    <3>3. taken'[p] = 0 => Reached(p)' = {}
      BY <2>2, <2>4, <3>1 DEF ReachedInv
    <3>4. taken'[p] = 1 /\ opc'[p] = "send" => Reached(p)' \subseteq sentTo'[p]
      BY <2>2, <2>4, <3>1 DEF ReachedInv
    <3> QED
      BY <3>2, <3>3, <3>4
  <2> QED
    BY <1>4, <2>2, <2>5 DEF ReachedInv
<1>7. ASSUME NEW p \in Party, SendToReceiver(p)
      PROVE  ReachedInv'
  <2>1. PICK q \in Peers(p) \ sentTo[p] :
          /\ mailbox' = [mailbox EXCEPT ![q] = @ \cup {Msg(p, taken[p])}] \/ UNCHANGED mailbox
          /\ sentTo' = [sentTo EXCEPT ![p] = IF SendLoopOver(p, sentTo[p] \cup {q})
                                            THEN {} ELSE sentTo[p] \cup {q}]
          /\ opc' = [opc EXCEPT ![p] = IF SendLoopOver(p, sentTo[p] \cup {q})
                                      THEN "take" ELSE "send"]
    BY <1>7 DEF SendToReceiver
  <2>2. UNCHANGED <<batch, pending, received, cache, taken>> /\ opc[p] = "send"
    BY <1>7 DEF SendToReceiver
  <2> DEFINE served == sentTo[p] \cup {q}
  <2>3. taken[p] \in 1 .. Rounds /\ sentTo[p] \in SUBSET Peers(p)
    BY <1>1, <2>2 DEF OneInHand, ExchangeTypeOK
  <2>4. IsFiniteSet(sentTo[p]) /\ Cardinality(sentTo[p]) \in Nat
    BY <1>3, <2>3
  <2>5. Cardinality(served) = Cardinality(sentTo[p]) + 1 /\ IsFiniteSet(served)
    BY <2>1, <2>4, FS_AddElement
  <2>6. Cardinality(served) <= ReceiverLimit
    BY <2>4, <2>5 DEF ReachedInv
  <2>7. ASSUME NEW a \in Party, a # p \/ taken[p] # 1
        PROVE  Reached(a)' \subseteq Reached(a)
    <3>1. Msg(a, 1) # Msg(p, taken[p])
      BY <2>7 DEF Msg
    <3> QED
      BY <1>1, <2>1, <2>2, <3>1 DEF Reached, EverAt, Peers, ExchangeTypeOK
  <2>8. Cardinality(sentTo'[p]) < ReceiverLimit
    <3>1. CASE SendLoopOver(p, served)
      <4>1. sentTo'[p] = {}
        BY <1>1, <2>1, <3>1 DEF ExchangeTypeOK
      <4> QED
        BY <1>5, <4>1
    <3>2. CASE ~ SendLoopOver(p, served)
      <4>1. sentTo'[p] = served /\ Cardinality(served) # ReceiverLimit
        BY <1>1, <2>1, <3>2 DEF SendLoopOver, ExchangeTypeOK
      <4> QED
        BY <2>4, <2>5, <2>6, <4>1
    <3> QED
      BY <3>1, <3>2
  <2>9. CASE taken[p] # 1
    <3>1. \A a \in Party : Reached(a)' \subseteq Reached(a)
      BY <2>7, <2>9
    <3>3. \A a \in Party : a # p => sentTo'[a] = sentTo[a] /\ opc'[a] = opc[a]
      BY <1>1, <2>1 DEF ExchangeTypeOK
    <3> QED
      BY <1>4, <2>2, <2>3, <2>9, <2>8, <3>1, <3>3 DEF ReachedInv
  <2>10. CASE taken[p] = 1
    <3>1. Reached(p)' \subseteq Reached(p) \cup {q}
      BY <1>1, <2>1, <2>2 DEF Reached, EverAt, Peers, ExchangeTypeOK
    <3>2. Reached(p)' \subseteq served
      BY <2>2, <2>10, <3>1 DEF ReachedInv
    <3>3. Cardinality(Reached(p)') <= Cardinality(served)
      BY <2>5, <3>2, FS_Subset
    <3>4. Cardinality(Reached(p)') \in Nat
      BY <1>3 DEF Reached
    <3>5. Cardinality(Reached(p)') <= ReceiverLimit
      BY <2>4, <2>5, <2>6, <3>3, <3>4
    <3>6. opc'[p] = "send" => Reached(p)' \subseteq sentTo'[p]
      BY <1>1, <2>1, <3>2 DEF ExchangeTypeOK
    <3>7. \A a \in Party : a # p => /\ sentTo'[a] = sentTo[a] /\ opc'[a] = opc[a]
                                   /\ Reached(a)' \subseteq Reached(a)
      BY <1>1, <2>1, <2>7 DEF ExchangeTypeOK
    <3> QED
      BY <1>4, <2>2, <2>10, <2>8, <3>5, <3>6, <3>7 DEF ReachedInv
  <2> QED
    BY <2>9, <2>10
<1> QED
  BY <1>6, <1>7

(* If the loop over the receivers may serve fewer than all peers, whoever is  *)
(* not served by anybody in the first round never gets past it: some party    *)
(* can never obtain a result.  So it is in a reshare that two parties leave   *)
(* (reshare.go:145, 175).                                                     *)
THEOREM TooFewReceivers ==
  ASSUME ReceiverLimit < Cardinality(Party) - 1
  PROVE  ExchangeSpec => []SomebodyKeptBack
<1> USE ExchangeAssumption
<1>1. ExchangeInit => ReachedInv
  <2> SUFFICES ASSUME ExchangeInit, NEW p \in Party
               PROVE  /\ Cardinality(sentTo[p]) < ReceiverLimit
                      /\ Cardinality(Reached(p)) <= ReceiverLimit
                      /\ Reached(p) = {}
    BY DEF ReachedInv
  <2>1. Reached(p) = {} /\ sentTo[p] = {}
    BY DEF ExchangeInit, Reached, EverAt, Peers
  <2> QED
    BY <2>1, FS_EmptySet
<1>2. ExchangeInv /\ ReachedInv /\ [ExchangeNext]_exchangeVars => ReachedInv'
  BY ReachedStep
<1>3. ASSUME ExchangeInv, ReachedInv
      PROVE  SomebodyKeptBack
  <2>1. Cardinality(Party) \in Nat
    BY FS_CardinalityType
  <2>2. PICK p : p \in Party
    BY <2>1, FS_EmptySet
  <2>3. IsFiniteSet(Peers(p)) /\ Cardinality(Peers(p)) = Cardinality(Party) - 1
    BY FS_RemoveElement, <2>2 DEF Peers
  <2>4. PICK q \in Peers(p) : q \notin Reached(p)
    <3>1. SUFFICES ASSUME Reached(p) = Peers(p) PROVE FALSE
      BY DEF Reached
    <3>2. Cardinality(Peers(p)) <= ReceiverLimit
      BY <1>3, <2>2, <3>1 DEF ReachedInv
    <3> QED
      BY <2>1, <2>3, <3>2
  <2>5. Msg(p, 1) \notin received[q] /\ q \in Party /\ p \in Peers(q)
    BY <2>2, <2>4 DEF Reached, EverAt, Peers
  <2>6. round[q] <= 1
    <3>1. round[q] \in 0 .. (Rounds + 1) /\ Rounds \in Nat \ {0}
      BY <1>3, <2>5, ExchangeAssumption DEF ExchangeInv, ExchangeTypeOK
    <3>2. ~ RoundComplete(q, received[q], 1)
      BY <2>5, Zenon DEF RoundComplete
    <3>3. ~ (round[q] > 1)
      <4>1. 1 \in 1 .. Rounds
        BY <3>1
      <4> QED
        BY <1>3, <2>5, <3>2, <4>1, Zenon DEF ExchangeInv, NothingSkipped
    <3> QED
      BY <3>1, <3>3
  <2> QED
    BY <2>5, <2>6 DEF SomebodyKeptBack
<1> QED
  BY <1>1, <1>2, <1>3, ExchangeInvariant, PTL DEF ExchangeSpec

-----------------------------------------------------------------------------
(* The end of the loops.                                                     *)

(* Only the one-minute case and a finished session raise the flag, and the    *)
(* outbound goroutine stops only when it is up.                              *)
StoppedByFlag == \A p \in Party : opc[p] = "done" => isKeygenFinished[p]

LEMMA StoppedStep ==
  ASSUME ExchangeTypeOK, StoppedByFlag, [ExchangeNext]_exchangeVars
  PROVE  /\ StoppedByFlag'
         /\ \A p \in Party :
              ipc[p] = "done" /\ ~ isKeygenFinished[p] =>
                ipc'[p] \in {"done", "crashed"} /\ ~ isKeygenFinished'[p]
<1> DEFINE Waits == \A p \in Party :
                      ipc[p] = "done" /\ ~ isKeygenFinished[p] =>
                        ipc'[p] \in {"done", "crashed"} /\ ~ isKeygenFinished'[p]
<1> USE DEF ExchangeTypeOK, StoppedByFlag
<1>1. CASE UNCHANGED exchangeVars
  BY <1>1
<1>2. ASSUME NEW p \in Party, StartLoops(p)
      PROVE  StoppedByFlag' /\ Waits
  <2>1. opc' = [opc EXCEPT ![p] = "take"] /\ ipc' = [ipc EXCEPT ![p] = "select"]
        /\ ipc[p] = "idle" /\ UNCHANGED isKeygenFinished
    BY <1>2 DEF StartLoops
  <2> QED
    BY <2>1
<1>3. ASSUME NEW p \in Party, TakeOutput(p)
      PROVE  StoppedByFlag' /\ Waits
  <2>1. /\ opc' = [opc EXCEPT ![p] = "send"] \/ opc' = [opc EXCEPT ![p] = "check"]
        /\ UNCHANGED <<ipc, isKeygenFinished>>
    BY <1>3 DEF TakeOutput
  <2> QED
    BY <2>1
<1>4. ASSUME NEW p \in Party, CheckFinished(p)
      PROVE  StoppedByFlag' /\ Waits
  <2>1. /\ \/ opc' = [opc EXCEPT ![p] = "take"]
           \/ isKeygenFinished[p] /\ opc' = [opc EXCEPT ![p] = "done"]
        /\ UNCHANGED <<ipc, isKeygenFinished>>
    BY <1>4 DEF CheckFinished, MayStop
  <2> QED
    BY <2>1
<1>5. ASSUME NEW p \in Party, SendToReceiver(p) \/ LoseReceivers(p)
      PROVE  StoppedByFlag' /\ Waits
  <2>1. /\ opc' = [opc EXCEPT ![p] = "take"] \/ opc' = [opc EXCEPT ![p] = "send"]
        /\ UNCHANGED <<ipc, isKeygenFinished>>
    BY <1>5 DEF SendToReceiver, LoseReceivers
  <2> QED
    BY <2>1
<1>6. ASSUME NEW p \in Party, Timeout(p) \/ PublishFinished(p)
      PROVE  StoppedByFlag' /\ Waits
  <2>1. /\ ipc[p] \in {"select", "publish"}
        /\ isKeygenFinished' = [isKeygenFinished EXCEPT ![p] = TRUE]
        /\ ipc' = [ipc EXCEPT ![p] = "done"] \/ ipc' = [ipc EXCEPT ![p] = "save"]
        /\ UNCHANGED opc
    BY <1>6 DEF Timeout, PublishFinished, StoreFinished
  <2> QED
    BY <2>1
<1>7. ASSUME NEW p \in Party,
             \/ Tick(p) \/ Poll(p) \/ DeleteMessage(p) \/ ApplyMessage(p)
             \/ FinishSession(p) \/ HandleResult(p) \/ Redeliver(p)
      PROVE  StoppedByFlag' /\ Waits
  <2>1. /\ ipc[p] # "done"
        /\ UNCHANGED ipc \/ \E pc \in InboundPc : ipc' = [ipc EXCEPT ![p] = pc]
        /\ UNCHANGED <<opc, isKeygenFinished>>
    <3>1. CASE Tick(p) \/ Poll(p) \/ Redeliver(p)
      BY <3>1 DEF Tick, Poll, Redeliver, InboundPc
    <3>2. CASE DeleteMessage(p)
      BY <3>2 DEF DeleteMessage, AfterBatch, InboundPc
    <3>3. CASE ApplyMessage(p)
      BY <3>3 DEF ApplyMessage, AfterBatch, InboundPc
    <3>4. CASE FinishSession(p) \/ HandleResult(p)
      BY <3>4 DEF FinishSession, HandleResult, InboundPc
    <3> QED
      BY <1>7, <3>1, <3>2, <3>3, <3>4
  <2> QED
    BY <2>1
<1>8. ASSUME NEW p \in Party, Leave(p)
      PROVE  StoppedByFlag' /\ Waits
  <2>1. /\ opc[p] = "done" /\ ipc' = [ipc EXCEPT ![p] = "returned"]
        /\ UNCHANGED <<opc, isKeygenFinished>>
    BY <1>8 DEF Leave
  <2> QED
    BY <2>1
<1>9. ASSUME NEW p \in Party, Crash(p)
      PROVE  StoppedByFlag' /\ Waits
  <2>1. /\ ipc' = [ipc EXCEPT ![p] = "crashed"] /\ opc' = [opc EXCEPT ![p] = "crashed"]
        /\ UNCHANGED isKeygenFinished
    BY <1>9 DEF Crash
  <2> QED
    BY <2>1
<1> QED
  BY <1>1, <1>2, <1>3, <1>4, <1>5, <1>6, <1>7, <1>8, <1>9
  DEF ExchangeNext, OutboundStep, InboundStep

(* An inbound loop that returns an error with the flag still down is the end  *)
(* of its operation, which neither returns nor frees its session, in every    *)
(* ceremony of any size (keygen.go:133, 149-153, 255, 260, 266).              *)
THEOREM ErrorIsNeverReturned == ExchangeSpec => ErrorKeepsWaiting
<1>1. ExchangeInit => StoppedByFlag
  BY DEF ExchangeInit, StoppedByFlag
<1>2. ExchangeInv /\ StoppedByFlag /\ [ExchangeNext]_exchangeVars
        => /\ StoppedByFlag'
           /\ [\A p \in Party :
                 ipc[p] = "done" /\ ~ isKeygenFinished[p] =>
                   ipc'[p] \in {"done", "crashed"} /\ ~ isKeygenFinished'[p]]_exchangeVars
  BY StoppedStep DEF ExchangeInv
<1> QED
  BY <1>1, <1>2, ExchangeInvariant, PTL DEF ExchangeSpec, ErrorKeepsWaiting

(* Unless a process stalls, its minute has run no longer than its 100 ms      *)
(* timer: both are made by the same pass.  So no loop has timed out.         *)
MinuteYoung ==
  "stall" \notin Faults =>
    \A p \in Party : minute[p] <= timer[p] /\ result[p] # "timeout"

LEMMA MinuteStep ==
  ASSUME ExchangeTypeOK, MinuteYoung, [ExchangeNext]_exchangeVars
  PROVE  MinuteYoung'
<1> SUFFICES ASSUME "stall" \notin Faults
             PROVE  \A p \in Party : minute'[p] <= timer'[p] /\ result'[p] # "timeout"
  BY DEF MinuteYoung
<1>0. /\ timer \in [Party -> 0 .. PollTicks] /\ minute \in [Party -> 0 .. MinuteTicks]
      /\ result \in [Party -> Results]
      /\ \A p \in Party : minute[p] <= timer[p] /\ result[p] # "timeout"
      /\ PollTicks \in Nat /\ MinuteTicks \in Nat /\ PollTicks < MinuteTicks
  BY ExchangeAssumption DEF ExchangeTypeOK, MinuteYoung
<1>1. ASSUME NEW p \in Party, Tick(p)
      PROVE  \A q \in Party : minute'[q] <= timer'[q] /\ result'[q] # "timeout"
  <2>1. /\ timer' = [timer EXCEPT ![p] = @ + 1]
        /\ minute' = [minute EXCEPT ![p] = IF @ < MinuteTicks THEN @ + 1 ELSE @]
        /\ UNCHANGED result
    BY <1>1 DEF Tick, Fault
  <2> QED
    BY <1>0, <2>1
<1>2. ASSUME NEW p \in Party, Poll(p) \/ Crash(p)
      PROVE  \A q \in Party : minute'[q] <= timer'[q] /\ result'[q] # "timeout"
  <2>1. /\ timer' = [timer EXCEPT ![p] = 0]
        /\ minute' = [minute EXCEPT ![p] = 0]
        /\ UNCHANGED result
    BY <1>2 DEF Poll, MinuteRearmed, Crash
  <2> QED
    BY <1>0, <2>1
<1>3. ASSUME NEW p \in Party, Timeout(p)
      PROVE  FALSE
  <2>1. minute[p] >= MinuteTicks
    BY <1>3 DEF Timeout
  <2> QED
    BY <1>0, <2>1
<1>4. ASSUME NEW p \in Party, FinishSession(p) \/ HandleResult(p)
      PROVE  \A q \in Party : minute'[q] <= timer'[q] /\ result'[q] # "timeout"
  <2>1. /\ UNCHANGED <<timer, minute>>
        /\ UNCHANGED result \/ \E res \in {"ok", "failed"} : result' = [result EXCEPT ![p] = res]
    BY <1>4 DEF FinishSession, HandleResult
  <2> QED
    BY <1>0, <2>1
<1>5. ASSUME UNCHANGED <<timer, minute, result>>
      PROVE  \A q \in Party : minute'[q] <= timer'[q] /\ result'[q] # "timeout"
  BY <1>0, <1>5
<1>6. ASSUME NEW p \in Party, OutboundStep(p)
      PROVE  UNCHANGED <<timer, minute, result>>
  <2>1. CASE TakeOutput(p) \/ CheckFinished(p)
    BY <2>1 DEF TakeOutput, CheckFinished
  <2>2. CASE SendToReceiver(p) \/ LoseReceivers(p)
    BY <2>2 DEF SendToReceiver, LoseReceivers
  <2> QED
    BY <1>6, <2>1, <2>2 DEF OutboundStep
<1>7. ASSUME NEW p \in Party,
             StartLoops(p) \/ DeleteMessage(p) \/ PublishFinished(p)
      PROVE  UNCHANGED <<timer, minute, result>>
  BY <1>7 DEF StartLoops, DeleteMessage, PublishFinished
<1>8. ASSUME NEW p \in Party, ApplyMessage(p) \/ Leave(p) \/ Redeliver(p)
      PROVE  UNCHANGED <<timer, minute, result>>
  BY <1>8 DEF ApplyMessage, Leave, Redeliver
<1>9. UNCHANGED exchangeVars => UNCHANGED <<timer, minute, result>>
  OBVIOUS
<1> QED
  BY <1>1, <1>2, <1>3, <1>4, <1>5, <1>6, <1>7, <1>8, <1>9 DEF ExchangeNext, InboundStep

(* The one-minute case of the select is never taken by a process that does    *)
(* not stall for the rest of the minute: the timer of that case is made anew  *)
(* by every pass, so that nobody ever gives up waiting, whatever messages are *)
(* missing and whatever else fails (keygen.go:184-189).                       *)
THEOREM MinuteNeverPasses == ExchangeSpec => []TimeoutNeedsStall
<1>1. ExchangeInit => MinuteYoung
  BY DEF ExchangeInit, MinuteYoung
<1>2. ExchangeInv /\ MinuteYoung /\ [ExchangeNext]_exchangeVars => MinuteYoung'
  BY MinuteStep DEF ExchangeInv
<1>3. MinuteYoung => TimeoutNeedsStall
  BY DEF MinuteYoung, TimeoutNeedsStall
<1> QED
  BY <1>1, <1>2, <1>3, ExchangeInvariant, PTL DEF ExchangeSpec

-----------------------------------------------------------------------------
(* Coming to rest.                                                           *)

(* A step that neither starts a party nor applies a message leaves the        *)
(* sessions where they are.                                                  *)
LEMMA OthersApplyNothing ==
  ASSUME ExchangeTypeOK, [ExchangeNext]_exchangeVars,
         \A p \in Party : ~ StartLoops(p) /\ ~ ApplyMessage(p)
  PROVE  /\ UNCHANGED <<round, received>>
         /\ \A p \in Party : (ipc'[p] = "idle") <=> (ipc[p] = "idle")
<1> DEFINE Left == /\ UNCHANGED <<round, received>>
                   /\ \A p \in Party : (ipc'[p] = "idle") <=> (ipc[p] = "idle")
<1> USE DEF ExchangeTypeOK
<1>1. CASE UNCHANGED exchangeVars
  BY <1>1
<1>2. ASSUME NEW p \in Party, OutboundStep(p)
      PROVE  UNCHANGED <<round, received, ipc>>
  <2>1. CASE TakeOutput(p) \/ CheckFinished(p)
    BY <2>1 DEF TakeOutput, CheckFinished
  <2>2. CASE SendToReceiver(p) \/ LoseReceivers(p)
    BY <2>2 DEF SendToReceiver, LoseReceivers
  <2> QED
    BY <1>2, <2>1, <2>2 DEF OutboundStep
<1>3. ASSUME NEW p \in Party,
             \/ Tick(p) \/ Poll(p) \/ Timeout(p) \/ DeleteMessage(p) \/ FinishSession(p)
             \/ PublishFinished(p) \/ HandleResult(p) \/ Leave(p) \/ Crash(p)
      PROVE  Left
  <2>1. /\ ipc[p] # "idle"
        /\ UNCHANGED ipc \/ \E pc \in InboundPc \ {"idle"} : ipc' = [ipc EXCEPT ![p] = pc]
        /\ UNCHANGED <<round, received>>
    <3>1. CASE Tick(p) \/ Poll(p) \/ Timeout(p)
      BY <3>1 DEF Tick, Poll, Timeout, InboundPc
    <3>2. CASE DeleteMessage(p)
      BY <3>2 DEF DeleteMessage, AfterBatch, InboundPc
    <3>3. CASE FinishSession(p) \/ PublishFinished(p)
      BY <3>3 DEF FinishSession, PublishFinished, InboundPc
    <3>4. CASE HandleResult(p) \/ Leave(p) \/ Crash(p)
      BY <3>4 DEF HandleResult, Leave, Crash, InboundPc
    <3> QED
      BY <1>3, <3>1, <3>2, <3>3, <3>4
  <2> QED
    BY <2>1
<1>4. ASSUME NEW p \in Party, Redeliver(p)
      PROVE  UNCHANGED <<round, received, ipc>>
  BY <1>4 DEF Redeliver
<1> QED
  BY <1>1, <1>2, <1>3, <1>4 DEF ExchangeNext, InboundStep

LEMMA HeldUpStep ==
  ASSUME ExchangeInv, NothingHeldUp, \A p \in Party : Peers(p) # {},
         [ExchangeNext]_exchangeVars
  PROVE  NothingHeldUp'
<1>1. ExchangeTypeOK /\ LoopsAgree
  BY DEF ExchangeInv
<1> USE DEF NothingHeldUp
<1>2. ASSUME NEW p \in Party, StartLoops(p)
      PROVE  NothingHeldUp'
  <2>1. /\ received[p] = {} /\ round' = [round EXCEPT ![p] = 1]
        /\ ipc' = [ipc EXCEPT ![p] = "select"] /\ UNCHANGED received
    BY <1>2 DEF StartLoops
  <2>2. ~ RoundComplete(p, {}, 1)
    BY DEF RoundComplete
  <2> QED
    BY <1>1, <2>1, <2>2 DEF ExchangeTypeOK, RoundComplete
<1>3. ASSUME NEW p \in Party, ApplyMessage(p)
      PROVE  NothingHeldUp'
  <2>1. CASE UNCHANGED <<received, round>>
    <3>1. ipc[p] # "idle" /\ ipc'[p] # "idle" /\ \A q \in Party \ {p} : ipc'[q] = ipc[q]
      BY <1>1, <1>3 DEF ApplyMessage, AfterBatch, ExchangeTypeOK
    <3> QED
      BY <2>1, <3>1 DEF RoundComplete
  <2>2. ASSUME NEW r \in 1 .. (Rounds + 1),
               EntersRound(p, received[p] \cup pending[p], r),
               received' = [received EXCEPT ![p] = received[p] \cup pending[p]],
               round' = [round EXCEPT ![p] = r]
        PROVE  NothingHeldUp'
    <3>1. ipc[p] # "idle" /\ ipc'[p] # "idle" /\ \A q \in Party \ {p} : ipc'[q] = ipc[q]
      BY <1>1, <1>3 DEF ApplyMessage, AfterBatch, ExchangeTypeOK
    <3>2. /\ received'[p] = received[p] \cup pending[p] /\ round'[p] = r
          /\ \A q \in Party \ {p} : received'[q] = received[q] /\ round'[q] = round[q]
      BY <1>1, <2>2 DEF ExchangeTypeOK
    <3>3. r <= Rounds => ~ RoundComplete(p, received[p] \cup pending[p], r)
      BY <2>2 DEF EntersRound
    <3> QED
      BY <3>1, <3>2, <3>3 DEF RoundComplete
  <2> QED
    BY <1>3, <2>1, <2>2 DEF ApplyMessage
<1>4. CASE \A p \in Party : ~ StartLoops(p) /\ ~ ApplyMessage(p)
  <2>1. /\ UNCHANGED <<round, received>>
        /\ \A p \in Party : (ipc'[p] = "idle") <=> (ipc[p] = "idle")
    BY <1>1, <1>4, OthersApplyNothing
  <2> QED
    BY <2>1 DEF RoundComplete
<1> QED
  BY <1>2, <1>3, <1>4

(* A set of natural numbers has a least one.                                 *)
LEMMA LeastOf ==
  ASSUME NEW T \in SUBSET Nat, T # {}
  PROVE  \E x \in T : \A y \in T : x <= y
<1> DEFINE R == {ss \in Nat \X Nat : ss[1] < ss[2]}
<1>1. IsWellFoundedOn(R, Nat)
  BY NatLessThanWellFounded DEF OpToRel
<1> HIDE DEF R
<1>2. PICK x \in T : \A y \in T : ~ (<<y, x>> \in R)
  BY <1>1, WFMin
<1>3. ASSUME NEW y \in T
      PROVE  x <= y
  <2>1. ~ (<<y, x>> \in R)
    BY <1>2, <1>3
  <2>2. x \in Nat /\ y \in Nat
    BY <1>2, <1>3
  <2>3. ~ (y < x)
    BY <2>1, <2>2 DEF R
  <2> QED
    BY <2>2, <2>3
<1> QED
  BY <1>3

(* Without a failure that loses a message an exchange of any size comes to    *)
(* rest only when every session has left its last round: what hangs, hangs    *)
(* behind a message left unsent (keygen.go:137-249).                          *)
THEOREM RestIsTheEnd ==
  ASSUME Cardinality(Party) - 1 <= ReceiverLimit, \A p \in Party : Peers(p) # {}
  PROVE  ExchangeSpec => []RestMeansFinished
<1>1. ExchangeInit => NothingHeldUp
  BY DEF ExchangeInit, NothingHeldUp
<1>2. ExchangeInv /\ NothingHeldUp /\ [ExchangeNext]_exchangeVars => NothingHeldUp'
  BY HeldUpStep
<1>3. ASSUME ExchangeInv, NothingHeldUp, NothingLost
      PROVE  RestMeansFinished
  <2> SUFFICES ASSUME ~ lossy, \A p \in Party : AtRest(p), NEW q \in Party
               PROVE  round[q] > Rounds
    BY DEF RestMeansFinished
  <2>1. ExchangeTypeOK /\ LoopsAgree
    BY <1>3 DEF ExchangeInv
  <2> DEFINE T == {round[p] : p \in Party}
  <2>2. T \in SUBSET Nat /\ T # {}
    BY <2>1 DEF ExchangeTypeOK
  <2>3. \E x \in T : \A y \in T : x <= y
    <3> HIDE DEF T
    <3> QED
      BY <2>2, LeastOf
  <2>4. PICK p \in Party : \A o \in Party : round[p] <= round[o]
    BY <2>3
  <2>5. CASE round[p] <= Rounds
    <3> DEFINE r == round[p]
    <3>1. r \in 1 .. Rounds
      BY <2>1, <2>5 DEF ExchangeTypeOK, LoopsAgree, AtRest
    <3>2. ASSUME NEW o \in Peers(p)
          PROVE  Msg(o, r) \in received[p]
      <4>1. o \in Party /\ p \in Peers(o)
        BY DEF Peers
      <4>2. r \in 1 .. taken[o]
        BY <2>1, <2>4, <3>1, <4>1, ExchangeAssumption DEF AtRest, Produced, ExchangeTypeOK
      <4>3. opc[o] # "send" /\ mailbox[p] = {} /\ pending[p] = {}
        BY <4>1 DEF AtRest
      <4>4. Msg(o, r) \in mailbox[p] \cup pending[p] \cup received[p]
        BY <1>3, <4>1, <4>2, <4>3 DEF NothingLost
      <4> QED
        BY <4>3, <4>4
    <3>3. RoundComplete(p, received[p], r)
      BY <3>2 DEF RoundComplete
    <3>4. ipc[p] # "idle"
      BY DEF AtRest
    <3> QED
      BY <1>3, <2>5, <3>3, <3>4 DEF NothingHeldUp
  <2> QED
    BY <2>1, <2>4, <2>5, ExchangeAssumption DEF ExchangeTypeOK
<1> QED
  BY <1>1, <1>2, <1>3, ExchangeInvariant, NoMessageLost, PTL DEF ExchangeSpec

=============================================================================
