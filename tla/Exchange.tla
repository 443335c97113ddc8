------------------------------ MODULE Exchange ------------------------------
(***************************************************************************)
(* The message exchange that keygen, migrate, reshare and keysign share:    *)
(* every party runs an outbound goroutine that moves messages from the MPC  *)
(* session to the relay, and an inbound loop that polls the relay, deletes, *)
(* deduplicates and applies messages until the session is finished.  The    *)
(* two meet in the session handle and in an atomic flag.  The module holds  *)
(* the state, the steps of the two loops and their failures; the operation  *)
(* modules (Keygen, ...) add what follows the last message.                 *)
(*                                                                          *)
(* The relay and the MPC library are outside the repository; they appear as *)
(* the code uses them.  A session of the library broadcasts one message per *)
(* round, buffers messages that come early, and is finished when it has the *)
(* messages of every other party for every round.                           *)
(***************************************************************************)
EXTENDS Naturals, FiniteSets

CONSTANTS
  Party,              \* the parties of the session
  Rounds,             \* rounds of messages of the MPC protocol
  Beneficiary,        \* the parties for which the session has a result
  ReceiverLimit,      \* len(parties) of the outbound loop
  FinishKeepsOutput,  \* a finished session still yields messages not yet taken
  PollTicks,          \* the 100 ms timer of the inbound select
  MinuteTicks,        \* the one-minute timer of the inbound select
  Faults,             \* the kinds of failure that may happen
  MaxFaults           \* bound: failures in one behaviour

(* The failures of the code's error paths and of its surroundings:          *)
(*   get         GET of the mailbox fails or is not 200                      *)
(*   delete      DELETE fails and the relay keeps the message                *)
(*   deleteLost  DELETE is carried out, its answer is lost or not 200        *)
(*   output      the library returns an error instead of a message           *)
(*   receiver    the library returns an error instead of a receiver          *)
(*   send        POST of a message fails and the message is not stored       *)
(*   redeliver   the relay hands out a message again after its DELETE        *)
(*   input       the library rejects a message                               *)
(*   finish      the library cannot finish or serialise the result           *)
(*   save        the key share file cannot be opened or written              *)
(*   stall       a process does not run for a whole minute                   *)
(*   crash       a process dies                                              *)
FaultKinds ==
  {"get", "delete", "deleteLost", "output", "receiver", "send", "redeliver",
   "input", "finish", "save", "stall", "crash"}

ASSUME ExchangeAssumption ==
  /\ IsFiniteSet(Party)
  /\ Beneficiary \subseteq Party
  /\ Rounds \in Nat \ {0}
  /\ ReceiverLimit \in Nat \ {0}
  /\ FinishKeepsOutput \in BOOLEAN
  /\ PollTicks \in Nat \ {0}
  /\ MinuteTicks \in Nat
  /\ PollTicks < MinuteTicks
  /\ Faults \subseteq FaultKinds
  /\ MaxFaults \in Nat

VARIABLES
  mailbox,           \* relay: mailbox[p] is the set of messages kept for p
  sess,              \* library: state of p's session handle
  round,             \* library: the round p's session is in
  received,          \* library: the messages p's session has accepted
  taken,             \* messages p's outbound goroutine has taken out
  ipc,               \* where p's inbound loop (the main goroutine) is
  timer,             \* ticks of the 100 ms timer since it was made
  minute,            \* ticks of the one-minute timer since it was made
  batch,             \* messages of p's last GET still to be looked at
  pending,           \* the message p has deleted and not yet applied
  cache,             \* hashes p has deleted successfully
  opc,               \* where p's outbound goroutine is
  sentTo,            \* receivers already served for the message in hand
  isKeygenFinished,  \* the atomic flag (isKeysignFinished in keysign)
  result,            \* what p's inbound loop returned
  faults,            \* failures so far
  lossy              \* history: one of them may have lost a message for good

relayVars == <<mailbox>>
sessionVars == <<sess, round, received>>
inboundVars == <<ipc, timer, minute, batch, pending, cache>>
outboundVars == <<opc, sentTo, taken>>
faultVars == <<faults, lossy>>
exchangeVars ==
  <<relayVars, sessionVars, inboundVars, outboundVars,
    isKeygenFinished, result, faultVars>>

Peers(p) == Party \ {p}

(* A message: the body of a round is the same for every receiver, so sender *)
(* and round identify it, and so does the md5 hash of the body.             *)
Message == [from : Party, round : 1 .. Rounds]
Msg(p, r) == [from |-> p, round |-> r]

InboundPc ==
  {"idle", "select", "batch", "apply", "finish", "publish",
   "save", "write", "close", "done", "returned", "crashed"}
Results == {"none", "ok", "timeout", "failed"}
OutboundPc == {"idle", "take", "check", "send", "done", "crashed"}

(* Failures after which nobody can recover a message.                       *)
LossyFaults == {"deleteLost", "receiver", "send", "input", "crash"}

Fault(kind) ==
  /\ kind \in Faults
  /\ faults < MaxFaults
  /\ faults' = faults + 1
  /\ lossy' = (lossy \/ kind \in LossyFaults)

NoFault == UNCHANGED faultVars

ExchangeInit ==
  /\ mailbox = [p \in Party |-> {}]
  /\ sess = [p \in Party |-> "none"]
  /\ round = [p \in Party |-> 0]
  /\ received = [p \in Party |-> {}]
  /\ taken = [p \in Party |-> 0]
  /\ ipc = [p \in Party |-> "idle"]
  /\ timer = [p \in Party |-> 0]
  /\ minute = [p \in Party |-> 0]
  /\ batch = [p \in Party |-> {}]
  /\ pending = [p \in Party |-> {}]
  /\ cache = [p \in Party |-> {}]
  /\ opc = [p \in Party |-> "idle"]
  /\ sentTo = [p \in Party |-> {}]
  /\ isKeygenFinished = [p \in Party |-> FALSE]
  /\ result = [p \in Party |-> "none"]
  /\ faults = 0
  /\ lossy = FALSE

-----------------------------------------------------------------------------
(* The MPC library, as the loops use it.                                    *)

(* Messages a session has made so far: one for every round it has entered.  *)
Produced(p) == IF round[p] > Rounds THEN Rounds ELSE round[p]

(* OutputMessage returns a message rather than nothing or an error.         *)
HasOutputUnchecked(p) == sess[p] \in {"live", "finished"}
HasOutput(p) ==
  /\ taken[p] < Produced(p)
  /\ sess[p] = "live" \/ (sess[p] = "finished" /\ FinishKeepsOutput)

RoundComplete(p, msgs, r) == \A q \in Peers(p) : Msg(q, r) \in msgs

(* After InputMessage the session, now holding msgs, is in round r.         *)
EntersRound(p, msgs, r) ==
  /\ r \in round[p] .. (Rounds + 1)
  /\ \A k \in round[p] .. (r - 1) : RoundComplete(p, msgs, k)
  /\ r <= Rounds => ~ RoundComplete(p, msgs, r)

-----------------------------------------------------------------------------
(* Creation of the session and of the two loops.                            *)

StartLoops(p) ==
  /\ ipc[p] = "idle"
  /\ sess' = [sess EXCEPT ![p] = "live"]
  /\ round' = [round EXCEPT ![p] = 1]
  /\ ipc' = [ipc EXCEPT ![p] = "select"]
  /\ opc' = [opc EXCEPT ![p] = "take"]
  /\ UNCHANGED <<mailbox, received, taken, timer, minute, batch, pending, cache,
                 sentTo, isKeygenFinished, result, faultVars>>

-----------------------------------------------------------------------------
(* The outbound goroutine.                                                   *)

(* An error of OutputMessage is logged and then looks like no output.        *)
TakeOutput(p) ==
  /\ opc[p] = "take"
  /\ \/ /\ HasOutput(p)
        /\ taken' = [taken EXCEPT ![p] = @ + 1]
        /\ opc' = [opc EXCEPT ![p] = "send"]
        /\ NoFault
     \/ /\ (~ HasOutput(p) /\ NoFault) \/ Fault("output")
        /\ opc' = [opc EXCEPT ![p] = "check"]
        /\ UNCHANGED taken
  /\ UNCHANGED <<relayVars, sessionVars, inboundVars, sentTo,
                 isKeygenFinished, result>>

(* The outbound goroutine may stop once it has found nothing to send.       *)
MayStopAlways(p) == TRUE
MayStopNever(p) == FALSE
MayStop(p) == isKeygenFinished[p]

(* Reached with an empty output in hand: between the two reads the session  *)
(* may have got new output.                                                 *)
CheckFinished(p) ==
  /\ opc[p] = "check"
  /\ opc' = [opc EXCEPT ![p] = IF MayStop(p) THEN "done" ELSE "take"]
  /\ UNCHANGED <<relayVars, sessionVars, inboundVars, sentTo, taken,
                 isKeygenFinished, result, faultVars>>

(* The loop over receiver indices ends at the last receiver of the message  *)
(* or at len(parties), whichever comes first.                               *)
SendOnce(p, served) == TRUE
SendLoopShort(p, served) ==
  \/ served = Peers(p)
  \/ Cardinality(served) = ReceiverLimit - 1
SendLoopOver(p, served) ==
  \/ served = Peers(p)
  \/ Cardinality(served) = ReceiverLimit

SendToReceiver(p) ==
  /\ opc[p] = "send"
  /\ \E q \in Peers(p) \ sentTo[p] :
       LET served == sentTo[p] \cup {q}
           over == SendLoopOver(p, served)
       IN /\ \/ /\ mailbox' = [mailbox EXCEPT ![q] = @ \cup {Msg(p, taken[p])}]
                /\ NoFault
             \/ /\ Fault("send")
                /\ UNCHANGED mailbox
          /\ sentTo' = [sentTo EXCEPT ![p] = IF over THEN {} ELSE served]
          /\ opc' = [opc EXCEPT ![p] = IF over THEN "take" ELSE "send"]
  /\ UNCHANGED <<sessionVars, inboundVars, taken, isKeygenFinished, result>>

(* An error of MessageReceiver is logged and then looks like the end of the  *)
(* receivers: those not served yet never get the message in hand.            *)
LoseReceivers(p) ==
  /\ opc[p] = "send"
  /\ Fault("receiver")
  /\ sentTo' = [sentTo EXCEPT ![p] = {}]
  /\ opc' = [opc EXCEPT ![p] = "take"]
  /\ UNCHANGED <<relayVars, sessionVars, inboundVars, taken, isKeygenFinished, result>>

OutboundStep(p) ==
  \/ TakeOutput(p) \/ CheckFinished(p) \/ SendToReceiver(p) \/ LoseReceivers(p)

-----------------------------------------------------------------------------
(* The inbound loop.                                                         *)

(* Time passes while the goroutine waits in its select, for both timers.     *)
(* The goroutine runs as soon as the 100 ms timer has fired, unless its       *)
(* process stalls; the minute is counted no further once it has passed.      *)
Tick(p) ==
  /\ ipc[p] = "select"
  /\ \/ /\ timer[p] < PollTicks
        /\ timer' = [timer EXCEPT ![p] = @ + 1]
        /\ minute' = [minute EXCEPT ![p] = IF @ < MinuteTicks THEN @ + 1 ELSE @]
        /\ NoFault
     \/ /\ PollTicks <= timer[p]
        /\ minute[p] < MinuteTicks
        /\ minute' = [minute EXCEPT ![p] = MinuteTicks]
        /\ Fault("stall")
        /\ UNCHANGED timer
  /\ UNCHANGED <<relayVars, sessionVars, outboundVars, ipc, batch, pending, cache,
                 isKeygenFinished, result>>

(* The one-minute timer as the next pass through the select finds it: it is   *)
(* made inside the loop, so it is a new one.                                 *)
MinuteKept(p) == minute
MinuteRearmed(p) == [minute EXCEPT ![p] = 0]

Poll(p) ==
  /\ ipc[p] = "select"
  /\ timer[p] >= PollTicks
  /\ timer' = [timer EXCEPT ![p] = 0]
  /\ minute' = MinuteRearmed(p)
  /\ \/ LET msgs == {m \in mailbox[p] : m.from # p}
        IN /\ batch' = [batch EXCEPT ![p] = msgs]
           /\ ipc' = [ipc EXCEPT ![p] = IF msgs = {} THEN "select" ELSE "batch"]
           /\ NoFault
     \/ /\ Fault("get")
        /\ UNCHANGED <<batch, ipc>>
  /\ UNCHANGED <<relayVars, sessionVars, outboundVars, pending, cache,
                 isKeygenFinished, result>>

(* Publishing the end of the inbound loop to the outbound goroutine.        *)
StoreFinished(p) == isKeygenFinished' = [isKeygenFinished EXCEPT ![p] = TRUE]

Timeout(p) ==
  /\ ipc[p] = "select"
  /\ minute[p] >= MinuteTicks
  /\ StoreFinished(p)
  /\ ipc' = [ipc EXCEPT ![p] = "done"]
  /\ timer' = [timer EXCEPT ![p] = 0]
  /\ minute' = [minute EXCEPT ![p] = 0]
  /\ result' = [result EXCEPT ![p] = "timeout"]
  /\ UNCHANGED <<relayVars, sessionVars, outboundVars, batch, pending, cache, faultVars>>

(* Whether a message that has just been deleted was handled before.         *)
SeenNothing(p, m) == FALSE
SeenSender(p, m) == \E n \in cache[p] : n.from = m.from
Seen(p, m) == m \in cache[p]

AfterBatch(rest) == IF rest = {} THEN "select" ELSE "batch"

(* Every message of the batch is deleted from the relay before it is looked *)
(* at; if the DELETE reports failure the message is passed over.            *)
DeleteMessage(p) ==
  /\ ipc[p] = "batch"
  /\ \E m \in batch[p] :
       LET rest == batch[p] \ {m}
           remove == mailbox' = [mailbox EXCEPT ![p] = @ \ {m}]
           passOver == /\ ipc' = [ipc EXCEPT ![p] = AfterBatch(rest)]
                       /\ UNCHANGED <<pending, cache>>
       IN /\ batch' = [batch EXCEPT ![p] = rest]
          /\ \/ remove /\ Seen(p, m) /\ passOver /\ NoFault
             \/ /\ remove
                /\ ~ Seen(p, m)
                /\ cache' = [cache EXCEPT ![p] = @ \cup {m}]
                /\ pending' = [pending EXCEPT ![p] = {m}]
                /\ ipc' = [ipc EXCEPT ![p] = "apply"]
                /\ NoFault
             \/ Fault("delete") /\ UNCHANGED mailbox /\ passOver
             \/ Fault("deleteLost") /\ remove /\ passOver
  /\ UNCHANGED <<sessionVars, outboundVars, timer, minute, isKeygenFinished,
                 result>>

(* isFinished of InputMessage: the session has left its last round.         *)
FinishedEarly(r) == r >= Rounds
IsFinished(r) == r > Rounds

ApplyMessage(p) ==
  /\ ipc[p] = "apply"
  /\ \/ \E r \in 1 .. (Rounds + 1) :
          LET msgs == received[p] \cup pending[p]
          IN /\ EntersRound(p, msgs, r)
             /\ received' = [received EXCEPT ![p] = msgs]
             /\ round' = [round EXCEPT ![p] = r]
             /\ ipc' = [ipc EXCEPT ![p] = IF IsFinished(r) THEN "finish"
                                          ELSE AfterBatch(batch[p])]
             /\ NoFault
     \/ /\ Fault("input")
        /\ ipc' = [ipc EXCEPT ![p] = AfterBatch(batch[p])]
        /\ UNCHANGED <<received, round>>
  /\ pending' = [pending EXCEPT ![p] = {}]
  /\ UNCHANGED <<relayVars, sess, outboundVars, timer, minute, batch, cache,
                 isKeygenFinished, result>>

(* The result is taken out of the session; an error returns at once, with    *)
(* the flag still down.  A party without a result always gets the error.     *)
FinishSession(p) ==
  /\ ipc[p] = "finish"
  /\ batch' = [batch EXCEPT ![p] = {}]
  /\ \/ /\ p \in Beneficiary
        /\ sess' = [sess EXCEPT ![p] = "finished"]
        /\ ipc' = [ipc EXCEPT ![p] = "publish"]
        /\ NoFault
        /\ UNCHANGED result
     \/ /\ Fault("finish") \/ (p \notin Beneficiary /\ NoFault)
        /\ ipc' = [ipc EXCEPT ![p] = "done"]
        /\ result' = [result EXCEPT ![p] = "failed"]
        /\ sess' = [sess EXCEPT ![p] = "finished"] \/ UNCHANGED sess
  /\ UNCHANGED <<relayVars, round, received, outboundVars, timer, minute, pending,
                 cache, isKeygenFinished>>

PublishFinished(p) ==
  /\ ipc[p] = "publish"
  /\ StoreFinished(p)
  /\ ipc' = [ipc EXCEPT ![p] = "save"]
  /\ UNCHANGED <<relayVars, sessionVars, outboundVars, timer, minute, batch, pending,
                 cache, result, faultVars>>

InboundStep(p) ==
  \/ Tick(p) \/ Poll(p) \/ Timeout(p) \/ DeleteMessage(p)
  \/ ApplyMessage(p) \/ FinishSession(p) \/ PublishFinished(p)

-----------------------------------------------------------------------------
(* The surroundings.                                                         *)

(* The relay hands out once more what p has deleted.                        *)
Redeliver(p) ==
  /\ ipc[p] = "select"
  /\ Fault("redeliver")
  /\ \E m \in cache[p] : mailbox' = [mailbox EXCEPT ![p] = @ \cup {m}]
  /\ UNCHANGED <<sessionVars, inboundVars, outboundVars, isKeygenFinished, result>>

(* p's process dies; its session and its messages in hand are gone.         *)
Crash(p) ==
  /\ ipc[p] \notin {"idle", "returned", "crashed"}
  /\ Fault("crash")
  /\ ipc' = [ipc EXCEPT ![p] = "crashed"]
  /\ opc' = [opc EXCEPT ![p] = "crashed"]
  /\ batch' = [batch EXCEPT ![p] = {}]
  /\ pending' = [pending EXCEPT ![p] = {}]
  /\ sentTo' = [sentTo EXCEPT ![p] = {}]
  /\ timer' = [timer EXCEPT ![p] = 0]
  /\ minute' = [minute EXCEPT ![p] = 0]
  /\ UNCHANGED <<relayVars, sessionVars, taken, cache, isKeygenFinished, result>>

-----------------------------------------------------------------------------
(* What follows the last message.  The operation modules say what is done    *)
(* with the result; of the exchange it changes no more than this.            *)

(* wg.Wait() returns once both loops have called wg.Done().                  *)
InboundDone(p) == ipc[p] = "done"
BothDone(p) == ipc[p] = "done" /\ opc[p] = "done"

HandleResult(p) ==
  /\ ipc[p] \in {"save", "write", "close"}
  /\ \E pc \in {"write", "close", "done"} : ipc' = [ipc EXCEPT ![p] = pc]
  /\ \/ \E res \in {"ok", "failed"} : result' = [result EXCEPT ![p] = res]
     \/ UNCHANGED result
  /\ Fault("save") \/ NoFault
  /\ UNCHANGED <<relayVars, sessionVars, outboundVars, timer, minute, batch, pending,
                 cache, isKeygenFinished>>

Leave(p) ==
  /\ ipc[p] = "done"
  /\ opc[p] = "done"
  /\ ipc' = [ipc EXCEPT ![p] = "returned"]
  /\ sess' = [sess EXCEPT ![p] = "freed"] \/ UNCHANGED sess
  /\ UNCHANGED <<relayVars, round, received, outboundVars, timer, minute, batch,
                 pending, cache, isKeygenFinished, result, faultVars>>

ExchangeNext ==
  \E p \in Party :
    \/ StartLoops(p) \/ OutboundStep(p) \/ InboundStep(p)
    \/ HandleResult(p) \/ Leave(p)
    \/ Redeliver(p) \/ Crash(p)

ExchangeSpec == ExchangeInit /\ [][ExchangeNext]_exchangeVars

-----------------------------------------------------------------------------
ExchangeTypeOK ==
  /\ mailbox \in [Party -> SUBSET Message]
  /\ sess \in [Party -> {"none", "live", "finished", "freed"}]
  /\ round \in [Party -> 0 .. (Rounds + 1)]
  /\ received \in [Party -> SUBSET Message]
  /\ taken \in [Party -> 0 .. Rounds]
  /\ ipc \in [Party -> InboundPc]
  /\ timer \in [Party -> 0 .. PollTicks]
  /\ minute \in [Party -> 0 .. MinuteTicks]
  /\ batch \in [Party -> SUBSET Message]
  /\ pending \in [Party -> SUBSET Message]
  /\ cache \in [Party -> SUBSET Message]
  /\ opc \in [Party -> OutboundPc]
  /\ sentTo \in [Party -> SUBSET Party]
  /\ isKeygenFinished \in [Party -> BOOLEAN]
  /\ result \in [Party -> Results]
  /\ faults \in 0 .. MaxFaults
  /\ lossy \in BOOLEAN

(* However often the relay hands out a message, the library is given it at   *)
(* most once: what is about to be applied was not accepted before            *)
(* (keygen.go:217-245, the md5 cache).                                       *)
AppliedAtMostOnce ==
  \A p \in Party : ipc[p] = "apply" => pending[p] \cap received[p] = {}

(* No loop is left that could use the session handle once it has been freed  *)
(* (keygen.go:120-134, the deferred KeygenSessionFree and wg.Wait).          *)
NoUseAfterFree ==
  \A p \in Party :
    sess[p] = "freed" => opc[p] = "done" /\ ipc[p] = "returned"

(* Until a failure loses a message for good, a message that p's outbound     *)
(* goroutine has taken from the session is, for every peer q, still to be    *)
(* sent, at the relay, in q's hands or accepted by q's session: deleting     *)
(* before applying, skipping and deduplicating lose none                     *)
(* (keygen.go:157-172, 212-249).                                             *)
NothingLost ==
  ~ lossy =>
    \A p \in Party : \A q \in Peers(p) : \A r \in 1 .. taken[p] :
      \/ opc[p] = "send" /\ r = taken[p] /\ q \notin sentTo[p]
      \/ Msg(p, r) \in mailbox[q] \cup pending[q] \cup received[q]

(* A party has left a message of its session unsent: its outbound goroutine  *)
(* found nothing to send, its inbound loop finished and raised the flag, and *)
(* the goroutine then read the flag.                                         *)
LeftUnsent(p) == opc[p] = "done" /\ taken[p] < Rounds

(* A party's inbound loop is taking out the result or handling it.           *)
Finishing(p) == ipc[p] \in {"finish", "publish", "save", "write", "close"}

(* The early stop never lets two parties finish and starves a third: once a  *)
(* party has left with a message unsent, no other gets past the last round   *)
(* or takes out a result (keygen.go:145-152, 250-271).                       *)
EarlyLeaverAlone ==
  \A p \in Party :
    LeftUnsent(p) => \A q \in Peers(p) : round[q] <= Rounds /\ ~ Finishing(q)

(* p's part of the exchange is at rest: everything its session has made has   *)
(* been sent, and nothing is on its way to it.                               *)
AtRest(p) ==
  /\ ipc[p] # "idle" /\ opc[p] # "send"
  /\ taken[p] = Produced(p)
  /\ mailbox[p] = {} /\ pending[p] = {}

(* The exchange does not come to rest half-way: until a failure loses a       *)
(* message, everybody is at rest only when every session has left its last    *)
(* round.  So an exchange can hang only behind a message left unsent, however *)
(* the messages are polled, deleted, deduplicated and applied                 *)
(* (keygen.go:137-249).                                                      *)
RestMeansFinished ==
  ~ lossy /\ (\A p \in Party : AtRest(p)) => \A p \in Party : round[p] > Rounds

(* An inbound loop that has ended without raising the flag has ended the      *)
(* operation: the outbound goroutine never stops, so wg.Wait never returns    *)
(* and the error is never seen (keygen.go:133, 149-153, 255, 260, 266).       *)
ErrorKeepsWaiting ==
  [][\A p \in Party :
       ipc[p] = "done" /\ ~ isKeygenFinished[p] =>
         ipc'[p] \in {"done", "crashed"} /\ ~ isKeygenFinished'[p]]_exchangeVars

(* The wait for messages ends by the timeout only if the process has not run  *)
(* for a minute: however long messages stay away, the one-minute timer is     *)
(* made anew by every pass and never fires by itself (keygen.go:184-189).     *)
TimeoutNeedsStall ==
  "stall" \notin Faults => \A p \in Party : result[p] # "timeout"

(* A session has not got past the first round.                              *)
SomebodyKeptBack == \E p \in Party : round[p] <= 1

(* A message is never anywhere before its sender's session has made it.      *)
NotBeforeMade ==
  \A p \in Party :
    \A m \in mailbox[p] \cup batch[p] \cup pending[p] \cup received[p] \cup cache[p] :
      m.round <= taken[m.from]

-----------------------------------------------------------------------------
(* The parts of the inductive invariant from which ExchangeProofs derives    *)
(* the properties above.                                                     *)

(* The two loops of a party start and crash together; an inbound loop that   *)
(* has a result to handle has left the last round.                           *)
LoopsAgree ==
  \A p \in Party :
    /\ ipc[p] = "idle" => opc[p] = "idle" /\ round[p] = 0
    /\ ipc[p] # "idle" => round[p] >= 1
    /\ Finishing(p) => round[p] = Rounds + 1
    /\ taken[p] <= round[p]

(* The message in hand: only its receivers have been served, and only while  *)
(* it is being sent or applied is there one.                                 *)
OneInHand ==
  \A p \in Party :
    /\ sentTo[p] \subseteq Peers(p)
    /\ opc[p] = "send" => taken[p] >= 1
    /\ opc[p] # "send" => sentTo[p] = {}
    /\ ipc[p] # "apply" => pending[p] = {}

(* The hash cache covers what was given to the session ...                   *)
CacheCovers ==
  \A p \in Party : pending[p] \cup received[p] \subseteq cache[p]

(* ... and holds no more than that until a failure loses a message.          *)
CacheExact ==
  ~ lossy => \A p \in Party : cache[p] \subseteq pending[p] \cup received[p]

(* A session leaves no round without the messages of that round.             *)
NothingSkipped ==
  \A p \in Party : \A r \in 1 .. Rounds :
    round[p] > r => RoundComplete(p, received[p], r)

(* ... and stays in none of which it has all messages.                       *)
NothingHeldUp ==
  \A p \in Party :
    /\ ipc[p] = "idle" => received[p] = {}
    /\ ipc[p] # "idle" /\ round[p] <= Rounds => ~ RoundComplete(p, received[p], round[p])

ExchangeInv ==
  /\ ExchangeTypeOK
  /\ LoopsAgree
  /\ OneInHand
  /\ CacheCovers
  /\ CacheExact
  /\ AppliedAtMostOnce
  /\ NoUseAfterFree
  /\ NotBeforeMade
  /\ NothingSkipped

=============================================================================
