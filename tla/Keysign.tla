------------------------------- MODULE Keysign -------------------------------
(***************************************************************************)
(* The second half of TssService.Keysign: the exchange of a signing session *)
(* and what becomes of the signature.  Keysign drops the error of its       *)
(* inbound loop and looks at the signature instead: with ECDSA it insists   *)
(* on 65 bytes, with EdDSA it asks for nothing, and a signature that does   *)
(* not verify is only logged.  The flag isKeygenFinished of the exchange is *)
(* isKeysignFinished here.                                                  *)
(***************************************************************************)
EXTENDS Exchange

(* Every member of keysignCommittee gets the signature, and the outbound     *)
(* loop is given all of them.                                                *)
ASSUME KeysignAssumption ==
  /\ Beneficiary = Party
  /\ ReceiverLimit = Cardinality(Party)

VARIABLES
  isEdDSA,   \* the curve, given to every party on its command line
  sig,       \* sig[p]: the bytes p's inbound loop returned, and if they verify
  outcome,   \* outcome[p]: the error p's Keysign returns
  keyshare   \* keyshare[p]: the handle of p's key share

keysignVars == <<isEdDSA, sig, outcome, keyshare>>
vars == <<exchangeVars, keysignVars>>

Init ==
  /\ ExchangeInit
  /\ isEdDSA \in BOOLEAN
  /\ sig = [p \in Party |-> "none"]
  /\ outcome = [p \in Party |-> "none"]
  /\ keyshare = [p \in Party |-> "held"]

(* The inbound loop returns the signature.  Whether it verifies under the    *)
(* public key of the caller is up to the library.                            *)
ReturnSignature(p) ==
  /\ ipc[p] = "save"
  /\ ipc' = [ipc EXCEPT ![p] = "done"]
  /\ result' = [result EXCEPT ![p] = "ok"]
  /\ \E s \in {"valid", "invalid"} : sig' = [sig EXCEPT ![p] = s]
  /\ UNCHANGED <<relayVars, sessionVars, outboundVars, timer, minute, batch, pending,
                 cache, isKeygenFinished, faultVars, isEdDSA, outcome, keyshare>>

(* What Keysign looks at once both loops are done.                           *)
AcceptedUnseen(p) == TRUE
Accepted(p) == isEdDSA \/ sig[p] # "none"

(* Keysign goes on when both loops have called wg.Done().                    *)
Conclude(p) ==
  /\ BothDone(p)
  /\ outcome[p] = "none"
  /\ outcome' = [outcome EXCEPT ![p] = IF Accepted(p) THEN "nil" ELSE "error"]
  /\ UNCHANGED <<exchangeVars, isEdDSA, sig, keyshare>>

(* The deferred calls run last in, first out: the session is freed ...       *)
FreeSession(p) ==
  /\ outcome[p] # "none"
  /\ Leave(p)
  /\ sess' = [sess EXCEPT ![p] = "freed"]
  /\ UNCHANGED keysignVars

(* ... before the key share, which the wrapper never frees with EdDSA.       *)
KeyshareDueEarly(p) == outcome[p] # "none"
KeyshareDue(p) == ipc[p] = "returned"

FreeKeyshare(p) ==
  /\ KeyshareDue(p)
  /\ keyshare[p] = "held"
  /\ ~ isEdDSA
  /\ keyshare' = [keyshare EXCEPT ![p] = "freed"]
  /\ UNCHANGED <<exchangeVars, isEdDSA, sig, outcome>>

Next ==
  \E p \in Party :
    \/ /\ StartLoops(p) \/ InboundStep(p) \/ OutboundStep(p)
       /\ UNCHANGED keysignVars
    \/ ReturnSignature(p)
    \/ Conclude(p)
    \/ FreeSession(p)
    \/ FreeKeyshare(p)
    \/ (Redeliver(p) \/ Crash(p)) /\ UNCHANGED keysignVars

Spec == Init /\ [][Next]_vars

-----------------------------------------------------------------------------
TypeOK ==
  /\ ExchangeTypeOK
  /\ isEdDSA \in BOOLEAN
  /\ sig \in [Party -> {"none", "valid", "invalid"}]
  /\ outcome \in [Party -> {"none", "nil", "error"}]
  /\ keyshare \in [Party -> {"held", "freed"}]

(* The exchange implements the abstract ceremony; what a party obtains is    *)
(* the signature.                                                            *)
Barrier == INSTANCE RoundBarrier
             WITH phase <- round, holders <- {p \in Party : sig[p] # "none"}

ImplementsBarrier == Barrier!Spec

(* With ECDSA the length of the signature stands in for the error that was   *)
(* dropped: Keysign returns nil only if the loop has a signature to show,    *)
(* and then every party of the committee has signed (keygen.go:395-412).     *)
EcdsaNilMeansAllSigned ==
  ~ isEdDSA =>
    \A p \in Party :
      outcome[p] = "nil" =>
        /\ result[p] = "ok"
        /\ \A q \in Party : round[q] >= Rounds

(* The key share a session was made from is freed only when the session is   *)
(* gone and no loop can use it (keygen.go:328-332, 383-387, 396).            *)
KeyshareOutlivesSession ==
  \A p \in Party :
    keyshare[p] = "freed" => sess[p] = "freed" /\ opc[p] = "done"

(* What the error of keygen.go:486 (TssKeyGenTimeout) and the message of     *)
(* keygen.go:407 are for: a Keysign that returns nil has a valid signature.  *)
NilMeansSigned ==
  \A p \in Party : outcome[p] = "nil" => sig[p] = "valid"

-----------------------------------------------------------------------------
(* The inductive invariant from which KeysignProofs derives the properties   *)
(* above: the inbound loop returns a signature at its end or not at all, and *)
(* Keysign concludes after both loops.                                       *)
LoopEnded(p) == ipc[p] \in {"done", "returned", "crashed"}

SignatureLast ==
  \A p \in Party :
    /\ result[p] # "none" => LoopEnded(p)
    /\ sig[p] # "none" <=> result[p] = "ok"
    /\ sig[p] # "none" => round[p] = Rounds + 1

ConcludedLast ==
  \A p \in Party :
    /\ outcome[p] # "none" => LoopEnded(p)
    /\ outcome[p] = "nil" => isEdDSA \/ sig[p] # "none"
    /\ ipc[p] = "returned" => opc[p] = "done" /\ sess[p] = "freed"

KeysignInv == TypeOK /\ SignatureLast /\ ConcludedLast /\ KeyshareOutlivesSession

=============================================================================
