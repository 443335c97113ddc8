------------------------------ MODULE ShareFile ------------------------------
(***************************************************************************)
(* The key share file, which keygen, migrate and reshare write when their   *)
(* exchange has ended: the inbound loop saves the share of a finished       *)
(* session through LocalStateAccessorImp and returns what that returned.    *)
(* The module composes the exchange with the file; Keygen and Reshare say   *)
(* what is on disk before and what becomes of the session afterwards.       *)
(***************************************************************************)
EXTENDS Exchange

VARIABLE store    \* store[p]: what p's key share file holds

shareVars == <<exchangeVars, store>>

(* No file, the share of an earlier ceremony, a truncated file, or the share *)
(* of this ceremony.                                                         *)
Contents == {"none", "old", "torn", "share"}

(* os.WriteFile first truncates or creates the file ...                     *)
TruncateFile(p) ==
  /\ ipc[p] = "save"
  /\ \/ /\ store' = [store EXCEPT ![p] = "torn"]
        /\ ipc' = [ipc EXCEPT ![p] = "write"]
        /\ NoFault
        /\ UNCHANGED result
     \/ /\ Fault("save")
        /\ ipc' = [ipc EXCEPT ![p] = "done"]
        /\ result' = [result EXCEPT ![p] = "failed"]
        /\ UNCHANGED store
  /\ UNCHANGED <<relayVars, sessionVars, outboundVars, timer, minute, batch, pending,
                 cache, isKeygenFinished>>

(* ... then writes it ...                                                   *)
WriteErrorIgnored(p) == result' = [result EXCEPT ![p] = "ok"]
WriteError(p) == result' = [result EXCEPT ![p] = "failed"]

WriteShare(p) ==
  /\ ipc[p] = "write"
  /\ \/ /\ store' = [store EXCEPT ![p] = "share"]
        /\ ipc' = [ipc EXCEPT ![p] = "close"]
        /\ NoFault
        /\ UNCHANGED result
     \/ /\ Fault("save")
        /\ ipc' = [ipc EXCEPT ![p] = "done"]
        /\ WriteError(p)
        /\ UNCHANGED store
  /\ UNCHANGED <<relayVars, sessionVars, outboundVars, timer, minute, batch, pending,
                 cache, isKeygenFinished>>

(* ... and closes it; an error of any of the three is what the inbound loop   *)
(* returns, also when the share is complete and only the close has failed.   *)
CloseFile(p) ==
  /\ ipc[p] = "close"
  /\ ipc' = [ipc EXCEPT ![p] = "done"]
  /\ \/ result' = [result EXCEPT ![p] = "ok"] /\ NoFault
     \/ WriteError(p) /\ Fault("save")
  /\ UNCHANGED <<relayVars, sessionVars, outboundVars, timer, minute, batch, pending,
                 cache, isKeygenFinished, store>>

(* What is on disk before; a migration and a keygen find nothing there.      *)
ShareInit ==
  /\ ExchangeInit
  /\ store \in [Party -> {"none", "old"}]

Inbound(p) ==
  \/ InboundStep(p) /\ UNCHANGED store
  \/ TruncateFile(p)
  \/ WriteShare(p)
  \/ CloseFile(p)

Outbound(p) == OutboundStep(p) /\ UNCHANGED store

Environment(p) == (Redeliver(p) \/ Crash(p)) /\ UNCHANGED store

ShareNext ==
  \E p \in Party :
    \/ StartLoops(p) /\ UNCHANGED store
    \/ Inbound(p)
    \/ Outbound(p)
    \/ Leave(p) /\ UNCHANGED store
    \/ Environment(p)

ShareSpec == ShareInit /\ [][ShareNext]_shareVars

-----------------------------------------------------------------------------
TypeOK ==
  /\ ExchangeTypeOK
  /\ store \in [Party -> Contents]

(* The operation returns nil only if the new key share is complete on disk:   *)
(* a file left truncated by a failed write is never reported as success       *)
(* (keygen.go:271-272, local_state_accessor.go:35-38).  The converse does not *)
(* hold: a close may fail, or the process die, when the share is written.     *)
NilMeansSaved ==
  \A p \in Party : result[p] = "ok" => store[p] = "share"

(* The exchange implements the abstract ceremony.                            *)
Barrier == INSTANCE RoundBarrier
             WITH phase <- round, holders <- {p \in Party : store[p] = "share"}

ImplementsBarrier == Barrier!Spec

(* A party that has the key share implies all have contributed.              *)
AllContributed == Barrier!AllContributed

-----------------------------------------------------------------------------
(* The inductive invariant from which ShareFileProofs derives the properties *)
(* above: an inbound loop has returned only once it has come to its end, the *)
(* share is on disk from the write on, and the file is not touched before    *)
(* the party has left the last round, and only if it has a result.           *)
Ended(p) == ipc[p] \in {"done", "returned", "crashed"}

FileUntouched(p) == store[p] \in {"none", "old"}

TouchedLast ==
  \A p \in Party :
    /\ ipc[p] \in {"publish", "save", "write", "close"} => p \in Beneficiary
    /\ ~ FileUntouched(p) => p \in Beneficiary /\ round[p] = Rounds + 1

ShareWritten ==
  \A p \in Party :
    /\ ipc[p] = "close" => store[p] = "share"
    /\ store[p] = "share" => ipc[p] = "close" \/ Ended(p)

ResultLast == \A p \in Party : result[p] # "none" => Ended(p)

SavedInv == TypeOK /\ NilMeansSaved /\ ResultLast /\ ShareWritten
ShareInv == SavedInv /\ TouchedLast

-----------------------------------------------------------------------------
Returned(p) == ipc[p] = "returned"

=============================================================================
