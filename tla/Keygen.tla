------------------------------- MODULE Keygen -------------------------------
(***************************************************************************)
(* The second half of TssService.Keygen, which MigrateKey shares: from the  *)
(* session handle to the key share on disk.  Keygen waits for both loops,   *)
(* frees the session and returns.                                           *)
(***************************************************************************)
EXTENDS ShareFile

vars == shareVars

Init ==
  /\ ShareInit
  /\ store = [p \in Party |-> "none"]

(* The deferred KeygenSessionFree runs last.                                *)
Return(p) ==
  /\ ipc[p] = "done"
  /\ BothDone(p)
  /\ sess' = [sess EXCEPT ![p] = "freed"]
  /\ ipc' = [ipc EXCEPT ![p] = "returned"]
  /\ UNCHANGED <<relayVars, round, received, outboundVars, timer, minute, batch,
                 pending, cache, isKeygenFinished, result, faultVars, store>>

Next ==
  \E p \in Party :
    \/ StartLoops(p) /\ UNCHANGED store
    \/ Inbound(p)
    \/ Outbound(p)
    \/ Return(p)
    \/ Environment(p)

Spec == Init /\ [][Next]_vars

(* A goroutine that can run does run, and an HTTP call returns: Go's         *)
(* scheduler and the relay grant no more.  Failures are never forced.        *)
Fairness ==
  \A p \in Party :
    /\ WF_vars(StartLoops(p) /\ UNCHANGED store)
    /\ WF_vars(Inbound(p))
    /\ WF_vars(Outbound(p))
    /\ WF_vars(Return(p))

FairSpec == Spec /\ Fairness

-----------------------------------------------------------------------------
(* Once the flag is up the process ends: the outbound goroutine drains the   *)
(* session and stops, the share is saved or its error returned               *)
(* (keygen.go:133, 149-153, 271).                                            *)
FlagStopsProcess ==
  \A p \in Party : isKeygenFinished[p] ~> ipc[p] \in {"returned", "crashed"}

(* If nothing is lost and nothing crashes, somebody obtains the share: the   *)
(* early stop of an outbound goroutine can only hurt those who come later.   *)
SomebodyFinishes == <>(\E p \in Party : result[p] = "ok")

(* The early stop is the only way in which a ceremony without failures can   *)
(* hang: everyone returns, or somebody has left with a message unsent.       *)
AllReturnOrLeftUnsent ==
  <>((\A p \in Party : Returned(p)) \/ (\E p \in Party : LeftUnsent(p)))

(* What the one-minute case of the select is there for (keygen.go:185-188):   *)
(* a party that waits for a message in vain gives up and returns.             *)
InboundEnds ==
  \A p \in Party : ipc[p] = "select" ~> ipc[p] \in {"done", "returned", "crashed"}

(* What the comment of keygen.go:186 says: when the inbound loop ends, the    *)
(* other goroutine can be stopped.                                            *)
OutboundStopsToo ==
  \A p \in Party : ipc[p] = "done" ~> opc[p] \in {"done", "crashed"}

=============================================================================
