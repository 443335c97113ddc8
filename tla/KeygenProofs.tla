---------------------------- MODULE KeygenProofs ----------------------------
(***************************************************************************)
(* Proofs about keygen and migrate: they are ceremonies that save a key     *)
(* share, so they inherit what is proved of those and of the exchange.      *)
(***************************************************************************)
EXTENDS Keygen, ShareFileProofs

(* Every behaviour of keygen is one of a ceremony that saves a share: its     *)
(* Return is a Leave that frees the session.                                  *)
THEOREM KeygenSavesShare == Spec => ShareSpec
<1>1. Init => ShareInit
  BY DEF Init
<1>2. [Next]_vars => [ShareNext]_shareVars
  <2>1. \A p \in Party : Return(p) => Leave(p) /\ UNCHANGED store
    BY DEF Return, BothDone, Leave
  <2> QED
    BY <2>1 DEF Next, ShareNext, vars
<1> QED
  BY <1>1, <1>2, PTL DEF Spec, ShareSpec

(* Type correctness of keygen.                                               *)
THEOREM KeygenTypeCorrect == Spec => []TypeOK
<1>1. IInv => TypeOK
  BY DEF IInv, ShareInv, SavedInv
<1> QED
  BY <1>1, KeygenSavesShare, ShareInvariant, PTL

(* Keygen returns nil only when the key share is complete on disk             *)
(* (keygen.go:271-272, local_state_accessor.go:35-38).                        *)
THEOREM KeygenNilMeansSaved == Spec => []NilMeansSaved
<1>1. IInv => NilMeansSaved
  BY DEF IInv, ShareInv, SavedInv
<1> QED
  BY <1>1, KeygenSavesShare, ShareInvariant, PTL

(* Keygen runs the exchange.                                                  *)
THEOREM KeygenRunsExchange == Spec => ExchangeSpec
BY KeygenSavesShare, ShareRunsExchange, PTL

(* Keygen implements the abstract ceremony: a party goes on to the next round *)
(* only when every other party has entered the last, and has the share on     *)
(* disk only after its last round, whatever fails on the way.                 *)
THEOREM KeygenImplementsBarrier == Spec => ImplementsBarrier
BY KeygenSavesShare, ShareImplementsBarrier, PTL

(* A key share on disk anywhere implies that every party has contributed to   *)
(* the last round.                                                            *)
THEOREM KeygenAllContributed == Spec => []AllContributed
BY KeygenSavesShare, ShareAllContributed, PTL

=============================================================================
