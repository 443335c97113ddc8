------------------------------ MODULE Committee ------------------------------
(***************************************************************************)
(* The arithmetic of committees: how many shares of a key are needed, and   *)
(* how a reshare numbers the parties of the old and the new committee.      *)
(***************************************************************************)
EXTENDS Naturals, Sequences

Seqs == INSTANCE SequencesExt

CeilDiv(a, b) == (a + b - 1) \div b

(* GetThreshold, for the two or more parties it accepts.  The callers add    *)
(* one.  The floating-point quotient is exact where it is an integer and at  *)
(* least a third away from one where it is not, so its ceiling is exact.     *)
ThresholdRoundedDown(value) == (2 * value) \div 3 - 1
GetThreshold(value) == CeilDiv(2 * value, 3) - 1

(* The shares without which a key of a committee of n cannot be used.        *)
SharesNeeded(n) == GetThreshold(n) + 1

-----------------------------------------------------------------------------
(* All parties in the order of the first list, then those of the second that *)
(* are not in it yet.                                                        *)
AllParties(oldParties, newParties) ==
  LET all[k \in 0 .. Len(newParties)] ==
        IF k = 0 THEN oldParties
        ELSE IF Seqs!Contains(all[k - 1], newParties[k]) THEN all[k - 1]
        ELSE Append(all[k - 1], newParties[k])
  IN all[Len(newParties)]

(* The positions, counted from 0, of the members of a list among all.        *)
Indices(all, members) ==
  LET at[k \in 0 .. Len(all)] ==
        IF k = 0 THEN <<>>
        ELSE IF Seqs!Contains(members, all[k]) THEN Append(at[k - 1], k - 1)
        ELSE at[k - 1]
  IN at[Len(all)]

(* It returns the new parties' indices before the old ones' ...              *)
processReshareCommittee(oldParties, newParties) ==
  LET all == AllParties(oldParties, newParties)
  IN <<all, Indices(all, newParties), Indices(all, oldParties)>>

(* ... and Reshare both passes the new committee first and takes the first   *)
(* list of indices for the old committee's: the two swaps cancel.            *)
ReshareSwappedOnce(keygenCommittee, oldKeygenCommittee) ==
  LET r == processReshareCommittee(oldKeygenCommittee, keygenCommittee)
  IN [all |-> r[1], old |-> r[2], new |-> r[3]]
ReshareCommittee(keygenCommittee, oldKeygenCommittee) ==
  LET r == processReshareCommittee(keygenCommittee, oldKeygenCommittee)
  IN [all |-> r[1], old |-> r[2], new |-> r[3]]

-----------------------------------------------------------------------------
(* The names of a committee joined by a zero byte.  A name is a sequence of  *)
(* bytes.                                                                    *)
JoinedWithout(parties) == Seqs!FoldLeft(LAMBDA s, name : s \o name, <<>>, parties)
convertKeygenCommitteeToBytes(parties) ==
  LET result[k \in 0 .. Len(parties)] ==
        IF k = 0 THEN <<>> ELSE result[k - 1] \o Append(parties[k], 0)
      all == result[Len(parties)]
  IN SubSeq(all, 1, Len(all) - 1)

=============================================================================
