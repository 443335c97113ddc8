------------------------------ MODULE Commands ------------------------------
(***************************************************************************)
(* What the commands of main.go compute on their own: the setup message     *)
(* that the leader of a keygen, a migration, a keysign or a reshare makes   *)
(* from its command line, the secrets the parties of a migration hand to    *)
(* the library, and the export of a key.                                    *)
(***************************************************************************)
EXTENDS Committee, Migration, ExportKey

CONSTANTS
  Name,         \* names of parties, sequences of bytes
  MaxParties    \* bound on the parties that a command line lists

(* A command line cannot hold a zero byte.                                   *)
ASSUME NameAssumption ==
  /\ Name \subseteq Seq(Nat \ {0})
  /\ MaxParties \in Nat

VARIABLES
  command,   \* the command of the process
  made       \* the setup message made, with the lists it was made from

vars == <<migrationVars, exportVars, command, made>>

Nothing == [for |-> "none"]

(* --parties and --old-parties.  Nobody checks that no name is given twice.   *)
Lists == BoundedSeq(Name, MaxParties) \ {<<>>}

Init ==
  /\ made = Nothing
  /\ \/ command \in {"keygen", "keysign", "reshare"} /\ MigrationIdle /\ ExportIdle
     \/ command = "migrate" /\ MigrationInit /\ ExportIdle
     \/ command = "export" /\ MigrationIdle /\ ExportInit

(* GetThreshold refuses a committee of one, and the leader stops.  The setup  *)
(* message of a migration is that of a keygen.                               *)
MakeSetup ==
  /\ made = Nothing
  /\ \E parties \in Lists :
       \/ /\ command = "keygen"
          /\ Len(parties) >= 2
          /\ made' = [for |-> command, parties |-> parties,
                      threshold |-> SharesNeeded(Len(parties)),
                      ids |-> convertKeygenCommitteeToBytes(parties)]
       \/ /\ command = "keysign"
          /\ made' = [for |-> command, parties |-> parties,
                      ids |-> convertKeygenCommitteeToBytes(parties)]
       \/ /\ command = "reshare"
          /\ Len(parties) >= 2
          /\ \E oldParties \in Lists :
               made' = [for |-> command, parties |-> parties, oldParties |-> oldParties,
                        threshold |-> SharesNeeded(Len(parties)),
                        committee |-> ReshareCommittee(parties, oldParties)]
  /\ UNCHANGED <<migrationVars, exportVars, command>>

Next ==
  \/ MakeSetup
  \/ command = "migrate" /\ MigrationNext /\ UNCHANGED <<exportVars, command, made>>
  \/ command = "export" /\ ExportNext /\ UNCHANGED <<migrationVars, command, made>>

Spec == Init /\ [][Next]_vars

-----------------------------------------------------------------------------
(* The library takes the bytes apart again at the zero bytes.                *)
IdsOf(bytes) ==
  LET ids[k \in 0 .. Len(bytes)] ==
        IF k = 0 THEN << <<>> >>
        ELSE IF bytes[k] = 0 THEN Append(ids[k - 1], <<>>)
        ELSE [ids[k - 1] EXCEPT ![Len(ids[k - 1])] = Append(@, bytes[k])]
  IN ids[Len(bytes)]

(* Whatever names are on the command line, the setup message names exactly   *)
(* these parties, in their order (keygen.go:565-579).                        *)
SetupNamesParties ==
  made.for \in {"keygen", "keysign"} => IdsOf(made.ids) = made.parties

(* The threshold of a setup message is the least number of parties that is    *)
(* two thirds of the committee (common.go:54-60, keygen.go:84-89).            *)
ThresholdIsTwoThirds ==
  made.for \in {"keygen", "reshare"} =>
    LET n == Len(made.parties)
    IN made.threshold = CHOOSE k \in 1 .. n :
         /\ 3 * k >= 2 * n
         /\ \A j \in 1 .. (k - 1) : 3 * j < 2 * n

(* In the setup message of a reshare the members are those of both lists,     *)
(* each once unless the list of the new committee repeats a name, and the two *)
(* lists of indices, counted from zero, point to the old and to the new       *)
(* committee although both are passed swapped (reshare.go:19-41, 68, 104).    *)
IndicesPointBack ==
  made.for = "reshare" =>
    LET r == made.committee
        At(indices) == {r.all[i + 1] : i \in ToSet(indices)}
    IN /\ ToSet(r.all) = ToSet(made.parties) \cup ToSet(made.oldParties)
       /\ IsInjective(made.parties) => IsInjective(r.all)
       /\ \A i \in ToSet(r.old) \cup ToSet(r.new) : i < Len(r.all)
       /\ At(r.old) = ToSet(made.oldParties)
       /\ At(r.new) = ToSet(made.parties)

=============================================================================
