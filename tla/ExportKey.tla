------------------------------ MODULE ExportKey ------------------------------
(***************************************************************************)
(* ExportRootKey: one process reads the key share files of several parties, *)
(* lets each but the first make a message for a receiver made from the      *)
(* first, and feeds the messages to the receiver, which yields the secret   *)
(* when it has enough of them.  It ends with nil, an error or, if there are *)
(* fewer names of parties than parts, with an index out of range.           *)
(***************************************************************************)
EXTENDS Naturals, FiniteSets

CONSTANT MaxParts    \* bound: parts and names on the command line

ASSUME ExportAssumption == MaxParts \in Nat

VARIABLES
  parts,      \* the number of --part files
  names,      \* the number of names in --parties
  needed,     \* the shares without which the key cannot be used
  epc,        \* where ExportRootKey is
  handles,    \* the key shares the library holds for it
  deferred,   \* those with a deferred DklsKeyshareFree
  msgs,       \* messages made for the receiver
  fed,        \* messages fed to it
  receiver,   \* the receiver, which is never freed
  printed     \* the secret has been printed

exportVars ==
  <<parts, names, needed, epc, handles, deferred, msgs, fed, receiver, printed>>

Ends == {"nil", "error", "panic"}

ExportInit ==
  /\ parts \in 0 .. MaxParts
  /\ names \in 0 .. MaxParts
  /\ needed \in 2 .. MaxParts
  /\ epc = "first"
  /\ handles = {}
  /\ deferred = {}
  /\ msgs = 0
  /\ fed = 0
  /\ receiver = "none"
  /\ printed = FALSE

ExportIdle ==
  /\ parts = 0 /\ names = 0 /\ needed = 2 /\ epc = "nil"
  /\ handles = {} /\ deferred = {} /\ msgs = 0 /\ fed = 0
  /\ receiver = "none" /\ printed = FALSE

(* Return or panic: either way the deferred calls run.                       *)
Stop(how) ==
  /\ epc' = how
  /\ handles' = handles \ deferred
  /\ deferred' = {}
  /\ UNCHANGED <<msgs, fed, receiver, printed>>

(* A part is read, decoded and given to the library, which may each fail;     *)
(* the call that frees it is deferred before it is used.                      *)
DeferForgotten(i) == UNCHANGED deferred
Defer(i) == deferred' = deferred \cup {i}

OpenPart(i, next) ==
  \/ Stop("error")
  \/ /\ handles' = handles \cup {i}
     /\ Defer(i)
     /\ epc' = next
     /\ UNCHANGED <<msgs, fed, receiver, printed>>

OpenFirst ==
  /\ epc = "first"
  /\ IF parts = 0 THEN Stop("error") ELSE OpenPart(1, "receiver")

NewReceiver ==
  /\ epc = "receiver"
  /\ \/ Stop("error")
     \/ /\ receiver' = "live"
        /\ epc' = "part"
        /\ UNCHANGED <<handles, deferred, msgs, fed, printed>>

(* The next part is paired with the name of the same position.               *)
EnoughOpened == msgs + 1 = parts \/ msgs + 1 = needed
AllOpened == msgs + 1 = parts

OpenNext ==
  /\ epc = "part"
  /\ ~ AllOpened
  /\ LET idx == msgs + 2
     IN IF idx > names THEN Stop("panic") ELSE OpenPart(idx, "exporter")

MakeMessage ==
  /\ epc = "exporter"
  /\ \/ Stop("error")
     \/ /\ msgs' = msgs + 1
        /\ epc' = "part"
        /\ UNCHANGED <<handles, deferred, fed, receiver, printed>>

StartFeeding ==
  /\ epc = "part"
  /\ AllOpened
  /\ epc' = "feed"
  /\ UNCHANGED <<handles, deferred, msgs, fed, receiver, printed>>

(* A receiver counts its own share.  What one that has finished makes of a    *)
(* further message is up to the library: an error, nothing, or the secret.    *)
FinishesAt(n) == n + 1 >= needed

Feed ==
  /\ epc = "feed"
  /\ fed < msgs
  /\ \/ Stop("error")
     \/ /\ fed' = fed + 1
        /\ \/ /\ ~ FinishesAt(fed + 1) \/ receiver = "finished"
              /\ UNCHANGED <<receiver, printed>>
           \/ /\ FinishesAt(fed + 1)
              /\ receiver' = "finished"
              /\ printed' = TRUE
        /\ UNCHANGED <<epc, handles, deferred, msgs>>

AllFedButOne == fed + 1 >= msgs
AllFed == fed = msgs

FinishExport ==
  /\ epc = "feed"
  /\ AllFed
  /\ Stop("nil")

ExportNext ==
  /\ OpenFirst \/ NewReceiver \/ OpenNext \/ MakeMessage \/ StartFeeding
       \/ Feed \/ FinishExport
  /\ UNCHANGED <<parts, names, needed>>

-----------------------------------------------------------------------------
(* However an export ends, the library holds none of its key shares any more *)
(* (keygen.go:681-685, 706-710).                                             *)
SharesFreed == epc \in Ends => handles = {}

(* The secret is printed only when every part on the command line has been    *)
(* read and exported: one that cannot be read, or has no name, keeps it back  *)
(* (keygen.go:691-717).                                                       *)
PrintedAfterAllParts == printed => msgs + 1 = parts /\ parts <= names

(* An export that returns nil has printed the secret if there were enough     *)
(* parts for it, and has not if there were too few (keygen.go:718-731).       *)
NilPrintsIfEnough == epc = "nil" /\ receiver # "none" => (printed <=> parts >= needed)

-----------------------------------------------------------------------------
(* The parts of the inductive invariant from which CommandsProofs derives     *)
(* the properties above.                                                     *)
ExportTypeOK ==
  /\ parts \in Nat
  /\ names \in Nat
  /\ needed \in Nat \ {0, 1}
  /\ epc \in Ends \cup {"first", "receiver", "part", "exporter", "feed"}
  /\ handles \subseteq Nat
  /\ deferred \subseteq Nat
  /\ msgs \in Nat
  /\ fed \in Nat
  /\ receiver \in {"none", "live", "finished"}

(* Whatever is open has a deferred free, which has run when the export ends. *)
OpenIsDeferred == handles = deferred /\ (epc \in Ends => deferred = {})

(* Only a part that exists and has a name gets as far as its message.        *)
PartsCounted ==
  /\ epc \in {"first", "receiver"} => msgs = 0
  /\ epc = "receiver" => parts >= 1
  /\ epc = "part" => msgs + 1 <= parts
  /\ epc = "exporter" => msgs + 2 <= parts /\ msgs + 2 <= names
  /\ msgs >= 1 => msgs + 1 <= names

(* Nothing is fed before all messages are made, and nothing twice.           *)
FedLast ==
  /\ fed <= msgs
  /\ fed > 0 \/ epc = "feed" => msgs + 1 = parts
  /\ fed > 0 => epc = "feed" \/ epc \in Ends
  /\ epc = "nil" /\ receiver # "none" => msgs + 1 = parts /\ fed = msgs

(* The receiver has finished once enough messages have been fed ...          *)
FinishedWhenEnough == receiver = "finished" <=> FinishesAt(fed)

(* ... and the secret is printed as soon as it has.                          *)
PrintedWhenFinished == printed <=> receiver = "finished"

CountInv ==
  /\ ExportTypeOK
  /\ OpenIsDeferred
  /\ PartsCounted
  /\ FedLast
  /\ FinishedWhenEnough

ExportInv == CountInv /\ PrintedWhenFinished

=============================================================================
