--------------------------- MODULE CommandsProofs ---------------------------
(***************************************************************************)
(* Proofs of what the commands compute on their own: the setup message says *)
(* what the command line says for every committee, and an export keeps its  *)
(* promises for every number of parts.                                      *)
(***************************************************************************)
EXTENDS Commands, FiniteSetTheorems, WellFoundedInduction, TLAPS

USE DEF exportVars, migrationVars

-----------------------------------------------------------------------------
(* Induction over the natural numbers, for a set: it is a consequence of      *)
(* their order being well-founded.                                           *)
LEMMA LessThanWellFounded == IsWellFoundedOn({ss \in Nat \X Nat : ss[1] < ss[2]}, Nat)
BY NatLessThanWellFounded DEF OpToRel

LEMMA SetInduction ==
  ASSUME NEW S \in SUBSET Nat, 0 \in S, \A n \in S : n + 1 \in S
  PROVE  S = Nat
<1> DEFINE R == {ss \in Nat \X Nat : ss[1] < ss[2]}
<1> DEFINE T == Nat \ S
<1>1. SUFFICES ASSUME T # {} PROVE FALSE
  OBVIOUS
<1>2. IsWellFoundedOn(R, Nat)
  BY LessThanWellFounded
<1>3. T \subseteq Nat
  OBVIOUS
<1> HIDE DEF R
<1>4. \E x \in T : \A y \in T : ~ (<<y, x>> \in R)
  <2> HIDE DEF T
  <2> QED
    BY <1>1, <1>2, <1>3, WFMin
<1>5. PICK x \in T : \A y \in T : ~ (<<y, x>> \in R)
  BY <1>4
<1>6. x \in Nat /\ x # 0 /\ x - 1 \in Nat
  BY <1>5
<1>7. <<x - 1, x>> \in R
  BY <1>6 DEF R
<1>8. x - 1 \in S
  BY <1>5, <1>6, <1>7
<1> QED
  BY <1>5, <1>6, <1>8

(* The same for a loop: what holds before it and is kept by every pass holds  *)
(* after it.                                                                 *)
LEMMA LoopInduction ==
  ASSUME NEW n \in Nat, NEW S, 0 \in S,
         \A m \in 0 .. (n - 1) : m \in S => m + 1 \in S
  PROVE  \A m \in 0 .. n : m \in S
<1> DEFINE T == {m \in Nat : m <= n => m \in S}
<1>1. 0 \in T
  OBVIOUS
<1>2. ASSUME NEW m \in T
      PROVE  m + 1 \in T
  <2>1. CASE m + 1 <= n
    BY <2>1
  <2>2. CASE ~ (m + 1 <= n)
    BY <2>2
  <2> QED
    BY <2>1, <2>2
<1>3. T \in SUBSET Nat
  OBVIOUS
<1>4. T = Nat
  <2> HIDE DEF T
  <2> QED
    BY <1>1, <1>2, <1>3, SetInduction
<1> QED
  BY <1>4

(* f has run the loop up to index m.                                         *)
Computes(f, m, V, base, step) ==
  /\ f \in [0 .. m -> V]
  /\ f[0] = base
  /\ \A k \in 1 .. m : f[k] = step[k][f[k - 1]]

LEMMA LoopExtends ==
  ASSUME NEW V, NEW base \in V, NEW step, NEW m \in Nat,
         NEW f, Computes(f, m, V, base, step),
         \A v \in V : step[m + 1][v] \in V
  PROVE  \E g : Computes(g, m + 1, V, base, step)
<1> DEFINE g == [k \in 0 .. (m + 1) |-> IF k = m + 1 THEN step[m + 1][f[m]] ELSE f[k]]
<1> USE DEF Computes
<1>1. f[m] \in V /\ step[m + 1][f[m]] \in V
  OBVIOUS
<1>2. g \in [0 .. (m + 1) -> V] /\ g[0] = base
  BY <1>1
<1>3. ASSUME NEW k \in 1 .. (m + 1)
      PROVE  g[k] = step[k][g[k - 1]]
  <2>1. k - 1 \in 0 .. m /\ g[k - 1] = f[k - 1]
    OBVIOUS
  <2>2. CASE k = m + 1
    <3>1. k - 1 = m /\ g[k] = step[m + 1][f[m]]
      BY <2>2
    <3> QED
      BY <2>1, <2>2, <3>1
  <2>3. CASE k # m + 1
    <3>1. k \in 1 .. m /\ g[k] = f[k]
      BY <2>3
    <3> QED
      BY <2>1, <3>1
  <2> QED
    BY <2>2, <2>3
<1> QED
  BY <1>2, <1>3

(* A loop over the indices 1 .. n that maps what it has so far to what it has *)
(* after the next index is a function of the index: the recursive functions   *)
(* of the modules denote what they say.                                      *)
LEMMA LoopExists ==
  ASSUME NEW n \in Nat, NEW V, NEW base \in V, NEW step,
         \A k \in 1 .. n : \A v \in V : step[k][v] \in V
  PROVE  \E f : Computes(f, n, V, base, step)
<1> DEFINE S == {m \in 0 .. n : \E f : Computes(f, m, V, base, step)}
<1>1. 0 \in S
  <2>1. Computes([k \in 0 .. 0 |-> base], 0, V, base, step)
    BY DEF Computes
  <2> QED
    BY <2>1
<1>2. ASSUME NEW m \in 0 .. (n - 1), m \in S
      PROVE  m + 1 \in S
  <2>1. PICK f : Computes(f, m, V, base, step)
    BY <1>2
  <2>2. m \in Nat /\ m + 1 \in 1 .. n
    OBVIOUS
  <2>3. \E f1 : Computes(f1, m + 1, V, base, step)
    BY <2>1, <2>2, LoopExtends
  <2> QED
    BY <2>2, <2>3
<1>3. n \in S
  <2> HIDE DEF S
  <2> QED
    BY <1>1, <1>2, LoopInduction
<1> QED
  BY <1>3

(* Two such functions agree.                                                 *)
LEMMA LoopsAgreeAt ==
  ASSUME NEW n \in Nat, NEW f, NEW g, f[0] = g[0],
         \A k \in 1 .. n : f[k - 1] = g[k - 1] => f[k] = g[k]
  PROVE  f[n] = g[n]
<1> DEFINE S == {m \in 0 .. n : f[m] = g[m]}
<1>1. 0 \in S
  OBVIOUS
<1>2. ASSUME NEW m \in 0 .. (n - 1), m \in S
      PROVE  m + 1 \in S
  <2>1. m + 1 \in 1 .. n /\ (m + 1) - 1 = m /\ f[m] = g[m]
    BY <1>2
  <2> QED
    BY <2>1
<1>3. n \in S
  <2> HIDE DEF S
  <2> QED
    BY <1>1, <1>2, LoopInduction
<1> QED
  BY <1>3

-----------------------------------------------------------------------------
(* The export.                                                               *)

LEMMA ExportInitInv == ExportInit \/ ExportIdle => CountInv
<1>1. MaxParts \in Nat
  BY ExportAssumption
<1>2. ASSUME ExportInit
      PROVE  CountInv
  BY <1>1, <1>2 DEF ExportInit, CountInv, ExportTypeOK, OpenIsDeferred, PartsCounted,
     FedLast, FinishedWhenEnough, FinishesAt, Ends
<1>3. ASSUME ExportIdle
      PROVE  CountInv
  BY <1>3 DEF ExportIdle, CountInv, ExportTypeOK, OpenIsDeferred, PartsCounted,
     FedLast, FinishedWhenEnough, FinishesAt, Ends
<1> QED
  BY <1>2, <1>3

(* An end leaves the counters as they are and runs the deferred calls.       *)
LEMMA StopInv ==
  ASSUME CountInv, UNCHANGED <<parts, names, needed>>, NEW how \in Ends, Stop(how),
         how = "nil" => epc = "feed" /\ fed = msgs
  PROVE  CountInv'
BY DEF Stop, Ends, CountInv, ExportTypeOK, OpenIsDeferred, PartsCounted, FedLast,
       FinishedWhenEnough, FinishesAt

LEMMA OpenPartInv ==
  ASSUME CountInv, UNCHANGED <<parts, names, needed>>, NEW i \in Nat, NEW next, OpenPart(i, next),
         \/ epc = "first" /\ parts # 0 /\ next = "receiver"
         \/ epc = "part" /\ next = "exporter" /\ msgs + 2 <= parts /\ msgs + 2 <= names
  PROVE  CountInv'
<1>1. CASE Stop("error")
  BY <1>1, StopInv DEF Ends
<1>2. CASE /\ handles' = handles \cup {i}
           /\ deferred' = deferred \cup {i}
           /\ epc' = next
           /\ UNCHANGED <<msgs, fed, receiver>>
  <2>1. ExportTypeOK'
    BY <1>2 DEF Ends, CountInv, ExportTypeOK
  <2>2. OpenIsDeferred'
    BY <1>2 DEF Ends, CountInv, OpenIsDeferred
  <2>3. PartsCounted' /\ FedLast' /\ FinishedWhenEnough'
    BY <1>2 DEF Ends, CountInv, ExportTypeOK, PartsCounted, FedLast, FinishedWhenEnough, FinishesAt
  <2> QED
    BY <2>1, <2>2, <2>3 DEF CountInv
<1> QED
  BY <1>1, <1>2, Zenon DEF OpenPart, Defer

(* One step of ExportRootKey.                                                *)
LEMMA ExportStepInv ==
  ASSUME CountInv, ExportNext
  PROVE  CountInv'
<1> USE DEF ExportNext
<1>1. CASE OpenFirst
  <2>1. CASE parts = 0
    BY <1>1, <2>1, StopInv DEF OpenFirst, Ends
  <2>2. CASE parts # 0
    BY <1>1, <2>2, OpenPartInv DEF OpenFirst
  <2> QED
    BY <2>1, <2>2
<1>2. CASE NewReceiver
  <2>1. CASE Stop("error")
    BY <2>1, StopInv DEF Ends
  <2>2. CASE /\ receiver' = "live"
              /\ epc' = "part"
              /\ UNCHANGED <<handles, deferred, msgs, fed>>
    BY <1>2, <2>2 DEF NewReceiver, Ends, CountInv, ExportTypeOK, OpenIsDeferred, PartsCounted,
       FedLast, FinishedWhenEnough, FinishesAt
  <2> QED
    BY <1>2, <2>1, <2>2, Zenon DEF NewReceiver
<1>3. CASE OpenNext
  <2>1. CASE msgs + 2 > names
    BY <1>3, <2>1, StopInv DEF OpenNext, Ends
  <2>2. CASE ~ (msgs + 2 > names)
    <3>1. msgs + 2 \in Nat /\ msgs + 2 <= parts /\ msgs + 2 <= names
      BY <1>3, <2>2 DEF OpenNext, AllOpened, CountInv, ExportTypeOK, PartsCounted
    <3>2. epc = "part" /\ OpenPart(msgs + 2, "exporter")
      BY <1>3, <2>2 DEF OpenNext
    <3> QED
      BY <3>1, <3>2, OpenPartInv
  <2> QED
    BY <2>1, <2>2
<1>4. CASE MakeMessage
  <2>1. CASE Stop("error")
    BY <2>1, StopInv DEF Ends
  <2>2. CASE /\ msgs' = msgs + 1
              /\ epc' = "part"
              /\ UNCHANGED <<handles, deferred, fed, receiver>>
    BY <1>4, <2>2 DEF MakeMessage, Ends, CountInv, ExportTypeOK, OpenIsDeferred, PartsCounted,
       FedLast, FinishedWhenEnough, FinishesAt
  <2> QED
    BY <1>4, <2>1, <2>2, Zenon DEF MakeMessage
<1>5. CASE StartFeeding
  BY <1>5 DEF StartFeeding, AllOpened, Ends, CountInv, ExportTypeOK, OpenIsDeferred, PartsCounted,
     FedLast, FinishedWhenEnough, FinishesAt
<1>6. CASE Feed
  <2>1. CASE Stop("error")
    BY <2>1, StopInv DEF Ends
  <2>2. CASE /\ fed' = fed + 1
              /\ \/ (~ FinishesAt(fed + 1) \/ receiver = "finished") /\ UNCHANGED receiver
                 \/ FinishesAt(fed + 1) /\ receiver' = "finished"
              /\ UNCHANGED <<epc, handles, deferred, msgs>>
    BY <1>6, <2>2 DEF Feed, Ends, CountInv, ExportTypeOK, OpenIsDeferred, PartsCounted,
       FedLast, FinishedWhenEnough, FinishesAt
  <2> QED
    BY <1>6, <2>1, <2>2, Zenon DEF Feed
<1>7. CASE FinishExport
  BY <1>7, StopInv DEF FinishExport, AllFed, Ends
<1> QED
  BY <1>1, <1>2, <1>3, <1>4, <1>5, <1>6, <1>7

(* The receiver finishes and the secret is printed in one step.              *)
LEMMA PrintedStep ==
  ASSUME CountInv, PrintedWhenFinished, ExportNext
  PROVE  PrintedWhenFinished'
<1> USE DEF PrintedWhenFinished
<1>1. ASSUME NEW how, Stop(how)
      PROVE  PrintedWhenFinished'
  BY <1>1, Zenon DEF Stop
<1>2. ASSUME NEW i, NEW next, OpenPart(i, next)
      PROVE  PrintedWhenFinished'
  BY <1>1, <1>2, Zenon DEF OpenPart
<1>3. CASE OpenFirst
  BY <1>1, <1>2, <1>3, Zenon DEF OpenFirst
<1>4. CASE NewReceiver
  <2>1. CASE Stop("error")
    BY <1>1, <2>1
  <2>2. receiver # "finished"
    BY <1>4 DEF NewReceiver, CountInv, ExportTypeOK, PartsCounted, FedLast, FinishedWhenEnough,
       FinishesAt, Ends
  <2>3. CASE receiver' = "live" /\ UNCHANGED printed
    <3>1. receiver' # "finished"
      BY <2>3
    <3> QED
      BY <2>2, <2>3, <3>1, Zenon
  <2> QED
    BY <1>4, <2>1, <2>3, Zenon DEF NewReceiver
<1>5. CASE OpenNext
  BY <1>1, <1>2, <1>5, Zenon DEF OpenNext
<1>6. CASE MakeMessage
  BY <1>1, <1>6, Zenon DEF MakeMessage
<1>7. CASE StartFeeding
  BY <1>7, Zenon DEF StartFeeding
<1>8. CASE Feed
  BY <1>1, <1>8, Zenon DEF Feed
<1>9. CASE FinishExport
  BY <1>1, <1>9, Zenon DEF FinishExport
<1> QED
  BY <1>3, <1>4, <1>5, <1>6, <1>7, <1>8, <1>9 DEF ExportNext

(* The inductive invariant of an export, alone or beside the other commands. *)
THEOREM ExportInvariant == Spec => []ExportInv
<1>1. Init => ExportInv
  <2>1. Init => CountInv
    BY ExportInitInv, Zenon DEF Init
  <2>2. Init => PrintedWhenFinished
    BY DEF Init, ExportInit, ExportIdle, PrintedWhenFinished
  <2> QED
    BY <2>1, <2>2 DEF ExportInv
<1>2. ExportInv /\ [Next]_vars => ExportInv'
  <2> SUFFICES ASSUME CountInv, PrintedWhenFinished, [Next]_vars
               PROVE  CountInv' /\ PrintedWhenFinished'
    BY DEF ExportInv
  <2>1. CASE UNCHANGED exportVars
    <3>1. CountInv'
      BY <2>1 DEF CountInv, ExportTypeOK, OpenIsDeferred, PartsCounted, FedLast,
         FinishedWhenEnough, FinishesAt
    <3>2. PrintedWhenFinished'
      BY <2>1, Zenon DEF PrintedWhenFinished
    <3> QED
      BY <3>1, <3>2
  <2>2. CASE ExportNext
    BY <2>2, ExportStepInv, PrintedStep
  <2>3. UNCHANGED exportVars \/ ExportNext
    BY Zenon DEF Next, MakeSetup, vars
  <2> QED
    BY <2>1, <2>2, <2>3
<1> QED
  BY <1>1, <1>2, PTL DEF Spec

(* However an export ends, the library holds none of its key shares any more *)
(* (keygen.go:681-685, 706-710).                                             *)
THEOREM ExportFreesShares == Spec => []SharesFreed
<1>1. ExportInv => SharesFreed
  BY DEF ExportInv, CountInv, OpenIsDeferred, SharesFreed
<1> QED
  BY <1>1, ExportInvariant, PTL

(* The secret is printed only when every part has been read and exported,    *)
(* for every number of parts and names (keygen.go:691-717).                  *)
THEOREM ExportPrintsAfterAllParts == Spec => []PrintedAfterAllParts
<1>1. CountInv /\ receiver = "finished" => msgs + 1 = parts /\ parts <= names
  BY DEF CountInv, ExportTypeOK, PartsCounted, FedLast, FinishedWhenEnough, FinishesAt
<1>2. ExportInv => PrintedAfterAllParts
  BY <1>1, Zenon DEF ExportInv, PrintedWhenFinished, PrintedAfterAllParts
<1> QED
  BY <1>2, ExportInvariant, PTL

(* An export that returns nil has printed the secret exactly if there were   *)
(* enough parts for it (keygen.go:718-731).                                  *)
THEOREM ExportNilPrintsIfEnough == Spec => []NilPrintsIfEnough
<1>1. CountInv /\ epc = "nil" /\ receiver # "none" =>
        (receiver = "finished" <=> parts >= needed)
  BY DEF CountInv, ExportTypeOK, FedLast, FinishedWhenEnough, FinishesAt
<1>2. ExportInv => NilPrintsIfEnough
  BY <1>1, Zenon DEF ExportInv, PrintedWhenFinished, NilPrintsIfEnough
<1> QED
  BY <1>2, ExportInvariant, PTL

-----------------------------------------------------------------------------
(* The committees of a reshare.                                              *)

(* A list on the command line is a list of names.                             *)
LEMMA ListsType ==
  ASSUME NEW s \in Lists
  PROVE  s \in Seq(Name) /\ s # <<>>
<1>1. MaxParties \in Nat
  BY NameAssumption
<1>2. PICK n \in 0 .. MaxParties : s \in [1 .. n -> Name]
  BY DEF Lists, BoundedSeq, SeqOf
<1>3. s \in Seq(Name)
  BY <1>1, <1>2
<1> QED
  BY <1>3 DEF Lists

LEMMA AllPartiesLoop ==
  ASSUME NEW S, NEW oldParties \in Seq(S), NEW newParties \in Seq(S)
  PROVE  \E all \in [0 .. Len(newParties) -> Seq(S)] :
           /\ AllParties(oldParties, newParties) = all[Len(newParties)]
           /\ all[0] = oldParties
           /\ \A k \in 1 .. Len(newParties) :
                all[k] = IF Seqs!Contains(all[k - 1], newParties[k]) THEN all[k - 1]
                         ELSE Append(all[k - 1], newParties[k])
<1> DEFINE n == Len(newParties)
           V == Seq(S)
           step == [k \in 1 .. n |-> [v \in V |->
                      IF Seqs!Contains(v, newParties[k]) THEN v ELSE Append(v, newParties[k])]]
           Pass(f, k) == IF Seqs!Contains(f[k - 1], newParties[k]) THEN f[k - 1]
                         ELSE Append(f[k - 1], newParties[k])
           Is(f) == f = [k \in 0 .. n |-> IF k = 0 THEN oldParties ELSE Pass(f, k)]
<1>1. n \in Nat
  OBVIOUS
<1>2. oldParties \in V /\ \A k \in 1 .. n : \A v \in V : step[k][v] \in V
  OBVIOUS
<1>3. PICK f : Computes(f, n, V, oldParties, step)
  <2> HIDE DEF step, V, n
  <2> QED
    BY <1>1, <1>2, LoopExists
<1>4. f \in [0 .. n -> V] /\ f[0] = oldParties
  BY <1>3 DEF Computes
<1>5. ASSUME NEW k \in 1 .. n
      PROVE  f[k] = Pass(f, k)
  <2>1. f[k] = step[k][f[k - 1]]
    BY <1>3 DEF Computes
  <2>2. f[k - 1] \in V
    <3>1. k - 1 \in 0 .. n
      OBVIOUS
    <3> QED
      BY <1>4, <3>1, Zenon
  <2> QED
    BY <2>1, <2>2
<1>6. Is(CHOOSE g : Is(g))
  <2>1. f = [k \in 0 .. n |-> f[k]]
    BY <1>4
  <2>2. ASSUME NEW k \in 0 .. n
        PROVE  f[k] = IF k = 0 THEN oldParties ELSE Pass(f, k)
    <3> HIDE DEF Pass
    <3> QED
      BY <1>4, <1>5
  <2>3. Is(f)
    BY <2>1, <2>2, Zenon
  <2> HIDE DEF Is
  <2> QED
    BY <2>3
<1>7. ASSUME NEW g, Is(g)
      PROVE  f[n] = g[n]
  <2>1. ASSUME NEW k \in 0 .. n
        PROVE  g[k] = IF k = 0 THEN oldParties ELSE Pass(g, k)
    BY <1>7, Zenon
  <2>2. g[0] = oldParties
    <3>1. 0 \in 0 .. n
      BY <1>1
    <3> QED
      BY <2>1, <3>1, Zenon
  <2>3. ASSUME NEW k \in 1 .. n, f[k - 1] = g[k - 1]
        PROVE  f[k] = g[k]
    <3>1. g[k] = Pass(g, k)
      <4> HIDE DEF Pass
      <4> QED
        BY <2>1
    <3> QED
      BY <1>5, <2>3, <3>1, Zenon
  <2> QED
    BY <1>1, <1>4, <2>2, <2>3, LoopsAgreeAt
<1>8. AllParties(oldParties, newParties) = (CHOOSE g : Is(g))[n]
  BY DEF AllParties
<1> QED
  BY <1>4, <1>5, <1>6, <1>7, <1>8

(* What Append does to the set of a list, and what Contains asks of it.       *)
LEMMA AppendToSet ==
  ASSUME NEW S, NEW s \in Seq(S), NEW e \in S
  PROVE  /\ Seqs!Contains(s, e) <=> e \in ToSet(s)
         /\ ToSet(Append(s, e)) = ToSet(s) \cup {e}
         /\ IsInjective(s) /\ e \notin ToSet(s) => IsInjective(Append(s, e))
<1>1. Seqs!Contains(s, e) <=> e \in ToSet(s)
  BY DEF Seqs!Contains, ToSet
<1>2. ToSet(Append(s, e)) = ToSet(s) \cup {e}
  <2>1. /\ DOMAIN Append(s, e) = 1 .. (Len(s) + 1)
        /\ \A i \in 1 .. Len(s) : Append(s, e)[i] = s[i]
        /\ Append(s, e)[Len(s) + 1] = e
        /\ DOMAIN s = 1 .. Len(s)
        /\ Len(s) \in Nat
    OBVIOUS
  <2>2. ASSUME NEW x
        PROVE  x \in ToSet(Append(s, e)) <=> x \in ToSet(s) \cup {e}
    BY <2>1 DEF ToSet
  <2> QED
    BY <2>2, Zenon
<1>3. ASSUME IsInjective(s), e \notin ToSet(s)
      PROVE  IsInjective(Append(s, e))
  BY <1>3 DEF IsInjective, ToSet
<1> QED
  BY <1>1, <1>2, <1>3

(* The first list of a reshare is that of all members, each once if the list  *)
(* it begins with repeats none.                                              *)
LEMMA AllPartiesOnce ==
  ASSUME NEW S, NEW oldParties \in Seq(S), NEW newParties \in Seq(S)
  PROVE  /\ AllParties(oldParties, newParties) \in Seq(S)
         /\ ToSet(AllParties(oldParties, newParties)) = ToSet(oldParties) \cup ToSet(newParties)
         /\ IsInjective(oldParties) => IsInjective(AllParties(oldParties, newParties))
<1> DEFINE n == Len(newParties)
<1>1. PICK all \in [0 .. n -> Seq(S)] :
        /\ AllParties(oldParties, newParties) = all[n]
        /\ all[0] = oldParties
        /\ \A k \in 1 .. n :
             all[k] = IF Seqs!Contains(all[k - 1], newParties[k]) THEN all[k - 1]
                      ELSE Append(all[k - 1], newParties[k])
  BY AllPartiesLoop
<1> DEFINE First(k) == {newParties[i] : i \in 1 .. k}
           D == {k \in 0 .. n : /\ ToSet(all[k]) = ToSet(oldParties) \cup First(k)
                                /\ IsInjective(oldParties) => IsInjective(all[k])}
<1>2. n \in Nat /\ DOMAIN newParties = 1 .. n
  OBVIOUS
<1>3. 0 \in D
  <2>1. First(0) = {}
    OBVIOUS
  <2> QED
    BY <1>1, <1>2, <2>1
<1>4. ASSUME NEW m \in 0 .. (n - 1), m \in D
      PROVE  m + 1 \in D
  <2> DEFINE e == newParties[m + 1]
  <2>1. all[m] \in Seq(S) /\ e \in S
    BY <1>1
  <2>2. all[m + 1] = IF e \in ToSet(all[m]) THEN all[m] ELSE Append(all[m], e)
    <3>1. m + 1 \in 1 .. n /\ (m + 1) - 1 = m
      OBVIOUS
    <3> QED
      BY <1>1, <2>1, <3>1, AppendToSet
  <2>3. First(m + 1) = First(m) \cup {e}
    <3>1. 1 .. (m + 1) = (1 .. m) \cup {m + 1}
      OBVIOUS
    <3> QED
      BY <3>1, Zenon
  <2>4. /\ ToSet(all[m]) = ToSet(oldParties) \cup First(m)
        /\ IsInjective(oldParties) => IsInjective(all[m])
    BY <1>4
  <2>5. /\ ToSet(all[m + 1]) = ToSet(all[m]) \cup {e}
        /\ IsInjective(all[m]) => IsInjective(all[m + 1])
    BY <2>1, <2>2, <2>4, AppendToSet
  <2> HIDE DEF First, e
  <2> QED
    BY <2>3, <2>4, <2>5
<1>5. n \in D
  <2>1. n \in Nat /\ n \in 0 .. n
    BY <1>2
  <2> HIDE DEF D, n
  <2>2. \A m \in 0 .. n : m \in D
    BY <1>3, <1>4, <2>1, LoopInduction
  <2> QED
    BY <2>1, <2>2
<1>6. First(n) = ToSet(newParties)
  BY <1>2 DEF ToSet
<1> QED
  BY <1>1, <1>2, <1>5, <1>6

LEMMA IndicesLoop ==
  ASSUME NEW S, NEW all \in Seq(S), NEW members \in Seq(S)
  PROVE  \E at \in [0 .. Len(all) -> Seq(Nat)] :
           /\ Indices(all, members) = at[Len(all)]
           /\ at[0] = <<>>
           /\ \A k \in 1 .. Len(all) :
                at[k] = IF Seqs!Contains(members, all[k]) THEN Append(at[k - 1], k - 1)
                        ELSE at[k - 1]
<1> DEFINE n == Len(all)
           V == Seq(Nat)
           step == [k \in 1 .. n |-> [v \in V |-> IF Seqs!Contains(members, all[k]) THEN Append(v, k - 1) ELSE v]]
           Pass(f, k) == IF Seqs!Contains(members, all[k]) THEN Append(f[k - 1], k - 1) ELSE f[k - 1]
           Is(f) == f = [k \in 0 .. n |-> IF k = 0 THEN <<>> ELSE Pass(f, k)]
<1>1. n \in Nat
  OBVIOUS
<1>2. <<>> \in V /\ \A k \in 1 .. n : \A v \in V : step[k][v] \in V
  OBVIOUS
<1>3. PICK f : Computes(f, n, V, <<>>, step)
  <2> HIDE DEF step, V, n
  <2> QED
    BY <1>1, <1>2, LoopExists
<1>4. f \in [0 .. n -> V] /\ f[0] = <<>>
  BY <1>3 DEF Computes
<1>5. ASSUME NEW k \in 1 .. n
      PROVE  f[k] = Pass(f, k)
  <2>1. f[k] = step[k][f[k - 1]]
    BY <1>3 DEF Computes
  <2>2. f[k - 1] \in V
    <3>1. k - 1 \in 0 .. n
      OBVIOUS
    <3> QED
      BY <1>4, <3>1, Zenon
  <2> QED
    BY <2>1, <2>2
<1>6. Is(CHOOSE g : Is(g))
  <2>1. f = [k \in 0 .. n |-> f[k]]
    BY <1>4
  <2>2. ASSUME NEW k \in 0 .. n
        PROVE  f[k] = IF k = 0 THEN <<>> ELSE Pass(f, k)
    <3> HIDE DEF Pass
    <3> QED
      BY <1>4, <1>5
  <2>3. Is(f)
    BY <2>1, <2>2, Zenon
  <2> HIDE DEF Is
  <2> QED
    BY <2>3
<1>7. ASSUME NEW g, Is(g)
      PROVE  f[n] = g[n]
  <2>1. ASSUME NEW k \in 0 .. n
        PROVE  g[k] = IF k = 0 THEN <<>> ELSE Pass(g, k)
    BY <1>7, Zenon
  <2>2. g[0] = <<>>
    <3>1. 0 \in 0 .. n
      BY <1>1
    <3> QED
      BY <2>1, <3>1, Zenon
  <2>3. ASSUME NEW k \in 1 .. n, f[k - 1] = g[k - 1]
        PROVE  f[k] = g[k]
    <3>1. g[k] = Pass(g, k)
      <4> HIDE DEF Pass
      <4> QED
        BY <2>1
    <3> QED
      BY <1>5, <2>3, <3>1
  <2> QED
    BY <1>1, <1>4, <2>2, <2>3, LoopsAgreeAt
<1>8. Indices(all, members) = (CHOOSE g : Is(g))[n]
  BY DEF Indices
<1> QED
  BY <1>4, <1>5, <1>6, <1>7, <1>8

(* The indices of a list are the positions, from zero, of its members.       *)
LEMMA IndicesOfMembers ==
  ASSUME NEW S, NEW all \in Seq(S), NEW members \in Seq(S)
  PROVE  ToSet(Indices(all, members)) =
           {i \in 0 .. (Len(all) - 1) : all[i + 1] \in ToSet(members)}
<1> DEFINE n == Len(all)
           Upto(k) == {i \in 0 .. (k - 1) : all[i + 1] \in ToSet(members)}
<1>1. PICK at \in [0 .. n -> Seq(Nat)] :
        /\ Indices(all, members) = at[n]
        /\ at[0] = <<>>
        /\ \A k \in 1 .. n :
             at[k] = IF Seqs!Contains(members, all[k]) THEN Append(at[k - 1], k - 1) ELSE at[k - 1]
  BY IndicesLoop
<1> DEFINE D == {k \in 0 .. n : ToSet(at[k]) = Upto(k)}
<1>2. n \in Nat /\ n \in 0 .. n
  OBVIOUS
<1>3. 0 \in D
  <2>1. Upto(0) = {}
    OBVIOUS
  <2>2. ToSet(<<>>) = {}
    BY DEF ToSet
  <2>3. ToSet(at[0]) = Upto(0)
    BY <1>1, <2>1, <2>2, Zenon
  <2>4. 0 \in 0 .. n
    BY <1>2
  <2> QED
    BY <2>3, <2>4, Zenon
<1>4. ASSUME NEW m \in 0 .. (n - 1), m \in D
      PROVE  m + 1 \in D
  <2>1. m + 1 \in 1 .. n /\ (m + 1) - 1 = m /\ m \in Nat /\ all[m + 1] \in S /\ at[m] \in Seq(Nat)
    <3>1. m + 1 \in 1 .. n /\ (m + 1) - 1 = m /\ m \in Nat /\ m \in 0 .. n
      OBVIOUS
    <3> QED
      BY <1>1, <3>1
  <2>2. at[m + 1] = IF all[m + 1] \in ToSet(members) THEN Append(at[m], m) ELSE at[m]
    BY <1>1, <2>1, AppendToSet
  <2>3. ToSet(at[m + 1]) = IF all[m + 1] \in ToSet(members) THEN ToSet(at[m]) \cup {m}
                           ELSE ToSet(at[m])
    <3>1. ToSet(Append(at[m], m)) = ToSet(at[m]) \cup {m}
      BY <2>1, AppendToSet, Zenon
    <3> QED
      BY <2>2, <3>1, Zenon
  <2>4. Upto(m + 1) = IF all[m + 1] \in ToSet(members) THEN Upto(m) \cup {m} ELSE Upto(m)
    BY <2>1
  <2>5. ToSet(at[m]) = Upto(m)
    BY <1>4
  <2> HIDE DEF Upto
  <2> QED
    BY <2>1, <2>3, <2>4, <2>5
<1>5. n \in D
  <2> HIDE DEF D, n
  <2>1. \A m \in 0 .. n : m \in D
    BY <1>2, <1>3, <1>4, LoopInduction
  <2> QED
    BY <1>2, <2>1
<1> QED
  BY <1>1, <1>5

(* Looking up the indices of a list in the list of all members gives back    *)
(* the list.                                                                 *)
LEMMA IndicesLookUp ==
  ASSUME NEW S, NEW all \in Seq(S), NEW members \in Seq(S), ToSet(members) \subseteq ToSet(all)
  PROVE  /\ \A i \in ToSet(Indices(all, members)) : i < Len(all)
         /\ {all[i + 1] : i \in ToSet(Indices(all, members))} = ToSet(members)
<1> DEFINE I == ToSet(Indices(all, members))
<1>1. I = {i \in 0 .. (Len(all) - 1) : all[i + 1] \in ToSet(members)}
  BY IndicesOfMembers
<1> HIDE DEF I
<1>2. \A i \in I : i < Len(all) /\ all[i + 1] \in ToSet(members)
  BY <1>1
<1>3. ASSUME NEW x \in ToSet(members)
      PROVE  \E i \in I : x = all[i + 1]
  <2>1. PICK k \in 1 .. Len(all) : x = all[k]
    <3>1. x \in ToSet(all)
      BY <1>3, Zenon
    <3>2. DOMAIN all = 1 .. Len(all)
      OBVIOUS
    <3> QED
      BY <3>1, <3>2, Zenon DEF ToSet
  <2>2. k - 1 \in 0 .. (Len(all) - 1) /\ (k - 1) + 1 = k
    OBVIOUS
  <2>3. k - 1 \in I
    BY <1>1, <2>1, <2>2
  <2> QED
    BY <2>1, <2>2, <2>3
<1>4. {all[i + 1] : i \in I} = ToSet(members)
  BY <1>2, <1>3
<1> QED
  BY <1>2, <1>4 DEF I

(* What IndicesPointBack asks of the committee in a setup message.           *)
PointsBack(r, newParties, oldParties) ==
  /\ ToSet(r.all) = ToSet(newParties) \cup ToSet(oldParties)
  /\ IsInjective(newParties) => IsInjective(r.all)
  /\ \A i \in ToSet(r.old) \cup ToSet(r.new) : i < Len(r.all)
  /\ {r.all[i + 1] : i \in ToSet(r.old)} = ToSet(oldParties)
  /\ {r.all[i + 1] : i \in ToSet(r.new)} = ToSet(newParties)

LEMMA ReshareCommitteeRight ==
  ASSUME NEW S, NEW newParties \in Seq(S), NEW oldParties \in Seq(S)
  PROVE  PointsBack(ReshareCommittee(newParties, oldParties), newParties, oldParties)
<1> DEFINE all == AllParties(newParties, oldParties)
           r == ReshareCommittee(newParties, oldParties)
<1>1. /\ all \in Seq(S)
      /\ ToSet(all) = ToSet(newParties) \cup ToSet(oldParties)
      /\ IsInjective(newParties) => IsInjective(all)
  BY AllPartiesOnce
<1>2. r.all = all /\ r.old = Indices(all, oldParties) /\ r.new = Indices(all, newParties)
  BY DEF ReshareCommittee, processReshareCommittee
<1> HIDE DEF all, r
<1>3. /\ \A i \in ToSet(r.old) : i < Len(all)
      /\ {all[i + 1] : i \in ToSet(r.old)} = ToSet(oldParties)
  BY <1>1, <1>2, IndicesLookUp
<1>4. /\ \A i \in ToSet(r.new) : i < Len(all)
      /\ {all[i + 1] : i \in ToSet(r.new)} = ToSet(newParties)
  BY <1>1, <1>2, IndicesLookUp
<1>5. PointsBack(r, newParties, oldParties)
  BY <1>1, <1>2, <1>3, <1>4, Zenon DEF PointsBack
<1> QED
  BY <1>5, Zenon DEF r

(* The setup message of every reshare names both committees: the two swaps of *)
(* processReshareCommittee and of its caller cancel (reshare.go:19-41, 68,    *)
(* 104).                                                                     *)
THEOREM ReshareNamesBoth == Spec => []IndicesPointBack
<1>1. Init => IndicesPointBack
  BY DEF Init, Nothing, IndicesPointBack
<1>2. IndicesPointBack /\ [Next]_vars => IndicesPointBack'
  <2> SUFFICES ASSUME IndicesPointBack, [Next]_vars
               PROVE  IndicesPointBack'
    OBVIOUS
  <2>1. CASE UNCHANGED made
    BY <2>1, Zenon DEF IndicesPointBack
  <2>2. ASSUME NEW newParties \in Lists, NEW oldParties \in Lists,
               made' = [for |-> "reshare", parties |-> newParties, oldParties |-> oldParties,
                        threshold |-> SharesNeeded(Len(newParties)),
                        committee |-> ReshareCommittee(newParties, oldParties)]
        PROVE  IndicesPointBack'
    <3>1. newParties \in Seq(Name) /\ oldParties \in Seq(Name)
      BY ListsType
    <3>2. /\ made'.parties = newParties
          /\ made'.oldParties = oldParties
          /\ made'.committee = ReshareCommittee(newParties, oldParties)
      BY <2>2
    <3>3. PointsBack(made'.committee, made'.parties, made'.oldParties)
      BY <3>1, <3>2, ReshareCommitteeRight
    <3> QED
      BY <3>3, Zenon DEF IndicesPointBack, PointsBack
  <2>3. CASE MakeSetup /\ command # "reshare"
    <3>1. made'.for # "reshare"
      BY <2>3 DEF MakeSetup
    <3> QED
      BY <3>1, Zenon DEF IndicesPointBack
  <2> QED
    BY <2>1, <2>2, <2>3 DEF Next, MakeSetup, vars
<1> QED
  BY <1>1, <1>2, PTL DEF Spec

-----------------------------------------------------------------------------
(* The threshold.                                                            *)

LEMMA CeilThird ==
  ASSUME NEW a \in Nat
  PROVE  /\ CeilDiv(a, 3) \in Nat
         /\ a <= 3 * CeilDiv(a, 3)
         /\ 3 * CeilDiv(a, 3) < a + 3
BY DEF CeilDiv

(* The shares needed are the least number that is two thirds of a committee:  *)
(* there are that many, one is not enough, and two sets of shares that can    *)
(* use the key always have a party in common (common.go:54-60, called with    *)
(* + 1 at keygen.go:89, 768 and reshare.go:104).                              *)
THEOREM ThresholdBounds ==
  ASSUME NEW n \in Nat, n >= 2
  PROVE  /\ SharesNeeded(n) \in 2 .. n
         /\ 2 * SharesNeeded(n) > n
         /\ 3 * SharesNeeded(n) >= 2 * n
         /\ 3 * (SharesNeeded(n) - 1) < 2 * n
<1>1. SharesNeeded(n) = CeilDiv(2 * n, 3)
  <2>1. CeilDiv(2 * n, 3) \in Nat
    BY CeilThird
  <2> QED
    BY <2>1 DEF SharesNeeded, GetThreshold
<1>2. /\ CeilDiv(2 * n, 3) \in Nat
      /\ 2 * n <= 3 * CeilDiv(2 * n, 3)
      /\ 3 * CeilDiv(2 * n, 3) < 2 * n + 3
  BY CeilThird
<1> QED
  BY <1>1, <1>2

LEMMA LeastTwoThirds ==
  ASSUME NEW n \in Nat, n >= 2
  PROVE  SharesNeeded(n) = CHOOSE k \in 1 .. n :
                             /\ 3 * k >= 2 * n
                             /\ \A j \in 1 .. (k - 1) : 3 * j < 2 * n
<1> DEFINE P(k) == 3 * k >= 2 * n /\ \A j \in 1 .. (k - 1) : 3 * j < 2 * n
<1>1. SharesNeeded(n) \in 1 .. n /\ P(SharesNeeded(n))
  BY ThresholdBounds
<1>2. ASSUME NEW k \in 1 .. n, NEW m \in 1 .. n, P(k), P(m)
      PROVE  k = m
  <2>1. ~ (k < m) /\ ~ (m < k)
    BY <1>2
  <2> QED
    BY <2>1
<1> HIDE DEF P
<1>3. SharesNeeded(n) = CHOOSE k \in 1 .. n : P(k)
  BY <1>1, <1>2
<1> QED
  BY <1>3, Zenon DEF P

(* Whatever the size of the committee, the threshold of the setup message is  *)
(* the least number of parties that is two thirds of it (common.go:54-60,     *)
(* keygen.go:84-89, reshare.go:100-104).                                      *)
THEOREM SetupThreshold == Spec => []ThresholdIsTwoThirds
<1>1. Init => ThresholdIsTwoThirds
  BY DEF Init, Nothing, ThresholdIsTwoThirds
<1>2. ThresholdIsTwoThirds /\ [Next]_vars => ThresholdIsTwoThirds'
  <2> SUFFICES ASSUME ThresholdIsTwoThirds, [Next]_vars
               PROVE  ThresholdIsTwoThirds'
    OBVIOUS
  <2>1. CASE UNCHANGED made
    BY <2>1, Zenon DEF ThresholdIsTwoThirds
  <2>2. ASSUME NEW list \in Lists, Len(list) >= 2,
               made'.parties = list, made'.threshold = SharesNeeded(Len(list))
        PROVE  ThresholdIsTwoThirds'
    <3>1. Len(list) \in Nat
      BY ListsType
    <3> QED
      BY <2>2, <3>1, LeastTwoThirds, Zenon DEF ThresholdIsTwoThirds
  <2>3. CASE MakeSetup
    <3>1. PICK list \in Lists :
            \/ made'.for = "keysign"
            \/ /\ Len(list) >= 2
               /\ made'.parties = list
               /\ made'.threshold = SharesNeeded(Len(list))
      BY <2>3 DEF MakeSetup
    <3>2. CASE made'.for = "keysign"
      BY <3>2 DEF ThresholdIsTwoThirds
    <3> QED
      BY <2>2, <3>1, <3>2
  <2> QED
    BY <2>1, <2>3 DEF Next, vars
<1> QED
  BY <1>1, <1>2, PTL DEF Spec

-----------------------------------------------------------------------------
(* The names in a setup message.                                             *)

LEMMA JoinLoop ==
  ASSUME NEW list \in Seq(Seq(Nat \ {0}))
  PROVE  \E result \in [0 .. Len(list) -> Seq(Nat)] :
           /\ convertKeygenCommitteeToBytes(list) =
                SubSeq(result[Len(list)], 1, Len(result[Len(list)]) - 1)
           /\ result[0] = <<>>
           /\ \A k \in 1 .. Len(list) :
                result[k] = result[k - 1] \o Append(list[k], 0)
<1> DEFINE n == Len(list)
           V == Seq(Nat)
           step == [k \in 1 .. n |-> [v \in V |-> v \o Append(list[k], 0)]]
           Pass(f, k) == f[k - 1] \o Append(list[k], 0)
           Is(f) == f = [k \in 0 .. n |-> IF k = 0 THEN <<>> ELSE Pass(f, k)]
<1>1. n \in Nat
  OBVIOUS
<1>2. <<>> \in V /\ \A k \in 1 .. n : \A v \in V : step[k][v] \in V
  <2>1. ASSUME NEW k \in 1 .. n, NEW v \in V
        PROVE  v \o Append(list[k], 0) \in V
    <3>1. list[k] \in Seq(Nat)
      OBVIOUS
    <3>2. Append(list[k], 0) \in Seq(Nat)
      BY <3>1
    <3> QED
      BY <3>2
  <2> QED
    BY <2>1
<1>3. PICK f : Computes(f, n, V, <<>>, step)
  <2> HIDE DEF step, V, n
  <2> QED
    BY <1>1, <1>2, LoopExists
<1>4. f \in [0 .. n -> V] /\ f[0] = <<>>
  BY <1>3 DEF Computes
<1>5. ASSUME NEW k \in 1 .. n
      PROVE  f[k] = Pass(f, k)
  <2>1. f[k] = step[k][f[k - 1]]
    BY <1>3 DEF Computes
  <2>2. f[k - 1] \in V
    <3>1. k - 1 \in 0 .. n
      OBVIOUS
    <3> QED
      BY <1>4, <3>1, Zenon
  <2> QED
    BY <2>1, <2>2
<1>6. Is(CHOOSE g : Is(g))
  <2>1. f = [k \in 0 .. n |-> f[k]]
    BY <1>4
  <2>2. ASSUME NEW k \in 0 .. n
        PROVE  f[k] = IF k = 0 THEN <<>> ELSE Pass(f, k)
    <3> HIDE DEF Pass
    <3> QED
      BY <1>4, <1>5
  <2>3. Is(f)
    BY <2>1, <2>2, Zenon
  <2> HIDE DEF Is
  <2> QED
    BY <2>3
<1>7. ASSUME NEW g, Is(g)
      PROVE  f[n] = g[n]
  <2>1. ASSUME NEW k \in 0 .. n
        PROVE  g[k] = IF k = 0 THEN <<>> ELSE Pass(g, k)
    BY <1>7, Zenon
  <2>2. g[0] = <<>>
    <3>1. 0 \in 0 .. n
      BY <1>1
    <3> QED
      BY <2>1, <3>1, Zenon
  <2>3. ASSUME NEW k \in 1 .. n, f[k - 1] = g[k - 1]
        PROVE  f[k] = g[k]
    <3>1. g[k] = Pass(g, k)
      <4> HIDE DEF Pass
      <4> QED
        BY <2>1
    <3> QED
      BY <1>5, <2>3, <3>1
  <2> QED
    BY <1>1, <1>4, <2>2, <2>3, LoopsAgreeAt
<1>8. convertKeygenCommitteeToBytes(list) =
        SubSeq((CHOOSE g : Is(g))[n], 1, Len((CHOOSE g : Is(g))[n]) - 1)
  BY DEF convertKeygenCommitteeToBytes
<1> QED
  BY <1>4, <1>5, <1>6, <1>7, <1>8

LEMMA IdsLoop ==
  ASSUME NEW bytes \in Seq(Nat)
  PROVE  \E ids \in [0 .. Len(bytes) -> (Seq(Seq(Nat)) \ {<<>>})] :
           /\ IdsOf(bytes) = ids[Len(bytes)]
           /\ ids[0] = << <<>> >>
           /\ \A k \in 1 .. Len(bytes) :
                ids[k] = IF bytes[k] = 0 THEN Append(ids[k - 1], <<>>)
                         ELSE [ids[k - 1] EXCEPT ![Len(ids[k - 1])] = Append(@, bytes[k])]
<1> DEFINE n == Len(bytes)
           none == << <<>> >>
           V == (Seq(Seq(Nat)) \ {<<>>})
           step == [k \in 1 .. n |-> [v \in V |->
                      IF bytes[k] = 0 THEN Append(v, <<>>)
                      ELSE [v EXCEPT ![Len(v)] = Append(@, bytes[k])]]]
           Pass(f, k) == IF bytes[k] = 0 THEN Append(f[k - 1], <<>>)
                         ELSE [f[k - 1] EXCEPT ![Len(f[k - 1])] = Append(@, bytes[k])]
           Is(f) == f = [k \in 0 .. n |-> IF k = 0 THEN none ELSE Pass(f, k)]
<1>1. n \in Nat
  OBVIOUS
<1>2. none \in V /\ \A k \in 1 .. n : \A v \in V : step[k][v] \in V
  <2>1. ASSUME NEW k \in 1 .. n, NEW v \in V
        PROVE  Append(v, <<>>) \in V /\ [v EXCEPT ![Len(v)] = Append(@, bytes[k])] \in V
    <3>1. bytes[k] \in Nat /\ v \in Seq(Seq(Nat)) /\ Len(v) \in 1 .. Len(v)
      OBVIOUS
    <3>2. <<>> \in Seq(Nat) /\ Append(v[Len(v)], bytes[k]) \in Seq(Nat)
      BY <3>1
    <3>3. Append(v, <<>>) \in V
      <4>1. Append(v, <<>>) \in Seq(Seq(Nat)) /\ Len(Append(v, <<>>)) = Len(v) + 1
        BY <3>1, <3>2
      <4>2. Len(v) + 1 # 0
        BY <3>1
      <4> QED
        BY <4>1, <4>2
    <3>4. [v EXCEPT ![Len(v)] = Append(@, bytes[k])] \in V
      BY <3>1, <3>2
    <3> QED
      BY <3>3, <3>4
  <2>2. none \in V
    OBVIOUS
  <2> QED
    BY <2>1, <2>2
<1> HIDE DEF none
<1>3. PICK f : Computes(f, n, V, none, step)
  <2> HIDE DEF step, V, n
  <2> QED
    BY <1>1, <1>2, LoopExists
<1>4. f \in [0 .. n -> V] /\ f[0] = none
  BY <1>3 DEF Computes
<1>5. ASSUME NEW k \in 1 .. n
      PROVE  f[k] = Pass(f, k)
  <2>1. f[k] = step[k][f[k - 1]]
    BY <1>3 DEF Computes
  <2>2. f[k - 1] \in V
    <3>1. k - 1 \in 0 .. n
      OBVIOUS
    <3> QED
      BY <1>4, <3>1, Zenon
  <2> QED
    BY <2>1, <2>2
<1>6. Is(CHOOSE g : Is(g))
  <2>1. f = [k \in 0 .. n |-> f[k]]
    BY <1>4
  <2>2. ASSUME NEW k \in 0 .. n
        PROVE  f[k] = IF k = 0 THEN none ELSE Pass(f, k)
    <3> HIDE DEF Pass
    <3> QED
      BY <1>4, <1>5
  <2>3. Is(f)
    BY <2>1, <2>2, Zenon
  <2> HIDE DEF Is
  <2> QED
    BY <2>3
<1>7. ASSUME NEW g, Is(g)
      PROVE  f[n] = g[n]
  <2>1. ASSUME NEW k \in 0 .. n
        PROVE  g[k] = IF k = 0 THEN none ELSE Pass(g, k)
    BY <1>7, Zenon
  <2>2. g[0] = none
    <3>1. 0 \in 0 .. n
      BY <1>1
    <3> QED
      BY <2>1, <3>1, Zenon
  <2>3. ASSUME NEW k \in 1 .. n, f[k - 1] = g[k - 1]
        PROVE  f[k] = g[k]
    <3>1. g[k] = Pass(g, k)
      <4> HIDE DEF Pass
      <4> QED
        BY <2>1
    <3> QED
      BY <1>5, <2>3, <3>1
  <2> QED
    BY <1>1, <1>4, <2>2, <2>3, LoopsAgreeAt
<1>8. IdsOf(bytes) = (CHOOSE g : Is(g))[n]
  BY DEF IdsOf, none
<1>9. /\ IdsOf(bytes) = f[n]
      /\ f[0] = << <<>> >>
      /\ \A k \in 1 .. n : f[k] = Pass(f, k)
  BY <1>4, <1>5, <1>6, <1>7, <1>8 DEF none
<1> QED
  BY <1>4, <1>9

(* The names that have been read when j bytes of name m + 1 have.             *)
Spelled(list, m, j) ==
  [i \in 1 .. (m + 1) |-> IF i <= m THEN list[i] ELSE SubSeq(list[m + 1], 1, j)]

LEMMA SeqsEqual ==
  ASSUME NEW S, NEW s \in Seq(S), NEW t \in Seq(S), Len(s) = Len(t),
         \A i \in 1 .. Len(s) : s[i] = t[i]
  PROVE  s = t
OBVIOUS

LEMMA AppendIs ==
  ASSUME NEW S, NEW s \in Seq(S), NEW e \in S
  PROVE  /\ Append(s, e) \in Seq(S)
         /\ Len(Append(s, e)) = Len(s) + 1
         /\ \A i \in 1 .. Len(s) : Append(s, e)[i] = s[i]
         /\ Append(s, e)[Len(s) + 1] = e
OBVIOUS

LEMMA PrefixIs ==
  ASSUME NEW S, NEW s \in Seq(S), NEW k \in 0 .. Len(s)
  PROVE  /\ SubSeq(s, 1, k) \in Seq(S)
         /\ Len(SubSeq(s, 1, k)) = k
         /\ \A i \in 1 .. k : SubSeq(s, 1, k)[i] = s[i]
OBVIOUS

LEMMA SpelledIs ==
  ASSUME NEW list \in Seq(Seq(Nat \ {0})), NEW m \in 0 .. (Len(list) - 1),
         NEW j \in 0 .. Len(list[m + 1])
  PROVE  /\ Spelled(list, m, j) \in Seq(Seq(Nat \ {0}))
         /\ Len(Spelled(list, m, j)) = m + 1
         /\ \A i \in 1 .. m : Spelled(list, m, j)[i] = list[i]
         /\ Spelled(list, m, j)[m + 1] = SubSeq(list[m + 1], 1, j)
<1> DEFINE t == SubSeq(list[m + 1], 1, j)
<1>1. list[m + 1] \in Seq(Nat \ {0})
  OBVIOUS
<1>2. t \in Seq(Nat \ {0})
  BY <1>1
<1> HIDE DEF t
<1>3. Spelled(list, m, j) = [i \in 1 .. (m + 1) |-> IF i <= m THEN list[i] ELSE t]
  BY Zenon DEF Spelled, t
<1>4. \A i \in 1 .. (m + 1) : (IF i <= m THEN list[i] ELSE t) \in Seq(Nat \ {0})
  BY <1>2
<1>5. Spelled(list, m, j) = [i \in 1 .. (m + 1) |-> IF i <= m THEN list[i] ELSE t]
      => /\ Spelled(list, m, j) \in Seq(Seq(Nat \ {0}))
         /\ Len(Spelled(list, m, j)) = m + 1
         /\ \A i \in 1 .. m : Spelled(list, m, j)[i] = list[i]
         /\ Spelled(list, m, j)[m + 1] = t
  BY <1>4
<1> QED
  BY <1>3, <1>5, Zenon DEF t

LEMMA SpelledStart ==
  ASSUME NEW list \in Seq(Seq(Nat \ {0})), list # <<>>
  PROVE  Spelled(list, 0, 0) = << <<>> >>
<1>1. ASSUME NEW m \in 0 .. (Len(list) - 1), m = 0
      PROVE  Spelled(list, m, m) = << <<>> >>
  <2> DEFINE r == Spelled(list, m, m)
  <2>1. list[m + 1] \in Seq(Nat \ {0}) /\ m \in 0 .. Len(list[m + 1])
    BY <1>1
  <2>2. SubSeq(list[m + 1], 1, m) = <<>>
    BY <1>1, <2>1
  <2>3. r \in Seq(Seq(Nat \ {0})) /\ Len(r) = m + 1 /\ r[m + 1] = SubSeq(list[m + 1], 1, m)
    BY <2>1, SpelledIs
  <2> HIDE DEF r
  <2>4. r \in Seq(Seq(Nat \ {0})) /\ Len(r) = 1 /\ r[1] = <<>>
    <3>1. m + 1 = 1
      BY <1>1
    <3> QED
      BY <2>2, <2>3, <3>1, Zenon
  <2>5. r = << <<>> >>
    BY <2>4
  <2> QED
    BY <2>5, Zenon DEF r
<1>2. 0 \in 0 .. (Len(list) - 1)
  OBVIOUS
<1> QED
  BY <1>1, <1>2

LEMMA SpelledByte ==
  ASSUME NEW list \in Seq(Seq(Nat \ {0})), NEW m \in 0 .. (Len(list) - 1),
         NEW j \in 0 .. (Len(list[m + 1]) - 1), NEW ids, ids = Spelled(list, m, j)
  PROVE  [ids EXCEPT ![Len(ids)] = Append(@, list[m + 1][j + 1])] = Spelled(list, m, j + 1)
<1> DEFINE s == list[m + 1]
           t == Spelled(list, m, j + 1)
           u == [ids EXCEPT ![m + 1] = SubSeq(s, 1, j + 1)]
<1>1. /\ s \in Seq(Nat \ {0})
      /\ Append(SubSeq(s, 1, j), s[j + 1]) = SubSeq(s, 1, j + 1)
      /\ SubSeq(s, 1, j + 1) \in Seq(Nat \ {0})
      /\ j \in 0 .. Len(s) /\ j + 1 \in 0 .. Len(s)
  <2>1. s \in Seq(Nat \ {0})
    OBVIOUS
  <2>2. j \in 0 .. Len(s) /\ j + 1 \in 0 .. Len(s) /\ j + 1 \in 1 .. Len(s)
    OBVIOUS
  <2> HIDE DEF s
  <2>3. SubSeq(s, 1, j + 1) \in Seq(Nat \ {0})
    BY <2>1, <2>2
  <2>4. Append(SubSeq(s, 1, j), s[j + 1]) = SubSeq(s, 1, j + 1)
    <3> DEFINE x == SubSeq(s, 1, j)
               y == SubSeq(s, 1, j + 1)
               e == s[j + 1]
               z == Append(x, e)
    <3>1. x \in Seq(Nat \ {0}) /\ Len(x) = j /\ \A i \in 1 .. j : x[i] = s[i]
      BY <2>1, <2>2, PrefixIs, Zenon
    <3>2. y \in Seq(Nat \ {0}) /\ Len(y) = j + 1 /\ \A i \in 1 .. (j + 1) : y[i] = s[i]
      BY <2>1, <2>2, PrefixIs, Zenon
    <3>3. e \in Nat \ {0}
      BY <2>1, <2>2
    <3> HIDE DEF x, y, e
    <3>4. /\ z \in Seq(Nat \ {0}) /\ Len(z) = j + 1
          /\ \A i \in 1 .. j : z[i] = x[i]
          /\ z[j + 1] = e
      BY <3>1, <3>3
    <3> HIDE DEF z
    <3>5. \A i \in 1 .. (j + 1) : i \in 1 .. j \/ i = j + 1
      BY <2>2
    <3>6. y[j + 1] = e
      <4>1. j + 1 \in 1 .. (j + 1)
        BY <2>2
      <4> QED
        BY <3>2, <4>1, Zenon DEF e
    <3>7. \A i \in 1 .. j : i \in 1 .. (j + 1)
      BY <2>2
    <3>8. \A i \in 1 .. (j + 1) : z[i] = y[i]
      BY <3>1, <3>2, <3>4, <3>5, <3>6, <3>7, Zenon
    <3>9. z = y
      BY <3>2, <3>4, <3>8, SeqsEqual, Zenon
    <3> QED
      BY <3>9, Zenon DEF x, y, z, e
  <2> QED
    BY <2>1, <2>2, <2>3, <2>4
<1>2. /\ ids \in Seq(Seq(Nat \ {0})) /\ Len(ids) = m + 1
      /\ \A i \in 1 .. m : ids[i] = list[i]
      /\ ids[m + 1] = SubSeq(s, 1, j)
  BY <1>1, SpelledIs
<1>3. /\ t \in Seq(Seq(Nat \ {0})) /\ Len(t) = m + 1
      /\ \A i \in 1 .. m : t[i] = list[i]
      /\ t[m + 1] = SubSeq(s, 1, j + 1)
  BY <1>1, SpelledIs
<1>4. [ids EXCEPT ![Len(ids)] = Append(@, s[j + 1])] = u
  BY <1>1, <1>2
<1> HIDE DEF s, t
<1>5. u \in Seq(Seq(Nat \ {0})) /\ Len(u) = m + 1
  <2> DEFINE w == SubSeq(s, 1, j + 1)
  <2>1. w \in Seq(Nat \ {0})
    BY <1>1
  <2>2. u = [ids EXCEPT ![m + 1] = w]
    OBVIOUS
  <2> HIDE DEF w, u
  <2> QED
    BY <1>2, <2>1, <2>2
<1>6. ASSUME NEW i \in 1 .. (m + 1)
      PROVE  u[i] = t[i]
  <2>1. CASE i = m + 1
    <3> DEFINE w == SubSeq(s, 1, j + 1)
    <3> HIDE DEF w
    <3>1. u[m + 1] = w
      BY <1>2 DEF w
    <3> QED
      BY <1>3, <2>1, <3>1, Zenon DEF w
  <2>2. CASE i # m + 1
    <3>1. i \in 1 .. m
      BY <2>2
    <3> DEFINE w == SubSeq(s, 1, j + 1)
    <3> HIDE DEF w
    <3>2. u[i] = ids[i]
      BY <1>2, <2>2 DEF w
    <3> QED
      BY <1>2, <1>3, <3>1, <3>2, Zenon
  <2> QED
    BY <2>1, <2>2
<1>7. u = t
  <2> HIDE DEF u
  <2> QED
    BY <1>3, <1>5, <1>6, SeqsEqual
<1> QED
  BY <1>4, <1>7, Zenon DEF s, t

LEMMA SpelledZero ==
  ASSUME NEW list \in Seq(Seq(Nat \ {0})), NEW m \in 0 .. (Len(list) - 2)
  PROVE  Append(Spelled(list, m, Len(list[m + 1])), <<>>) = Spelled(list, m + 1, 0)
<1> DEFINE s == list[m + 1]
           r == Spelled(list, m, Len(s))
           t == Spelled(list, m + 1, 0)
<1>1. /\ s \in Seq(Nat \ {0}) /\ SubSeq(s, 1, Len(s)) = s
      /\ list[m + 2] \in Seq(Nat \ {0}) /\ SubSeq(list[m + 2], 1, 0) = <<>>
      /\ m \in 0 .. (Len(list) - 1) /\ m + 1 \in 0 .. (Len(list) - 1)
      /\ (m + 1) + 1 = m + 2
      /\ Len(s) \in 0 .. Len(s) /\ 0 \in 0 .. Len(list[m + 2])
  OBVIOUS
<1>2. /\ r \in Seq(Seq(Nat \ {0})) /\ Len(r) = m + 1
      /\ \A i \in 1 .. m : r[i] = list[i]
      /\ r[m + 1] = s
  BY <1>1, SpelledIs
<1>3. /\ t \in Seq(Seq(Nat \ {0})) /\ Len(t) = m + 2
      /\ \A i \in 1 .. (m + 1) : t[i] = list[i]
      /\ t[m + 2] = <<>>
  BY <1>1, SpelledIs
<1> HIDE DEF r, t
<1>4. /\ Append(r, <<>>) \in Seq(Seq(Nat \ {0})) /\ Len(Append(r, <<>>)) = m + 2
      /\ \A i \in 1 .. (m + 2) : Append(r, <<>>)[i] = t[i]
  <2> DEFINE e == <<>>
             a == Append(r, e)
  <2>1. e \in Seq(Nat \ {0})
    OBVIOUS
  <2>2. t[m + 2] = e
    BY <1>3
  <2> HIDE DEF e
  <2>3. /\ a \in Seq(Seq(Nat \ {0})) /\ Len(a) = m + 2
        /\ \A i \in 1 .. (m + 1) : a[i] = r[i]
        /\ a[m + 2] = e
    <3>1. /\ a \in Seq(Seq(Nat \ {0}))
          /\ Len(a) = Len(r) + 1
          /\ \A i \in 1 .. Len(r) : a[i] = r[i]
          /\ a[Len(r) + 1] = e
      BY <1>2, <2>1, AppendIs
    <3> HIDE DEF a
    <3> QED
      BY <1>2, <3>1
  <2> HIDE DEF a
  <2>4. ASSUME NEW i \in 1 .. (m + 1)
        PROVE  r[i] = list[i]
    <3>1. i \in 1 .. m \/ i = m + 1
      OBVIOUS
    <3> QED
      BY <1>2, <3>1, Zenon
  <2>5. ASSUME NEW i \in 1 .. (m + 2)
        PROVE  a[i] = t[i]
    <3>1. CASE i = m + 2
      BY <2>2, <2>3, <3>1
    <3>2. CASE i # m + 2
      <4>1. i \in 1 .. (m + 1)
        BY <3>2
      <4> QED
        BY <1>3, <2>3, <2>4, <4>1
    <3> QED
      BY <3>1, <3>2
  <2> QED
    BY <2>3, <2>5 DEF a, e
<1>5. Append(r, <<>>) = t
  BY <1>3, <1>4, SeqsEqual
<1> QED
  BY <1>5, Zenon DEF r, t

LEMMA SpelledAll ==
  ASSUME NEW list \in Seq(Seq(Nat \ {0})), list # <<>>
  PROVE  Spelled(list, Len(list) - 1, Len(list[Len(list)])) = list
<1> DEFINE n == Len(list)
           s == list[n]
           r == Spelled(list, n - 1, Len(s))
<1>1. /\ s \in Seq(Nat \ {0}) /\ SubSeq(s, 1, Len(s)) = s
      /\ n - 1 \in 0 .. (n - 1) /\ (n - 1) + 1 = n
      /\ Len(s) \in 0 .. Len(s)
  OBVIOUS
<1>2. /\ r \in Seq(Seq(Nat \ {0})) /\ Len(r) = (n - 1) + 1
      /\ \A i \in 1 .. (n - 1) : r[i] = list[i]
      /\ r[(n - 1) + 1] = SubSeq(list[(n - 1) + 1], 1, Len(s))
  <2>1. Len(s) \in 0 .. Len(list[(n - 1) + 1])
    BY <1>1
  <2> QED
    BY <1>1, <2>1, SpelledIs, Zenon
<1> HIDE DEF r
<1>3. Len(r) = Len(list) /\ r[n] = list[n]
  BY <1>1, <1>2
<1>4. \A i \in 1 .. Len(r) : r[i] = list[i]
  BY <1>2, <1>3
<1>5. r = list
  BY <1>2, <1>3, <1>4, SeqsEqual, Zenon
<1> QED
  BY <1>5, Zenon DEF r

(* The bytes of a name stand in w after the first d bytes.                    *)
After(w, d, name) == \A i \in 1 .. Len(name) : w[d + i] = name[i]

(* w begins with the bytes of s.                                             *)
Begins(w, s) == \A i \in 1 .. Len(s) : w[i] = s[i]

LEMMA ConcatIs ==
  ASSUME NEW S, NEW s \in Seq(S), NEW t \in Seq(S)
  PROVE  /\ s \o t \in Seq(S)
         /\ Len(s \o t) = Len(s) + Len(t)
         /\ Begins(s \o t, s)
         /\ After(s \o t, Len(s), t)
BY DEF Begins, After

(* What the loop of convertKeygenCommitteeToBytes has joined after each name. *)
Joins(list, joined) ==
  /\ joined \in [0 .. Len(list) -> Seq(Nat)]
  /\ joined[0] = <<>>
  /\ \A k \in 1 .. Len(list) : joined[k] = joined[k - 1] \o Append(list[k], 0)

LEMMA JoinStep ==
  ASSUME NEW list \in Seq(Seq(Nat \ {0})), NEW joined, Joins(list, joined),
         NEW m \in 0 .. (Len(list) - 1)
  PROVE  /\ joined[m] \in Seq(Nat) /\ joined[m + 1] \in Seq(Nat)
         /\ Len(joined[m + 1]) = Len(joined[m]) + Len(list[m + 1]) + 1
         /\ Begins(joined[m + 1], joined[m])
         /\ After(joined[m + 1], Len(joined[m]), list[m + 1])
         /\ joined[m + 1][Len(joined[m]) + Len(list[m + 1]) + 1] = 0
<1> DEFINE s == joined[m]
           name == list[m + 1]
           t == Append(name, 0)
<1>1. m \in 0 .. Len(list) /\ m + 1 \in 1 .. Len(list) /\ (m + 1) - 1 = m
  OBVIOUS
<1>2. s \in Seq(Nat) /\ joined[m + 1] = s \o t
  BY <1>1, Zenon DEF Joins
<1>3. name \in Seq(Nat \ {0})
  BY <1>1
<1>4. name \in Seq(Nat) /\ 0 \in Nat
  BY <1>3
<1> HIDE DEF name
<1>5. /\ t \in Seq(Nat) /\ Len(t) = Len(name) + 1
      /\ \A i \in 1 .. Len(name) : t[i] = name[i]
      /\ t[Len(name) + 1] = 0
  BY <1>4, AppendIs
<1> HIDE DEF s, t
<1>6. /\ s \o t \in Seq(Nat)
      /\ Len(s \o t) = Len(s) + Len(t)
      /\ Begins(s \o t, s)
      /\ After(s \o t, Len(s), t)
  BY <1>2, <1>5, ConcatIs, Zenon
<1> DEFINE w == s \o t
<1> HIDE DEF w
<1>7. /\ w \in Seq(Nat)
      /\ Len(w) = Len(s) + Len(name) + 1
      /\ Begins(w, s)
      /\ After(w, Len(s), name)
      /\ w[Len(s) + Len(name) + 1] = 0
  <2>1. Len(s) \in Nat /\ Len(name) \in Nat
    BY <1>2, <1>4
  <2>2. /\ w \in Seq(Nat)
        /\ Len(w) = Len(s) + Len(t)
        /\ Begins(w, s)
        /\ \A i \in 1 .. Len(t) : w[Len(s) + i] = t[i]
    BY <1>6, Zenon DEF w, After
  <2>3. Len(w) = Len(s) + Len(name) + 1
    BY <1>5, <2>1, <2>2
  <2>4. ASSUME NEW i \in 1 .. Len(name)
        PROVE  w[Len(s) + i] = name[i]
    <3>1. i \in 1 .. Len(t)
      BY <1>5, <2>1
    <3> QED
      BY <1>5, <2>2, <3>1, Zenon
  <2>5. w[Len(s) + Len(name) + 1] = 0
    <3>1. /\ Len(name) + 1 \in 1 .. Len(t)
          /\ Len(s) + Len(name) + 1 = Len(s) + (Len(name) + 1)
      BY <1>5, <2>1
    <3> QED
      BY <1>5, <2>2, <3>1, Zenon
  <2> QED
    BY <2>2, <2>3, <2>4, <2>5, Zenon DEF After
<1> QED
  BY <1>2, <1>7, Zenon DEF s, w, name

LEMMA JoinedKept ==
  ASSUME NEW list \in Seq(Seq(Nat \ {0})), NEW joined, Joins(list, joined),
         NEW k \in 0 .. Len(list)
  PROVE  \A m \in 0 .. Len(list) : m >= k =>
           /\ Len(joined[k]) <= Len(joined[m])
           /\ Begins(joined[m], joined[k])
<1> DEFINE n == Len(list)
           s == joined[k]
           D == {m \in 0 .. n : m >= k => /\ Len(s) <= Len(joined[m])
                                          /\ Begins(joined[m], s)}
<1>1. n \in Nat /\ k \in Nat
  OBVIOUS
<1>2. s \in Seq(Nat)
  BY DEF Joins
<1> HIDE DEF s
<1>3. 0 \in D
  <2>1. 0 >= k => k = 0
    BY <1>1
  <2>2. Len(s) <= Len(s)
    BY <1>2
  <2>3. 0 \in 0 .. n
    BY <1>1
  <2> QED
    BY <2>1, <2>2, <2>3, Zenon DEF s, Begins
<1>4. ASSUME NEW m \in 0 .. (n - 1), m \in D
      PROVE  m + 1 \in D
  <2>1. m + 1 \in 0 .. n
    BY <1>1
  <2>2. CASE m >= k
    <3>1. Len(s) <= Len(joined[m]) /\ Begins(joined[m], s)
      BY <1>4, <2>2
    <3>2. /\ joined[m] \in Seq(Nat)
          /\ Len(joined[m + 1]) = Len(joined[m]) + Len(list[m + 1]) + 1
          /\ Begins(joined[m + 1], joined[m])
      BY JoinStep, Zenon
    <3>3. Len(joined[m]) \in Nat /\ Len(list[m + 1]) \in Nat /\ Len(s) \in Nat
      <4>1. joined[m] \in Seq(Nat) /\ list[m + 1] \in Seq(Nat \ {0})
        BY <3>2
      <4> QED
        BY <1>2, <4>1
    <3>4. Len(s) <= Len(joined[m + 1])
      <4>1. Len(s) <= Len(joined[m])
        BY <3>1
      <4>2. Len(joined[m + 1]) = Len(joined[m]) + Len(list[m + 1]) + 1
        BY <3>2
      <4> DEFINE x == Len(s)
                 y == Len(joined[m])
                 z == Len(list[m + 1])
      <4> HIDE DEF x, y, z
      <4>3. x \in Nat /\ y \in Nat /\ z \in Nat /\ x <= y
        BY <3>3, <4>1, Zenon DEF x, y, z
      <4>4. x <= y + z + 1
        BY <4>3
      <4> QED
        BY <4>2, <4>4, Zenon DEF x, y, z
    <3>5. Begins(joined[m + 1], s)
      <4> SUFFICES ASSUME NEW i \in 1 .. Len(s)
                   PROVE  joined[m + 1][i] = s[i]
        BY Zenon DEF Begins
      <4>1. i \in 1 .. Len(joined[m])
        BY <3>1, <3>3
      <4> QED
        BY <3>1, <3>2, <4>1, Zenon DEF Begins
    <3> QED
      BY <2>1, <3>4, <3>5
  <2>3. CASE m + 1 = k
    <3>1. Len(s) <= Len(s)
      BY <1>2
    <3> QED
      BY <2>1, <2>3, <3>1, Zenon DEF s, Begins
  <2>4. CASE ~ (m + 1 >= k)
    BY <2>1, <2>4
  <2>5. m >= k \/ m + 1 = k \/ ~ (m + 1 >= k)
    BY <1>1
  <2> QED
    BY <2>2, <2>3, <2>4, <2>5
<1> HIDE DEF D
<1>5. \A m \in 0 .. n : m \in D
  <2> HIDE DEF n
  <2> QED
    BY <1>1, <1>3, <1>4, LoopInduction
<1> QED
  BY <1>5 DEF D, s

(* Where name m + 1 and the zero byte after it are.                           *)
Stands(list, joined, bytes, m) ==
  /\ bytes \in Seq(Nat)
  /\ Len(bytes) = Len(joined[Len(list)]) - 1
  /\ Len(joined[m]) + Len(list[m + 1]) <= Len(bytes)
  /\ After(bytes, Len(joined[m]), list[m + 1])
  /\ m + 1 < Len(list) =>
       /\ Len(joined[m + 1]) = Len(joined[m]) + Len(list[m + 1]) + 1
       /\ Len(joined[m + 1]) <= Len(bytes)
       /\ bytes[Len(joined[m + 1])] = 0

LEMMA BytesAre ==
  ASSUME NEW list \in Seq(Seq(Nat \ {0})), NEW joined, Joins(list, joined),
         NEW bytes, bytes = SubSeq(joined[Len(list)], 1, Len(joined[Len(list)]) - 1),
         NEW m \in 0 .. (Len(list) - 1)
  PROVE  Stands(list, joined, bytes, m)
<1> DEFINE n == Len(list)
           w == joined[n]
           a == Len(joined[m])
           b == Len(list[m + 1])
           c == Len(joined[m + 1])
<1>1. n \in Nat /\ n \in 0 .. n /\ m + 1 \in 0 .. n /\ m + 1 <= n
  OBVIOUS
<1>2. /\ joined[m] \in Seq(Nat) /\ joined[m + 1] \in Seq(Nat)
      /\ c = a + b + 1
      /\ After(joined[m + 1], a, list[m + 1])
      /\ joined[m + 1][a + b + 1] = 0
  BY JoinStep, Zenon
<1>3. list[m + 1] \in Seq(Nat \ {0}) /\ a \in Nat /\ b \in Nat
  BY <1>1, <1>2
<1>4. w \in Seq(Nat) /\ Len(w) \in Nat
  <2>1. joined \in [0 .. n -> Seq(Nat)]
    BY Zenon DEF Joins
  <2>2. w \in Seq(Nat)
    BY <1>1, <2>1, Zenon
  <2> HIDE DEF w
  <2> QED
    BY <2>2
<1>5. c <= Len(w) /\ \A i \in 1 .. c : w[i] = joined[m + 1][i]
  <2>1. n >= m + 1
    BY <1>1
  <2>2. \A k \in 0 .. n : k >= m + 1 =>
          /\ Len(joined[m + 1]) <= Len(joined[k])
          /\ Begins(joined[k], joined[m + 1])
    BY <1>1, JoinedKept, Zenon
  <2> QED
    BY <1>1, <2>1, <2>2, Zenon DEF Begins
<1>6. \A k \in 0 .. (n - 1) : Len(joined[k + 1]) >= 1 /\ Len(joined[k]) \in Nat
  <2> SUFFICES ASSUME NEW k \in 0 .. (n - 1)
               PROVE  Len(joined[k + 1]) >= 1 /\ Len(joined[k]) \in Nat
    OBVIOUS
  <2>1. /\ joined[k] \in Seq(Nat)
        /\ Len(joined[k + 1]) = Len(joined[k]) + Len(list[k + 1]) + 1
    BY JoinStep, Zenon
  <2>2. list[k + 1] \in Seq(Nat \ {0})
    OBVIOUS
  <2> DEFINE x == Len(joined[k])
             y == Len(list[k + 1])
  <2>3. x \in Nat /\ y \in Nat
    BY <2>1, <2>2
  <2>4. Len(joined[k + 1]) = x + y + 1
    BY <2>1
  <2> HIDE DEF x, y
  <2>5. Len(joined[k + 1]) >= 1
    BY <2>3, <2>4
  <2> QED
    BY <2>3, <2>5 DEF x
<1> HIDE DEF w, n, a, b, c
<1>0. c = a + b + 1 /\ c <= Len(w)
  BY <1>2, <1>5
<1>7. /\ bytes \in Seq(Nat)
      /\ Len(bytes) = Len(w) - 1
      /\ \A i \in 1 .. (Len(w) - 1) : bytes[i] = w[i]
  <2>1. bytes = SubSeq(w, 1, Len(w) - 1)
    BY Zenon DEF w, n
  <2>2. Len(w) >= 1
    BY <1>0, <1>3, <1>4
  <2>3. Len(w) - 1 \in 0 .. Len(w)
    BY <1>4, <2>2
  <2>4. /\ SubSeq(w, 1, Len(w) - 1) \in Seq(Nat)
        /\ Len(SubSeq(w, 1, Len(w) - 1)) = Len(w) - 1
        /\ \A i \in 1 .. (Len(w) - 1) : SubSeq(w, 1, Len(w) - 1)[i] = w[i]
    BY <1>4, <2>3, PrefixIs, Zenon
  <2> QED
    BY <2>1, <2>4, Zenon
<1>8. a + b <= Len(bytes)
  <2> DEFINE x == Len(w)
             y == Len(bytes)
  <2>1. y = x - 1 /\ x \in Nat /\ c = a + b + 1 /\ c <= x
    BY <1>0, <1>4, <1>7, Zenon
  <2> HIDE DEF x, y
  <2>2. a + b <= y
    BY <1>3, <2>1
  <2> QED
    BY <2>2 DEF y
<1>9. After(bytes, a, list[m + 1])
  <2> SUFFICES ASSUME NEW i \in 1 .. b
               PROVE  bytes[a + i] = list[m + 1][i]
    BY Zenon DEF After, b
  <2>0. joined[m + 1][a + i] = list[m + 1][i]
    BY <1>2, Zenon DEF After, b
  <2>1. a + i \in 1 .. (Len(w) - 1) /\ a + i \in 1 .. c
    BY <1>0, <1>3, <1>4
  <2> QED
    BY <1>5, <1>7, <2>0, <2>1, Zenon
<1>10. ASSUME m + 1 < n
       PROVE  c = a + b + 1 /\ c <= Len(bytes) /\ bytes[c] = 0
  <2>1. m + 1 \in 0 .. (n - 1)
    BY <1>1, <1>10
  <2>2. /\ joined[m + 2] \in Seq(Nat) /\ Len(list[m + 2]) \in Nat
        /\ Len(joined[m + 2]) = c + Len(list[m + 2]) + 1
    <3>1. /\ joined[(m + 1) + 1] \in Seq(Nat)
          /\ Len(joined[(m + 1) + 1]) = c + Len(list[(m + 1) + 1]) + 1
      BY <2>1, JoinStep, Zenon DEF n, c
    <3>2. (m + 1) + 1 = m + 2 /\ m + 2 \in 1 .. n
      BY <1>1, <2>1
    <3>3. Len(list[m + 2]) \in Nat
      BY <3>2 DEF n
    <3> QED
      BY <3>1, <3>2, <3>3, Zenon
  <2>3. Len(joined[m + 2]) <= Len(w)
    <3>1. m + 2 \in 0 .. n /\ n \in 0 .. n /\ n >= m + 2
      BY <1>1, <1>10
    <3> QED
      BY <3>1, JoinedKept, Zenon DEF n, w
  <2>4. c \in 1 .. (Len(w) - 1) /\ c \in 1 .. c /\ c <= Len(bytes)
    <3>1. Len(bytes) = Len(w) - 1
      BY <1>7
    <3>2. Len(joined[m + 2]) = c + Len(list[m + 2]) + 1 /\ Len(list[m + 2]) \in Nat
      BY <2>2
    <3> DEFINE x == Len(w)
               y == Len(bytes)
               z == Len(joined[m + 2])
               t == Len(list[m + 2])
    <3>3. /\ y = x - 1 /\ x \in Nat /\ c = a + b + 1
          /\ z = c + t + 1 /\ t \in Nat /\ z <= x
      BY <1>0, <1>4, <2>3, <3>1, <3>2, Zenon
    <3> HIDE DEF x, y, z, t
    <3>4. c \in 1 .. (x - 1) /\ c \in 1 .. c /\ c <= y
      BY <1>3, <3>3
    <3> QED
      BY <3>4 DEF x, y
  <2> QED
    BY <1>2, <1>5, <1>7, <2>4, Zenon
<1>11. bytes \in Seq(Nat) /\ Len(bytes) = Len(w) - 1
  BY <1>7
<1> QED
  BY <1>8, <1>9, <1>10, <1>11, Zenon DEF Stands, w, n, a, b, c

LEMMA NamesOf ==
  ASSUME NEW list \in Seq(Seq(Nat \ {0})), list # <<>>
  PROVE  IdsOf(convertKeygenCommitteeToBytes(list)) = list
<1> DEFINE n == Len(list)
           bytes == convertKeygenCommitteeToBytes(list)
<1>1. PICK joined : /\ Joins(list, joined)
                    /\ bytes = SubSeq(joined[n], 1, Len(joined[n]) - 1)
  BY JoinLoop, Zenon DEF Joins
<1> DEFINE L(m) == Len(joined[m])
<1>2. n \in Nat /\ n >= 1 /\ 0 \in 0 .. (n - 1) /\ n - 1 \in 0 .. (n - 1)
  OBVIOUS
<1> HIDE DEF bytes
<1>3. ASSUME NEW m \in 0 .. (n - 1)
      PROVE  /\ bytes \in Seq(Nat)
             /\ Len(bytes) = L(n) - 1
             /\ L(m) + Len(list[m + 1]) <= Len(bytes)
             /\ After(bytes, L(m), list[m + 1])
             /\ m + 1 < n => /\ L(m + 1) = L(m) + Len(list[m + 1]) + 1
                             /\ L(m + 1) <= Len(bytes)
                             /\ bytes[L(m + 1)] = 0
  <2>1. Stands(list, joined, bytes, m)
    BY <1>1, BytesAre, Zenon
  <2> QED
    BY <2>1, Zenon DEF Stands
<1>4. ASSUME NEW m \in 0 .. (n - 1)
      PROVE  /\ L(m) \in Nat /\ Len(list[m + 1]) \in Nat
             /\ list[m + 1] \in Seq(Nat \ {0})
             /\ L(m + 1) = L(m) + Len(list[m + 1]) + 1
  <2>1. joined[m] \in Seq(Nat) /\ L(m + 1) = L(m) + Len(list[m + 1]) + 1
    BY <1>1, JoinStep, Zenon
  <2>2. list[m + 1] \in Seq(Nat \ {0})
    OBVIOUS
  <2> QED
    BY <2>1, <2>2
<1>5. bytes \in Seq(Nat) /\ Len(bytes) = L(n) - 1 /\ Len(bytes) \in Nat
  <2>1. bytes \in Seq(Nat) /\ Len(bytes) = L(n) - 1
    BY <1>2, <1>3, Zenon
  <2> QED
    BY <2>1
<1>6. PICK ids \in [0 .. Len(bytes) -> (Seq(Seq(Nat)) \ {<<>>})] :
        /\ IdsOf(bytes) = ids[Len(bytes)]
        /\ ids[0] = << <<>> >>
        /\ \A k \in 1 .. Len(bytes) :
             ids[k] = IF bytes[k] = 0 THEN Append(ids[k - 1], <<>>)
                      ELSE [ids[k - 1] EXCEPT ![Len(ids[k - 1])] = Append(@, bytes[k])]
  BY <1>5, IdsLoop
<1>7. ASSUME NEW m \in 0 .. (n - 1), ids[L(m)] = Spelled(list, m, 0)
      PROVE  \A j \in 0 .. Len(list[m + 1]) : ids[L(m) + j] = Spelled(list, m, j)
  <2> DEFINE s == list[m + 1]
             E == {j \in 0 .. Len(s) : ids[L(m) + j] = Spelled(list, m, j)}
  <2>1. L(m) \in Nat /\ Len(s) \in Nat /\ s \in Seq(Nat \ {0}) /\ L(m) + Len(s) <= Len(bytes)
    BY <1>3, <1>4
  <2>2. 0 \in E
    <3>1. L(m) + 0 = L(m) /\ 0 \in 0 .. Len(s)
      BY <2>1
    <3> QED
      BY <1>7, <3>1, Zenon
  <2>3. ASSUME NEW j \in 0 .. (Len(s) - 1), j \in E
        PROVE  j + 1 \in E
    <3>1. /\ L(m) + (j + 1) \in 1 .. Len(bytes)
          /\ (L(m) + (j + 1)) - 1 = L(m) + j
          /\ j + 1 \in 1 .. Len(s) /\ j + 1 \in 0 .. Len(s)
      <4> DEFINE x == L(m)
                 y == Len(s)
                 z == Len(bytes)
      <4>1. x \in Nat /\ y \in Nat /\ z \in Nat /\ x + y <= z /\ j \in 0 .. (y - 1)
        BY <1>5, <2>1
      <4> HIDE DEF x, y, z
      <4>2. /\ x + (j + 1) \in 1 .. z /\ (x + (j + 1)) - 1 = x + j
            /\ j + 1 \in 1 .. y /\ j + 1 \in 0 .. y
        BY <4>1
      <4> QED
        BY <4>2 DEF x, y, z
    <3>2. bytes[L(m) + (j + 1)] = s[j + 1]
      BY <1>3, <3>1, Zenon DEF After
    <3>3. s[j + 1] # 0
      BY <2>1, <3>1
    <3>4. ids[L(m) + j] = Spelled(list, m, j)
      BY <2>3
    <3>5. ids[L(m) + (j + 1)]
            = [ids[L(m) + j] EXCEPT ![Len(ids[L(m) + j])] = Append(@, s[j + 1])]
      BY <1>6, <3>1, <3>2, <3>3, Zenon
    <3>6. ids[L(m) + (j + 1)] = Spelled(list, m, j + 1)
      <4> DEFINE r == ids[L(m) + j]
      <4>1. r = Spelled(list, m, j)
        BY <3>4
      <4> HIDE DEF r
      <4>2. [r EXCEPT ![Len(r)] = Append(@, list[m + 1][j + 1])] = Spelled(list, m, j + 1)
        BY <4>1, SpelledByte, Zenon
      <4> QED
        BY <3>5, <4>2, Zenon DEF r
    <3> QED
      BY <3>1, <3>6, Zenon
  <2> HIDE DEF E
  <2>4. \A j \in 0 .. Len(s) : j \in E
    <3> DEFINE l == Len(s)
    <3>1. l \in Nat /\ 0 \in E /\ \A j \in 0 .. (l - 1) : j \in E => j + 1 \in E
      BY <2>1, <2>2, <2>3, Zenon
    <3> HIDE DEF l
    <3>2. \A j \in 0 .. l : j \in E
      BY <3>1, LoopInduction
    <3> QED
      BY <3>2 DEF l
  <2> QED
    BY <2>4, Zenon DEF E
<1> DEFINE D == {m \in 0 .. (n - 1) : ids[L(m)] = Spelled(list, m, 0)}
<1>8. 0 \in D
  <2>1. L(0) = 0
    BY <1>1 DEF Joins
  <2> QED
    BY <1>2, <1>6, <2>1, SpelledStart, Zenon
<1>9. ASSUME NEW m \in 0 .. ((n - 1) - 1), m \in D
      PROVE  m + 1 \in D
  <2>1. /\ m \in 0 .. (n - 1) /\ m + 1 \in 0 .. (n - 1) /\ m + 1 < n
        /\ m \in 0 .. (n - 2)
    BY <1>2
  <2>2. /\ L(m + 1) = L(m) + Len(list[m + 1]) + 1
        /\ L(m + 1) <= Len(bytes)
        /\ bytes[L(m + 1)] = 0
        /\ L(m) \in Nat /\ Len(list[m + 1]) \in Nat
    BY <1>3, <1>4, <2>1, Zenon
  <2>3. L(m + 1) \in 1 .. Len(bytes) /\ L(m + 1) - 1 = L(m) + Len(list[m + 1])
        /\ Len(list[m + 1]) \in 0 .. Len(list[m + 1])
    <3> DEFINE x == L(m)
               y == Len(list[m + 1])
               z == Len(bytes)
               c == L(m + 1)
    <3>1. x \in Nat /\ y \in Nat /\ z \in Nat /\ c = x + y + 1 /\ c <= z
      BY <1>5, <2>2, Zenon
    <3> HIDE DEF x, y, z, c
    <3>2. c \in 1 .. z /\ c - 1 = x + y /\ y \in 0 .. y
      BY <3>1
    <3> QED
      BY <3>2 DEF x, y, z, c
  <2>4. ids[L(m + 1) - 1] = Spelled(list, m, Len(list[m + 1]))
    BY <1>7, <1>9, <2>1, <2>3, Zenon
  <2>5. ids[L(m + 1)] = Append(ids[L(m + 1) - 1], <<>>)
    BY <1>6, <2>2, <2>3, Zenon
  <2>6. ids[L(m + 1)] = Spelled(list, m + 1, 0)
    BY <2>1, <2>4, <2>5, SpelledZero, Zenon
  <2> QED
    BY <2>1, <2>6, Zenon
<1> HIDE DEF D
<1>10. n - 1 \in D
  <2> DEFINE l == n - 1
  <2>0. l \in Nat
    BY <1>2
  <2>1. l \in Nat /\ 0 \in D /\ \A m \in 0 .. (l - 1) : m \in D => m + 1 \in D
    BY <1>8, <1>9, <2>0, Zenon
  <2>2. l \in 0 .. l
    BY <1>2
  <2> HIDE DEF l
  <2>3. \A m \in 0 .. l : m \in D
    BY <2>1, LoopInduction
  <2> QED
    BY <2>2, <2>3, Zenon DEF l
<1>11. /\ (n - 1) + 1 = n
       /\ L(n - 1) + Len(list[n]) = Len(bytes)
       /\ Len(list[n]) \in 0 .. Len(list[n])
  <2>1. (n - 1) + 1 = n
    BY <1>2
  <2>2. /\ L(n - 1) \in Nat /\ Len(list[(n - 1) + 1]) \in Nat
        /\ L((n - 1) + 1) = L(n - 1) + Len(list[(n - 1) + 1]) + 1
    BY <1>2, <1>4, Zenon
  <2>3. /\ L(n - 1) \in Nat /\ Len(list[n]) \in Nat
        /\ L(n) = L(n - 1) + Len(list[n]) + 1
    BY <2>1, <2>2, Zenon
  <2> QED
    BY <1>5, <2>1, <2>3
<1>12. ids[Len(bytes)] = Spelled(list, n - 1, Len(list[n]))
  <2>1. ids[L(n - 1)] = Spelled(list, n - 1, 0)
    BY <1>10 DEF D
  <2>2. \A j \in 0 .. Len(list[(n - 1) + 1]) : ids[L(n - 1) + j] = Spelled(list, n - 1, j)
    BY <1>2, <1>7, <2>1, Zenon
  <2> QED
    BY <1>11, <2>2, Zenon
<1> QED
  BY <1>6, <1>12, SpelledAll, Zenon DEF bytes

(* Whatever the names on the command line, the setup message of a keygen or   *)
(* of a keysign names exactly these parties in their order: joining the names *)
(* with zero bytes and dropping the last byte loses nothing                   *)
(* (keygen.go:565-579).                                                      *)
THEOREM SetupNames == Spec => []SetupNamesParties
<1>1. Init => SetupNamesParties
  BY DEF Init, Nothing, SetupNamesParties
<1>2. SetupNamesParties /\ [Next]_vars => SetupNamesParties'
  <2> SUFFICES ASSUME SetupNamesParties, [Next]_vars
               PROVE  SetupNamesParties'
    OBVIOUS
  <2>1. CASE UNCHANGED made
    BY <2>1, Zenon DEF SetupNamesParties
  <2>2. ASSUME NEW list \in Lists,
               made'.parties = list, made'.ids = convertKeygenCommitteeToBytes(list)
        PROVE  SetupNamesParties'
    <3>1. list \in Seq(Name) /\ list # <<>>
      BY ListsType
    <3>2. list \in Seq(Seq(Nat \ {0}))
      BY <3>1, NameAssumption
    <3> QED
      BY <2>2, <3>1, <3>2, NamesOf, Zenon DEF SetupNamesParties
  <2>3. CASE MakeSetup
    <3>1. PICK list \in Lists :
            \/ made'.for = "reshare"
            \/ /\ made'.parties = list
               /\ made'.ids = convertKeygenCommitteeToBytes(list)
      BY <2>3 DEF MakeSetup
    <3>2. CASE made'.for = "reshare"
      BY <3>2 DEF SetupNamesParties
    <3> QED
      BY <2>2, <3>1, <3>2
  <2> QED
    BY <2>1, <2>3 DEF Next, vars
<1> QED
  BY <1>1, <1>2, PTL DEF Spec

=============================================================================
