----------------------------- MODULE SetupProofs -----------------------------
(***************************************************************************)
(* Proofs about the rendezvous, for every committee, number of failures and *)
(* mix of operations.                                                       *)
(***************************************************************************)
EXTENDS Setup, FiniteSetTheorems, TLAPS

USE DEF vars, relayVars, Goto

LEMMA SetupTypeStep ==
  ASSUME TypeOK, [Next]_vars
  PROVE  TypeOK'
<1> USE SetupAssumption DEF TypeOK, NoFault, Fault, Fail
<1>1. CASE UNCHANGED vars
  BY <1>1
<1>2. ASSUME NEW p \in Party, Register(p)
      PROVE  TypeOK'
  BY <1>2 DEF Register, Rendezvous
<1>3. ASSUME NEW p \in Party, LoadShare(p)
      PROVE  TypeOK'
  BY <1>3 DEF LoadShare, Rendezvous
<1>4. ASSUME NEW p \in Party, WaitAllParties(p)
      PROVE  TypeOK'
  BY <1>4 DEF WaitAllParties
<1>5. ASSUME NEW p \in Party, MakeSetup(p)
      PROVE  TypeOK'
  BY <1>5 DEF MakeSetup, SetupMessage
<1>6. ASSUME NEW p \in Party, UploadPayload(p)
      PROVE  TypeOK'
  BY <1>6 DEF UploadPayload, Stored
<1>7. ASSUME NEW p \in Party, StartSession(p)
      PROVE  TypeOK'
  BY <1>7 DEF StartSession, StartList
<1>8. ASSUME NEW p \in Party, WaitForSessionStart(p)
      PROVE  TypeOK'
  BY <1>8 DEF WaitForSessionStart
<1>9. ASSUME NEW p \in Party, GetPayload(p)
      PROVE  TypeOK'
  BY <1>9 DEF GetPayload
<1>10. ASSUME NEW p \in Party, OpenSession(p)
       PROVE  TypeOK'
  BY <1>10 DEF OpenSession
<1> QED
  BY <1>1, <1>2, <1>3, <1>4, <1>5, <1>6, <1>7, <1>8, <1>9, <1>10 DEF Next, Step

(* Nobody goes ahead of the start. *)
LEMMA PlacesStep ==
  ASSUME TypeOK, Places, [Next]_vars
  PROVE  Places'
<1> USE SetupAssumption DEF TypeOK, Places, Fail
<1>1. CASE UNCHANGED vars
  BY <1>1
<1>2. ASSUME NEW p \in Party, Register(p)
      PROVE  Places'
  BY <1>2 DEF Register, Rendezvous, Leads
<1>3. ASSUME NEW p \in Party, LoadShare(p)
      PROVE  Places'
  BY <1>3 DEF LoadShare, Rendezvous, Leads
<1>4. ASSUME NEW p \in Party, WaitAllParties(p)
      PROVE  Places'
  BY <1>4 DEF WaitAllParties
<1>5. ASSUME NEW p \in Party, MakeSetup(p)
      PROVE  Places'
  <2>1. UNCHANGED <<registered, started>> /\ pc[p] = "make"
    BY <1>5 DEF MakeSetup
  <2>2. Goto(p, "upload") \/ Goto(p, "failed")
    BY <1>5 DEF MakeSetup
  <2> QED
    BY <2>1, <2>2
<1>6. ASSUME NEW p \in Party, UploadPayload(p)
      PROVE  Places'
  BY <1>6 DEF UploadPayload
<1>7. ASSUME NEW p \in Party, StartSession(p)
      PROVE  Places'
  BY <1>7 DEF StartSession, StartList
<1>8. ASSUME NEW p \in Party, WaitForSessionStart(p)
      PROVE  Places'
  BY <1>8 DEF WaitForSessionStart, HasStarted
<1>9. ASSUME NEW p \in Party, GetPayload(p)
      PROVE  Places'
  BY <1>9 DEF GetPayload
<1>10. ASSUME NEW p \in Party, OpenSession(p)
       PROVE  Places'
  BY <1>10 DEF OpenSession
<1> QED
  BY <1>1, <1>2, <1>3, <1>4, <1>5, <1>6, <1>7, <1>8, <1>9, <1>10 DEF Next, Step

(* Nobody goes ahead of the leader. *)
LEMMA OrderStep ==
  ASSUME TypeOK, Places, Order, [Next]_vars
  PROVE  Order'
<1> USE SetupAssumption DEF TypeOK, Places, Order, Fail
<1>1. CASE UNCHANGED vars
  BY <1>1
<1>2. ASSUME NEW p \in Party, Register(p)
      PROVE  Order'
  BY <1>2 DEF Register, Rendezvous, Leads
<1>3. ASSUME NEW p \in Party, LoadShare(p)
      PROVE  Order'
  BY <1>3 DEF LoadShare, Rendezvous, Leads
<1>4. ASSUME NEW p \in Party, WaitAllParties(p)
      PROVE  Order'
  BY <1>4 DEF WaitAllParties, AllPresent
<1>5. ASSUME NEW p \in Party, MakeSetup(p)
      PROVE  Order'
  <2>1. UNCHANGED <<fresh, registered, payload, started>> /\ pc[p] = "make"
    BY <1>5 DEF MakeSetup
  <2>2. \A q \in Party \ {p} : pc'[q] = pc[q] /\ setup'[q] = setup[q]
    BY <1>5 DEF MakeSetup
  <2>3. pc'[p] = "failed" \/ (pc'[p] = "upload" /\ setup'[p] # {})
    <3>1. CASE Goto(p, "failed")
      BY <3>1
    <3>2. CASE /\ Goto(p, "upload")
               /\ setup' = [setup EXCEPT ![p] = {[by |-> p, text |-> wants[p]]}]
      BY <3>2
    <3> QED
      BY <1>5, <3>1, <3>2 DEF MakeSetup
  <2> QED
    BY <2>1, <2>2, <2>3
<1>6. ASSUME NEW p \in Party, UploadPayload(p)
      PROVE  Order'
  BY <1>6 DEF UploadPayload, Stored
<1>7. ASSUME NEW p \in Party, StartSession(p)
      PROVE  Order'
  BY <1>7 DEF StartSession, StartList
<1>8. ASSUME NEW p \in Party, WaitForSessionStart(p)
      PROVE  Order'
  BY <1>8 DEF WaitForSessionStart, Leads
<1>9. ASSUME NEW p \in Party, GetPayload(p)
      PROVE  Order'
  BY <1>9 DEF GetPayload
<1>10. ASSUME NEW p \in Party, OpenSession(p)
       PROVE  Order'
  BY <1>10 DEF OpenSession
<1> QED
  BY <1>1, <1>2, <1>3, <1>4, <1>5, <1>6, <1>7, <1>8, <1>9, <1>10 DEF Next, Step

(* All copies of the setup message are the leader's. *)
LEMMA FromLeaderStep ==
  ASSUME TypeOK, Places, Order, FromLeader, [Next]_vars
  PROVE  FromLeader'
<1> USE SetupAssumption DEF TypeOK, FromLeader, Places, Order, Fail
<1>1. CASE UNCHANGED vars
  BY <1>1
<1>2. ASSUME NEW p \in Party, Register(p)
      PROVE  FromLeader'
  BY <1>2 DEF Register, Rendezvous
<1>3. ASSUME NEW p \in Party, LoadShare(p)
      PROVE  FromLeader'
  BY <1>3 DEF LoadShare, Rendezvous
<1>4. ASSUME NEW p \in Party, WaitAllParties(p)
      PROVE  FromLeader'
  BY <1>4 DEF WaitAllParties
<1>5. ASSUME NEW p \in Party, MakeSetup(p)
      PROVE  FromLeader'
  BY <1>5 DEF MakeSetup, SetupMessage
<1>6. ASSUME NEW p \in Party, UploadPayload(p)
      PROVE  FromLeader'
  BY <1>6 DEF UploadPayload, Stored
<1>7. ASSUME NEW p \in Party, StartSession(p)
      PROVE  FromLeader'
  BY <1>7 DEF StartSession, StartList
<1>8. ASSUME NEW p \in Party, WaitForSessionStart(p)
      PROVE  FromLeader'
  BY <1>8 DEF WaitForSessionStart
<1>9. ASSUME NEW p \in Party, GetPayload(p)
      PROVE  FromLeader'
  BY <1>9 DEF GetPayload
<1>10. ASSUME NEW p \in Party, OpenSession(p)
       PROVE  FromLeader'
  BY <1>10 DEF OpenSession
<1> QED
  BY <1>1, <1>2, <1>3, <1>4, <1>5, <1>6, <1>7, <1>8, <1>9, <1>10 DEF Next, Step

(* No session is opened without a setup message. *)
LEMMA HasSetupStep ==
  ASSUME TypeOK, SessionHasSetup, [Next]_vars
  PROVE  SessionHasSetup'
<1> USE SetupAssumption DEF TypeOK, SessionHasSetup, Live, Fail
<1>1. CASE UNCHANGED vars
  BY <1>1
<1>2. ASSUME NEW p \in Party, Register(p)
      PROVE  SessionHasSetup'
  BY <1>2 DEF Register, Rendezvous
<1>3. ASSUME NEW p \in Party, LoadShare(p)
      PROVE  SessionHasSetup'
  BY <1>3 DEF LoadShare, Rendezvous
<1>4. ASSUME NEW p \in Party, WaitAllParties(p)
      PROVE  SessionHasSetup'
  BY <1>4 DEF WaitAllParties
<1>5. ASSUME NEW p \in Party, MakeSetup(p)
      PROVE  SessionHasSetup'
  BY <1>5 DEF MakeSetup, SetupMessage
<1>6. ASSUME NEW p \in Party, UploadPayload(p)
      PROVE  SessionHasSetup'
  BY <1>6 DEF UploadPayload, Stored
<1>7. ASSUME NEW p \in Party, StartSession(p)
      PROVE  SessionHasSetup'
  BY <1>7 DEF StartSession, StartList
<1>8. ASSUME NEW p \in Party, WaitForSessionStart(p)
      PROVE  SessionHasSetup'
  BY <1>8 DEF WaitForSessionStart
<1>9. ASSUME NEW p \in Party, GetPayload(p)
      PROVE  SessionHasSetup'
  BY <1>9 DEF GetPayload
<1>10. ASSUME NEW p \in Party, OpenSession(p)
       PROVE  SessionHasSetup'
  BY <1>10 DEF OpenSession
<1> QED
  BY <1>1, <1>2, <1>3, <1>4, <1>5, <1>6, <1>7, <1>8, <1>9, <1>10 DEF Next, Step

(* keysign opens no session for another text. *)
LEMMA TextStep ==
  ASSUME TypeOK, TextAgrees, [Next]_vars
  PROVE  TextAgrees'
<1> USE SetupAssumption DEF TypeOK, TextAgrees, Live, Fail
<1>1. CASE UNCHANGED vars
  BY <1>1
<1>2. ASSUME NEW p \in Party, Register(p)
      PROVE  TextAgrees'
  BY <1>2 DEF Register, Rendezvous
<1>3. ASSUME NEW p \in Party, LoadShare(p)
      PROVE  TextAgrees'
  BY <1>3 DEF LoadShare, Rendezvous
<1>4. ASSUME NEW p \in Party, WaitAllParties(p)
      PROVE  TextAgrees'
  BY <1>4 DEF WaitAllParties
<1>5. ASSUME NEW p \in Party, MakeSetup(p)
      PROVE  TextAgrees'
  BY <1>5 DEF MakeSetup, SetupMessage
<1>6. ASSUME NEW p \in Party, UploadPayload(p)
      PROVE  TextAgrees'
  BY <1>6 DEF UploadPayload, Stored
<1>7. ASSUME NEW p \in Party, StartSession(p)
      PROVE  TextAgrees'
  BY <1>7 DEF StartSession, StartList
<1>8. ASSUME NEW p \in Party, WaitForSessionStart(p)
      PROVE  TextAgrees'
  BY <1>8 DEF WaitForSessionStart
<1>9. ASSUME NEW p \in Party, GetPayload(p)
      PROVE  TextAgrees'
  BY <1>9 DEF GetPayload
<1>10. ASSUME NEW p \in Party, OpenSession(p)
       PROVE  TextAgrees'
  BY <1>10 DEF OpenSession, TextMatches
<1> QED
  BY <1>1, <1>2, <1>3, <1>4, <1>5, <1>6, <1>7, <1>8, <1>9, <1>10 DEF Next, Step

LEMMA SetupInit == Init => SetupInv
<1> SUFFICES ASSUME Init PROVE SetupInv
  OBVIOUS
<1>1. TypeOK
  <2>1. registered \subseteq Party /\ started \subseteq Party
    BY SetupAssumption DEF Init, StartList
  <2>2. payload \in {{}} \cup {{m} : m \in SetupMessage}
    BY DEF Init
  <2>3. faults \in 0 .. MaxFaults
    BY SetupAssumption DEF Init
  <2> QED
    BY <2>1, <2>2, <2>3 DEF Init, TypeOK
<1>2. Places /\ Order /\ FromLeader
  BY DEF Init, Places, Order, FromLeader
<1>3. SessionHasSetup
  BY DEF Init, SessionHasSetup, Live
<1>4. TextAgrees
  BY DEF Init, TextAgrees, Live
<1> QED
  BY <1>1, <1>2, <1>3, <1>4 DEF SetupInv

(* The inductive invariant of the rendezvous.                                *)
THEOREM SetupInvariant == Spec => []SetupInv
<1>1. SetupInv /\ [Next]_vars => SetupInv'
  BY SetupTypeStep, PlacesStep, OrderStep, FromLeaderStep, HasSetupStep, TextStep DEF SetupInv
<1> QED
  BY <1>1, SetupInit, PTL DEF Spec

(* Type correctness of the rendezvous.                                       *)
THEOREM SetupTypeCorrect == Spec => []TypeOK
<1>1. SetupInv => TypeOK
  BY DEF SetupInv
<1> QED
  BY <1>1, SetupInvariant, PTL

(* Whoever sees a session started under a fresh id finds everybody registered *)
(* and the setup message uploaded (keygen.go:76-101).                         *)
THEOREM StartIsComplete == Spec => []StartedComplete
<1>1. SetupInv => StartedComplete
  BY DEF SetupInv, Order, StartedComplete
<1> QED
  BY <1>1, SetupInvariant, PTL

(* Under a fresh session id and one leader, all sessions are opened from one  *)
(* setup message (keygen.go:95-116).                                          *)
THEOREM SetupAgreement == Spec => []OneSetup
<1>1. ASSUME SetupInv
      PROVE  OneSetup
  <2>1. SUFFICES ASSUME fresh, OneLeader, NEW p \in Party, NEW q \in Party,
                        Live(p), Live(q)
                 PROVE  setup[p] = setup[q]
    BY DEF OneSetup
  <2>2. PICK l : Leaders = {l}
    BY <2>1, FS_Subset, FS_Singleton, SetupAssumption DEF OneLeader
  <2>3. l \in Party
    BY <2>2, SetupAssumption
  <2>4. setup[p] # {} /\ setup[q] # {}
    BY <1>1, <2>1 DEF SetupInv, SessionHasSetup
  <2> QED
    BY <1>1, <2>1, <2>2, <2>3, <2>4 DEF SetupInv, FromLeader
<1> QED
  BY <1>1, SetupInvariant, PTL

(* Whatever the relay holds and whoever leads, parties that sign by one setup *)
(* message were asked to sign the same text (keygen.go:372-378).              *)
THEOREM SameTextSigned == Spec => []SameText
<1>1. ASSUME SetupInv
      PROVE  SameText
  <2>1. SUFFICES ASSUME operation = "keysign", NEW p \in Party, NEW q \in Party,
                        Live(p), Live(q), setup[p] = setup[q]
                 PROVE  wants[p] = wants[q]
    BY DEF SameText
  <2>2. PICK m \in setup[p] : TRUE
    BY <1>1, <2>1 DEF SetupInv, SessionHasSetup
  <2> QED
    BY <1>1, <2>1, <2>2 DEF SetupInv, TextAgrees
<1> QED
  BY <1>1, SetupInvariant, PTL

(* A committee with a leader never waits for itself: whoever waits with nobody *)
(* left to act waits for a party that has failed (keygen.go:75-104).          *)
THEOREM NobodyStuck == Spec => []StuckMeansFailed
<1>1. ASSUME SetupInv
      PROVE  StuckMeansFailed
  <2>1. SUFFICES ASSUME NEW l \in Leaders, NEW w \in Party, Waits(w),
                        \A p \in Party : Waits(p) \/ Live(p)
                 PROVE  FALSE
    BY DEF StuckMeansFailed, Ended, Live
  <2>2. Places /\ registered \subseteq Party /\ l \in Party
    BY <1>1, SetupAssumption DEF SetupInv, TypeOK
  <2>3. registered = Party
    BY <2>1, <2>2 DEF Places, Waits, Live
  <2>4. Live(l)
    BY <2>1, <2>2, <2>3 DEF Places, Waits
  <2>5. started # {}
    BY <2>2, <2>4 DEF Places, Live
  <2> QED
    BY <2>1, <2>3, <2>5 DEF Waits
<1> QED
  BY <1>1, SetupInvariant, PTL

-----------------------------------------------------------------------------
(* The refinement of a gathering, one step at a time.                        *)
Opened == [p \in Party |-> IF fresh /\ Live(p) THEN setup[p] ELSE {}]

(* A step that opens no session leaves them as they were.                    *)
LEMMA OpenedKept ==
  ASSUME SetupInv, NEW p \in Party, pc[p] # "live", pc'[p] # "live", fresh' = fresh,
         \A q \in Party \ {p} : pc'[q] = pc[q] /\ setup'[q] = setup[q]
  PROVE  Opened' = Opened
BY DEF Opened, Live

LEMMA GatheringStep ==
  ASSUME NEW l \in Party, Leaders = {l}, SetupInv, [Next]_vars, fresh
  PROVE  [Gathered!Next]_(Gathered!gatheringVars)
<1> USE DEF SetupInv
<1>1. TypeOK /\ Places /\ Order /\ FromLeader /\ SessionHasSetup
  OBVIOUS
<1>2. fresh' = fresh
  BY DEF Next, Step, Register, LoadShare, WaitAllParties, MakeSetup, UploadPayload,
         StartSession, WaitForSessionStart, GetPayload, OpenSession
<1> DEFINE Stutter == UNCHANGED <<registered, payload, started, Opened>>
<1>3. ASSUME Stutter
      PROVE  UNCHANGED Gathered!gatheringVars
  BY <1>2, <1>3 DEF Gathered!gatheringVars, Opened
<1>4. CASE UNCHANGED vars
  <2>1. Stutter
    BY <1>4 DEF Opened, Live
  <2> QED
    BY <1>3, <2>1
<1>5. ASSUME NEW p \in Party, Register(p)
      PROVE  [Gathered!Next]_(Gathered!gatheringVars)
  <2>1. Opened' = Opened
    <3>1. /\ pc[p] # "live" /\ pc'[p] # "live"
          /\ \A q \in Party \ {p} : pc'[q] = pc[q] /\ setup'[q] = setup[q]
      BY <1>1, <1>5 DEF Register, Rendezvous, Fail, TypeOK
    <3> QED
      BY <1>2, <3>1, OpenedKept
  <2>2. UNCHANGED <<payload, started>>
    BY <1>5 DEF Register
  <2>3. CASE registered' = registered
    BY <1>3, <2>1, <2>2, <2>3
  <2>4. CASE registered' = registered \cup {p}
    <3>1. Gathered!Join(p)
      BY <1>2, <2>1, <2>2, <2>4 DEF Gathered!Join, Opened
    <3> QED
      BY <3>1 DEF Gathered!Next
  <2> QED
    BY <1>5, <2>3, <2>4 DEF Register
<1>6. ASSUME NEW p \in Party,
             \/ LoadShare(p) \/ WaitAllParties(p) \/ MakeSetup(p)
             \/ WaitForSessionStart(p) \/ GetPayload(p)
      PROVE  [Gathered!Next]_(Gathered!gatheringVars)
  <2>1. /\ pc[p] # "live" /\ pc'[p] # "live"
        /\ \A q \in Party \ {p} : pc'[q] = pc[q] /\ setup'[q] = setup[q]
        /\ UNCHANGED <<registered, payload, started>>
    <3>1. CASE LoadShare(p)
      BY <1>1, <3>1 DEF LoadShare, Rendezvous, Fail, TypeOK
    <3>2. CASE WaitAllParties(p)
      BY <1>1, <3>2 DEF WaitAllParties, Fail, TypeOK
    <3>3. CASE MakeSetup(p)
      <4>1. Goto(p, "upload") \/ Goto(p, "failed")
        BY <3>3 DEF MakeSetup, Fail
      <4>2. \A q \in Party \ {p} : setup'[q] = setup[q]
        BY <1>1, <3>3 DEF MakeSetup, TypeOK
      <4> QED
        BY <1>1, <3>3, <4>1, <4>2 DEF MakeSetup, TypeOK
    <3>4. CASE WaitForSessionStart(p)
      BY <1>1, <3>4 DEF WaitForSessionStart, Fail, TypeOK
    <3>5. CASE GetPayload(p)
      BY <1>1, <3>5 DEF GetPayload, TypeOK
    <3> QED
      BY <1>6, <3>1, <3>2, <3>3, <3>4, <3>5
  <2>2. Opened' = Opened
    BY <1>2, <2>1, OpenedKept
  <2> QED
    BY <1>3, <2>1, <2>2
<1>7. ASSUME NEW p \in Party, UploadPayload(p)
      PROVE  [Gathered!Next]_(Gathered!gatheringVars)
  <2>1. /\ pc[p] = "upload" /\ pc'[p] # "live"
        /\ \A q \in Party \ {p} : pc'[q] = pc[q] /\ setup'[q] = setup[q]
        /\ UNCHANGED <<registered, started>>
    BY <1>1, <1>7 DEF UploadPayload, Fail, TypeOK
  <2>2. Opened' = Opened
    BY <1>2, <2>1, OpenedKept
  <2>3. CASE payload' = payload
    BY <1>3, <2>1, <2>2, <2>3
  <2>4. CASE payload' = setup[p]
    <3>1. p = l /\ registered = Party /\ payload = {} /\ setup[p] # {}
      BY <1>1, <2>1 DEF Places, Order, FromLeader
    <3>2. PICK m \in SetupMessage : setup[p] = {m}
      BY <1>1, <3>1 DEF TypeOK
    <3>3. Gathered!Agree(m)
      BY <1>2, <2>1, <2>2, <2>4, <3>1, <3>2 DEF Gathered!Agree, Opened
    <3> QED
      BY <3>3 DEF Gathered!Next
  <2> QED
    BY <1>7, <2>3, <2>4 DEF UploadPayload, Stored
<1>8. ASSUME NEW p \in Party, StartSession(p)
      PROVE  [Gathered!Next]_(Gathered!gatheringVars)
  <2>1. /\ pc[p] = "start" /\ pc'[p] # "live"
        /\ \A q \in Party \ {p} : pc'[q] = pc[q] /\ setup'[q] = setup[q]
        /\ UNCHANGED <<registered, payload>>
    BY <1>1, <1>8 DEF StartSession, Fail, TypeOK
  <2>2. Opened' = Opened
    BY <1>2, <2>1, OpenedKept
  <2>3. CASE started' = started
    BY <1>3, <2>1, <2>2, <2>3
  <2>4. CASE started' = StartList
    <3>1. payload # {}
      BY <1>1, <2>1 DEF Order
    <3>2. StartList \in (SUBSET Party) \ {{}}
      <4>1. Party # {} /\ NewCommittee # {} /\ NewCommittee \subseteq Party
        BY SetupAssumption
      <4>2. StartList = Party \/ StartList = NewCommittee
        BY DEF StartList
      <4>3. StartList # {} /\ StartList \subseteq Party
        BY <4>1, <4>2, Zenon
      <4> QED
        BY <4>3
    <3>3. Gathered!Begin(StartList)
      BY <1>2, <2>1, <2>2, <2>4, <3>1 DEF Gathered!Begin, Opened
    <3> QED
      BY <3>2, <3>3 DEF Gathered!Next
  <2> QED
    BY <1>8, <2>3, <2>4 DEF StartSession
<1>9. ASSUME NEW p \in Party, OpenSession(p)
      PROVE  [Gathered!Next]_(Gathered!gatheringVars)
  <2>1. pc[p] = "open" /\ UNCHANGED <<registered, payload, started, setup>>
    BY <1>9 DEF OpenSession
  <2>2. CASE Goto(p, "failed")
    <3>1. /\ pc'[p] # "live"
          /\ \A q \in Party \ {p} : pc'[q] = pc[q] /\ setup'[q] = setup[q]
      BY <1>1, <2>1, <2>2 DEF TypeOK
    <3>2. Opened' = Opened
      BY <1>2, <2>1, <3>1, OpenedKept
    <3> QED
      BY <1>3, <2>1, <3>2
  <2>3. CASE Goto(p, "live") /\ setup[p] # {}
    <3>1. started # {} /\ setup[p] = payload
      BY <1>1, <2>1, <2>3 DEF Places, Order, FromLeader
    <3>2. /\ pc'[p] = "live"
          /\ \A q \in Party \ {p} : pc'[q] = pc[q]
      BY <1>1, <2>3 DEF TypeOK
    <3>3. Opened' = [Opened EXCEPT ![p] = payload]
      BY <1>2, <2>1, <3>1, <3>2 DEF Opened, Live
    <3>4. Gathered!Open(p)
      BY <1>2, <2>1, <3>1, <3>3 DEF Gathered!Open, Opened
    <3> QED
      BY <3>4 DEF Gathered!Next
  <2> QED
    BY <1>9, <2>2, <2>3 DEF OpenSession, Fail
<1> QED
  BY <1>4, <1>5, <1>6, <1>7, <1>8, <1>9 DEF Next, Step

(* Every step of the rendezvous that one party leads is a step of a gathering *)
(* or none (keygen.go:75-116): one message is agreed on, by all, before the   *)
(* start, and every session is opened from it after the start.               *)
THEOREM SetupImplementsGathering ==
  ASSUME OneLeader
  PROVE  Spec => ImplementsGathering
<1>1. PICK l : Leaders = {l}
  BY FS_Subset, FS_Singleton, SetupAssumption DEF OneLeader
<1>2. l \in Party
  BY <1>1, SetupAssumption
<1>3. Init => Gathered!Init
  BY DEF Init, Gathered!Init, Live
<1>4. SetupInv /\ [Next]_vars => [Gathered!Next]_(Gathered!gatheringVars)
  <2>1. CASE fresh
    BY <1>1, <1>2, <2>1, GatheringStep
  <2>2. ASSUME ~ fresh, [Next]_vars
        PROVE  UNCHANGED Gathered!gatheringVars
    <3>1. ~ fresh'
      BY <2>2 DEF Next, Step, Register, LoadShare, WaitAllParties, MakeSetup,
                  UploadPayload, StartSession, WaitForSessionStart, GetPayload, OpenSession
    <3> QED
      BY <2>2, <3>1 DEF Gathered!gatheringVars
  <2> QED
    BY <2>1, <2>2
<1> QED
  BY <1>3, <1>4, SetupInvariant, PTL DEF Spec, ImplementsGathering, Gathered!Spec

(* A gathering keeps its promise: whoever opens a session opens it from the   *)
(* message agreed on, and nothing is agreed on before everybody has come.     *)
THEOREM GatheringKeepsPromise == Gathered!Spec => []Gathered!OpenedAsAgreed
<1> DEFINE present == IF fresh THEN registered ELSE {}
           agreed == IF fresh THEN payload ELSE {}
           Inv == Gathered!OpenedAsAgreed /\ (agreed # {} => present = Party)
<1>1. Gathered!Init => Inv
  BY DEF Gathered!Init, Gathered!OpenedAsAgreed
<1>2. Inv /\ [Gathered!Next]_(Gathered!gatheringVars) => Inv'
  <2> SUFFICES ASSUME Inv, [Gathered!Next]_(Gathered!gatheringVars)
               PROVE  Inv'
    OBVIOUS
  <2>1. CASE UNCHANGED Gathered!gatheringVars
    BY <2>1 DEF Gathered!gatheringVars, Gathered!OpenedAsAgreed
  <2>2. ASSUME NEW p \in Party, Gathered!Join(p)
        PROVE  Inv'
    BY <2>2 DEF Gathered!Join, Gathered!OpenedAsAgreed
  <2>3. ASSUME NEW p \in Party, Gathered!Open(p)
        PROVE  Inv'
    BY <2>3 DEF Gathered!Open, Gathered!OpenedAsAgreed
  <2>4. ASSUME NEW m \in SetupMessage, Gathered!Agree(m)
        PROVE  Inv'
    BY <2>4 DEF Gathered!Agree, Gathered!OpenedAsAgreed
  <2>5. ASSUME NEW list \in (SUBSET Party) \ {{}}, Gathered!Begin(list)
        PROVE  Inv'
    BY <2>5 DEF Gathered!Begin, Gathered!OpenedAsAgreed
  <2> QED
    BY <2>1, <2>2, <2>3, <2>4, <2>5 DEF Gathered!Next
<1> QED
  BY <1>1, <1>2, PTL DEF Gathered!Spec

=============================================================================
