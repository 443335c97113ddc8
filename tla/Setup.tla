-------------------------------- MODULE Setup --------------------------------
(***************************************************************************)
(* The first half of Keygen, MigrateKey, Keysign and Reshare: the parties   *)
(* meet at the relay under a session id, the leader uploads the setup       *)
(* message and starts the session, the others wait for the start and fetch  *)
(* the setup message, and everybody opens a session of the MPC library.     *)
(* What follows is the exchange of messages (module Exchange).              *)
(***************************************************************************)
EXTENDS Naturals, FiniteSets

CONSTANTS
  Party,         \* the processes of the ceremony
  Leaders,       \* those run with --leader
  OldCommittee,  \* reshare: those who have a share of the key
  NewCommittee,  \* reshare: keygenCommittee, those who are to have one
  Operations,    \* which of "keygen", "migrate", "keysign", "reshare" are run
  Texts,         \* the messages a keysign may be asked to sign
  Faults,        \* the kinds of failure that may happen
  MaxFaults      \* bound: failures in one behaviour

(* The failures of the code's error paths:                                   *)
(*   request   a request fails and the relay has not carried it out          *)
(*   answer    a POST is carried out and its answer is lost or unexpected    *)
(*   local     an argument is empty, or the key share, the vault or the      *)
(*             library returns an error                                      *)
FaultKinds == {"request", "answer", "local"}

ASSUME SetupAssumption ==
  /\ IsFiniteSet(Party)
  /\ Leaders \subseteq Party
  /\ OldCommittee \cup NewCommittee = Party
  /\ NewCommittee # {}
  /\ Operations \subseteq {"keygen", "migrate", "keysign", "reshare"}
  /\ Faults \subseteq FaultKinds
  /\ MaxFaults \in Nat

VARIABLES
  operation,   \* the operation of this ceremony
  wants,       \* wants[p]: the text p was asked to sign
  fresh,       \* the session id has not been used before
  registered,  \* relay: parties registered under the session id
  payload,     \* relay: the set of the uploaded setup message, empty if none
  started,     \* relay: the parties the session was started with
  pc,          \* where each party is
  setup,       \* encodedSetupMsg: a set of one setup message, empty if ""
  faults       \* failures so far

relayVars == <<registered, payload, started>>
vars == <<operation, wants, fresh, relayVars, pc, setup, faults>>

(* A setup message: who made it, and the hash it carries.                    *)
SetupMessage == [by : Party \cup {"earlier"}, text : Texts]

(* The parties the leader names when it starts the session.                  *)
StartList == IF operation = "reshare" THEN NewCommittee ELSE Party

(* A session id is drawn from $RANDOM by the scripts: the relay may still    *)
(* hold an earlier ceremony of the same parties, one that was started or one *)
(* that came to its end between the upload and the start.                    *)
Init ==
  /\ operation \in Operations
  /\ wants \in [Party -> Texts]
  /\ fresh \in BOOLEAN
  /\ registered = IF fresh THEN {} ELSE Party
  /\ payload \in IF fresh THEN {{}}
                 ELSE {{m} : m \in {s \in SetupMessage : s.by = "earlier"}}
  /\ started \in IF fresh THEN {{}} ELSE {{}, StartList}
  /\ pc = [p \in Party |-> "register"]
  /\ setup = [p \in Party |-> {}]
  /\ faults = 0

Fault(kind) ==
  /\ kind \in Faults
  /\ faults < MaxFaults
  /\ faults' = faults + 1

NoFault == UNCHANGED faults

Goto(p, l) == pc' = [pc EXCEPT ![p] = l]

(* Every error but that of GetPayload returns from the operation.            *)
Fail(p, kind) == Fault(kind) /\ Goto(p, "failed")

LeadsAlways(p) == TRUE
LeadsNever(p) == FALSE
Leads(p) == p \in Leaders

(* keysign loads the key share, reshare does if it was given a public key.   *)
LoadsShare(p) ==
  \/ operation = "keysign"
  \/ operation = "reshare" /\ p \in OldCommittee

RendezvousNoWait(p) == IF Leads(p) THEN "make" ELSE "poll"
Rendezvous(p) == IF Leads(p) THEN "wait" ELSE "poll"

(* Before they register, migrate reads its vault, and keysign and reshare     *)
(* refuse an empty argument.                                                 *)
Register(p) ==
  /\ pc[p] = "register"
  /\ \/ /\ registered' = registered \cup {p}
        /\ Goto(p, IF LoadsShare(p) THEN "load" ELSE Rendezvous(p))
        /\ NoFault
     \/ Fail(p, "request") /\ UNCHANGED registered
     \/ Fail(p, "answer") /\ registered' = registered \cup {p}
     \/ /\ operation \in {"migrate", "keysign", "reshare"}
        /\ Fail(p, "local")
        /\ UNCHANGED registered
  /\ UNCHANGED <<operation, wants, fresh, payload, started, setup>>

(* The party is registered already when its share turns out to be missing.   *)
LoadShare(p) ==
  /\ pc[p] = "load"
  /\ \/ Goto(p, Rendezvous(p)) /\ NoFault
     \/ Fail(p, "local")
  /\ UNCHANGED <<operation, wants, fresh, relayVars, setup>>

-----------------------------------------------------------------------------
(* The leader.                                                               *)

(* coordinator.WaitAllParties polls until the whole committee is registered; *)
(* an error of its ends the operation.                                       *)
AllPresent(p) == Party \subseteq registered

WaitAllParties(p) ==
  /\ pc[p] = "wait"
  /\ \/ AllPresent(p) /\ Goto(p, "make") /\ NoFault
     \/ Fail(p, "request")
  /\ UNCHANGED <<operation, wants, fresh, relayVars, setup>>

(* GetThreshold refuses a committee of one; QcSetupMsgNew needs the key       *)
(* share, which a new member does not have.                                  *)
CanMakeSetup(p) ==
  /\ operation \in {"keygen", "migrate"} => Cardinality(Party) >= 2
  /\ operation = "reshare" => Cardinality(NewCommittee) >= 2 /\ p \in OldCommittee

MakeSetup(p) ==
  /\ pc[p] = "make"
  /\ \/ /\ CanMakeSetup(p)
        /\ setup' = [setup EXCEPT ![p] = {[by |-> p, text |-> wants[p]]}]
        /\ Goto(p, "upload")
        /\ NoFault
     \/ /\ ~ CanMakeSetup(p)
        /\ Goto(p, "failed")
        /\ NoFault
        /\ UNCHANGED setup
     \/ Fail(p, "local") /\ UNCHANGED setup
  /\ UNCHANGED <<operation, wants, fresh, relayVars>>

(* The relay keeps one setup message under a session id, the last one.       *)
StoredAppended(p) == payload \cup setup[p]
Stored(p) == setup[p]

UploadPayload(p) ==
  /\ pc[p] = "upload"
  /\ \/ payload' = Stored(p) /\ Goto(p, "start") /\ NoFault
     \/ Fail(p, "request") /\ UNCHANGED payload
     \/ Fail(p, "answer") /\ payload' = Stored(p)
  /\ UNCHANGED <<operation, wants, fresh, registered, started, setup>>

StartSession(p) ==
  /\ pc[p] = "start"
  /\ \/ started' = StartList /\ Goto(p, "open") /\ NoFault
     \/ Fail(p, "request") /\ UNCHANGED started
     \/ Fail(p, "answer") /\ started' = StartList
  /\ UNCHANGED <<operation, wants, fresh, registered, payload, setup>>

-----------------------------------------------------------------------------
(* The others.                                                               *)

(* An empty list of parties means that the session has not been started.     *)
HasStartedAlways == TRUE
HasStartedWithAll == started = Party
HasStarted == started # {}

WaitForSessionStart(p) ==
  /\ pc[p] = "poll"
  /\ \/ HasStarted /\ Goto(p, "fetch") /\ NoFault
     \/ Fail(p, "request")
  /\ UNCHANGED <<operation, wants, fresh, relayVars, setup>>

(* The error of GetPayload goes into a variable of the inner block and is    *)
(* lost: the operation goes on with an empty setup message.                  *)
GetPayload(p) ==
  /\ pc[p] = "fetch"
  /\ \/ setup' = [setup EXCEPT ![p] = payload] /\ NoFault
     \/ Fault("request") /\ UNCHANGED setup
  /\ Goto(p, "open")
  /\ UNCHANGED <<operation, wants, fresh, relayVars>>

-----------------------------------------------------------------------------
(* Everybody.                                                                *)

(* keysign compares the hash in the setup message with that of its own text. *)
TextUnchecked(p) == TRUE
TextMatches(p) ==
  operation = "keysign" => \A m \in setup[p] : m.text = wants[p]

(* The library opens no session from an empty setup message.                 *)
OpenSession(p) ==
  /\ pc[p] = "open"
  /\ \/ setup[p] # {} /\ TextMatches(p) /\ Goto(p, "live") /\ NoFault
     \/ /\ setup[p] = {} \/ ~ TextMatches(p)
        /\ Goto(p, "failed")
        /\ NoFault
     \/ Fail(p, "local")
  /\ UNCHANGED <<operation, wants, fresh, relayVars, setup>>

Step(p) ==
  \/ Register(p) \/ LoadShare(p)
  \/ WaitAllParties(p) \/ MakeSetup(p) \/ UploadPayload(p) \/ StartSession(p)
  \/ WaitForSessionStart(p) \/ GetPayload(p)
  \/ OpenSession(p)

Next == \E p \in Party : Step(p)

Spec == Init /\ [][Next]_vars

(* A process runs, and its requests are answered.                            *)
Fairness == \A p \in Party : WF_vars(Step(p))

FairSpec == Spec /\ Fairness

-----------------------------------------------------------------------------
TypeOK ==
  /\ operation \in Operations
  /\ wants \in [Party -> Texts]
  /\ fresh \in BOOLEAN
  /\ registered \subseteq Party
  /\ payload \in {{}} \cup {{m} : m \in SetupMessage}
  /\ started \subseteq Party
  /\ pc \in [Party -> {"register", "load", "wait", "make", "upload", "start",
                       "poll", "fetch", "open", "live", "failed"}]
  /\ setup \in [Party -> {{}} \cup {{m} : m \in SetupMessage}]
  /\ faults \in 0 .. MaxFaults

Live(p) == pc[p] = "live"
Ended(p) == pc[p] \in {"live", "failed"}
OneLeader == Cardinality(Leaders) = 1

(* Under a fresh session id and one leader, all sessions are opened from one  *)
(* setup message: nobody works on a committee or threshold of his own         *)
(* (keygen.go:95-116).                                                        *)
OneSetup ==
  fresh /\ OneLeader =>
    \A p, q \in Party : Live(p) /\ Live(q) => setup[p] = setup[q]

(* Whatever the relay holds under the session id and whoever leads, two       *)
(* parties that sign by the same setup message were asked to sign the same    *)
(* text (keygen.go:372-378).                                                  *)
SameText ==
  operation = "keysign" =>
    \A p, q \in Party :
      Live(p) /\ Live(q) /\ setup[p] = setup[q] => wants[p] = wants[q]

(* Under a fresh session id whoever sees the session started finds everybody  *)
(* registered and the setup message uploaded (main.go:45; keygen.go:76-101).  *)
StartedComplete ==
  fresh /\ started # {} => registered = Party /\ payload # {}

(* Whoever can only wait: a leader for somebody who has not registered, the   *)
(* others for a start.                                                       *)
Waits(p) ==
  \/ pc[p] = "wait" /\ registered # Party
  \/ pc[p] = "poll" /\ started = {}

(* The parties never wait for each other: when all that have not come to an   *)
(* end wait, one of them has failed, whatever the relay holds under the       *)
(* session id and however many lead (keygen.go:75-104, relay.go:48-75).       *)
StuckMeansFailed ==
  Leaders # {} /\ (\A p \in Party : Waits(p) \/ Ended(p)) /\ (\E p \in Party : Waits(p))
  => \E p \in Party : pc[p] = "failed"

(* Under a fresh session id and one leader the rendezvous is a gathering: the *)
(* setup message is agreed on once, by a complete committee, the start comes  *)
(* after it and the sessions after the start (keygen.go:75-116).              *)
Gathered == INSTANCE Gathering WITH
  Message <- SetupMessage,
  present <- IF fresh THEN registered ELSE {},
  agreed  <- IF fresh THEN payload ELSE {},
  begun   <- IF fresh THEN started ELSE {},
  opened  <- [p \in Party |-> IF fresh /\ Live(p) THEN setup[p] ELSE {}]

ImplementsGathering == Gathered!Spec

(* A ceremony nothing fails in, under a fresh session id, with one leader     *)
(* that can make the setup message and with one text, brings everybody to a   *)
(* session.                                                                   *)
EverybodyOpens ==
  ( /\ fresh
    /\ OneLeader
    /\ \A p \in Leaders : CanMakeSetup(p)
    /\ \A p, q \in Party : wants[p] = wants[q] )
  => <>((\A p \in Party : Live(p)) \/ faults > 0)

(* Once a session is started, whoever waits for the start gets an end: an     *)
(* open session or an error, whatever fails (relay.go:48-75).                 *)
StartReleases ==
  \A p \in Party : started # {} /\ pc[p] = "poll" ~> Ended(p)

-----------------------------------------------------------------------------
(* The parts of the inductive invariant from which SetupProofs derives       *)
(* the others.                                                               *)

(* Whoever is past its registration is registered; only leaders wait for the  *)
(* committee, only the others for the start, and both go on to a session only *)
(* after the start.                                                          *)
Places ==
  \A p \in Party :
    /\ pc[p] \notin {"register", "failed"} => p \in registered
    /\ pc[p] \in {"wait", "make", "upload", "start"} => p \in Leaders
    /\ pc[p] \in {"poll", "fetch"} => p \notin Leaders
    /\ pc[p] \in {"fetch", "open", "live"} => started # {}

(* The setup message is made once everybody is registered, and is uploaded    *)
(* before the session is started.                                            *)
Order ==
  fresh =>
    /\ \A p \in Party :
         /\ pc[p] \in {"make", "upload", "start"} => registered = Party
         /\ pc[p] \in {"upload", "start"} => setup[p] # {}
         /\ pc[p] = "start" => payload # {}
    /\ payload # {} => registered = Party
    /\ started # {} => payload # {}

(* The setup message is the leader's wherever there is one, and nobody has   *)
(* one before the leader has made it.                                        *)
FromLeader ==
  fresh =>
    \A p \in Party : Leaders = {p} =>
      /\ pc[p] \in {"register", "load", "wait", "make"} => setup[p] = {}
      /\ pc[p] \in {"register", "load", "wait", "make", "upload"} => payload = {}
      /\ payload \in {{}, setup[p]}
      /\ \A q \in Party : setup[q] \in {{}, setup[p]}

(* An open session has a setup message, for keysign with the party's text.   *)
SessionHasSetup == \A p \in Party : Live(p) => setup[p] # {}

TextAgrees ==
  operation = "keysign" =>
    \A p \in Party : Live(p) => \A m \in setup[p] : m.text = wants[p]

SetupInv ==
  TypeOK /\ Places /\ Order /\ FromLeader /\ SessionHasSetup /\ TextAgrees

=============================================================================
