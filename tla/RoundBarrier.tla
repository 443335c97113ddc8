---------------------------- MODULE RoundBarrier ----------------------------
(***************************************************************************)
(* What a ceremony (a keygen, a migration, a reshare or a keysign) promises *)
(* once the relay, the polling and the two goroutines of every party are    *)
(* forgotten: the parties go through rounds 1 .. Rounds; a party leaves     *)
(* round r only after every other party has entered it, and a party holds   *)
(* the result only after it has left the last round.                        *)
(***************************************************************************)
EXTENDS Naturals

CONSTANTS
  Party,    \* the parties of the ceremony
  Rounds    \* the rounds of messages of the protocol, at least 1

VARIABLES
  phase,    \* phase[p] = 0: not started, r: in round r, Rounds + 1: all received
  holders   \* the parties that have the result

barrierVars == <<phase, holders>>

Init ==
  /\ phase = [p \in Party |-> 0]
  /\ holders = {}

(* A party joins the ceremony and makes its message of round 1.            *)
Enter(p) ==
  /\ phase[p] = 0
  /\ phase' = [phase EXCEPT ![p] = 1]
  /\ UNCHANGED holders

(* A party that has the messages of every other party for the rounds before *)
(* r goes on to r, by several rounds at once if some came early.            *)
Advance(p, r) ==
  /\ phase[p] >= 1
  /\ phase[p] < r
  /\ \A q \in Party \ {p} : phase[q] >= r - 1
  /\ phase' = [phase EXCEPT ![p] = r]
  /\ UNCHANGED holders

(* A party that has left the last round obtains the result.                *)
Obtain(p) ==
  /\ phase[p] = Rounds + 1
  /\ holders' = holders \cup {p}
  /\ UNCHANGED phase

Next ==
  \E p \in Party :
    \/ Enter(p)
    \/ \E r \in 2 .. (Rounds + 1) : Advance(p, r)
    \/ Obtain(p)

Spec == Init /\ [][Next]_barrierVars

(* If one party has the result, every party has contributed to the last     *)
(* round: nobody ends up with a key the others never took part in.          *)
AllContributed ==
  holders # {} => \A q \in Party : phase[q] >= Rounds

=============================================================================
