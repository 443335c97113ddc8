# Verification of test-dkls

`test-dkls` is a command line program with which the members of a committee run
threshold-signature ceremonies: **keygen** (make a shared key), **migrate** (turn an
older GG20 key into a DKLS/Schnorr one), **keysign**, **reshare** (hand the key to
another committee) and **export** (reconstruct the root key). Every member is a
process of its own. The processes never talk to each other directly: they meet at a
*relay*, an HTTP server with one mailbox per party and session, and each of them
drives a session object of an external MPC library.

The cryptography is in the library, the storage of messages is in the relay; what
this repository contributes is the *coordination*: a rendezvous, two goroutines per
party around one session handle, a polling loop with deletion and deduplication, a
flag, two timers, and a file. That coordination is what the modules here specify.

Contents: [Inventory](#inventory) · [Modules](#modules) · [Correspondence with the
code](#correspondence-with-the-code) · [Runs](#runs) · [Findings](#findings) ·
[Proofs](#proofs) · [Not modelled](#not-modelled) · [Plan](#plan)

## Inventory

Paths are relative to `src/`.

| component | state | operations | talks to |
|---|---|---|---|
| **message exchange**: `keygen.go` 137-277, again in 433-563 (keysign) and `reshare.go` 164-294, with `messenger.go` | session handle, `cache` of md5 hashes, atomic flag `isKeygenFinished` / `isKeysignFinished`, the wait group, the batch and the message in hand | outbound goroutine (take a message, look at the flag, send to each receiver); inbound loop (wait, GET, DELETE, deduplicate, apply, finish) | relay mailboxes (POST, GET, DELETE), session of the library, each other through handle and flag |
| **session setup**: first half of `Keygen`, `MigrateKey`, `Keysign`, `Reshare`; `relay.go` | the party's `encodedSetupMsg`; at the relay: registered parties, setup message, started parties | register, load share, wait for all, make setup message, upload, start, wait for start, fetch, open session | relay, key share accessor, library |
| **keygen / migrate, second half**: `keygen.go` 116-135, 250-272, 820-849 | the result of the inbound loop | publish the flag, save the share, wait for both loops, free | exchange, key share accessor |
| **keysign, second half**: `keygen.go` 395-563 | signature in hand | verify an EdDSA signature, return | exchange |
| **reshare, second half**: `reshare.go` 136-294 | two committees, the old share and the new one | exchange over the union of the committees, overwrite the share | exchange, key share accessor |
| **export**: `keygen.go` 662-732 | receiver session, list of share files, deferred frees | feed every share to the receiver, print the root key | library, files |
| **migration arithmetic**: `keygen.go` 581-661, `vault.go` | none | Lagrange coefficient times share, modulo the group order; its bytes | keygen |
| **committee arithmetic**: `common.go` 54-60, `reshare.go` 19-41, `keygen.go` 565-579 | none | `GetThreshold`, `processReshareCommittee`, `convertKeygenCommitteeToBytes` | setup |
| **key share accessor**: `local_state_accessor.go` | one file per key and party | load, save (`os.WriteFile`: truncate, write, close) | all operations |
| **MPC wrapper**: `mpc_wrapper.go` | none | dispatch to the ECDSA or the EdDSA library | library |
| **command line**: `main.go`, `*.sh` | flags | start one operation | all operations |

Outside the repository, and modelled only from how the code uses them: the relay, the
`coordinator` package, the MPC library, the file system.

### What is hard here

* **Two goroutines, one handle, one flag.** The outbound goroutine reads "is there
  output?" and "are we finished?" one after the other; the inbound loop changes both.
* **Delete, then apply.** A message is removed from the relay before the library has
  it. Every early `continue` between the DELETE and the input is a chance to lose it,
  every redelivery a chance to apply it twice.
* **Partial failure everywhere.** Sends go out receiver by receiver and are never
  retried; the share is saved by truncating a file first; an error return leaves the
  other goroutine to itself.
* **Timers.** The minute that is to end a hopeless wait and the 100 ms of the poll sit
  in the same `select`.
* **Rendezvous without identity.** Ids come from `$RANDOM`, the leader is whoever was
  started with `--leader`, and the relay keeps what an earlier ceremony left.

### What makes each part correct

* exchange: nothing is lost that no failure loses; nothing is applied twice; the
  handle is not used after it is freed; both loops end once either is over;
* keygen: success is reported only when the share is completely on disk; nobody has
  a share to which somebody did not contribute; everybody gets one if nothing fails;
* setup: everybody works from the same setup message; no party signs a text it was
  not asked to sign; who sees the start finds the setup message; nobody waits after the
  start, and if all wait, somebody has failed;
* reshare: as long as something can still go wrong for others, the old shares are there; the
  handle of the old key share is freed last;
* keysign: nil means a signature; the key share outlives the session made from it;
* export: no key share stays open, and the key is printed if and only if all parts were
  read and are enough;
* the arithmetic: the setup message says what the command line says, and the secrets of a
  migration add up to the old key.

`PROJECT.json` lists the hazards one by one, at their lines, with the properties that
are aimed at them.

## Modules

```
                    RoundBarrier   <-- refined by -- ShareFile, Keysign
                         ^
Exchange  <-- EXTENDS -- ShareFile <-- EXTENDS -- Keygen
    ^                        ^------- EXTENDS -- Reshare -- EXTENDS --> Committee
    ^----- EXTENDS -- Keysign                                               ^
                                                                            |
Gathering <-- refined by -- Setup
                               Commands -- EXTENDS --> Migration, ExportKey, Committee
```

* **`Exchange`** – the two loops of every party, the relay's mailboxes, the session as
  the loops see it, and twelve kinds of failure. It is a specification in its own right
  (`ExchangeSpec`): what an operation does with the result is left open in two actions,
  `HandleResult` and `Leave`, that allow everything an operation may do. The operation
  modules extend it and replace these two.
* **`ShareFile`** – composes `Exchange` with the file of the key share, for the operations
  that end by writing one. It is a specification too (`ShareSpec`), which leaves open what
  was on disk before and whether the session is freed.
* **`Keygen`** – `ShareFile` with no file before and the session freed; keygen and migrate.
* **`Reshare`** – `ShareFile` with two committees and old shares; the handle of the old key share is
  freed and the session is not.
* **`Keysign`** – `Exchange` plus the signature, the verdict on it, and the handle of the key
  share.
* **`RoundBarrier`** – the abstract ceremony: parties pass rounds `1 .. Rounds`, no party
  leaves a round before every other party has entered it, and only a party that has
  left the last round obtains the result. `Keygen` and `Reshare` implement it under
  `phase <- round, holders <- {p : store[p] = "share"}`, `Keysign` under
  `holders <- {p : sig[p] # "none"}`.
* **`Setup`** – the rendezvous, for all four operations at once. It ends where `Exchange`
  begins: `pc[p] = "live"` is the point at which `StartLoops(p)` becomes possible.
* **`Gathering`** – the abstract rendezvous: the parties come, one setup message is agreed on
  once all are there, the session is begun after that, and a session is opened from the message agreed on.
  `Setup` implements it under `present <- registered`, `agreed <- payload`, `begun <- started` and
  `opened[p] <- setup[p]` where p is live, for one leader. Under a reused id the mapping is to an empty
  gathering: that ceremony promises nothing of the kind.
* **`Committee`**, **`Migration`**, **`ExportKey`**, composed in **`Commands`** – what a process
  computes without the others: thresholds, indices and names in a setup message; the
  secrets a migration starts from; the export of a key.
* **`MC*`** – model values and symmetry for TLC.
* **`*Proofs`** – theorems and proofs, see [Proofs](#proofs).

## Correspondence with the code

`PROJECT.json` maps every definition to its lines. In outline:

### Exchange

| action | code |
|---|---|
| `StartLoops` | `KeygenSessionFromSetup` succeeded, `wg.Add(2)`, the `go` statement and the call of the inbound loop (`keygen.go` 116-132) |
| `TakeOutput` | `KeygenSessionOutputMessage` (145); an error is logged and looks like "no output", and the flag is read although there may be some |
| `CheckFinished` | the flag is read (150). A step apart from `TakeOutput`: the other goroutine can run between 145 and 150 |
| `SendToReceiver` | one pass of the receiver loop (158-172); a failed `Send` is logged and the next receiver is served |
| `LoseReceivers` | an error of `KeygenSessionMessageReceiver` (159): logged, and then the empty receiver ends the loop |
| `Tick`, `Poll`, `Timeout` | the `select` (184-211). `timer` is the 100 ms one and `minute` the other. Both are made by `time.After` inside the loop, so a pass through `Poll` sets both back (`MinuteRearmed`); `Timeout` waits for `minute`, which runs out when the process stalls, or would if it were made once, before the loop |
| `DeleteMessage` | 212-238: DELETE, then the cache, then `cache[hashStr] = true` |
| `ApplyMessage` | 239-249: `KeygenSessionInputMessage`; an error passes the message over |
| `FinishSession` | 250-269: `KeygenSessionFinish`, `KeyshareToBytes`, `KeysharePublicKey`; an error of any of them returns at once and leaves the flag as it is. A party outside `Beneficiary` has no result and always gets the error |
| `PublishFinished` | 271: the flag is stored |

Variables follow the code: `isKeygenFinished`, `cache`, `batch` (`messages` of one GET that
are still to be looked at), `pending` (the message between its DELETE and its input),
`taken` (how many messages `OutputMessage` has returned), `sentTo` (the receivers before
`i`), `result` (what the inbound loop returned). `lossy` is a history variable: some
failure has happened after which nobody can recover a message.

The session of the library is modelled as the code uses it: it makes one message per
round, the same for all receivers, from the moment it enters the round; accepts
messages early and in any order; enters round r + 1 when it holds round r of every
other party; and is finished when it leaves the last round. `FinishKeepsOutput` says
whether a finished session still hands out messages not yet taken; the runs use the
answer that is kinder to the code. The relay stores a message under its hash, so
`mailbox[p]` is a set. Bodies are identified with (sender, round), and so are their md5
hashes.

The failures (`FaultKinds`) are the error branches of the code and what a distributed
program has to expect: a GET that fails, a DELETE that fails or whose answer is lost, a
message or a receiver that the library does not hand out, a send that fails, a relay that repeats a message it was told to delete, a rejected input,
a session that cannot be finished, a file that cannot be written, a process that does not
run for a minute, a process that dies. Each run says which of them may happen and how
often.

### ShareFile and Keygen

`TruncateFile`, `WriteShare` and `CloseFile` are the three steps of `os.WriteFile`
(`local_state_accessor.go` 37). Between the first two the file is torn, and a crash leaves it so;
between the last two the share is complete, but the process may still die, or the close fail and
the operation return an error over a complete share. So success implies a share on disk
(`NilMeansSaved`), and not the other way round.
`Return` is `wg.Wait()`, the deferred free of the session and the return of the inbound
loop's result (`keygen.go` 120-135). Restarting a process is not a recovery of the
ceremony: the code keeps nothing of a session, so a crashed party stays `crashed`.

### Reshare

`Party` is the union of the committees, `Beneficiary` the new one, and `ReceiverLimit` the size
of the new one, because `Reshare` gives its outbound loop `keygenCommittee`
(`reshare.go` 145) while the session sends to everybody. The members of the old committee
start with `store = "old"`; a member of both writes the new share over the old one. A
member of the old committee only takes part in every round and has no share to take out at the
end: `QcSessionFinish` or `KeyshareToBytes` fails for it (`FinishSession`). That is
an assumption about the library; no branch of the code provides for a party without a
result. `Return` runs the deferred call that frees the handle of the old key share (`FreeKeyshare`, 87-91; with
EdDSA the wrapper does nothing). The session is never freed: its deferred call is commented out (137-141). So the
key share a session was made from goes while the session stays, and `KeyshareOutlivesLoops` says that
no loop is left by then that could use it.

### Keysign

`ReturnSignature` is the end of the inbound loop (`keygen.go` 548-559), `Conclude` what the caller
does after `wg.Wait` (395-431): the loop's error has been assigned and is never read, so
`Accepted` looks at the signature only, and with EdDSA not even at its length.
`FreeSession` and `FreeKeyshare` are the two deferred calls in the order in which Go runs them
(383-387, then 328-332); with EdDSA the wrapper frees no key share
(`mpc_wrapper.go` 289-294). Whether a signature verifies is a choice of the library.

### Committee, Migration, ExportKey

The operators have the names of the functions. A loop over a list is a recursive function of the
number of passes made.
`ReshareCommittee` contains both swaps of `Reshare`: the arguments (the new committee first)
and the results (the new committee's indices taken for the old one's). A party name is
a sequence of bytes other than zero, and nobody checks that a list names nobody twice: `Lists` has repeated names. A
repeated name in the new committee's list is a member twice; in the old committee's it is not. In `Migration` the group order is a small prime and a
byte has a small base; `getLocalSecret` is the function of either curve, and `secretCoefficient[p]` the bytes that p
hands to the library (795-829). In which order the library reads them is not in this repository. `Number` takes them in the
order in which the code writes them, most significant byte first with ECDSA and last with EdDSA, where the code reverses them
(652); `SecretIsProduct` and `SecretsAddUpToKey` are about these numbers. The only code here that reads such bytes is the
test of the EdDSA secret, which takes them the other way round: see [Findings](#findings), 5. The vaults of `MigrationInit` are all that a GG20 ceremony can have left:
the shares are the values (`Value`, by Horner's rule) of any polynomial of degree `Degree` or less that is the key at 0, under
every numbering of the signers. `Degree` is one less than the number of shares that make up the key; all a migration
relies on is that it is less than the number of signers.
In `ExportKey` a step is a part: opening it (read, decode, hand to the library, defer the
free), making its message, feeding it. `Stop` runs the deferred calls, after an error or an
index out of range as well as at the end. `Commands` gives each process one command.

### Setup

One `pc` per party walks through the calls in the order of the code: `Register`,
`LoadShare` (keysign, and reshare for those who have a share; *after* registration, as
in the code), then for a leader `WaitAllParties`, `MakeSetup`, `UploadPayload`,
`StartSession`, for the others `WaitForSessionStart`, `GetPayload`, and for everybody
`OpenSession`. Every error but one returns from the operation (`Fail`). The exception is
`GetPayload`: its error goes into the `err` of the inner block (`keygen.go` 109) and is
lost, and the party goes on with an empty setup message, which the library then refuses.
A POST whose answer is lost has been carried out at the relay although the party returns
an error (`"answer"` failures). The initial state may hold the remains of an earlier
ceremony under the same id (`fresh = FALSE`), one that was started or one that ended
between the upload and the start. What a party may fail at before it registers, reading the vault
(migrate) or an empty argument (`keygen.go` 286-300, `reshare.go` 50-55), is a local failure of
`Register`.

## Runs

| run | instance | what it asks |
|---|---|---|
| `keygen_faults` | 2 parties, 3 rounds, up to 3 failures of any kind; 119 000 states with symmetry | `AppliedAtMostOnce`, `NoUseAfterFree`, `NothingLost`, `NilMeansSaved`, `ErrorKeepsWaiting` (an error of the inbound loop is never returned), and that every step is a step of `RoundBarrier` or stutters (`ImplementsBarrier`) |
| `keygen_three` | 3 parties, 2 rounds, one failed send or receiver; 419 000 states with symmetry | `NothingLost` when receivers are served one after the other, `EarlyLeaverAlone`, `AllContributed`, `RestMeansFinished` (no exchange comes to rest half-way) |
| `keygen_fair` | 2 parties, 2 rounds, up to 2 harmless failures (GET, DELETE, redelivery), fairness; 12 260 states | `TimeoutNeedsStall` (the minute never passes by itself), `SomebodyFinishes`, `AllReturnOrLeftUnsent`, `FlagStopsProcess` |
| `reshare` | old committee of 2, new of 2, one party in both, 2 rounds, one failure to finish or to save or one crash; 1 686 000 states | `KeySafeUntilLast`, `LeaverStays`, `NothingLost` although the receiver loop counts the new committee only, `KeyshareOutlivesLoops` |
| `keysign` | 2 parties, 2 rounds, both curves, up to 2 failures of the eleven kinds that keysign can meet; 38 000 states with symmetry | `EcdsaNilMeansAllSigned`, `KeyshareOutlivesSession`, `ImplementsBarrier` |
| `setup` | 3 parties, 1 leader, all operations, two texts, fresh and reused ids, 1 failure, fairness; 50 070 states | `OneSetup`, `SameText`, `StartedComplete`, `StuckMeansFailed` (the parties never wait for each other), that every step is a step of `Gathering` or stutters (`ImplementsGathering`), `EverybodyOpens`, `StartReleases` |
| `commands` | lists of up to 4 out of 3 names, vaults of 3 signers of whom two make up the key, over the field of 5 elements, exports of up to 4 parts and names; 89 829 states | `SetupNamesParties`, `ThresholdIsTwoThirds`, `IndicesPointBack`, `SecretIsProduct`, `SecretsAddUpToKey`, `SharesFreed`, `PrintedAfterAllParts`, `NilPrintsIfEnough` |
| `timeout_never` | 2 parties, 1 round, one failed send or receiver | violated: `InboundEnds` |
| `outbound_never_stops` | 2 parties, 1 round, one session that cannot be finished | violated: `OutboundStopsToo` |
| `reshare_key_lost` | 2 parties in both committees, 2 rounds, no failure, fairness | violated: `KeySurvives` |
| `keysign_nil_unsigned` | 2 parties, 2 rounds, one stall | violated: `NilMeansSigned` |
| `test_reading` | the migrations of `commands` | violated: `OriginalSecretIsSum` |

The type invariants are checked by `keygen_faults`, `keysign` and `setup`.

**Why these bounds are enough.** Two parties and two rounds are the smallest instance in
which a message can come a round early, a batch can hold two messages of one sender, and
a session can go through two rounds in one input; three rounds add one that is neither the
first nor the last. Three parties are the smallest in which
a party is between two receivers and a round waits for more than one sender. Three failures
let a lost answer, a redelivery and a crash meet in one behaviour. The reshare has the three
roles there are: a party that leaves, one that stays and one that joins. Three names, one of
which is a prefix of another, in lists of up to four give every order, overlap and repetition of
two committees of up to three, and the thresholds 2, 2 and 3; without a separator two different
lists of them would give the same bytes. Modulo five, three signers can be numbered in 24 ways and their products run over
one, two and three bytes of base two; with `Degree = 1` the shares lie on every line through the key. The minute is longer than
the poll, which is all the code relies on (`PollTicks < MinuteTicks`). Every counter
is bounded by a constant that is named in the module (`Rounds`, `MaxFaults`,
`MinuteTicks`, `MaxParts`, `MaxParties`). The safety properties do not rest on the
bounds: they are proved for all values of the constants.

**Deadlock** is not checked: a ceremony ends, and when every party has returned, failed or
crashed there is no further step.

**Fairness.** `Fairness` is weak fairness of each goroutine of each party: a goroutine
that can run does run (the Go scheduler), and a request is answered or returns an error
(the HTTP client). There is no strong fairness, and failures are never forced, so a
temporal property must hold whether or not they happen. In `Keygen`, `StartLoops` is fair
too: that every party reaches its session is what `Setup` establishes (`EverybodyOpens`).
`Reshare` states the same for `reshare_key_lost`: the key is lost although everything
that can run does. In `Setup` the steps of a party are fair as one, its requests being sequential.

**Liveness holds only in a weak form**, and the properties say so. Because of the first
finding, "everybody finishes" is false even when nothing fails. What does hold: somebody
finishes (`SomebodyFinishes`); the only way in which a ceremony without lost messages can
hang is that a party has left with a message unsent (`AllReturnOrLeftUnsent`); and a party
whose flag is up comes to its end (`FlagStopsProcess`).

## Findings

1. **The last message can stay behind, and a reshare can lose the key** (`reshare_key_lost`,
   `reshare.go` 287-289, `keygen.go` 270). The comment "This sleep give the local party a chance
   to send last message to others" has no sleep below it, in either file. The outbound goroutine
   finds nothing to send (`keygen.go` 145); the inbound loop applies the message with which the
   session enters and leaves the last round, finishes and raises the flag (271); the outbound
   goroutine then reads the flag (150) and stops. The party reports success, the others wait for
   ever. In a reshare it weighs more, for the party has written its new share over the old one:
   after a refresh of two, one old and one new share are left, and either committee needs two.
   (`main.go` 200 says "reshare doesn't work yet".) The converse is proved: before everybody is in
   the last round nothing is touched (`OldSharesKept`), and whoever leaves like that is the only one
   to finish (`LeaverIsAlone`).
2. **The minute never passes** (`timeout_never`, `keygen.go` 185). `time.After(time.Minute)`
   is made anew by every pass through the `select`, together with the 100 ms one, so it
   fires only if the process stalls for a minute. A party whose message is lost polls for
   ever instead of returning "keygen timeout". Theorem `MinuteNeverPasses` says so for every instance.
3. **An error leaves the other goroutine running** (`outbound_never_stops`, `keygen.go` 255,
   260, 266). The comment of line 186 says the flag is set "so the other go routine can be
   stopped"; the error returns do not set it. `wg.Wait` never returns, and the error is
   never reported: theorem `ErrorIsNeverReturned`, for every instance.
4. **Keysign returns nil without a signature** (`keysign_nil_unsigned`, `keygen.go` 395). The error of
   the inbound loop, `TssKeyGenTimeout` (486) among them, is dropped. With ECDSA the length of the signature
   stands in for it (`EcdsaNilMeansAllSigned` holds); with EdDSA nothing does, and on either curve "Signature
   is invalid" (407) is a log line and not an error.
5. **The test reads EdDSA secrets in another order than the code writes them** (`test_reading`,
   `keygen.go` 652). `keygen_test.go` 36 takes every result of `getEdDSALocalSecret` for a big-endian
   number (`SetBytes`), adds them up, and prints the sum as the "Original secret" (47). The function
   reverses the bytes, so the sum is in general not the key of the vault; the test
   asserts nothing and passes. In the order in which the code writes them the secrets do add up
   (`MigrationKeepsKey`). Whether that is also the order in which the MPC library reads them cannot
   be told from this repository: if it read as the test does, an EdDSA migration would make another key.

The loops of keysign and reshare are written the same way as those of keygen, so 1 to 3 hold of them
too. In a reshare that two or more parties leave, the receiver loop (`reshare.go` 175) is too short: theorem
`TwoLeaversBlock` below. A party that leaves by itself never comes to its end either: `LeaverStays`.

## Proofs

All theorems are checked by TLAPS for every value of the constants that the named
assumptions (`ExchangeAssumption`, `SetupAssumption`, `ReshareAssumption`, `KeysignAssumption`, `NameAssumption`,
`ExportAssumption`, `MigrationAssumption`) allow: any finite
set of parties, any number of rounds, any failures, any names, any number of parts, any prime, any polynomial. The assumptions give the constants their types and
say that the poll is shorter than the minute, that committees make up the party set, that a
committee of a reshare has at least two members (`GetThreshold` refuses one), and which parties have
a result and are passed to the outbound loop; that a name is a string of bytes other than zero (what an
argument of a process is), and that what is not zero has an inverse modulo the group order, which is what the
prime is for; and that the signers have enough shares for the key. TLC evaluates all of them on every run of their modules.

### Exchange: `ExchangeInvariant`

`ExchangeInv` is inductive. The two interesting properties are not, and each clause is
there for one of them:

* `AppliedAtMostOnce` needs to know that the hash cache covers all the session has
  accepted and what is in hand (`CacheCovers`): `DeleteMessage` puts a message in hand
  only if its hash is not in the cache.
* `CacheCovers` in turn needs `OneInHand`: when a message is put in hand, the hand was
  empty, and `ApplyMessage` moves it from the hand to the session.
* `NothingLost` (theorem `NoMessageLost`) is the converse direction. A message may leave the
  mailbox because its hash is in the cache; that loses nothing because, until a failure
  loses a message, whatever is in the cache is in hand or accepted (`CacheExact`). And the
  goroutine may leave the receiver loop because everybody has been served, not because the
  loop ran out of indices: lemma `AllServed`, from `Cardinality(Party) - 1 <= ReceiverLimit`.
  This is the theorem's assumption: keygen, migrate and keysign satisfy it, as they pass the whole
  committee as `parties`. A reshare passes the new committee only, and may not.
* `TooFewReceivers` is what happens otherwise. If fewer than all peers can be served, then not all parties have
  sent their first message to everybody: a party never served by a given sender stays in the first
  round. `ReachedInv` bounds the receivers of each sender's first message by `ReceiverLimit`.
* `EarlyLeaverAlone` (`LeaverIsAlone`) needs `NothingSkipped`: a session leaves a round only with
  the messages of that round from everybody, and a message of the last round that was never
  taken is nowhere (`NotBeforeMade`).
* `NoUseAfterFree` follows from the order of `wg.Wait` and the deferred free, and needs that no
  step leads out of `done` and `returned`.
* `NotBeforeMade` says that a message exists nowhere before its sender has taken it
  from its session; with `LoopsAgree` (`taken <= round`) this becomes the refinement: who holds
  the messages of round r from everybody knows that everybody has entered round r.

* `RestIsTheEnd` (`RestMeansFinished`): if nobody has anything to send, to poll or to apply, everybody has all
  messages of every round that all sessions have reached. `NothingHeldUp` says that no session stays in a round
  of which it has all messages, and is inductive. Take the lowest round that a session is in: its messages are
  made, hence sent, hence by `NothingLost` applied everywhere, so the session would not be in it. This is
  the safety half of progress: that the exchange comes to rest at all is fairness.
* `ErrorIsNeverReturned` (`ErrorKeepsWaiting`, an action property) needs `StoppedByFlag`: the outbound goroutine
  stops only behind the flag, and after an error nothing is left that raises it.
* `MinuteNeverPasses` (`TimeoutNeedsStall`) needs `MinuteYoung`: without a stall `minute` is never ahead of `timer`, since both
  start together and `Poll` sets both back, so `Timeout` is never enabled. A minute that was kept from pass to pass
  would run out: that is the property's mutant. The property speaks of behaviours in which no process stops for a
  minute (`"stall" \notin Faults`).

### ShareFile, Keygen and Reshare

`StepIsExchangeStep` shows every step of `ShareFile` to be one of `Exchange`, which gives
`ShareRunsExchange` and with it all of the above. `ShareInv` adds that a result exists
only when the inbound loop has ended (`ResultLast`), that it is `ok` only when the share is on disk, which it is from the write on (`ShareWritten`), and that a
file is touched only by a party with a result that has left the last round (`TouchedLast`).
`ShareImplementsBarrier` is the refinement: only `ApplyMessage` and `WriteShare` are not
stutters; the guard of the abstract `Advance` comes from `NotBeforeMade`, that of `Obtain` from
`LoopsAgree` and `TouchedLast`. `BarrierAllContributed` is proved of `RoundBarrier`, as `ShareFile` instantiates it, and
carried over.

`Keygen` and `Reshare` are `ShareSpec` with their own `Init` and `Return` (`KeygenSavesShare`,
`ReshareSavesShare`), so the theorems hold of both. For `Reshare` there are in addition:

* `OldSharesKept`: by `TouchedLast` whoever touched its file has left the last round, so everybody has
  entered it (lemma `LastRoundShared`); before that all old shares are there, and a committee has as many
  shares as it needs (lemma `NeededAtMostAll`).
* `OldKeyshareFreedLast` (`KeyshareOutlivesLoops`): the key share is freed by `Return` only, behind `BothDone`, and no step
  leads out of `returned` or starts a loop again.
* `LeaversStay`: `FlagInv` says that the flag of a party that leaves goes up with the timer only, and
  that its outbound goroutine does not stop before.
* `OneLeaverIsServed` and `TwoLeaversBlock`: counting the parties (lemma `AllOrLeaving`) decides which of `NoMessageLost`
  and `TooFewReceivers` applies.

### Keysign

`KeysignRunsExchange` as above. `SignatureLast` (a signature is there exactly if the loop returned `ok`, at its
end and after the last round) and `ConcludedLast` (Keysign concludes after both loops, returns after freeing the session) are
inductive together with `KeyshareOutlivesSession`; `EcdsaNilIsSigned` follows with `LastRoundShared`.

### Commands: committees and exports

What a process computes by itself is loops over lists, written as recursive functions. That such a function
is what its equation says is the lemma that everything here starts from: `LoopExists` builds the function of a
loop of n passes for an n smaller by one, `LoopsAgreeAt` shows it to be the only one, and `LoopInduction` carries an
invariant through the passes. (The library's induction theorems cannot be used, since they take an operator;
these rest on the order of the natural numbers being well-founded, `SetInduction`.)

* `ThresholdBounds`: for every n of two or more `SharesNeeded(n)` lies in 2 .. n, is the least
  number that is two thirds of n, and is a majority. `SetupThreshold` is the same of every setup message.
* `ReshareNamesBoth`: `IndicesOfMembers` says that the indices of a list are the positions of its members,
  `IndicesLookUp` that looking them up gives back the members; both swaps are in `ReshareCommittee`.
* `SetupNames`: the join and the split are two loops over the same bytes. `Joins` is the invariant of the first;
  of the second it is `Spelled(list, m, j)`, the first m names and j bytes of the next one, which a byte
  (`SpelledByte`) and a zero (`SpelledZero`) both advance. This is where a name without zero bytes is needed.
* `ExportInvariant`: `CountInv` counts: a part is opened, turned into a message, fed, in this order, and
  `FinishedWhenEnough` ties the receiver to the number fed. `OpenIsDeferred` gives `ExportFreesShares`; the other two
  properties compare the counts at the two ways to `nil`.

### Migration

`MigrationInv` says that every vault holds shares of one polynomial per curve at different places (`SharesOfKey`)
and that what a party has handed over stands for that party's product (`SecretIsProduct`).

* `MigrationHandsProduct`: `BytesRead` says that the bytes of a number, read as digits from the left, give the
  number back (`BigEndianAppend`), zero having no digits at all; `SecretWritten` undoes `reverseBytes` with `ReversedTwice`. `LagrangeType`
  needs an inverse of every difference of two share ids, hence a prime.
* `MigrationKeepsKey` (`SecretsAddUpToKey`) is Lagrange interpolation for the loop of the code. No induction over the
  polynomial or the coefficients is available as such, so it goes by the passes of the loop. Calculations are up to
  multiples of the group order (`Cong` and its lemmas). `Prod(ks, z)` are the loop's intermediate products for the
  place z, and the coefficients of all signers are considered together after every pass m, not only after the last:
  1. `ThreePlaces` is the identity of three places w, x and z that partial fractions rest on; `FactorsOfThree` states it
     of the factors of the loop.
  2. `Interpolation`, by induction over m: the product for a place z outside the first m ids is the sum of their parts,
     each the product for its own id times its factor for z. `PartStep` is the step, from `FactorsOfThree`.
  3. `ConstantAddsUp`: at the place 0 all factors are one (`FactorFromZero`), so the first m coefficients add up to one.
  4. `TimesAddsUp`: if numbers, so weighed, add up to the same e after every pass from d + 1 on, then the numbers times
     their ids add up to 0 after every pass from d + 2 on.
  5. `HornerAddsUp`, by induction over Horner's rule: every step of `Value` adds a constant (3) and multiplies with the id
     (4), so after k of them the sum is 0 from pass k + 1 on. With `Degree` less than the number of signers this is
     so at the end of the loop; what is left is the key (`ProductsAddUp`).

  `KeyIsSum` connects this with the state: the ids are different (`SharesOfKey`), the signers are listed once each
  (`SignersListed`), and the numbers handed over are the products (`HandedIs`).

### Setup

`SetupInv` consists of the places of the parties (`Places`: whoever is past its registration is registered, only a
leader waits for the committee, only the others for the start, and a session comes after the start), the order of the
calls (`Order`: setup message before upload before start, registration before all of them), the fact that wherever a
setup message is it is the leader's (`FromLeader`), and that an open session has one with the party's text
(`SessionHasSetup`, `TextAgrees`). `Order` and `FromLeader` are about a fresh id, the others hold for a
reused one as well, and so does `SameTextSigned`. `SetupAgreement` (`OneSetup`) and
`StartIsComplete` follow.

* `NobodyStuck` (`StuckMeansFailed`) follows from `Places`. Suppose all parties wait or have a session. Each of them is
  registered, so no leader waits for the committee; a leader waits for nothing else, so it has a session, so the session
  was started, so the others do not wait for the start either. This holds for any number of leaders but none, and whatever
  the relay still holds; it is the safety half of `EverybodyOpens`.
* `SetupImplementsGathering` (`ImplementsGathering`): `Register` is `Join`, the upload `Agree`, the start `Begin`,
  `OpenSession` is `Open`, and the other steps are not seen. The guards of the abstract actions are what `Order` says of the
  places; that nobody else uploads a message, and that the one in hand is the one at the relay, is `FromLeader`.
  One leader is the theorem's hypothesis, for the reason the hazard list gives at `main.go` 43: two leaders agree
  on two messages. `GatheringKeepsPromise` is proved of the abstract specification.

### What stays with TLC

Liveness under fairness is out of the prover's reach (it has no rules for `ENABLED` here), so
`SomebodyFinishes`, `AllReturnOrLeftUnsent`, `FlagStopsProcess`, `EverybodyOpens` and
`StartReleases` are model-checked only; `RestIsTheEnd` and `NobodyStuck` are the safety halves of two of them. Every
safety property and action property of the passing runs has its theorem. What the violating runs refute cannot be proved,
and where the converse holds it is (`MinuteNeverPasses`, `ErrorIsNeverReturned`, `OldSharesKept`, `EcdsaNilIsSigned`).
The modules that are proved about have no `RECURSIVE` operators, as a
module that reaches one loses the SMT backend.

## Not modelled

* **Cryptography.** What the library computes, chain codes, hashes, key formats. A message is
  its sender and round.
* **`mpc_wrapper.go` as such.** Two libraries behind an `if`; the session's behaviour is part
  of `Exchange`, the missing `KeyshareFree` of EdDSA of `Keysign`. Its functions for refresh shares, child
  keys and chain codes no operation calls.
* **The command line's flags** beyond those named in the inventory; they are handed on as they are.
* **Resources.** Response bodies that are never closed, goroutine stacks, file descriptors, handles
  that a process gives back by ending (`reshare.go` 137, `keygen.go` 251 and 687).
* **The relay's own implementation**, its expiry of old sessions in particular.
* **`testreconstruct.go`**, which is commented out as a whole, and the random chain code and hash
  helpers of `common.go` (15-53), which have no control flow.
* **Undecodable bodies and empty messages.** A JSON or base64 error is a failure of kind
  `get` or `input`: same effect, same branch. A public key that cannot be decoded after a keysign
  (399, 417, 421) would only add another error return to `Conclude`.
* **Messages of a reshare that differ by receiver.** The session of the library may send one round
  to the new committee only; the model broadcasts every round to everybody, the case in which the receiver loop
  matters most.
* **Short secrets.** `big.Int.Bytes` drops leading zeros, so one secret in 256 is shorter than 32
  bytes. `SecretIsProduct` says that the bytes still name the right number, read in the order in which
  they are written (finding 5). Whether the library accepts them
  at that length is not visible in this repository; a session that is not opened then is `Setup`'s failure to open.
* **Vaults opened by fewer than all signers.** The loop of the code runs over the ids of all who took part in
  the GG20 ceremony (`Ks`), so a migration needs all of them: `SecretsAddUpToKey` speaks of the moment when all have
  handed over their secret.
* **File names.** A migration writes to a file named after `--key` but takes part under the name in the vault
  (`main.go` 245, `keygen.go` 747); `store[p]` is whatever file the process writes.
* **`Setup` and `Exchange` in one module.** The two meet in one variable only: `pc[p] = "live"` is what
  `StartLoops(p)` waits for. `Exchange` lets every party start at any time, or never, in any order, which includes all that
  `Setup` lets it do; the safety theorems therefore hold of the composition, and a product of the two state
  spaces would check nothing that the parts do not. The fairness of `StartLoops` in
  `keygen_fair` rests on `EverybodyOpens`.

## Plan

The plan has been carried out in this order: exchange and keygen, the abstract ceremony, reshare and keysign on top of the
same exchange, the rendezvous, what the commands compute; then the proofs, in the same order, interpolation and the two
refinements last. Every operation of the program has its module and its run, and every safety property its
theorem. What is left is out of the prover's reach (see above).

What would be worth adding as the code changes:

1. when the sleep of `keygen.go` 270 and `reshare.go` 287 is put in: `KeySurvives` as a passing property, with the
   sleep as a timer like that of the poll;
2. when the timers are fixed: `InboundEnds` as a passing property, and for the error returns `OutboundStopsToo`
   in the place of `ErrorKeepsWaiting`;
3. an acknowledged reshare, in which a share replaces the old one only when all have theirs.
