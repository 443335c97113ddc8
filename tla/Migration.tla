------------------------------ MODULE Migration ------------------------------
(***************************************************************************)
(* What MigrateKey hands to the MPC library: every party of a GG20 vault    *)
(* multiplies its share with its Lagrange coefficient, so that the products *)
(* add up to the old key, and passes the bytes of the product on.  The     *)
(* field is that of the integers modulo a small prime and a byte has a      *)
(* small base.                                                              *)
(***************************************************************************)
EXTENDS Naturals, Sequences, FiniteSets, SequencesExt

CONSTANTS
  Signer,   \* the parties of the vault
  Degree,   \* one less than the number of shares that make up the key
  Q,        \* the group order, a prime
  Base      \* values of a byte

Curve == {"ecdsa", "eddsa"}
Scalar == 0 .. (Q - 1)

VARIABLES
  curve,               \* --eddsa or not
  key,                 \* key[c]: the key of the vault for curve c, which nobody has
  vaults,              \* vaults[p]: the key shares in p's vault file
  secretCoefficient    \* secretCoefficient[p]: the bytes p has handed to the library

migrationVars == <<curve, key, vaults, secretCoefficient>>

-----------------------------------------------------------------------------
(* big.Int modulo the group order.                                           *)
Sub(a, b) == (a + Q - b) % Q
Mul(a, b) == (a * b) % Q
ModInverse(a) == CHOOSE b \in Scalar : Mul(a, b) = 1

(* The signers have enough shares for the key.  The group order is a prime:  *)
(* what is not zero has an inverse.                                          *)
ASSUME MigrationAssumption ==
  /\ IsFiniteSet(Signer)
  /\ Degree \in Nat /\ Degree < Cardinality(Signer)
  /\ Q \in Nat \ {0, 1}
  /\ \A a \in 1 .. (Q - 1) : \E b \in Scalar : Mul(a, b) = 1
  /\ Base \in Nat \ {0, 1}

LagrangeSwapped(ks, shareID) ==
  FoldLeft(LAMBDA times, item :
             IF item = shareID THEN times
             ELSE Mul(times, Mul(shareID, ModInverse(Sub(item, shareID)))), 1, ks)
Lagrange(ks, shareID) ==
  LET times[i \in 0 .. Len(ks)] ==
        IF i = 0 THEN 1
        ELSE IF ks[i] = shareID THEN times[i - 1]
        ELSE Mul(times[i - 1], Mul(ks[i], ModInverse(Sub(ks[i], shareID))))
  IN times[Len(ks)]

(* big.Int.Bytes: big-endian, without leading zeros.                         *)
Bytes(n) ==
  LET bytes[k \in Scalar] ==
        IF k = 0 THEN <<>> ELSE Append(bytes[k \div Base], k % Base)
  IN bytes[n]

NotReversed(input) == input
reverseBytes(input) == Reverse(input)

(* The first key share of the vault that is filed under the public key, as a *)
(* set with its secret or an empty one for "keyshare not found".             *)
getLocalSecret(c, vault) ==
  LET found == {i \in DOMAIN vault : vault[i].publicKey = c}
      item == vault[CHOOSE i \in found : \A j \in found : i <= j]
      ui == Mul(item.xi, Lagrange(item.ks, item.shareID))
  IN IF found = {} THEN {}
     ELSE {IF c = "eddsa" THEN reverseBytes(Bytes(ui)) ELSE Bytes(ui)}

-----------------------------------------------------------------------------
(* The order in which the key shares of a ceremony list its signers.         *)
Signers == SetToSeq(Signer)

(* The value of a polynomial, by Horner's rule.                              *)
Value(start, poly, x) ==
  LET times[k \in 0 .. Degree] ==
        IF k = 0 THEN 0 ELSE (times[k - 1] + poly[(Degree + 1) - k]) * x
  IN start + times[Degree]

(* A vault as a GG20 ceremony has left it: the shares are values of a        *)
(* polynomial that is the key at 0.  A vault may lack a share.               *)
KeyShare(c, poly, ids, p) ==
  [publicKey |-> c,
   xi |-> Value(key[c], poly, ids[p]) % Q,
   shareID |-> ids[p],
   ks |-> [i \in 1 .. Len(Signers) |-> ids[Signers[i]]]]

MigrationInit ==
  /\ curve \in Curve
  /\ key \in [Curve -> Scalar]
  /\ \E poly \in [1 .. Degree -> Scalar], ids \in [Signer -> 1 .. (Q - 1)] :
       /\ \A p, q \in Signer : ids[p] = ids[q] => p = q
       /\ LET other == [k \in 1 .. Degree |-> (poly[k] + 1) % Q]
              ecdsa(p) == KeyShare("ecdsa", poly, ids, p)
              eddsa(p) == KeyShare("eddsa", other, ids, p)
          IN \/ vaults = [p \in Signer |-> <<ecdsa(p), eddsa(p)>>]
             \/ vaults = [p \in Signer |-> <<eddsa(p)>>]
  /\ secretCoefficient = [p \in Signer |-> {}]

(* A process that runs another command.                                      *)
MigrationIdle ==
  /\ curve = "ecdsa"
  /\ key = [c \in Curve |-> 0]
  /\ vaults = [p \in Signer |-> <<>>]
  /\ secretCoefficient = [p \in Signer |-> {}]

(* MigrateKey of p up to the call that hands the secret to the library.       *)
OpenMigration(p) ==
  /\ secretCoefficient[p] = {}
  /\ \E bytes \in getLocalSecret(curve, vaults[p]) :
       secretCoefficient' = [secretCoefficient EXCEPT ![p] = {bytes}]
  /\ UNCHANGED <<curve, key, vaults>>

MigrationNext == \E p \in Signer : OpenMigration(p)

-----------------------------------------------------------------------------
(* big.Int.SetBytes: the first byte is the most significant one.             *)
BigEndian(bytes) ==
  LET n[k \in 0 .. Len(bytes)] == IF k = 0 THEN 0 ELSE n[k - 1] * Base + bytes[k]
  IN n[Len(bytes)]

(* The number that bytes stand for in the order in which the code writes it:  *)
(* most significant byte first with ECDSA, last with EdDSA.  In which order   *)
(* the library reads is not part of the repository.                           *)
Number(c, bytes) == BigEndian(IF c = "eddsa" THEN Reverse(bytes) ELSE bytes)

(* What a number for every signer adds up to.                                *)
SumOver(number) ==
  LET sum[i \in 0 .. Len(Signers)] ==
        IF i = 0 THEN 0 ELSE sum[i - 1] + number[Signers[i]]
  IN sum[Len(Signers)]

AllHanded == \A p \in Signer : secretCoefficient[p] # {}
HandedBy(p) == CHOOSE bytes \in secretCoefficient[p] : TRUE

(* What a party hands to the library is its share times its Lagrange          *)
(* coefficient, although the bytes lose leading zeros and those of an EdDSA   *)
(* secret are turned round.  In which order the library reads them is not in  *)
(* the repository; this is said of the order in which the code writes them    *)
(* (keygen.go:614-615, 651-661, 795-829).                                      *)
SecretIsProduct ==
  \A p \in Signer : \A bytes \in secretCoefficient[p] :
    \E i \in DOMAIN vaults[p] :
      LET item == vaults[p][i]
      IN /\ item.publicKey = curve
         /\ Number(curve, bytes) = Mul(item.xi, Lagrange(item.ks, item.shareID))

(* When all sessions are open, the secrets of all signers add up to the key   *)
(* of the vault, for every polynomial and every numbering of the shares, in    *)
(* the order in which the code writes them (keygen.go:600-615, 637-652,        *)
(* 795-829): a library that reads that order migrates the old key.  The test   *)
(* of the EdDSA secret adds up in another order, see OriginalSecretIsSum.      *)
SecretsAddUpToKey ==
  AllHanded =>
    SumOver([p \in Signer |-> Number(curve, HandedBy(p))]) % Q = key[curve]

(* keygen_test.go:36-47 takes every EdDSA secret for a big-endian number, adds *)
(* them up modulo the order and prints the sum as the "Original secret", the   *)
(* key of the vault.  The code reverses the bytes (keygen.go:652), which the   *)
(* test does not undo.                                                        *)
OriginalSecretIsSum ==
  curve = "eddsa" /\ AllHanded =>
    SumOver([p \in Signer |-> BigEndian(HandedBy(p))]) % Q = key[curve]

-----------------------------------------------------------------------------
(* The part of the inductive invariant from which MigrationProofs derives    *)
(* SecretsAddUpToKey: the shares of a curve are values of one polynomial, at  *)
(* different places.                                                         *)
SharesOfKey ==
  (\E p \in Signer : vaults[p] # <<>>) =>
    \E poly \in [Curve -> [1 .. Degree -> Scalar]], ids \in [Signer -> 1 .. (Q - 1)] :
      /\ \A p, q \in Signer : ids[p] = ids[q] => p = q
      /\ \A p \in Signer : \A i \in DOMAIN vaults[p] :
           \E c \in Curve : vaults[p][i] = KeyShare(c, poly[c], ids, p)

=============================================================================
