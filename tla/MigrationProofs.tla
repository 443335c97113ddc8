--------------------------- MODULE MigrationProofs ---------------------------
(***************************************************************************)
(* Proofs about the secrets of a migration, for every prime, every number   *)
(* of signers, every number of shares that make up the key and every        *)
(* numbering of the shares: the bytes that a party hands to the library are *)
(* those of its product, and the products of all parties add up to the key  *)
(* of the vault, in the order in which the code writes the bytes.           *)
(***************************************************************************)
EXTENDS CommandsProofs, Integers

-----------------------------------------------------------------------------
(* A set of natural numbers has a least one.                                 *)
LEMMA LeastOf ==
  ASSUME NEW T \in SUBSET Nat, T # {}
  PROVE  \E x \in T : \A y \in T : x <= y
<1> DEFINE R == {ss \in Nat \X Nat : ss[1] < ss[2]}
<1>1. IsWellFoundedOn(R, Nat)
  BY LessThanWellFounded
<1> HIDE DEF R
<1>2. PICK x \in T : \A y \in T : ~ (<<y, x>> \in R)
  BY <1>1, WFMin
<1>3. ASSUME NEW y \in T
      PROVE  x <= y
  <2>1. ~ (<<y, x>> \in R)
    BY <1>2, <1>3
  <2>2. x \in Nat /\ y \in Nat
    BY <1>2, <1>3
  <2>3. ~ (y < x)
    BY <2>1, <2>2 DEF R
  <2> QED
    BY <2>2, <2>3
<1> QED
  BY <1>3

(* The field.                                                                *)
LEMMA MulType ==
  ASSUME NEW a \in Nat, NEW b \in Nat
  PROVE  Mul(a, b) \in Scalar /\ Mul(a, b) \in Nat
<1>1. a * b \in Nat /\ Q \in Nat \ {0}
  BY MigrationAssumption
<1> QED
  BY <1>1 DEF Mul, Scalar

LEMMA SubNotZero ==
  ASSUME NEW a \in 1 .. (Q - 1), NEW b \in Scalar, a # b
  PROVE  Sub(a, b) \in 1 .. (Q - 1)
<1>1. Q \in Nat \ {0} /\ b \in 0 .. (Q - 1)
  BY MigrationAssumption DEF Scalar
<1>2. CASE a < b
  <2>1. a + Q - b \in 1 .. (Q - 1)
    BY <1>1, <1>2
  <2>2. (a + Q - b) % Q = a + Q - b
    BY <1>1, <2>1
  <2> QED
    BY <2>1, <2>2 DEF Sub
<1>3. CASE a > b
  <2>1. a + Q - b \in Nat /\ a + Q - b < 2 * Q /\ a + Q - b >= Q
    BY <1>1, <1>3
  <2>2. (a + Q - b) % Q = a + Q - b - Q
    BY <1>1, <2>1
  <2> QED
    BY <1>1, <1>3, <2>2 DEF Sub
<1> QED
  BY <1>1, <1>2, <1>3

LEMMA InverseType ==
  ASSUME NEW a \in 1 .. (Q - 1)
  PROVE  ModInverse(a) \in Nat
<1>1. \E b \in Scalar : Mul(a, b) = 1
  BY MigrationAssumption
<1>2. ModInverse(a) \in Scalar
  BY <1>1, Zenon DEF ModInverse
<1> QED
  BY <1>2, MigrationAssumption DEF Scalar

(* f[k] is the product over the first k numbers, seen from the place z.       *)
Factor(x, z) == Mul(x, ModInverse(Sub(x, z)))

Products(ks, z, f) ==
  /\ f \in [0 .. Len(ks) -> Nat]
  /\ f[0] = 1
  /\ \A k \in 1 .. Len(ks) :
       f[k] = IF ks[k] = z THEN f[k - 1] ELSE Mul(f[k - 1], Factor(ks[k], z))

(* The loop of a Lagrange coefficient makes these products, also for a place  *)
(* where no share lies: no number is asked for its inverse that has none,     *)
(* because the share's own number is passed over.                             *)
LEMMA LagrangeLoop ==
  ASSUME NEW ks \in Seq(1 .. (Q - 1)), NEW shareID \in Scalar
  PROVE  \E f : Products(ks, shareID, f) /\ Lagrange(ks, shareID) = f[Len(ks)]
<1> DEFINE n == Len(ks)
           factor(k) == Factor(ks[k], shareID)
           step == [k \in 1 .. n |-> [v \in Nat |->
                      IF ks[k] = shareID THEN v ELSE Mul(v, factor(k))]]
           Pass(f, k) == IF ks[k] = shareID THEN f[k - 1] ELSE Mul(f[k - 1], factor(k))
           Is(f) == f = [k \in 0 .. n |-> IF k = 0 THEN 1 ELSE Pass(f, k)]
<1>1. n \in Nat /\ 1 \in Nat
  OBVIOUS
<1>2. \A k \in 1 .. n : \A v \in Nat : step[k][v] \in Nat
  <2> SUFFICES ASSUME NEW k \in 1 .. n, NEW v \in Nat, ks[k] # shareID
               PROVE  Mul(v, factor(k)) \in Nat
    OBVIOUS
  <2>1. ks[k] \in 1 .. (Q - 1) /\ ks[k] \in Nat
    BY MigrationAssumption
  <2>2. ModInverse(Sub(ks[k], shareID)) \in Nat
    BY <2>1, SubNotZero, InverseType
  <2>3. factor(k) \in Nat
    BY <2>1, <2>2, MulType DEF Factor
  <2> QED
    BY <2>3, MulType
<1>3. PICK f : Computes(f, n, Nat, 1, step)
  <2> HIDE DEF step, n
  <2> QED
    BY <1>1, <1>2, LoopExists
<1>4. f \in [0 .. n -> Nat] /\ f[0] = 1
  BY <1>3 DEF Computes
<1> HIDE DEF factor
<1>5. ASSUME NEW k \in 1 .. n
      PROVE  f[k] = Pass(f, k)
  <2>1. f[k] = step[k][f[k - 1]]
    BY <1>3 DEF Computes
  <2>2. f[k - 1] \in Nat
    <3>1. k - 1 \in 0 .. n
      OBVIOUS
    <3> QED
      BY <1>4, <3>1, Zenon
  <2> QED
    BY <2>1, <2>2
<1>6. Is(CHOOSE g : Is(g))
  <2>1. f = [k \in 0 .. n |-> f[k]]
    BY <1>4
  <2>2. ASSUME NEW k \in 0 .. n
        PROVE  f[k] = IF k = 0 THEN 1 ELSE Pass(f, k)
    <3> HIDE DEF Pass
    <3> QED
      BY <1>4, <1>5
  <2>3. Is(f)
    BY <2>1, <2>2, Zenon
  <2> HIDE DEF Is
  <2> QED
    BY <2>3
<1>7. ASSUME NEW g, Is(g)
      PROVE  f[n] = g[n]
  <2>1. ASSUME NEW k \in 0 .. n
        PROVE  g[k] = IF k = 0 THEN 1 ELSE Pass(g, k)
    BY <1>7, Zenon
  <2>2. g[0] = 1
    <3>1. 0 \in 0 .. n
      BY <1>1
    <3> QED
      BY <2>1, <3>1, Zenon
  <2>3. ASSUME NEW k \in 1 .. n, f[k - 1] = g[k - 1]
        PROVE  f[k] = g[k]
    <3>1. g[k] = Pass(g, k)
      <4> HIDE DEF Pass
      <4> QED
        BY <2>1
    <3> QED
      BY <1>5, <2>3, <3>1
  <2>4. \A k \in 1 .. n : f[k - 1] = g[k - 1] => f[k] = g[k]
    BY <2>3, Zenon
  <2>5. f[0] = g[0]
    BY <1>4, <2>2, Zenon
  <2> HIDE DEF n
  <2> QED
    BY <1>1, <2>4, <2>5, LoopsAgreeAt, Zenon
<1>8. Lagrange(ks, shareID) = (CHOOSE g : Is(g))[n]
  BY DEF Lagrange, factor, Factor
<1>9. Products(ks, shareID, f)
  BY <1>4, <1>5, Zenon DEF Products, factor
<1> HIDE DEF Is
<1>10. Lagrange(ks, shareID) = f[n]
  BY <1>6, <1>7, <1>8, Zenon
<1> QED
  BY <1>9, <1>10, Zenon

LEMMA LagrangeType ==
  ASSUME NEW ks \in Seq(1 .. (Q - 1)), NEW shareID \in 1 .. (Q - 1)
  PROVE  Lagrange(ks, shareID) \in Nat
<1>1. shareID \in Scalar
  BY MigrationAssumption DEF Scalar
<1>2. PICK f : Products(ks, shareID, f) /\ Lagrange(ks, shareID) = f[Len(ks)]
  BY <1>1, LagrangeLoop
<1>3. Len(ks) \in 0 .. Len(ks)
  OBVIOUS
<1> QED
  BY <1>2, <1>3, Zenon DEF Products

-----------------------------------------------------------------------------
(* Congruence modulo the group order.                                        *)
Cong(a, b) == \E k \in Int : a = b + Q * k

LEMMA CongEquals ==
  ASSUME NEW a \in Int, NEW b \in Int, a = b
  PROVE  Cong(a, b)
<1>1. 0 \in Int /\ a = b + Q * 0
  BY MigrationAssumption
<1> QED
  BY <1>1 DEF Cong

LEMMA CongSymmetric ==
  ASSUME NEW a \in Int, NEW b \in Int, Cong(a, b)
  PROVE  Cong(b, a)
<1>1. PICK k \in Int : a = b + Q * k
  BY DEF Cong
<1>2. -k \in Int /\ b = a + Q * (-k)
  BY <1>1, MigrationAssumption
<1> QED
  BY <1>2 DEF Cong

LEMMA CongTransitive ==
  ASSUME NEW a \in Int, NEW b \in Int, NEW c \in Int, Cong(a, b), Cong(b, c)
  PROVE  Cong(a, c)
<1>1. PICK k \in Int : a = b + Q * k
  BY DEF Cong
<1>2. PICK l \in Int : b = c + Q * l
  BY DEF Cong
<1>3. k + l \in Int /\ a = c + Q * (k + l)
  BY <1>1, <1>2, MigrationAssumption
<1> QED
  BY <1>3 DEF Cong

LEMMA CongAdd ==
  ASSUME NEW a \in Int, NEW b \in Int, NEW c \in Int, NEW d \in Int,
         Cong(a, b), Cong(c, d)
  PROVE  Cong(a + c, b + d)
<1>1. PICK k \in Int : a = b + Q * k
  BY DEF Cong
<1>2. PICK l \in Int : c = d + Q * l
  BY DEF Cong
<1>3. k + l \in Int /\ a + c = (b + d) + Q * (k + l)
  BY <1>1, <1>2, MigrationAssumption
<1> QED
  BY <1>3 DEF Cong

LEMMA CongMul ==
  ASSUME NEW a \in Int, NEW b \in Int, NEW c \in Int, NEW d \in Int,
         Cong(a, b), Cong(c, d)
  PROVE  Cong(a * c, b * d)
<1>1. PICK k \in Int : a = b + Q * k
  BY DEF Cong
<1>2. PICK l \in Int : c = d + Q * l
  BY DEF Cong
<1> DEFINE m == b * l + k * d + Q * (k * l)
<1>3. m \in Int
  BY <1>1, <1>2, MigrationAssumption
<1>4. Q \in Int
  BY MigrationAssumption
<1>5. (b + Q * k) * (d + Q * l) = b * d + Q * m
  BY <1>4
<1>6. a * c = b * d + Q * m
  BY <1>1, <1>2, <1>5
<1> HIDE DEF m
<1> QED
  BY <1>3, <1>6 DEF Cong

LEMMA CongMod ==
  ASSUME NEW a \in Int
  PROVE  Cong(a % Q, a) /\ a % Q \in Scalar
<1>1. Q \in Nat \ {0}
  BY MigrationAssumption
<1>2. a \div Q \in Int /\ a % Q \in 0 .. (Q - 1) /\ a = Q * (a \div Q) + (a % Q)
  BY <1>1
<1> DEFINE d == a \div Q
           r == a % Q
<1> HIDE DEF d, r
<1>3. d \in Int /\ r \in Int /\ a = Q * d + r
  BY <1>1, <1>2 DEF d, r
<1>4. -d \in Int /\ r = a + Q * (-d)
  BY <1>1, <1>3
<1>5. Cong(r, a)
  BY <1>4 DEF Cong
<1> QED
  BY <1>2, <1>5 DEF r, Scalar

LEMMA CongEqual ==
  ASSUME NEW a \in Scalar, NEW b \in Scalar, Cong(a, b)
  PROVE  a = b
<1>1. Q \in Nat \ {0} /\ a \in 0 .. (Q - 1) /\ b \in 0 .. (Q - 1)
  BY MigrationAssumption DEF Scalar
<1>2. PICK k \in Int : a = b + Q * k
  BY DEF Cong
<1>3. CASE k = 0
  BY <1>1, <1>2, <1>3
<1>4. CASE k > 0
  <2>1. k - 1 \in Nat /\ Q * k = Q + Q * (k - 1)
    BY <1>1, <1>4
  <2>2. Q * (k - 1) \in Nat
    BY <1>1, <2>1
  <2> QED
    BY <1>1, <1>2, <2>1, <2>2
<1>5. CASE k < 0
  <2>1. -1 - k \in Nat /\ Q * k = -Q - Q * (-1 - k)
    BY <1>1, <1>5
  <2>2. Q * (-1 - k) \in Nat
    BY <1>1, <2>1
  <2> QED
    BY <1>1, <1>2, <2>1, <2>2
<1> QED
  BY <1>3, <1>4, <1>5

LEMMA MulCong ==
  ASSUME NEW a \in Nat, NEW b \in Nat
  PROVE  Cong(Mul(a, b), a * b)
<1>1. a * b \in Int
  OBVIOUS
<1> QED
  BY <1>1, CongMod DEF Mul

(* What the code multiplies with for a difference is the inverse of it.       *)
J(x, z) == ModInverse(Sub(x, z))

LEMMA InverseOfDifference ==
  ASSUME NEW x \in 1 .. (Q - 1), NEW z \in Scalar, x # z
  PROVE  J(x, z) \in Nat /\ Cong((x - z) * J(x, z), 1)
<1> DEFINE s == Sub(x, z)
           j == ModInverse(s)
<1>1. Q \in Nat \ {0, 1} /\ x \in Nat /\ z \in Nat /\ z \in 0 .. (Q - 1)
  BY MigrationAssumption DEF Scalar
<1>2. s \in 1 .. (Q - 1) /\ s \in Nat
  BY <1>1, SubNotZero
<1>3. j \in Nat
  BY <1>2, InverseType
<1>4. Mul(s, j) = 1
  <2>1. \E b \in Scalar : Mul(s, b) = 1
    BY <1>2, MigrationAssumption
  <2> HIDE DEF s
  <2> QED
    BY <2>1, Zenon DEF ModInverse
<1>5. Cong(s, x - z)
  <2>1. x + Q - z \in Int /\ x - z \in Int /\ 1 \in Int /\ x + Q - z = (x - z) + Q * 1
    BY <1>1
  <2>2. Cong(x + Q - z, x - z)
    BY <2>1 DEF Cong
  <2>3. Cong(s, x + Q - z)
    BY <2>1, CongMod DEF Sub
  <2> HIDE DEF s
  <2> QED
    BY <1>2, <2>1, <2>2, <2>3, CongTransitive
<1> HIDE DEF s, j
<1>6. x - z \in Int /\ s * j \in Int /\ (x - z) * j \in Int /\ 1 \in Int /\ s \in Int /\ j \in Int
  BY <1>1, <1>2, <1>3
<1>7. Cong(1, s * j)
  BY <1>2, <1>3, <1>4, MulCong
<1>8. Cong((x - z) * j, s * j)
  <2>1. Cong(j, j) /\ Cong(x - z, s)
    BY <1>5, <1>6, CongEquals, CongSymmetric
  <2> QED
    BY <1>6, <2>1, CongMul
<1>9. Cong((x - z) * j, 1)
  BY <1>6, <1>7, <1>8, CongSymmetric, CongTransitive
<1> QED
  BY <1>3, <1>9 DEF J, j, s

(* The inverses of the differences of three places.                           *)
LEMMA ThreePlaces ==
  ASSUME NEW x \in Int, NEW w \in Int, NEW z \in Int,
         NEW a \in Int, NEW b \in Int, NEW c \in Int, NEW d \in Int,
         Cong((w - x) * a, 1), Cong((x - z) * b, 1), Cong((w - z) * c, 1),
         Cong((x - w) * d, 1)
  PROVE  Cong(d, -a) /\ Cong(a * b, c * b - c * d)
<1>1. ASSUME NEW i \in Int, NEW r \in Int, Cong(i, 1)
      PROVE  Cong(r * i, r) /\ Cong(r, r * i)
  <2>1. Cong(r, r) /\ r * i \in Int /\ r * 1 = r
    BY CongEquals
  <2>2. Cong(r * i, r * 1)
    BY <1>1, <2>1, CongMul
  <2> QED
    BY <2>1, <2>2, CongSymmetric
<1>2. Cong(d, -a)
  <2>1. /\ (w - x) * a \in Int /\ (x - w) * d \in Int /\ -a \in Int
        /\ d * ((w - x) * a) \in Int
    OBVIOUS
  <2>2. d * ((w - x) * a) = (-a) * ((x - w) * d)
    OBVIOUS
  <2>3. Cong(d, d * ((w - x) * a))
    BY <1>1, <2>1
  <2>4. Cong((-a) * ((x - w) * d), -a)
    BY <1>1, <2>1
  <2> QED
    BY <2>1, <2>2, <2>3, <2>4, CongTransitive
<1>3. Cong(a * b, c * b - c * d)
  <2> DEFINE e == (w - x) * a
             f == (x - z) * b
             g == (w - z) * c
  <2>1. e \in Int /\ f \in Int /\ g \in Int
    OBVIOUS
  <2>2. (c * b) * e = (a * b) * g - (a * c) * f
    OBVIOUS
  <2>3. (c * b) * e + (a * c) * f = (a * b) * g
    <3>1. (c * b) * e \in Int /\ (a * b) * g \in Int /\ (a * c) * f \in Int
      OBVIOUS
    <3> HIDE DEF e, f, g
    <3> QED
      BY <2>2, <3>1
  <2> HIDE DEF e, f, g
  <2>4. /\ c * b \in Int /\ a * b \in Int /\ a * c \in Int /\ c * (-a) \in Int /\ c * d \in Int
        /\ -(c * d) \in Int /\ c * b - c * d \in Int /\ c * b + a * c \in Int /\ -c \in Int
    OBVIOUS
  <2>5. Cong(e, 1) /\ Cong(f, 1) /\ Cong(g, 1)
    BY DEF e, f, g
  <2>6. Cong(a * b, (a * b) * g)
    BY <1>1, <2>1, <2>4, <2>5
  <2>7. Cong((c * b) * e, c * b) /\ Cong((a * c) * f, a * c)
    BY <1>1, <2>1, <2>4, <2>5
  <2>8. Cong((c * b) * e + (a * c) * f, c * b + a * c)
    <3>1. (c * b) * e \in Int /\ (a * c) * f \in Int
      BY <2>1
    <3> HIDE DEF Cong
    <3> QED
      BY <2>4, <2>7, <3>1, CongAdd
  <2>9. Cong(a * b, c * b + a * c)
    <3>1. (a * b) * g \in Int
      BY <2>1
    <3> QED
      BY <2>3, <2>4, <2>6, <2>8, <3>1, CongTransitive
  <2>10. Cong((-c) * (-a), (-c) * d)
    <3>1. Cong(-a, d) /\ -a \in Int /\ Cong(-c, -c)
      BY <1>2, <2>4, CongSymmetric, CongEquals
    <3> QED
      BY <2>4, <3>1, CongMul
  <2>11. Cong(c * b + a * c, c * b - c * d)
    <3>1. (-c) * (-a) = a * c /\ (-c) * d = -(c * d)
      OBVIOUS
    <3>2. Cong(a * c, -(c * d)) /\ Cong(c * b, c * b)
      BY <2>4, <2>10, <3>1, CongEquals
    <3>3. Cong(c * b + a * c, c * b + (-(c * d)))
      BY <2>4, <3>2, CongAdd
    <3>4. c * b + (-(c * d)) = c * b - c * d
      BY <2>4
    <3> QED
      BY <3>3, <3>4
  <2> QED
    BY <2>4, <2>9, <2>11, CongTransitive
<1> QED
  BY <1>2, <1>3

(* Sums of the first numbers of a list.                                       *)
Sums(a, n, f) ==
  /\ f \in [0 .. n -> Int]
  /\ f[0] = 0
  /\ \A k \in 1 .. n : f[k] = f[k - 1] + a[k]
SumOf(a, n) == CHOOSE f : Sums(a, n, f)

LEMMA SumsExist ==
  ASSUME NEW n \in Nat, NEW a \in [1 .. n -> Int]
  PROVE  Sums(a, n, SumOf(a, n))
<1> DEFINE step == [k \in 1 .. n |-> [v \in Int |-> v + a[k]]]
<1>1. \A k \in 1 .. n : \A v \in Int : step[k][v] \in Int
  OBVIOUS
<1>2. PICK f : Computes(f, n, Int, 0, step)
  <2>1. 0 \in Int
    OBVIOUS
  <2> HIDE DEF step
  <2> QED
    BY <1>1, <2>1, LoopExists
<1>3. f \in [0 .. n -> Int] /\ f[0] = 0
  BY <1>2 DEF Computes
<1>4. ASSUME NEW k \in 1 .. n
      PROVE  f[k] = f[k - 1] + a[k]
  <2>1. f[k] = step[k][f[k - 1]]
    BY <1>2 DEF Computes
  <2>2. f[k - 1] \in Int
    <3>1. k - 1 \in 0 .. n
      OBVIOUS
    <3> QED
      BY <1>3, <3>1, Zenon
  <2> QED
    BY <2>1, <2>2
<1>5. Sums(a, n, f)
  BY <1>3, <1>4, Zenon DEF Sums
<1> QED
  BY <1>5, Zenon DEF SumOf

LEMMA SumLinear ==
  ASSUME NEW n \in Nat, NEW a \in [1 .. n -> Int], NEW b \in [1 .. n -> Int],
         NEW c \in [1 .. n -> Int], NEW u \in Int, NEW v \in Int, NEW m \in 0 .. n,
         \A i \in 1 .. m : Cong(c[i], u * a[i] + v * b[i])
  PROVE  Cong(SumOf(c, n)[m], u * SumOf(a, n)[m] + v * SumOf(b, n)[m])
<1> DEFINE A == SumOf(a, n)
           B == SumOf(b, n)
           C == SumOf(c, n)
<1>1. Sums(a, n, A) /\ Sums(b, n, B) /\ Sums(c, n, C)
  BY SumsExist
<1> HIDE DEF A, B, C
<1> DEFINE S == {k \in 0 .. m : Cong(C[k], u * A[k] + v * B[k])}
<1>2. m \in Nat /\ m <= n
  OBVIOUS
<1>3. 0 \in S
  <2>1. A[0] = 0 /\ B[0] = 0 /\ C[0] = 0 /\ 0 = u * 0 + v * 0
    BY <1>1 DEF Sums
  <2>2. Cong(0, 0)
    BY CongEquals
  <2> QED
    BY <1>2, <2>1, <2>2
<1>4. ASSUME NEW k \in 0 .. (m - 1), k \in S
      PROVE  k + 1 \in S
  <2>1. k + 1 \in 1 .. m /\ k + 1 \in 1 .. n /\ (k + 1) - 1 = k /\ k \in 0 .. n /\ k + 1 \in 0 .. m
    BY <1>2
  <2>2. /\ A[k + 1] = A[k] + a[k + 1] /\ B[k + 1] = B[k] + b[k + 1] /\ C[k + 1] = C[k] + c[k + 1]
        /\ A[k] \in Int /\ B[k] \in Int /\ C[k] \in Int
        /\ a[k + 1] \in Int /\ b[k + 1] \in Int /\ c[k + 1] \in Int
    BY <1>1, <2>1 DEF Sums
  <2> DEFINE A0 == A[k]
             B0 == B[k]
             C0 == C[k]
             a1 == a[k + 1]
             b1 == b[k + 1]
             c1 == c[k + 1]
  <2>3. Cong(C0, u * A0 + v * B0) /\ Cong(c1, u * a1 + v * b1)
    BY <1>4, <2>1
  <2>4. /\ A[k + 1] = A0 + a1 /\ B[k + 1] = B0 + b1 /\ C[k + 1] = C0 + c1
        /\ A0 \in Int /\ B0 \in Int /\ C0 \in Int /\ a1 \in Int /\ b1 \in Int /\ c1 \in Int
    BY <2>2
  <2> HIDE DEF A0, B0, C0, a1, b1, c1
  <2>5. /\ u * A0 + v * B0 \in Int /\ u * a1 + v * b1 \in Int
        /\ (u * A0 + v * B0) + (u * a1 + v * b1) = u * (A0 + a1) + v * (B0 + b1)
    BY <2>4
  <2>6. Cong(C0 + c1, (u * A0 + v * B0) + (u * a1 + v * b1))
    BY <2>3, <2>4, <2>5, CongAdd
  <2>7. Cong(C[k + 1], u * A[k + 1] + v * B[k + 1])
    BY <2>4, <2>5, <2>6
  <2> QED
    BY <2>1, <2>7
<1>5. m \in S
  <2>1. m \in 0 .. m
    BY <1>2
  <2> HIDE DEF S
  <2> QED
    BY <1>2, <1>3, <1>4, <2>1, LoopInduction
<1> QED
  BY <1>5 DEF A, B, C

LEMMA FactorIs ==
  ASSUME NEW x \in 1 .. (Q - 1), NEW z \in Scalar, x # z
  PROVE  /\ Factor(x, z) \in Nat /\ J(x, z) \in Nat
         /\ Cong(Factor(x, z), x * J(x, z))
         /\ Cong((x - z) * J(x, z), 1)
<1>1. J(x, z) \in Nat /\ Cong((x - z) * J(x, z), 1)
  BY InverseOfDifference
<1>2. x \in Nat
  BY MigrationAssumption
<1>3. Factor(x, z) = Mul(x, J(x, z))
  BY DEF Factor, J
<1>4. Mul(x, J(x, z)) \in Nat /\ Cong(Mul(x, J(x, z)), x * J(x, z))
  BY <1>1, <1>2, MulType, MulCong
<1> QED
  BY <1>1, <1>3, <1>4

LEMMA FactorsOfThree ==
  ASSUME NEW x \in 1 .. (Q - 1), NEW w \in 1 .. (Q - 1), NEW z \in Scalar,
         x # w, x # z, w # z
  PROVE  /\ Cong(Factor(w, x) * Factor(x, z),
                 Factor(w, z) * Factor(x, z) - Factor(w, z) * Factor(x, w))
         /\ Cong(Factor(w, x) * x, w * Factor(w, x) - w)
<1> DEFINE a == J(w, x)
           b == J(x, z)
           c == J(w, z)
           d == J(x, w)
           A == Factor(w, x)
           B == Factor(x, z)
           C == Factor(w, z)
           D == Factor(x, w)
<1>1. x \in Scalar /\ w \in Scalar /\ x \in Int /\ w \in Int /\ z \in Int
  BY MigrationAssumption DEF Scalar
<1>2. A \in Nat /\ a \in Nat /\ Cong(A, w * a) /\ Cong((w - x) * a, 1)
  BY <1>1, FactorIs
<1>3. B \in Nat /\ b \in Nat /\ Cong(B, x * b) /\ Cong((x - z) * b, 1)
  BY <1>1, FactorIs
<1>4. C \in Nat /\ c \in Nat /\ Cong(C, w * c) /\ Cong((w - z) * c, 1)
  BY <1>1, FactorIs
<1>5. D \in Nat /\ d \in Nat /\ Cong(D, x * d) /\ Cong((x - w) * d, 1)
  BY <1>1, FactorIs
<1> HIDE DEF a, b, c, d, A, B, C, D
<1>6. /\ a \in Int /\ b \in Int /\ c \in Int /\ d \in Int
      /\ A \in Int /\ B \in Int /\ C \in Int /\ D \in Int
  BY <1>2, <1>3, <1>4, <1>5
<1>7. Cong(d, -a) /\ Cong(a * b, c * b - c * d)
  BY <1>1, <1>2, <1>3, <1>4, <1>5, <1>6, ThreePlaces
<1>8. Cong(A * B, C * B - C * D)
  <2> DEFINE ab == (w * a) * (x * b)
             cb == (w * c) * (x * b)
             cd == (w * c) * (x * d)
  <2>1. ab \in Int /\ cb \in Int /\ cd \in Int
    BY <1>1, <1>6
  <2>2. /\ w * a \in Int /\ x * b \in Int /\ w * c \in Int /\ x * d \in Int
        /\ A * B \in Int /\ C * B \in Int /\ C * D \in Int
    BY <1>1, <1>6
  <2>3. Cong(A * B, ab)
    BY <1>2, <1>3, <1>6, <2>2, CongMul
  <2>4. Cong(C * B, cb)
    BY <1>3, <1>4, <1>6, <2>2, CongMul
  <2>5. Cong(C * D, cd)
    BY <1>4, <1>5, <1>6, <2>2, CongMul
  <2>6. Cong(ab, cb - cd)
    <3>1. w * x \in Int /\ a * b \in Int /\ c * b - c * d \in Int
      BY <1>1, <1>6
    <3>2. Cong(w * x, w * x)
      BY <3>1, CongEquals
    <3>3. Cong((w * x) * (a * b), (w * x) * (c * b - c * d))
      BY <1>7, <3>1, <3>2, CongMul
    <3>4. (w * x) * (a * b) = ab /\ (w * x) * (c * b - c * d) = cb - cd
      BY <1>1, <1>6
    <3> QED
      BY <3>3, <3>4
  <2> HIDE DEF ab, cb, cd
  <2>7. Cong(cb - cd, C * B - C * D)
    <3>1. Cong(-cd, -(C * D))
      <4>1. Cong(-1, -1) /\ -1 \in Int /\ Cong(cd, C * D)
        BY <2>1, <2>2, <2>5, CongEquals, CongSymmetric
      <4>2. Cong((-1) * cd, (-1) * (C * D))
        BY <2>1, <2>2, <4>1, CongMul
      <4> QED
        BY <2>1, <2>2, <4>2
    <3>2. Cong(cb, C * B) /\ -cd \in Int /\ -(C * D) \in Int
      BY <2>1, <2>2, <2>4, CongSymmetric
    <3>3. Cong(cb + (-cd), C * B + (-(C * D)))
      BY <2>1, <2>2, <3>1, <3>2, CongAdd
    <3> QED
      BY <2>1, <2>2, <3>3
  <2>8. cb - cd \in Int /\ C * B - C * D \in Int
    BY <2>1, <2>2
  <2>9. Cong(A * B, cb - cd)
    BY <2>1, <2>2, <2>3, <2>6, <2>8, CongTransitive
  <2> QED
    BY <2>2, <2>7, <2>8, <2>9, CongTransitive
<1>9. Cong(A * x, w * A - w)
  <2> DEFINE e == (w - x) * a
             wa == w * a
  <2>1. e \in Int /\ wa \in Int /\ Cong(e, 1) /\ Cong(A, wa) /\ wa * x = wa * w - w * e
    BY <1>1, <1>2, <1>6
  <2> HIDE DEF e, wa
  <2>2. /\ wa * x \in Int /\ wa * w \in Int /\ w * e \in Int /\ A * x \in Int /\ A * w \in Int
        /\ -w \in Int /\ (-w) * e \in Int /\ (-w) * 1 \in Int
    BY <1>1, <1>6, <2>1
  <2>3. Cong(A * x, wa * x)
    <3>1. Cong(x, x)
      BY <1>1, CongEquals
    <3> QED
      BY <1>1, <1>6, <2>1, <3>1, CongMul
  <2>4. Cong(wa * w, A * w) /\ Cong((-w) * e, (-w) * 1)
    <3>1. Cong(w, w) /\ Cong(-w, -w) /\ Cong(wa, A) /\ 1 \in Int
      BY <1>1, <1>6, <2>1, <2>2, CongEquals, CongSymmetric
    <3> QED
      BY <1>1, <1>6, <2>1, <2>2, <3>1, CongMul
  <2>5. Cong(wa * w + (-w) * e, A * w + (-w) * 1)
    BY <2>2, <2>4, CongAdd
  <2>6. wa * w + (-w) * e = wa * x /\ A * w + (-w) * 1 = w * A - w /\ w * A - w \in Int
    BY <1>1, <1>6, <2>1, <2>2
  <2> QED
    BY <2>2, <2>3, <2>5, <2>6, CongTransitive
<1> QED
  BY <1>8, <1>9 DEF A, B, C, D

(* The products of the loop for the place z.                                  *)
Prod(ks, z) == CHOOSE f : Products(ks, z, f)

LEMMA LagrangeIs ==
  ASSUME NEW ks \in Seq(1 .. (Q - 1)), NEW z \in Scalar
  PROVE  Products(ks, z, Prod(ks, z)) /\ Lagrange(ks, z) = Prod(ks, z)[Len(ks)]
<1> DEFINE n == Len(ks)
           g == Prod(ks, z)
<1>1. PICK f : Products(ks, z, f) /\ Lagrange(ks, z) = f[n]
  BY LagrangeLoop
<1>2. Products(ks, z, g)
  BY <1>1, Zenon DEF Prod
<1> HIDE DEF g
<1>3. f[0] = g[0]
  BY <1>1, <1>2, Zenon DEF Products
<1>4. ASSUME NEW k \in 1 .. n, f[k - 1] = g[k - 1]
      PROVE  f[k] = g[k]
  <2>1. f[k] = IF ks[k] = z THEN f[k - 1] ELSE Mul(f[k - 1], Factor(ks[k], z))
    BY <1>1, Zenon DEF Products
  <2>2. g[k] = IF ks[k] = z THEN g[k - 1] ELSE Mul(g[k - 1], Factor(ks[k], z))
    BY <1>2, Zenon DEF Products
  <2> QED
    BY <1>4, <2>1, <2>2, Zenon
<1>5. n \in Nat
  OBVIOUS
<1> HIDE DEF n
<1>6. f[n] = g[n]
  BY <1>3, <1>4, <1>5, LoopsAgreeAt, Zenon
<1> QED
  BY <1>1, <1>2, <1>6, Zenon DEF n, g

LEMMA ElementOf ==
  ASSUME NEW T, NEW s \in Seq(T), NEW k \in 1 .. Len(s)
  PROVE  s[k] \in T
OBVIOUS

LEMMA ProdStep ==
  ASSUME NEW ks \in Seq(1 .. (Q - 1)), NEW z \in Scalar, NEW k \in 1 .. Len(ks)
  PROVE  /\ Prod(ks, z)[k] \in Nat /\ Prod(ks, z)[k - 1] \in Nat
         /\ ks[k] = z => Prod(ks, z)[k] = Prod(ks, z)[k - 1]
         /\ ks[k] # z => Cong(Prod(ks, z)[k], Prod(ks, z)[k - 1] * Factor(ks[k], z))
<1> DEFINE f == Prod(ks, z)
           F == Factor(ks[k], z)
<1>1. Products(ks, z, f)
  BY LagrangeIs
<1> HIDE DEF f
<1>2. k \in 0 .. Len(ks) /\ k - 1 \in 0 .. Len(ks)
  OBVIOUS
<1>3. f[k] \in Nat /\ f[k - 1] \in Nat
  BY <1>1, <1>2, Zenon DEF Products
<1>4. f[k] = IF ks[k] = z THEN f[k - 1] ELSE Mul(f[k - 1], F)
  BY <1>1, Zenon DEF Products
<1>5. ASSUME ks[k] # z
      PROVE  Cong(f[k], f[k - 1] * F)
  <2>1. ks[k] \in 1 .. (Q - 1)
    BY ElementOf, Zenon
  <2>2. F \in Nat
    BY <1>5, <2>1, FactorIs
  <2>3. Cong(Mul(f[k - 1], F), f[k - 1] * F)
    BY <1>3, <2>2, MulCong
  <2> QED
    BY <1>4, <1>5, <2>3, Zenon
<1> QED
  BY <1>3, <1>4, <1>5, Zenon DEF f

(* What the first m numbers contribute to the product for z: the product of   *)
(* each of them for its own place, divided by its distance from z.            *)
Part(ks, m, z) ==
  [i \in 1 .. Len(ks) |->
     IF ks[i] = z THEN 0 ELSE Prod(ks, ks[i])[m] * Factor(ks[i], z)]

Distinct(ks) == \A i, j \in 1 .. Len(ks) : ks[i] = ks[j] => i = j
Elsewhere(ks, m, z) == \A i \in 1 .. m : ks[i] # z
Through(ks, m) ==
  \A z \in Scalar : Elsewhere(ks, m, z) =>
    Cong(Prod(ks, z)[m], SumOf(Part(ks, m, z), Len(ks))[m])

LEMMA PlaceIs ==
  ASSUME NEW ks \in Seq(1 .. (Q - 1)), NEW i \in 1 .. Len(ks), NEW m \in 0 .. Len(ks)
  PROVE  ks[i] \in 1 .. (Q - 1) /\ ks[i] \in Scalar /\ Prod(ks, ks[i])[m] \in Nat
<1>1. ks[i] \in 1 .. (Q - 1)
  BY ElementOf, Zenon
<1>2. ks[i] \in Scalar
  BY <1>1, MigrationAssumption DEF Scalar
<1>3. Products(ks, ks[i], Prod(ks, ks[i]))
  BY <1>2, LagrangeIs, Zenon
<1>4. Prod(ks, ks[i])[m] \in Nat
  BY <1>3, Zenon DEF Products
<1> QED
  BY <1>1, <1>2, <1>4, Zenon

LEMMA PartType ==
  ASSUME NEW ks \in Seq(1 .. (Q - 1)), NEW z \in Scalar, NEW m \in 0 .. Len(ks)
  PROVE  Part(ks, m, z) \in [1 .. Len(ks) -> Int]
<1> SUFFICES ASSUME NEW i \in 1 .. Len(ks), ks[i] # z
             PROVE  Prod(ks, ks[i])[m] * Factor(ks[i], z) \in Int
  BY DEF Part
<1>1. ks[i] \in 1 .. (Q - 1) /\ Prod(ks, ks[i])[m] \in Nat
  BY PlaceIs
<1>2. Factor(ks[i], z) \in Nat
  BY <1>1, FactorIs
<1> QED
  BY <1>1, <1>2

LEMMA PartStep ==
  ASSUME NEW ks \in Seq(1 .. (Q - 1)), Distinct(ks),
         NEW m \in 0 .. (Len(ks) - 1), NEW z \in Scalar, Elsewhere(ks, m + 1, z),
         NEW i \in 1 .. m
  PROVE  Cong(Part(ks, m + 1, z)[i],
              Factor(ks[m + 1], z) * Part(ks, m, z)[i]
              + (-Factor(ks[m + 1], z)) * Part(ks, m, ks[m + 1])[i])
<1> DEFINE x == ks[i]
           w == ks[m + 1]
           s == Prod(ks, x)[m + 1]
           t == Prod(ks, x)[m]
           A == Factor(w, x)
           B == Factor(x, z)
           C == Factor(w, z)
           D == Factor(x, w)
<1>1. /\ i \in 1 .. Len(ks) /\ m + 1 \in 1 .. Len(ks) /\ m \in 0 .. Len(ks)
      /\ m + 1 \in 0 .. Len(ks) /\ (m + 1) - 1 = m /\ i # m + 1
      /\ i \in 1 .. (m + 1) /\ m + 1 \in 1 .. (m + 1)
  OBVIOUS
<1>2. x \in 1 .. (Q - 1) /\ x \in Scalar /\ w \in 1 .. (Q - 1) /\ w \in Scalar
  BY <1>1, PlaceIs, Zenon
<1>3. x # w /\ x # z /\ w # z
  BY <1>1, Zenon DEF Distinct, Elsewhere
<1>4. s \in Nat /\ t \in Nat /\ Cong(s, t * A)
  BY <1>1, <1>2, <1>3, ProdStep, Zenon
<1>5. Part(ks, m + 1, z)[i] = s * B /\ Part(ks, m, z)[i] = t * B /\ Part(ks, m, w)[i] = t * D
  BY <1>1, <1>3, Zenon DEF Part
<1> HIDE DEF x, w
<1>6. A \in Nat /\ B \in Nat /\ C \in Nat /\ D \in Nat
  BY <1>2, <1>3, FactorIs
<1>7. Cong(A * B, C * B - C * D)
  BY <1>2, <1>3, FactorsOfThree
<1> HIDE DEF s, t, A, B, C, D
<1>8. /\ s \in Int /\ t \in Int /\ A \in Int /\ B \in Int /\ C \in Int /\ D \in Int
      /\ t * A \in Int /\ s * B \in Int /\ A * B \in Int /\ C * B - C * D \in Int
      /\ (t * A) * B \in Int /\ t * (C * B - C * D) \in Int
  BY <1>4, <1>6
<1>9. Cong(s * B, (t * A) * B)
  <2>1. Cong(B, B)
    BY <1>8, CongEquals
  <2> QED
    BY <1>4, <1>8, <2>1, CongMul
<1>10. Cong((t * A) * B, t * (C * B - C * D))
  <2>1. Cong(t, t) /\ (t * A) * B = t * (A * B)
    BY <1>8, CongEquals
  <2> QED
    BY <1>7, <1>8, <2>1, CongMul
<1>11. t * (C * B - C * D) = C * (t * B) + (-C) * (t * D)
  BY <1>8
<1>12. Cong(s * B, C * (t * B) + (-C) * (t * D))
  BY <1>8, <1>9, <1>10, <1>11, CongTransitive
<1> QED
  BY <1>5, <1>12, Zenon DEF C, w

(* A polynomial is known from its values at as many places as it needs: here  *)
(* for the products, one number after the other.                              *)
LEMMA Interpolation ==
  ASSUME NEW ks \in Seq(1 .. (Q - 1)), Distinct(ks), NEW m \in 0 .. Len(ks), m # 0
  PROVE  Through(ks, m)
<1> DEFINE n == Len(ks)
           S == {k \in 0 .. n : k = 0 \/ Through(ks, k)}
<1>1. n \in Nat
  OBVIOUS
<1>2. ASSUME NEW k \in 0 .. (n - 1), k = 0 \/ Through(ks, k)
      PROVE  Through(ks, k + 1)
  <2> SUFFICES ASSUME NEW z \in Scalar, Elsewhere(ks, k + 1, z)
               PROVE  Cong(Prod(ks, z)[k + 1], SumOf(Part(ks, k + 1, z), n)[k + 1])
    BY DEF Through
  <2> DEFINE w == ks[k + 1]
             u == Factor(w, z)
             a == Part(ks, k, z)
             b == Part(ks, k, w)
             c == Part(ks, k + 1, z)
             SA == SumOf(a, n)[k]
             SB == SumOf(b, n)[k]
             SC == SumOf(c, n)[k]
             pz == Prod(ks, z)[k]
             pw == Prod(ks, w)[k]
  <2>1. /\ k + 1 \in 1 .. n /\ k \in 0 .. n /\ k + 1 \in 0 .. n /\ (k + 1) - 1 = k
        /\ k + 1 \in 1 .. (k + 1) /\ \A i \in 1 .. k : i \in 1 .. (k + 1) /\ i \in 1 .. n /\ i # k + 1
    OBVIOUS
  <2>2. w \in 1 .. (Q - 1) /\ w \in Scalar /\ w # z /\ ks[k + 1] # z
    <3>1. w # z
      BY <2>1, Zenon DEF Elsewhere
    <3> QED
      BY <2>1, <3>1, PlaceIs, Zenon
  <2>3. Elsewhere(ks, k, z) /\ Elsewhere(ks, k, w)
    BY <2>1, Zenon DEF Elsewhere, Distinct
  <2>4. pz \in Nat /\ Cong(Prod(ks, z)[k + 1], pz * u) /\ Prod(ks, z)[k + 1] \in Nat
    BY <2>1, <2>2, ProdStep, Zenon
  <2>5. Prod(ks, w)[k + 1] = pw /\ pw \in Nat
    <3> DEFINE j == k + 1
    <3>1. j \in 1 .. n /\ j - 1 = k /\ ks[j] = w
      BY <2>1
    <3> HIDE DEF j
    <3>2. /\ Prod(ks, w)[j] \in Nat /\ Prod(ks, w)[j - 1] \in Nat
          /\ Prod(ks, w)[j] = Prod(ks, w)[j - 1]
      BY <2>2, <3>1, ProdStep, Zenon
    <3> QED
      BY <3>1, <3>2, Zenon DEF j
  <2>6. a \in [1 .. n -> Int] /\ b \in [1 .. n -> Int] /\ c \in [1 .. n -> Int]
    BY <2>1, <2>2, PartType, Zenon
  <2>7. Sums(a, n, SumOf(a, n)) /\ Sums(b, n, SumOf(b, n)) /\ Sums(c, n, SumOf(c, n))
    BY <1>1, <2>6, SumsExist, Zenon
  <2>8. c[k + 1] = pw * u
    BY <2>1, <2>2, <2>5, Zenon DEF Part
  <2>9. u \in Nat /\ -u \in Int
    <3>1. u \in Nat
      BY <2>2, FactorIs, Zenon
    <3> HIDE DEF u
    <3> QED
      BY <3>1
  <2>10. \A i \in 1 .. k : Cong(c[i], u * a[i] + (-u) * b[i])
    BY PartStep, Zenon
  <2>11. SA \in Int /\ SB \in Int /\ SC \in Int
    BY <2>1, <2>7, Zenon DEF Sums
  <2>12. SumOf(c, n)[k + 1] = SC + pw * u
    BY <2>1, <2>7, <2>8, Zenon DEF Sums
  <2>13. Cong(pz * u, SC + pw * u)
    <3>1. CASE k = 0
      <4>1. Products(ks, z, Prod(ks, z)) /\ Products(ks, w, Prod(ks, w))
        BY <2>2, LagrangeIs, Zenon
      <4>2. pz = 1 /\ pw = 1
        BY <3>1, <4>1, Zenon DEF Products
      <4>3. SC = 0
        BY <2>7, <3>1, Zenon DEF Sums
      <4> HIDE DEF u, pz, pw, SC
      <4>4. pz * u = SC + pw * u /\ pz * u \in Int /\ SC + pw * u \in Int
        BY <2>9, <4>2, <4>3
      <4> QED
        BY <4>4, CongEquals
    <3>2. CASE k # 0
      <4>1. Cong(pz, SA) /\ Cong(pw, SB)
        BY <1>2, <2>2, <2>3, <3>2, Zenon DEF Through
      <4>2. Cong(SC, u * SA + (-u) * SB)
        <5>1. u \in Int
          BY <2>9
        <5> HIDE DEF a, b, c, u
        <5> QED
          BY <1>1, <2>1, <2>6, <2>9, <2>10, <5>1, SumLinear, Zenon
      <4> HIDE DEF u, pz, pw, SA, SB, SC
      <4>3. u \in Int /\ pz \in Int /\ pw \in Int
        BY <2>4, <2>5, <2>9
      <4>4. Cong(u, u) /\ Cong(-u, -u)
        BY <2>9, <4>3, CongEquals
      <4>5. Cong(u * pz, u * SA) /\ Cong((-u) * pw, (-u) * SB)
        BY <2>9, <2>11, <4>1, <4>3, <4>4, CongMul
      <4>6. /\ u * pz \in Int /\ u * SA \in Int /\ (-u) * pw \in Int /\ (-u) * SB \in Int
            /\ u * pz + (-u) * pw \in Int /\ u * SA + (-u) * SB \in Int
            /\ pz * u \in Int /\ pw * u \in Int /\ SC + pw * u \in Int
        BY <2>9, <2>11, <4>3
      <4>7. Cong(u * pz + (-u) * pw, u * SA + (-u) * SB)
        BY <4>5, <4>6, CongAdd
      <4>8. Cong(u * pz + (-u) * pw, SC)
        <5>1. Cong(u * SA + (-u) * SB, SC)
          BY <2>11, <4>2, <4>6, CongSymmetric
        <5> DEFINE left == u * pz + (-u) * pw
                   middle == u * SA + (-u) * SB
        <5>2. left \in Int /\ middle \in Int /\ Cong(left, middle) /\ Cong(middle, SC)
          BY <4>6, <4>7, <5>1
        <5> HIDE DEF left, middle
        <5>3. Cong(left, SC)
          BY <2>11, <5>2, CongTransitive
        <5> QED
          BY <5>3 DEF left
      <4>9. Cong(pw * u, pw * u)
        BY <4>6, CongEquals
      <4>10. Cong((u * pz + (-u) * pw) + pw * u, SC + pw * u)
        BY <2>11, <4>6, <4>8, <4>9, CongAdd
      <4>11. (u * pz + (-u) * pw) + pw * u = pz * u
        BY <4>3
      <4> QED
        BY <4>10, <4>11
    <3> QED
      BY <3>1, <3>2
  <2> HIDE DEF u, pz, pw, SC
  <2>14. pz * u \in Int /\ SC + pw * u \in Int /\ Prod(ks, z)[k + 1] \in Int
    BY <2>4, <2>5, <2>9, <2>11
  <2> QED
    BY <2>4, <2>12, <2>13, <2>14, CongTransitive
<1>3. \A k \in 0 .. (n - 1) : k \in S => k + 1 \in S
  <2> SUFFICES ASSUME NEW k \in 0 .. (n - 1), k \in S
               PROVE  k + 1 \in S
    BY Zenon
  <2>1. k + 1 \in 0 .. n
    OBVIOUS
  <2>2. k = 0 \/ Through(ks, k)
    BY Zenon
  <2>3. Through(ks, k + 1)
    BY <1>2, <2>2, Zenon
  <2> QED
    BY <2>1, <2>3, Zenon
<1>4. 0 \in S
  BY <1>1
<1>5. m \in S
  <2> HIDE DEF S, n
  <2>1. \A k \in 0 .. n : k \in S
    BY <1>1, <1>3, <1>4, LoopInduction, Zenon
  <2> QED
    BY <2>1, Zenon DEF n
<1> QED
  BY <1>5, Zenon

(* Seen from the key's place 0 every factor is one.                           *)
LEMMA FactorFromZero ==
  ASSUME NEW x \in 1 .. (Q - 1)
  PROVE  0 \in Scalar /\ Factor(x, 0) \in Nat /\ Cong(Factor(x, 0), 1)
<1>1. 0 \in Scalar /\ x # 0 /\ x \in Nat
  BY MigrationAssumption DEF Scalar
<1>2. /\ Factor(x, 0) \in Nat /\ J(x, 0) \in Nat
      /\ Cong(Factor(x, 0), x * J(x, 0)) /\ Cong((x - 0) * J(x, 0), 1)
  BY <1>1, FactorIs
<1>3. (x - 0) * J(x, 0) = x * J(x, 0) /\ x * J(x, 0) \in Int /\ 1 \in Int /\ Factor(x, 0) \in Int
  BY <1>1, <1>2
<1>4. Cong(Factor(x, 0), 1)
  BY <1>2, <1>3, CongTransitive
<1> QED
  BY <1>1, <1>2, <1>4

LEMMA ProductFromZero ==
  ASSUME NEW ks \in Seq(1 .. (Q - 1)), NEW m \in 0 .. Len(ks)
  PROVE  Prod(ks, 0)[m] \in Nat /\ Cong(Prod(ks, 0)[m], 1)
<1> DEFINE n == Len(ks)
           f == Prod(ks, 0)
           S == {k \in 0 .. n : Cong(f[k], 1)}
<1>1. n \in Nat /\ 0 \in 0 .. n
  OBVIOUS
<1>2. 0 \in Scalar
  BY MigrationAssumption DEF Scalar
<1>3. Products(ks, 0, f)
  BY <1>2, LagrangeIs, Zenon
<1>4. 0 \in S
  <2>1. f[0] = 1
    BY <1>3, Zenon DEF Products
  <2>2. Cong(1, 1)
    BY CongEquals
  <2> QED
    BY <1>1, <2>1, <2>2, Zenon
<1>5. ASSUME NEW k \in 0 .. (n - 1), k \in S
      PROVE  k + 1 \in S
  <2> DEFINE x == ks[k + 1]
             F == Factor(x, 0)
  <2>1. k + 1 \in 1 .. n /\ (k + 1) - 1 = k /\ k + 1 \in 0 .. n /\ k \in 0 .. n
    BY <1>1
  <2>2. x \in 1 .. (Q - 1)
    BY <1>1, <2>1, PlaceIs, Zenon
  <2>3. F \in Nat /\ Cong(F, 1)
    BY <2>2, FactorFromZero, Zenon
  <2>4. x # 0
    <3> HIDE DEF x
    <3> QED
      BY <2>2, MigrationAssumption
  <2>5. f[k + 1] \in Nat /\ f[k] \in Nat /\ Cong(f[k + 1], f[k] * F)
    BY <1>2, <2>1, <2>4, ProdStep, Zenon
  <2>6. Cong(f[k], 1)
    BY <1>5, Zenon
  <2> DEFINE a == f[k + 1]
             b == f[k]
  <2>7. a \in Int /\ b \in Int /\ Cong(a, b * F) /\ Cong(b, 1)
    <3> HIDE DEF F, f
    <3> QED
      BY <2>5, <2>6
  <2> HIDE DEF a, b, F
  <2>8. F \in Int /\ b * F \in Int /\ 1 \in Int /\ 1 * 1 = 1
    BY <2>3, <2>7
  <2>9. Cong(b * F, 1)
    <3>1. Cong(b * F, 1 * 1)
      BY <2>3, <2>7, <2>8, CongMul
    <3> QED
      BY <2>8, <3>1
  <2>10. Cong(a, 1)
    BY <2>7, <2>8, <2>9, CongTransitive
  <2> QED
    BY <2>1, <2>10, Zenon DEF a
<1>6. m \in S
  <2>1. \A k \in 0 .. (n - 1) : k \in S => k + 1 \in S
    BY <1>5, Zenon
  <2> HIDE DEF S, n
  <2>2. \A k \in 0 .. n : k \in S
    BY <1>1, <1>4, <2>1, LoopInduction, Zenon
  <2> QED
    BY <2>2, Zenon DEF n
<1>7. f[m] \in Nat
  BY <1>3, Zenon DEF Products
<1> QED
  BY <1>6, <1>7, Zenon

(* The numbers g[i], each weighed with the product over the first m numbers    *)
(* for the place of the i-th; their sum from the first d + 1 numbers on.      *)
Weighed(ks, m, g) == [i \in 1 .. Len(ks) |-> Prod(ks, ks[i])[m] * g[i]]

AddsUpTo(ks, g, d, e) ==
  \A m \in 1 .. Len(ks) :
    m > d => Cong(SumOf(Weighed(ks, m, g), Len(ks))[m], e)

LEMMA WeighedType ==
  ASSUME NEW ks \in Seq(1 .. (Q - 1)), NEW m \in 0 .. Len(ks),
         NEW g \in [1 .. Len(ks) -> Int]
  PROVE  /\ Weighed(ks, m, g) \in [1 .. Len(ks) -> Int]
         /\ Sums(Weighed(ks, m, g), Len(ks), SumOf(Weighed(ks, m, g), Len(ks)))
         /\ \A k \in 0 .. Len(ks) : SumOf(Weighed(ks, m, g), Len(ks))[k] \in Int
<1>1. ASSUME NEW i \in 1 .. Len(ks)
      PROVE  Prod(ks, ks[i])[m] * g[i] \in Int
  <2>1. Prod(ks, ks[i])[m] \in Nat /\ g[i] \in Int
    BY PlaceIs
  <2> QED
    BY <2>1
<1>2. Weighed(ks, m, g) \in [1 .. Len(ks) -> Int]
  BY <1>1 DEF Weighed
<1>3. Len(ks) \in Nat
  OBVIOUS
<1>4. Sums(Weighed(ks, m, g), Len(ks), SumOf(Weighed(ks, m, g), Len(ks)))
  BY <1>2, <1>3, SumsExist, Zenon
<1> QED
  BY <1>2, <1>4, Zenon DEF Sums

(* The weights of any first numbers add up to one: they are the values of     *)
(* Interpolation for the place 0.                                            *)
LEMMA ConstantAddsUp ==
  ASSUME NEW ks \in Seq(1 .. (Q - 1)), Distinct(ks), NEW r \in Int, NEW d \in Nat
  PROVE  AddsUpTo(ks, [i \in 1 .. Len(ks) |-> r], d, r)
<1> DEFINE n == Len(ks)
           g == [i \in 1 .. n |-> r]
<1> SUFFICES ASSUME NEW m \in 1 .. n
             PROVE  Cong(SumOf(Weighed(ks, m, g), n)[m], r)
  BY Zenon DEF AddsUpTo
<1> DEFINE a == Part(ks, m, 0)
           c == Weighed(ks, m, g)
           SA == SumOf(a, n)[m]
           SC == SumOf(c, n)[m]
           p == Prod(ks, 0)[m]
<1>1. n \in Nat /\ m \in 0 .. n /\ m # 0 /\ \A i \in 1 .. m : i \in 1 .. n
  OBVIOUS
<1>2. 0 \in Scalar
  BY MigrationAssumption DEF Scalar
<1>3. g \in [1 .. n -> Int] /\ \A i \in 1 .. n : g[i] = r
  OBVIOUS
<1> HIDE DEF g
<1>4. a \in [1 .. n -> Int] /\ c \in [1 .. n -> Int] /\ SC \in Int
  BY <1>1, <1>2, <1>3, PartType, WeighedType, Zenon
<1>5. SA \in Int
  <2>1. Sums(a, n, SumOf(a, n))
    <3> HIDE DEF a, n
    <3> QED
      BY <1>1, <1>4, SumsExist, Zenon
  <2> QED
    BY <1>1, <2>1, Zenon DEF Sums
<1>6. ASSUME NEW i \in 1 .. m
      PROVE  Cong(c[i], r * a[i] + 0 * a[i])
  <2> DEFINE x == ks[i]
             l == Prod(ks, x)[m]
             F == Factor(x, 0)
  <2>1. x \in 1 .. (Q - 1) /\ l \in Nat
    BY <1>1, PlaceIs, Zenon
  <2>2. c[i] = l * r
    BY <1>1, <1>3, Zenon DEF Weighed
  <2>3. F \in Nat /\ Cong(F, 1)
    BY <2>1, FactorFromZero, Zenon
  <2>4. a[i] = l * F
    <3>1. x # 0
      <4> HIDE DEF x
      <4> QED
        BY <2>1, MigrationAssumption
    <3> QED
      BY <1>1, <3>1, Zenon DEF Part
  <2> DEFINE ai == a[i]
             ci == c[i]
  <2>5. ai = l * F /\ ci = l * r
    BY <2>2, <2>4, Zenon
  <2> HIDE DEF ai, ci, l, F
  <2>6. l \in Int /\ F \in Int /\ l * r \in Int /\ 1 \in Int
    BY <2>1, <2>3
  <2>7. Cong((l * r) * F, (l * r) * 1)
    <3>1. Cong(l * r, l * r)
      BY <2>6, CongEquals
    <3> QED
      BY <2>3, <2>6, <3>1, CongMul
  <2>8. (l * r) * F = r * ai + 0 * ai /\ (l * r) * 1 = ci /\ (l * r) * F \in Int /\ ci \in Int
    BY <2>5, <2>6
  <2>9. Cong(ci, r * ai + 0 * ai)
    BY <2>7, <2>8, CongSymmetric
  <2> QED
    BY <2>9, Zenon DEF ai, ci
<1>7. Cong(SC, r * SA + 0 * SA)
  <2>1. 0 \in Int
    OBVIOUS
  <2> HIDE DEF a, c, n
  <2> QED
    BY <1>1, <1>4, <1>6, <2>1, SumLinear, Zenon
<1>8. Cong(p, SA)
  <2>1. Elsewhere(ks, m, 0)
    <3> SUFFICES ASSUME NEW i \in 1 .. m
                 PROVE  ks[i] # 0
      BY Zenon DEF Elsewhere
    <3>1. ks[i] \in 1 .. (Q - 1)
      BY <1>1, PlaceIs, Zenon
    <3> QED
      BY <3>1, MigrationAssumption
  <2>2. Through(ks, m)
    BY <1>1, Interpolation, Zenon
  <2> QED
    BY <1>2, <2>1, <2>2, Zenon DEF Through
<1>9. p \in Nat /\ Cong(p, 1)
  BY <1>1, ProductFromZero, Zenon
<1> HIDE DEF SA, SC, p
<1>10. r * SA + 0 * SA = r * SA /\ r * SA \in Int /\ p \in Int /\ 1 \in Int /\ r * 1 = r
  BY <1>5, <1>9
<1>11. Cong(SA, 1)
  BY <1>5, <1>8, <1>9, <1>10, CongSymmetric, CongTransitive
<1>12. Cong(r * SA, r)
  <2>1. Cong(r, r)
    BY CongEquals
  <2>2. Cong(r * SA, r * 1)
    BY <1>5, <1>10, <1>11, <2>1, CongMul
  <2> QED
    BY <1>10, <2>2
<1>13. Cong(SC, r)
  BY <1>4, <1>7, <1>10, <1>12, CongTransitive
<1> QED
  BY <1>13, Zenon DEF SC

(* Sums of two lists of numbers.                                              *)
LEMMA PlusAddsUp ==
  ASSUME NEW ks \in Seq(1 .. (Q - 1)), NEW g \in [1 .. Len(ks) -> Int],
         NEW h \in [1 .. Len(ks) -> Int], NEW d \in Nat, NEW e \in Int, NEW f \in Int,
         AddsUpTo(ks, g, d, e), AddsUpTo(ks, h, d, f)
  PROVE  AddsUpTo(ks, [i \in 1 .. Len(ks) |-> g[i] + h[i]], d, e + f)
<1> DEFINE n == Len(ks)
           s == [i \in 1 .. n |-> g[i] + h[i]]
<1> SUFFICES ASSUME NEW m \in 1 .. n, m > d
             PROVE  Cong(SumOf(Weighed(ks, m, s), n)[m], e + f)
  BY Zenon DEF AddsUpTo
<1> DEFINE a == Weighed(ks, m, g)
           b == Weighed(ks, m, h)
           c == Weighed(ks, m, s)
           SA == SumOf(a, n)[m]
           SB == SumOf(b, n)[m]
           SC == SumOf(c, n)[m]
<1>1. n \in Nat /\ m \in 0 .. n /\ 1 \in Int /\ \A i \in 1 .. m : i \in 1 .. n
  OBVIOUS
<1>2. s \in [1 .. n -> Int] /\ \A i \in 1 .. n : s[i] = g[i] + h[i]
  OBVIOUS
<1> HIDE DEF s
<1>3. /\ a \in [1 .. n -> Int] /\ b \in [1 .. n -> Int] /\ c \in [1 .. n -> Int]
      /\ SA \in Int /\ SB \in Int /\ SC \in Int
  BY <1>1, <1>2, WeighedType, Zenon
<1>4. Cong(SA, e) /\ Cong(SB, f)
  BY Zenon DEF AddsUpTo
<1>5. ASSUME NEW i \in 1 .. m
      PROVE  Cong(c[i], 1 * a[i] + 1 * b[i])
  <2> DEFINE l == Prod(ks, ks[i])[m]
             gi == g[i]
             hi == h[i]
             ai == a[i]
             bi == b[i]
             ci == c[i]
  <2>1. l \in Nat /\ ai = l * gi /\ bi = l * hi /\ ci = l * (gi + hi)
    BY <1>1, <1>2, PlaceIs, Zenon DEF Weighed
  <2>2. gi \in Int /\ hi \in Int
    BY <1>1
  <2> HIDE DEF l, gi, hi, ai, bi, ci
  <2>3. ci \in Int /\ 1 * ai + 1 * bi \in Int /\ ci = 1 * ai + 1 * bi
    BY <2>1, <2>2
  <2>4. Cong(ci, 1 * ai + 1 * bi)
    BY <2>3, CongEquals
  <2> QED
    BY <2>4, Zenon DEF ai, bi, ci
<1>6. Cong(SC, 1 * SA + 1 * SB)
  <2> HIDE DEF a, b, c, n
  <2> QED
    BY <1>1, <1>3, <1>5, SumLinear, Zenon
<1> HIDE DEF SA, SB, SC
<1>7. 1 * SA + 1 * SB = SA + SB /\ SA + SB \in Int /\ e + f \in Int
  BY <1>3
<1>8. Cong(SA + SB, e + f)
  BY <1>3, <1>4, CongAdd
<1>9. Cong(SC, e + f)
  BY <1>3, <1>6, <1>7, <1>8, CongTransitive
<1> QED
  BY <1>9, Zenon DEF SC

(* Multiplied with their places the numbers add up to 0, from one number more *)
(* on: the sum over m + 1 of them is w times the sum over m + 1 of them       *)
(* without their places, less that over m, where w is the last place.         *)
LEMMA TimesAddsUp ==
  ASSUME NEW ks \in Seq(1 .. (Q - 1)), Distinct(ks), NEW g \in [1 .. Len(ks) -> Int],
         NEW d \in Nat, NEW e \in Int, AddsUpTo(ks, g, d, e)
  PROVE  AddsUpTo(ks, [i \in 1 .. Len(ks) |-> g[i] * ks[i]], d + 1, 0)
<1> DEFINE n == Len(ks)
           s == [i \in 1 .. n |-> g[i] * ks[i]]
<1> SUFFICES ASSUME NEW j \in 1 .. n, j > d + 1
             PROVE  Cong(SumOf(Weighed(ks, j, s), n)[j], 0)
  BY Zenon DEF AddsUpTo
<1> DEFINE m == j - 1
           w == ks[j]
           a == Weighed(ks, j, g)
           b == Weighed(ks, m, g)
           c == Weighed(ks, j, s)
           SA == SumOf(a, n)[m]
           SB == SumOf(b, n)[m]
           SC == SumOf(c, n)[m]
           p == Prod(ks, w)[j]
           gj == g[j]
<1>1. /\ n \in Nat /\ m \in 0 .. n /\ j \in 0 .. n /\ m \in 1 .. n /\ m > d /\ j > d
      /\ \A i \in 1 .. m : i \in 1 .. n /\ i # j
  <2>1. n \in Nat
    OBVIOUS
  <2> HIDE DEF n
  <2> QED
    BY <2>1
<1>2. \A i \in 1 .. n : ks[i] \in 1 .. (Q - 1) /\ ks[i] \in Scalar
  BY <1>1, PlaceIs, Zenon
<1>3. \A i \in 1 .. n : ks[i] \in Int /\ g[i] \in Int
  <2> SUFFICES ASSUME NEW i \in 1 .. n
               PROVE  ks[i] \in Int
    OBVIOUS
  <2>1. ks[i] \in 1 .. (Q - 1)
    BY <1>2, Zenon
  <2> QED
    BY <2>1
<1>4. s \in [1 .. n -> Int] /\ \A i \in 1 .. n : s[i] = g[i] * ks[i]
  BY <1>3
<1> HIDE DEF s, m
<1>5. /\ a \in [1 .. n -> Int] /\ b \in [1 .. n -> Int] /\ c \in [1 .. n -> Int]
      /\ SA \in Int /\ SB \in Int /\ SC \in Int
      /\ Sums(a, n, SumOf(a, n)) /\ Sums(c, n, SumOf(c, n))
      /\ SumOf(a, n)[j] \in Int /\ SumOf(c, n)[j] \in Int
  BY <1>1, <1>4, WeighedType, Zenon
<1>6. p \in Nat /\ a[j] = p * gj /\ c[j] = p * (gj * w)
  BY <1>1, <1>4, PlaceIs, Zenon DEF Weighed
<1>7. SumOf(a, n)[j] = SA + p * gj /\ SumOf(c, n)[j] = SC + p * (gj * w)
  BY <1>5, <1>6, Zenon DEF Sums, m
<1>8. Cong(SumOf(a, n)[j], e) /\ Cong(SB, e)
  BY <1>1, Zenon DEF AddsUpTo
<1>9. ASSUME NEW i \in 1 .. m
      PROVE  Cong(c[i], w * a[i] + (-w) * b[i])
  <2> DEFINE x == ks[i]
             l == Prod(ks, x)[j]
             t == Prod(ks, x)[m]
             A == Factor(w, x)
             gi == g[i]
             ai == a[i]
             bi == b[i]
             ci == c[i]
  <2>1. i \in 1 .. n /\ i # j
    BY <1>1
  <2>2. x \in 1 .. (Q - 1) /\ x \in Scalar /\ w \in 1 .. (Q - 1) /\ w \in Scalar /\ x # w
    BY <1>2, <2>1, Zenon DEF Distinct
  <2>3. l \in Nat /\ t \in Nat /\ Cong(l, t * A)
    BY <2>2, ProdStep, Zenon DEF m
  <2>4. ai = l * gi /\ bi = t * gi /\ ci = l * (gi * x)
    BY <1>4, <2>1, Zenon DEF Weighed
  <2>5. A \in Nat
    BY <2>2, FactorIs, Zenon
  <2>6. Cong(A * x, w * A - w)
    <3>1. 0 \in Scalar /\ x # 0 /\ w # 0
      <4> HIDE DEF x, w
      <4> QED
        BY <2>2, MigrationAssumption DEF Scalar
    <3> HIDE DEF x, w
    <3> QED
      BY <2>2, <3>1, FactorsOfThree, Zenon
  <2>7. x \in Int /\ w \in Int /\ gi \in Int
    BY <1>3, <2>1, Zenon
  <2> HIDE DEF x, w, l, t, A, gi, ai, bi, ci
  <2>8. /\ l \in Int /\ t \in Int /\ A \in Int /\ t * A \in Int /\ A * x \in Int
        /\ w * A - w \in Int /\ gi * x \in Int /\ t * gi \in Int
    BY <2>3, <2>5, <2>7
  <2>9. Cong(l * (gi * x), (t * A) * (gi * x))
    <3>1. Cong(gi * x, gi * x)
      BY <2>8, CongEquals
    <3> QED
      BY <2>3, <2>8, <3>1, CongMul
  <2>10. Cong((t * gi) * (A * x), (t * gi) * (w * A - w))
    <3>1. Cong(t * gi, t * gi)
      BY <2>8, CongEquals
    <3> QED
      BY <2>6, <2>8, <3>1, CongMul
  <2>11. Cong((w * gi) * (t * A), (w * gi) * l)
    <3>1. Cong(w * gi, w * gi) /\ w * gi \in Int /\ Cong(t * A, l)
      BY <2>3, <2>7, <2>8, CongEquals, CongSymmetric
    <3> QED
      BY <2>8, <3>1, CongMul
  <2> DEFINE y1 == l * (gi * x)
             y2 == (t * A) * (gi * x)
             y3 == (t * gi) * (w * A - w)
             y4 == (w * gi) * (t * A)
             y5 == (w * gi) * l
             y6 == (-w) * (t * gi)
  <2>12. /\ y1 \in Int /\ y2 \in Int /\ y3 \in Int /\ y4 \in Int /\ y5 \in Int /\ y6 \in Int
         /\ y2 = (t * gi) * (A * x) /\ y3 = y4 + y6 /\ w * ai + (-w) * bi = y5 + y6
         /\ ci = y1
    BY <2>4, <2>7, <2>8
  <2>13. Cong(y1, y2) /\ Cong(y2, y3) /\ Cong(y4, y5)
    BY <2>9, <2>10, <2>11, <2>12
  <2> HIDE DEF y1, y2, y3, y4, y5, y6
  <2>14. Cong(y4 + y6, y5 + y6) /\ y5 + y6 \in Int
    <3>1. Cong(y6, y6) /\ y5 + y6 \in Int
      BY <2>12, CongEquals
    <3>2. Cong(y4, y5) /\ y4 \in Int /\ y5 \in Int /\ y6 \in Int
      BY <2>12, <2>13
    <3> QED
      BY <3>1, <3>2, CongAdd
  <2>15. Cong(y1, y3)
    BY <2>12, <2>13, CongTransitive
  <2>16. Cong(y1, y5 + y6)
    BY <2>12, <2>14, <2>15, CongTransitive
  <2> QED
    BY <2>12, <2>16, Zenon DEF ai, bi, ci
<1>10. w \in Int /\ -w \in Int /\ gj \in Int
  <2>1. w \in Int /\ gj \in Int
    BY <1>3, Zenon
  <2> HIDE DEF w, gj
  <2> QED
    BY <2>1
<1>11. Cong(SC, w * SA + (-w) * SB)
  <2> HIDE DEF a, b, c, n, w
  <2> QED
    BY <1>1, <1>5, <1>9, <1>10, SumLinear, Zenon
<1> DEFINE SAj == SumOf(a, n)[j]
           SCj == SumOf(c, n)[j]
<1>12. /\ SAj = SA + p * gj /\ SCj = SC + p * (gj * w) /\ Cong(SAj, e)
       /\ SAj \in Int /\ SCj \in Int
  BY <1>5, <1>7, <1>8
<1> HIDE DEF SA, SB, SC, SAj, SCj, p, gj, w
<1> DEFINE q == p * (gj * w)
<1>13. q \in Int /\ w * SAj \in Int /\ (-w) * SB \in Int /\ w * SA \in Int /\ w * SAj = w * SA + q
  BY <1>5, <1>6, <1>10, <1>12
<1>14. SCj = SC + q
  BY <1>12
<1>15. Cong(w * SAj, w * e) /\ Cong((-w) * SB, (-w) * e) /\ w * e \in Int /\ (-w) * e \in Int
  <2>1. Cong(w, w) /\ Cong(-w, -w)
    BY <1>10, CongEquals
  <2> QED
    BY <1>5, <1>8, <1>10, <1>12, <2>1, CongMul
<1> HIDE DEF q
<1>16. Cong(SC + q, (w * SA + (-w) * SB) + q)
  <2>1. Cong(q, q) /\ w * SA + (-w) * SB \in Int
    BY <1>13, CongEquals
  <2> QED
    BY <1>5, <1>11, <1>13, <2>1, CongAdd
<1>17. Cong(w * SAj + (-w) * SB, w * e + (-w) * e)
  BY <1>13, <1>15, CongAdd
<1>18. /\ (w * SA + (-w) * SB) + q = w * SAj + (-w) * SB
       /\ w * e + (-w) * e = 0 /\ w * SAj + (-w) * SB \in Int /\ 0 \in Int
  BY <1>10, <1>13
<1>19. Cong(SCj, w * SAj + (-w) * SB) /\ Cong(w * SAj + (-w) * SB, 0)
  BY <1>14, <1>16, <1>17, <1>18
<1>20. Cong(SCj, 0)
  BY <1>12, <1>18, <1>19, CongTransitive
<1> QED
  BY <1>20, Zenon DEF SCj

(* Horner's rule.                                                            *)
Horner(poly, x, f) ==
  /\ f \in [0 .. Degree -> Nat]
  /\ f[0] = 0
  /\ \A k \in 1 .. Degree : f[k] = (f[k - 1] + poly[(Degree + 1) - k]) * x

LEMMA ValueLoop ==
  ASSUME NEW start, NEW poly \in [1 .. Degree -> Scalar], NEW x \in Nat
  PROVE  \E f : Horner(poly, x, f) /\ Value(start, poly, x) = start + f[Degree]
<1> DEFINE n == Degree
           step == [k \in 1 .. n |-> [v \in Nat |-> (v + poly[(n + 1) - k]) * x]]
           Pass(f, k) == (f[k - 1] + poly[(n + 1) - k]) * x
           Is(f) == f = [k \in 0 .. n |-> IF k = 0 THEN 0 ELSE Pass(f, k)]
<1>1. n \in Nat /\ 0 \in Nat
  BY MigrationAssumption
<1>2. \A k \in 1 .. n : \A v \in Nat : step[k][v] \in Nat
  <2> SUFFICES ASSUME NEW k \in 1 .. n, NEW v \in Nat
               PROVE  (v + poly[(n + 1) - k]) * x \in Nat
    OBVIOUS
  <2>1. (n + 1) - k \in 1 .. n
    BY <1>1
  <2>2. poly[(n + 1) - k] \in Nat
    BY <2>1, MigrationAssumption DEF Scalar
  <2> QED
    BY <2>2
<1>3. PICK f : Computes(f, n, Nat, 0, step)
  <2> HIDE DEF step, n
  <2> QED
    BY <1>1, <1>2, LoopExists
<1>4. f \in [0 .. n -> Nat] /\ f[0] = 0
  BY <1>3 DEF Computes
<1> HIDE DEF n
<1>5. ASSUME NEW k \in 1 .. n
      PROVE  f[k] = Pass(f, k)
  <2>1. f[k] = step[k][f[k - 1]]
    BY <1>3 DEF Computes
  <2>2. f[k - 1] \in Nat
    <3>1. k - 1 \in 0 .. n
      BY <1>1
    <3> QED
      BY <1>4, <3>1, Zenon
  <2> QED
    BY <2>1, <2>2
<1>6. Is(CHOOSE g : Is(g))
  <2>1. f = [k \in 0 .. n |-> f[k]]
    BY <1>4
  <2>2. ASSUME NEW k \in 0 .. n
        PROVE  f[k] = IF k = 0 THEN 0 ELSE Pass(f, k)
    <3> HIDE DEF Pass
    <3> QED
      BY <1>1, <1>4, <1>5
  <2>3. Is(f)
    BY <2>1, <2>2, Zenon
  <2> HIDE DEF Is
  <2> QED
    BY <2>3
<1>7. ASSUME NEW g, Is(g)
      PROVE  f[n] = g[n]
  <2>1. ASSUME NEW k \in 0 .. n
        PROVE  g[k] = IF k = 0 THEN 0 ELSE Pass(g, k)
    BY <1>7, Zenon
  <2>2. g[0] = 0
    <3>1. 0 \in 0 .. n
      BY <1>1
    <3> QED
      BY <2>1, <3>1, Zenon
  <2>3. ASSUME NEW k \in 1 .. n, f[k - 1] = g[k - 1]
        PROVE  f[k] = g[k]
    <3>1. g[k] = Pass(g, k)
      <4> HIDE DEF Pass
      <4> QED
        BY <1>1, <2>1
    <3> QED
      BY <1>5, <2>3, <3>1, Zenon
  <2>4. \A k \in 1 .. n : f[k - 1] = g[k - 1] => f[k] = g[k]
    BY <2>3, Zenon
  <2>5. f[0] = g[0]
    BY <1>4, <2>2, Zenon
  <2> QED
    BY <1>1, <2>4, <2>5, LoopsAgreeAt, Zenon
<1>8. Value(start, poly, x) = start + (CHOOSE g : Is(g))[n]
  BY Zenon DEF Value, n
<1>9. Horner(poly, x, f)
  BY <1>4, <1>5, Zenon DEF Horner, n
<1> HIDE DEF Is
<1>10. Value(start, poly, x) = start + f[n]
  BY <1>6, <1>7, <1>8, Zenon
<1> QED
  BY <1>9, <1>10, Zenon DEF n

Steps(poly, x) == CHOOSE f : Horner(poly, x, f)

LEMMA ValueIs ==
  ASSUME NEW start \in Scalar, NEW poly \in [1 .. Degree -> Scalar], NEW x \in Nat
  PROVE  /\ Horner(poly, x, Steps(poly, x))
         /\ Value(start, poly, x) = start + Steps(poly, x)[Degree]
         /\ Value(start, poly, x) \in Nat
<1> DEFINE g == Steps(poly, x)
<1>1. PICK f : Horner(poly, x, f) /\ Value(start, poly, x) = start + f[Degree]
  BY ValueLoop
<1>2. Horner(poly, x, g)
  BY <1>1, Zenon DEF Steps
<1> HIDE DEF g
<1>3. f[0] = g[0]
  BY <1>1, <1>2, Zenon DEF Horner
<1>4. ASSUME NEW k \in 1 .. Degree, f[k - 1] = g[k - 1]
      PROVE  f[k] = g[k]
  <2>1. f[k] = (f[k - 1] + poly[(Degree + 1) - k]) * x
    BY <1>1, Zenon DEF Horner
  <2>2. g[k] = (g[k - 1] + poly[(Degree + 1) - k]) * x
    BY <1>2, Zenon DEF Horner
  <2> QED
    BY <1>4, <2>1, <2>2, Zenon
<1>5. Degree \in Nat /\ Degree \in 0 .. Degree /\ start \in Nat
  BY MigrationAssumption DEF Scalar
<1>6. f[Degree] = g[Degree]
  BY <1>3, <1>4, <1>5, LoopsAgreeAt, Zenon
<1>7. f[Degree] \in Nat
  BY <1>1, <1>5, Zenon DEF Horner
<1>8. start + f[Degree] \in Nat
  BY <1>5, <1>7
<1> QED
  BY <1>1, <1>2, <1>6, <1>8, Zenon DEF g

(* A polynomial that is 0 at 0 adds up to 0 from one number more than its     *)
(* degree on.                                                                *)
LEMMA HornerAddsUp ==
  ASSUME NEW ks \in Seq(1 .. (Q - 1)), Distinct(ks), NEW poly \in [1 .. Degree -> Scalar],
         NEW m \in 0 .. Degree
  PROVE  AddsUpTo(ks, [i \in 1 .. Len(ks) |-> Steps(poly, ks[i])[m]], m, 0)
<1> DEFINE n == Len(ks)
           G(k) == [i \in 1 .. n |-> Steps(poly, ks[i])[k]]
           S == {k \in 0 .. Degree : AddsUpTo(ks, G(k), k, 0)}
<1>1. Degree \in Nat /\ 0 \in Int /\ 0 \in Nat /\ 0 \in Scalar /\ 0 \in 0 .. Degree
  BY MigrationAssumption DEF Scalar
<1>2. \A i \in 1 .. n : ks[i] \in Nat
  <2> SUFFICES ASSUME NEW i \in 1 .. n
               PROVE  ks[i] \in Nat
    OBVIOUS
  <2>1. ks[i] \in 1 .. (Q - 1)
    BY ElementOf, Zenon
  <2> QED
    BY <2>1, MigrationAssumption
<1>3. \A i \in 1 .. n : Horner(poly, ks[i], Steps(poly, ks[i]))
  <2> HIDE DEF n
  <2> QED
    BY <1>1, <1>2, ValueIs, Zenon
<1>4. 0 \in S
  <2>1. \A i \in 1 .. n : Steps(poly, ks[i])[0] = 0
    BY <1>3, Zenon DEF Horner
  <2>2. G(0) = [i \in 1 .. n |-> 0]
    BY <2>1
  <2>3. AddsUpTo(ks, [i \in 1 .. n |-> 0], 0, 0)
    BY <1>1, ConstantAddsUp, Zenon
  <2> HIDE DEF G
  <2> QED
    BY <1>1, <2>2, <2>3, Zenon
<1>5. ASSUME NEW k \in 0 .. (Degree - 1), k \in S
      PROVE  k + 1 \in S
  <2> DEFINE r == poly[(Degree + 1) - (k + 1)]
             g == G(k)
             h == [i \in 1 .. n |-> r]
             s == [i \in 1 .. n |-> g[i] + h[i]]
  <2>1. /\ k \in Nat /\ k \in 0 .. Degree /\ k + 1 \in 0 .. Degree /\ k + 1 \in 1 .. Degree
        /\ (k + 1) - 1 = k /\ (Degree + 1) - (k + 1) \in 1 .. Degree
    BY <1>1
  <2>2. r \in Int
    <3>1. r \in Scalar
      BY <2>1
    <3> HIDE DEF r
    <3> QED
      BY <3>1, MigrationAssumption DEF Scalar
  <2>3. /\ \A i \in 1 .. n : Steps(poly, ks[i])[k] \in Nat
        /\ \A i \in 1 .. n : Steps(poly, ks[i])[k + 1] = (Steps(poly, ks[i])[k] + r) * ks[i]
    BY <1>3, <2>1, Zenon DEF Horner
  <2> HIDE DEF r
  <2>4. g \in [1 .. n -> Int] /\ h \in [1 .. n -> Int] /\ s \in [1 .. n -> Int]
    <3>1. g \in [1 .. n -> Int]
      BY <2>3
    <3>2. h \in [1 .. n -> Int]
      BY <2>2
    <3> HIDE DEF g, h
    <3> QED
      BY <3>1, <3>2
  <2>5. G(k + 1) = [i \in 1 .. n |-> s[i] * ks[i]]
    BY <2>3
  <2>6. AddsUpTo(ks, h, k, r)
    BY <2>1, <2>2, ConstantAddsUp, Zenon
  <2>7. AddsUpTo(ks, g, k, 0)
    BY <1>5, Zenon
  <2> HIDE DEF g, h
  <2>8. AddsUpTo(ks, s, k, 0 + r)
    BY <1>1, <2>1, <2>2, <2>4, <2>6, <2>7, PlusAddsUp, Zenon
  <2>9. 0 + r \in Int
    BY <2>2
  <2> HIDE DEF s
  <2>10. AddsUpTo(ks, [i \in 1 .. n |-> s[i] * ks[i]], k + 1, 0)
    BY <2>1, <2>4, <2>8, <2>9, TimesAddsUp, Zenon
  <2> HIDE DEF G
  <2>11. AddsUpTo(ks, G(k + 1), k + 1, 0)
    BY <2>5, <2>10, Zenon
  <2> QED
    BY <2>1, <2>11, Zenon
<1>6. m \in S
  <2>1. \A k \in 0 .. (Degree - 1) : k \in S => k + 1 \in S
    BY <1>5, Zenon
  <2> HIDE DEF S
  <2>2. \A k \in 0 .. Degree : k \in S
    BY <1>1, <1>4, <2>1, LoopInduction, Zenon
  <2> QED
    BY <2>2, Zenon
<1> QED
  BY <1>6, Zenon

(* The products of a polynomial's values with their coefficients add up to    *)
(* its value at 0.                                                           *)
LEMMA ProductsAddUp ==
  ASSUME NEW ks \in Seq(1 .. (Q - 1)), Distinct(ks), Len(ks) > Degree,
         NEW start \in Scalar, NEW poly \in [1 .. Degree -> Scalar],
         NEW s \in [1 .. Len(ks) -> Nat],
         \A i \in 1 .. Len(ks) :
           s[i] = Mul(Value(start, poly, ks[i]) % Q, Lagrange(ks, ks[i]))
  PROVE  SumOf(s, Len(ks))[Len(ks)] % Q = start
<1> DEFINE n == Len(ks)
           g == [i \in 1 .. n |-> Steps(poly, ks[i])[Degree]]
           h == [i \in 1 .. n |-> start]
           v == [i \in 1 .. n |-> g[i] + h[i]]
           a == Weighed(ks, n, v)
           SA == SumOf(a, n)[n]
           SS == SumOf(s, n)[n]
<1>1. /\ n \in Nat /\ n \in 0 .. n /\ n \in 1 .. n /\ n > Degree
      /\ Degree \in Nat /\ Degree \in 0 .. Degree
  BY MigrationAssumption
<1>2. start \in Nat /\ start \in Int /\ Q \in Nat \ {0} /\ 0 \in Int /\ 1 \in Int
  BY MigrationAssumption DEF Scalar
<1>3. \A i \in 1 .. n : ks[i] \in 1 .. (Q - 1) /\ ks[i] \in Scalar /\ Prod(ks, ks[i])[n] \in Nat
  BY <1>1, PlaceIs, Zenon
<1>4. \A i \in 1 .. n : ks[i] \in Nat
  BY <1>3, MigrationAssumption DEF Scalar
<1>5. /\ \A i \in 1 .. n : Horner(poly, ks[i], Steps(poly, ks[i]))
      /\ \A i \in 1 .. n : Value(start, poly, ks[i]) = start + Steps(poly, ks[i])[Degree]
      /\ \A i \in 1 .. n : Value(start, poly, ks[i]) \in Nat
  <2> HIDE DEF n
  <2> QED
    BY <1>4, ValueIs, Zenon
<1>6. \A i \in 1 .. n : Steps(poly, ks[i])[Degree] \in Nat
  BY <1>1, <1>5, Zenon DEF Horner
<1>7. /\ g \in [1 .. n -> Int] /\ h \in [1 .. n -> Int] /\ v \in [1 .. n -> Int]
      /\ \A i \in 1 .. n : v[i] = Value(start, poly, ks[i])
  <2>1. g \in [1 .. n -> Int] /\ \A i \in 1 .. n : g[i] = Steps(poly, ks[i])[Degree]
    BY <1>6
  <2>2. h \in [1 .. n -> Int] /\ \A i \in 1 .. n : h[i] = start
    BY <1>2
  <2> HIDE DEF g, h
  <2>3. v \in [1 .. n -> Int] /\ \A i \in 1 .. n : v[i] = g[i] + h[i]
    BY <2>1, <2>2
  <2> HIDE DEF v
  <2>4. ASSUME NEW i \in 1 .. n
        PROVE  v[i] = Value(start, poly, ks[i])
    <3>1. v[i] = Steps(poly, ks[i])[Degree] + start
      BY <2>1, <2>2, <2>3, Zenon
    <3>2. Value(start, poly, ks[i]) = start + Steps(poly, ks[i])[Degree]
      BY <1>5, Zenon
    <3> DEFINE t == Steps(poly, ks[i])[Degree]
    <3>3. t \in Nat /\ v[i] = t + start /\ Value(start, poly, ks[i]) = start + t
      BY <1>6, <3>1, <3>2, Zenon
    <3> HIDE DEF t
    <3> QED
      BY <1>2, <3>3
  <2> QED
    BY <2>1, <2>2, <2>3, <2>4
<1>8. Cong(SA, start)
  <2>1. AddsUpTo(ks, g, Degree, 0)
    BY <1>1, HornerAddsUp, Zenon
  <2>2. AddsUpTo(ks, h, Degree, start)
    BY <1>1, <1>2, ConstantAddsUp, Zenon
  <2>3. 0 + start = start
    BY <1>2
  <2> HIDE DEF g, h
  <2>4. AddsUpTo(ks, v, Degree, 0 + start)
    BY <1>1, <1>2, <1>7, <2>1, <2>2, PlusAddsUp, Zenon
  <2>5. AddsUpTo(ks, v, Degree, start)
    BY <2>3, <2>4, Zenon
  <2> HIDE DEF v
  <2> QED
    BY <1>1, <2>5, Zenon DEF AddsUpTo
<1> HIDE DEF g, h, v
<1>9. a \in [1 .. n -> Int] /\ SA \in Int
  BY <1>1, <1>7, WeighedType, Zenon
<1>10. s \in [1 .. n -> Int] /\ SS \in Int
  <2>1. s \in [1 .. n -> Int]
    OBVIOUS
  <2>2. Sums(s, n, SumOf(s, n))
    <3> HIDE DEF n
    <3> QED
      BY <1>1, <2>1, SumsExist, Zenon
  <2> QED
    BY <1>1, <2>1, <2>2, Zenon DEF Sums
<1>11. ASSUME NEW i \in 1 .. n
       PROVE  Cong(s[i], 1 * a[i] + 0 * a[i])
  <2> DEFINE l == Lagrange(ks, ks[i])
             y == Value(start, poly, ks[i])
             yq == y % Q
             si == s[i]
             ai == a[i]
  <2>1. l = Prod(ks, ks[i])[n] /\ l \in Nat /\ y \in Nat
    BY <1>3, <1>5, LagrangeIs, Zenon
  <2>2. si = Mul(yq, l) /\ ai = l * y
    BY <1>7, <2>1, Zenon DEF Weighed
  <2> HIDE DEF l, y, si, ai
  <2>3. Cong(yq, y) /\ yq \in Scalar
    BY <2>1, CongMod
  <2> HIDE DEF yq
  <2>4. yq \in Nat
    BY <2>3, MigrationAssumption DEF Scalar
  <2>5. Cong(Mul(yq, l), yq * l) /\ Mul(yq, l) \in Nat
    BY <2>1, <2>4, MulCong, MulType
  <2>6. /\ l \in Int /\ y \in Int /\ yq \in Int /\ yq * l \in Int /\ y * l \in Int
        /\ Mul(yq, l) \in Int /\ y * l = 1 * ai + 0 * ai
    <3>1. l \in Int /\ y \in Int /\ yq \in Int /\ Mul(yq, l) \in Int
      BY <2>1, <2>4, <2>5
    <3>2. l * y = y * l /\ l * y \in Int /\ yq * l \in Int
      BY <3>1
    <3>3. 1 * ai + 0 * ai = ai
      BY <2>2, <3>2
    <3> QED
      BY <2>2, <3>1, <3>2, <3>3
  <2>7. Cong(yq * l, y * l)
    <3>1. Cong(l, l)
      BY <2>6, CongEquals
    <3> QED
      BY <2>3, <2>6, <3>1, CongMul
  <2>8. Cong(si, 1 * ai + 0 * ai)
    BY <2>2, <2>5, <2>6, <2>7, CongTransitive
  <2> QED
    BY <2>8, Zenon DEF si, ai
<1>12. Cong(SS, 1 * SA + 0 * SA)
  <2> HIDE DEF a, n
  <2> QED
    BY <1>1, <1>2, <1>9, <1>10, <1>11, SumLinear, Zenon
<1> HIDE DEF SA, SS
<1>13. 1 * SA + 0 * SA = SA
  BY <1>9
<1>14. Cong(SS, start)
  BY <1>2, <1>8, <1>9, <1>10, <1>12, <1>13, CongTransitive
<1> DEFINE r == SS % Q
<1>15. Cong(r, SS) /\ r \in Scalar
  BY <1>10, CongMod
<1> HIDE DEF r
<1>16. r \in Int
  BY <1>15, MigrationAssumption DEF Scalar
<1>17. Cong(r, start)
  BY <1>2, <1>10, <1>14, <1>15, <1>16, CongTransitive
<1>18. r = start
  BY <1>15, <1>17, CongEqual
<1> QED
  BY <1>18, Zenon DEF r, SS

-----------------------------------------------------------------------------
(* Bytes and back.                                                           *)
LEMMA Digit ==
  ASSUME NEW k \in Nat \ {0}
  PROVE  /\ k \div Base \in 0 .. (k - 1)
         /\ k % Base \in Nat
         /\ (k \div Base) * Base + (k % Base) = k
<1>1. Base \in Nat \ {0, 1}
  BY MigrationAssumption
<1>2. k \div Base \in Nat /\ k \div Base < k
  BY <1>1
<1> QED
  BY <1>1, <1>2

Digits(f, m) ==
  /\ f \in [0 .. m -> Seq(Nat)]
  /\ f[0] = <<>>
  /\ \A k \in 1 .. m : f[k] = Append(f[k \div Base], k % Base)

LEMMA DigitsExist ==
  ASSUME NEW n \in Nat
  PROVE  \E f : Digits(f, n)
<1> DEFINE D == {m \in 0 .. n : \E f : Digits(f, m)}
<1>1. 0 \in D
  <2>1. Digits([k \in 0 .. 0 |-> <<>>], 0)
    BY DEF Digits
  <2> QED
    BY <2>1
<1>2. ASSUME NEW m \in 0 .. (n - 1), m \in D
      PROVE  m + 1 \in D
  <2>1. PICK f : Digits(f, m)
    BY <1>2
  <2> DEFINE q == (m + 1) \div Base
             s == Append(f[q], (m + 1) % Base)
             g == [k \in 0 .. (m + 1) |-> IF k = m + 1 THEN s ELSE f[k]]
  <2>2. m \in Nat /\ m + 1 \in Nat \ {0} /\ m + 1 \in 0 .. n
    OBVIOUS
  <2>3. q \in 0 .. m /\ (m + 1) % Base \in Nat
    <3>1. q \in 0 .. ((m + 1) - 1) /\ (m + 1) % Base \in Nat
      BY <2>2, Digit
    <3>2. (m + 1) - 1 = m
      BY <2>2
    <3> QED
      BY <3>1, <3>2
  <2>4. f \in [0 .. m -> Seq(Nat)] /\ f[0] = <<>>
    BY <2>1 DEF Digits
  <2>5. s \in Seq(Nat)
    <3>1. f[q] \in Seq(Nat)
      BY <2>3, <2>4, Zenon
    <3> QED
      BY <2>3, <3>1, AppendIs
  <2> HIDE DEF s
  <2>6. g \in [0 .. (m + 1) -> Seq(Nat)] /\ \A k \in 0 .. m : g[k] = f[k]
    BY <2>2, <2>4, <2>5
  <2>7. g[m + 1] = s /\ g[0] = <<>>
    BY <2>2, <2>4, <2>6
  <2> HIDE DEF g
  <2>8. ASSUME NEW k \in 1 .. (m + 1)
        PROVE  g[k] = Append(g[k \div Base], k % Base)
    <3>1. CASE k = m + 1
      <4>1. g[q] = f[q]
        BY <2>3, <2>6
      <4>2. s = Append(g[q], (m + 1) % Base)
        BY <4>1, Zenon DEF s
      <4> QED
        BY <2>7, <3>1, <4>2, Zenon
    <3>2. CASE k # m + 1
      <4>1. k \in 1 .. m /\ k \in 0 .. m /\ k \in Nat \ {0}
        BY <2>2, <3>2
      <4>2. k \div Base \in 0 .. m
        <5>1. k \div Base \in 0 .. (k - 1)
          BY <4>1, Digit
        <5> QED
          BY <4>1, <5>1
      <4>3. g[k] = f[k] /\ g[k \div Base] = f[k \div Base]
        BY <2>6, <4>1, <4>2, Zenon
      <4>4. f[k] = Append(f[k \div Base], k % Base)
        BY <2>1, <4>1, Zenon DEF Digits
      <4> QED
        BY <4>3, <4>4, Zenon
    <3> QED
      BY <3>1, <3>2
  <2>9. Digits(g, m + 1)
    BY <2>6, <2>7, <2>8, Zenon DEF Digits
  <2> QED
    BY <2>2, <2>9
<1>3. n \in D
  <2>1. n \in 0 .. n
    OBVIOUS
  <2> HIDE DEF D
  <2> QED
    BY <1>1, <1>2, <2>1, LoopInduction
<1> QED
  BY <1>3

LEMMA BytesAreDigits ==
  /\ Bytes(0) = <<>>
  /\ \A k \in Scalar \ {0} : Bytes(k) = Append(Bytes(k \div Base), k % Base)
<1> DEFINE Pass(g, k) == IF k = 0 THEN <<>> ELSE Append(g[k \div Base], k % Base)
           Is(g) == g = [k \in Scalar |-> Pass(g, k)]
           bytes == CHOOSE g : Is(g)
<1>1. Q - 1 \in Nat /\ Scalar = 0 .. (Q - 1) /\ 0 \in Scalar
  BY MigrationAssumption DEF Scalar
<1>2. PICK f : Digits(f, Q - 1)
  BY <1>1, DigitsExist
<1>3. Is(f)
  <2>1. f = [k \in Scalar |-> f[k]]
    BY <1>1, <1>2 DEF Digits
  <2>2. ASSUME NEW k \in Scalar
        PROVE  f[k] = Pass(f, k)
    <3>1. CASE k = 0
      BY <1>2, <3>1, Zenon DEF Digits
    <3>2. CASE k # 0
      <4>1. k \in 1 .. (Q - 1)
        BY <1>1, <3>2
      <4> QED
        BY <1>2, <3>2, <4>1, Zenon DEF Digits
    <3> QED
      BY <3>1, <3>2
  <2> QED
    BY <2>1, <2>2, Zenon
<1>4. Is(bytes)
  <2> HIDE DEF Is
  <2> QED
    BY <1>3
<1>5. \A k : Bytes(k) = bytes[k]
  BY Zenon DEF Bytes
<1> HIDE DEF bytes
<1>6. \A k \in Scalar : bytes[k] = Pass(bytes, k)
  BY <1>4, Zenon
<1>7. Bytes(0) = <<>>
  BY <1>1, <1>5, <1>6, Zenon
<1>8. ASSUME NEW k \in Scalar \ {0}
      PROVE  Bytes(k) = Append(Bytes(k \div Base), k % Base)
  <2>1. k \in Scalar /\ k # 0
    OBVIOUS
  <2>2. bytes[k] = Append(bytes[k \div Base], k % Base)
    BY <1>6, <2>1, Zenon
  <2> QED
    BY <1>5, <2>2, Zenon
<1> QED
  BY <1>7, <1>8

LEMMA BigEndianLoop ==
  ASSUME NEW bytes \in Seq(Nat)
  PROVE  \E n \in [0 .. Len(bytes) -> Nat] :
           /\ BigEndian(bytes) = n[Len(bytes)]
           /\ n[0] = 0
           /\ \A k \in 1 .. Len(bytes) : n[k] = n[k - 1] * Base + bytes[k]
<1> DEFINE n == Len(bytes)
           step == [k \in 1 .. n |-> [v \in Nat |-> v * Base + bytes[k]]]
           Pass(f, k) == f[k - 1] * Base + bytes[k]
           Is(f) == f = [k \in 0 .. n |-> IF k = 0 THEN 0 ELSE Pass(f, k)]
<1>1. n \in Nat /\ 0 \in Nat
  OBVIOUS
<1>2. \A k \in 1 .. n : \A v \in Nat : step[k][v] \in Nat
  <2> SUFFICES ASSUME NEW k \in 1 .. n, NEW v \in Nat
               PROVE  v * Base + bytes[k] \in Nat
    OBVIOUS
  <2>1. bytes[k] \in Nat /\ v * Base \in Nat
    BY MigrationAssumption
  <2> QED
    BY <2>1
<1>3. PICK f : Computes(f, n, Nat, 0, step)
  <2> HIDE DEF step, n
  <2> QED
    BY <1>1, <1>2, LoopExists
<1>4. f \in [0 .. n -> Nat] /\ f[0] = 0
  BY <1>3 DEF Computes
<1>5. ASSUME NEW k \in 1 .. n
      PROVE  f[k] = Pass(f, k)
  <2>1. f[k] = step[k][f[k - 1]]
    BY <1>3 DEF Computes
  <2>2. f[k - 1] \in Nat
    <3>1. k - 1 \in 0 .. n
      OBVIOUS
    <3> QED
      BY <1>4, <3>1, Zenon
  <2> QED
    BY <2>1, <2>2
<1>6. Is(CHOOSE g : Is(g))
  <2>1. f = [k \in 0 .. n |-> f[k]]
    BY <1>4
  <2>2. ASSUME NEW k \in 0 .. n
        PROVE  f[k] = IF k = 0 THEN 0 ELSE Pass(f, k)
    <3> HIDE DEF Pass
    <3> QED
      BY <1>4, <1>5
  <2>3. Is(f)
    BY <2>1, <2>2, Zenon
  <2> HIDE DEF Is
  <2> QED
    BY <2>3
<1>7. ASSUME NEW g, Is(g)
      PROVE  f[n] = g[n]
  <2>1. ASSUME NEW k \in 0 .. n
        PROVE  g[k] = IF k = 0 THEN 0 ELSE Pass(g, k)
    BY <1>7, Zenon
  <2>2. g[0] = 0
    <3>1. 0 \in 0 .. n
      BY <1>1
    <3> QED
      BY <2>1, <3>1, Zenon
  <2>3. ASSUME NEW k \in 1 .. n, f[k - 1] = g[k - 1]
        PROVE  f[k] = g[k]
    <3>1. g[k] = Pass(g, k)
      <4> HIDE DEF Pass
      <4> QED
        BY <2>1
    <3> QED
      BY <1>5, <2>3, <3>1, Zenon
  <2>4. \A k \in 1 .. n : f[k - 1] = g[k - 1] => f[k] = g[k]
    BY <2>3, Zenon
  <2>5. f[0] = g[0]
    BY <1>4, <2>2, Zenon
  <2> HIDE DEF n
  <2> QED
    BY <1>1, <2>4, <2>5, LoopsAgreeAt, Zenon
<1>8. BigEndian(bytes) = (CHOOSE g : Is(g))[n]
  BY DEF BigEndian
<1>9. /\ BigEndian(bytes) = f[n]
      /\ f[0] = 0
      /\ \A k \in 1 .. n : f[k] = Pass(f, k)
  BY <1>4, <1>5, <1>6, <1>7, <1>8
<1> QED
  BY <1>4, <1>9, Zenon

LEMMA BigEndianAppend ==
  ASSUME NEW s \in Seq(Nat), NEW d \in Nat
  PROVE  BigEndian(Append(s, d)) = BigEndian(s) * Base + d
<1> DEFINE t == Append(s, d)
           l == Len(s)
<1>1. /\ t \in Seq(Nat) /\ Len(t) = l + 1
      /\ \A i \in 1 .. l : t[i] = s[i]
      /\ t[l + 1] = d
  OBVIOUS
<1>2. l \in Nat
  OBVIOUS
<1>3. PICK v \in [0 .. l -> Nat] :
        /\ BigEndian(s) = v[l]
        /\ v[0] = 0
        /\ \A k \in 1 .. l : v[k] = v[k - 1] * Base + s[k]
  BY BigEndianLoop
<1> HIDE DEF t, l
<1>4. PICK w \in [0 .. Len(t) -> Nat] :
        /\ BigEndian(t) = w[Len(t)]
        /\ w[0] = 0
        /\ \A k \in 1 .. Len(t) : w[k] = w[k - 1] * Base + t[k]
  BY <1>1, BigEndianLoop
<1>5. ASSUME NEW k \in 1 .. l, v[k - 1] = w[k - 1]
      PROVE  v[k] = w[k]
  <2>1. k \in 1 .. Len(t)
    BY <1>1, <1>2
  <2> QED
    BY <1>1, <1>3, <1>4, <1>5, <2>1, Zenon
<1>6. v[l] = w[l]
  <2>1. v[0] = w[0]
    BY <1>3, <1>4, Zenon
  <2> QED
    BY <1>2, <1>5, <2>1, LoopsAgreeAt, Zenon
<1>7. l + 1 \in 1 .. Len(t) /\ (l + 1) - 1 = l
  BY <1>1, <1>2
<1>8. w[l + 1] = w[l] * Base + d
  BY <1>1, <1>4, <1>7, Zenon
<1> QED
  BY <1>1, <1>3, <1>4, <1>6, <1>8, Zenon DEF t

LEMMA BytesRead ==
  ASSUME NEW n \in Scalar
  PROVE  Bytes(n) \in Seq(Nat) /\ BigEndian(Bytes(n)) = n
<1> DEFINE Right(k) == Bytes(k) \in Seq(Nat) /\ BigEndian(Bytes(k)) = k
           T == {k \in Scalar : ~ Right(k)}
<1>1. Scalar \subseteq Nat /\ T \subseteq Nat
  BY MigrationAssumption DEF Scalar
<1>2. ASSUME T # {}
      PROVE  FALSE
  <2>1. \E x \in T : \A y \in T : x <= y
    <3> HIDE DEF T
    <3> QED
      BY <1>1, <1>2, LeastOf
  <2>2. PICK k \in T : \A y \in T : k <= y
    BY <2>1
  <2>3. k \in Scalar /\ k \in Nat /\ ~ Right(k)
    BY <1>1, <2>2
  <2>4. CASE k = 0
    <3>1. Bytes(0) = <<>> /\ <<>> \in Seq(Nat)
      BY BytesAreDigits
    <3>2. BigEndian(<<>>) = 0
      <4>1. Len(<<>>) = 0 /\ <<>> \in Seq(Nat)
        OBVIOUS
      <4> QED
        BY <4>1, BigEndianLoop, Zenon
    <3> QED
      BY <2>3, <2>4, <3>1, <3>2, Zenon
  <2>5. CASE k # 0
    <3> DEFINE q == k \div Base
               d == k % Base
    <3>1. q \in 0 .. (k - 1) /\ d \in Nat /\ q * Base + d = k
      BY <2>3, <2>5, Digit
    <3>2. q \in Scalar /\ ~ (k <= q)
      <4> HIDE DEF q, d
      <4> QED
        BY <2>3, <3>1, MigrationAssumption DEF Scalar
    <3>3. Right(q)
      <4>1. q \notin T
        BY <2>2, <3>2, Zenon
      <4> QED
        BY <3>2, <4>1, Zenon
    <3>4. Bytes(k) = Append(Bytes(q), d)
      <4>1. k \in Scalar \ {0}
        BY <2>3, <2>5
      <4> QED
        BY <4>1, BytesAreDigits, Zenon
    <3> HIDE DEF q, d
    <3>5. Append(Bytes(q), d) \in Seq(Nat)
      BY <3>1, <3>3, AppendIs
    <3>6. BigEndian(Append(Bytes(q), d)) = q * Base + d
      <4>1. BigEndian(Append(Bytes(q), d)) = BigEndian(Bytes(q)) * Base + d
        BY <3>1, <3>3, BigEndianAppend, Zenon
      <4> QED
        BY <3>3, <4>1, Zenon
    <3> QED
      BY <2>3, <3>1, <3>4, <3>5, <3>6, Zenon
  <2> QED
    BY <2>4, <2>5
<1> QED
  BY <1>2

LEMMA ReversedTwice ==
  ASSUME NEW s \in Seq(Nat)
  PROVE  Reverse(Reverse(s)) = s
<1> DEFINE l == Len(s)
           r == Reverse(s)
<1>1. l \in Nat
  OBVIOUS
<1>2. r = [i \in 1 .. l |-> s[(l - i) + 1]]
  BY DEF Reverse
<1>3. r \in Seq(Nat) /\ Len(r) = l
  <2>1. \A i \in 1 .. l : s[(l - i) + 1] \in Nat
    <3> SUFFICES ASSUME NEW i \in 1 .. l
                 PROVE  s[(l - i) + 1] \in Nat
      OBVIOUS
    <3>1. (l - i) + 1 \in 1 .. l
      BY <1>1
    <3> QED
      BY <3>1
  <2> HIDE DEF r
  <2> QED
    BY <1>1, <1>2, <2>1
<1>4. Reverse(r) = [i \in 1 .. l |-> r[(l - i) + 1]]
  <2> HIDE DEF r
  <2> QED
    BY <1>3 DEF Reverse
<1> HIDE DEF r
<1>5. ASSUME NEW i \in 1 .. l
      PROVE  r[(l - i) + 1] = s[i]
  <2>1. (l - i) + 1 \in 1 .. l /\ (l - ((l - i) + 1)) + 1 = i
    BY <1>1
  <2> QED
    BY <1>2, <2>1, Zenon
<1>6. s = [i \in 1 .. l |-> s[i]]
  OBVIOUS
<1> QED
  BY <1>4, <1>5, <1>6, Zenon DEF r

(* In the order in which they are written, the bytes stand for the number.    *)
LEMMA SecretWritten ==
  ASSUME NEW c \in Curve, NEW n \in Scalar
  PROVE  Number(c, IF c = "eddsa" THEN reverseBytes(Bytes(n)) ELSE Bytes(n)) = n
<1>1. Bytes(n) \in Seq(Nat) /\ BigEndian(Bytes(n)) = n
  BY BytesRead
<1>2. Reverse(Reverse(Bytes(n))) = Bytes(n)
  BY <1>1, ReversedTwice
<1> QED
  BY <1>1, <1>2, Zenon DEF Number, reverseBytes

(* The vaults hold numbers of the field, as a GG20 ceremony has left them.    *)
Share == [publicKey : Curve, xi : Scalar, shareID : 1 .. (Q - 1), ks : Seq(1 .. (Q - 1))]

NumbersInField ==
  \A p \in Signer : \A bytes \in secretCoefficient[p] : Number(curve, bytes) \in Scalar

MigrationInv ==
  /\ curve \in Curve
  /\ key \in [Curve -> Scalar]
  /\ vaults \in [Signer -> Seq(Share)]
  /\ secretCoefficient = [p \in Signer |-> secretCoefficient[p]]
  /\ NumbersInField
  /\ SecretIsProduct
  /\ SharesOfKey

(* The list of signers names each of them once.                               *)
LEMMA SignersListed ==
  /\ Len(Signers) = Cardinality(Signer) /\ Len(Signers) \in Nat
  /\ Signers \in [1 .. Len(Signers) -> Signer]
  /\ \A i, j \in 1 .. Len(Signers) : Signers[i] = Signers[j] => i = j
<1> DEFINE n == Cardinality(Signer)
<1>1. n \in Nat /\ ExistsBijection(1 .. n, Signer)
  BY MigrationAssumption, FS_CardinalityType, Zenon
<1> HIDE DEF n
<1>2. \E f \in [1 .. n -> Signer] : IsInjective(f)
  BY <1>1, Zenon DEF ExistsBijection, Bijection, Injection
<1>3. Signers \in [1 .. n -> Signer] /\ IsInjective(Signers)
  BY <1>2, Zenon DEF SetToSeq, Signers, n
<1> HIDE DEF Signers
<1>4. Signers \in Seq(Signer) /\ Len(Signers) = n
  BY <1>1, <1>3
<1>5. \A i, j \in 1 .. n : Signers[i] = Signers[j] => i = j
  BY <1>3, Zenon DEF IsInjective
<1> QED
  BY <1>1, <1>3, <1>4, <1>5, Zenon DEF n

ListedIds(ids) == [i \in 1 .. Len(Signers) |-> ids[Signers[i]]]

LEMMA ListedIdsType ==
  ASSUME NEW ids \in [Signer -> 1 .. (Q - 1)]
  PROVE  /\ ListedIds(ids) \in Seq(1 .. (Q - 1))
         /\ Len(ListedIds(ids)) = Len(Signers)
<1> DEFINE T == 1 .. (Q - 1)
           n == Len(Signers)
<1>1. n \in Nat /\ Signers \in [1 .. n -> Signer]
  BY SignersListed
<1>2. ids \in [Signer -> T]
  OBVIOUS
<1> HIDE DEF T, n
<1>3. ListedIds(ids) \in [1 .. n -> T]
  BY <1>1, <1>2 DEF ListedIds, n
<1> HIDE DEF ListedIds
<1>4. ListedIds(ids) \in Seq(T) /\ Len(ListedIds(ids)) = n
  BY <1>1, <1>3
<1> QED
  BY <1>4, Zenon DEF T, n

LEMMA ShareType ==
  ASSUME key \in [Curve -> Scalar], NEW c \in Curve, NEW poly \in [1 .. Degree -> Scalar],
         NEW ids \in [Signer -> 1 .. (Q - 1)], NEW p \in Signer
  PROVE  KeyShare(c, poly, ids, p) \in Share
<1>1. Q \in Nat \ {0}
  BY MigrationAssumption
<1>2. key[c] \in Scalar /\ ids[p] \in Nat /\ ids[p] \in 1 .. (Q - 1)
  BY <1>1
<1> DEFINE v == Value(key[c], poly, ids[p])
<1>3. v \in Nat
  BY <1>2, ValueIs
<1>4. KeyShare(c, poly, ids, p) =
        [publicKey |-> c, xi |-> v % Q, shareID |-> ids[p], ks |-> ListedIds(ids)]
  BY Zenon DEF KeyShare, ListedIds
<1> HIDE DEF v
<1>5. v % Q \in Scalar
  BY <1>1, <1>3 DEF Scalar
<1>6. ListedIds(ids) \in Seq(1 .. (Q - 1))
  BY ListedIdsType
<1> DEFINE l == ListedIds(ids)
           w == v % Q
           id == ids[p]
<1>7. id \in 1 .. (Q - 1) /\ l \in Seq(1 .. (Q - 1)) /\ w \in Scalar
  BY <1>2, <1>5, <1>6
<1>8. KeyShare(c, poly, ids, p) = [publicKey |-> c, xi |-> w, shareID |-> id, ks |-> l]
  BY <1>4, Zenon
<1> HIDE DEF l, w, id
<1>9. [publicKey |-> c, xi |-> w, shareID |-> id, ks |-> l] \in Share
  BY <1>7 DEF Share
<1> QED
  BY <1>8, <1>9, Zenon

LEMMA MigrationInitInv == MigrationInit \/ MigrationIdle => MigrationInv
<1>1. Q \in Nat \ {0, 1}
  BY MigrationAssumption
<1>2. ASSUME MigrationInit
      PROVE  MigrationInv
  <2>1. PICK poly \in [1 .. Degree -> Scalar], ids \in [Signer -> 1 .. (Q - 1)] :
          /\ \A p, q \in Signer : ids[p] = ids[q] => p = q
          /\ LET other == [k \in 1 .. Degree |-> (poly[k] + 1) % Q]
                 ecdsa(p) == KeyShare("ecdsa", poly, ids, p)
                 eddsa(p) == KeyShare("eddsa", other, ids, p)
             IN \/ vaults = [p \in Signer |-> <<ecdsa(p), eddsa(p)>>]
                \/ vaults = [p \in Signer |-> <<eddsa(p)>>]
    BY <1>2, Zenon DEF MigrationInit
  <2> DEFINE other == [k \in 1 .. Degree |-> (poly[k] + 1) % Q]
             a(p) == KeyShare("ecdsa", poly, ids, p)
             b(p) == KeyShare("eddsa", other, ids, p)
  <2>2. other \in [1 .. Degree -> Scalar]
    BY <1>1 DEF Scalar
  <2>3. key \in [Curve -> Scalar] /\ "ecdsa" \in Curve /\ "eddsa" \in Curve
    BY <1>2 DEF MigrationInit, Curve
  <2>4. \A p \in Signer : a(p) \in Share /\ b(p) \in Share
    BY <2>2, <2>3, ShareType
  <2>5. \/ vaults = [p \in Signer |-> <<a(p), b(p)>>]
        \/ vaults = [p \in Signer |-> <<b(p)>>]
    BY <2>1, Zenon
  <2> HIDE DEF a, b, other
  <2>6. \A p \in Signer : <<a(p), b(p)>> \in Seq(Share) /\ <<b(p)>> \in Seq(Share)
    <3> HIDE DEF Share
    <3> QED
      BY <2>4
  <2>7. vaults \in [Signer -> Seq(Share)]
    BY <2>5, <2>6, Zenon
  <2>8. secretCoefficient = [p \in Signer |-> {}] /\ curve \in Curve
    BY <1>2 DEF MigrationInit
  <2>9. SharesOfKey
    <3> DEFINE polys == [c \in Curve |-> IF c = "ecdsa" THEN poly ELSE other]
    <3>1. /\ polys \in [Curve -> [1 .. Degree -> Scalar]]
          /\ polys["ecdsa"] = poly /\ polys["eddsa"] = other
      BY <2>2, <2>3
    <3> HIDE DEF polys
    <3>2. \A p \in Signer : \A i \in DOMAIN vaults[p] :
            vaults[p][i] = a(p) \/ vaults[p][i] = b(p)
      <4>1. CASE vaults = [p \in Signer |-> <<a(p), b(p)>>]
        BY <4>1
      <4>2. CASE vaults = [p \in Signer |-> <<b(p)>>]
        BY <4>2
      <4> QED
        BY <2>5, <4>1, <4>2
    <3>3. \A p \in Signer : \A i \in DOMAIN vaults[p] :
            \E c \in Curve : vaults[p][i] = KeyShare(c, polys[c], ids, p)
      <4> SUFFICES ASSUME NEW p \in Signer, NEW i \in DOMAIN vaults[p]
                   PROVE  \E c \in Curve : vaults[p][i] = KeyShare(c, polys[c], ids, p)
        OBVIOUS
      <4>1. CASE vaults[p][i] = a(p)
        BY <2>3, <3>1, <4>1, Zenon DEF a
      <4>2. CASE vaults[p][i] = b(p)
        BY <2>3, <3>1, <4>2, Zenon DEF b
      <4> QED
        BY <3>2, <4>1, <4>2
    <3> QED
      BY <2>1, <3>1, <3>3, Zenon DEF SharesOfKey
  <2> QED
    BY <2>3, <2>7, <2>8, <2>9 DEF MigrationInv, NumbersInField, SecretIsProduct
<1>3. ASSUME MigrationIdle
      PROVE  MigrationInv
  <2>1. \A p \in Signer : vaults[p] = <<>>
    BY <1>3 DEF MigrationIdle
  <2>2. SharesOfKey
    BY <2>1, Zenon DEF SharesOfKey
  <2> QED
    BY <1>1, <1>3, <2>2 DEF MigrationIdle, MigrationInv, NumbersInField, SecretIsProduct, Curve, Scalar
<1> QED
  BY <1>2, <1>3

LEMMA SecretIs ==
  ASSUME NEW c \in Curve, NEW vault \in Seq(Share), NEW bytes \in getLocalSecret(c, vault)
  PROVE  \E i \in DOMAIN vault :
           LET item == vault[i]
           IN /\ item.publicKey = c
              /\ Number(c, bytes) = Mul(item.xi, Lagrange(item.ks, item.shareID))
              /\ Number(c, bytes) \in Scalar
<1> DEFINE found == {i \in DOMAIN vault : vault[i].publicKey = c}
           first == CHOOSE i \in found : \A j \in found : i <= j
           item == vault[first]
           ui == Mul(item.xi, Lagrange(item.ks, item.shareID))
<1>1. found # {} /\ bytes = IF c = "eddsa" THEN reverseBytes(Bytes(ui)) ELSE Bytes(ui)
  BY Zenon DEF getLocalSecret
<1>2. first \in found
  <2>1. found \in SUBSET Nat
    OBVIOUS
  <2> HIDE DEF found
  <2>2. \E i \in found : \A j \in found : i <= j
    BY <1>1, <2>1, LeastOf
  <2> QED
    BY <2>2, Zenon
<1> HIDE DEF first
<1>3. first \in DOMAIN vault /\ item.publicKey = c
  BY <1>2
<1>4. item \in Share
  BY <1>3
<1> HIDE DEF item
<1>5. item.xi \in Nat /\ item.shareID \in 1 .. (Q - 1) /\ item.ks \in Seq(1 .. (Q - 1))
  BY <1>4, MigrationAssumption DEF Share, Scalar
<1>6. ui \in Scalar
  BY <1>5, LagrangeType, MulType
<1> HIDE DEF ui
<1>7. Number(c, bytes) = ui
  BY <1>1, <1>6, SecretWritten, Zenon
<1> QED
  BY <1>3, <1>6, <1>7, Zenon DEF item, ui

LEMMA SharesOfKeyKept ==
  ASSUME SharesOfKey, key' = key, vaults' = vaults
  PROVE  SharesOfKey'
<1>1. ASSUME NEW c, NEW poly, NEW ids, NEW p
      PROVE  KeyShare(c, poly, ids, p)' = KeyShare(c, poly, ids, p)
  BY DEF KeyShare
<1> SUFFICES ASSUME \E p \in Signer : vaults'[p] # <<>>
             PROVE  \E poly \in [Curve -> [1 .. Degree -> Scalar]], ids \in [Signer -> 1 .. (Q - 1)] :
                      /\ \A p, q \in Signer : ids[p] = ids[q] => p = q
                      /\ \A p \in Signer : \A i \in DOMAIN vaults'[p] :
                           \E c \in Curve : vaults'[p][i] = KeyShare(c, poly[c], ids, p)'
  BY Zenon DEF SharesOfKey
<1>2. PICK poly \in [Curve -> [1 .. Degree -> Scalar]], ids \in [Signer -> 1 .. (Q - 1)] :
        /\ \A p, q \in Signer : ids[p] = ids[q] => p = q
        /\ \A p \in Signer : \A i \in DOMAIN vaults[p] :
             \E c \in Curve : vaults[p][i] = KeyShare(c, poly[c], ids, p)
  BY Zenon DEF SharesOfKey
<1>3. \A p \in Signer : \A i \in DOMAIN vaults'[p] :
        \E c \in Curve : vaults'[p][i] = KeyShare(c, poly[c], ids, p)'
  BY <1>1, <1>2, Zenon
<1> QED
  BY <1>2, <1>3, Zenon

LEMMA MigrationStepInv ==
  ASSUME MigrationInv, MigrationNext
  PROVE  MigrationInv'
<1>1. PICK p \in Signer : OpenMigration(p)
  BY DEF MigrationNext
<1>2. PICK bytes \in getLocalSecret(curve, vaults[p]) :
        secretCoefficient' = [secretCoefficient EXCEPT ![p] = {bytes}]
  BY <1>1 DEF OpenMigration
<1>3. UNCHANGED <<curve, key, vaults>>
  BY <1>1 DEF OpenMigration
<1>4. curve \in Curve /\ vaults[p] \in Seq(Share)
  BY DEF MigrationInv
<1> DEFINE s == Number(curve, bytes)
<1>5. /\ s \in Scalar
      /\ \E i \in DOMAIN vaults[p] :
           LET item == vaults[p][i]
           IN item.publicKey = curve /\ s = Mul(item.xi, Lagrange(item.ks, item.shareID))
  <2>1. \E i \in DOMAIN vaults[p] :
          LET item == vaults[p][i]
          IN /\ item.publicKey = curve
             /\ s = Mul(item.xi, Lagrange(item.ks, item.shareID))
             /\ s \in Scalar
    BY <1>4, SecretIs, Zenon
  <2> HIDE DEF s
  <2> QED
    BY <2>1, Zenon
<1> HIDE DEF s
<1>6. /\ secretCoefficient' = [q \in Signer |-> secretCoefficient'[q]]
      /\ secretCoefficient'[p] = {bytes}
      /\ \A q \in Signer \ {p} : secretCoefficient'[q] = secretCoefficient[q]
  <2>1. secretCoefficient = [q \in Signer |-> secretCoefficient[q]]
    BY DEF MigrationInv
  <2> QED
    BY <1>2, <2>1
<1>7. NumbersInField'
  <2> SUFFICES ASSUME NEW q \in Signer, NEW r \in secretCoefficient'[q]
               PROVE  Number(curve, r) \in Scalar
    BY <1>3, Zenon DEF NumbersInField
  <2>1. CASE q = p
    <3>1. r = bytes
      BY <1>6, <2>1, Zenon
    <3> QED
      BY <1>5, <3>1, Zenon DEF s
  <2>2. CASE q # p
    <3>1. r \in secretCoefficient[q]
      BY <1>6, <2>2, Zenon
    <3> QED
      BY <3>1, Zenon DEF MigrationInv, NumbersInField
  <2> QED
    BY <2>1, <2>2
<1>8. SecretIsProduct'
  <2> SUFFICES ASSUME NEW q \in Signer, NEW r \in secretCoefficient'[q]
               PROVE  \E i \in DOMAIN vaults[q] :
                        LET item == vaults[q][i]
                        IN /\ item.publicKey = curve
                           /\ Number(curve, r) = Mul(item.xi, Lagrange(item.ks, item.shareID))
    BY <1>3, Zenon DEF SecretIsProduct
  <2>1. CASE q = p
    <3>1. r = bytes
      BY <1>6, <2>1, Zenon
    <3> QED
      BY <1>5, <2>1, <3>1, Zenon DEF s
  <2>2. CASE q # p
    <3>1. r \in secretCoefficient[q]
      BY <1>6, <2>2, Zenon
    <3> QED
      BY <3>1, Zenon DEF MigrationInv, SecretIsProduct
  <2> QED
    BY <2>1, <2>2
<1>9. SharesOfKey'
  <2>1. SharesOfKey
    BY DEF MigrationInv
  <2> QED
    BY <1>3, <2>1, SharesOfKeyKept
<1> QED
  BY <1>3, <1>6, <1>7, <1>8, <1>9 DEF MigrationInv

(* What a party of a GG20 ceremony hands to the library.                      *)
LEMMA HandedIs ==
  ASSUME MigrationInv, NEW ids \in [Signer -> 1 .. (Q - 1)], NEW poly,
         \A p \in Signer : \A i \in DOMAIN vaults[p] :
           \E c \in Curve : vaults[p][i] = KeyShare(c, poly[c], ids, p),
         NEW p \in Signer, NEW r \in secretCoefficient[p]
  PROVE  Number(curve, r) = Mul(Value(key[curve], poly[curve], ids[p]) % Q, Lagrange(ListedIds(ids), ids[p]))
<1>1. PICK i \in DOMAIN vaults[p] :
        LET item == vaults[p][i]
        IN /\ item.publicKey = curve
           /\ Number(curve, r) = Mul(item.xi, Lagrange(item.ks, item.shareID))
  BY Zenon DEF MigrationInv, SecretIsProduct
<1>2. PICK c \in Curve : vaults[p][i] = KeyShare(c, poly[c], ids, p)
  OBVIOUS
<1> DEFINE item == vaults[p][i]
<1>3. /\ item.publicKey = c /\ item.xi = Value(key[c], poly[c], ids[p]) % Q
      /\ item.shareID = ids[p] /\ item.ks = ListedIds(ids)
  BY <1>2 DEF KeyShare, ListedIds
<1>4. /\ item.publicKey = curve
      /\ Number(curve, r) = Mul(item.xi, Lagrange(item.ks, item.shareID))
  BY <1>1, Zenon
<1> HIDE DEF item
<1> QED
  BY <1>3, <1>4, Zenon

LEMMA KeyIsSum ==
  ASSUME MigrationInv
  PROVE  SecretsAddUpToKey
<1> DEFINE n == Len(Signers)
           number == [p \in Signer |-> Number(curve, HandedBy(p))]
           Pass(f, i) == f[i - 1] + number[Signers[i]]
           Is(f) == f = [i \in 0 .. n |-> IF i = 0 THEN 0 ELSE Pass(f, i)]
           sum == CHOOSE f : Is(f)
           s == [i \in 1 .. n |-> number[Signers[i]]]
<1>1. SUFFICES ASSUME \A p \in Signer : secretCoefficient[p] # {}
               PROVE  sum[n] % Q = key[curve]
  BY Zenon DEF SecretsAddUpToKey, SumOver, AllHanded
<1>2. /\ n \in Nat /\ n > Degree /\ n >= 1 /\ Signers \in [1 .. n -> Signer]
      /\ \A i, j \in 1 .. n : Signers[i] = Signers[j] => i = j
  BY SignersListed, MigrationAssumption
<1>3. \A p \in Signer : HandedBy(p) \in secretCoefficient[p]
  BY <1>1, Zenon DEF HandedBy
<1>4. /\ curve \in Curve /\ key \in [Curve -> Scalar]
      /\ NumbersInField /\ SecretIsProduct /\ SharesOfKey
  BY DEF MigrationInv
<1>5. \E p \in Signer : vaults[p] # <<>>
  <2>1. 1 \in 1 .. n
    BY <1>2
  <2>2. PICK p \in Signer : p = Signers[1]
    BY <1>2, <2>1, Zenon
  <2>3. \E i \in DOMAIN vaults[p] : TRUE
    BY <1>3, <1>4, Zenon DEF SecretIsProduct
  <2>4. vaults[p] # <<>>
    BY <2>3
  <2> QED
    BY <2>4
<1>6. PICK poly \in [Curve -> [1 .. Degree -> Scalar]], ids \in [Signer -> 1 .. (Q - 1)] :
        /\ \A p, q \in Signer : ids[p] = ids[q] => p = q
        /\ \A p \in Signer : \A i \in DOMAIN vaults[p] :
             \E c \in Curve : vaults[p][i] = KeyShare(c, poly[c], ids, p)
  BY <1>4, <1>5, Zenon DEF SharesOfKey
<1> DEFINE ks == ListedIds(ids)
<1>7. ks \in Seq(1 .. (Q - 1)) /\ Len(ks) = n /\ \A i \in 1 .. n : ks[i] = ids[Signers[i]]
  BY ListedIdsType, Zenon DEF ListedIds
<1> HIDE DEF ks
<1>8. Distinct(ks)
  <2> SUFFICES ASSUME NEW i \in 1 .. n, NEW j \in 1 .. n, ks[i] = ks[j]
               PROVE  i = j
    BY <1>7, Zenon DEF Distinct
  <2>1. Signers[i] \in Signer /\ Signers[j] \in Signer
    BY <1>2
  <2>2. ids[Signers[i]] = ids[Signers[j]]
    BY <1>7, Zenon
  <2>3. Signers[i] = Signers[j]
    BY <1>6, <2>1, <2>2, Zenon
  <2> QED
    BY <1>2, <2>3, Zenon
<1>9. \A p \in Signer :
        /\ number[p] = Mul(Value(key[curve], poly[curve], ids[p]) % Q, Lagrange(ks, ids[p]))
        /\ number[p] \in Scalar
  <2> SUFFICES ASSUME NEW p \in Signer
               PROVE  /\ number[p] = Mul(Value(key[curve], poly[curve], ids[p]) % Q,
                                         Lagrange(ks, ids[p]))
                      /\ number[p] \in Scalar
    BY Zenon
  <2>1. number[p] = Number(curve, HandedBy(p))
    BY Zenon
  <2>2. HandedBy(p) \in secretCoefficient[p]
    BY <1>3, Zenon
  <2>3. Number(curve, HandedBy(p)) =
          Mul(Value(key[curve], poly[curve], ids[p]) % Q, Lagrange(ks, ids[p]))
    BY <1>6, <2>2, HandedIs, Zenon DEF ks
  <2>4. Number(curve, HandedBy(p)) \in Scalar
    BY <1>4, <2>2, Zenon DEF NumbersInField
  <2> QED
    BY <2>1, <2>3, <2>4, Zenon
<1> HIDE DEF number
<1>10. s \in [1 .. n -> Nat] /\ s \in [1 .. n -> Int]
  <2> SUFFICES ASSUME NEW i \in 1 .. n
               PROVE  number[Signers[i]] \in Nat
    BY DEF s
  <2>1. Signers[i] \in Signer
    BY <1>2
  <2>2. number[Signers[i]] \in Scalar
    BY <1>9, <2>1, Zenon
  <2> QED
    BY <2>2, MigrationAssumption DEF Scalar
<1>11. \A i \in 1 .. n : s[i] = number[Signers[i]]
  OBVIOUS
<1> HIDE DEF s
<1>12. Sums(s, n, SumOf(s, n))
  BY <1>2, <1>10, SumsExist, Zenon
<1>13. SumOf(s, n)[n] % Q = key[curve]
  <2>1. key[curve] \in Scalar /\ poly[curve] \in [1 .. Degree -> Scalar]
    BY <1>4, <1>6
  <2>2. ASSUME NEW i \in 1 .. n
        PROVE  s[i] = Mul(Value(key[curve], poly[curve], ks[i]) % Q, Lagrange(ks, ks[i]))
    <3>1. Signers[i] \in Signer
      BY <1>2
    <3> QED
      BY <1>7, <1>9, <1>11, <3>1, Zenon
  <2>3. Len(ks) > Degree
    BY <1>2, <1>7
  <2> HIDE DEF n
  <2> QED
    BY <1>7, <1>8, <1>10, <2>1, <2>2, <2>3, ProductsAddUp, Zenon
<1>14. Is(sum)
  <2> DEFINE f == SumOf(s, n)
  <2>1. f \in [0 .. n -> Int] /\ f[0] = 0 /\ \A k \in 1 .. n : f[k] = f[k - 1] + s[k]
    BY <1>12, Zenon DEF Sums
  <2> HIDE DEF f
  <2>2. f = [i \in 0 .. n |-> f[i]]
    BY <2>1
  <2>3. ASSUME NEW i \in 0 .. n
        PROVE  f[i] = IF i = 0 THEN 0 ELSE Pass(f, i)
    <3>1. CASE i = 0
      BY <2>1, <3>1, Zenon
    <3>2. CASE i # 0
      <4>1. i \in 1 .. n
        BY <3>2
      <4> QED
        BY <1>11, <2>1, <3>2, <4>1, Zenon
    <3> QED
      BY <3>1, <3>2
  <2>4. Is(f)
    BY <2>2, <2>3, Zenon
  <2> HIDE DEF Is
  <2> QED
    BY <2>4, Zenon
<1> HIDE DEF sum
<1>15. ASSUME NEW i \in 0 .. n
       PROVE  sum[i] = IF i = 0 THEN 0 ELSE Pass(sum, i)
  BY <1>14, Zenon
<1>16. sum[0] = 0
  <2>1. 0 \in 0 .. n
    BY <1>2
  <2> QED
    BY <1>15, <2>1, Zenon
<1>17. sum[n] = SumOf(s, n)[n]
  <2> DEFINE f == SumOf(s, n)
  <2>1. f[0] = 0 /\ \A k \in 1 .. n : f[k] = f[k - 1] + s[k]
    BY <1>12, Zenon DEF Sums
  <2> HIDE DEF f
  <2>2. ASSUME NEW k \in 1 .. n, sum[k - 1] = f[k - 1]
        PROVE  sum[k] = f[k]
    <3>1. k \in 0 .. n /\ k # 0
      BY <1>2
    <3> QED
      BY <1>11, <1>15, <2>1, <2>2, <3>1, Zenon
  <2>3. \A k \in 1 .. n : sum[k - 1] = f[k - 1] => sum[k] = f[k]
    BY <2>2, Zenon
  <2>4. sum[0] = f[0]
    BY <1>16, <2>1, Zenon
  <2> HIDE DEF n
  <2> QED
    BY <1>2, <2>3, <2>4, LoopsAgreeAt, Zenon DEF f
<1> QED
  BY <1>13, <1>17, Zenon

LEMMA MigrationInvariant == Spec => []MigrationInv
<1>1. Init => MigrationInv
  BY MigrationInitInv DEF Init
<1>2. MigrationInv /\ [Next]_vars => MigrationInv'
  <2>1. MigrationInv /\ UNCHANGED migrationVars => MigrationInv'
    BY SharesOfKeyKept DEF MigrationInv, NumbersInField, SecretIsProduct, migrationVars
  <2> QED
    BY <2>1, MigrationStepInv DEF Next, MakeSetup, vars
<1> QED
  BY <1>1, <1>2, PTL DEF Spec

(* Whatever the prime, the base of a byte and the vaults, the bytes that a    *)
(* party hands to the library stand for the product of the party's share and  *)
(* its Lagrange coefficient, in the order in which the code writes them: the  *)
(* loss of leading zeros loses nothing, and the reversal of EdDSA leaves them *)
(* least significant byte first (keygen.go:614-615, 651-661, 795-829).        *)
THEOREM MigrationHandsProduct == Spec => []SecretIsProduct
<1>1. MigrationInv => SecretIsProduct
  BY DEF MigrationInv
<1> QED
  BY <1>1, MigrationInvariant, PTL

(* For every prime, every number of signers, every number of shares that make *)
(* up the key and every numbering of them, the secrets that all parties hand  *)
(* to the library add up to the key of the vault, in the order in which the   *)
(* code writes their bytes (keygen.go:600-615, 637-652, 795-829).             *)
THEOREM MigrationKeepsKey == Spec => []SecretsAddUpToKey
<1>1. MigrationInv => SecretsAddUpToKey
  BY KeyIsSum
<1> QED
  BY <1>1, MigrationInvariant, PTL

=============================================================================
