------------------------------ MODULE ProofFacts ------------------------------
(***************************************************************************)
(* Facts about numbers and sequences that the proofs of several components *)
(* cite.                                                                   *)
(***************************************************************************)
EXTENDS Integers, FiniteSets, FiniteSetTheorems, WellFoundedInduction, SequenceTheorems, TLAPS

LEMMA NatLeast ==
    ASSUME NEW T \in SUBSET Nat, T # {}
    PROVE  \E x \in T : \A y \in T : x <= y
<1>1. PICK x \in T : \A y \in T : ~(<<y, x>> \in OpToRel(<, Nat))
  BY NatLessThanWellFounded, WFMin
<1>2. \A y \in T : y \in Nat /\ x \in Nat /\ ~(y < x)
  BY <1>1 DEF OpToRel
<1> QED
  BY <1>2

LEMMA FiniteNatGreatest ==
    ASSUME NEW S \in SUBSET Nat, IsFiniteSet(S), S # {}
    PROVE  \E x \in S : \A y \in S : y <= x
<1> DEFINE HasMax(U) == \E x \in U : \A y \in U : y <= x
           Bad == {k \in Nat : \E U \in SUBSET S :
                       U # {} /\ Cardinality(U) = k /\ ~HasMax(U)}
<1> SUFFICES ASSUME ~HasMax(S) PROVE FALSE
  OBVIOUS
<1>1. Bad # {}
  <2>1. Cardinality(S) \in Nat
    BY FS_CardinalityType
  <2>2. Cardinality(S) \in Bad
    BY <2>1
  <2> QED
    BY <2>2
<1>2. PICK k \in Bad : \A j \in Bad : k <= j
  BY <1>1, NatLeast
<1>3. PICK U \in SUBSET S : U # {} /\ Cardinality(U) = k /\ ~HasMax(U)
  BY <1>2
<1>4. PICK x \in U : TRUE
  BY <1>3
<1> DEFINE W == U \ {x}
<1>5. IsFiniteSet(U)
  BY FS_Subset
<1>6. Cardinality(W) = k - 1 /\ IsFiniteSet(W)
  BY <1>3, <1>4, <1>5, FS_RemoveElement
<1>7. W # {}
  <2> SUFFICES ASSUME W = {} PROVE FALSE
    OBVIOUS
  <2>1. U = {x}
    BY <1>4
  <2> QED
    BY <2>1, <1>3
<1>8. HasMax(W)
  <2> SUFFICES ASSUME ~HasMax(W) PROVE FALSE
    OBVIOUS
  <2>1. Cardinality(W) \in Nat
    BY <1>6, FS_CardinalityType
  <2>2. Cardinality(W) \in Bad
    <3> HIDE DEF W
    <3>1. W \in SUBSET S
      BY DEF W
    <3> QED
      BY <2>1, <3>1, <1>7
  <2>3. k <= k - 1
    BY <2>2, <1>2, <1>6
  <2> QED
    BY <2>3, <1>2
<1>9. PICK y \in W : \A z \in W : z <= y
  BY <1>8
<1>10. x \in Nat /\ y \in Nat /\ (\A z \in U : z = x \/ z \in W)
  BY <1>9, <1>4
<1>11. HasMax(U)
  <2>1. CASE x <= y
    BY <2>1, <1>9, <1>10
  <2>2. CASE y < x
    <3>1. \A z \in W : z \in Nat /\ z <= x
      BY <2>2, <1>9, <1>10
    <3> QED
      BY <3>1, <1>10, <1>4
  <2> QED
    BY <2>1, <2>2, <1>10
<1> QED
  BY <1>3, <1>11

LEMMA DivNat ==
    ASSUME NEW a \in Nat, NEW b \in Nat \ {0}
    PROVE  a \div b \in Nat
OBVIOUS

LEMMA TimesNat ==
    ASSUME NEW a \in Nat, NEW b \in Nat
    PROVE  a * b \in Nat
OBVIOUS

LEMMA TimesMonotone ==
    ASSUME NEW a \in Nat, NEW b \in Nat, NEW c \in Nat, a <= b
    PROVE  a * c <= b * c
OBVIOUS

LEMMA DivMod ==
    ASSUME NEW a \in Int, NEW n \in Nat \ {0}
    PROVE  a = n * (a \div n) + (a % n) /\ a % n \in 0..n-1 /\ a \div n \in Int
OBVIOUS

LEMMA DivMonotone ==
    ASSUME NEW a \in Nat, NEW b \in Nat, NEW n \in Nat \ {0}, a <= b
    PROVE  a \div n <= b \div n
<1> DEFINE p == a \div n  q == b \div n  r == a % n  s == b % n
<1>1. a = n * p + r /\ b = n * q + s /\ p \in Int /\ q \in Int /\ r \in 0..n-1 /\ s \in 0..n-1
  BY DivMod
<1> HIDE DEF p, q, r, s
<1>2. SUFFICES ASSUME q + 1 <= p PROVE FALSE
  BY <1>1 DEF p, q
<1>3. n * (q + 1) <= n * p
  BY <1>1, <1>2
<1>4. n * (q + 1) = n * q + n
  BY <1>1
<1> QED
  BY <1>1, <1>3, <1>4

LEMMA DivTimes ==
    ASSUME NEW b \in Nat, NEW n \in Nat \ {0}
    PROVE  (n * b) \div n = b
OBVIOUS

\* Two positions less than one buffer size apart have different slots.
LEMMA ModWindow ==
    ASSUME NEW a \in Nat, NEW b \in Nat, NEW n \in Nat \ {0},
           a - b < n, b - a < n, a % n = b % n
    PROVE  a = b
<1> DEFINE p == a \div n  q == b \div n  r == a % n
<1>1. a = n * p + r /\ b = n * q + r /\ p \in Int /\ q \in Int /\ r \in Int
  BY DivMod
<1> HIDE DEF p, q, r
<1>2. b - a = n * (q - p)
  BY <1>1
<1>3. CASE q - p >= 1
  BY <1>1, <1>2, <1>3
<1>4. CASE q - p <= -1
  BY <1>1, <1>2, <1>4
<1>5. CASE q = p
  BY <1>1, <1>5
<1> QED
  BY <1>1, <1>3, <1>4, <1>5

\* Equal slots stay equal when both positions move on.
LEMMA ModShift ==
    ASSUME NEW a \in Nat, NEW b \in Nat, NEW c \in Nat, NEW n \in Nat \ {0}, a % n = b % n
    PROVE  (a + c) % n = (b + c) % n
<1>a. ASSUME NEW m \in Nat
      PROVE  \E x \in Int, u \in 0..n-1 : m = n * x + u /\ u = m % n
  <2>1. m = n * (m \div n) + (m % n) /\ m % n \in 0..n-1 /\ m \div n \in Int
    BY DivMod
  <2>2. QED BY <2>1, Zenon
<1>1. PICK p \in Int, q \in Int, r \in 0..n-1 : a = n * p + r /\ b = n * q + r
  <2>1. PICK p \in Int, r \in 0..n-1 : a = n * p + r /\ r = a % n
    BY <1>a
  <2>2. PICK q \in Int, t \in 0..n-1 : b = n * q + t /\ t = b % n
    BY <1>a
  <2>3. t = r
    BY <2>1, <2>2
  <2>4. QED BY <2>1, <2>2, <2>3
<1>3. a + c \in Nat /\ b + c \in Nat
  OBVIOUS
<1>4. PICK x \in Int, u \in 0..n-1 : a + c = n * x + u /\ u = (a + c) % n
  BY <1>a, <1>3
<1>5. PICK y \in Int, v \in 0..n-1 : b + c = n * y + v /\ v = (b + c) % n
  BY <1>a, <1>3
<1>6. PICK d \in Int : d = (x - p) - (y - q)
  OBVIOUS
<1>7. v - u = n * d
  BY <1>1, <1>4, <1>5, <1>6
<1>8. CASE d >= 1
  BY <1>7, <1>8
<1>9. CASE d <= -1
  BY <1>7, <1>9
<1>10. CASE d = 0
  BY <1>4, <1>5, <1>7, <1>10
<1> QED
  BY <1>8, <1>9, <1>10

LEMMA SmallMod ==
    ASSUME NEW a \in Nat, NEW n \in Nat \ {0}, a < n
    PROVE  a % n = a
OBVIOUS

-------------------------------------------------------------------------------
(* Sequences given element by element *)

HasLen(f, n) == f = [i \in 1..n |-> f[i]]

LEMMA IsSequence ==
    ASSUME NEW n \in Nat, NEW f, HasLen(f, n)
    PROVE  /\ f \in Seq({f[i] : i \in 1..n})
           /\ Len(f) = n
<1> DEFINE V == {f[i] : i \in 1..n}
<1>1. f \in [1..n -> V]
  BY SMT DEF HasLen
<1> HIDE DEF V
<1>2. f \in Seq(V)
  BY <1>1, SeqDef
<1>3. DOMAIN f = 1..n
  BY <1>1
<1>4. Len(f) \in Nat /\ DOMAIN f = 1..Len(f)
  BY <1>2, LenProperties
<1>5. Len(f) = n
  BY <1>3, <1>4
<1> QED
  BY <1>2, <1>5 DEF V

LEMMA ConcatIs ==
    ASSUME NEW m \in Nat, NEW n \in Nat, NEW f, NEW g, NEW h,
           HasLen(f, m), HasLen(g, n), HasLen(h, m + n),
           \A i \in 1..m : h[i] = f[i],
           \A i \in 1..n : h[m + i] = g[i]
    PROVE  f \o g = h
<1> DEFINE F == {f[i] : i \in 1..m}
           G == {g[i] : i \in 1..n}
           H == {h[i] : i \in 1..m+n}
<1>1. f \in Seq(F) /\ Len(f) = m /\ g \in Seq(G) /\ Len(g) = n
  BY IsSequence, SMTT(30)
<1>2. h \in Seq(H) /\ Len(h) = m + n
  <2>1. m + n \in Nat
    OBVIOUS
  <2> QED
    BY <2>1, IsSequence
<1> DEFINE U == F \cup G \cup H
<1>3. f \in Seq(U) /\ g \in Seq(U) /\ h \in Seq(U)
  <2> HIDE DEF F, G, H
  <2>1. F \subseteq U /\ G \subseteq U /\ H \subseteq U
    OBVIOUS
  <2> QED
    BY <1>1, <1>2, <2>1, SeqMonotonic
<1> HIDE DEF U, F, G, H
<1>4. /\ f \o g \in Seq(U)
      /\ Len(f \o g) = m + n
      /\ \A i \in 1..m+n : (f \o g)[i] = IF i <= m THEN f[i] ELSE g[i - m]
  <2>1. /\ f \o g \in Seq(U)
        /\ Len(f \o g) = Len(f) + Len(g)
        /\ \A i \in 1..Len(f) + Len(g) :
             (f \o g)[i] = IF i <= Len(f) THEN f[i] ELSE g[i - Len(f)]
    BY <1>3, ConcatProperties
  <2> QED
    BY <2>1, <1>1
<1>5. \A i \in 1..m+n : (f \o g)[i] = h[i]
  <2> SUFFICES ASSUME NEW i \in 1..m+n PROVE (f \o g)[i] = h[i]
    OBVIOUS
  <2>1. CASE i <= m
    BY <1>4, <2>1
  <2>2. CASE ~(i <= m)
    <3> DEFINE j == i - m
    <3>1. j \in 1..n /\ m + j = i
      BY <2>2
    <3>2. (f \o g)[i] = g[j]
      BY <1>4, <2>2
    <3> HIDE DEF j
    <3> QED
      BY <3>1, <3>2
  <2> QED
    BY <2>1, <2>2
<1> QED
  BY <1>2, <1>3, <1>4, <1>5, SeqEqual

LEMMA SubSeqIs ==
    ASSUME NEW a \in Int, NEW b \in Int, NEW n \in Nat, NEW f, NEW h,
           n = b - a + 1,
           HasLen(h, n),
           \A i \in 1..n : h[i] = f[a + i - 1]
    PROVE  SubSeq(f, a, b) = h
<1> DEFINE U == {h[i] : i \in 1..n}
<1>1. h \in Seq(U) /\ Len(h) = n
  BY IsSequence
<1>2. \A j \in a..b : f[j] \in U
  <2> SUFFICES ASSUME NEW j \in a..b PROVE f[j] \in U
    OBVIOUS
  <2>1. j - a + 1 \in 1..n /\ a + (j - a + 1) - 1 = j
    OBVIOUS
  <2>2. h[j - a + 1] = f[j]
    BY <2>1
  <2> QED
    BY <2>1, <2>2
<1> HIDE DEF U
<1>3. /\ SubSeq(f, a, b) \in Seq(U)
      /\ Len(SubSeq(f, a, b)) = (IF a <= b THEN b-a+1 ELSE 0)
      /\ \A i \in 1..b-a+1 : SubSeq(f, a, b)[i] = f[a+i-1]
  BY <1>2, SubSeqProperties
<1>4. Len(SubSeq(f, a, b)) = n
  BY <1>3
<1> QED
  BY <1>1, <1>3, <1>4, SeqEqual

\* One of n equal parts of p, and n - 1 or n - 2 of them.
LEMMA EqualParts ==
    ASSUME NEW p \in Nat, NEW n \in Nat \ {0}, p % n = 0
    PROVE  /\ p = n * (p \div n)
           /\ (p * (n - 1)) \div n = p - p \div n
           /\ (p \div n) * (n - 1) = p - p \div n
           /\ n > 1 => (p * (n - 2)) \div n = p - p \div n - p \div n
           /\ p \div n \in Nat /\ p \div n <= p
<1> DEFINE q == p \div n  r == p % n
<1>1. p = n * q + r /\ q \in Int /\ r = 0
  BY DivMod
<1>2. q \in Nat
  BY DivNat
<1> HIDE DEF q, r
<1>3. p = n * q
  BY <1>1, <1>2
<1>4. p * (n - 1) = n * (q * (n - 1)) /\ q * (n - 1) = p - q /\ q * (n - 1) \in Nat
  <2>1. n - 1 \in Nat
    OBVIOUS
  <2>2. q * (n - 1) \in Nat
    BY <2>1, <1>2, TimesNat
  <2>3. q * (n - 1) = q * n - q /\ q * n = p
    BY <1>2, <1>3
  <2>4. p * (n - 1) = n * (q * (n - 1))
    BY <1>2, <1>3
  <2> QED
    BY <2>2, <2>3, <2>4
<1>5. (p * (n - 1)) \div n = p - q
  BY <1>4, DivTimes
<1>6. ASSUME n > 1
      PROVE  (p * (n - 2)) \div n = p - q - q
  <2>1. n - 2 \in Nat
    BY <1>6
  <2>2. q * (n - 2) \in Nat
    BY <2>1, <1>2, TimesNat
  <2>3. q * (n - 2) = q * n - q - q /\ q * n = p
    BY <1>2, <1>3
  <2>4. p * (n - 2) = n * (q * (n - 2))
    BY <1>2, <1>3
  <2>5. (n * (q * (n - 2))) \div n = q * (n - 2)
    BY <2>2, DivTimes
  <2> QED
    BY <2>3, <2>4, <2>5
<1>7. q <= p
  BY <1>4, <1>2
<1> QED
  BY <1>2, <1>3, <1>4, <1>5, <1>6, <1>7 DEF q

LEMMA DivAntitone ==
    ASSUME NEW p \in Nat, NEW n \in Nat \ {0}, NEW s \in Nat \ {0}, n <= s
    PROVE  p \div s <= p \div n
<1> DEFINE q == p \div s  r == p % s
<1>1. p = s * q + r /\ r \in 0..s-1
  BY DivMod
<1>2. q \in Nat
  BY DivNat
<1> HIDE DEF q, r
<1>3. n * q <= s * q /\ n * q \in Nat /\ s * q \in Nat
  BY <1>2, TimesMonotone, TimesNat
<1>4. n * q <= p
  BY <1>1, <1>3
<1>5. (n * q) \div n <= p \div n
  BY <1>3, <1>4, DivMonotone
<1>6. (n * q) \div n = q
  BY <1>2, DivTimes
<1> QED
  BY <1>5, <1>6 DEF q

LEMMA Cancel ==
    ASSUME NEW a \in Int, NEW b \in Int, NEW k \in Nat \ {0}, k * a <= k * b
    PROVE  a <= b
OBVIOUS

LEMMA DivFloor ==
    ASSUME NEW a \in Nat, NEW n \in Nat \ {0}
    PROVE  n * (a \div n) <= a
<1> DEFINE q == a \div n  r == a % n
<1>1. a = n * q + r /\ r \in 0..n-1 /\ q \in Int
  BY DivMod
<1> HIDE DEF q, r
<1>2. n * q <= a
  BY <1>1
<1> QED
  BY <1>2 DEF q

LEMMA DivBelow ==
    ASSUME NEW a \in Nat, NEW b \in Nat, NEW n \in Nat \ {0}, a <= n * b
    PROVE  a \div n <= b
<1>1. n * b \in Nat
  BY TimesNat
<1>2. a \div n <= (n * b) \div n
  BY <1>1, DivMonotone
<1> QED
  BY <1>2, DivTimes

\* A step x of d that does not lie after k - 1 of k samples.
LEMMA BeforeLastSample ==
    ASSUME NEW x \in Nat, NEW d \in Nat \ {0}, NEW k \in Nat \ {0}, NEW p \in Nat,
           x * k <= (k - 1) * d
    PROVE  (x * p) \div d <= p - p \div k
<1> DEFINE q == p \div k
<1>1. q \in Nat /\ k * q <= p
  BY DivNat, DivFloor
<1> HIDE DEF q
<1>2. q <= k * q
  BY <1>1
<1>3. p - q \in Nat
  BY <1>1, <1>2
<1>4. (x * k) * p <= ((k - 1) * d) * p
  <2>1. x * k \in Nat /\ (k - 1) * d \in Nat
    <3>1. k - 1 \in Nat
      OBVIOUS
    <3> QED
      BY <3>1, TimesNat
  <2> QED
    BY <2>1, TimesMonotone
<1>5. (x * k) * p = k * (x * p)
  OBVIOUS
<1>6. ((k - 1) * d) * p = k * (d * p) - d * p
  OBVIOUS
<1>7. (k * q) * d <= p * d
  BY <1>1, TimesMonotone, TimesNat
<1>8. (k * q) * d = k * (d * q) /\ p * d = d * p
  BY <1>1
<1>9. d * (p - q) = d * p - d * q
  BY <1>1
<1>10. k * (d * p - d * q) = k * (d * p) - k * (d * q)
  BY <1>1
<1> DEFINE A == x * p  B == d * p  D == d * q
<1>11. A \in Nat /\ B \in Nat /\ D \in Nat
  BY <1>1, TimesNat
<1>12. k * A <= k * (B - D)
  <2> DEFINE kA == k * A  kB == k * B  kD == k * D
  <2>1. kA <= kB - B /\ kD <= B
    BY <1>4, <1>5, <1>6, <1>7, <1>8
  <2>2. kA \in Nat /\ kB \in Nat /\ kD \in Nat
    BY <1>11, TimesNat
  <2>3. k * (B - D) = kB - kD
    BY <1>10
  <2> HIDE DEF kA, kB, kD, A, B, D
  <2>4. kA <= kB - kD
    BY <2>1, <2>2, <1>11
  <2> QED
    BY <2>3, <2>4 DEF kA
<1>13. A <= B - D
  <2> HIDE DEF A, B, D
  <2> QED
    BY <1>11, <1>12, Cancel
<1>14. A <= d * (p - q)
  BY <1>13, <1>9
<1>15. A \div d <= p - q
  <2> HIDE DEF A
  <2> QED
    BY <1>3, <1>11, <1>14, DivBelow
<1> QED
  BY <1>15 DEF q

\* Of two fractions the smaller one gives the earlier time.
LEMMA FractionsOrdered ==
    ASSUME NEW a \in Nat, NEW c \in Nat \ {0}, NEW x \in Nat, NEW d \in Nat \ {0}, NEW p \in Nat,
           a * d <= x * c
    PROVE  (a * p) \div c <= (x * p) \div d
<1> DEFINE A == a * p  X == x * p  u == A \div c
<1>1. A \in Nat /\ X \in Nat
  BY TimesNat
<1>2. u \in Nat /\ c * u <= A
  BY <1>1, DivNat, DivFloor
<1>3. (a * d) * p <= (x * c) * p
  BY TimesMonotone, TimesNat
<1>4. (a * d) * p = A * d /\ (x * c) * p = c * X
  OBVIOUS
<1> HIDE DEF A, X, u
<1>5. (c * u) * d <= A * d /\ c * u \in Nat
  BY <1>1, <1>2, TimesMonotone, TimesNat
<1>6. (c * u) * d = c * (d * u) /\ d * u \in Nat
  BY <1>2, TimesNat
<1>7. c * (d * u) <= c * X
  <2> DEFINE e == A * d  f == c * X  g == c * (d * u)
  <2>1. e \in Nat /\ f \in Nat /\ g \in Nat
    BY <1>1, <1>6, TimesNat
  <2>2. e <= f /\ g <= e
    BY <1>3, <1>4, <1>5, <1>6
  <2> HIDE DEF e, f, g
  <2>3. g <= f
    BY <2>1, <2>2
  <2> QED
    BY <2>3 DEF f, g
<1>8. d * u <= X
  BY <1>1, <1>6, <1>7, Cancel
<1>9. (d * u) \div d <= X \div d
  BY <1>1, <1>6, <1>8, DivMonotone
<1>10. (d * u) \div d = u
  BY <1>2, DivTimes
<1> QED
  BY <1>9, <1>10 DEF A, X, u
===============================================================================
