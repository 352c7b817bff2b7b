---------------------------- MODULE Varint_proofs ----------------------------
(***************************************************************************)
(* What the varints of nanopb hold, for all widths that WidthAssumption    *)
(* allows.  A varint is a number written in the base Group, the lowest     *)
(* digit first; Weight(i) is what digit i + 1 counts.                      *)
(*                                                                         *)
(* pb_decode_varint32 reads the first Whole32 + 1 of the Whole64 + 1 bytes *)
(* that pb_decode_varint reads.  Of a number that fits a uint32_t the      *)
(* others are zeros (SmallAccepted).  Of a negative int32_t nearly nothing *)
(* is Missing for all bits to be set, so that the others repeat the sign   *)
(* (NegativeAccepted).                                                     *)
(***************************************************************************)
EXTENDS Varint, WellFoundedInduction, SequenceTheorems, TLAPS

(***************************************************************************)
(* Induction and recursion on the naturals, and division.                  *)
(*                                                                         *)
(* Induction is stated of sets, not of predicates, so that the provers can *)
(* instantiate it: a property is proved of the set of all that have it.    *)
(* Recursion is by a step that is a function of the index before and its   *)
(* value, in any set V of values.                                          *)
(***************************************************************************)

\* The naturals are well founded.
LEMMA NatOrder == IsWellFoundedOn({ss \in Nat \X Nat : ss[1] < ss[2]}, Nat)
  BY ONLY NatLessThanWellFounded DEF OpToRel

\* A set of naturals that is not empty has a least element.
LEMMA LeastElement ==
  ASSUME NEW T \in SUBSET Nat, T # {}
  PROVE  \E x \in T : \A y \in T : x <= y
<1> DEFINE R == {ss \in Nat \X Nat : ss[1] < ss[2]}
<1>1. IsWellFoundedOn(R, Nat)
  BY NatOrder
<1> HIDE DEF R
<1>2. PICK x \in T : \A y \in T : ~ (<<y, x>> \in R)
  BY <1>1, WFMin
<1>3. \A y \in T : ~ (y < x)
  BY <1>2 DEF R
<1> QED
  BY <1>3

\* Induction over the naturals, the property given as the set of those that
\* have it.
LEMMA SetInduction ==
  ASSUME NEW T \in SUBSET Nat, 0 \in T, \A n \in T : n + 1 \in T
  PROVE  T = Nat
<1>1. SUFFICES ASSUME Nat \ T # {} PROVE FALSE
  OBVIOUS
<1>2. PICK x \in Nat \ T : \A y \in Nat \ T : x <= y
  BY <1>1, LeastElement
<1> QED
  BY <1>2, x - 1 \in Nat

\* The same up to a bound.
LEMMA InductionUpTo ==
  ASSUME NEW T, NEW n \in Nat, 0 \in T, \A i \in 0 .. n - 1 : i \in T => i + 1 \in T
  PROVE  0 .. n \subseteq T
<1> DEFINE D == {i \in Nat : i \in 0 .. n => i \in T}
<1>1. 0 \in D /\ \A i \in D : i + 1 \in D
  OBVIOUS
<1>2. D = Nat
  <2> D \in SUBSET Nat
    OBVIOUS
  <2> HIDE DEF D
  <2> QED
    BY <1>1, SetInduction
<1> QED
  BY <1>2

\* f is the function that a definition by recursion makes, up to n.
Recursive(f, n, a, step) ==
    f[0] = a /\ \A i \in 1 .. n : f[i] = step[<<i - 1, f[i - 1]>>]

\* A recursive definition has a value on every initial part of the naturals.
LEMMA RecursionUpTo ==
  ASSUME NEW V, NEW a \in V, NEW step \in [Nat \X V -> V], NEW n \in Nat
  PROVE  \E f \in [0 .. n -> V] : Recursive(f, n, a, step)
<1> DEFINE Defined(k) == \E f \in [0 .. k -> V] : Recursive(f, k, a, step)
           T == {k \in Nat : Defined(k)}
<1>1. 0 \in T
  <2>1. [i \in 0 .. 0 |-> a] \in [0 .. 0 -> V] /\ Recursive([i \in 0 .. 0 |-> a], 0, a, step)
    BY DEF Recursive
  <2> QED
    BY <2>1
<1>2. ASSUME NEW k \in T PROVE k + 1 \in T
  <2>1. PICK f \in [0 .. k -> V] : Recursive(f, k, a, step)
    OBVIOUS
  <2> DEFINE g == [i \in 0 .. k + 1 |-> IF i = k + 1 THEN step[<<k, f[k]>>] ELSE f[i]]
  <2>2. k \in Nat /\ k \in 0 .. k /\ f[k] \in V
    OBVIOUS
  <2>3. step[<<k, f[k]>>] \in V
    BY <2>2
  <2>4. g \in [0 .. k + 1 -> V]
    BY <2>2, <2>3
  <2>5. g[0] = a
    BY <2>1, <2>2 DEF Recursive
  <2>6. ASSUME NEW i \in 1 .. k + 1 PROVE g[i] = step[<<i - 1, g[i - 1]>>]
    <3>1. i - 1 \in 0 .. k /\ g[i - 1] = f[i - 1]
      BY <2>2
    <3>2. CASE i = k + 1
      <4>1. g[i] = step[<<k, f[k]>>] /\ i - 1 = k
        BY <3>2, <2>2
      <4> HIDE DEF g
      <4> QED
        BY <3>1, <4>1
    <3>3. CASE i \in 1 .. k
      <4>1. g[i] = f[i]
        BY <3>3, <2>2
      <4> QED
        BY <4>1, <3>1, <3>3, <2>1 DEF Recursive
    <3> QED
      BY <3>2, <3>3, <2>2
  <2>7. Recursive(g, k + 1, a, step)
    BY <2>5, <2>6 DEF Recursive
  <2> HIDE DEF g
  <2>8. Defined(k + 1)
    BY <2>4, <2>7
  <2> HIDE DEF Defined
  <2> QED
    BY <2>2, <2>8
<1>3. T = Nat
  <2>1. T \in SUBSET Nat
    OBVIOUS
  <2> HIDE DEF T
  <2> QED
    BY <2>1, <1>1, <1>2, SetInduction
<1> QED
  BY <1>3

\* Two such functions agree where the shorter ends.
LEMMA RecursionUnique ==
  ASSUME NEW a, NEW step, NEW m \in Nat, NEW n \in Nat, m <= n,
         NEW f, Recursive(f, m, a, step), NEW g, Recursive(g, n, a, step)
  PROVE  f[m] = g[m]
<1> DEFINE D == {i \in 0 .. m : f[i] # g[i]}
<1>1. SUFFICES ASSUME D # {} PROVE FALSE
  OBVIOUS
<1>2. PICK x \in D : \A y \in D : x <= y
  <2>1. D \in SUBSET Nat
    OBVIOUS
  <2> HIDE DEF D
  <2> QED
    BY <1>1, <2>1, LeastElement
<1>3. x \in 1 .. m
  BY DEF Recursive
<1>4. x - 1 \in 0 .. m /\ x - 1 \notin D
  BY <1>2, <1>3
<1>5. f[x - 1] = g[x - 1]
  BY <1>4
<1>6. f[x] = step[<<x - 1, f[x - 1]>>] /\ g[x] = step[<<x - 1, g[x - 1]>>]
  BY <1>3 DEF Recursive
<1> QED
  BY <1>5, <1>6

RecursiveOnNat(f, a, step) ==
    f[0] = a /\ \A i \in Nat \ {0} : f[i] = step[<<i - 1, f[i - 1]>>]

\* A definition by recursion on the naturals has a value.
LEMMA RecursionOnNat ==
  ASSUME NEW V, NEW a \in V, NEW step \in [Nat \X V -> V]
  PROVE  \E f \in [Nat -> V] : RecursiveOnNat(f, a, step)
<1> DEFINE part == [k \in Nat |-> CHOOSE f \in [0 .. k -> V] : Recursive(f, k, a, step)]
           h == [k \in Nat |-> part[k][k]]
<1>1. ASSUME NEW k \in Nat
      PROVE  part[k] \in [0 .. k -> V] /\ Recursive(part[k], k, a, step)
  <2>1. \E f \in [0 .. k -> V] : Recursive(f, k, a, step)
    BY RecursionUpTo
  <2>2. part[k] = CHOOSE f \in [0 .. k -> V] : Recursive(f, k, a, step)
    OBVIOUS
  <2> HIDE DEF part
  <2> QED
    BY <2>1, <2>2
<1> HIDE DEF part
<1>2. h \in [Nat -> V]
  BY <1>1
<1>3. h[0] = a
  BY <1>1 DEF Recursive
<1>4. ASSUME NEW i \in Nat \ {0} PROVE h[i] = step[<<i - 1, h[i - 1]>>]
  <2>1. i - 1 \in Nat /\ i \in Nat /\ i - 1 <= i
    OBVIOUS
  <2>2. part[i - 1][i - 1] = part[i][i - 1]
    <3>1. ASSUME NEW k \in Nat, NEW n \in Nat, k <= n PROVE part[k][k] = part[n][k]
      <4>1. Recursive(part[k], k, a, step) /\ Recursive(part[n], n, a, step)
        BY <1>1
      <4> QED
        BY ONLY <3>1, <4>1, RecursionUnique
    <3> QED
      BY <2>1, <3>1
  <2>3. part[i][i] = step[<<i - 1, part[i][i - 1]>>]
    BY <1>1 DEF Recursive
  <2> QED
    BY <2>1, <2>2, <2>3
<1> QED
  BY <1>2, <1>3, <1>4 DEF RecursiveOnNat

-----------------------------------------------------------------------------
\* Quotient and remainder of a division.
LEMMA DivMod ==
  ASSUME NEW v \in Nat, NEW m \in Nat \ {0}
  PROVE  /\ v = m * (v \div m) + (v % m)
         /\ v % m \in 0 .. m - 1
         /\ v \div m \in Nat
  OBVIOUS

\* They are the only ones.
LEMMA DivUnique ==
  ASSUME NEW m \in Nat \ {0}, NEW q \in Nat, NEW r \in 0 .. m - 1
  PROVE  (m * q + r) \div m = q /\ (m * q + r) % m = r
<1> DEFINE v == m * q + r
           p == v \div m
           s == v % m
<1>1. v \in Nat
  OBVIOUS
<1>2. v = m * p + s /\ s \in 0 .. m - 1 /\ p \in Nat
  BY <1>1, DivMod
<1>3. m * (p - q) = r - s
  BY <1>2
<1> HIDE DEF p, s, v
<1>4. p - q = 0
  <2>1. CASE p - q >= 1
    <3>1. m * (p - q) >= m
      BY <2>1, <1>2
    <3> QED
      BY <3>1, <1>2, <1>3
  <2>2. CASE p - q <= -1
    <3>1. m * (q - p) >= m
      BY <2>2, <1>2
    <3>2. m * (q - p) = s - r
      BY <1>2, <1>3
    <3> QED
      BY <3>1, <3>2, <1>2
  <2> QED
    BY <2>1, <2>2, <1>2
<1>5. p = q /\ s = r
  BY <1>2, <1>3, <1>4
<1> QED
  BY <1>5 DEF p, s, v

\* Neither factor is zero, nor is the product.
LEMMA ProductPositive ==
  ASSUME NEW a \in Nat \ {0}, NEW b \in Nat \ {0}
  PROVE  a * b \in Nat \ {0}
  OBVIOUS

\* To divide by a product is to divide by one factor after the other.
LEMMA Regroup ==
  ASSUME NEW v \in Nat, NEW a \in Nat \ {0}, NEW b \in Nat \ {0}
  PROVE  /\ (v \div a) \div b = v \div (a * b)
         /\ v % (a * b) = (v % a) + a * ((v \div a) % b)
<1> DEFINE p == v \div a
           q == p \div b
           r == p % b
           s == v % a
<1>1. v = a * p + s /\ s \in 0 .. a - 1 /\ p \in Nat
  BY DivMod
<1>2. p = b * q + r /\ r \in 0 .. b - 1 /\ q \in Nat
  <2> HIDE DEF p
  <2> QED
    BY <1>1, DivMod
<1> HIDE DEF p, q, r, s
<1>3. v = (a * b) * q + (a * r + s)
  BY <1>1, <1>2
<1>4. a * r + s \in 0 .. a * b - 1
  <2>1. a * r <= a * (b - 1)
    BY <1>2
  <2>2. a * r >= 0
    BY <1>2
  <2> QED
    BY <1>1, <1>2, <2>1, <2>2
<1> DEFINE m == a * b
           w == a * r + s
<1>5. m \in Nat \ {0}
  BY ProductPositive
<1>6. v = m * q + w /\ w \in 0 .. m - 1
  BY <1>3, <1>4
<1> HIDE DEF m, w
<1>7. v \div m = q /\ v % m = w
  BY <1>5, <1>6, <1>2, DivUnique
<1> QED
  BY <1>7 DEF m, w, p, q, r, s

\* What is smaller than the divisor is the remainder.
LEMMA DivSmall ==
  ASSUME NEW v \in Nat, NEW m \in Nat \ {0}
  PROVE  (v \div m = 0 <=> v < m) /\ (v < m => v % m = v)
<1>1. CASE v < m
  <2>1. v = m * 0 + v
    OBVIOUS
  <2>2. (m * 0 + v) \div m = 0 /\ (m * 0 + v) % m = v
    BY <1>1, DivUnique
  <2> QED
    BY <2>1, <2>2, <1>1
<1>2. CASE v >= m
  <2>1. v = m * (v \div m) + (v % m) /\ v % m \in 0 .. m - 1 /\ v \div m \in Nat
    BY DivMod
  <2>2. v \div m = 0 => m * (v \div m) = 0
    OBVIOUS
  <2> QED
    BY <2>1, <2>2, <1>2
<1> QED
  BY <1>1, <1>2

\* A multiple of the divisor does not change the remainder.
LEMMA ModMultiple ==
  ASSUME NEW v \in Nat, NEW m \in Nat \ {0}, NEW k \in Nat
  PROVE  (v + m * k) % m = v % m
<1> DEFINE q == v \div m
           r == v % m
<1>1. v = m * q + r /\ r \in 0 .. m - 1 /\ q \in Nat
  BY DivMod
<1> HIDE DEF q, r
<1>2. v + m * k = m * (q + k) + r
  BY <1>1
<1>3. (m * (q + k) + r) % m = r
  BY <1>1, q + k \in Nat, DivUnique
<1> QED
  BY <1>2, <1>3 DEF r

\* A further digit, of a higher weight, on top of what is below that weight.
LEMMA Positional ==
  ASSUME NEW w \in Nat \ {0}, NEW g \in Nat \ {0}, NEW r \in Nat, NEW d \in 0 .. g - 1
  PROVE  /\ d * w \in Nat /\ r <= r + d * w
         /\ r < w => r + d * w < w * g
<1>1. d * w \in Nat
  OBVIOUS
<1>2. d * w <= (g - 1) * w
  OBVIOUS
<1>3. (g - 1) * w = w * g - w /\ w * g \in Nat
  OBVIOUS
<1> DEFINE p == d * w
           q == w * g
<1>4. p <= q - w /\ p \in Nat /\ q \in Nat
  BY <1>1, <1>2, <1>3
<1> HIDE DEF p, q
<1>5. r <= r + p /\ (r < w => r + p < q)
  BY <1>4
<1> QED
  BY <1>4, <1>5 DEF p, q

-----------------------------------------------------------------------------
(* Bytes and their weights                                                 *)

\* The recursive function Pow2 computes what its definition says.
LEMMA Pow2Defined ==
  /\ Pow2 \in [Nat -> Nat]
  /\ Pow2[0] = 1
  /\ \A n \in Nat \ {0} : Pow2[n] = 2 * Pow2[n - 1]
<1> DEFINE step == [p \in Nat \X Nat |-> 2 * p[2]]
<1>1. PICK f \in [Nat -> Nat] : RecursiveOnNat(f, 1, step)
  <2>1. step \in [Nat \X Nat -> Nat] /\ 1 \in Nat
    OBVIOUS
  <2> HIDE DEF step
  <2> QED
    BY <2>1, RecursionOnNat, Zenon
<1>2. \A i \in Nat \ {0} : f[i] = 2 * f[i - 1]
  <2> TAKE i \in Nat \ {0}
  <2>1. <<i - 1, f[i - 1]>> \in Nat \X Nat
    OBVIOUS
  <2> QED
    BY <1>1, <2>1 DEF RecursiveOnNat
<1> HIDE DEF step
<1>3. f = [n \in Nat |-> IF n = 0 THEN 1 ELSE 2 * f[n - 1]]
  BY <1>1, <1>2 DEF RecursiveOnNat
<1>4. Pow2 = [n \in Nat |-> IF n = 0 THEN 1 ELSE 2 * Pow2[n - 1]]
  BY <1>3, Zenon DEF Pow2
<1> QED
  <2> DEFINE T == {n \in Nat : Pow2[n] \in Nat}
  <2>1. 0 \in T /\ \A n \in T : n + 1 \in T
    BY <1>4
  <2>2. T = Nat
    <3> T \in SUBSET Nat
      OBVIOUS
    <3> HIDE DEF T
    <3> QED
      BY <2>1, SetInduction
  <2>3. \A n \in Nat : Pow2[n] \in Nat
    BY <2>2
  <2> QED
    BY <1>4, <2>3

\* No shift of 1 is zero, as the constants have no bound.
LEMMA Pow2Positive == \A n \in Nat : Pow2[n] \in Nat \ {0}
<1> DEFINE T == {n \in Nat : Pow2[n] \in Nat \ {0}}
<1>1. 0 \in T /\ \A n \in T : n + 1 \in T
  BY Pow2Defined
<1>2. T = Nat
  <2> T \in SUBSET Nat
    OBVIOUS
  <2> HIDE DEF T
  <2> QED
    BY <1>1, SetInduction
<1> QED
  BY <1>2

\* A shift by a sum is one shift after the other.
LEMMA Pow2Add == \A a, b \in Nat : Pow2[a + b] = Pow2[a] * Pow2[b]
<1> DEFINE T == {b \in Nat : \A a \in Nat : Pow2[a + b] = Pow2[a] * Pow2[b]}
<1>1. 0 \in T
  BY Pow2Defined
<1>2. ASSUME NEW b \in T PROVE b + 1 \in T
  <2>1. ASSUME NEW a \in Nat PROVE Pow2[a + (b + 1)] = Pow2[a] * Pow2[b + 1]
    <3>1. Pow2[a + (b + 1)] = 2 * Pow2[a + b] /\ Pow2[b + 1] = 2 * Pow2[b]
      BY Pow2Defined
    <3>2. Pow2[a + b] = Pow2[a] * Pow2[b]
      OBVIOUS
    <3>3. Pow2[a] \in Nat /\ Pow2[b] \in Nat
      BY Pow2Defined
    <3> QED
      BY <3>1, <3>2, <3>3
  <2> QED
    BY <2>1
<1>3. T = Nat
  <2> T \in SUBSET Nat
    OBVIOUS
  <2> HIDE DEF T
  <2> QED
    BY <1>1, <1>2, SetInduction
<1> QED
  BY <1>3

\* A power of two exceeds its exponent.
LEMMA Pow2Grows == \A n \in Nat : n < Pow2[n]
<1> DEFINE T == {n \in Nat : n < Pow2[n]}
<1>1. 0 \in T /\ \A n \in T : n + 1 \in T
  BY Pow2Defined
<1>2. T = Nat
  <2> T \in SUBSET Nat
    OBVIOUS
  <2> HIDE DEF T
  <2> QED
    BY <1>1, SetInduction
<1> QED
  BY <1>2

\* A longer shift gives the larger number, and a multiple of the smaller one.
LEMMA Pow2Monotone ==
  ASSUME NEW a \in Nat, NEW b \in Nat, a <= b
  PROVE  /\ Pow2[a] <= Pow2[b]
         /\ a < b => 2 * Pow2[a] <= Pow2[b]
         /\ Pow2[b] = Pow2[b - a] * Pow2[a]
<1>1. b - a \in Nat /\ Pow2[b] = Pow2[b - a] * Pow2[a]
  BY Pow2Add
<1>2. Pow2[b - a] \in Nat \ {0} /\ Pow2[a] \in Nat \ {0}
  BY <1>1, Pow2Positive
<1>3. a < b => Pow2[b - a] >= 2
  BY <1>1, Pow2Defined, Pow2Positive
<1> DEFINE p == Pow2[b - a]
           q == Pow2[a]
<1>4. p * q >= q
  <2> HIDE DEF p, q
  <2> QED
    BY <1>2 DEF p, q
<1>5. p >= 2 => p * q >= 2 * q
  <2> HIDE DEF p, q
  <2> QED
    BY <1>2 DEF p, q
<1> QED
  BY <1>1, <1>2, <1>3, <1>4, <1>5

\* What WidthAssumption says of the whole bytes of a type and the bits left over.
LEMMA Widths ==
  /\ {GroupBits, Bits32, Bits64} \subseteq Nat \ {0}
  /\ Bits32 = GroupBits * (Bits32 \div GroupBits) + (Bits32 % GroupBits)
  /\ Bits64 = GroupBits * (Bits64 \div GroupBits) + (Bits64 % GroupBits)
  /\ Bits32 % GroupBits \in 1 .. GroupBits - 1
  /\ Bits64 % GroupBits \in 1 .. GroupBits - 1
  /\ Bits32 \div GroupBits \in Nat \ {0}
  /\ Bits64 \div GroupBits \in Nat \ {0}
  /\ LastPos(Bits32) = GroupBits * (Bits32 \div GroupBits)
  /\ LastPos(Bits64) = GroupBits * (Bits64 \div GroupBits)
  /\ Bits32 <= LastPos(Bits64)
  /\ Bits32 \div GroupBits < Bits64 \div GroupBits
<1> DEFINE F32 == Bits32 \div GroupBits
           F64 == Bits64 \div GroupBits
           R32 == Bits32 % GroupBits
           R64 == Bits64 % GroupBits
<1>1. /\ {GroupBits, Bits32, Bits64} \subseteq Nat \ {0}
      /\ GroupBits < Bits32
      /\ R32 # 0 /\ R64 # 0
      /\ LastPos(Bits32) = Bits32 - R32
      /\ LastPos(Bits64) = Bits64 - R64
      /\ Bits32 <= LastPos(Bits64)
  BY WidthAssumption DEF LastPos
<1>2. /\ Bits32 = GroupBits * F32 + R32 /\ R32 \in 0 .. GroupBits - 1 /\ F32 \in Nat
      /\ Bits64 = GroupBits * F64 + R64 /\ R64 \in 0 .. GroupBits - 1 /\ F64 \in Nat
  BY <1>1, DivMod
<1> HIDE DEF F32, F64, R32, R64
<1>3. F32 # 0
  <2>1. F32 = 0 => GroupBits * F32 = 0
    BY <1>1
  <2> QED
    BY <1>1, <1>2, <2>1
<1>4. F32 < F64
  <2>1. SUFFICES ASSUME F64 <= F32 PROVE FALSE
    BY <1>2
  <2>2. GroupBits * F64 <= GroupBits * F32
    BY <1>1, <1>2, <2>1
  <2> QED
    BY <1>1, <1>2, <2>2
<1>5. F64 # 0
  BY <1>2, <1>4
<1>6. /\ R32 \in 1 .. GroupBits - 1 /\ R64 \in 1 .. GroupBits - 1
      /\ F32 \in Nat \ {0} /\ F64 \in Nat \ {0}
      /\ LastPos(Bits32) = GroupBits * F32 /\ LastPos(Bits64) = GroupBits * F64
  BY <1>1, <1>2, <1>3, <1>5
<1> QED
  BY <1>1, <1>2, <1>4, <1>6 DEF F32, F64, R32, R64

\* The weight of the byte after i others.
Weight(i) == Pow2[GroupBits * i]

\* The weights of successive bytes are the powers of a group.
LEMMA Weights ==
  /\ Group \in Nat \ {0} /\ Group >= 2
  /\ Weight(0) = 1
  /\ \A i \in Nat : Weight(i) \in Nat \ {0} /\ Weight(i + 1) = Weight(i) * Group
  /\ \A i \in Nat \ {0} : Pow2[BitPos(i)] = Weight(i - 1) /\ BitPos(i) \in Nat
<1>1. GroupBits \in Nat \ {0}
  BY Widths
<1>2. Group \in Nat \ {0} /\ Group >= 2
  BY <1>1, Pow2Defined, Pow2Positive, GroupBits - 1 \in Nat DEF Group
<1>3. ASSUME NEW i \in Nat
      PROVE  /\ GroupBits * i \in Nat
             /\ Weight(i) \in Nat \ {0} /\ Weight(i + 1) = Weight(i) * Group
  <2>1. GroupBits * i \in Nat /\ GroupBits * (i + 1) = GroupBits * i + GroupBits
    BY <1>1
  <2> QED
    BY <1>1, <2>1, Pow2Positive, Pow2Add DEF Group, Weight
<1>4. Weight(0) = 1
  <2>1. GroupBits * 0 = 0
    BY <1>1
  <2> QED
    BY <2>1, Pow2Defined DEF Weight
<1>5. ASSUME NEW i \in Nat \ {0} PROVE Pow2[BitPos(i)] = Weight(i - 1) /\ BitPos(i) \in Nat
  BY <1>3, i - 1 \in Nat DEF BitPos, Weight
<1> QED
  BY <1>2, <1>3, <1>4, <1>5

\* A byte is its payload, and the bit that says that more follow.
LEMMA ByteFacts ==
  ASSUME NEW b \in Byte
  PROVE  /\ b \in Nat
         /\ Payload(b) \in 0 .. Group - 1
         /\ More(b) => b = Payload(b) + Group
         /\ ~More(b) => b = Payload(b)
<1>1. Group \in Nat \ {0} /\ b \in Nat /\ b < 2 * Group
  BY Weights DEF Byte
<1>2. CASE b < Group
  <2>1. b % Group = b
    BY <1>1, <1>2, DivSmall
  <2> QED
    BY <1>1, <1>2, <2>1 DEF Payload, More
<1>3. CASE b >= Group
  <2>1. b = Group * 1 + (b - Group) /\ b - Group \in 0 .. Group - 1
    BY <1>1, <1>3
  <2>2. (Group * 1 + (b - Group)) % Group = b - Group
    BY <1>1, <2>1, DivUnique
  <2> QED
    BY <1>1, <1>3, <2>1, <2>2 DEF Payload, More
<1> QED
  BY <1>1, <1>2, <1>3

\* Results computes what its definition says.
LEMMA ResultsDefined ==
  ASSUME NEW in \in Seq(Byte)
  PROVE  /\ Results(in) \in [0 .. Len(in) -> Nat]
         /\ Results(in)[0] = 0
         /\ \A i \in 1 .. Len(in) :
               Results(in)[i] = Results(in)[i - 1] + Payload(in[i]) * Pow2[BitPos(i)]
<1> DEFINE n == Len(in)
           term == [i \in Nat |-> IF i \in 1 .. n THEN Payload(in[i]) * Pow2[BitPos(i)] ELSE 0]
           step == [p \in Nat \X Nat |-> p[2] + term[p[1] + 1]]
<1>1. \A i \in 1 .. n : term[i] = Payload(in[i]) * Pow2[BitPos(i)] /\ term[i] \in Nat
  <2> TAKE i \in 1 .. n
  <2>1. in[i] \in Byte /\ i \in Nat \ {0} /\ i - 1 \in Nat
    OBVIOUS
  <2>2. Payload(in[i]) \in Nat
    <3>1. Payload(in[i]) \in 0 .. Group - 1
      BY <2>1, ByteFacts
    <3> QED
      BY <3>1, Weights
  <2>4. Pow2[BitPos(i)] \in Nat
    BY <2>1, Weights
  <2>3. Payload(in[i]) * Pow2[BitPos(i)] \in Nat
    BY <2>2, <2>4
  <2> QED
    BY <2>1, <2>3
<1>2. \A i \in Nat : term[i] \in Nat
  <2> TAKE i \in Nat
  <2>1. CASE i \in 1 .. n
    BY <1>1, <2>1
  <2>2. CASE i \notin 1 .. n
    BY <2>2
  <2> QED
    BY <2>1, <2>2
<1> HIDE DEF term
<1>3. step \in [Nat \X Nat -> Nat]
  BY <1>2
<1>4. PICK f \in [0 .. n -> Nat] : Recursive(f, n, 0, step)
  <2> HIDE DEF step
  <2>1. n \in Nat
    OBVIOUS
  <2>2. \A a \in Nat : \E f \in [0 .. n -> Nat] : Recursive(f, n, a, step)
    BY <1>3, <2>1, RecursionUpTo
  <2> QED
    BY <2>2
<1>5. f[0] = 0 /\ \A i \in 1 .. n : f[i] = f[i - 1] + Payload(in[i]) * Pow2[BitPos(i)]
  <2>1. ASSUME NEW i \in 1 .. n PROVE f[i] = f[i - 1] + Payload(in[i]) * Pow2[BitPos(i)]
    <3>1. f[i] = step[<<i - 1, f[i - 1]>>]
      BY <1>4 DEF Recursive
    <3>2. i - 1 \in 0 .. n /\ f[i - 1] \in Nat /\ <<i - 1, f[i - 1]>> \in Nat \X Nat
      OBVIOUS
    <3>3. step[<<i - 1, f[i - 1]>>] = f[i - 1] + term[(i - 1) + 1]
      BY <3>2
    <3> QED
      BY <3>1, <3>3, <1>1
  <2> QED
    BY <2>1, <1>4 DEF Recursive
<1> HIDE DEF step
<1>6. f = [i \in 0 .. n |-> IF i = 0 THEN 0 ELSE f[i - 1] + Payload(in[i]) * Pow2[BitPos(i)]]
  BY <1>5
<1>7. Results(in) = [i \in 0 .. n |->
         IF i = 0 THEN 0 ELSE Results(in)[i - 1] + Payload(in[i]) * Pow2[BitPos(i)]]
  BY <1>6, Zenon DEF Results
<1> DEFINE r == Results(in)
<1>8. r[0] = 0 /\ \A i \in 1 .. n : r[i] = r[i - 1] + Payload(in[i]) * Pow2[BitPos(i)]
  <2> HIDE DEF r
  <2> QED
    BY <1>7 DEF r
<1>9. \A i \in 0 .. n : r[i] = f[i]
  <2> DEFINE T == {i \in Nat : i \in 0 .. n => r[i] = f[i]}
  <2>1. 0 \in T
    BY <1>5, <1>8
  <2>2. ASSUME NEW i \in T PROVE i + 1 \in T
    <3> SUFFICES ASSUME i + 1 \in 0 .. n PROVE r[i + 1] = f[i + 1]
      OBVIOUS
    <3>1. i + 1 \in 1 .. n /\ i \in 0 .. n /\ (i + 1) - 1 = i
      OBVIOUS
    <3>2. r[i] = f[i]
      BY <3>1
    <3> HIDE DEF r, T
    <3> QED
      BY <3>1, <3>2, <1>5, <1>8
  <2>3. T = Nat
    <3> T \in SUBSET Nat
      OBVIOUS
    <3> HIDE DEF T
    <3> QED
      BY <2>1, <2>2, SetInduction
  <2> QED
    BY <2>3
<1>10. DOMAIN r = 0 .. n /\ r = [i \in DOMAIN r |-> r[i]]
  <2> HIDE DEF r
  <2> QED
    BY <1>7 DEF r
<1>11. r \in [0 .. n -> Nat]
  <2> HIDE DEF r
  <2> QED
    BY <1>9, <1>10
<1> QED
  BY <1>8, <1>11

\* What is read grows, and has the bits of the bytes that were read.
LEMMA ResultsBound ==
  ASSUME NEW in \in Seq(Byte)
  PROVE  /\ \A i \in 0 .. Len(in) : Results(in)[i] < Weight(i)
         /\ \A i \in 1 .. Len(in) :
               /\ Results(in)[i] = Results(in)[i - 1] + Payload(in[i]) * Weight(i - 1)
               /\ Results(in)[i - 1] <= Results(in)[i]
<1> DEFINE n == Len(in)
           r == Results(in)
           T == {i \in 0 .. n : r[i] < Weight(i)}
<1>1. n \in Nat /\ r \in [0 .. n -> Nat] /\ r[0] = 0
  BY ResultsDefined
<1> HIDE DEF r
<1>2. ASSUME NEW i \in 1 .. n
      PROVE  /\ r[i] = r[i - 1] + Payload(in[i]) * Weight(i - 1)
             /\ r[i - 1] <= r[i]
             /\ r[i - 1] < Weight(i - 1) => r[i] < Weight(i)
  <2> DEFINE d == Payload(in[i])
             w == Weight(i - 1)
  <2>1. d \in 0 .. Group - 1
    BY ByteFacts
  <2>2. /\ i \in Nat \ {0} /\ i - 1 \in Nat /\ (i - 1) + 1 = i /\ i - 1 \in 0 .. n
    BY <1>1
  <2>3. Pow2[BitPos(i)] = w /\ w \in Nat \ {0} /\ Group \in Nat \ {0}
    BY <2>2, Weights
  <2>4. Weight((i - 1) + 1) = w * Group
    BY <2>2, Weights
  <2>5. r[i] = r[i - 1] + d * w
    BY <2>3, ResultsDefined DEF r
  <2>6. r[i - 1] \in Nat
    BY <1>1, <2>2
  <2> HIDE DEF d, w
  <2>7. r[i - 1] <= r[i] /\ (r[i - 1] < w => r[i] < w * Group)
    BY <2>1, <2>3, <2>5, <2>6, Positional
  <2> QED
    BY <2>2, <2>4, <2>5, <2>7 DEF d, w
<1>3. 0 \in T
  BY <1>1, Weights
<1>4. ASSUME NEW i \in 0 .. n - 1, i \in T PROVE i + 1 \in T
  <2>1. i + 1 \in 1 .. n /\ (i + 1) - 1 = i
    BY <1>1
  <2>2. r[i + 1] < Weight(i + 1)
    BY <1>2, <1>4, <2>1
  <2> QED
    BY <2>1, <2>2
<1>5. 0 .. n \subseteq T
  <2> HIDE DEF T
  <2> QED
    BY <1>1, <1>3, <1>4, InductionUpTo
<1> QED
  BY <1>2, <1>5 DEF r

\* Bytes that carry the digits of a value are read as the value.
LEMMA ResultsOfDigits ==
  ASSUME NEW v \in Nat, NEW in \in Seq(Byte), NEW n \in 0 .. Len(in),
         \A i \in 1 .. n : Payload(in[i]) = Digit(v, i)
  PROVE  \A i \in 0 .. n : Results(in)[i] = v % Weight(i)
<1> DEFINE r == Results(in)
           T == {i \in 0 .. n : r[i] = v % Weight(i)}
<1>1. 0 \in T
  <2>1. v % 1 = 0
    BY DivMod
  <2>2. r[0] = 0
    BY ResultsDefined
  <2>3. v % Weight(0) = 0
    BY <2>1, Weights
  <2> HIDE DEF r
  <2> QED
    BY <2>2, <2>3
<1>2. ASSUME NEW i \in 0 .. n - 1, i \in T PROVE i + 1 \in T
  <2>1. i \in Nat /\ i + 1 \in 1 .. n /\ i + 1 \in 1 .. Len(in) /\ (i + 1) - 1 = i
    OBVIOUS
  <2> DEFINE w == Weight(i)
             d == (v \div w) % Group
  <2>2. w \in Nat \ {0} /\ Group \in Nat \ {0} /\ Weight(i + 1) = w * Group
    <3>1. i \in Nat
      BY <2>1
    <3> QED
      BY <3>1, Weights, Zenon
  <2>3. Payload(in[i + 1]) = d
    <3>1. i + 1 \in Nat \ {0}
      BY <2>1
    <3>2. Pow2[BitPos(i + 1)] = w
      BY <2>1, <3>1, Weights
    <3> QED
      BY <2>1, <3>2 DEF Digit
  <2>4. r[i + 1] = r[i] + d * w
    <3>1. r[i + 1] = r[(i + 1) - 1] + Payload(in[i + 1]) * Weight((i + 1) - 1)
      BY <2>1, ResultsBound
    <3> HIDE DEF d, r
    <3> QED
      BY <2>1, <2>3, <3>1
  <2>5. r[i] = v % w
    BY <1>2
  <2> HIDE DEF w
  <2>6. v % (w * Group) = (v % w) + w * d
    BY <2>2, Regroup
  <2>7. w * d = d * w
    <3>1. d \in Nat
      BY <2>2, DivMod
    <3> HIDE DEF d
    <3> QED
      BY <3>1, <2>2
  <2> HIDE DEF d, r
  <2>8. r[i + 1] = v % Weight(i + 1)
    BY <2>2, <2>4, <2>5, <2>6, <2>7
  <2> QED
    BY <2>1, <2>8
<1>3. 0 .. n \subseteq T
  <2> n \in Nat
    OBVIOUS
  <2> HIDE DEF T
  <2> QED
    BY <1>1, <1>2, InductionUpTo
<1> QED
  BY <1>3

\* Byte n is the first that is not continued.
Ends(in, n) ==
  /\ Len(in) \in Nat /\ n \in 1 .. Len(in)
  /\ ~More(in[n]) /\ \A i \in 1 .. n - 1 : More(in[i])

\* The end of a varint is its first byte that is not continued.
LEMMA EndFound ==
  ASSUME NEW in, NEW n, Ends(in, n)
  PROVE  End(in) = n
<1>0. /\ Len(in) \in Nat /\ n \in 1 .. Len(in)
      /\ ~More(in[n]) /\ \A i \in 1 .. n - 1 : More(in[i])
  BY DEF Ends
<1>1. End(in) = CHOOSE m \in 1 .. Len(in) : ~More(in[m]) /\ \A i \in 1 .. m - 1 : More(in[i])
  BY <1>0 DEF End
<1>2. \A m \in 1 .. Len(in) :
        ~More(in[m]) /\ (\A i \in 1 .. m - 1 : More(in[i])) => m = n
  BY <1>0
<1> QED
  BY <1>0, <1>1, <1>2

\* A varint of which all bytes are continued has no end.
LEMMA EndMissing ==
  ASSUME NEW in, Len(in) \in Nat, \A i \in 1 .. Len(in) : More(in[i])
  PROVE  End(in) = 0
  BY DEF End

\* The end, where there is one, is the first byte that is not continued.
LEMMA EndDefined ==
  ASSUME NEW in, Len(in) \in Nat
  PROVE  /\ End(in) \in 0 .. Len(in)
         /\ End(in) # 0 => ~More(in[End(in)]) /\ \A i \in 1 .. End(in) - 1 : More(in[i])
<1> DEFINE ends == {i \in 1 .. Len(in) : ~More(in[i])}
<1>1. CASE ends = {}
  BY <1>1, EndMissing
<1>2. CASE ends # {}
  <2>1. PICK n \in ends : \A j \in ends : n <= j
    <3>1. ends \in SUBSET Nat
      OBVIOUS
    <3> HIDE DEF ends
    <3> QED
      BY <1>2, <3>1, LeastElement
  <2>2. End(in) = n
    <3>1. Ends(in, n)
      BY <2>1 DEF Ends
    <3> QED
      BY <3>1, EndFound
  <2>3. n \in 1 .. Len(in) /\ ~More(in[n]) /\ \A i \in 1 .. n - 1 : More(in[i])
    BY <2>1
  <2> QED
    BY <2>2, <2>3
<1> QED
  BY <1>1, <1>2

\* A digit is a group of bits of the value.
LEMMA DigitRange ==
  ASSUME NEW v \in Nat, NEW i \in Nat \ {0}
  PROVE  /\ Digit(v, i) = (v \div Weight(i - 1)) % Group
         /\ Digit(v, i) \in 0 .. Group - 1
<1>1. Pow2[BitPos(i)] = Weight(i - 1) /\ Weight(i - 1) \in Nat \ {0} /\ Group \in Nat \ {0}
  BY Weights, i - 1 \in Nat
<1>2. v \div Weight(i - 1) \in Nat
  BY <1>1, DivMod
<1>3. (v \div Weight(i - 1)) % Group \in 0 .. Group - 1
  BY <1>1, <1>2, DivMod
<1> QED
  BY <1>1, <1>3 DEF Digit

\* A function on the first naturals is a sequence.
LEMMA FunctionIsSeq ==
  ASSUME NEW S, NEW n \in Nat, NEW s \in [1 .. n -> S]
  PROVE  s \in Seq(S) /\ Len(s) = n /\ DOMAIN s = 1 .. n
<1>1. s \in Seq(S)
  BY SeqDef
<1> QED
  BY <1>1

\* Groups that are linked are bytes, of which only the last is not continued.
LEMMA LinkedBytes ==
  ASSUME NEW n \in Nat \ {0}, NEW s, s \in [1 .. n -> 0 .. Group - 1]
  PROVE  /\ Linked(s) \in Seq(Byte)
         /\ Len(Linked(s)) = n
         /\ \A i \in 1 .. n : /\ Payload(Linked(s)[i]) = s[i]
                              /\ More(Linked(s)[i]) <=> i < n
<1>1. Len(s) = n /\ DOMAIN s = 1 .. n
  BY FunctionIsSeq
<1>2. Linked(s) = [i \in 1 .. n |-> IF i < n THEN Continued(s[i]) ELSE s[i]]
  BY <1>1 DEF Linked
<1>3. Group \in Nat \ {0}
  BY Weights
<1>4. ASSUME NEW i \in 1 .. n
      PROVE  /\ Linked(s)[i] \in Byte
             /\ Payload(Linked(s)[i]) = s[i]
             /\ More(Linked(s)[i]) <=> i < n
  <2>1. s[i] \in 0 .. Group - 1
    OBVIOUS
  <2>2. Linked(s)[i] = IF i < n THEN s[i] + Group ELSE s[i]
    BY <1>2 DEF Continued
  <2>3. Linked(s)[i] \in Byte /\ (More(Linked(s)[i]) <=> i < n)
    BY <1>3, <2>1, <2>2 DEF Byte, More
  <2>4. Payload(Linked(s)[i]) = s[i]
    BY <1>3, <2>1, <2>2, <2>3, ByteFacts
  <2> QED
    BY <2>3, <2>4
<1>5. Linked(s) \in [1 .. n -> Byte]
  BY <1>2, <1>4
<1>6. Linked(s) \in Seq(Byte) /\ Len(Linked(s)) = n
  BY <1>5
<1> QED
  BY <1>4, <1>6

\* The n bytes carry the digits of the value, and end with the last of them.
IsVarint(s, n, v) ==
  /\ s \in Seq(Byte) /\ Len(s) = n
  /\ \A i \in 1 .. n : Payload(s[i]) = Digit(v, i) /\ (More(s[i]) <=> i < n)

\* A varint of n bytes, with what follows it, is read as its value.
LEMMA ReadBack ==
  ASSUME NEW v \in Nat, NEW n \in Nat \ {0}, NEW tail \in Seq(Byte),
         NEW s, IsVarint(s, n, v)
  PROVE  /\ s \o tail \in Seq(Byte)
         /\ End(s \o tail) = n
         /\ Results(s \o tail)[n] = v % Weight(n)
         /\ After(s \o tail, n) = tail
<1> DEFINE in == s \o tail
<1>0. /\ s \in Seq(Byte) /\ Len(s) = n /\ n \in Nat \ {0}
      /\ \A i \in 1 .. n : Payload(s[i]) = Digit(v, i) /\ (More(s[i]) <=> i < n)
  BY DEF IsVarint
<1>1. /\ in \in Seq(Byte) /\ Len(in) = n + Len(tail) /\ Len(tail) \in Nat
      /\ \A i \in 1 .. n : in[i] = s[i]
      /\ \A i \in 1 .. Len(tail) : in[n + i] = tail[i]
  BY <1>0
<1> HIDE DEF in
<1>2. End(in) = n
  <2>1. Len(in) \in Nat /\ n \in 1 .. Len(in)
    BY <1>0, <1>1
  <2>2. ~More(in[n])
    BY <1>0, <1>1
  <2>3. ASSUME NEW i \in 1 .. n - 1 PROVE More(in[i])
    <3>1. i \in 1 .. n /\ i < n
      BY <1>0
    <3> QED
      BY <1>0, <1>1, <3>1
  <2> QED
    BY <2>1, <2>2, <2>3, EndFound DEF Ends
<1>3. Results(in)[n] = v % Weight(n)
  <2>1. n \in 0 .. Len(in) /\ \A i \in 1 .. n : Payload(in[i]) = Digit(v, i)
    BY <1>0, <1>1
  <2>2. \A i \in 0 .. n : Results(in)[i] = v % Weight(i)
    BY <1>1, <2>1, ResultsOfDigits
  <2>3. n \in 0 .. n
    OBVIOUS
  <2> QED
    BY <2>2, <2>3
<1>4. After(in, n) = tail
  <2>1. After(in, n) \in Seq(Byte) /\ Len(After(in, n)) = Len(tail)
    BY <1>1 DEF After
  <2>2. \A i \in 1 .. Len(tail) : After(in, n)[i] = tail[i]
    BY <1>1 DEF After
  <2> QED
    BY <2>1, <2>2, SeqEqual, Zenon
<1> QED
  BY <1>1, <1>2, <1>3, <1>4 DEF in

\* Weights multiply, grow, and exceed their index.
LEMMA WeightsGrow ==
  ASSUME NEW a \in Nat, NEW b \in Nat
  PROVE  /\ Weight(a + b) = Weight(a) * Weight(b)
         /\ a <= b => Weight(a) <= Weight(b)
         /\ a < Weight(a)
<1>1. GroupBits \in Nat \ {0}
  BY Widths
<1>2. /\ GroupBits * a \in Nat /\ GroupBits * b \in Nat
      /\ GroupBits * (a + b) = GroupBits * a + GroupBits * b
      /\ a <= GroupBits * a
      /\ a <= b => GroupBits * a <= GroupBits * b
  BY <1>1
<1>3. Weight(a + b) = Weight(a) * Weight(b)
  BY <1>2, Pow2Add DEF Weight
<1>4. a <= b => Weight(a) <= Weight(b)
  BY <1>2, Pow2Monotone DEF Weight
<1>5. a < Weight(a)
  <2>1. a < Pow2[a] /\ Pow2[a] <= Pow2[GroupBits * a]
    BY <1>2, Pow2Grows, Pow2Monotone
  <2> DEFINE p == Pow2[a]
             q == Pow2[GroupBits * a]
  <2>2. p \in Nat /\ q \in Nat
    BY <1>2, Pow2Defined
  <2> HIDE DEF p, q
  <2>3. a < p /\ p <= q => a < q
    BY <2>2
  <2> QED
    BY <2>1, <2>3 DEF p, q, Weight
<1> QED
  BY <1>3, <1>4, <1>5

\* The whole bytes of the two types, and what the byte behind them has room for.
Whole32 == Bits32 \div GroupBits
Whole64 == Bits64 \div GroupBits
Room32 == Pow2[Bits32 % GroupBits]
Room64 == Pow2[Bits64 % GroupBits]
\* The least value whose highest bit is set: of a uint32_t, and in its last byte.
Sign32 == Pow2[Bits32 - 1]
SignBit == Pow2[(Bits32 % GroupBits) - 1]
\* The bits above it in that byte, all set.
SignBits == Pow2[GroupBits - (Bits32 % GroupBits) + 1]

\* Where the bytes of the two types begin and end.
LEMMA Positions ==
  /\ Whole32 \in Nat \ {0} /\ Whole64 \in Nat \ {0} /\ Whole32 + 1 <= Whole64
  /\ \A i \in Nat \ {0} :
        /\ BitPos(i) >= LastPos(Bits64) <=> i >= Whole64 + 1
        /\ BitPos(i) < Bits64 <=> i <= Whole64 + 1
        /\ BitPos(i) >= Bits32 <=> i >= Whole32 + 2
        /\ BitPos(i) = LastPos(Bits32) <=> i = Whole32 + 1
<1> DEFINE R32 == Bits32 % GroupBits
           R64 == Bits64 % GroupBits
<1>1. /\ GroupBits \in Nat \ {0}
      /\ Whole32 \in Nat \ {0} /\ Whole64 \in Nat \ {0} /\ Whole32 < Whole64
      /\ R32 \in 1 .. GroupBits - 1 /\ R64 \in 1 .. GroupBits - 1
      /\ Bits32 = GroupBits * Whole32 + R32 /\ Bits64 = GroupBits * Whole64 + R64
      /\ LastPos(Bits32) = GroupBits * Whole32 /\ LastPos(Bits64) = GroupBits * Whole64
  BY Widths DEF Whole32, Whole64
<1> HIDE DEF R32, R64
<1>2. ASSUME NEW i \in Nat \ {0}, NEW k \in Nat, NEW r \in 1 .. GroupBits - 1
      PROVE  /\ GroupBits * (i - 1) \in Nat /\ GroupBits * k \in Nat
             /\ GroupBits * (i - 1) >= GroupBits * k <=> i >= k + 1
             /\ GroupBits * (i - 1) = GroupBits * k <=> i = k + 1
             /\ GroupBits * (i - 1) < GroupBits * k + r <=> i <= k + 1
  <2> DEFINE a == i - 1
             x == GroupBits * a
             y == GroupBits * k
  <2>1. a \in Nat /\ i = a + 1
    OBVIOUS
  <2> HIDE DEF a
  <2>2. x \in Nat /\ y \in Nat
    BY <1>1, <2>1
  <2>3. a < k => x + GroupBits <= y
    <3>1. a < k => GroupBits * (a + 1) <= GroupBits * k
      BY <1>1, <2>1
    <3>2. GroupBits * (a + 1) = x + GroupBits
      BY <1>1, <2>1
    <3> QED
      BY <3>1, <3>2
  <2>4. a > k => y + GroupBits <= x
    <3>1. a > k => GroupBits * (k + 1) <= GroupBits * a
      BY <1>1, <2>1
    <3>2. GroupBits * (k + 1) = y + GroupBits
      BY <1>1
    <3> QED
      BY <3>1, <3>2
  <2>5. a = k => x = y
    OBVIOUS
  <2> HIDE DEF x, y
  <2>6. /\ x >= y <=> a >= k
        /\ x = y <=> a = k
        /\ x < y + r <=> a <= k
    BY <1>1, <2>1, <2>2, <2>3, <2>4, <2>5
  <2> QED
    BY <2>1, <2>2, <2>6 DEF x, y, a
<1>3. ASSUME NEW i \in Nat \ {0}
      PROVE  /\ BitPos(i) >= LastPos(Bits64) <=> i >= Whole64 + 1
             /\ BitPos(i) < Bits64 <=> i <= Whole64 + 1
             /\ BitPos(i) >= Bits32 <=> i >= Whole32 + 2
             /\ BitPos(i) = LastPos(Bits32) <=> i = Whole32 + 1
  <2> DEFINE x == GroupBits * (i - 1)
             y == GroupBits * Whole32
             z == GroupBits * Whole64
  <2>1. /\ x \in Nat /\ y \in Nat
        /\ x >= y <=> i >= Whole32 + 1
        /\ x = y <=> i = Whole32 + 1
        /\ x < y + R32 <=> i <= Whole32 + 1
    BY <1>1, <1>2
  <2>2. /\ z \in Nat
        /\ x >= z <=> i >= Whole64 + 1
        /\ x < z + R64 <=> i <= Whole64 + 1
    BY <1>1, <1>2
  <2>3. BitPos(i) = x /\ LastPos(Bits32) = y /\ LastPos(Bits64) = z
        /\ Bits32 = y + R32 /\ Bits64 = z + R64
    BY <1>1 DEF BitPos
  <2> HIDE DEF x, y, z
  <2> QED
    BY <1>1, <2>1, <2>2, <2>3
<1> QED
  BY <1>1, <1>3

\* What the bytes of the two types hold.
LEMMA Rooms ==
  /\ Room32 \in Nat \ {0} /\ SignBit \in Nat \ {0} /\ SignBits \in Nat \ {0} /\ Sign32 \in Nat \ {0}
  /\ Room64 \in Nat \ {0} /\ Room64 <= Group
  /\ Room64 >= 2
  /\ Max32 \in Nat \ {0} /\ Max64 \in Nat \ {0}
  /\ Max32 = Weight(Whole32) * Room32
  /\ Max64 = Weight(Whole64) * Room64
  /\ Max32 = 2 * Sign32 /\ Sign32 = Weight(Whole32) * SignBit
  /\ Group = SignBit * SignBits
  /\ Max32 <= Weight(Whole32 + 1) /\ Weight(Whole32 + 1) % Max32 = 0
<1> DEFINE R32 == Bits32 % GroupBits
           R64 == Bits64 % GroupBits
<1>1. /\ GroupBits \in Nat \ {0}
      /\ Whole32 \in Nat \ {0} /\ Whole64 \in Nat \ {0}
      /\ R32 \in 1 .. GroupBits - 1 /\ R64 \in 1 .. GroupBits - 1
      /\ Bits32 = GroupBits * Whole32 + R32 /\ Bits64 = GroupBits * Whole64 + R64
  BY Widths DEF Whole32, Whole64
<1>2. /\ Room32 = Pow2[R32] /\ Room64 = Pow2[R64]
      /\ SignBit = Pow2[R32 - 1] /\ SignBits = Pow2[GroupBits - R32 + 1]
  BY DEF Room32, Room64, SignBit, SignBits
<1> HIDE DEF R32, R64
<1>3. GroupBits * Whole32 \in Nat /\ GroupBits * Whole64 \in Nat
  BY <1>1
<1>4. /\ R32 \in Nat \ {0} /\ R64 \in Nat \ {0} /\ R32 - 1 \in Nat /\ GroupBits - R32 + 1 \in Nat
      /\ GroupBits - R32 \in Nat
      /\ Bits32 \in Nat \ {0} /\ Bits64 \in Nat /\ Bits32 - 1 \in Nat
      /\ Bits32 - 1 = GroupBits * Whole32 + (R32 - 1)
      /\ (R32 - 1) + (GroupBits - R32 + 1) = GroupBits
      /\ R32 + (GroupBits - R32) = GroupBits
      /\ R64 <= GroupBits
  BY <1>1, <1>3
<1>5. /\ Room32 \in Nat \ {0} /\ SignBit \in Nat \ {0} /\ SignBits \in Nat \ {0}
      /\ Sign32 \in Nat \ {0} /\ Room64 \in Nat \ {0}
      /\ Max32 \in Nat \ {0} /\ Max64 \in Nat \ {0}
  BY <1>2, <1>4, Pow2Positive DEF Sign32, Max32, Max64
<1>6. /\ Max32 = Weight(Whole32) * Room32
      /\ Max64 = Weight(Whole64) * Room64
      /\ Sign32 = Weight(Whole32) * SignBit
  BY <1>1, <1>2, <1>3, <1>4, Pow2Add DEF Max32, Max64, Sign32, Weight
<1>7. Max32 = 2 * Sign32
  BY <1>4, Pow2Defined DEF Max32, Sign32
<1>8. Group = SignBit * SignBits
  BY <1>2, <1>4, Pow2Add DEF Group
<1>9. Room64 <= Group
  BY <1>1, <1>2, <1>4, Pow2Monotone DEF Group
<1>10. Room64 >= 2
  <2>1. Pow2[R64] = 2 * Pow2[R64 - 1] /\ Pow2[R64 - 1] \in Nat \ {0}
    BY <1>4, Pow2Defined, Pow2Positive, R64 - 1 \in Nat
  <2> QED
    BY <2>1, <1>2
<1>11. Max32 <= Weight(Whole32 + 1) /\ Weight(Whole32 + 1) % Max32 = 0
  <2> DEFINE W == Weight(Whole32)
             fill == Pow2[GroupBits - R32]
  <2>1. /\ Weight(Whole32 + 1) = W * Group /\ W \in Nat \ {0}
        /\ Group = Room32 * fill /\ fill \in Nat \ {0}
    <3>1. Weight(Whole32 + 1) = W * Group /\ W \in Nat \ {0}
      BY <1>1, Weights
    <3>2. Group = Room32 * fill /\ fill \in Nat \ {0}
      BY <1>2, <1>4, Pow2Add, Pow2Positive DEF Group
    <3> QED
      BY <3>1, <3>2
  <2> HIDE DEF W, fill
  <2>2. W * (Room32 * fill) = (W * Room32) * fill
    BY <1>5, <2>1
  <2>3. Weight(Whole32 + 1) = Max32 * fill
    BY <1>6, <2>1, <2>2 DEF W
  <2>4. (Max32 * fill + 0) % Max32 = 0 /\ Max32 * fill + 0 = Max32 * fill
    BY <1>5, <2>1, DivUnique
  <2>5. Max32 <= Max32 * fill
    BY <1>5, <2>1
  <2> QED
    BY <2>3, <2>4, <2>5
<1> QED
  BY <1>5, <1>6, <1>7, <1>8, <1>9, <1>10, <1>11

\* A result never shrinks, and the bytes behind the last of a uint32_t do not
\* change it as far as a uint32_t has room.
LEMMA ResultsGrow ==
  ASSUME NEW in \in Seq(Byte), NEW i \in 0 .. Len(in), NEW j \in i .. Len(in)
  PROVE  /\ Results(in)[i] <= Results(in)[j]
         /\ i >= Whole32 + 1 => Results(in)[j] % Max32 = Results(in)[i] % Max32
<1> DEFINE r == Results(in)
           n == Len(in)
           T == {d \in 0 .. n - i : /\ r[i] <= r[i + d]
                                    /\ i >= Whole32 + 1 => r[i + d] % Max32 = r[i] % Max32}
<1>1. /\ n \in Nat /\ i \in 0 .. n /\ n - i \in Nat /\ r \in [0 .. n -> Nat]
      /\ \A k \in 1 .. n : /\ r[k] = r[k - 1] + Payload(in[k]) * Weight(k - 1)
                           /\ r[k - 1] <= r[k]
                           /\ Payload(in[k]) \in Nat
  <2>1. n \in Nat /\ i \in 0 .. n /\ n - i \in Nat
    OBVIOUS
  <2>2. r \in [0 .. n -> Nat]
    BY ResultsDefined
  <2>3. ASSUME NEW k \in 1 .. n PROVE Payload(in[k]) \in Nat
    <3>1. in[k] \in Byte
      OBVIOUS
    <3>2. Payload(in[k]) \in 0 .. Group - 1
      BY <3>1, ByteFacts
    <3> QED
      BY <3>2, Weights
  <2> QED
    BY <2>1, <2>2, <2>3, ResultsBound
<1> HIDE DEF r, n
<1>2. 0 \in T
  <2>1. i + 0 = i /\ r[i] \in Nat /\ 0 \in 0 .. n - i
    BY <1>1
  <2> QED
    BY <2>1
<1>3. ASSUME NEW d \in 0 .. (n - i) - 1, d \in T PROVE d + 1 \in T
  <2> DEFINE k == i + (d + 1)
             a == r[i]
             b == r[k - 1]
             c == r[k]
             q == Payload(in[k])
  <2>1. k \in 1 .. n /\ k - 1 = i + d /\ k - 1 \in 0 .. n /\ d + 1 \in 0 .. n - i /\ k - 1 >= i
    BY <1>1
  <2> HIDE DEF k
  <2>2. a <= b /\ (i >= Whole32 + 1 => b % Max32 = a % Max32)
    BY <1>3, <2>1
  <2>3. /\ c = b + q * Weight(k - 1)
        /\ b <= c /\ q \in Nat /\ a \in Nat /\ b \in Nat /\ c \in Nat
    BY <1>1, <2>1
  <2> HIDE DEF a, b, c, q
  <2>4. ASSUME i >= Whole32 + 1 PROVE c % Max32 = b % Max32
    <3> DEFINE e == k - 1 - (Whole32 + 1)
               m == Weight(Whole32 + 1) \div Max32
               x == m * Weight(e)
    <3>1. e \in Nat /\ Whole32 + 1 \in Nat /\ k - 1 = (Whole32 + 1) + e
      BY <2>1, <2>4, <1>1, Positions
    <3>2. Weight(k - 1) = Weight(Whole32 + 1) * Weight(e) /\ Weight(e) \in Nat /\ Weight(Whole32 + 1) \in Nat
      <4>1. Weight((Whole32 + 1) + e) = Weight(Whole32 + 1) * Weight(e)
        BY <3>1, WeightsGrow
      <4> HIDE DEF e
      <4> QED
        BY <3>1, <4>1, Weights
    <3> HIDE DEF e
    <3>3. Max32 \in Nat \ {0} /\ Weight(Whole32 + 1) % Max32 = 0
      BY Rooms
    <3>4. Weight(Whole32 + 1) = Max32 * m /\ m \in Nat
      <4>1. /\ Weight(Whole32 + 1) = Max32 * m + (Weight(Whole32 + 1) % Max32)
            /\ m \in Nat
        BY <3>2, <3>3, DivMod
      <4> HIDE DEF m
      <4> QED
        BY <3>3, <4>1
    <3> HIDE DEF m
    <3>5. x \in Nat /\ Weight(k - 1) = Max32 * x
      <4>1. (Max32 * m) * Weight(e) = Max32 * (m * Weight(e))
        <5> DEFINE w == Weight(e)
        <5>1. Max32 \in Nat \ {0} /\ m \in Nat /\ w \in Nat
          BY <3>2, <3>3, <3>4
        <5> HIDE DEF w
        <5>2. (Max32 * m) * w = Max32 * (m * w)
          BY ONLY <5>1
        <5> QED
          BY <5>2 DEF w
      <4> QED
        BY <3>2, <3>4, <4>1
    <3> HIDE DEF x
    <3>6. q * (Max32 * x) = Max32 * (q * x) /\ q * x \in Nat
      BY <2>3, <3>3, <3>5
    <3>7. (b + Max32 * (q * x)) % Max32 = b % Max32
      BY <2>3, <3>3, <3>6, ModMultiple
    <3> QED
      BY <2>3, <3>5, <3>6, <3>7
  <2>5. a <= c
    BY <2>2, <2>3
  <2> QED
    BY <2>1, <2>2, <2>4, <2>5 DEF a, b, c, k
<1>4. 0 .. n - i \subseteq T
  <2> HIDE DEF T
  <2> QED
    BY <1>1, <1>2, <1>3, InductionUpTo
<1>5. j - i \in 0 .. n - i /\ i + (j - i) = j
  BY <1>1 DEF n
<1> QED
  BY <1>4, <1>5 DEF r

\* pb_decode_varint accepts no more than the bits of a uint64_t.
LEMMA WideFits ==
  ASSUME NEW in \in Seq(Byte), End(in) # 0,
         \A i \in 1 .. End(in) : ~Overflows(in[i], BitPos(i))
  PROVE  LET n == End(in)
         IN  /\ n <= Whole64 + 1
             /\ n = Whole64 + 1 => in[n] < Room64
             /\ Results(in)[n] < Max64
<1> DEFINE n == End(in)
<1>0. /\ n # 0 /\ n \in 0 .. Len(in) /\ Len(in) \in Nat
      /\ ~More(in[n]) /\ \A i \in 1 .. n - 1 : More(in[i])
      /\ \A i \in 1 .. n : ~Overflows(in[i], BitPos(i))
  <2>1. Len(in) \in Nat
    OBVIOUS
  <2> QED
    BY <2>1, EndDefined
<1> HIDE DEF n
<1>1. /\ n \in 1 .. Len(in) /\ \A i \in 1 .. n - 1 : More(in[i])
      /\ Whole64 \in Nat \ {0}
      /\ Room64 \in Nat \ {0} /\ Room64 <= Group /\ Group \in Nat
      /\ Max64 = Weight(Whole64) * Room64 /\ Max64 \in Nat
  <2>1. n \in 1 .. Len(in) /\ \A i \in 1 .. n - 1 : More(in[i])
    BY <1>0
  <2> QED
    BY <2>1, Positions, Rooms, Weights
<1>2. ASSUME NEW i \in 1 .. n, i >= Whole64 + 1 PROVE in[i] < Room64
  <2>1. in[i] \in Nat /\ in[i] \in Byte
    BY <1>1, ByteFacts
  <2>2. BitPos(i) >= LastPos(Bits64)
    BY <1>2, Positions
  <2>3. in[i] \div Room64 = 0
    BY <1>0, <2>2 DEF Overflows, Room64
  <2> QED
    BY <1>1, <2>1, <2>3, DivSmall
<1>3. n <= Whole64 + 1
  <2>1. SUFFICES ASSUME n > Whole64 + 1 PROVE FALSE
    BY <1>1
  <2>2. Whole64 + 1 \in 1 .. n - 1
    BY <1>1, <2>1
  <2>3. in[Whole64 + 1] < Room64 /\ More(in[Whole64 + 1]) /\ in[Whole64 + 1] \in Nat
    <3>1. Whole64 + 1 \in 1 .. n /\ Whole64 + 1 \in 1 .. Len(in)
      BY <1>1, <2>1
    <3>2. in[Whole64 + 1] \in Nat
      BY <3>1, ByteFacts
    <3> QED
      BY <1>1, <1>2, <2>2, <3>1, <3>2
  <2> QED
    BY <1>1, <2>3 DEF More
<1>4. n = Whole64 + 1 => in[n] < Room64
  BY <1>1, <1>2
<1>5. Results(in)[n] < Max64
  <2> DEFINE r == Results(in)
             W == Weight(Whole64)
  <2>1. /\ W \in Nat \ {0} /\ r[n] \in Nat /\ r[n - 1] \in Nat
        /\ n - 1 \in 0 .. Len(in) /\ Len(in) \in Nat
    <3>1. n \in 0 .. Len(in) /\ n - 1 \in 0 .. Len(in) /\ Len(in) \in Nat /\ Whole64 \in Nat
      BY <1>1
    <3>2. r \in [0 .. Len(in) -> Nat]
      BY ResultsDefined
    <3> QED
      BY <3>1, <3>2, Weights
  <2>2. CASE n <= Whole64
    <3>1. r[n] < Weight(n)
      BY <1>1, ResultsBound
    <3>2. Weight(n) <= W /\ Weight(n) \in Nat
      BY <1>1, <2>2, WeightsGrow, Weights
    <3> HIDE DEF r, W
    <3>3. W <= W * Room64
      BY <1>1, <2>1
    <3> QED
      BY <1>1, <2>1, <3>1, <3>2, <3>3 DEF W, r
  <2>3. CASE n = Whole64 + 1
    <3> DEFINE b == in[n]
    <3>1. r[n - 1] < W
      BY <1>1, <2>1, <2>3, ResultsBound
    <3>2. b \in Nat /\ Payload(b) = b /\ b < Room64
      <4>1. b \in Byte /\ ~More(b)
        BY <1>0, <1>1
      <4> HIDE DEF b
      <4>2. b \in Nat /\ Payload(b) = b
        BY <4>1, ByteFacts
      <4> QED
        BY <4>2, <1>4, <2>3 DEF b
    <3>3. r[n] = r[n - 1] + b * W
      <4>1. r[n] = r[n - 1] + Payload(b) * Weight(n - 1)
        BY <1>1, ResultsBound
      <4> QED
        BY <4>1, <3>2, <2>3, <1>1
    <3> DEFINE s == r[n - 1]
               t == r[n]
    <3>4. s \in Nat /\ t = s + b * W /\ s < W
      BY <2>1, <3>1, <3>3
    <3> HIDE DEF b, W, s, t, r
    <3>5. t < W * Room64
      <4>1. b + 1 <= Room64
        BY <1>1, <3>2
      <4>2. (b + 1) * W <= Room64 * W
        BY <1>1, <2>1, <3>2, <4>1
      <4>3. (b + 1) * W = b * W + W /\ Room64 * W = W * Room64 /\ b * W \in Nat /\ W * Room64 \in Nat
        BY <1>1, <2>1, <3>2
      <4> DEFINE x == b * W
                 y == W * Room64
      <4>4. x + W <= y /\ x \in Nat /\ y \in Nat
        BY <4>2, <4>3
      <4> HIDE DEF x, y
      <4>5. s + x < y
        BY <3>4, <4>4, <2>1
      <4> QED
        BY <3>4, <4>5 DEF x, y
    <3> QED
      BY <3>5, <1>1 DEF t, r, W
  <2> QED
    BY <1>1, <1>3, <2>2, <2>3
<1> QED
  BY <1>3, <1>4, <1>5 DEF n

\* What pb_decode_varint32 has after i bytes, and what it asks of byte i.
Narrow(in, i) == Results(in)[Shorter(i, Whole32 + 1)] % Max32
Valid(in, i) ==
  /\ BitPos(i) >= Bits32 => ValidExtension(in[i], BitPos(i), Narrow(in, i - 1))
  /\ BitPos(i) = LastPos(Bits32) => ValidLastByte(in[i])

\* pb_decode_varint32 in these terms.
LEMMA NarrowDecodes ==
  ASSUME NEW in
  PROVE  LET n == End(in)
         IN  pb_decode_varint32(in) =
               IF n = 0 \/ \E i \in 1 .. n : ~Valid(in, i) THEN Failed
               ELSE Got(Narrow(in, n), After(in, n))
  BY Zenon DEF pb_decode_varint32, Narrow, Valid, Whole32

\* A byte that is accepted behind those of a uint32_t has no bits for which a
\* uint64_t has no room.
LEMMA NarrowInWide ==
  ASSUME NEW in \in Seq(Byte), End(in) # 0, \A i \in 1 .. End(in) : Valid(in, i)
  PROVE  \A i \in 1 .. End(in) : ~Overflows(in[i], BitPos(i))
<1> DEFINE n == End(in)
<1>1. /\ n \in 1 .. Len(in) /\ ~More(in[n])
      /\ \A i \in 1 .. n : Valid(in, i)
  <2>1. Len(in) \in Nat
    OBVIOUS
  <2> QED
    BY <2>1, EndDefined
<1> HIDE DEF n
<1>2. /\ Whole32 \in Nat \ {0} /\ Whole64 \in Nat \ {0} /\ Whole32 + 1 <= Whole64
      /\ Room64 \in Nat \ {0} /\ Room64 >= 2
      /\ Group \in Nat \ {0}
  BY Positions, Rooms, Weights
<1>3. SUFFICES ASSUME NEW i \in 1 .. n, BitPos(i) >= LastPos(Bits64)
               PROVE  in[i] \div Room64 = 0
  BY DEF Overflows, Room64, n
<1>4. i \in Nat \ {0} /\ i >= Whole64 + 1 /\ BitPos(i) >= Bits32 /\ ~(BitPos(i) < LastPos(Bits64))
  <2>1. i \in Nat \ {0}
    BY <1>1
  <2>2. i >= Whole64 + 1
    BY <1>3, <2>1, Positions
  <2>3. BitPos(i) >= Bits32
    BY <1>2, <2>1, <2>2, Positions
  <2>4. BitPos(i) \in Nat /\ LastPos(Bits64) \in Int
    <3>1. BitPos(i) \in Nat
      BY <2>1, Weights
    <3>2. Bits64 \in Nat /\ GroupBits \in Nat \ {0}
      BY Widths
    <3> QED
      BY <3>1, <3>2, DivMod DEF LastPos
  <2> QED
    BY <1>3, <2>1, <2>2, <2>3, <2>4
<1>5. /\ BitPos(i) < Bits64
      /\ Payload(in[i]) = 0 \/ in[i] = Room64 - 1
  BY <1>1, <1>4 DEF Valid, ValidExtension, Room64
<1>6. i = Whole64 + 1
  <2>1. i <= Whole64 + 1
    BY <1>4, <1>5, Positions
  <2> QED
    BY <1>2, <1>4, <2>1
<1>7. ~More(in[i])
  <2>1. SUFFICES ASSUME i < n PROVE FALSE
    BY <1>1
  <2>2. i + 1 \in 1 .. n /\ i + 1 \in Nat \ {0} /\ i + 1 >= Whole32 + 2 /\ ~(i + 1 <= Whole64 + 1)
    BY <1>1, <1>2, <1>6, <2>1
  <2>3. BitPos(i + 1) >= Bits32 /\ ~(BitPos(i + 1) < Bits64)
    BY <2>2, Positions
  <2> QED
    BY <1>1, <2>2, <2>3 DEF Valid, ValidExtension
<1>8. in[i] \in Nat /\ in[i] = Payload(in[i])
  <2>1. in[i] \in Byte
    BY <1>1
  <2> QED
    BY <1>7, <2>1, ByteFacts
<1>9. in[i] < Room64 /\ in[i] \in Nat
  BY <1>2, <1>5, <1>8
<1> QED
  BY <1>2, <1>9, DivSmall

\* pb_decode_varint32 refuses nothing that fits its type.
LEMMA SmallAccepted ==
  ASSUME NEW in \in Seq(Byte), End(in) # 0,
         \A i \in 1 .. End(in) : ~Overflows(in[i], BitPos(i)),
         Results(in)[End(in)] < Max32
  PROVE  \A i \in 1 .. End(in) : Valid(in, i)
<1> DEFINE n == End(in)
           r == Results(in)
<1>1. n \in 1 .. Len(in) /\ n \in 0 .. Len(in) /\ r[n] < Max32 /\ n <= Whole64 + 1 /\ Len(in) \in Nat
  <2>1. Len(in) \in Nat
    OBVIOUS
  <2> QED
    BY <2>1, EndDefined, WideFits
<1>2. r \in [0 .. Len(in) -> Nat]
  BY ResultsDefined
<1> HIDE DEF n
<1>3. SUFFICES ASSUME NEW i \in 1 .. n PROVE Valid(in, i)
  BY DEF n
<1> DEFINE q == Payload(in[i])
           w == Weight(i - 1)
<1>4. /\ i \in Nat \ {0} /\ i \in 0 .. Len(in) /\ i \in 1 .. Len(in) /\ n \in i .. Len(in)
      /\ i - 1 \in Nat /\ i - 1 \in 0 .. Len(in)
  BY <1>1
<1>5. q \in Nat /\ w \in Nat \ {0} /\ q * w <= r[n]
  <2>1. in[i] \in Byte
    BY <1>4
  <2>2. q \in Nat /\ w \in Nat \ {0}
    <3>1. q \in 0 .. Group - 1 /\ Group \in Nat
      BY <2>1, ByteFacts, Weights
    <3>2. w \in Nat \ {0}
      BY <1>4, Weights
    <3> HIDE DEF q, w
    <3> QED
      BY <3>1, <3>2
  <2>3. r[i] = r[i - 1] + q * w
    BY <1>4, ResultsBound
  <2>4. r[i] <= r[n]
    BY <1>4, ResultsGrow
  <2>5. r[i] \in Nat /\ r[i - 1] \in Nat /\ r[n] \in Nat
    BY <1>1, <1>2, <1>4
  <2> DEFINE a == r[i - 1]
             b == r[i]
             c == r[n]
  <2>6. a \in Nat /\ b = a + q * w /\ b <= c /\ b \in Nat /\ c \in Nat
    BY <2>3, <2>4, <2>5
  <2> HIDE DEF a, b, c, r, q, w
  <2>7. q * w <= c
    <3> DEFINE x == q * w
    <3>1. x \in Nat
      BY <2>2
    <3> HIDE DEF x
    <3>2. b = a + x
      BY <2>6 DEF x
    <3>3. x <= c
      BY <2>6, <3>1, <3>2
    <3> QED
      BY <3>3 DEF x
  <2> QED
    BY <2>2, <2>7 DEF c
<1>6. q * w < Max32 /\ Max32 \in Nat /\ r[n] \in Nat
  <2>1. Max32 \in Nat /\ r[n] \in Nat
    BY <1>1, <1>2, Rooms
  <2> DEFINE x == q * w
             c == r[n]
  <2>2. x \in Nat /\ x <= c /\ c < Max32 /\ c \in Nat
    BY <1>1, <1>5, <2>1
  <2> HIDE DEF x, c
  <2>3. x < Max32
    BY <2>1, <2>2
  <2> QED
    BY <2>1, <2>3 DEF x
<1> HIDE DEF r, q, w
<1>7. ASSUME BitPos(i) >= Bits32
      PROVE  ValidExtension(in[i], BitPos(i), Narrow(in, i - 1))
  <2>1. BitPos(i) < Bits64 /\ i >= Whole32 + 2
    BY <1>1, <1>4, <1>7, Positions
  <2>2. Max32 <= w
    <3>1. Whole32 + 1 \in Nat /\ Whole32 + 1 <= i - 1
      BY <2>1, <1>4, Positions
    <3>2. Weight(Whole32 + 1) <= w /\ Max32 <= Weight(Whole32 + 1) /\ Weight(Whole32 + 1) \in Nat
      BY <1>4, <3>1, WeightsGrow, Rooms, Weights DEF w
    <3> QED
      BY <1>5, <1>6, <3>2
  <2>3. q = 0
    <3>1. q >= 1 => q * w >= w
      BY <1>5
    <3> DEFINE x == q * w
    <3>2. x < Max32 /\ x \in Nat /\ (q >= 1 => x >= w)
      BY <1>5, <1>6, <3>1
    <3> HIDE DEF x
    <3> QED
      BY <1>5, <1>6, <2>2, <3>2
  <2> QED
    BY <2>1, <2>3 DEF ValidExtension, q
<1>8. ASSUME BitPos(i) = LastPos(Bits32) PROVE ValidLastByte(in[i])
  <2>1. w = Weight(Whole32) /\ Max32 = w * Room32 /\ Room32 \in Nat \ {0}
    <3>1. i = Whole32 + 1
      BY <1>4, <1>8, Positions
    <3>2. i - 1 = Whole32
      BY <3>1, Positions
    <3> QED
      BY <3>2, Rooms DEF w
  <2>2. q < Room32
    <3>1. q >= Room32 => q * w >= Room32 * w
      BY <1>5, <2>1
    <3>2. Room32 * w = w * Room32
      BY <1>5, <2>1
    <3> DEFINE x == q * w
               y == w * Room32
    <3>3. x < y /\ x \in Nat /\ y \in Nat /\ (q >= Room32 => x >= y)
      BY <1>5, <1>6, <2>1, <3>1, <3>2
    <3> HIDE DEF x, y
    <3> QED
      BY <1>5, <2>1, <3>3
  <2>3. q \div Room32 = 0
    BY <1>5, <2>1, <2>2, DivSmall
  <2> QED
    BY <2>3 DEF ValidLastByte, Room32, q
<1> QED
  BY <1>7, <1>8 DEF Valid

\* What is missing from a result for all of its bits to be set.
Missing(in, i) == (Weight(i) - 1) - Results(in)[i]

\* What is missing never shrinks from byte to byte, and counts every bit that a
\* byte leaves out.
LEMMA MissingGrows ==
  ASSUME NEW in \in Seq(Byte), NEW i \in 0 .. Len(in), NEW j \in i .. Len(in)
  PROVE  /\ Missing(in, i) \in Nat /\ Missing(in, j) \in Nat
         /\ Missing(in, i) <= Missing(in, j)
         /\ i # 0 => (Group - 1 - Payload(in[i])) * Weight(i - 1) <= Missing(in, i)
<1> DEFINE r == Results(in)
           n == Len(in)
           T == {d \in 0 .. n - i : Missing(in, i) <= Missing(in, i + d)}
<1>1. /\ n \in Nat /\ i \in 0 .. n /\ n - i \in Nat /\ j \in 0 .. n
      /\ j - i \in 0 .. n - i /\ i + (j - i) = j
  OBVIOUS
<1>2. ASSUME NEW k \in 0 .. n PROVE Missing(in, k) \in Nat
  <2>1. r[k] \in Nat /\ r[k] < Weight(k) /\ Weight(k) \in Nat
    <3>1. k \in Nat /\ k \in 0 .. Len(in)
      BY <1>1
    <3>2. r \in [0 .. Len(in) -> Nat] /\ r[k] < Weight(k)
      BY <3>1, ResultsDefined, ResultsBound
    <3> HIDE DEF r, n
    <3> QED
      BY <3>1, <3>2, Weights
  <2> HIDE DEF r
  <2> QED
    BY <2>1 DEF Missing, r
<1>3. ASSUME NEW k \in 1 .. n
      PROVE  /\ Missing(in, k - 1) <= Missing(in, k)
             /\ (Group - 1 - Payload(in[k])) * Weight(k - 1) <= Missing(in, k)
  <2> DEFINE w == Weight(k - 1)
             q == Payload(in[k])
             a == r[k - 1]
             b == r[k]
             d == Group - 1 - q
  <2>1. /\ k - 1 \in Nat /\ k - 1 \in 0 .. n /\ k \in 0 .. n /\ k = (k - 1) + 1
    BY <1>1
  <2>2. w \in Nat \ {0} /\ Weight(k) = w * Group /\ Group \in Nat \ {0}
    BY <2>1, Weights
  <2>3. q \in 0 .. Group - 1
    <3>1. in[k] \in Byte
      OBVIOUS
    <3> QED
      BY <3>1, ByteFacts
  <2>4. a \in Nat /\ b \in Nat /\ b = a + q * w
    BY <2>1, ResultsDefined, ResultsBound
  <2>5. Missing(in, k - 1) = (w - 1) - a /\ Missing(in, k) = (w * Group - 1) - b
    BY <2>2 DEF Missing
  <2>6. Missing(in, k - 1) \in Nat
    BY <1>2, <2>1
  <2> HIDE DEF w, q, a, b
  <2>7. d \in Nat /\ d * w \in Nat /\ w * Group = d * w + q * w + w /\ q * w \in Nat
    <3>1. d \in Nat /\ q \in Nat
      BY <2>2, <2>3
    <3>2. (d + q + 1) * w = d * w + q * w + w
      BY <2>2, <3>1
    <3>3. d + q + 1 = Group
      BY <2>2, <2>3
    <3>4. Group * w = w * Group
      BY <2>2
    <3> QED
      BY <2>2, <3>1, <3>2, <3>3, <3>4
  <2> DEFINE x == d * w
             y == q * w
             z == w * Group
  <2>8. /\ x \in Nat /\ y \in Nat /\ z = x + y + w /\ b = a + y
        /\ Missing(in, k - 1) = (w - 1) - a /\ Missing(in, k) = (z - 1) - b
    BY <2>4, <2>5, <2>7
  <2> HIDE DEF x, y, z
  <2>9. Missing(in, k) = Missing(in, k - 1) + x
    BY <2>2, <2>4, <2>8
  <2> QED
    BY <2>6, <2>8, <2>9 DEF x, w, q
<1>4. 0 \in T
  <2>1. i + 0 = i /\ 0 \in 0 .. n - i /\ Missing(in, i) \in Nat
    BY <1>1, <1>2
  <2> QED
    BY <2>1
<1>5. ASSUME NEW d \in 0 .. (n - i) - 1, d \in T PROVE d + 1 \in T
  <2> DEFINE k == i + (d + 1)
  <2>1. k \in 1 .. n /\ k - 1 = i + d /\ k - 1 \in 0 .. n /\ k \in 0 .. n /\ d + 1 \in 0 .. n - i
    BY <1>1
  <2> HIDE DEF k
  <2>2. /\ Missing(in, i) <= Missing(in, k - 1)
        /\ Missing(in, k - 1) <= Missing(in, k)
    BY <1>3, <1>5, <2>1
  <2>3. Missing(in, i) \in Nat /\ Missing(in, k - 1) \in Nat /\ Missing(in, k) \in Nat
    BY <1>1, <1>2, <2>1
  <2>4. Missing(in, i) <= Missing(in, k)
    BY <2>2, <2>3
  <2> QED
    BY <2>1, <2>4 DEF k
<1>6. 0 .. n - i \subseteq T
  <2> HIDE DEF T
  <2> QED
    BY <1>1, <1>4, <1>5, InductionUpTo
<1>7. Missing(in, i) <= Missing(in, j)
  BY <1>1, <1>6
<1>8. i # 0 => (Group - 1 - Payload(in[i])) * Weight(i - 1) <= Missing(in, i)
  <2>1. i # 0 => i \in 1 .. n
    BY <1>1
  <2> QED
    BY <1>3, <2>1
<1> QED
  BY <1>1, <1>2, <1>7, <1>8

\* The 64 bits of a negative int32_t end in ten bytes, and nearly all bits of
\* every byte are set.
LEMMA NegativeBytes ==
  ASSUME NEW in \in Seq(Byte), End(in) # 0,
         \A i \in 1 .. End(in) : ~Overflows(in[i], BitPos(i)),
         Results(in)[End(in)] >= Max64 - Sign32
  PROVE  /\ End(in) = Whole64 + 1
         /\ in[Whole64 + 1] = Room64 - 1
         /\ Missing(in, Whole64) < Sign32
<1> DEFINE n == End(in)
           r == Results(in)
           W == Weight(Whole64)
<1>1. n \in 1 .. Len(in) /\ n - 1 \in 0 .. Len(in) /\ n \in 0 .. Len(in) /\ ~More(in[n])
  <2>1. Len(in) \in Nat
    OBVIOUS
  <2>2. /\ n \in 0 .. Len(in) /\ n # 0 /\ ~More(in[n])
    BY <2>1, EndDefined
  <2> HIDE DEF n
  <2> QED
    BY <2>1, <2>2
<1>2. /\ n <= Whole64 + 1 /\ (n = Whole64 + 1 => in[n] < Room64)
      /\ r[n] >= Max64 - Sign32
  BY WideFits
<1> HIDE DEF n
<1>3. /\ W \in Nat \ {0} /\ Room64 \in Nat \ {0} /\ Room64 >= 2 /\ Max64 = W * Room64
      /\ Sign32 \in Nat \ {0} /\ Max32 = 2 * Sign32 /\ Max32 \in Nat
      /\ Whole64 \in Nat \ {0}
  BY Rooms, Weights, Positions
<1>4. Sign32 < W
  <2>1. Whole32 + 1 \in Nat /\ Whole32 + 1 <= Whole64
    BY Positions
  <2>2. Weight(Whole32 + 1) <= W /\ Max32 <= Weight(Whole32 + 1) /\ Weight(Whole32 + 1) \in Nat
    BY <1>3, <2>1, WeightsGrow, Rooms, Weights
  <2> HIDE DEF W
  <2> QED
    BY <1>3, <2>2
<1>5. r[n] \in Nat /\ r[n - 1] \in Nat
  BY <1>1, ResultsDefined
<1>6. n = Whole64 + 1
  <2>1. SUFFICES ASSUME n <= Whole64 PROVE FALSE
    BY <1>1, <1>2, <1>3
  <2>2. r[n] < Weight(n) /\ Weight(n) <= W /\ Weight(n) \in Nat
    BY <1>1, <1>3, <2>1, ResultsBound, WeightsGrow, Weights
  <2> DEFINE t == r[n]
             y == W * Room64
  <2>3. t \in Nat /\ t < W /\ t >= y - Sign32
    <3> HIDE DEF W, r
    <3> QED
      BY <1>2, <1>3, <1>5, <2>2
  <2> HIDE DEF W, t
  <2>4. y >= 2 * W /\ y \in Nat
    <3>1. y >= W * 2 /\ y \in Nat
      BY <1>3
    <3> HIDE DEF y
    <3> QED
      BY <1>3, <3>1
  <2> HIDE DEF y
  <2> QED
    BY <1>3, <1>4, <2>3, <2>4
<1> DEFINE b == in[n]
<1>7. b \in Nat /\ b < Room64 /\ r[n] = r[n - 1] + b * W
  <2>1. b \in Byte /\ ~More(b)
    BY <1>1
  <2> HIDE DEF b
  <2>2. b \in Nat /\ Payload(b) = b
    BY <2>1, ByteFacts
  <2>3. r[n] = r[n - 1] + Payload(b) * Weight(n - 1)
    BY <1>1, ResultsBound DEF b
  <2>4. n - 1 = Whole64
    BY <1>3, <1>6
  <2> QED
    BY <1>2, <1>6, <2>2, <2>3, <2>4 DEF b
<1>8. Missing(in, Whole64) = (W - 1) - r[n - 1] /\ Missing(in, Whole64) \in Nat
  <2>1. n - 1 = Whole64
    BY <1>3, <1>6
  <2>2. Missing(in, Whole64) = (W - 1) - r[n - 1]
    BY <2>1 DEF Missing
  <2>3. r[n - 1] < W
    BY <1>1, <2>1, ResultsBound
  <2> HIDE DEF r, W
  <2> QED
    BY <1>3, <1>5, <2>2, <2>3
<1> DEFINE d == Room64 - 1 - b
           m == Missing(in, Whole64)
           s == r[n - 1]
           t == r[n]
           x == b * W
           y == d * W
           z == W * Room64
<1>9. /\ d \in Nat /\ x \in Nat /\ y \in Nat /\ z = x + y + W
  <2> HIDE DEF b, W, r
  <2>1. d \in Nat
    BY <1>3, <1>7
  <2>2. d + b + 1 = Room64
    BY <1>3, <1>7
  <2> HIDE DEF d
  <2>3. (d + b + 1) * W = d * W + b * W + W
    BY <1>3, <1>7, <2>1
  <2>4. Room64 * W = W * Room64
    BY <1>3
  <2>5. d * W \in Nat /\ b * W \in Nat
    BY <1>3, <1>7, <2>1
  <2> QED
    BY <1>3, <2>1, <2>2, <2>3, <2>4, <2>5
<1>10. /\ m \in Nat /\ s \in Nat /\ t \in Nat /\ t = s + x /\ m = (W - 1) - s
       /\ t >= z - Sign32
  <2> HIDE DEF W
  <2> QED
    BY <1>2, <1>3, <1>5, <1>7, <1>8
<1>11. d >= 1 => y >= W
  <2> HIDE DEF W, d
  <2> QED
    BY <1>3, <1>9
<1> HIDE DEF m, s, t, x, y, z, W, r
<1>12. m + y < Sign32
  <2> HIDE DEF d, b
  <2> QED
    BY <1>3, <1>9, <1>10
<1>13. d = 0 /\ m < Sign32
  <2> HIDE DEF d, b
  <2> QED
    BY <1>3, <1>4, <1>9, <1>10, <1>11, <1>12
<1>14. b = Room64 - 1
  <2> HIDE DEF b
  <2> QED
    BY <1>3, <1>7, <1>13
<1> QED
  BY <1>6, <1>13, <1>14 DEF n, m

\* pb_decode_varint32 takes the 64 bits of a negative int32_t, of which it keeps
\* the lower half: the bytes behind it repeat the sign.
LEMMA NegativeAccepted ==
  ASSUME NEW in \in Seq(Byte), End(in) # 0,
         \A i \in 1 .. End(in) : ~Overflows(in[i], BitPos(i)),
         Results(in)[End(in)] >= Max64 - Sign32
  PROVE  \A i \in 1 .. End(in) : Valid(in, i)
<1> DEFINE n == End(in)
           r == Results(in)
<1>1. /\ n = Whole64 + 1 /\ n \in 1 .. Len(in) /\ Len(in) \in Nat
      /\ in[n] = Room64 - 1 /\ Missing(in, Whole64) < Sign32
      /\ \A i \in 1 .. n - 1 : More(in[i])
  <2>1. Len(in) \in Nat
    OBVIOUS
  <2>2. /\ n \in 0 .. Len(in) /\ n # 0
        /\ \A i \in 1 .. n - 1 : More(in[i])
    BY <2>1, EndDefined
  <2>3. /\ n = Whole64 + 1 /\ in[Whole64 + 1] = Room64 - 1
        /\ Missing(in, Whole64) < Sign32
    BY NegativeBytes
  <2> HIDE DEF n
  <2> QED
    BY <2>1, <2>2, <2>3
<1> HIDE DEF n
<1>2. /\ Whole32 \in Nat \ {0} /\ Whole64 \in Nat \ {0} /\ Whole32 + 1 <= Whole64
      /\ Max32 = 2 * Sign32 /\ Sign32 \in Nat \ {0} /\ Max32 \in Nat \ {0}
      /\ Group \in Nat \ {0}
  BY Positions, Rooms, Weights
<1>3. ASSUME NEW i \in 1 .. Whole64
      PROVE  /\ Missing(in, i) \in Nat /\ Missing(in, i) < Sign32
             /\ (Group - 1 - Payload(in[i])) * Weight(i - 1) <= Missing(in, i)
             /\ in[i] \in Byte /\ Payload(in[i]) \in 0 .. Group - 1
             /\ Weight(i - 1) \in Nat \ {0}
  <2>1. /\ i \in 0 .. Len(in) /\ Whole64 \in i .. Len(in) /\ i # 0 /\ i \in 1 .. Len(in)
        /\ i - 1 \in Nat
    BY <1>1, <1>2
  <2>2. /\ Missing(in, i) \in Nat /\ Missing(in, Whole64) \in Nat
        /\ Missing(in, i) <= Missing(in, Whole64)
        /\ (Group - 1 - Payload(in[i])) * Weight(i - 1) <= Missing(in, i)
    BY <2>1, MissingGrows
  <2>3. Missing(in, i) < Sign32
    BY <1>1, <1>2, <2>2
  <2>4. in[i] \in Byte
    BY <2>1
  <2> QED
    BY <2>1, <2>2, <2>3, <2>4, ByteFacts, Weights
<1>4. SUFFICES ASSUME NEW i \in 1 .. n PROVE Valid(in, i)
  BY DEF n
<1>5. i \in Nat \ {0} /\ i <= Whole64 + 1
  BY <1>1, <1>2
<1>6. ASSUME BitPos(i) >= Bits32
      PROVE  ValidExtension(in[i], BitPos(i), Narrow(in, i - 1))
  <2>1. BitPos(i) < Bits64 /\ i >= Whole32 + 2 /\ (BitPos(i) < LastPos(Bits64) <=> i <= Whole64)
    <3>1. /\ BitPos(i) < Bits64 /\ i >= Whole32 + 2
          /\ BitPos(i) >= LastPos(Bits64) <=> i >= Whole64 + 1
      BY <1>5, <1>6, Positions
    <3>2. BitPos(i) \in Nat /\ LastPos(Bits64) \in Int
      <4>1. BitPos(i) \in Nat
        BY <1>5, Weights
      <4>2. Bits64 \in Nat /\ GroupBits \in Nat \ {0}
        BY Widths
      <4> QED
        BY <4>1, <4>2, DivMod DEF LastPos
    <3> QED
      BY <3>1, <3>2, <1>2, <1>5
  <2>2. Narrow(in, i - 1) >= Sign32
    <3> DEFINE k == Whole32 + 1
               u == Weight(k)
               m == u \div Max32
               c == Missing(in, k)
    <3>1. k \in 1 .. Whole64 /\ k \in Nat /\ Shorter(i - 1, k) = k
      BY <1>2, <2>1, <1>5 DEF Shorter
    <3>2. Narrow(in, i - 1) = r[k] % Max32
      BY <3>1 DEF Narrow
    <3>3. c \in Nat /\ c < Sign32
      BY <1>3, <3>1
    <3>4. u \in Nat /\ Max32 <= u /\ u % Max32 = 0 /\ r[k] \in Nat /\ c = (u - 1) - r[k]
      <4>1. k \in 0 .. Len(in)
        BY <1>1, <1>2, <3>1
      <4> QED
        BY <3>1, <4>1, Rooms, Weights, ResultsDefined DEF Missing
    <3> DEFINE t == r[k]
    <3> HIDE DEF k, u, c, r
    <3>5. u = Max32 * m /\ m \in Nat \ {0}
      <4>1. u = Max32 * m + (u % Max32) /\ m \in Nat
        BY <1>2, <3>4, DivMod
      <4>2. m = 0 => Max32 * m = 0
        BY <1>2
      <4> HIDE DEF m
      <4>3. m # 0
        BY <1>2, <3>4, <4>1, <4>2
      <4> QED
        BY <1>2, <3>4, <4>1, <4>3
    <3> HIDE DEF m, t
    <3>6. /\ m - 1 \in Nat /\ (Max32 - 1) - c \in 0 .. Max32 - 1 /\ (Max32 - 1) - c >= Sign32
      BY <1>2, <3>3, <3>5
    <3>7. t = Max32 * (m - 1) + ((Max32 - 1) - c)
      <4>1. Max32 * m = Max32 * (m - 1) + Max32 /\ Max32 * (m - 1) \in Nat
        BY <1>2, <3>5, <3>6
      <4> DEFINE x == Max32 * (m - 1)
      <4>2. u = x + Max32 /\ x \in Nat
        BY <3>5, <4>1
      <4> HIDE DEF x
      <4>3. t = x + ((Max32 - 1) - c)
        BY <1>2, <3>3, <3>4, <4>2 DEF t
      <4> QED
        BY <4>3 DEF x
    <3>8. t % Max32 = (Max32 - 1) - c
      <4> DEFINE q == m - 1
                 e == (Max32 - 1) - c
      <4>1. q \in Nat /\ e \in 0 .. Max32 - 1 /\ Max32 \in Nat \ {0} /\ t = Max32 * q + e
        BY <1>2, <3>6, <3>7
      <4> HIDE DEF q, e
      <4>2. (Max32 * q + e) % Max32 = e
        BY ONLY <4>1, DivUnique
      <4> QED
        BY <4>1, <4>2 DEF e
    <3> QED
      BY <3>2, <3>6, <3>8 DEF t, r, k
  <2>3. Sign32 = Pow2[Bits32 - 1]
    BY DEF Sign32
  <2>4. CASE i <= Whole64
    <3> DEFINE q == Payload(in[i])
               w == Weight(i - 1)
               d == Group - 1 - q
    <3>1. /\ d * w < Sign32 /\ q \in 0 .. Group - 1 /\ w \in Nat \ {0} /\ in[i] \in Byte /\ More(in[i])
          /\ Missing(in, i) \in Nat
      <4>1. i \in 1 .. Whole64 /\ i \in 1 .. n - 1
        BY <1>1, <1>2, <1>5, <2>4
      <4>2. /\ d * w <= Missing(in, i) /\ Missing(in, i) < Sign32
            /\ q \in 0 .. Group - 1 /\ w \in Nat \ {0} /\ in[i] \in Byte /\ Missing(in, i) \in Nat
        BY <1>3, <4>1
      <4>3. More(in[i])
        BY <1>1, <4>1
      <4> HIDE DEF w
      <4>4. d * w \in Int
        BY <1>2, <4>2
      <4> DEFINE x == d * w
      <4> HIDE DEF x, q, d
      <4>5. x < Sign32
        BY <1>2, <4>2, <4>4 DEF x
      <4> QED
        BY <4>2, <4>3, <4>5 DEF x
    <3>2. Max32 <= w
      <4>1. i - 1 \in Nat /\ Whole32 + 1 \in Nat /\ Whole32 + 1 <= i - 1
        BY <1>2, <1>5, <2>1
      <4>2. Weight(Whole32 + 1) <= w /\ Max32 <= Weight(Whole32 + 1) /\ Weight(Whole32 + 1) \in Nat
        BY <4>1, WeightsGrow, Rooms, Weights
      <4> HIDE DEF w
      <4> QED
        BY <1>2, <3>1, <4>2
    <3>3. d \in Nat
      BY <1>2, <3>1
    <3>4. in[i] = q + Group
      BY <3>1, ByteFacts
    <3> HIDE DEF w, q
    <3>5. d = 0
      <4> HIDE DEF d
      <4>1. d >= 1 => d * w >= w
        BY <3>1, <3>3
      <4> DEFINE x == d * w
      <4>2. x < Sign32 /\ x \in Nat /\ (d >= 1 => x >= w)
        BY <3>1, <3>3, <4>1
      <4> HIDE DEF x
      <4> QED
        BY <1>2, <3>1, <3>2, <3>3, <4>2
    <3>6. in[i] = 2 * Group - 1
      BY <1>2, <3>1, <3>4, <3>5
    <3> QED
      BY <2>1, <2>2, <2>3, <2>4, <3>6 DEF ValidExtension
  <2>5. CASE ~(i <= Whole64)
    <3>1. i = n
      BY <1>1, <1>2, <1>5, <2>5
    <3> QED
      BY <1>1, <2>1, <2>2, <2>3, <2>5, <3>1 DEF ValidExtension, Room64
  <2> QED
    BY <2>4, <2>5
<1>7. ASSUME BitPos(i) = LastPos(Bits32) PROVE ValidLastByte(in[i])
  <2> DEFINE q == Payload(in[i])
             w == Weight(i - 1)
             d == Group - 1 - q
  <2>1. /\ d * w < Sign32 /\ q \in 0 .. Group - 1 /\ w \in Nat \ {0}
        /\ Sign32 = w * SignBit /\ SignBit \in Nat \ {0} /\ SignBits \in Nat \ {0}
        /\ Group = SignBit * SignBits
    <3>1. i = Whole32 + 1
      BY <1>5, <1>7, Positions
    <3>2. i \in 1 .. Whole64 /\ i - 1 = Whole32
      BY <1>2, <3>1
    <3>3. /\ d * w <= Missing(in, i) /\ Missing(in, i) < Sign32
          /\ q \in 0 .. Group - 1 /\ w \in Nat \ {0} /\ Missing(in, i) \in Nat
      BY <1>3, <3>2
    <3>4. /\ Sign32 = w * SignBit /\ SignBit \in Nat \ {0} /\ SignBits \in Nat \ {0}
          /\ Group = SignBit * SignBits
      BY <3>2, Rooms
    <3> HIDE DEF w
    <3>5. d * w \in Int
      BY <1>2, <3>3
    <3> DEFINE x == d * w
    <3> HIDE DEF x, q, d
    <3>6. x < Sign32
      BY <1>2, <3>3, <3>5 DEF x
    <3> QED
      BY <3>3, <3>4, <3>6 DEF x
  <2>2. d \in Nat
    <3>1. q \in 0 .. Group - 1 /\ Group \in Nat
      BY <1>2, <2>1
    <3> HIDE DEF q
    <3> QED
      BY ONLY <3>1
  <2> HIDE DEF w, q
  <2>3. d < SignBit
    <3> HIDE DEF d
    <3>1. d >= SignBit => d * w >= SignBit * w
      BY <2>1, <2>2
    <3>2. SignBit * w = w * SignBit
      BY <2>1
    <3> DEFINE x == d * w
               y == w * SignBit
    <3>3. x < y /\ x \in Nat /\ y \in Nat /\ (d >= SignBit => x >= y)
      BY <2>1, <2>2, <3>1, <3>2
    <3> HIDE DEF x, y
    <3> QED
      BY <2>1, <2>2, <3>3
  <2> DEFINE e == SignBits - 1
             t == (SignBit - 1) - d
  <2>4. e \in Nat /\ t \in 0 .. SignBit - 1
    BY <2>1, <2>2, <2>3
  <2>5. q = SignBit * e + t
    <3> DEFINE x == SignBit * e
    <3>1. x \in Nat /\ SignBit * SignBits = x + SignBit
      <4>1. SignBits = e + 1
        BY <2>1
      <4> HIDE DEF e
      <4>2. SignBit * (e + 1) = SignBit * e + SignBit
        BY <2>1, <2>4
      <4> QED
        BY <2>1, <2>4, <4>1, <4>2
    <3> HIDE DEF x
    <3>2. q = x + t
      BY <1>2, <2>1, <3>1
    <3> QED
      BY <3>2 DEF x
  <2> HIDE DEF e, t
  <2>6. q \div SignBit = e
    <3>1. (SignBit * e + t) \div SignBit = e
      BY <2>1, <2>4, DivUnique
    <3> QED
      BY <2>5, <3>1
  <2> QED
    BY <2>6 DEF ValidLastByte, e, q, SignBit, SignBits
<1> QED
  BY <1>6, <1>7 DEF Valid

=============================================================================
