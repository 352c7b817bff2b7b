-------------------------- MODULE WireFormat_proofs --------------------------
(***************************************************************************)
(* The properties of WireFormat, for all widths, messages and byte         *)
(* strings.                                                                *)
(*                                                                         *)
(* The loops of the boards, which shift two words, write the same bytes as *)
(* the loop of the Python programs, which shifts one number of any size    *)
(* (BoardsWriteTheSame); what is written is read back (ReadBack); so every *)
(* reader that has all bytes of a length knows the length (LengthOfFrame). *)
(***************************************************************************)
EXTENDS WireFormat, Varint_proofs

\* Size is the least number of bytes with room for the value.
LEMMA SizeDefined ==
  ASSUME NEW v \in Nat
  PROVE  /\ Size(v) \in 1 .. v + 1
         /\ v < Weight(Size(v))
         /\ \A m \in 1 .. Size(v) - 1 : v >= Weight(m)
<1> DEFINE T == {n \in Nat \ {0} : v < Weight(n)}
           Least(n) == v < Weight(n) /\ \A m \in 1 .. n - 1 : v >= Weight(m)
<1>1. v + 1 \in T
  <2>1. v + 1 \in Nat \ {0} /\ v + 1 < Weight(v + 1) /\ Weight(v + 1) \in Nat
    <3>1. v + 1 \in Nat
      OBVIOUS
    <3>2. v + 1 < Weight(v + 1)
      BY <3>1, WeightsGrow
    <3> QED
      BY <3>1, <3>2, Weights
  <2> QED
    BY <2>1
<1>2. PICK n \in T : \A y \in T : n <= y
  <2>1. T \in SUBSET Nat /\ T # {}
    BY <1>1
  <2> HIDE DEF T
  <2> QED
    BY <2>1, LeastElement
<1>3. n \in 1 .. v + 1
  BY <1>1, <1>2
<1>4. Least(n)
  <2>1. ASSUME NEW m \in 1 .. n - 1 PROVE v >= Weight(m)
    <3>1. m \in Nat \ {0} /\ m \notin T /\ Weight(m) \in Nat
      BY <1>2, Weights
    <3> QED
      BY <3>1
  <2> QED
    BY <2>1
<1>5. Size(v) = CHOOSE k \in 1 .. v + 1 : Least(k)
  BY Zenon DEF Size, Weight
<1> HIDE DEF Least
<1>6. Size(v) \in 1 .. v + 1 /\ Least(Size(v))
  BY <1>3, <1>4, <1>5
<1> QED
  BY <1>6 DEF Least

\* Any number of bytes that has room for the value and is the least such is Size.
LEMMA SizeUnique ==
  ASSUME NEW v \in Nat, NEW n \in Nat \ {0}
  PROVE  /\ v < Weight(n) => Size(v) <= n
         /\ v < Weight(n) /\ (\A m \in 1 .. n - 1 : v >= Weight(m)) => Size(v) = n
<1>1. /\ Size(v) \in Nat \ {0}
      /\ v < Weight(Size(v))
      /\ \A m \in 1 .. Size(v) - 1 : v >= Weight(m)
  BY SizeDefined
<1>2. Weight(n) \in Nat /\ Weight(Size(v)) \in Nat
  BY <1>1, Weights
<1>3. v < Weight(n) => Size(v) <= n
  <2>1. SUFFICES ASSUME v < Weight(n), n < Size(v) PROVE FALSE
    BY <1>1
  <2>2. n \in 1 .. Size(v) - 1
    BY <1>1, <2>1
  <2> QED
    BY <1>1, <1>2, <2>1, <2>2
<1>4. ASSUME \A m \in 1 .. n - 1 : v >= Weight(m), Size(v) < n PROVE FALSE
  <2>1. Size(v) \in 1 .. n - 1
    BY <1>1, <1>4
  <2> QED
    BY <1>1, <1>2, <1>4, <2>1
<1> QED
  BY <1>1, <1>3, <1>4

\* What encode_varint writes.
LEMMA EncodedBytes ==
  ASSUME NEW v \in Nat
  PROVE  /\ encode_varint(v) \in Seq(Byte)
         /\ Len(encode_varint(v)) = Size(v)
         /\ \A i \in 1 .. Size(v) : /\ Payload(encode_varint(v)[i]) = Digit(v, i)
                                    /\ More(encode_varint(v)[i]) <=> i < Size(v)
<1> DEFINE n == Size(v)
           s == [i \in 1 .. n |-> Digit(v, i)]
<1>1. n \in Nat \ {0}
  BY SizeDefined
<1> HIDE DEF n
<1>2. s \in [1 .. n -> 0 .. Group - 1]
  <2>1. \A i \in 1 .. n : Digit(v, i) \in 0 .. Group - 1
    BY DigitRange
  <2> QED
    BY <2>1
<1>3. \A i \in 1 .. n : s[i] = Digit(v, i)
  OBVIOUS
<1>4. encode_varint(v) = Linked(s)
  BY DEF encode_varint, n
<1> HIDE DEF s
<1>5. /\ Linked(s) \in Seq(Byte) /\ Len(Linked(s)) = n
      /\ \A i \in 1 .. n : Payload(Linked(s)[i]) = s[i] /\ (More(Linked(s)[i]) <=> i < n)
  BY <1>1, <1>2, LinkedBytes
<1> QED
  BY <1>3, <1>4, <1>5 DEF n

\* The first bytes of two sequences, one behind the other.
LEMMA FirstBytes ==
  ASSUME NEW s \in Seq(Byte), NEW p \in Seq(Byte), NEW k \in 0 .. Len(s) + Len(p)
  PROVE  /\ SubSeq(s \o p, 1, k) \in Seq(Byte) /\ Len(SubSeq(s \o p, 1, k)) = k
         /\ k < Len(s) => \A i \in 1 .. k : SubSeq(s \o p, 1, k)[i] = s[i]
         /\ k >= Len(s) => /\ SubSeq(p, 1, k - Len(s)) \in Seq(Byte)
                           /\ Len(SubSeq(p, 1, k - Len(s))) = k - Len(s)
                           /\ SubSeq(s \o p, 1, k) = s \o SubSeq(p, 1, k - Len(s))
<1> DEFINE f == s \o p
           in == SubSeq(f, 1, k)
           tail == SubSeq(p, 1, k - Len(s))
<1>1. /\ Len(s) \in Nat /\ Len(p) \in Nat
      /\ f \in Seq(Byte) /\ Len(f) = Len(s) + Len(p)
      /\ \A i \in 1 .. Len(f) : f[i] = IF i <= Len(s) THEN s[i] ELSE p[i - Len(s)]
  BY ConcatProperties
<1> HIDE DEF f
<1>2. in \in Seq(Byte) /\ Len(in) = k /\ \A i \in 1 .. k : in[i] = f[i]
  BY <1>1
<1>3. k < Len(s) => \A i \in 1 .. k : in[i] = s[i]
  BY <1>1, <1>2
<1>4. ASSUME k >= Len(s)
      PROVE  tail \in Seq(Byte) /\ Len(tail) = k - Len(s) /\ in = s \o tail
  <2>1. k - Len(s) \in 0 .. Len(p)
    BY <1>1, <1>4
  <2>2. /\ tail \in Seq(Byte) /\ Len(tail) = k - Len(s)
        /\ \A i \in 1 .. k - Len(s) : tail[i] = p[i]
    BY <2>1
  <2> HIDE DEF tail, in
  <2> DEFINE g == s \o tail
  <2>3. /\ g \in Seq(Byte) /\ Len(g) = k
        /\ \A i \in 1 .. k : g[i] = IF i <= Len(s) THEN s[i] ELSE tail[i - Len(s)]
    BY <1>1, <2>2, ConcatProperties
  <2> HIDE DEF g
  <2>4. ASSUME NEW i \in 1 .. k PROVE in[i] = g[i]
    <3>1. in[i] = f[i] /\ i \in 1 .. Len(f)
      BY <1>1, <1>2
    <3>2. CASE i <= Len(s)
      BY <3>1, <3>2, <1>1, <2>3
    <3>3. CASE ~(i <= Len(s))
      <4>1. i - Len(s) \in 1 .. k - Len(s)
        BY <3>3, <1>1
      <4> QED
        BY <3>1, <3>3, <4>1, <1>1, <2>2, <2>3
    <3> QED
      BY <3>2, <3>3
  <2>5. in = g
    BY <1>2, <2>3, <2>4, SeqEqual, Zenon
  <2> QED
    BY <2>2, <2>5 DEF g
<1> QED
  BY <1>2, <1>3, <1>4 DEF f

\* What a reader that waits for enough bytes makes of a frame of which the
\* first k bytes arrive.
LEMMA LengthOfFrame ==
  ASSUME NEW p \in Seq(Byte), NEW limit \in Nat, NEW k \in 0 .. Size(Len(p)) + Len(p),
         k >= Size(Len(p)) => Size(Len(p)) <= limit + 1
  PROVE  LET n == Size(Len(p))
             in == SubSeq(Frame(p), 1, k)
         IN  /\ Len(Frame(p)) = n + Len(p) /\ Len(in) = k
             /\ k < n => LengthBefore(in, limit) = Failed
             /\ k >= n => LengthBefore(in, limit) = Got(Len(p), SubSeq(p, 1, k - n))
<1> DEFINE n == Size(Len(p))
           in == SubSeq(Frame(p), 1, k)
<1>0. /\ n = Size(Len(p)) /\ in = SubSeq(Frame(p), 1, k)
      /\ k \in 0 .. n + Len(p) /\ (k >= n => n <= limit + 1)
  OBVIOUS
<1> HIDE DEF n, in
<1> DEFINE v == Len(p)
           s == encode_varint(v)
           tail == SubSeq(p, 1, k - n)
<1>1. /\ v \in Nat /\ n \in Nat \ {0} /\ v < Weight(n) /\ Weight(n) \in Nat \ {0}
      /\ s \in Seq(Byte) /\ Len(s) = n
      /\ \A i \in 1 .. n : Payload(s[i]) = Digit(v, i) /\ (More(s[i]) <=> i < n)
  <2>1. v \in Nat
    OBVIOUS
  <2> HIDE DEF v, s
  <2>2. Size(v) \in 1 .. v + 1 /\ v < Weight(Size(v))
    BY <2>1, SizeDefined
  <2>3. n = Size(v)
    BY <1>0 DEF v
  <2>4. n \in Nat \ {0} /\ v < Weight(n)
    BY <2>1, <2>2, <2>3
  <2>5. /\ s \in Seq(Byte) /\ Len(s) = n
        /\ \A i \in 1 .. n : Payload(s[i]) = Digit(v, i) /\ (More(s[i]) <=> i < n)
    BY <2>1, <2>3, EncodedBytes DEF s
  <2> QED
    BY <2>1, <2>4, <2>5, Weights
<1>2. Frame(p) = s \o p
  BY DEF Frame
<1> HIDE DEF s, v
<1>3. /\ Len(Frame(p)) = n + Len(p)
      /\ in \in Seq(Byte) /\ Len(in) = k
      /\ k < n => \A i \in 1 .. k : in[i] = s[i]
      /\ k >= n => tail \in Seq(Byte) /\ in = s \o tail
  <2>1. k \in 0 .. Len(s) + Len(p) /\ in = SubSeq(s \o p, 1, k)
    BY <1>0, <1>1, <1>2
  <2>2. Len(s \o p) = Len(s) + Len(p)
    BY <1>1, ConcatProperties
  <2>3. /\ SubSeq(s \o p, 1, k) \in Seq(Byte) /\ Len(SubSeq(s \o p, 1, k)) = k
        /\ k < Len(s) => \A i \in 1 .. k : SubSeq(s \o p, 1, k)[i] = s[i]
        /\ k >= Len(s) => /\ SubSeq(p, 1, k - Len(s)) \in Seq(Byte)
                          /\ Len(SubSeq(p, 1, k - Len(s))) = k - Len(s)
                          /\ SubSeq(s \o p, 1, k) = s \o SubSeq(p, 1, k - Len(s))
    <3>1. s \in Seq(Byte) /\ k \in 0 .. Len(s) + Len(p)
      BY <1>1, <2>1
    <3> QED
      BY <3>1, FirstBytes, Zenon
  <2>4. Len(s) = n /\ Frame(p) = s \o p
    BY <1>1, <1>2
  <2> QED
    BY <2>1, <2>2, <2>3, <2>4, Zenon
<1>4. ASSUME k < n PROVE LengthBefore(in, limit) = Failed
  <2>1. ASSUME NEW i \in 1 .. Len(in) PROVE More(in[i])
    <3>1. i \in 1 .. k /\ i \in 1 .. n /\ i < n
      BY <1>1, <1>3, <1>4
    <3>2. in[i] = s[i]
      BY <1>3, <1>4, <3>1
    <3> QED
      BY <1>1, <3>1, <3>2
  <2>2. End(in) = 0
    <3>1. Len(in) \in Nat
      BY <1>3
    <3> QED
      BY <2>1, <3>1, EndMissing
  <2> QED
    BY <2>2 DEF LengthBefore
<1>5. ASSUME k >= n PROVE LengthBefore(in, limit) = Got(v, tail)
  <2> HIDE DEF tail
  <2>1. tail \in Seq(Byte) /\ in = s \o tail
    BY <1>3, <1>5
  <2>2. End(in) = n /\ Results(in)[n] = v % Weight(n) /\ After(in, n) = tail
    <3>1. /\ End(s \o tail) = n
          /\ Results(s \o tail)[n] = v % Weight(n)
          /\ After(s \o tail, n) = tail
      <4>1. /\ v \in Nat /\ n \in Nat \ {0} /\ tail \in Seq(Byte)
            /\ IsVarint(s, n, v)
        BY <1>1, <2>1 DEF IsVarint
      <4> QED
        BY ONLY <4>1, ReadBack
    <3> QED
      BY <2>1, <3>1
  <2>3. v % Weight(n) = v
    BY <1>1, DivSmall
  <2>4. n \in 1 .. limit + 1
    BY <1>0, <1>1, <1>5
  <2> QED
    BY <2>2, <2>3, <2>4 DEF LengthBefore
<1> QED
  BY <1>3, <1>4, <1>5 DEF v, n, in

\* Of what is behind the length, a reader takes the payload or refuses.
LEMMA CompleteOrNot ==
  ASSUME NEW p \in Seq(Byte), NEW j \in 0 .. Len(p)
  PROVE  LET size == Got(Len(p), SubSeq(p, 1, j))
         IN  /\ Complete(size).ok <=> j = Len(p)
             /\ Complete(size).ok => Complete(size).value = p
             /\ Read(size).ok /\ Read(size).value = SubSeq(p, 1, j)
<1> DEFINE rest == SubSeq(p, 1, j)
           size == Got(Len(p), rest)
<1>1. /\ rest \in Seq(Byte) /\ Len(rest) = j /\ Len(p) \in Nat
      /\ SubSeq(p, 1, Len(p)) = p /\ SubSeq(rest, 1, Len(rest)) = rest
  <2>1. rest \in Seq(Byte) /\ Len(rest) = j /\ Len(p) \in Nat
    OBVIOUS
  <2> HIDE DEF rest
  <2> QED
    BY <2>1, SubSeqFull
<1>2. j = Len(p) => rest = p
  BY <1>1
<1> HIDE DEF rest
<1>3. size.ok = TRUE /\ size.value = Len(p) /\ size.rest = rest
  BY DEF Got
<1> HIDE DEF size
<1>4. Shorter(Len(p), Len(rest)) = j
  <2>1. Len(rest) = j /\ Len(p) \in Nat
    BY <1>1
  <2> QED
    BY <2>1 DEF Shorter
<1>5. Read(size) = Got(rest, After(rest, Len(p)))
  BY <1>1, <1>3, <1>4 DEF Read
<1>6. Read(size).ok = TRUE /\ Read(size).value = rest
  BY <1>5 DEF Got
<1>7. Complete(size) = IF j >= Len(p) THEN Read(size) ELSE Failed
  BY <1>1, <1>3 DEF Complete
<1>8. Complete(size).ok <=> j = Len(p)
  BY <1>6, <1>7 DEF Failed
<1> QED
  BY <1>2, <1>6, <1>7, <1>8 DEF size, rest

\* A length that fits a uint32_t fits the bytes every reader allows for it.
LEMMA LengthFits ==
  ASSUME NEW v \in Nat, v < Max32
  PROVE  /\ LengthBytes \in Nat \ {0}
         /\ Size(v) \in 1 .. LengthBytes
         /\ LengthBytes <= Bits64 \div GroupBits + 1
<1> DEFINE full == Bits32 \div GroupBits
<1>1. /\ full \in Nat \ {0} /\ full < Bits64 \div GroupBits /\ Bits64 \div GroupBits \in Nat
      /\ GroupBits \in Nat \ {0} /\ Bits32 \in Nat
      /\ Bits32 = GroupBits * full + (Bits32 % GroupBits)
      /\ Bits32 % GroupBits \in 1 .. GroupBits - 1
  BY Widths
<1> HIDE DEF full
<1>2. Bits32 <= GroupBits * (full + 1) /\ GroupBits * (full + 1) \in Nat
  BY <1>1
<1>3. Max32 <= Weight(full + 1)
  BY <1>1, <1>2, Pow2Monotone DEF Max32, Weight
<1>4. v < Weight(full + 1)
  <2>1. Max32 \in Nat /\ Weight(full + 1) \in Nat
    BY <1>1, <1>2, Pow2Defined DEF Max32, Weight
  <2> QED
    BY <1>3, <2>1
<1>5. Size(v) <= full + 1
  BY <1>1, <1>4, SizeUnique, full + 1 \in Nat \ {0}
<1>6. Size(v) \in 1 .. v + 1
  BY SizeDefined
<1> QED
  BY <1>1, <1>5, <1>6 DEF LengthBytes, full

\* The bits above those that a modulus drops do not change a group below them.
LEMMA DigitBelow ==
  ASSUME NEW v \in Nat, NEW w \in Nat \ {0}, NEW g \in Nat \ {0}, NEW n \in Nat \ {0},
         n % w = 0, (n \div w) % g = 0
  PROVE  ((v % n) \div w) % g = (v \div w) % g
<1> DEFINE u == v \div w
           m == n \div w
           k == m \div g
<1>01. m \in Nat \ {0} /\ n = w * m
  <2>1. m \in Nat /\ n = w * m + (n % w)
    BY DivMod
  <2>2. m = 0 => w * m = 0
    OBVIOUS
  <2> HIDE DEF m
  <2> QED
    BY <2>1, <2>2
<1>02. m % g = 0
  OBVIOUS
<1> HIDE DEF m
<1>0. k \in Nat \ {0} /\ u \in Nat /\ m = g * k
  <2>1. k \in Nat /\ m = g * k + (m % g)
    BY <1>01, DivMod
  <2>2. k = 0 => g * k = 0
    OBVIOUS
  <2> HIDE DEF k
  <2>3. m = g * k /\ k # 0
    BY <2>1, <2>2, <1>01, <1>02
  <2> QED
    BY <2>1, <2>3, DivMod
<1> HIDE DEF k
<1>1. k \in Nat \ {0} /\ u \in Nat /\ m \in Nat \ {0}
  BY <1>0, <1>01
<1>2. v % (w * m) = w * (u % m) + (v % w)
  <2>1. v % (w * m) = (v % w) + w * (u % m)
    <3>1. v \in Nat /\ w \in Nat \ {0} /\ m \in Nat \ {0}
      BY <1>1
    <3> QED
      BY ONLY <3>1, Regroup
  <2>2. v % w \in Nat /\ u % m \in Nat
    <3> HIDE DEF u
    <3>1. u % m \in Nat
      BY <1>1, DivMod
    <3>2. v % w \in Nat
      BY DivMod
    <3> QED
      BY <3>1, <3>2
  <2> DEFINE a == v % w
             b == w * (u % m)
  <2>3. a \in Nat /\ b \in Nat
    <3> HIDE DEF u
    <3> QED
      BY <2>2
  <2> HIDE DEF a, b
  <2>4. a + b = b + a
    BY <2>3
  <2> QED
    BY <2>1, <2>4 DEF a, b
<1>3. (v % (w * m)) \div w = u % m
  <2>1. v % w \in 0 .. w - 1
    BY DivMod
  <2> HIDE DEF u
  <2>2. u % m \in Nat
    BY <1>1, DivMod
  <2> DEFINE q == u % m
             r == v % w
  <2>3. q \in Nat /\ r \in 0 .. w - 1
    BY <2>1, <2>2
  <2> HIDE DEF q, r
  <2>4. (w * q + r) \div w = q
    BY <2>3, DivUnique
  <2> QED
    BY <1>2, <2>4 DEF q, r
<1>4. (u % m) % g = u % g
  <2> HIDE DEF u
  <2>1. u % m = (u % g) + g * ((u \div g) % k)
    <3>1. u \in Nat /\ g \in Nat \ {0} /\ k \in Nat \ {0}
      BY <1>1
    <3>2. u % (g * k) = (u % g) + g * ((u \div g) % k)
      BY ONLY <3>1, Regroup, ZenonT(30)
    <3> QED
      BY <3>2, <1>0
  <2>2. u % g \in 0 .. g - 1 /\ (u \div g) % k \in Nat
    <3>1. u % g \in 0 .. g - 1 /\ u \div g \in Nat
      BY <1>1, DivMod
    <3>2. (u \div g) % k \in Nat
      BY <1>1, <3>1, DivMod
    <3> QED
      BY <3>1, <3>2
  <2>3. ((u % g) + g * ((u \div g) % k)) % g = (u % g) % g
    <3> DEFINE x == u % g
               y == (u \div g) % k
    <3> x \in Nat /\ y \in Nat
      BY <2>2
    <3> HIDE DEF x, y
    <3>1. (x + g * y) % g = x % g
      BY ModMultiple
    <3> QED
      BY <3>1 DEF x, y
  <2>4. (u % g) % g = u % g
    <3> DEFINE x == u % g
    <3> x \in Nat /\ x < g
      BY <2>2
    <3> HIDE DEF x
    <3>1. x % g = x
      BY DivSmall
    <3> QED
      BY <3>1 DEF x
  <2> QED
    BY <2>1, <2>3, <2>4
<1> QED
  BY <1>3, <1>4, <1>01

\* How the two words of a value share the byte between them.
LEMMA Words ==
  LET full == Bits32 \div GroupBits
      left == Bits32 % GroupBits
  IN  /\ full \in Nat \ {0}
      /\ Pow2[left] \in Nat \ {0} /\ Pow2[GroupBits - left] \in Nat \ {0}
      /\ Group = Pow2[left] * Pow2[GroupBits - left]
      /\ Max32 = Weight(full) * Pow2[left]
      /\ Max32 \in Nat \ {0}
<1> DEFINE full == Bits32 \div GroupBits
           left == Bits32 % GroupBits
<1>1. /\ full \in Nat \ {0} /\ left \in 1 .. GroupBits - 1
      /\ GroupBits \in Nat \ {0} /\ Bits32 \in Nat
      /\ Bits32 = GroupBits * full + left
  BY Widths
<1> HIDE DEF full, left
<1>2. /\ left \in Nat /\ GroupBits - left \in Nat /\ left + (GroupBits - left) = GroupBits
      /\ GroupBits * full \in Nat
  BY <1>1
<1>3. Group = Pow2[left] * Pow2[GroupBits - left]
  BY <1>2, Pow2Add DEF Group
<1>4. Max32 = Weight(full) * Pow2[left]
  BY <1>1, <1>2, Pow2Add DEF Max32, Weight
<1>5. Max32 \in Nat \ {0} /\ Pow2[left] \in Nat \ {0} /\ Pow2[GroupBits - left] \in Nat \ {0}
  BY <1>1, <1>2, Pow2Positive DEF Max32
<1> QED
  BY <1>1, <1>3, <1>4, <1>5 DEF full, left

\* The bytes that pb_encode_varint_32 makes of the words of a value are the
\* groups of the value.
LEMMA WordsAsDigits ==
  ASSUME NEW v \in Nat, NEW i \in Nat \ {0}
  PROVE  LET full == Bits32 \div GroupBits
             left == Bits32 % GroupBits
             fill == Pow2[GroupBits - left]
             low == v % Max32
             high == v \div Max32
         IN  /\ i <= full => Digit(low, i) = Digit(v, i)
             /\ i = full + 1 => Digit(low, i) + (high % fill) * Pow2[left] = Digit(v, i)
             /\ i > full + 1 => Digit(high \div fill, i - (full + 1)) = Digit(v, i)
<1> DEFINE full == Bits32 \div GroupBits
           left == Bits32 % GroupBits
           fill == Pow2[GroupBits - left]
           L == Pow2[left]
           W == Weight(full)
           low == v % Max32
           high == v \div Max32
<1>1. /\ full \in Nat \ {0} /\ L \in Nat \ {0} /\ fill \in Nat \ {0}
      /\ Group = L * fill /\ Max32 = W * L /\ Max32 \in Nat \ {0}
  BY Words
<1> HIDE DEF full, left, fill, L, W
<1>2. W \in Nat \ {0} /\ W = Weight(full) /\ Group \in Nat \ {0}
  BY <1>1, Weights DEF W
<1>3. low \in 0 .. Max32 - 1 /\ high \in Nat
  BY <1>1, DivMod
<1> HIDE DEF low, high
<1>4. ASSUME i <= full PROVE Digit(low, i) = Digit(v, i)
  <2> DEFINE w == Weight(i - 1)
             r == Weight(full - i)
             k == r * L
  <2>1. i - 1 \in Nat /\ full - i \in Nat /\ (i - 1) + 1 = i /\ i + (full - i) = full
    BY <1>1, <1>4
  <2>2. w \in Nat \ {0} /\ r \in Nat \ {0} /\ k \in Nat \ {0}
    <3>1. w \in Nat \ {0} /\ r \in Nat \ {0}
      BY <2>1, Weights
    <3> HIDE DEF w, r
    <3> QED
      BY <1>1, <3>1, ProductPositive
  <2>3. Weight(i) = w * Group /\ W = Weight(i) * r
    <3>1. Weight((i - 1) + 1) = w * Group
      BY <2>1, Weights
    <3>2. Weight(i + (full - i)) = Weight(i) * r
      BY <2>1, WeightsGrow
    <3> QED
      BY <3>1, <3>2, <2>1, <1>2
  <2>4. Max32 = w * Group * k
    <3> HIDE DEF w, r
    <3>1. Max32 = ((w * Group) * r) * L
      BY <2>3, <1>1
    <3> QED
      BY <3>1, <2>2, <1>1, <1>2
  <2> HIDE DEF w, k
  <2>5. (low \div w) % Group = (v \div w) % Group
    <3>1. ((v % Max32) \div w) % Group = (v \div w) % Group
      <4> DEFINE m == Group * k
      <4>1. v \in Nat /\ w \in Nat \ {0} /\ Group \in Nat \ {0} /\ k \in Nat \ {0}
        BY <2>2, <1>2
      <4>2. m \in Nat \ {0} /\ m % Group = 0
        <5>1. (Group * k + 0) % Group = 0 /\ Group * k + 0 = Group * k
          BY <4>1, DivUnique
        <5> QED
          BY <4>1, <5>1, ProductPositive
      <4>3. Max32 = w * m /\ Max32 \in Nat \ {0}
        BY <2>4, <4>1, <1>1
      <4> HIDE DEF m
      <4>4. (w * m + 0) \div w = m /\ (w * m + 0) % w = 0
        BY <4>1, <4>2, DivUnique
      <4>5. Max32 \div w = m /\ Max32 % w = 0
        BY <4>1, <4>2, <4>3, <4>4
      <4>6. Max32 \in Nat \ {0} /\ Max32 % w = 0 /\ (Max32 \div w) % Group = 0
        BY <4>2, <4>3, <4>5
      <4> QED
        BY ONLY <4>1, <4>6, DigitBelow
    <3> QED
      BY <3>1 DEF low
  <2>6. low \in Nat
    BY <1>1, <1>3
  <2> QED
    BY <2>5, <2>6, DigitRange DEF w
<1>5. ASSUME i = full + 1
      PROVE  Digit(low, i) + (high % fill) * L = Digit(v, i)
  <2> DEFINE u == v \div W
  <2>1. u \in Nat /\ low = (v % W) + W * (u % L) /\ high = u \div L
    <3>1. u \in Nat
      BY <1>2, DivMod
    <3>2. v % (W * L) = (v % W) + W * (u % L)
      BY <1>1, <1>2, Regroup, ZenonT(30) DEF u
    <3>3. u \div L = v \div (W * L)
      <4> HIDE DEF u
      <4>0. v \in Nat /\ W \in Nat \ {0} /\ L \in Nat \ {0}
        BY <1>1, <1>2
      <4>1. (v \div W) \div L = v \div (W * L)
        BY ONLY <4>0, Regroup
      <4> QED
        BY <4>1 DEF u
    <3> QED
      BY <3>1, <3>2, <3>3, <1>1 DEF low, high
  <2> HIDE DEF u
  <2>2. u % L \in 0 .. L - 1
    BY <1>1, <2>1, DivMod
  <2>3. low \div W = u % L
    <3>1. v % W \in 0 .. W - 1
      BY <1>2, DivMod
    <3>2. u % L \in Nat
      BY <2>2
    <3>3. (W * (u % L) + (v % W)) \div W = u % L
      BY <1>2, <3>1, <3>2, DivUnique
    <3>4. low = W * (u % L) + (v % W)
      <4> DEFINE a == v % W
                 b == W * (u % L)
      <4> a \in Nat /\ b \in Nat
        BY <3>1, <3>2, <1>2
      <4> HIDE DEF a, b
      <4>1. a + b = b + a
        OBVIOUS
      <4> QED
        BY <2>1, <4>1 DEF a, b
    <3> QED
      BY <3>3, <3>4
  <2>4. (u % L) % Group = u % L
    <3> DEFINE x == u % L
    <3>1. L <= Group
      BY <1>1
    <3>2. x \in Nat /\ x < Group
      BY <2>2, <3>1, <1>1, <1>2
    <3> HIDE DEF x
    <3>3. x % Group = x
      BY <3>2, <1>2, DivSmall
    <3> QED
      BY <3>3 DEF x
  <2>5. Digit(low, i) = u % L /\ Digit(v, i) = u % Group
    <3>1. low \in Nat /\ i - 1 = full
      BY <1>1, <1>3, <1>5
    <3>2. Digit(low, i) = (low \div Weight(i - 1)) % Group /\ Digit(v, i) = (v \div Weight(i - 1)) % Group
      BY <3>1, DigitRange
    <3>3. Digit(low, i) = (low \div W) % Group /\ Digit(v, i) = (v \div W) % Group
      BY <3>1, <3>2, <1>2
    <3> QED
      BY <3>3, <2>3, <2>4 DEF u
  <2>6. u % (L * fill) = (u % L) + L * ((u \div L) % fill)
    BY <1>1, <2>1, Regroup, ZenonT(30)
  <2>7. L * (high % fill) = (high % fill) * L
    <3> DEFINE x == high % fill
    <3>1. x \in Nat
      BY <1>1, <1>3, DivMod
    <3> HIDE DEF x
    <3>2. L * x = x * L
      BY <3>1, <1>1
    <3> QED
      BY <3>2 DEF x
  <2> QED
    BY <2>1, <2>5, <2>6, <2>7, <1>1
<1>6. ASSUME i > full + 1 PROVE Digit(high \div fill, i - (full + 1)) = Digit(v, i)
  <2> DEFINE j == i - (full + 1)
             z == v \div Weight(full + 1)
             w == Weight(j - 1)
  <2>1. j \in Nat \ {0} /\ j - 1 \in Nat /\ full + 1 \in Nat /\ i - 1 = (full + 1) + (j - 1)
    BY <1>1, <1>6
  <2>2. Weight(full + 1) = Max32 * fill /\ Weight(full + 1) \in Nat \ {0}
    <3>1. Weight(full + 1) = W * Group /\ Weight(full + 1) \in Nat \ {0}
      BY <1>1, <1>2, <2>1, Weights
    <3>2. W * Group = W * (L * fill) /\ W * (L * fill) = (W * L) * fill
      BY <1>1, <1>2
    <3> QED
      BY <3>1, <3>2, <1>1
  <2>3. high \div fill = z
    <3>1. (v \div Max32) \div fill = v \div (Max32 * fill)
      BY <1>1, Regroup
    <3> QED
      BY <3>1, <2>2 DEF high
  <2>4. w \in Nat \ {0} /\ Weight(i - 1) = Weight(full + 1) * w
    <3>1. Weight((full + 1) + (j - 1)) = Weight(full + 1) * w
      BY <2>1, WeightsGrow
    <3> QED
      BY <3>1, <2>1, Weights
  <2>5. z \div w = v \div Weight(i - 1)
    <3> DEFINE y == Weight(full + 1)
    <3>1. y \in Nat \ {0}
      BY <2>2
    <3> HIDE DEF y, w
    <3>2. (v \div y) \div w = v \div (y * w)
      BY <3>1, <2>4, Regroup
    <3> QED
      BY <3>2, <2>4 DEF y
  <2>6. z \in Nat
    BY <2>2, DivMod
  <2> HIDE DEF z, j
  <2>7. Digit(z, j) = (z \div w) % Group
    BY <2>1, <2>6, DigitRange
  <2>8. Digit(v, i) = (v \div Weight(i - 1)) % Group
    BY DigitRange
  <2> QED
    BY <2>3, <2>5, <2>7, <2>8 DEF j
<1> QED
  BY <1>4, <1>5, <1>6 DEF full, left, fill, L, low, high

\* The loops of pb_encode_varint_32 end when no bits of either word are left.
LEMMA WordsLeft ==
  ASSUME NEW v \in Nat, NEW n \in Nat \ {0}
  PROVE  LET full == Bits32 \div GroupBits
             fill == Pow2[GroupBits - (Bits32 % GroupBits)]
             low == v % Max32
             high == v \div Max32
         IN  /\ n <= full => (low \div Weight(n) = 0 /\ high = 0 <=> v < Weight(n))
             /\ n > full => ((high \div fill) \div Weight(n - (full + 1)) = 0 <=> v < Weight(n))
<1> DEFINE full == Bits32 \div GroupBits
           left == Bits32 % GroupBits
           fill == Pow2[GroupBits - left]
           L == Pow2[left]
           W == Weight(full)
           low == v % Max32
           high == v \div Max32
<1>1. /\ full \in Nat \ {0} /\ L \in Nat \ {0} /\ fill \in Nat \ {0}
      /\ Group = L * fill /\ Max32 = W * L /\ Max32 \in Nat \ {0}
  BY Words
<1> HIDE DEF full, left, fill, L, W
<1>2. W \in Nat \ {0} /\ W = Weight(full) /\ Weight(n) \in Nat \ {0}
  BY <1>1, Weights DEF W
<1>3. low \in 0 .. Max32 - 1 /\ high \in Nat /\ (high = 0 <=> v < Max32) /\ (v < Max32 => low = v)
  BY <1>1, DivMod, DivSmall
<1>4. ASSUME n <= full PROVE low \div Weight(n) = 0 /\ high = 0 <=> v < Weight(n)
  <2>1. Weight(n) <= W
    BY <1>1, <1>2, <1>4, WeightsGrow
  <2>2. W <= Max32
    <3>1. W * L >= W
      BY <1>1, <1>2
    <3> QED
      BY <3>1, <1>1
  <2>3. v < Weight(n) => v < Max32
    BY <1>1, <1>2, <2>1, <2>2
  <2>4. low \div Weight(n) = 0 <=> low < Weight(n)
    <3>1. low \in Nat
      BY <1>1, <1>3
    <3> HIDE DEF low
    <3> QED
      BY <3>1, <1>2, DivSmall
  <2> HIDE DEF low, high
  <2> QED
    BY <1>3, <2>3, <2>4
<1>5. ASSUME n > full
      PROVE  (high \div fill) \div Weight(n - (full + 1)) = 0 <=> v < Weight(n)
  <2> DEFINE j == n - (full + 1)
             y == Weight(full + 1)
             w == Weight(j)
             z == v \div y
  <2>1. j \in Nat /\ full + 1 \in Nat /\ n = (full + 1) + j
    BY <1>1, <1>5
  <2>2. y = Max32 * fill /\ y \in Nat \ {0}
    <3>1. y = W * Group /\ y \in Nat \ {0}
      BY <1>1, <1>2, <2>1, Weights
    <3>2. W * Group = W * (L * fill) /\ W * (L * fill) = (W * L) * fill
      BY <1>1, <1>2
    <3> QED
      BY <3>1, <3>2, <1>1
  <2>3. high \div fill = z
    <3>1. (v \div Max32) \div fill = v \div (Max32 * fill)
      BY <1>1, Regroup
    <3> QED
      BY <3>1, <2>2
  <2>4. w \in Nat \ {0} /\ Weight(n) = y * w
    <3>1. Weight((full + 1) + j) = y * w
      BY <2>1, WeightsGrow
    <3> QED
      BY <3>1, <2>1, Weights
  <2> HIDE DEF y, w, j
  <2>5. z \div w = v \div Weight(n)
    <3>1. (v \div y) \div w = v \div (y * w)
      BY <2>2, <2>4, Regroup
    <3> QED
      BY <3>1, <2>4
  <2>6. v \div Weight(n) = 0 <=> v < Weight(n)
    BY <1>2, DivSmall
  <2> QED
    BY <2>3, <2>5, <2>6 DEF w, j
<1> QED
  BY <1>4, <1>5 DEF full, left, fill

\* pb_encode_varint, which shifts two words, writes what encode_varint writes,
\* which shifts one number of any size.
THEOREM BoardsWriteTheSame ==
  ASSUME NEW v \in Nat, v < Max64
  PROVE  pb_encode_varint(v) = encode_varint(v)
<1> DEFINE full == Bits32 \div GroupBits
           left == Bits32 % GroupBits
           fill == Pow2[GroupBits - left]
           low == v % Max32
           high == v \div Max32
           byte(i) ==
             CASE i <= full     -> Digit(low, i)
               [] i = full + 1  -> Digit(low, i) + (high % fill) * Pow2[left]
               [] i > full + 1  -> Digit(high \div fill, i - (full + 1))
           done(n) ==
             IF n <= full THEN low \div Weight(n) = 0 /\ high = 0
             ELSE (high \div fill) \div Weight(n - (full + 1)) = 0
           Least(n) == done(n) /\ \A m \in 1 .. n - 1 : ~done(m)
           size == CHOOSE n \in 1 .. Bits64 : Least(n)
<1>1. /\ full \in Nat \ {0} /\ Bits64 \in Nat \ {0}
      /\ Size(v) \in Nat \ {0} /\ v < Weight(Size(v))
      /\ \A m \in 1 .. Size(v) - 1 : v >= Weight(m)
  <2>1. full \in Nat \ {0} /\ Bits64 \in Nat \ {0}
    BY Widths
  <2>2. /\ Size(v) \in 1 .. v + 1 /\ v < Weight(Size(v))
        /\ \A m \in 1 .. Size(v) - 1 : v >= Weight(m)
    BY SizeDefined
  <2> HIDE DEF full
  <2> QED
    BY <2>1, <2>2
<1>2. ASSUME NEW n \in Nat \ {0} PROVE (done(n) <=> v < Weight(n)) /\ byte(n) = Digit(v, n)
  <2>1. /\ n <= full => (low \div Weight(n) = 0 /\ high = 0 <=> v < Weight(n))
        /\ n > full => ((high \div fill) \div Weight(n - (full + 1)) = 0 <=> v < Weight(n))
    BY WordsLeft
  <2>2. /\ n <= full => Digit(low, n) = Digit(v, n)
        /\ n = full + 1 => Digit(low, n) + (high % fill) * Pow2[left] = Digit(v, n)
        /\ n > full + 1 => Digit(high \div fill, n - (full + 1)) = Digit(v, n)
    BY WordsAsDigits
  <2> HIDE DEF full, left, fill, low, high
  <2>3. done(n) <=> v < Weight(n)
    BY <1>1, <2>1
  <2>4. byte(n) = Digit(v, n)
    <3>1. CASE n <= full
      BY <3>1, <2>2, <1>1
    <3>2. CASE n = full + 1
      BY <3>2, <2>2, <1>1
    <3>3. CASE n > full + 1
      BY <3>3, <2>2, <1>1
    <3> QED
      BY <3>1, <3>2, <3>3, <1>1
  <2> QED
    BY <2>3, <2>4
<1> HIDE DEF done, byte
<1>3. Size(v) \in 1 .. Bits64
  <2>1. v < Weight(Bits64)
    <3>1. GroupBits * Bits64 \in Nat /\ Bits64 <= GroupBits * Bits64
      <4>1. GroupBits \in Nat \ {0} /\ Bits64 \in Nat \ {0}
        BY Widths
      <4> QED
        BY ONLY <4>1
    <3>2. Max64 <= Weight(Bits64) /\ Max64 \in Nat /\ Weight(Bits64) \in Nat
      BY <1>1, <3>1, Pow2Monotone, Pow2Defined DEF Max64, Weight
    <3> QED
      BY <3>2
  <2> QED
    BY <1>1, <2>1, SizeUnique
<1>4. Least(Size(v))
  <2>1. done(Size(v))
    BY <1>1, <1>2
  <2>2. ASSUME NEW m \in 1 .. Size(v) - 1 PROVE ~done(m)
    <3>1. m \in Nat \ {0} /\ v >= Weight(m) /\ Weight(m) \in Nat
      BY <1>1, Weights
    <3> QED
      BY <1>2, <3>1
  <2> QED
    BY <2>1, <2>2
<1>5. size = Size(v)
  <2>1. size \in 1 .. Bits64 /\ Least(size)
    <3> HIDE DEF Least
    <3> QED
      BY <1>3, <1>4
  <2> HIDE DEF size
  <2>2. size \in Nat \ {0} /\ v < Weight(size)
    BY <1>1, <1>2, <2>1
  <2>3. ASSUME NEW m \in 1 .. size - 1 PROVE v >= Weight(m)
    <3>1. m \in Nat \ {0} /\ ~done(m) /\ Weight(m) \in Nat
      BY <2>1, <2>2, Weights
    <3> QED
      BY <1>2, <3>1
  <2> QED
    BY <2>2, <2>3, SizeUnique
<1>6. pb_encode_varint_32(low, high) = Linked([i \in 1 .. size |-> byte(i)])
  BY Zenon DEF pb_encode_varint_32, Weight, byte, done
<1>7. pb_encode_varint_32(low, high) = encode_varint(v)
  <2> HIDE DEF size
  <2>1. [i \in 1 .. size |-> byte(i)] = [i \in 1 .. Size(v) |-> Digit(v, i)]
    BY <1>1, <1>2, <1>5
  <2> QED
    BY <1>6, <2>1 DEF encode_varint
<1>8. ASSUME v < Group PROVE <<v>> = encode_varint(v)
  <2>1. Weight(1) = Group /\ Group \in Nat \ {0} /\ Weight(0) = 1
    <3>1. Weight(0 + 1) = Weight(0) * Group /\ Weight(0) = 1 /\ Group \in Nat \ {0}
      BY Weights
    <3> QED
      BY <3>1
  <2>2. Size(v) = 1
    BY <1>8, <2>1, SizeUnique
  <2>3. Digit(v, 1) = v
    <3>1. Digit(v, 1) = (v \div 1) % Group
      BY <2>1, DigitRange
    <3>2. v \div 1 = v /\ v % Group = v
      BY <1>8, <2>1, DivSmall
    <3> QED
      BY <3>1, <3>2
  <2>4. encode_varint(v) = Linked([i \in 1 .. 1 |-> v])
    BY <2>2, <2>3 DEF encode_varint
  <2>5. [i \in 1 .. 1 |-> v] = <<v>>
    OBVIOUS
  <2>6. Linked(<<v>>) = <<v>>
    BY DEF Linked
  <2> QED
    BY <2>4, <2>5, <2>6
<1>9. v % Max64 = v
  <2>1. Max64 \in Nat \ {0}
    BY Rooms
  <2> QED
    BY <2>1, DivSmall
<1> HIDE DEF low, high
<1>10. pb_encode_varint(v) = IF v < Group THEN <<v>> ELSE pb_encode_varint_32(low, high)
  BY <1>9 DEF pb_encode_varint, low, high
<1> QED
  BY <1>7, <1>8, <1>10

\* What is written is read.
THEOREM WrittenIsRead ==
  ASSUME NEW v \in Nat, v < Max64
  PROVE  pb_decode_varint(pb_encode_varint(v)) = Got(v, << >>)
<1> DEFINE s == encode_varint(v)
           n == Size(v)
<1>1. /\ s \in Seq(Byte) /\ Len(s) = n
      /\ \A i \in 1 .. n : Payload(s[i]) = Digit(v, i) /\ (More(s[i]) <=> i < n)
  BY EncodedBytes
<1>2. n \in Nat \ {0} /\ v < Weight(n) /\ Weight(n) \in Nat \ {0}
  <2>1. n \in 1 .. v + 1 /\ v < Weight(n)
    BY SizeDefined
  <2> HIDE DEF n
  <2> QED
    BY <2>1, Weights
<1>3. pb_encode_varint(v) = s
  BY BoardsWriteTheSame
<1>4. n <= Whole64 + 1
  <2>1. Max64 <= Weight(Whole64 + 1) /\ Max64 \in Nat /\ Weight(Whole64 + 1) \in Nat
    <3> DEFINE W == Weight(Whole64)
    <3>1. /\ Weight(Whole64 + 1) = W * Group /\ W \in Nat \ {0} /\ Max64 = W * Room64
          /\ Group \in Nat /\ Room64 \in Nat /\ Room64 <= Group
      BY Weights, Rooms, Positions
    <3> HIDE DEF W
    <3>2. W * Room64 <= W * Group /\ W * Room64 \in Nat /\ W * Group \in Nat
      BY <3>1
    <3> QED
      BY <3>1, <3>2
  <2>2. Whole64 + 1 \in Nat \ {0} /\ v < Weight(Whole64 + 1)
    BY <2>1, Positions
  <2> QED
    BY <2>2, SizeUnique
<1> HIDE DEF s, n
<1>5. s \o << >> = s
  BY <1>1, ConcatEmptySeq
<1>6. /\ End(s) = n
      /\ Results(s)[n] = v % Weight(n)
      /\ After(s, n) = << >>
  <2>1. << >> \in Seq(Byte)
    OBVIOUS
  <2> DEFINE tail == << >>
  <2>2. tail \in Seq(Byte) /\ s \o tail = s /\ tail = << >>
    BY <2>1, <1>5
  <2> HIDE DEF tail
  <2>3. /\ End(s \o tail) = n
        /\ Results(s \o tail)[n] = v % Weight(n)
        /\ After(s \o tail, n) = tail
    <3>1. /\ v \in Nat /\ n \in Nat \ {0} /\ tail \in Seq(Byte)
          /\ IsVarint(s, n, v)
      BY <1>1, <1>2, <2>2 DEF IsVarint
    <3> QED
      BY ONLY <3>1, ReadBack
  <2> QED
    BY <2>2, <2>3
<1>7. Results(s)[n] = v
  BY <1>2, <1>6, DivSmall
<1>8. ASSUME NEW i \in 1 .. n PROVE ~Overflows(s[i], BitPos(i))
  <2>1. SUFFICES ASSUME BitPos(i) >= LastPos(Bits64) PROVE s[i] \div Room64 = 0
    BY DEF Overflows, Room64
  <2>2. i = Whole64 + 1 /\ i = n
    <3>1. i \in Nat \ {0} /\ i <= n
      BY <1>2
    <3>2. i >= Whole64 + 1 /\ Whole64 \in Nat
      BY <2>1, <3>1, Positions
    <3> QED
      BY <1>2, <1>4, <3>1, <3>2
  <2>3. s[i] = (v \div Weight(Whole64)) % Group
    <3>1. s[i] \in Byte /\ ~More(s[i]) /\ Payload(s[i]) = Digit(v, i)
      BY <1>1, <1>2, <2>2
    <3>2. s[i] = Digit(v, i)
      BY <3>1, ByteFacts
    <3>3. Digit(v, i) = (v \div Weight(i - 1)) % Group
      BY <1>2, <2>2, DigitRange
    <3>4. i - 1 = Whole64
      BY <2>2, Positions
    <3> QED
      BY <3>2, <3>3, <3>4
  <2> DEFINE W == Weight(Whole64)
             d == v \div W
  <2>4. /\ W \in Nat \ {0} /\ Room64 \in Nat \ {0} /\ Room64 <= Group /\ Group \in Nat \ {0}
        /\ Max64 = W * Room64 /\ Max64 \in Nat \ {0}
    BY Weights, Rooms, Positions
  <2> HIDE DEF W
  <2>5. d \in Nat /\ d \div Room64 = 0
    <3>1. d \div Room64 = v \div (W * Room64) /\ d \in Nat
      BY <2>4, Regroup, DivMod
    <3>2. v \div Max64 = 0
      BY <2>4, DivSmall
    <3> QED
      BY <3>1, <3>2, <2>4
  <2> HIDE DEF d
  <2>6. d < Room64
    BY <2>4, <2>5, DivSmall
  <2>7. d % Group = d
    BY <2>4, <2>5, <2>6, DivSmall
  <2> QED
    BY <2>3, <2>5, <2>7 DEF d, W
<1> QED
  BY <1>2, <1>3, <1>6, <1>7, <1>8 DEF pb_decode_varint

\* What pb_decode_varint and pb_decode_varint32 make of any bytes.
LEMMA VarintsOf ==
  ASSUME NEW in \in Seq(Byte)
  PROVE  LET wide == pb_decode_varint(in)
             narrow == pb_decode_varint32(in)
         IN  /\ narrow.ok => /\ wide.ok
                             /\ narrow.value = wide.value % Max32
                             /\ narrow.rest = wide.rest
             /\ wide.ok /\ (wide.value < Max32 \/ wide.value >= Max64 - Pow2[Bits32 - 1])
                   => narrow.ok
             /\ wide.ok => pb_decode_varint(pb_encode_varint(wide.value)) =
                               Got(wide.value, << >>)
<1> DEFINE n == End(in)
           wide == pb_decode_varint(in)
           narrow == pb_decode_varint32(in)
           fits == \A i \in 1 .. n : ~Overflows(in[i], BitPos(i))
           valid == \A i \in 1 .. n : Valid(in, i)
           v == Results(in)[n]
<1>1. wide = IF n # 0 /\ fits THEN Got(v, After(in, n)) ELSE Failed
  BY DEF pb_decode_varint
<1>2. narrow = IF n # 0 /\ valid THEN Got(Narrow(in, n), After(in, n)) ELSE Failed
  BY NarrowDecodes
<1>3. n # 0 /\ valid => fits
  BY NarrowInWide
<1>4. n # 0 /\ fits => v < Max64
  BY WideFits
<1>5. n # 0 /\ fits /\ (v < Max32 \/ v >= Max64 - Pow2[Bits32 - 1]) => valid
  BY SmallAccepted, NegativeAccepted DEF Sign32
<1>6. n # 0 => v \in Nat /\ Narrow(in, n) = v % Max32
  <2> SUFFICES ASSUME n # 0 PROVE v \in Nat /\ Narrow(in, n) = v % Max32
    OBVIOUS
  <2>1. n \in 1 .. Len(in) /\ Len(in) \in Nat
    <3>1. Len(in) \in Nat
      OBVIOUS
    <3>2. n \in 0 .. Len(in)
      BY <3>1, EndDefined
    <3> HIDE DEF n
    <3> QED
      BY <3>1, <3>2
  <2> HIDE DEF n
  <2>2. v \in Nat
    <3>1. n \in 0 .. Len(in) /\ Results(in) \in [0 .. Len(in) -> Nat]
      BY <2>1, ResultsDefined
    <3> QED
      BY <3>1
  <2>3. CASE n <= Whole32 + 1
    <3>1. Shorter(n, Whole32 + 1) = n
      BY <2>1, <2>3, Positions DEF Shorter
    <3> QED
      BY <2>2, <3>1 DEF Narrow
  <2>4. CASE ~(n <= Whole32 + 1)
    <3> DEFINE k == Whole32 + 1
    <3>1. Shorter(n, k) = k /\ k \in 0 .. Len(in) /\ n \in k .. Len(in) /\ k >= Whole32 + 1
      BY <2>1, <2>4, Positions DEF Shorter
    <3>2. v % Max32 = Results(in)[k] % Max32
      BY <3>1, ResultsGrow
    <3> QED
      BY <2>2, <3>1, <3>2 DEF Narrow
  <2> QED
    BY <2>3, <2>4
<1> HIDE DEF fits, valid, v, n
<1>7. n # 0 /\ fits => pb_decode_varint(pb_encode_varint(v)) = Got(v, << >>)
  BY <1>4, <1>6, WrittenIsRead
<1>8. ASSUME narrow.ok
      PROVE  /\ wide.ok /\ narrow.value = wide.value % Max32 /\ narrow.rest = wide.rest
  <2> HIDE DEF wide, narrow
  <2>1. n # 0 /\ valid
    BY <1>2, <1>8 DEF Failed
  <2> QED
    BY <1>1, <1>2, <1>3, <1>6, <2>1 DEF Got
<1>9. ASSUME wide.ok
      PROVE  n # 0 /\ fits /\ wide.value = v
  <2> HIDE DEF wide
  <2> QED
    BY <1>1, <1>9 DEF Got, Failed
<1>10. ASSUME wide.ok, wide.value < Max32 \/ wide.value >= Max64 - Pow2[Bits32 - 1]
       PROVE  narrow.ok
  <2>1. n # 0 /\ valid
    BY <1>5, <1>9, <1>10
  <2> HIDE DEF wide, narrow
  <2> QED
    BY <1>2, <2>1 DEF Got
<1>11. ASSUME wide.ok
       PROVE  pb_decode_varint(pb_encode_varint(wide.value)) = Got(wide.value, << >>)
  BY <1>7, <1>9, <1>11
<1> HIDE DEF wide, narrow
<1> QED
  BY <1>8, <1>10, <1>11 DEF wide, narrow

-----------------------------------------------------------------------------

\* What the relay board makes of a frame whose length is one byte: at its first
\* look it has seen that byte, if it has seen anything, and so knows the length.
LEMMA BoardReadsShort ==
  ASSUME NEW p \in Seq(Byte), Len(p) < Group, Len(p) < Max32, NEW junk,
         NEW k \in 0 .. Len(Frame(p)), NEW first \in 0 .. k
  PROVE  LET board == board_read(SubSeq(Frame(p), 1, k), first, junk)
         IN  board.ok => board.value = p
<1> DEFINE in == SubSeq(Frame(p), 1, k)
<1> SUFFICES ASSUME board_read(in, first, junk).ok
             PROVE  board_read(in, first, junk).value = p
  OBVIOUS
<1>0. in = SubSeq(Frame(p), 1, k)
  OBVIOUS
<1> HIDE DEF in
<1> DEFINE v == Len(p)
           s == encode_varint(v)
           seen == SubSeq(in, 1, Shorter(first, LengthBytes))
           tail == SubSeq(p, 1, k - 1)
           varint == SubSeq(seen, 1, 1)
<1>1. /\ Size(v) = 1 /\ Weight(1) = Group /\ Weight(0) = 1 /\ Group \in Nat \ {0}
      /\ LengthBytes \in Nat \ {0} /\ v \in Nat
  <2>1. Weight(0 + 1) = Weight(0) * Group /\ Weight(0) = 1 /\ Group \in Nat \ {0}
    BY Weights
  <2>2. Weight(1) = Group
    BY <2>1
  <2>3. v \in Nat
    OBVIOUS
  <2>4. Size(v) = 1
    BY <2>1, <2>2, <2>3, SizeUnique
  <2>5. LengthBytes \in Nat \ {0}
    <3> DEFINE full == Bits32 \div GroupBits
    <3>1. full \in Nat
      BY Widths
    <3> HIDE DEF full
    <3> QED
      BY <3>1 DEF LengthBytes, full
  <2> QED
    BY <2>1, <2>2, <2>3, <2>4, <2>5
<1>2. /\ s \in Seq(Byte) /\ Len(s) = 1
      /\ Payload(s[1]) = Digit(v, 1) /\ ~More(s[1])
  <2> HIDE DEF v
  <2>1. /\ s \in Seq(Byte) /\ Len(s) = Size(v)
        /\ \A i \in 1 .. Size(v) : /\ Payload(s[i]) = Digit(v, i)
                                   /\ More(s[i]) <=> i < Size(v)
    BY <1>1, EncodedBytes
  <2> HIDE DEF s
  <2>2. 1 \in 1 .. Size(v) /\ ~(1 < Size(v))
    BY <1>1
  <2> QED
    BY <1>1, <2>1, <2>2
<1>3. Frame(p) = s \o p
  BY DEF Frame
<1> HIDE DEF s
<1>4. first # 0
  BY DEF board_read, Failed
<1>5. k >= 1 /\ k - 1 \in 0 .. Len(p)
  <2>1. Len(s \o p) = Len(s) + Len(p)
    <3>1. s \in Seq(Byte) /\ p \in Seq(Byte)
      BY <1>2
    <3> QED
      BY ONLY <3>1, ConcatProperties
  <2>2. Len(Frame(p)) = 1 + v /\ v \in Nat
    BY <1>1, <1>2, <1>3, <2>1
  <2> HIDE DEF v
  <2>3. k >= 1 /\ k - 1 \in 0 .. v
    BY <1>4, <2>2
  <2> QED
    BY <2>3 DEF v
<1>6. tail \in Seq(Byte) /\ Len(tail) = k - 1 /\ in = s \o tail
  <2>1. k \in 0 .. Len(s) + Len(p) /\ k >= Len(s)
    BY <1>2, <1>5
  <2>2. /\ SubSeq(p, 1, k - Len(s)) \in Seq(Byte)
        /\ Len(SubSeq(p, 1, k - Len(s))) = k - Len(s)
        /\ SubSeq(s \o p, 1, k) = s \o SubSeq(p, 1, k - Len(s))
    <3>1. s \in Seq(Byte) /\ k \in 0 .. Len(s) + Len(p) /\ k >= Len(s)
      BY <1>2, <2>1
    <3> QED
      BY <3>1, FirstBytes, Zenon
  <2> QED
    BY <1>0, <1>2, <1>3, <2>2
<1> HIDE DEF tail
<1>7. in \in Seq(Byte) /\ Len(in) = k /\ in[1] = s[1] /\ After(in, 1) = tail
  <2>1. in \in Seq(Byte) /\ Len(in) = k /\ in[1] = s[1]
    <3>1. /\ s \o tail \in Seq(Byte) /\ Len(s \o tail) = Len(s) + Len(tail)
          /\ (s \o tail)[1] = s[1]
      <4>1. 1 \in 1 .. Len(s) + Len(tail) /\ 1 <= Len(s)
        BY <1>2, <1>5, <1>6
      <4>2. s \in Seq(Byte) /\ tail \in Seq(Byte)
        BY <1>2, <1>6
      <4> HIDE DEF seen, varint
      <4> QED
        BY ONLY <4>1, <4>2, ConcatProperties
    <3> QED
      BY <1>2, <1>5, <1>6, <3>1
  <2>2. After(s \o tail, 1) = tail
    <3>1. /\ v \in Nat /\ 1 \in Nat \ {0} /\ tail \in Seq(Byte)
          /\ IsVarint(s, 1, v)
      BY <1>1, <1>2, <1>6 DEF IsVarint
    <3> QED
      BY ONLY <3>1, ReadBack
  <2> QED
    BY <1>6, <2>1, <2>2
<1>8. seen \in Seq(Byte) /\ Len(seen) \in Nat \ {0} /\ seen[1] = s[1]
  <2>1. Shorter(first, LengthBytes) \in 1 .. k
    BY <1>1, <1>4 DEF Shorter
  <2> QED
    BY <1>7, <2>1
<1> HIDE DEF seen
<1>9. End(seen) = 1
  <2>1. Ends(seen, 1)
    BY <1>2, <1>8 DEF Ends
  <2> QED
    BY <1>8, <2>1, EndFound
<1>10. varint \in Seq(Byte) /\ Len(varint) = 1 /\ varint[1] = s[1]
  BY <1>8
<1> HIDE DEF varint
<1>11. Results(varint)[1] = v
  <2>1. \A i \in 1 .. 1 : Payload(varint[i]) = Digit(v, i)
    BY <1>2, <1>10
  <2>2. \A i \in 0 .. 1 : Results(varint)[i] = v % Weight(i)
    <3>1. v \in Nat /\ varint \in Seq(Byte) /\ 1 \in 0 .. Len(varint)
      BY <1>1, <1>10
    <3> QED
      BY ONLY <2>1, <3>1, ResultsOfDigits
  <2>3. v % Group = v
    BY <1>1, DivSmall
  <2> QED
    BY <1>1, <2>2, <2>3
<1>12. v % Max32 = v
  <2>1. Max32 \in Nat \ {0}
    BY Widths, Pow2Positive DEF Max32
  <2> QED
    BY <1>1, <2>1, DivSmall
<1>13. board_read(in, first, junk) = Complete(Got(v, tail))
  BY <1>12, <1>4, <1>7, <1>9, <1>10, <1>11 DEF board_read, seen, varint
<1>14. Complete(Got(v, tail)).ok => Complete(Got(v, tail)).value = p
  BY <1>5, CompleteOrNot DEF tail
<1> QED
  BY <1>13, <1>14

\* What every reader makes of a frame of which the first bytes arrive.
LEMMA FrameRead ==
  ASSUME NEW p \in Seq(Byte), Len(p) < Max32,
         NEW k \in 0 .. Len(Frame(p)), NEW in, in = SubSeq(Frame(p), 1, k)
  PROVE  /\ Len(in) = k
         /\ gateway_read(in).ok <=> k = Len(Frame(p))
         /\ gateway_read(in).ok => gateway_read(in).value = p
         /\ bridge_read(in).ok <=> k = Len(Frame(p))
         /\ bridge_read(in).ok => bridge_read(in).value = p
         /\ api_read(in).ok =>
               api_read(in).value = SubSeq(p, 1, Len(api_read(in).value))
         /\ k = Len(Frame(p)) => api_read(in).ok /\ api_read(in).value = p
<1> DEFINE n == Size(Len(p))
           j == k - n
           got == Got(Len(p), SubSeq(p, 1, j))
           last == Bits64 \div GroupBits
<1>1. /\ n \in Nat \ {0} /\ n <= LengthBytes /\ n <= last + 1
      /\ LengthBytes \in Nat /\ last \in Nat /\ Len(p) \in Nat
  <2>1. LengthBytes \in Nat \ {0} /\ n \in 1 .. LengthBytes /\ LengthBytes <= last + 1
    BY LengthFits
  <2>2. last \in Nat
    BY Widths
  <2> HIDE DEF n, last
  <2> QED
    BY <2>1, <2>2
<1>2. Len(Frame(p)) = n + Len(p)
  <2>1. encode_varint(Len(p)) \in Seq(Byte) /\ Len(encode_varint(Len(p))) = n
    BY EncodedBytes
  <2> QED
    BY <2>1 DEF Frame
<1> HIDE DEF n, last
<1>3. k \in 0 .. n + Len(p)
  BY <1>2
<1>4. ASSUME NEW limit \in Nat, k >= n => n <= limit + 1
      PROVE  /\ Len(in) = k
             /\ k < n => LengthBefore(in, limit) = Failed
             /\ k >= n => LengthBefore(in, limit) = got
  BY <1>3, <1>4, LengthOfFrame DEF n
<1>5. Len(in) = k
  BY <1>1, <1>4
<1>6. /\ k < n => LengthBefore(in, LengthBytes) = Failed /\ LengthBefore(in, Len(in)) = Failed
                  /\ LengthBefore(in, last) = Failed
      /\ k >= n => LengthBefore(in, LengthBytes) = got /\ LengthBefore(in, Len(in)) = got
                   /\ LengthBefore(in, last) = got
  <2> HIDE DEF got
  <2>1. /\ k < n => LengthBefore(in, LengthBytes) = Failed
        /\ k >= n => LengthBefore(in, LengthBytes) = got
    BY <1>1, <1>4
  <2>2. /\ k < n => LengthBefore(in, last) = Failed
        /\ k >= n => LengthBefore(in, last) = got
    BY <1>1, <1>4
  <2>3. /\ k < n => LengthBefore(in, Len(in)) = Failed
        /\ k >= n => LengthBefore(in, Len(in)) = got
    <3>1. k \in Nat /\ (k >= n => n <= k + 1)
      BY <1>1, <1>3
    <3> QED
      BY <1>4, <1>5, <3>1
  <2> QED
    BY <2>1, <2>2, <2>3
<1>7. ASSUME k < n PROVE ~gateway_read(in).ok /\ ~bridge_read(in).ok /\ ~api_read(in).ok
  BY <1>6, <1>7 DEF gateway_read, bridge_read, api_read, Complete, Failed, last
<1>8. ASSUME k >= n
      PROVE  /\ gateway_read(in) = Complete(got) /\ bridge_read(in) = Complete(got)
             /\ api_read(in) = Read(got)
             /\ Complete(got).ok <=> j = Len(p)
             /\ Complete(got).ok => Complete(got).value = p
             /\ Read(got).ok /\ Read(got).value = SubSeq(p, 1, j)
  <2>1. j \in 0 .. Len(p)
    BY <1>1, <1>3, <1>8
  <2> HIDE DEF j
  <2>2. got.ok
    BY DEF Got
  <2>3. /\ Complete(got).ok <=> j = Len(p)
        /\ Complete(got).ok => Complete(got).value = p
        /\ Read(got).ok /\ Read(got).value = SubSeq(p, 1, j)
    BY <2>1, CompleteOrNot
  <2> HIDE DEF got
  <2>4. /\ gateway_read(in) = Complete(got) /\ bridge_read(in) = Complete(got)
        /\ api_read(in) = Read(got)
    BY <1>6, <1>8, <2>2 DEF gateway_read, bridge_read, api_read, last
  <2> QED
    BY <2>3, <2>4
<1> HIDE DEF got
<1>9. CASE k < n
  BY <1>1, <1>2, <1>5, <1>7, <1>9
<1>10. CASE k >= n
  <2>1. /\ j = Len(p) <=> k = Len(Frame(p))
        /\ j \in 0 .. Len(p)
    BY <1>1, <1>2, <1>3, <1>10
  <2>2. Len(SubSeq(p, 1, j)) = j /\ SubSeq(p, 1, Len(p)) = p
    BY <2>1, SubSeqFull
  <2> HIDE DEF j
  <2> QED
    BY <1>5, <1>8, <1>10, <2>1, <2>2
<1> QED
  BY <1>1, <1>9, <1>10

\* A step of the readers of frames.
LEMMA FramesStep ==
  ASSUME FramesReadWhole, [WireNext]_wireVars
  PROVE  FramesReadWhole'
<1> SUFFICES ASSUME stage' = "frame"
             PROVE  FramesReadWhole'
  BY DEF FramesReadWhole
<1>1. CASE UNCHANGED wireVars
  BY <1>1 DEF FramesReadWhole, wireVars
<1>2. CASE ReadVarint
  BY <1>2 DEF ReadVarint
<1>3. ASSUME NEW p \in Payloads, NEW junk \in Junk, ReadFrame(p, junk)
      PROVE  FramesReadWhole'
  <2> PICK arrived \in 0 .. Len(Frame(p)) :
         LET in == SubSeq(Frame(p), 1, arrived)
         IN  /\ wire' = in
             /\ \E first \in 0 .. arrived :
                   result' = [gateway |-> gateway_read(in), bridge |-> bridge_read(in),
                              api |-> api_read(in), board |-> board_read(in, first, junk)]
    BY <1>3 DEF ReadFrame
  <2> DEFINE in == SubSeq(Frame(p), 1, arrived)
  <2> PICK first \in 0 .. arrived :
         result' = [gateway |-> gateway_read(in), bridge |-> bridge_read(in),
                    api |-> api_read(in), board |-> board_read(in, first, junk)]
    OBVIOUS
  <2>1. parts' = <<p>> /\ wire' = in
    BY <1>3 DEF ReadFrame
  <2>2. p \in Seq(Byte) /\ Len(p) < Max32 /\ Len(p) \in Nat
    BY InputAssumption
  <2>3. /\ Len(in) = arrived
        /\ gateway_read(in).ok <=> arrived = Len(Frame(p))
        /\ gateway_read(in).ok => gateway_read(in).value = p
        /\ bridge_read(in).ok <=> arrived = Len(Frame(p))
        /\ bridge_read(in).ok => bridge_read(in).value = p
        /\ api_read(in).ok =>
              api_read(in).value = SubSeq(p, 1, Len(api_read(in).value))
        /\ arrived = Len(Frame(p)) => api_read(in).ok /\ api_read(in).value = p
    BY <2>2, FrameRead
  <2>4. board_read(in, first, junk).ok /\ Len(p) < Group =>
           board_read(in, first, junk).value = p
    BY <2>2, BoardReadsShort, Zenon
  <2>5. encode_varint(Len(p)) = pb_encode_varint(Len(p))
    <3>1. Max32 <= Max64 /\ Max32 \in Nat /\ Max64 \in Nat
      <4>1. /\ Bits32 \in Nat /\ Bits64 \in Nat /\ LastPos(Bits64) \in Nat
            /\ Bits32 <= LastPos(Bits64) /\ LastPos(Bits64) <= Bits64
        <5>1. Bits32 \in Nat /\ Bits64 \in Nat /\ GroupBits \in Nat \ {0}
          BY Widths
        <5>2. Bits64 % GroupBits \in 0 .. GroupBits - 1 /\ Bits32 <= LastPos(Bits64)
          BY <5>1, Widths, DivMod
        <5> DEFINE r == Bits64 % GroupBits
        <5>3. r \in Nat
          BY <5>1, <5>2
        <5> HIDE DEF r
        <5>4. Bits32 <= Bits64 - r
          BY <5>2 DEF LastPos, r
        <5> QED
          BY <5>1, <5>3, <5>4 DEF LastPos, r
      <4>2. Bits32 <= Bits64
        BY <4>1
      <4> QED
        BY <4>1, <4>2, Pow2Monotone, Pow2Defined DEF Max32, Max64
    <3> QED
      BY <2>2, <3>1, BoardsWriteTheSame
  <2> HIDE DEF in
  <2> QED
    BY <2>1, <2>3, <2>4, <2>5 DEF FramesReadWhole
<1> QED
  BY <1>1, <1>2, <1>3 DEF WireNext

\* Whatever the widths, the messages and the place at which the connection
\* breaks off: what a reader hands to the decoder is the message as it was sent,
\* or nothing.  (read_delimited_message_bytes, send_tcp_command_to_device,
\* processTCPCommands, read_delimited_message)
THEOREM FramesAreReadWhole == WireSpec => []FramesReadWhole
<1>1. WireInit => FramesReadWhole
  BY DEF WireInit, FramesReadWhole
<1>2. FramesReadWhole /\ [WireNext]_wireVars => FramesReadWhole'
  BY FramesStep
<1> QED
  BY <1>1, <1>2, PTL DEF WireSpec

\* A step of the readers of varints.
LEMMA VarintsStep ==
  ASSUME VarintsAgree, [WireNext]_wireVars
  PROVE  VarintsAgree'
<1> SUFFICES ASSUME stage' = "varint"
             PROVE  VarintsAgree'
  BY DEF VarintsAgree
<1>1. CASE UNCHANGED wireVars
  BY <1>1 DEF VarintsAgree, wireVars
<1>2. CASE ReadVarint
  <2>1. wire' \in Seq(Byte)
    BY <1>2, InputAssumption DEF ReadVarint
  <2> QED
    BY <2>1, VarintsOf DEF VarintsAgree
<1>3. ASSUME NEW p \in Payloads, NEW junk \in Junk, ReadFrame(p, junk)
      PROVE  FALSE
  BY <1>3 DEF ReadFrame
<1> QED
  BY <1>1, <1>2, <1>3 DEF WireNext

\* Whatever the widths and whatever the bytes: the two readers of a varint agree
\* as far as both accept it, the shorter one takes all it has room for, and what
\* the board writes is read as what was written.
\* (pb_decode_varint, pb_decode_varint32 and pb_encode_varint)
THEOREM VarintsReadAlike == WireSpec => []VarintsAgree
<1>1. WireInit => VarintsAgree
  BY DEF WireInit, VarintsAgree
<1>2. VarintsAgree /\ [WireNext]_wireVars => VarintsAgree'
  BY VarintsStep
<1> QED
  BY <1>1, <1>2, PTL DEF WireSpec

=============================================================================
