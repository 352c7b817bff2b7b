--------------------------- MODULE RoundTrip_proofs ---------------------------
(***************************************************************************)
(* A message is decoded as it was encoded, for all widths, all descriptors *)
(* that FieldsAssumption allows and all structures: from what              *)
(* BoardCodec_proofs says of the encoder and of the decoder, each for      *)
(* itself, what one does with the bytes of the other.                      *)
(*                                                                         *)
(* Sent(m) are the fields of m that are encoded.  While the bytes of m are *)
(* decoded into a structure s, the fields D of Sent(m) that are through    *)
(* make it Mix(s, m, D).  The bytes b fill in the fields A (Fills) if the  *)
(* decoder gets through them, whatever was there before and whatever       *)
(* follows, and A is what they add to D.  Bytes that fill in something,    *)
(* one after the other, fill in both (FillsBoth); a submessage does, if    *)
(* its contents do (SubmessageFills); and what the encoder writes for the  *)
(* message at p fills in all that is sent under p (MessagesFill, upwards   *)
(* from the deepest places).  So the bytes of m fill in Sent(m), after     *)
(* which s is MergeInto(s, m) (MixEnds), and bytes of an unknown field     *)
(* fill in nothing (UnknownFills).                                         *)
(*                                                                         *)
(* Of the same structure the encoder makes the same bytes, and what is     *)
(* decoded fits, so that it can be encoded again.  Of a field in the       *)
(* envelope nothing but the whole is read (Whole).  TripInv says what the  *)
(* bytes on their way were made of; with it the properties follow.         *)
(***************************************************************************)
EXTENDS BoardCodec_proofs

-----------------------------------------------------------------------------
(* Reading does not depend on what follows                                 *)

\* Bytes with others behind them.
LEMMA BytesBefore ==
  ASSUME NEW in \in Seq(Byte), NEW rest \in Seq(Byte)
  PROVE  /\ in \o rest \in Seq(Byte) /\ Len(in \o rest) = Len(in) + Len(rest)
         /\ Len(in) \in Nat /\ Len(rest) \in Nat
         /\ \A i \in 1 .. Len(in) : (in \o rest)[i] = in[i] /\ in[i] \in Byte
  OBVIOUS

\* What is left after some of the bytes.
LEMMA AfterBefore ==
  ASSUME NEW in \in Seq(Byte), NEW rest \in Seq(Byte), NEW n \in 0 .. Len(in)
  PROVE  /\ After(in \o rest, n) = After(in, n) \o rest
         /\ SubSeq(in \o rest, 1, n) = SubSeq(in, 1, n)
<1> DEFINE all == in \o rest
           l == After(all, n)
           r == After(in, n) \o rest
<1>1. /\ all \in Seq(Byte) /\ Len(all) = Len(in) + Len(rest)
      /\ Len(in) \in Nat /\ Len(rest) \in Nat
      /\ \A i \in 1 .. Len(in) : all[i] = in[i]
      /\ \A i \in 1 .. Len(rest) : all[Len(in) + i] = rest[i]
  OBVIOUS
<1> HIDE DEF all
<1>2. l \in Seq(Byte) /\ Len(l) = Len(in) + Len(rest) - n
  <2>1. n \in 0 .. Len(all)
    BY <1>1
  <2>2. After(all, n) \in Seq(Byte) /\ Len(After(all, n)) = Len(all) - n
    BY <1>1, <2>1, PartsOfBytes
  <2> QED
    BY <1>1, <2>2
<1>3. After(in, n) \in Seq(Byte) /\ Len(After(in, n)) = Len(in) - n
  BY PartsOfBytes
<1>4. r \in Seq(Byte) /\ Len(r) = Len(in) + Len(rest) - n
  <2>1. ASSUME NEW x \in Seq(Byte), Len(x) = Len(in) - n
        PROVE  x \o rest \in Seq(Byte) /\ Len(x \o rest) = Len(in) + Len(rest) - n
    <3>1. x \o rest \in Seq(Byte) /\ Len(x \o rest) = Len(x) + Len(rest)
      BY BytesBefore
    <3> QED
      BY <1>1, <2>1, <3>1
  <2> QED
    BY <1>3, <2>1
<1>5. ASSUME NEW i \in 1 .. Len(in) + Len(rest) - n PROVE l[i] = r[i]
  <2>1. l[i] = all[i + n]
    BY <1>1 DEF After
  <2>2. CASE i <= Len(in) - n
    <3>1. r[i] = After(in, n)[i] /\ After(in, n)[i] = in[i + n]
      BY <1>1, <1>3, <2>2 DEF After
    <3>2. all[i + n] = in[i + n]
      BY <1>1, <2>2
    <3> QED
      BY <2>1, <3>1, <3>2
  <2>3. CASE i > Len(in) - n
    <3>1. r[i] = rest[i - (Len(in) - n)]
      BY <1>1, <1>3, <2>3, SMTT(30)
    <3>2. i - (Len(in) - n) \in 1 .. Len(rest) /\ Len(in) + (i - (Len(in) - n)) = i + n
      BY <1>1, <2>3
    <3>3. all[i + n] = rest[i - (Len(in) - n)]
      BY <1>1, <3>2
    <3> QED
      BY <2>1, <3>1, <3>3
  <2> HIDE DEF l, r
  <2> QED
    BY <1>1, <2>2, <2>3
<1>6. l = r
  <2> HIDE DEF l, r
  <2> QED
    BY <1>1, <1>2, <1>4, <1>5, SeqEqual
<1>7. SubSeq(all, 1, n) = SubSeq(in, 1, n)
  <2> DEFINE u == SubSeq(all, 1, n)
             v == SubSeq(in, 1, n)
  <2>1. /\ u \in Seq(Byte) /\ Len(u) = n /\ v \in Seq(Byte) /\ Len(v) = n
        /\ \A i \in 1 .. n : u[i] = all[i] /\ v[i] = in[i]
    <3>1. n \in 0 .. Len(all)
      BY <1>1
    <3> QED
      BY <1>1, <3>1, PartsOfBytes
  <2>2. \A i \in 1 .. n : u[i] = v[i]
    BY <1>1, <2>1
  <2> HIDE DEF u, v
  <2> QED
    BY <2>1, <2>2, SeqEqual
<1> QED
  BY <1>6, <1>7 DEF all

\* The values after each byte of a varint.
LEMMA ResultsBefore ==
  ASSUME NEW in \in Seq(Byte), NEW rest \in Seq(Byte)
  PROVE  \A i \in 0 .. Len(in) : Results(in \o rest)[i] = Results(in)[i]
<1> DEFINE all == in \o rest
           n == Len(in)
           T == {i \in 0 .. n : Results(all)[i] = Results(in)[i]}
<1>1. /\ all \in Seq(Byte) /\ Len(all) = n + Len(rest) /\ n \in Nat /\ Len(rest) \in Nat
      /\ \A i \in 1 .. n : all[i] = in[i]
  BY BytesBefore
<1> HIDE DEF all, n
<1>2. /\ Results(all)[0] = 0 /\ Results(in)[0] = 0
      /\ \A i \in 1 .. n : Results(in)[i] = Results(in)[i - 1] + Payload(in[i]) * Pow2[BitPos(i)]
      /\ \A i \in 1 .. n : Results(all)[i] = Results(all)[i - 1] + Payload(all[i]) * Pow2[BitPos(i)]
  <2>1. /\ Results(in)[0] = 0
        /\ \A i \in 1 .. n : Results(in)[i] = Results(in)[i - 1] + Payload(in[i]) * Pow2[BitPos(i)]
    BY ResultsDefined DEF n
  <2>2. /\ Results(all)[0] = 0
        /\ \A i \in 1 .. Len(all) : Results(all)[i] = Results(all)[i - 1] + Payload(all[i]) * Pow2[BitPos(i)]
    BY <1>1, ResultsDefined
  <2>3. \A i \in 1 .. n : i \in 1 .. Len(all)
    BY <1>1
  <2> QED
    BY <2>1, <2>2, <2>3
<1>3. 0 \in T
  BY <1>1, <1>2
<1>4. ASSUME NEW i \in 0 .. n - 1, i \in T PROVE i + 1 \in T
  <2>1. i + 1 \in 1 .. n /\ (i + 1) - 1 = i
    BY <1>1
  <2>2. Results(all)[i + 1] = Results(in)[i + 1]
    BY <1>1, <1>2, <1>4, <2>1
  <2> QED
    BY <2>1, <2>2
<1>5. 0 .. n \subseteq T
  <2> HIDE DEF T
  <2> QED
    BY <1>1, <1>3, <1>4, InductionUpTo
<1> QED
  BY <1>5 DEF all, n

\* The end of a varint.
LEMMA EndBefore ==
  ASSUME NEW in \in Seq(Byte), NEW rest \in Seq(Byte), End(in) # 0
  PROVE  End(in \o rest) = End(in) /\ End(in) \in 1 .. Len(in)
<1>1. Len(in) \in Nat /\ Len(in \o rest) = Len(in) + Len(rest) /\ Len(rest) \in Nat
  BY BytesBefore
<1>2. /\ End(in) \in 1 .. Len(in)
      /\ ~More(in[End(in)]) /\ \A i \in 1 .. End(in) - 1 : More(in[i])
  BY <1>1, EndDefined
<1>3. \A i \in 1 .. End(in) : (in \o rest)[i] = in[i]
  BY <1>1, <1>2, BytesBefore
<1>4. Ends(in \o rest, End(in))
  BY <1>1, <1>2, <1>3 DEF Ends
<1> QED
  BY <1>2, <1>4, EndFound

\* A read takes at least one byte, and the same if others follow.
Before(r, in, s, rest) ==
    r.ok => /\ r.rest \in Seq(Byte) /\ Len(r.rest) < Len(in)
            /\ s = Got(r.value, r.rest \o rest)

\* Varints.
LEMMA VarintBefore ==
  ASSUME NEW in \in Seq(Byte), NEW rest \in Seq(Byte)
  PROVE  /\ Before(pb_decode_varint(in), in, pb_decode_varint(in \o rest), rest)
         /\ Before(pb_decode_varint32(in), in, pb_decode_varint32(in \o rest), rest)
<1> DEFINE all == in \o rest
           n == End(in)
<1>1. /\ all \in Seq(Byte) /\ Len(all) = Len(in) + Len(rest)
      /\ Len(in) \in Nat /\ Len(rest) \in Nat /\ \A i \in 1 .. Len(in) : all[i] = in[i]
  BY BytesBefore
<1>2. ASSUME n # 0
      PROVE  /\ End(all) = n /\ n \in 1 .. Len(in)
             /\ After(all, n) = After(in, n) \o rest /\ After(in, n) \in Seq(Byte)
             /\ Len(After(in, n)) < Len(in)
  <2>1. End(all) = n /\ n \in 1 .. Len(in)
    BY <1>2, EndBefore
  <2>2. n \in 0 .. Len(in)
    BY <2>1
  <2> HIDE DEF n, all
  <2>3. After(in, n) \in Seq(Byte) /\ Len(After(in, n)) = Len(in) - n
    BY <2>2, PartsOfBytes
  <2> QED
    BY <1>1, <2>1, <2>2, <2>3, AfterBefore DEF all
<1>3. \A i \in 0 .. Len(in) : Results(all)[i] = Results(in)[i]
  BY ResultsBefore
<1> HIDE DEF all
<1>4. Before(pb_decode_varint(in), in, pb_decode_varint(all), rest)
  <2> SUFFICES ASSUME pb_decode_varint(in).ok
               PROVE  /\ pb_decode_varint(in).rest \in Seq(Byte)
                      /\ Len(pb_decode_varint(in).rest) < Len(in)
                      /\ pb_decode_varint(all) =
                            Got(pb_decode_varint(in).value, pb_decode_varint(in).rest \o rest)
    BY DEF Before
  <2>1. n # 0 /\ \A i \in 1 .. n : ~Overflows(in[i], BitPos(i))
    BY DEF pb_decode_varint, Failed
  <2>2. pb_decode_varint(in) = Got(Results(in)[n], After(in, n))
    BY <2>1 DEF pb_decode_varint
  <2>3. \A i \in 1 .. n : ~Overflows(all[i], BitPos(i))
    BY <1>1, <1>2, <2>1
  <2>4. End(all) = n /\ Results(all)[n] = Results(in)[n] /\ After(all, n) = After(in, n) \o rest
    BY <1>2, <1>3, <2>1
  <2> HIDE DEF n
  <2>5. pb_decode_varint(all) = Got(Results(in)[n], After(in, n) \o rest)
    BY <2>1, <2>3, <2>4 DEF pb_decode_varint
  <2> QED
    BY <1>2, <2>1, <2>2, <2>5 DEF Got
<1>5. Before(pb_decode_varint32(in), in, pb_decode_varint32(all), rest)
  <2> DEFINE r == pb_decode_varint32(in)
  <2>1. r = IF n = 0 \/ \E i \in 1 .. n : ~Valid(in, i) THEN Failed
            ELSE Got(Narrow(in, n), After(in, n))
    BY NarrowDecodes
  <2>2. pb_decode_varint32(all) =
            IF End(all) = 0 \/ \E i \in 1 .. End(all) : ~Valid(all, i) THEN Failed
            ELSE Got(Narrow(all, End(all)), After(all, End(all)))
    BY NarrowDecodes
  <2> HIDE DEF r
  <2> SUFFICES ASSUME r.ok
               PROVE  /\ r.rest \in Seq(Byte) /\ Len(r.rest) < Len(in)
                      /\ pb_decode_varint32(all) = Got(r.value, r.rest \o rest)
    BY DEF Before, r
  <2>3. /\ n # 0 /\ \A i \in 1 .. n : Valid(in, i)
        /\ r = Got(Narrow(in, n), After(in, n))
    BY <2>1 DEF Failed
  <2>4. /\ End(all) = n /\ n \in 1 .. Len(in)
        /\ After(all, n) = After(in, n) \o rest /\ After(in, n) \in Seq(Byte)
        /\ Len(After(in, n)) < Len(in)
    BY <1>2, <2>3
  <2> HIDE DEF n
  <2>5. \A i \in 0 .. n : Narrow(all, i) = Narrow(in, i)
    <3> TAKE i \in 0 .. n
    <3>1. Shorter(i, Whole32 + 1) \in 0 .. Len(in)
      BY <1>1, <2>4, Positions DEF Shorter
    <3> QED
      BY <1>3, <3>1 DEF Narrow
  <2>6. \A i \in 1 .. n : Valid(all, i)
    <3> TAKE i \in 1 .. n
    <3>1. all[i] = in[i] /\ Narrow(all, i - 1) = Narrow(in, i - 1) /\ Valid(in, i)
      BY <1>1, <2>3, <2>4, <2>5
    <3> QED
      BY <3>1 DEF Valid
  <2>7. pb_decode_varint32(all) = Got(Narrow(in, n), After(in, n) \o rest)
    <3>1. Narrow(all, n) = Narrow(in, n)
      BY <2>4, <2>5
    <3> QED
      BY <2>2, <2>3, <2>4, <2>6, <3>1
  <2> QED
    BY <2>3, <2>4, <2>7 DEF Got
<1> QED
  BY <1>4, <1>5 DEF all

\* A varint that was written is read back, and what follows is left.
LEMMA VarintWritten ==
  ASSUME NEW v \in Nat, v < Max64, NEW rest \in Seq(Byte)
  PROVE  LET s == pb_encode_varint(v)
         IN  /\ s \in Seq(Byte) /\ Len(s) \in Nat \ {0}
             /\ pb_decode_varint(s \o rest) = Got(v, rest)
             /\ v < Max32 => pb_decode_varint32(s \o rest) = Got(v, rest)
<1> DEFINE s == pb_encode_varint(v)
           wide == pb_decode_varint(s)
           narrow == pb_decode_varint32(s)
<1>1. s \in Seq(Byte)
  BY VarintBytesWritten
<1>2. wide = Got(v, << >>)
  BY WrittenIsRead
<1>3. /\ Before(wide, s, pb_decode_varint(s \o rest), rest)
      /\ Before(narrow, s, pb_decode_varint32(s \o rest), rest)
  <2> HIDE DEF s
  <2> QED
    BY <1>1, VarintBefore
<1>4. v < Max32 => narrow.ok /\ narrow.value = v /\ narrow.rest = << >>
  <2> SUFFICES ASSUME v < Max32 PROVE narrow.ok /\ narrow.value = v /\ narrow.rest = << >>
    OBVIOUS
  <2>1. wide.ok /\ wide.value = v /\ wide.rest = << >>
    BY <1>2 DEF Got
  <2>2. narrow.ok
    <3> HIDE DEF s
    <3> QED
      BY <1>1, <2>1, VarintsOf
  <2>3. narrow.value = v % Max32 /\ narrow.rest = << >>
    <3> HIDE DEF s
    <3> QED
      BY <1>1, <2>1, <2>2, VarintsOf
  <2>4. v % Max32 = v
    BY Rooms, DivSmall
  <2> QED
    BY <2>2, <2>3, <2>4
<1>5. Len(s) \in Nat \ {0}
  <2>1. Len(wide.rest) < Len(s) /\ wide.rest = << >>
    BY <1>2, <1>3 DEF Before, Got
  <2>2. Len(<< >>) = 0
    OBVIOUS
  <2> HIDE DEF s, wide
  <2> QED
    BY <1>1, <2>1, <2>2
<1>6. << >> \o rest = rest
  OBVIOUS
<1>7. pb_decode_varint(s \o rest) = Got(v, rest)
  BY <1>2, <1>3, <1>6 DEF Before, Got
<1> HIDE DEF s, narrow, wide
<1>8. v < Max32 => pb_decode_varint32(s \o rest) = Got(v, rest)
  BY <1>3, <1>4, <1>6 DEF Before
<1> QED
  BY <1>1, <1>5, <1>7, <1>8 DEF s

\* An int32_t on its way through a uint64_t.
LEMMA Int32Written ==
  ASSUME NEW v \in -Sign32 .. Sign32 - 1
  PROVE  /\ v % Max64 \in 0 .. Max64 - 1
         /\ pb_encode_varint(v) = pb_encode_varint(v % Max64)
         /\ Signed32((v % Max64) % Max32) = v
<1>1. /\ Max32 \in Nat \ {0} /\ Max64 \in Nat \ {0} /\ Sign32 \in Nat \ {0} /\ Max32 = 2 * Sign32
      /\ Pow2[Bits32 - 1] = Sign32
  BY Rooms DEF Sign32
<1>2. PICK k \in Nat \ {0} : Max64 = Max32 * k
  <2>1. Bits32 \in Nat /\ Bits64 \in Nat /\ Bits32 <= Bits64
    BY Widths
  <2>2. Pow2[Bits64] = Pow2[Bits64 - Bits32] * Pow2[Bits32] /\ Bits64 - Bits32 \in Nat
    BY <2>1, Pow2Monotone
  <2>3. Pow2[Bits64 - Bits32] \in Nat \ {0}
    BY <2>2, Pow2Positive
  <2> QED
    BY <1>1, <2>2, <2>3 DEF Max32, Max64
<1>3. Max32 <= Max64
  <2>1. \A a, b \in Nat \ {0} : a <= a * b
    OBVIOUS
  <2> QED
    BY <1>1, <1>2, <2>1
<1> DEFINE w == v % Max64
<1>4. CASE v >= 0
  <2>1. v < Max32 /\ v < Max64 /\ v \in Nat
    BY <1>1, <1>3, <1>4
  <2>2. w = v /\ v % Max32 = v /\ v % Max64 = v
    BY <1>1, <2>1, DivSmall
  <2>3. Signed32(v) = v
    BY <1>1, <2>1 DEF Signed32
  <2> QED
    BY <1>1, <2>1, <2>2, <2>3
<1>5. CASE v < 0
  <2>1. v + Max64 \in 0 .. Max64 - 1 /\ v + Max32 \in 0 .. Max32 - 1 /\ v + Max32 >= Sign32
    BY <1>1, <1>3, <1>5
  <2>2. w = v + Max64
    <3>1. \A a \in Int, n \in Nat \ {0} : a < 0 /\ a + n >= 0 => a % n = a + n
      OBVIOUS
    <3> QED
      BY <1>1, <1>5, <2>1, <3>1
  <2>3. w % Max32 = v + Max32
    <3>1. w = (v + Max32) + Max32 * (k - 1) /\ k - 1 \in Nat
      <4>1. \A a, b \in Int : a * b = a + a * (b - 1)
        OBVIOUS
      <4>2. Max32 * k = Max32 + Max32 * (k - 1)
        BY <1>1, <4>1
      <4>3. Max32 * (k - 1) \in Int
        BY <1>1
      <4> QED
        BY <1>1, <1>2, <2>2, <4>2, <4>3
    <3> HIDE DEF w
    <3>2. ASSUME NEW x \in Nat PROVE (x + Max32 * (k - 1)) % Max32 = x % Max32
      BY <1>1, <3>1, ModMultiple, ZenonT(30)
    <3>3. v + Max32 \in Nat /\ v + Max32 < Max32
      BY <2>1, <1>1
    <3>4. w % Max32 = (v + Max32) % Max32
      BY <3>1, <3>2, <3>3
    <3>5. \A x \in Nat : x < Max32 => x % Max32 = x
      BY <1>1, DivSmall
    <3> QED
      BY <3>3, <3>4, <3>5
  <2>4. Signed32(v + Max32) = v
    BY <1>1, <1>5, <2>1 DEF Signed32
  <2>5. (v + Max64) % Max64 = v + Max64
    BY <1>1, <2>1, DivSmall
  <2>6. pb_encode_varint(v) = pb_encode_varint(v + Max64)
    <3>1. v % Max64 = (v + Max64) % Max64
      BY <2>2, <2>5
    <3> QED
      BY <3>1 DEF pb_encode_varint
  <2> QED
    BY <2>1, <2>2, <2>3, <2>4, <2>6
<1> QED
  BY <1>1, <1>4, <1>5

\* Bytes behind their length.
Delimited(bytes) == pb_encode_varint(Len(bytes)) \o bytes

\* A number of bytes is read, and what follows is left.
LEMMA ReadWritten ==
  ASSUME NEW b \in Seq(Byte), NEW rest \in Seq(Byte)
  PROVE  pb_read(b \o rest, Len(b)) = Got(b, rest)
<1>1. Len(b) \in 0 .. Len(b) /\ Len(b \o rest) = Len(b) + Len(rest) /\ Len(rest) \in Nat
  BY BytesBefore
<1>2. /\ After(b \o rest, Len(b)) = After(b, Len(b)) \o rest
      /\ SubSeq(b \o rest, 1, Len(b)) = SubSeq(b, 1, Len(b))
  BY <1>1, AfterBefore
<1>3. SubSeq(b, 1, Len(b)) = b
  OBVIOUS
<1>4. After(b, Len(b)) = << >>
  BY <1>1 DEF After
<1>5. << >> \o rest = rest
  OBVIOUS
<1> DEFINE all == b \o rest
<1>6. /\ ~(Len(all) < Len(b)) /\ SubSeq(all, 1, Len(b)) = b
      /\ After(all, Len(b)) = rest
  BY <1>1, <1>2, <1>3, <1>4, <1>5
<1> HIDE DEF all
<1>7. pb_read(all, Len(b)) = Got(b, rest)
  BY <1>6 DEF pb_read
<1> QED
  BY <1>7 DEF all

\* A submessage, or a string, is read back as it was written, and is longer than
\* its contents: so its bytes are enough steps to come in and out again.
LEMMA DelimitedWritten ==
  ASSUME NEW b \in Seq(Byte), Len(b) < Max32, NEW rest \in Seq(Byte)
  PROVE  /\ Delimited(b) \in Seq(Byte) /\ Len(Delimited(b)) > Len(b)
         /\ pb_decode_varint32(Delimited(b) \o rest) = Got(Len(b), b \o rest)
         /\ Substream(Delimited(b) \o rest) = Got(b, rest)
<1> DEFINE s == pb_encode_varint(Len(b))
<1>1. Len(b) \in Nat /\ b \o rest \in Seq(Byte) /\ Len(b) < Max64
  <2>1. Max32 <= Max64 /\ Max32 \in Nat /\ Max64 \in Nat
    <3>1. Bits32 \in Nat /\ Bits64 \in Nat /\ Bits32 <= Bits64
      BY Widths
    <3> QED
      BY <3>1, Rooms, Pow2Monotone DEF Max32, Max64
  <2> QED
    BY <2>1
<1>2. s \in Seq(Byte) /\ Len(s) \in Nat \ {0} /\ pb_decode_varint32(s \o (b \o rest)) = Got(Len(b), b \o rest)
  BY <1>1, VarintWritten
<1> HIDE DEF s
<1>3. s \o b \in Seq(Byte) /\ Len(s \o b) = Len(s) + Len(b) /\ (s \o b) \o rest = s \o (b \o rest)
  BY <1>2, BytesJoined
<1>4. pb_read(b \o rest, Len(b)) = Got(b, rest)
  BY ReadWritten
<1>5. Substream(s \o (b \o rest)) = Got(b, rest)
  BY <1>2, <1>4 DEF Substream, Got
<1> QED
  BY <1>1, <1>2, <1>3, <1>5 DEF Delimited, s

\* What is in front of a field.
KeyOf(f) == f.tag * 8 + WireType(f.ltype)

\* A key is read back as the tag and the wire type of its field.
LEMMA KeyWritten ==
  ASSUME NEW p \in Places, NEW f \in FieldsAt(p), NEW rest \in Seq(Byte)
  PROVE  LET s == pb_encode_varint(KeyOf(f))
         IN  /\ KeyOf(f) \in Nat /\ KeyOf(f) < Max32
             /\ KeyOf(f) \div 8 = f.tag /\ f.tag # 0 /\ KeyOf(f) % 8 = WireType(f.ltype)
             /\ s \in Seq(Byte) /\ Len(s) \in Nat \ {0}
             /\ pb_decode_varint32(s \o rest) = Got(KeyOf(f), rest)
<1>1. f.tag \in Nat \ {0} /\ f.tag * 8 + 7 < Max32
  BY FieldsAssumption
<1>2. WireType(f.ltype) \in 0 .. 7
  BY DEF WireType, WT_VARINT, WT_STRING
<1>3. Max32 \in Nat /\ Max64 \in Nat /\ Max32 <= Max64
  <2>1. Bits32 \in Nat /\ Bits64 \in Nat /\ Bits32 <= Bits64
    BY Widths
  <2> QED
    BY <2>1, Rooms, Pow2Monotone DEF Max32, Max64
<1>4. \A t \in Nat, w \in 0 .. 7 : (t * 8 + w) \div 8 = t /\ (t * 8 + w) % 8 = w
  OBVIOUS
<1>5. /\ KeyOf(f) \in Nat /\ KeyOf(f) < Max32 /\ KeyOf(f) < Max64
      /\ KeyOf(f) \div 8 = f.tag /\ KeyOf(f) % 8 = WireType(f.ltype)
  <2>1. ASSUME NEW t \in Nat \ {0}, NEW w \in 0 .. 7, t * 8 + 7 < Max32
        PROVE  LET k == t * 8 + w
               IN  k \in Nat /\ k < Max32 /\ k < Max64 /\ k \div 8 = t /\ k % 8 = w
    BY <1>3, <1>4, <2>1
  <2> QED
    BY <1>1, <1>2, <2>1 DEF KeyOf
<1> QED
  BY <1>1, <1>5, VarintWritten

\* A string without zeros is what the program sees of it.
LEMMA CStringIs ==
  ASSUME NEW v \in Seq(Byte \ {0})
  PROVE  v \in Seq(Byte) /\ AsCString(v) = v
<1>1. v \in Seq(Byte) /\ \A i \in 1 .. Len(v) : v[i] # 0
  OBVIOUS
<1> QED
  BY <1>1 DEF AsCString

\* What is written of a field behind its key.
Contents(f, v) ==
    CASE f.ltype = "bool"            -> pb_encode_varint(IF v THEN 1 ELSE 0)
      [] f.ltype \in {"enum", "int32"} -> pb_encode_varint(v)
      [] f.ltype = "string"          -> Delimited(v)

\* It is read as the value that was written.
LEMMA ContentsRead ==
  ASSUME NEW f, f.ltype \in {"bool", "enum", "int32", "string"}, NEW v \in Values(f),
         f.ltype = "string" => f.size \in Nat /\ Len(v) < f.size,
         Len(Contents(f, v)) < Max32, NEW rest \in Seq(Byte)
  PROVE  /\ Contents(f, v) \in Seq(Byte)
         /\ decode_basic_field(Contents(f, v) \o rest, f) = Got(v, rest)
<1>1. /\ Max32 \in Nat \ {0} /\ Max64 \in Nat \ {0} /\ Max32 <= Max64 /\ Max32 >= 2
      /\ Sign32 \in Nat \ {0} /\ Sign32 = Pow2[Bits32 - 1]
  <2>1. Bits32 \in Nat /\ Bits64 \in Nat /\ Bits32 <= Bits64
    BY Widths
  <2>2. Max32 = 2 * Sign32 /\ Sign32 \in Nat \ {0} /\ Max32 \in Nat \ {0} /\ Max64 \in Nat \ {0}
    BY Rooms
  <2>3. Max32 <= Max64
    BY <2>1, Pow2Monotone DEF Max32, Max64
  <2> QED
    BY <2>2, <2>3 DEF Sign32
<1>2. CASE f.ltype = "bool"
  <2> DEFINE n == IF v THEN 1 ELSE 0
             s == pb_encode_varint(n)
  <2>1. v \in BOOLEAN /\ n \in Nat /\ n < Max32 /\ n < Max64 /\ (n # 0) = v
    BY <1>1, <1>2 DEF Values
  <2>2. Contents(f, v) = s
    BY <1>2 DEF Contents
  <2> HIDE DEF n
  <2>3. s \in Seq(Byte) /\ pb_decode_varint32(s \o rest) = Got(n, rest)
    BY <2>1, VarintWritten
  <2> HIDE DEF s
  <2>4. decode_basic_field(s \o rest, f) = pb_dec_bool(s \o rest)
    BY <1>2 DEF decode_basic_field
  <2>5. pb_dec_bool(s \o rest) = Got(n # 0, rest)
    BY <2>3 DEF pb_dec_bool, Got
  <2> QED
    BY <2>1, <2>2, <2>3, <2>4, <2>5
<1>3. CASE f.ltype = "enum"
  <2> DEFINE s == pb_encode_varint(v)
  <2>1. v \in Nat /\ v < Max32 /\ v < Max64
    BY <1>1, <1>3 DEF Values
  <2>2. Contents(f, v) = s
    BY <1>3 DEF Contents
  <2>3. s \in Seq(Byte) /\ pb_decode_varint(s \o rest) = Got(v, rest)
    BY <2>1, VarintWritten
  <2> HIDE DEF s
  <2>4. decode_basic_field(s \o rest, f) = pb_dec_uvarint(s \o rest)
    BY <1>3 DEF decode_basic_field
  <2>5. pb_dec_uvarint(s \o rest) = Got(v, rest)
    BY <2>1, <2>3 DEF pb_dec_uvarint, Got
  <2> QED
    BY <2>2, <2>3, <2>4, <2>5
<1>4. CASE f.ltype = "int32"
  <2> DEFINE w == v % Max64
             s == pb_encode_varint(w)
  <2>1. v \in -Sign32 .. Sign32 - 1
    BY <1>1, <1>4 DEF Values
  <2>2. w \in Nat /\ w < Max64 /\ pb_encode_varint(v) = s /\ Signed32(w % Max32) = v
    <3>1. w \in 0 .. Max64 - 1 /\ pb_encode_varint(v) = s /\ Signed32(w % Max32) = v
      BY <2>1, Int32Written
    <3> HIDE DEF s, w
    <3> QED
      BY <1>1, <3>1
  <2>3. Contents(f, v) = s
    BY <1>4, <2>2 DEF Contents
  <2> HIDE DEF w
  <2>4. s \in Seq(Byte) /\ pb_decode_varint(s \o rest) = Got(w, rest)
    BY <2>2, VarintWritten
  <2> HIDE DEF s
  <2>5. decode_basic_field(s \o rest, f) = pb_dec_varint(s \o rest)
    BY <1>4 DEF decode_basic_field
  <2>6. pb_dec_varint(s \o rest) = Got(Signed32(w % Max32), rest)
    BY <2>4 DEF pb_dec_varint, Got
  <2> QED
    BY <2>2, <2>3, <2>4, <2>5, <2>6
<1>5. CASE f.ltype = "string"
  <2> DEFINE s == Delimited(v)
             size == pb_decode_varint32(s \o rest)
             bytes == pb_read(size.rest, size.value)
  <2>1. v \in Seq(Byte \ {0}) /\ Contents(f, v) = s
    BY <1>5 DEF Values, Contents
  <2>2. v \in Seq(Byte) /\ AsCString(v) = v
    BY <2>1, CStringIs
  <2>3. s \in Seq(Byte) /\ Len(v) < Max32 - 1 /\ Len(v) \in Nat
    <3>0. pb_encode_varint(Len(v)) \in Seq(Byte) /\ Len(v) \in Nat
      BY <2>2, VarintBytesWritten
    <3>1. Len(s) >= Len(v) /\ Len(s) \in Nat
      <4> DEFINE x == pb_encode_varint(Len(v))
      <4>1. s = x \o v /\ x \in Seq(Byte)
        BY <3>0 DEF Delimited
      <4> HIDE DEF x, s
      <4> QED
        BY <2>2, <4>1
    <3>2. Len(v) < Max32
      BY <1>1, <2>1, <2>2, <3>1
    <3>3. s \in Seq(Byte) /\ Len(s) > Len(v)
      BY <2>2, <3>2, DelimitedWritten
    <3> HIDE DEF s
    <3> QED
      BY <1>1, <2>1, <2>2, <3>1, <3>3
  <2>4. size = Got(Len(v), v \o rest)
    <3>1. Len(v) < Max32
      BY <1>1, <2>3
    <3> QED
      BY <2>2, <3>1, DelimitedWritten
  <2>5. pb_read(v \o rest, Len(v)) = Got(v, rest)
    BY <2>2, ReadWritten
  <2>6. bytes = Got(v, rest)
    BY <2>4, <2>5 DEF Got
  <2>7. decode_basic_field(s \o rest, f) =
            IF ~size.ok \/ size.value = Max32 - 1 \/ size.value + 1 > f.size \/ ~bytes.ok THEN Failed
            ELSE Got(AsCString(bytes.value), bytes.rest)
    BY <1>5 DEF decode_basic_field, pb_dec_string
  <2>8. size.ok /\ size.value = Len(v) /\ bytes.ok /\ bytes.value = v /\ bytes.rest = rest
    BY <2>4, <2>6 DEF Got
  <2> HIDE DEF size, bytes, s
  <2>9. size.value # Max32 - 1 /\ ~(size.value + 1 > f.size)
    BY <1>1, <1>5, <2>3, <2>8
  <2> QED
    BY <2>1, <2>2, <2>3, <2>7, <2>8, <2>9
<1> QED
  BY <1>2, <1>3, <1>4, <1>5

\* A field that the message does not have is skipped, and what follows is left.
LEMMA UnknownSkipped ==
  ASSUME NEW u, UnknownField(u), NEW rest \in Seq(Byte)
  PROVE  LET key == pb_decode_varint32(u \o rest)
         IN  /\ u \in Seq(Byte) /\ Len(u) \in Nat \ {0}
             /\ key.ok /\ key.value \div 8 # 0
             /\ \A f \in FieldsAt(<< >>) : f.tag # key.value \div 8
             /\ pb_skip_field(key.rest, key.value % 8).ok
             /\ pb_skip_field(key.rest, key.value % 8).rest = rest
<1> DEFINE k == pb_decode_varint32(u)
           c == k.rest
           type == k.value % 8
           key == pb_decode_varint32(u \o rest)
           length == pb_decode_varint32(c)
<1>1. /\ u \in Seq(Byte) /\ k.ok
      /\ k.value \div 8 \notin {0} \cup {f.tag : f \in FieldsAt(<< >>)}
  BY DEF UnknownField
<1>2. c \in Seq(Byte) /\ Len(c) < Len(u) /\ key = Got(k.value, c \o rest)
  BY <1>1, VarintBefore DEF Before
<1>3. \/ type = WT_VARINT /\ c # << >> /\ End(c) = Len(c)
      \/ type = WT_64BIT /\ Len(c) = Fixed64
      \/ type = WT_STRING /\ length.ok /\ Len(length.rest) = length.value
      \/ type = WT_32BIT /\ Len(c) = Fixed32
  BY DEF UnknownField
<1>4. length.ok => /\ length.rest \in Seq(Byte)
                   /\ pb_decode_varint32(c \o rest) = Got(length.value, length.rest \o rest)
  <2> HIDE DEF c
  <2> QED
    BY <1>2, VarintBefore DEF Before
<1> HIDE DEF k, type, length
<1>5. Len(u) \in Nat \ {0}
  <2> HIDE DEF c
  <2> QED
    BY <1>1, <1>2
<1>6. key.ok /\ key.value = k.value /\ key.rest = c \o rest
  BY <1>2 DEF Got
<1> HIDE DEF key, c
<1>7. pb_skip_field(c \o rest, type).ok /\ pb_skip_field(c \o rest, type).rest = rest
  <2> DEFINE r == pb_skip_field(c \o rest, type)
  <2>0. pb_read(c \o rest, Len(c)) = Got(c, rest)
    BY <1>2, ReadWritten
  <2>1. CASE type = WT_VARINT /\ c # << >> /\ End(c) = Len(c)
    <3>1. r = RawVarint(c \o rest)
      BY <2>1 DEF pb_skip_field, WT_VARINT, WT_64BIT, WT_STRING, WT_32BIT
    <3>2. End(c) # 0
      BY <1>2, <2>1
    <3>3. End(c \o rest) = Len(c)
      BY <1>2, <2>1, <3>2, EndBefore
    <3>4. RawVarint(c \o rest) = Got(c, rest)
      BY <2>0, <2>1, <3>2, <3>3 DEF RawVarint
    <3> QED
      BY <3>1, <3>4 DEF Got
  <2>2. CASE type = WT_64BIT /\ Len(c) = Fixed64
    <3>1. r = pb_read(c \o rest, Fixed64)
      BY <2>2 DEF pb_skip_field, WT_VARINT, WT_64BIT, WT_STRING, WT_32BIT
    <3> QED
      BY <2>0, <2>2, <3>1 DEF Got
  <2>3. CASE type = WT_STRING /\ length.ok /\ Len(length.rest) = length.value
    <3>1. r = Substream(c \o rest)
      BY <2>3 DEF pb_skip_field, WT_VARINT, WT_64BIT, WT_STRING, WT_32BIT
    <3>2. pb_read(length.rest \o rest, length.value) = Got(length.rest, rest)
      BY <1>4, <2>3, ReadWritten
    <3>3. Substream(c \o rest) = Got(length.rest, rest)
      <4> DEFINE in == c \o rest
                 size == pb_decode_varint32(in)
      <4>1. size = Got(length.value, length.rest \o rest)
        BY <1>4, <2>3
      <4>2. size.ok /\ size.value = length.value /\ size.rest = length.rest \o rest
        BY <4>1 DEF Got
      <4>3. Substream(in) = IF size.ok THEN pb_read(size.rest, size.value) ELSE Failed
        BY DEF Substream
      <4> HIDE DEF size, in
      <4>4. Substream(in) = Got(length.rest, rest)
        BY <3>2, <4>2, <4>3
      <4> QED
        BY <4>4 DEF in
    <3> QED
      BY <3>1, <3>3 DEF Got
  <2>4. CASE type = WT_32BIT /\ Len(c) = Fixed32
    <3>1. r = pb_read(c \o rest, Fixed32)
      BY <2>4 DEF pb_skip_field, WT_VARINT, WT_64BIT, WT_STRING, WT_32BIT
    <3> QED
      BY <2>0, <2>4, <3>1 DEF Got
  <2> QED
    BY <1>3, <2>1, <2>2, <2>3, <2>4
<1> QED
  BY <1>1, <1>5, <1>6, <1>7 DEF key, type

-----------------------------------------------------------------------------
(* A structure into which some of the fields of another one were decoded   *)

\* The fields of m that are written, by address, except callbacks.
Sent(m) ==
    UNION {{Append(p, f.tag) : f \in {g \in FieldsAt(p) :
                /\ g.ltype # "callback" /\ ~Absent(m, p, g)
                /\ Present(m, Append(p, g.tag))}} : p \in Places}

\* The address of a field determines the field.
LEMMA SentIs ==
  ASSUME NEW m, NEW p \in Places, NEW f \in FieldsAt(p)
  PROVE  Append(p, f.tag) \in Sent(m) <=>
            f.ltype # "callback" /\ ~Absent(m, p, f) /\ Present(m, Append(p, f.tag))
<1>1. /\ p \in Address /\ f.tag \in Nat
      /\ \A h \in FieldsAt(p) : h.tag = f.tag => h = f
  BY FieldFacts
<1>2. ASSUME Append(p, f.tag) \in Sent(m)
      PROVE  f.ltype # "callback" /\ ~Absent(m, p, f) /\ Present(m, Append(p, f.tag))
  <2>1. PICK q \in Places : \E g \in FieldsAt(q) :
              /\ g.ltype # "callback" /\ ~Absent(m, q, g)
              /\ Present(m, Append(q, g.tag)) /\ Append(p, f.tag) = Append(q, g.tag)
    BY <1>2 DEF Sent
  <2>2. PICK g \in FieldsAt(q) :
              /\ g.ltype # "callback" /\ ~Absent(m, q, g)
              /\ Present(m, Append(q, g.tag)) /\ Append(p, f.tag) = Append(q, g.tag)
    BY <2>1
  <2>3. q \in Address /\ g.tag \in Nat
    BY FieldFacts
  <2>4. p = q /\ f.tag = g.tag
    BY <1>1, <2>2, <2>3, UnderField
  <2> QED
    BY <1>1, <2>2, <2>4
<1>3. f.ltype # "callback" /\ ~Absent(m, p, f) /\ Present(m, Append(p, f.tag)) =>
          Append(p, f.tag) \in Sent(m)
  BY DEF Sent
<1> QED
  BY <1>2, <1>3

\* What is written is a field.
LEMMA SentFacts ==
  ASSUME NEW m, NEW x \in Sent(m)
  PROVE  /\ x \in Address /\ Present(m, x)
         /\ \E p \in Places : \E f \in FieldsAt(p) : x = Append(p, f.tag)
<1>1. PICK p \in Places : \E f \in FieldsAt(p) :
            Present(m, Append(p, f.tag)) /\ x = Append(p, f.tag)
  BY DEF Sent
<1>2. PICK f \in FieldsAt(p) : Present(m, Append(p, f.tag)) /\ x = Append(p, f.tag)
  BY <1>1
<1>3. p \in Address /\ f.tag \in Nat
  BY FieldFacts
<1>4. x \in Address
  BY <1>2, <1>3, FieldAddress
<1> QED
  BY <1>2, <1>4

\* What is written at or under a member of a oneof is under the one that the
\* structure has.
LEMMA SentOneof ==
  ASSUME NEW m, NEW x \in Sent(m), NEW p \in Places, NEW t \in OneofTags(p), Under(x, Append(p, t))
  PROVE  m.which[p] = t
<1>1. PICK g \in FieldsAt(p) : g.htype = "oneof" /\ g.tag = t
  BY DEF OneofTags
<1>2. ~Lacks(m, p, g)
  BY <1>1, SentFacts DEF Present
<1> QED
  BY <1>1, <1>2 DEF Lacks

\* Fields come after the submessages they are in.
Closed(m, D) ==
    D \subseteq Sent(m) /\ \A x \in D : \A y \in Sent(m) : Under(x, y) => y \in D

\* The member of the oneof of the message at q is decoded; and with it, if it
\* is another one than s had, everything of the oneof is gone.
\* The member of the oneof of q is decoded; and by that the other members, with
\* what is under them, are gone.
Chosen(m, D, q) == m.which[q] \in OneofTags(q) /\ Append(q, m.which[q]) \in D
Gone(s, m, D, x) ==
    \E q \in Places :
        /\ Chosen(m, D, q) /\ s.which[q] # m.which[q]
        /\ \E t \in OneofTags(q) : Under(x, Append(q, t))

\* s, after the fields D of m were decoded into it.
Mix(s, m, D) ==
    [data |-> [x \in Leaves |->
                  IF x \in D THEN m.data[x]
                  ELSE IF Gone(s, m, D, x) THEN Zero.data[x] ELSE s.data[x]],
     has |-> {x \in s.has : ~Gone(s, m, D, x)} \cup (D \cap Optionals),
     which |-> [q \in Places |->
                  IF Chosen(m, D, q) THEN m.which[q]
                  ELSE IF Gone(s, m, D, q) THEN 0 ELSE s.which[q]]]

\* Before the first field it is s.
LEMMA MixStarts ==
  ASSUME NEW s \in Structures, NEW m
  PROVE  Mix(s, m, {}) = s
<1>1. \A q : ~Chosen(m, {}, q)
  BY DEF Chosen
<1>2. \A x : ~Gone(s, m, {}, x)
  BY <1>1 DEF Gone
<1>3. Mix(s, m, {}) = [data |-> [x \in Leaves |-> s.data[x]], has |-> s.has,
                       which |-> [q \in Places |-> s.which[q]]]
  BY <1>1, <1>2 DEF Mix
<1>4. /\ s = [data |-> s.data, has |-> s.has, which |-> s.which]
      /\ s.data = [x \in Leaves |-> s.data[x]] /\ s.which = [q \in Places |-> s.which[q]]
  BY StructureFacts
<1> QED
  BY <1>3, <1>4

\* The parts of a Mix.
LEMMA MixFacts ==
  ASSUME NEW s, NEW m, NEW D
  PROVE  LET n == Mix(s, m, D)
         IN  /\ n = [data |-> n.data, has |-> n.has, which |-> n.which]
             /\ n.data = [x \in Leaves |-> n.data[x]] /\ n.which = [q \in Places |-> n.which[q]]
             /\ \A x \in Leaves : n.data[x] =
                   IF x \in D THEN m.data[x]
                   ELSE IF Gone(s, m, D, x) THEN Zero.data[x] ELSE s.data[x]
             /\ \A x : x \in n.has <=> (x \in s.has /\ ~Gone(s, m, D, x)) \/ (x \in D /\ x \in Optionals)
             /\ \A q \in Places : n.which[q] =
                   IF Chosen(m, D, q) THEN m.which[q]
                   ELSE IF Gone(s, m, D, q) THEN 0 ELSE s.which[q]
  BY DEF Mix

\* A structure with the same parts is the same.
LEMMA MixEqual ==
  ASSUME NEW s, NEW m, NEW D, NEW n, NEW data, NEW has, NEW which,
         n = [data |-> data, has |-> has, which |-> which],
         data = [x \in Leaves |-> data[x]], which = [q \in Places |-> which[q]],
         \A x \in Leaves : data[x] =
             IF x \in D THEN m.data[x]
             ELSE IF Gone(s, m, D, x) THEN Zero.data[x] ELSE s.data[x],
         \A x : x \in has <=> (x \in s.has /\ ~Gone(s, m, D, x)) \/ (x \in D /\ x \in Optionals),
         \A q \in Places : which[q] =
             IF Chosen(m, D, q) THEN m.which[q]
             ELSE IF Gone(s, m, D, q) THEN 0 ELSE s.which[q]
  PROVE  n = Mix(s, m, D)
<1> DEFINE o == Mix(s, m, D)
<1>1. /\ o = [data |-> o.data, has |-> o.has, which |-> o.which]
      /\ o.data = [x \in Leaves |-> o.data[x]] /\ o.which = [q \in Places |-> o.which[q]]
      /\ \A x \in Leaves : o.data[x] =
             IF x \in D THEN m.data[x]
             ELSE IF Gone(s, m, D, x) THEN Zero.data[x] ELSE s.data[x]
      /\ \A x : x \in o.has <=> (x \in s.has /\ ~Gone(s, m, D, x)) \/ (x \in D /\ x \in Optionals)
      /\ \A q \in Places : o.which[q] =
             IF Chosen(m, D, q) THEN m.which[q]
             ELSE IF Gone(s, m, D, q) THEN 0 ELSE s.which[q]
  BY MixFacts
<1> HIDE DEF o
<1>2. \A x \in Leaves : data[x] = o.data[x]
  BY <1>1
<1>3. data = o.data
  BY <1>1, <1>2
<1>4. \A x : x \in has <=> x \in o.has
  BY <1>1
<1>5. has = o.has
  BY <1>4
<1>6. \A q \in Places : which[q] = o.which[q]
  BY <1>1
<1>7. which = o.which
  BY <1>1, <1>6
<1> QED
  BY <1>1, <1>3, <1>5, <1>7 DEF o

\* One more field is decoded.
Extends(m, D, a) ==
    /\ Closed(m, D) /\ a \in Sent(m) \ D
    /\ \A y \in Sent(m) : Under(a, y) => y = a \/ y \in D

\* With the next field, what was decoded is still whole.
LEMMA ClosedWith ==
  ASSUME NEW m, NEW D, NEW a, Extends(m, D, a)
  PROVE  Closed(m, D \cup {a})
  BY DEF Extends, Closed

\* The tags of oneofs.
LEMMA OneofTagsAre ==
  ASSUME NEW p \in Places
  PROVE  OneofTags(p) \subseteq Nat \ {0}
  BY FieldFacts, ZenonT(30) DEF OneofTags

\* The fields of a oneof are those that have one of its tags.
LEMMA OneofTag ==
  ASSUME NEW p \in Places, NEW f \in FieldsAt(p)
  PROVE  /\ f.tag \in OneofTags(p) <=> f.htype = "oneof"
         /\ OneofTags(p) \subseteq Nat \ {0}
<1>1. \A h \in FieldsAt(p) : (h.tag = f.tag => h = f) /\ h.tag \in Nat \ {0}
  BY FieldFacts
<1> QED
  BY <1>1 DEF OneofTags

\* A member of a oneof is decoded once.
LEMMA OneofChosen ==
  ASSUME NEW m, NEW D, NEW p \in Places, NEW f \in FieldsAt(p), f.htype = "oneof",
         Extends(m, D, Append(p, f.tag))
  PROVE  m.which[p] = f.tag /\ ~Chosen(m, D, p)
<1>1. p \in Address /\ f.tag \in Nat /\ f.tag \in OneofTags(p)
  BY FieldFacts, OneofTag
<1>2. Append(p, f.tag) \in Address /\ Under(Append(p, f.tag), Append(p, f.tag))
  BY <1>1, FieldAddress, UnderOrder
<1>3. m.which[p] = f.tag
  BY <1>1, <1>2, SentOneof DEF Extends
<1> QED
  BY <1>3 DEF Extends, Chosen

\* Which members of oneofs are decoded then.
LEMMA ChosenWith ==
  ASSUME NEW m, NEW D, NEW p \in Places, NEW f \in FieldsAt(p), NEW q \in Places,
         Extends(m, D, Append(p, f.tag))
  PROVE  Chosen(m, D \cup {Append(p, f.tag)}, q) <=>
            Chosen(m, D, q) \/ (q = p /\ f.htype = "oneof")
<1> DEFINE a == Append(p, f.tag)
<1>1. /\ p \in Address /\ q \in Address /\ f.tag \in Nat
      /\ OneofTags(q) \subseteq Nat /\ (f.tag \in OneofTags(p) <=> f.htype = "oneof")
  <2>1. OneofTags(q) \subseteq Nat
    BY FieldFacts DEF OneofTags
  <2> QED
    BY <2>1, FieldFacts, OneofTag, PlaceIsAddress
<1>2. f.htype = "oneof" => m.which[p] = f.tag
  BY OneofChosen
<1>3. m.which[q] \in OneofTags(q) => (Append(q, m.which[q]) = a <=> q = p /\ m.which[q] = f.tag)
  BY <1>1, UnderField
<1> HIDE DEF a
<1> QED
  BY <1>1, <1>2, <1>3 DEF Chosen, a

\* Nothing that is decoded is at or under a member of the oneof before.
LEMMA NothingOfOneof ==
  ASSUME NEW m, NEW D, NEW p \in Places, NEW f \in FieldsAt(p), f.htype = "oneof",
         Extends(m, D, Append(p, f.tag)), NEW x \in D, NEW t \in OneofTags(p)
  PROVE  ~Under(x, Append(p, t))
<1> SUFFICES ASSUME Under(x, Append(p, t)) PROVE FALSE
  OBVIOUS
<1>1. x \in Sent(m) /\ Append(p, f.tag) \in Sent(m) \ D
  BY DEF Extends, Closed
<1>2. m.which[p] = t
  BY <1>1, SentOneof
<1>3. m.which[p] = f.tag
  BY OneofChosen
<1> QED
  BY <1>1, <1>2, <1>3 DEF Extends, Closed

\* What is gone then.
LEMMA GoneWith ==
  ASSUME NEW s, NEW m, NEW D, NEW p \in Places, NEW f \in FieldsAt(p),
         Extends(m, D, Append(p, f.tag)), NEW x
  PROVE  Gone(s, m, D \cup {Append(p, f.tag)}, x) <=>
            \/ Gone(s, m, D, x)
            \/ /\ f.htype = "oneof" /\ s.which[p] # f.tag
               /\ \E t \in OneofTags(p) : Under(x, Append(p, t))
<1> DEFINE E == D \cup {Append(p, f.tag)}
<1>1. \A q \in Places : Chosen(m, E, q) <=> Chosen(m, D, q) \/ (q = p /\ f.htype = "oneof")
  BY ChosenWith
<1>2. f.htype = "oneof" => m.which[p] = f.tag
  BY OneofChosen
<1> HIDE DEF E
<1> QED
  BY <1>1, <1>2 DEF Gone, E

\* What is under something that is gone is gone too.
LEMMA GoneUnder ==
  ASSUME NEW s, NEW m, NEW D, NEW x \in Address, NEW p \in Address, Under(x, p), Gone(s, m, D, p)
  PROVE  Gone(s, m, D, x)
<1>1. PICK q \in Places : /\ Chosen(m, D, q) /\ s.which[q] # m.which[q]
                          /\ \E t \in OneofTags(q) : Under(p, Append(q, t))
  BY DEF Gone
<1>2. PICK t \in OneofTags(q) : Under(p, Append(q, t))
  BY <1>1
<1>3. Append(q, t) \in Address
  <2>1. q \in Address /\ t \in Nat
    BY PlaceIsAddress, FieldFacts DEF OneofTags
  <2> QED
    BY <2>1, FieldAddress
<1>4. Under(x, Append(q, t))
  BY <1>2, <1>3, UnderOrder
<1> QED
  BY <1>1, <1>4 DEF Gone

\* n is s into which the fields E of m were decoded, but for the value at a.
MixedBut(n, s, m, E, a) ==
    /\ n = [data |-> n.data, has |-> n.has, which |-> n.which]
    /\ n.data = [x \in Leaves |-> n.data[x]] /\ n.which = [q \in Places |-> n.which[q]]
    /\ \A x \in Leaves : x # a => n.data[x] =
          IF x \in E THEN m.data[x]
          ELSE IF Gone(s, m, E, x) THEN Zero.data[x] ELSE s.data[x]
    /\ \A x : x \in n.has <=> (x \in s.has /\ ~Gone(s, m, E, x)) \/ (x \in E /\ x \in Optionals)
    /\ \A q \in Places : n.which[q] =
          IF Chosen(m, E, q) THEN m.which[q]
          ELSE IF Gone(s, m, E, q) THEN 0 ELSE s.which[q]

\* What the decoder makes ready for one more field.
LEMMA PreparedMix ==
  ASSUME NEW s \in Structures, NEW m, NEW D, NEW p \in Places, NEW f \in FieldsAt(p),
         Extends(m, D, Append(p, f.tag))
  PROVE  MixedBut(Prepared(Mix(s, m, D), p, f), s, m, D \cup {Append(p, f.tag)}, Append(p, f.tag))
<1> DEFINE a == Append(p, f.tag)
           E == D \cup {a}
           M == Mix(s, m, D)
           n == Prepared(M, p, f)
           under(x) == \E t \in OneofTags(p) : Under(x, Append(p, t))
           other == f.htype = "oneof" /\ s.which[p] # f.tag
<1>1. /\ M = [data |-> M.data, has |-> M.has, which |-> M.which]
      /\ M.data = [x \in Leaves |-> M.data[x]] /\ M.which = [q \in Places |-> M.which[q]]
      /\ \A x \in Leaves : M.data[x] =
             IF x \in D THEN m.data[x]
             ELSE IF Gone(s, m, D, x) THEN Zero.data[x] ELSE s.data[x]
      /\ \A x : x \in M.has <=> (x \in s.has /\ ~Gone(s, m, D, x)) \/ (x \in D /\ x \in Optionals)
      /\ \A q \in Places : M.which[q] =
             IF Chosen(m, D, q) THEN m.which[q]
             ELSE IF Gone(s, m, D, q) THEN 0 ELSE s.which[q]
  BY MixFacts
<1>2. /\ p \in Address /\ f.tag \in Nat \ {0} /\ a \in Address /\ a \notin D
      /\ D \subseteq Address /\ Places \subseteq Address /\ Leaves \subseteq Address
      /\ s.has \subseteq Places
      /\ f.ltype # "callback" /\ (f.htype = "optional" <=> a \in Optionals)
      /\ f.htype \in {"optional", "oneof", "singular"}
  <2>1. p \in Address /\ f.tag \in Nat \ {0} /\ a \in Address
    BY FieldFacts, FieldAddress
  <2>2. a \notin D /\ D \subseteq Sent(m) /\ a \in Sent(m)
    BY DEF Extends, Closed
  <2>3. D \subseteq Address
    BY <2>2, SentFacts
  <2>4. Places \subseteq Address /\ Leaves \subseteq Address
    BY PlaceIsAddress, LeafFacts
  <2>5. s.has \subseteq Places
    BY StructureFacts, OptionalsArePlaces
  <2>6. f.ltype # "callback"
    BY <2>2, SentIs
  <2>7. f.htype = "optional" <=> a \in Optionals
    BY OptionalField
  <2>8. f.htype \in {"optional", "oneof", "singular"}
    BY <2>6, FieldFacts
  <2> QED
    BY <2>1, <2>2, <2>3, <2>4, <2>5, <2>6, <2>7, <2>8
<1>3. \A q \in Places : Chosen(m, E, q) <=> Chosen(m, D, q) \/ (q = p /\ f.htype = "oneof")
  BY ChosenWith
<1>4. \A x : Gone(s, m, E, x) <=> Gone(s, m, D, x) \/ (other /\ under(x))
  BY GoneWith
<1>5. f.htype = "oneof" => m.which[p] = f.tag /\ ~Chosen(m, D, p)
  BY OneofChosen
<1>6. f.htype = "oneof" => \A x \in D : ~under(x)
  BY NothingOfOneof
<1>7. \A x : x \in E <=> x \in D \/ x = a
  OBVIOUS
<1>8. CASE f.htype # "oneof"
  <2>1. \A q \in Places : Chosen(m, E, q) <=> Chosen(m, D, q)
    BY <1>3, <1>8
  <2>2. \A x : Gone(s, m, E, x) <=> Gone(s, m, D, x)
    BY <1>4, <1>8
  <2>3. CASE f.htype = "optional"
    <3>1. n = [data |-> M.data, has |-> M.has \cup {a}, which |-> M.which]
      <4>1. n = [M EXCEPT !.has = @ \cup {a}]
        BY <2>3 DEF Prepared
      <4> HIDE DEF M, n
      <4> QED
        BY <1>1, <4>1
    <3>2. n.data = M.data /\ n.has = M.has \cup {a} /\ n.which = M.which
      BY <3>1
    <3> HIDE DEF M, n, E, a
    <3>3. a \in Optionals
      BY <1>2, <2>3
    <3>4. \A x : x \in n.has <=> (x \in s.has /\ ~Gone(s, m, E, x)) \/ (x \in E /\ x \in Optionals)
      <4> TAKE x
      <4>1. x \in n.has <=> x \in M.has \/ x = a
        BY <3>2
      <4> QED
        BY <1>1, <1>7, <2>2, <3>3, <4>1
    <3>5. \A x \in Leaves : x # a => n.data[x] =
                   IF x \in E THEN m.data[x]
                   ELSE IF Gone(s, m, E, x) THEN Zero.data[x] ELSE s.data[x]
      BY <1>1, <1>7, <2>2, <3>2
    <3>6. \A q \in Places : n.which[q] =
                   IF Chosen(m, E, q) THEN m.which[q]
                   ELSE IF Gone(s, m, E, q) THEN 0 ELSE s.which[q]
      BY <1>1, <2>1, <2>2, <3>2
    <3> QED
      BY <1>1, <3>1, <3>2, <3>4, <3>5, <3>6 DEF MixedBut, n, E, a, M
  <2>4. CASE f.htype = "singular"
    <3>1. n = M
      BY <2>4 DEF Prepared
    <3> HIDE DEF M, n, E, a
    <3>2. a \notin Optionals
      BY <1>2, <2>4
    <3>3. \A x : x \in n.has <=> (x \in s.has /\ ~Gone(s, m, E, x)) \/ (x \in E /\ x \in Optionals)
      BY <1>1, <1>7, <2>2, <3>1, <3>2
    <3>4. \A x \in Leaves : x # a => n.data[x] =
                   IF x \in E THEN m.data[x]
                   ELSE IF Gone(s, m, E, x) THEN Zero.data[x] ELSE s.data[x]
      BY <1>1, <1>7, <2>2, <3>1
    <3>5. \A q \in Places : n.which[q] =
                   IF Chosen(m, E, q) THEN m.which[q]
                   ELSE IF Gone(s, m, E, q) THEN 0 ELSE s.which[q]
      BY <1>1, <2>1, <2>2, <3>1
    <3> QED
      BY <1>1, <3>1, <3>3, <3>4, <3>5 DEF MixedBut, n, E, a, M
  <2> QED
    BY <1>2, <1>8, <2>3, <2>4
<1>9. CASE f.htype = "oneof" /\ M.which[p] = f.tag
  <2>1. ~Gone(s, m, D, p) /\ s.which[p] = f.tag
    <3> HIDE DEF M
    <3> QED
      BY <1>1, <1>2, <1>5, <1>9
  <2>2. \A x : Gone(s, m, E, x) <=> Gone(s, m, D, x)
    BY <1>4, <2>1
  <2>3. n = M
    BY <1>9 DEF Prepared
  <2> HIDE DEF M, n, E, a
  <2>4. a \notin Optionals
    BY <1>2, <1>9
  <2>5. \A x : x \in n.has <=> (x \in s.has /\ ~Gone(s, m, E, x)) \/ (x \in E /\ x \in Optionals)
    BY <1>1, <1>7, <2>2, <2>3, <2>4
  <2>6. \A x \in Leaves : x # a => n.data[x] =
                   IF x \in E THEN m.data[x]
                   ELSE IF Gone(s, m, E, x) THEN Zero.data[x] ELSE s.data[x]
    BY <1>1, <1>7, <2>2, <2>3
  <2>7. \A q \in Places : n.which[q] =
                   IF Chosen(m, E, q) THEN m.which[q]
                   ELSE IF Gone(s, m, E, q) THEN 0 ELSE s.which[q]
    BY <1>1, <1>3, <1>5, <1>9, <2>2, <2>3
  <2> QED
    BY <1>1, <2>3, <2>5, <2>6, <2>7 DEF MixedBut, n, E, a, M
<1>10. CASE f.htype = "oneof" /\ M.which[p] # f.tag
  <2> DEFINE S == {Append(p, t) : t \in OneofTags(p)}
             C == Cleared(M, S)
  <2>1. \A x : (\E b \in S : Under(x, b)) <=> under(x)
    OBVIOUS
  <2>2. C = [data |-> [x \in Leaves |-> IF under(x) THEN Zero.data[x] ELSE M.data[x]],
             has |-> {x \in M.has : ~under(x)},
             which |-> [q \in Places |-> IF under(q) THEN 0 ELSE M.which[q]]]
    <3> HIDE DEF S, M, under
    <3> QED
      BY <2>1 DEF Cleared
  <2>3. n = [C EXCEPT !.which[p] = f.tag]
    BY <1>10 DEF Prepared
  <2>4. /\ n = [data |-> n.data, has |-> n.has, which |-> n.which]
        /\ n.data = [x \in Leaves |-> n.data[x]] /\ n.which = [q \in Places |-> n.which[q]]
        /\ \A x \in Leaves : n.data[x] = IF under(x) THEN Zero.data[x] ELSE M.data[x]
        /\ \A x : x \in n.has <=> x \in M.has /\ ~under(x)
        /\ \A q \in Places : n.which[q] = IF q = p THEN f.tag ELSE IF under(q) THEN 0 ELSE M.which[q]
    <3> HIDE DEF n, C, M, under
    <3>1. /\ C.data = [x \in Leaves |-> IF under(x) THEN Zero.data[x] ELSE M.data[x]]
          /\ C.has = {x \in M.has : ~under(x)}
          /\ C.which = [q \in Places |-> IF under(q) THEN 0 ELSE M.which[q]]
          /\ C = [data |-> C.data, has |-> C.has, which |-> C.which]
      BY <2>2
    <3>2. n = [data |-> C.data, has |-> C.has, which |-> [C.which EXCEPT ![p] = f.tag]]
      BY <2>3, <3>1
    <3>3. /\ n.data = C.data /\ n.has = C.has /\ n.which = [C.which EXCEPT ![p] = f.tag]
          /\ n = [data |-> n.data, has |-> n.has, which |-> n.which]
      BY <3>2
    <3>4. /\ n.which = [q \in Places |-> n.which[q]]
          /\ \A q \in Places : n.which[q] = IF q = p THEN f.tag ELSE IF under(q) THEN 0 ELSE M.which[q]
      BY <3>1, <3>3
    <3>5. /\ n.data = [x \in Leaves |-> n.data[x]]
          /\ \A x \in Leaves : n.data[x] = IF under(x) THEN Zero.data[x] ELSE M.data[x]
      BY <3>1, <3>3
    <3> QED
      BY <3>1, <3>3, <3>4, <3>5
  <2> HIDE DEF n, S, C
  <2>5. ASSUME NEW x \in Address, s.which[p] = f.tag, under(x)
        PROVE  Gone(s, m, D, x)
    <3>1. Gone(s, m, D, p)
      <4> HIDE DEF M
      <4> QED
        BY <1>1, <1>5, <1>10, <2>5
    <3>2. PICK t \in OneofTags(p) : Under(x, Append(p, t))
      BY <2>5
    <3>3. Under(x, p)
      <4>1. t \in Nat /\ Append(p, t) \in Address /\ Under(Append(p, t), p)
        <5>1. t \in Nat
          BY OneofTagsAre
        <5> QED
          BY <1>2, <5>1, FieldAddress, UnderField, UnderOrder
      <4> QED
        BY <1>2, <3>2, <4>1, UnderOrder
    <3> QED
      BY <1>2, <3>1, <3>3, GoneUnder
  <2>6. \A x \in Address : Gone(s, m, E, x) <=> Gone(s, m, D, x) \/ under(x)
    <3> HIDE DEF under, E
    <3> QED
      BY <1>4, <1>10, <2>5
  <2>7. \A q \in Places : Chosen(m, D, q) => ~under(q)
    <3> SUFFICES ASSUME NEW q \in Places, Chosen(m, D, q), under(q) PROVE FALSE
      OBVIOUS
    <3>1. PICK t \in OneofTags(p) : Under(q, Append(p, t))
      OBVIOUS
    <3>2. m.which[q] \in OneofTags(q) /\ Append(q, m.which[q]) \in D
      BY DEF Chosen
    <3>3. m.which[q] \in Nat /\ t \in Nat /\ q \in Address
      <4>1. OneofTags(q) \subseteq Nat /\ OneofTags(p) \subseteq Nat
        BY OneofTagsAre
      <4> QED
        BY <1>2, <3>2, <4>1
    <3>4. Append(q, m.which[q]) \in Address /\ Append(p, t) \in Address
      BY <1>2, <3>3, FieldAddress
    <3>5. Under(Append(q, m.which[q]), q)
      BY <3>3, UnderField, UnderOrder
    <3>6. Under(Append(q, m.which[q]), Append(p, t))
      BY <3>1, <3>3, <3>4, <3>5, UnderOrder
    <3> QED
      BY <1>6, <1>10, <3>2, <3>6
  <2> HIDE DEF M, E, a, under
  <2>8. a \notin Optionals
    BY <1>2, <1>10
  <2>9. \A x \in Leaves : x # a => n.data[x] =
                   IF x \in E THEN m.data[x]
                   ELSE IF Gone(s, m, E, x) THEN Zero.data[x] ELSE s.data[x]
    BY <1>1, <1>2, <1>6, <1>7, <1>10, <2>4, <2>6
  <2>10. \A x : x \in n.has <=> (x \in s.has /\ ~Gone(s, m, E, x)) \/ (x \in E /\ x \in Optionals)
    <3> TAKE x
    <3>1. x \in n.has <=> x \in M.has /\ ~under(x)
      BY <2>4
    <3>2. x \in M.has <=> (x \in s.has /\ ~Gone(s, m, D, x)) \/ (x \in D /\ x \in Optionals)
      BY <1>1
    <3>3. x \in s.has => (Gone(s, m, E, x) <=> Gone(s, m, D, x) \/ under(x))
      BY <1>2, <2>6
    <3>4. x \in D => ~under(x)
      BY <1>6, <1>10
    <3>5. x \in E /\ x \in Optionals <=> x \in D /\ x \in Optionals
      BY <1>7, <2>8
    <3> QED
      BY <3>1, <3>2, <3>3, <3>4, <3>5
  <2>11. \A q \in Places : n.which[q] =
                   IF Chosen(m, E, q) THEN m.which[q]
                   ELSE IF Gone(s, m, E, q) THEN 0 ELSE s.which[q]
    <3> TAKE q \in Places
    <3>1. CASE q = p
      BY <1>3, <1>5, <1>10, <2>4, <3>1
    <3>2. CASE q # p /\ Chosen(m, D, q)
      BY <1>1, <1>3, <2>4, <2>7, <3>2
    <3>3. CASE q # p /\ ~Chosen(m, D, q)
      <4>1. Gone(s, m, E, q) <=> Gone(s, m, D, q) \/ under(q)
        BY <1>2, <2>6
      <4> QED
        BY <1>1, <1>3, <2>4, <3>3, <4>1
    <3> QED
      BY <3>1, <3>2, <3>3
  <2> QED
    BY <2>4, <2>9, <2>10, <2>11 DEF MixedBut, n, E, a, M
<1> QED
  <2>1. MixedBut(n, s, m, E, a)
    BY <1>8, <1>9, <1>10
  <2> QED
    BY <2>1

\* With another value at a.
With(n, a, value) == [n EXCEPT !.data[a] = value]

\* One more field is decoded into the structure: it is the same with one more
\* field of m.
LEMMA MixStep ==
  ASSUME NEW s \in Structures, NEW m, NEW D, NEW p \in Places, NEW f \in FieldsAt(p),
         Extends(m, D, Append(p, f.tag))
  PROVE  LET a == Append(p, f.tag)
             n == Prepared(Mix(s, m, D), p, f)
         IN  /\ f.ltype = "submessage" => n = Mix(s, m, D \cup {a})
             /\ f.ltype # "submessage" => With(n, a, m.data[a]) = Mix(s, m, D \cup {a})
<1> DEFINE a == Append(p, f.tag)
           E == D \cup {a}
           n == Prepared(Mix(s, m, D), p, f)
           o == [n EXCEPT !.data[a] = m.data[a]]
<1>1. /\ n = [data |-> n.data, has |-> n.has, which |-> n.which]
      /\ n.data = [x \in Leaves |-> n.data[x]] /\ n.which = [q \in Places |-> n.which[q]]
      /\ \A x \in Leaves : x # a => n.data[x] =
             IF x \in E THEN m.data[x]
             ELSE IF Gone(s, m, E, x) THEN Zero.data[x] ELSE s.data[x]
      /\ \A x : x \in n.has <=> (x \in s.has /\ ~Gone(s, m, E, x)) \/ (x \in E /\ x \in Optionals)
      /\ \A q \in Places : n.which[q] =
             IF Chosen(m, E, q) THEN m.which[q]
             ELSE IF Gone(s, m, E, q) THEN 0 ELSE s.which[q]
  <2>1. MixedBut(n, s, m, E, a)
    BY PreparedMix
  <2> QED
    BY <2>1 DEF MixedBut
<1>2. a \in E
  OBVIOUS
<1>3. ASSUME f.ltype = "submessage" PROVE n = Mix(s, m, E)
  <2>1. a \notin Leaves
    BY <1>3, FieldFacts, LeafNotPlace
  <2> HIDE DEF n, E, a
  <2>2. \A x \in Leaves : n.data[x] =
             IF x \in E THEN m.data[x]
             ELSE IF Gone(s, m, E, x) THEN Zero.data[x] ELSE s.data[x]
    BY <1>1, <2>1
  <2> QED
    BY <1>1, <2>2, MixEqual
<1>4. ASSUME f.ltype # "submessage" PROVE o = Mix(s, m, E)
  <2>1. a \in Leaves
    BY <1>4, FieldFacts
  <2> HIDE DEF n, E, a
  <2>2. o = [data |-> [n.data EXCEPT ![a] = m.data[a]], has |-> n.has, which |-> n.which]
    BY <1>1
  <2> HIDE DEF o
  <2>3. o.data = [n.data EXCEPT ![a] = m.data[a]] /\ o.has = n.has /\ o.which = n.which
    BY <2>2
  <2>4. o = [data |-> o.data, has |-> o.has, which |-> o.which]
    BY <2>2
  <2>5. /\ o.data = [x \in Leaves |-> o.data[x]]
        /\ \A x \in Leaves : o.data[x] = IF x = a THEN m.data[a] ELSE n.data[x]
    BY <1>1, <2>1, <2>3
  <2>6. \A x \in Leaves : o.data[x] =
             IF x \in E THEN m.data[x]
             ELSE IF Gone(s, m, E, x) THEN Zero.data[x] ELSE s.data[x]
    BY <1>1, <1>2, <2>5
  <2>7. \A x : x \in o.has <=> (x \in s.has /\ ~Gone(s, m, E, x)) \/ (x \in E /\ x \in Optionals)
    BY <1>1, <2>3
  <2>8. o.which = [q \in Places |-> o.which[q]] /\ \A q \in Places : o.which[q] =
             IF Chosen(m, E, q) THEN m.which[q]
             ELSE IF Gone(s, m, E, q) THEN 0 ELSE s.which[q]
    BY <1>1, <2>3
  <2> QED
    BY <2>4, <2>5, <2>6, <2>7, <2>8, MixEqual
<1> QED
  BY <1>3, <1>4 DEF With

-----------------------------------------------------------------------------
(* After the last field: the structures are merged                         *)

\* There is no leaf under another.
LEMMA LeafBelowLeaf ==
  ASSUME NEW x \in Leaves, NEW b \in Leaves, Under(b, x)
  PROVE  b = x
<1>1. PICK q \in Places : \E g \in FieldsAt(q) : b = Append(q, g.tag)
  BY LeafFacts
<1>2. PICK g \in FieldsAt(q) : b = Append(q, g.tag)
  BY <1>1
<1>3. q \in Address /\ g.tag \in Nat /\ x \in Address
  BY FieldFacts, LeafFacts
<1>4. ASSUME Under(q, x) PROVE FALSE
  <2>1. Len(x) <= Len(q) /\ SubSeq(q, 1, Len(x)) = x /\ Len(x) \in Nat /\ Len(q) \in Nat
    BY <1>3, <1>4 DEF Under, Address
  <2>2. CASE Len(x) = Len(q)
    <3>1. SubSeq(q, 1, Len(q)) = q
      BY <1>3 DEF Address
    <3> QED
      BY <2>1, <2>2, <3>1, LeafNotPlace
  <2>3. CASE Len(x) < Len(q)
    <3>1. Len(x) \in 0 .. Len(q) - 1
      BY <2>1, <2>3
    <3>2. x \in Places
      BY <2>1, <3>1, FieldsAssumption
    <3> QED
      BY <3>2, LeafNotPlace
  <2> QED
    BY <2>1, <2>2, <2>3
<1> QED
  BY <1>2, <1>3, <1>4, UnderField

\* Where a structure has contents, everything around is there.
LEMMA ContentsPresent ==
  ASSUME NEW m, Consistent(m), NEW x
  PROVE  /\ x \in Leaves /\ m.data[x] # Zero.data[x] => Present(m, x)
         /\ x \in Places /\ (x \in m.has \/ m.which[x] # 0) => Present(m, x)
<1>1. \A p \in Places : \A f \in FieldsAt(p) : Lacks(m, p, f) => Empty(m, Append(p, f.tag))
  BY DEF Consistent
<1> QED
  BY <1>1 DEF Present, Empty, IsDefault

\* Which fields are sent.
LEMMA SentOfOneof ==
  ASSUME NEW m, Consistent(m), NEW q \in Places
  PROVE  Chosen(m, Sent(m), q) <=> m.which[q] # 0
<1>1. OneofTags(q) \subseteq Nat \ {0} /\ m.which[q] \in {0} \cup OneofTags(q)
  BY OneofTagsAre DEF Consistent
<1>2. ASSUME m.which[q] # 0 PROVE Append(q, m.which[q]) \in Sent(m)
  <2>1. PICK f \in FieldsAt(q) : f.htype = "oneof" /\ f.tag = m.which[q]
    BY <1>1, <1>2 DEF OneofTags
  <2>2. f.ltype # "callback" /\ ~Absent(m, q, f) /\ ~Lacks(m, q, f)
    <3>1. f.ltype = "callback" => f.htype = "optional callback"
      BY FieldFacts
    <3> QED
      BY <2>1, <3>1 DEF Absent, Lacks
  <2>3. Present(m, q)
    BY <1>2, ContentsPresent
  <2>4. Present(m, Append(q, f.tag))
    <3> SUFFICES ASSUME NEW p \in Places, NEW g \in FieldsAt(p), Under(Append(q, f.tag), Append(p, g.tag))
                 PROVE  ~Lacks(m, p, g)
      BY DEF Present
    <3>1. (p = q /\ g = f) \/ Under(q, Append(p, g.tag))
      BY AroundField
    <3> QED
      BY <2>2, <2>3, <3>1 DEF Present
  <2> QED
    BY <2>1, <2>2, <2>4, SentIs
<1> QED
  BY <1>1, <1>2 DEF Chosen

\* The optional submessages that are sent are those the structure has.
LEMMA SentOptionals ==
  ASSUME NEW m \in Structures, Consistent(m)
  PROVE  Sent(m) \cap Optionals = m.has
<1>1. ASSUME NEW x \in Optionals PROVE x \in Sent(m) <=> x \in m.has
  <2>1. PICK p \in Places : \E f \in FieldsAt(p) : f.htype = "optional" /\ x = Append(p, f.tag)
    BY DEF Optionals
  <2>2. PICK f \in FieldsAt(p) : f.htype = "optional" /\ x = Append(p, f.tag)
    BY <2>1
  <2>3. x \in Sent(m) <=> f.ltype # "callback" /\ ~Absent(m, p, f) /\ Present(m, x)
    BY <2>2, SentIs
  <2>4. f.ltype # "callback"
    BY <2>2, FieldFacts
  <2>5. Absent(m, p, f) <=> x \notin m.has
    BY <2>2 DEF Absent
  <2>6. x \in Places
    BY OptionalsArePlaces
  <2> QED
    BY <2>3, <2>4, <2>5, <2>6, ContentsPresent
<1>2. m.has \subseteq Optionals
  BY StructureFacts
<1> QED
  BY <1>1, <1>2

\* A scalar is sent if it is the member of a oneof, or not the default.
LEMMA SentLeaves ==
  ASSUME NEW m \in Structures, Consistent(m), NEW x \in Leaves
  PROVE  x \in Sent(m) <=>
            /\ FieldAt(x).ltype # "callback"
            /\ (\E q \in Places : x = Append(q, m.which[q])) \/ m.data[x] # Zero.data[x]
<1>1. PICK p \in Places : \E f \in FieldsAt(p) :
            x = Append(p, f.tag) /\ f.ltype # "submessage" /\ FieldAt(x) = f
  BY LeafFacts
<1>2. PICK f \in FieldsAt(p) : x = Append(p, f.tag) /\ f.ltype # "submessage" /\ FieldAt(x) = f
  BY <1>1
<1>3. x \in Sent(m) <=> f.ltype # "callback" /\ ~Absent(m, p, f) /\ Present(m, x)
  BY <1>2, SentIs
<1>4. /\ p \in Address /\ f.tag \in Nat \ {0}
      /\ f.ltype = "callback" \/ f.htype \in {"singular", "oneof"}
      /\ (f.tag \in OneofTags(p) <=> f.htype = "oneof")
      /\ m.which[p] \in {0} \cup OneofTags(p)
  BY <1>2, FieldFacts, OneofTag DEF Consistent
<1>5. (\E q \in Places : x = Append(q, m.which[q])) <=> m.which[p] = f.tag
  <2>1. \A q \in Places : q \in Address /\ m.which[q] \in Nat
    BY PlaceIsAddress, StructureFacts
  <2> QED
    BY <1>2, <1>4, <2>1, UnderField
<1>6. m.data[x] # Zero.data[x] => Present(m, x)
  BY ContentsPresent
<1>7. x \in Address /\ Under(x, x)
  BY LeafFacts, UnderOrder
<1>8. CASE f.htype = "oneof"
  <2>1. Absent(m, p, f) <=> m.which[p] # f.tag
    BY <1>8 DEF Absent
  <2>2. Present(m, x) => m.which[p] = f.tag
    BY <1>2, <1>7, <1>8 DEF Present, Lacks
  <2>3. m.which[p] = f.tag => x \in Sent(m)
    <3>1. m.which[p] = f.tag => Chosen(m, Sent(m), p)
      BY <1>4, SentOfOneof
    <3> QED
      BY <1>2, <3>1 DEF Chosen
  <2> QED
    BY <1>2, <1>3, <1>5, <1>6, <2>1, <2>2, <2>3
<1>9. CASE f.htype = "singular"
  <2>1. IsDefault(m, x) <=> m.data[x] = Zero.data[x]
    BY <1>7, LeafBelowLeaf DEF IsDefault
  <2>2. Absent(m, p, f) <=> m.data[x] = Zero.data[x]
    BY <1>2, <1>9, <2>1 DEF Absent
  <2>3. m.which[p] # f.tag
    BY <1>4, <1>9
  <2> QED
    BY <1>2, <1>3, <1>5, <1>6, <2>2, <2>3
<1> QED
  BY <1>2, <1>3, <1>4, <1>8, <1>9

\* The parts of two structures that are merged.
OneofChanges(s, m, x) ==
    \E q \in Places :
        /\ m.which[q] # 0 /\ s.which[q] # m.which[q]
        /\ \E t \in OneofTags(q) : Under(x, Append(q, t))

\* MergeInto, part by part.
LEMMA MergedParts ==
  ASSUME NEW s \in Structures, NEW m \in Structures
  PROVE  LET n == MergeInto(s, m)
         IN  /\ n = [data |-> n.data, has |-> n.has, which |-> n.which]
             /\ n.data = [x \in Leaves |-> n.data[x]] /\ n.which = [q \in Places |-> n.which[q]]
             /\ \A x \in Leaves : n.data[x] =
                   IF FieldAt(x).ltype = "callback" THEN << >>
                   ELSE IF (\E q \in Places : x = Append(q, m.which[q])) \/ m.data[x] # Zero.data[x]
                   THEN m.data[x]
                   ELSE IF OneofChanges(s, m, x) THEN Zero.data[x] ELSE s.data[x]
             /\ \A x : x \in n.has <=> (x \in s.has /\ ~OneofChanges(s, m, x)) \/ x \in m.has
             /\ \A q \in Places : n.which[q] =
                   IF m.which[q] # 0 THEN m.which[q]
                   ELSE IF OneofChanges(s, m, q) THEN 0 ELSE s.which[q]
<1> DEFINE Other(p, t) == m.which[p] \notin {0, s.which[p]} /\ t \in OneofTags(p)
           S == UNION {{Append(p, t) : t \in {u \in OneofTags(p) : Other(p, u)}} : p \in Places}
           old == Cleared(s, S)
           Sets(x) == \E p \in Places : x = Append(p, m.which[p])
           value(x) == IF FieldAt(x).ltype = "callback" THEN << >>
                       ELSE IF Sets(x) \/ m.data[x] # Zero.data[x] THEN m.data[x]
                       ELSE old.data[x]
           n == [data |-> [x \in Leaves |-> value(x)],
                 has |-> old.has \cup m.has,
                 which |-> [p \in Places |-> IF m.which[p] = 0 THEN old.which[p] ELSE m.which[p]]]
<1>1. MergeInto(s, m) = n
  BY DEF MergeInto
<1>2. \A x : (\E b \in S : Under(x, b)) <=> OneofChanges(s, m, x)
  <2> TAKE x
  <2>1. ASSUME NEW b \in S, Under(x, b) PROVE OneofChanges(s, m, x)
    <3>1. PICK p \in Places : b \in {Append(p, t) : t \in {u \in OneofTags(p) : Other(p, u)}}
      OBVIOUS
    <3>2. PICK t \in OneofTags(p) : Other(p, t) /\ b = Append(p, t)
      BY <3>1
    <3> QED
      BY <2>1, <3>2 DEF OneofChanges
  <2>2. ASSUME OneofChanges(s, m, x) PROVE \E b \in S : Under(x, b)
    <3>1. PICK q \in Places : /\ m.which[q] # 0 /\ s.which[q] # m.which[q]
                              /\ \E t \in OneofTags(q) : Under(x, Append(q, t))
      BY <2>2 DEF OneofChanges
    <3>2. PICK t \in OneofTags(q) : Under(x, Append(q, t))
      BY <3>1
    <3>3. Other(q, t)
      BY <3>1
    <3>4. Append(q, t) \in S
      BY <3>3
    <3> QED
      BY <3>2, <3>4
  <2> QED
    BY <2>1, <2>2
<1> HIDE DEF S
<1>3. old = [data |-> [x \in Leaves |-> IF OneofChanges(s, m, x) THEN Zero.data[x] ELSE s.data[x]],
             has |-> {x \in s.has : ~OneofChanges(s, m, x)},
             which |-> [q \in Places |-> IF OneofChanges(s, m, q) THEN 0 ELSE s.which[q]]]
  BY <1>2 DEF Cleared
<1> HIDE DEF old
<1>4. /\ \A x \in Leaves : old.data[x] = IF OneofChanges(s, m, x) THEN Zero.data[x] ELSE s.data[x]
      /\ \A x : x \in old.has <=> x \in s.has /\ ~OneofChanges(s, m, x)
      /\ \A q \in Places : old.which[q] = IF OneofChanges(s, m, q) THEN 0 ELSE s.which[q]
  BY <1>3
<1>5. \A x \in Leaves : n.data[x] =
          IF FieldAt(x).ltype = "callback" THEN << >>
          ELSE IF Sets(x) \/ m.data[x] # Zero.data[x] THEN m.data[x]
          ELSE IF OneofChanges(s, m, x) THEN Zero.data[x] ELSE s.data[x]
  <2> TAKE x \in Leaves
  <2>1. n.data[x] = value(x)
    OBVIOUS
  <2> HIDE DEF n, Sets
  <2> QED
    BY <1>4, <2>1
<1>6. \A x : x \in n.has <=> (x \in s.has /\ ~OneofChanges(s, m, x)) \/ x \in m.has
  BY <1>4
<1>7. \A q \in Places : n.which[q] =
          IF m.which[q] # 0 THEN m.which[q]
          ELSE IF OneofChanges(s, m, q) THEN 0 ELSE s.which[q]
  BY <1>4
<1>8. /\ n = [data |-> n.data, has |-> n.has, which |-> n.which]
      /\ n.data = [x \in Leaves |-> n.data[x]] /\ n.which = [q \in Places |-> n.which[q]]
  OBVIOUS
<1> HIDE DEF n
<1> QED
  BY <1>1, <1>5, <1>6, <1>7, <1>8

\* When all fields of m are decoded into s, the two are merged.
LEMMA MixEnds ==
  ASSUME NEW s \in Structures, FitsC(s), NEW m \in Structures, Consistent(m)
  PROVE  Mix(s, m, Sent(m)) = MergeInto(s, m)
<1> DEFINE D == Sent(m)
           n == MergeInto(s, m)
<1>1. /\ n = [data |-> n.data, has |-> n.has, which |-> n.which]
      /\ n.data = [x \in Leaves |-> n.data[x]] /\ n.which = [q \in Places |-> n.which[q]]
      /\ \A x \in Leaves : n.data[x] =
             IF FieldAt(x).ltype = "callback" THEN << >>
             ELSE IF (\E q \in Places : x = Append(q, m.which[q])) \/ m.data[x] # Zero.data[x]
             THEN m.data[x]
             ELSE IF OneofChanges(s, m, x) THEN Zero.data[x] ELSE s.data[x]
      /\ \A x : x \in n.has <=> (x \in s.has /\ ~OneofChanges(s, m, x)) \/ x \in m.has
      /\ \A q \in Places : n.which[q] =
             IF m.which[q] # 0 THEN m.which[q]
             ELSE IF OneofChanges(s, m, q) THEN 0 ELSE s.which[q]
  BY MergedParts
<1>2. \A q \in Places : Chosen(m, D, q) <=> m.which[q] # 0
  BY SentOfOneof
<1>3. D \cap Optionals = m.has
  BY SentOptionals
<1>4. \A x \in Leaves : x \in D <=>
          /\ FieldAt(x).ltype # "callback"
          /\ (\E q \in Places : x = Append(q, m.which[q])) \/ m.data[x] # Zero.data[x]
  BY SentLeaves
<1>5. \A x \in Leaves : FieldAt(x).ltype = "callback" => s.data[x] = << >> /\ Zero.data[x] = << >>
  <2>1. FitsC(Zero)
    BY ZeroFits
  <2> QED
    BY <2>1 DEF FitsC, FieldFitsC
<1> HIDE DEF D, n
<1>6. \A x : Gone(s, m, D, x) <=> OneofChanges(s, m, x)
  BY <1>2 DEF Gone, OneofChanges
<1>7. \A x \in Leaves : n.data[x] =
             IF x \in D THEN m.data[x]
             ELSE IF Gone(s, m, D, x) THEN Zero.data[x] ELSE s.data[x]
  BY <1>1, <1>4, <1>5, <1>6
<1>8. \A x : x \in n.has <=> (x \in s.has /\ ~Gone(s, m, D, x)) \/ (x \in D /\ x \in Optionals)
  BY <1>1, <1>3, <1>6
<1>9. \A q \in Places : n.which[q] =
             IF Chosen(m, D, q) THEN m.which[q]
             ELSE IF Gone(s, m, D, q) THEN 0 ELSE s.which[q]
  BY <1>1, <1>2, <1>6
<1>10. n = Mix(s, m, D)
  BY <1>1, <1>7, <1>8, <1>9, MixEqual
<1> QED
  BY <1>10 DEF n, D

\* What fits the program is merged into an empty structure as it is.
LEMMA MergedIntoZero ==
  ASSUME NEW m \in Structures, FitsC(m)
  PROVE  MergeInto(Zero, m) = m
<1> DEFINE n == MergeInto(Zero, m)
<1>1. Zero \in Structures /\ Zero.has = {} /\ \A q \in Places : Zero.which[q] = 0
  BY ZeroFits DEF Zero
<1>2. /\ n = [data |-> n.data, has |-> n.has, which |-> n.which]
      /\ n.data = [x \in Leaves |-> n.data[x]] /\ n.which = [q \in Places |-> n.which[q]]
      /\ \A x \in Leaves : n.data[x] =
             IF FieldAt(x).ltype = "callback" THEN << >>
             ELSE IF (\E q \in Places : x = Append(q, m.which[q])) \/ m.data[x] # Zero.data[x]
             THEN m.data[x]
             ELSE IF OneofChanges(Zero, m, x) THEN Zero.data[x] ELSE Zero.data[x]
      /\ \A x : x \in n.has <=> (x \in Zero.has /\ ~OneofChanges(Zero, m, x)) \/ x \in m.has
      /\ \A q \in Places : n.which[q] =
             IF m.which[q] # 0 THEN m.which[q]
             ELSE IF OneofChanges(Zero, m, q) THEN 0 ELSE Zero.which[q]
  BY <1>1, MergedParts
<1> HIDE DEF n
<1>3. \A x \in Leaves : FieldAt(x).ltype = "callback" => m.data[x] = << >>
  BY DEF FitsC, FieldFitsC
<1>4. \A x \in Leaves : n.data[x] = m.data[x]
  BY <1>2, <1>3
<1>5. n.has = m.has
  BY <1>1, <1>2
<1>6. \A q \in Places : n.which[q] = m.which[q]
  BY <1>1, <1>2
<1>7. /\ m = [data |-> m.data, has |-> m.has, which |-> m.which]
      /\ m.data = [x \in Leaves |-> m.data[x]] /\ m.which = [q \in Places |-> m.which[q]]
  BY StructureFacts
<1>8. n.data = m.data /\ n.which = m.which
  BY <1>2, <1>4, <1>6, <1>7
<1> QED
  BY <1>2, <1>5, <1>7, <1>8 DEF n

-----------------------------------------------------------------------------
(* The steps of the decoder                                                *)

\* From d to e in at most n steps.
Leads(d, e, n, path) ==
    path[0] = d /\ path[n] = e /\ \A i \in 1 .. n : path[i] = DecodeStep(path[i - 1])
Within(d, e, n) == \E k \in 0 .. n : \E path : Leads(d, e, k, path)

\* No step, and one.
LEMMA AtOnce ==
  ASSUME NEW d, NEW n \in Nat
  PROVE  Within(d, d, n) /\ (n # 0 => Within(d, DecodeStep(d), n))
<1>1. Leads(d, d, 0, [i \in 0 .. 0 |-> d])
  BY DEF Leads
<1>2. Within(d, d, n)
  BY <1>1 DEF Within
<1>3. Leads(d, DecodeStep(d), 1, [i \in 0 .. 1 |-> IF i = 0 THEN d ELSE DecodeStep(d)])
  BY DEF Leads
<1>4. n # 0 => Within(d, DecodeStep(d), n)
  <2>1. n # 0 => 1 \in 0 .. n
    OBVIOUS
  <2> QED
    BY <1>3, <2>1 DEF Within
<1> QED
  BY <1>2, <1>4

\* Some steps, and then some more.
LEMMA OneAfterAnother ==
  ASSUME NEW d, NEW e, NEW g, NEW n \in Nat, NEW k \in Nat, Within(d, e, n), Within(e, g, k)
  PROVE  Within(d, g, n + k)
<1>1. PICK x \in 0 .. n : \E path : Leads(d, e, x, path)
  BY DEF Within
<1>2. PICK first : Leads(d, e, x, first)
  BY <1>1
<1>3. PICK y \in 0 .. k : \E path : Leads(e, g, y, path)
  BY DEF Within
<1>4. PICK second : Leads(e, g, y, second)
  BY <1>3
<1> DEFINE path == [i \in 0 .. x + y |-> IF i <= x THEN first[i] ELSE second[i - x]]
<1>5. x \in Nat /\ y \in Nat /\ x + y \in 0 .. n + k
  OBVIOUS
<1>6. path[0] = d
  BY <1>2, <1>5 DEF Leads
<1>7. path[x + y] = g
  <2>1. CASE y = 0
    <3>1. x + y = x /\ path[x] = first[x]
      BY <1>5, <2>1
    <3> QED
      BY <1>2, <1>4, <2>1, <3>1 DEF Leads
  <2>2. CASE y # 0
    <3>1. path[x + y] = second[y]
      BY <1>5, <2>2
    <3> QED
      BY <1>4, <3>1 DEF Leads
  <2> QED
    BY <2>1, <2>2
<1>8. ASSUME NEW i \in 1 .. x + y PROVE path[i] = DecodeStep(path[i - 1])
  <2>1. CASE i <= x
    <3>1. i \in 1 .. x /\ path[i] = first[i] /\ path[i - 1] = first[i - 1]
      BY <1>5, <2>1
    <3> QED
      BY <1>2, <3>1 DEF Leads
  <2>2. CASE i = x + 1
    <3>1. path[i] = second[1] /\ path[i - 1] = first[x] /\ 1 \in 1 .. y
      BY <1>5, <2>2
    <3>2. second[1] = DecodeStep(second[1 - 1]) /\ 1 - 1 = 0
      BY <1>4, <3>1 DEF Leads
    <3>3. second[0] = e /\ first[x] = e
      BY <1>2, <1>4 DEF Leads
    <3> QED
      BY <3>1, <3>2, <3>3
  <2>3. CASE i > x + 1
    <3>1. path[i] = second[i - x] /\ path[i - 1] = second[(i - x) - 1] /\ i - x \in 1 .. y
      BY <1>5, <2>3
    <3> QED
      BY <1>4, <3>1 DEF Leads
  <2> QED
    BY <1>5, <2>1, <2>2, <2>3
<1> HIDE DEF path
<1>9. Leads(d, g, x + y, path)
  BY <1>6, <1>7, <1>8 DEF Leads
<1> QED
  BY <1>5, <1>9 DEF Within

\* There may be fewer steps.
LEMMA WithinMore ==
  ASSUME NEW d, NEW e, NEW n \in Nat, NEW k \in Nat, n <= k, Within(d, e, n)
  PROVE  Within(d, e, k)
<1>1. 0 .. n \subseteq 0 .. k
  OBVIOUS
<1> QED
  BY <1>1 DEF Within

\* In the message at p, inside those of the stack.
Reading(stack, p, in, n) == [ok |-> TRUE, open |-> Append(stack, Message(p, in)), m |-> n]

\* When the decoder comes in time where it stays, that is the result.
LEMMA StaysSo ==
  ASSUME NEW in \in Seq(Byte), NEW e, DecodeStep(e) = e,
         Within(Reading(<< >>, << >>, in, Zero), e, 2 * Len(in) + 1)
  PROVE  pb_decode(in) = IF e.ok /\ e.open = << >> THEN Got(e.m, << >>) ELSE Failed
<1> DEFINE d == Decoding(in)
           start == [ok |-> TRUE, open |-> <<Message(<< >>, in)>>, m |-> Zero]
           max == 2 * Len(in) + 1
<1>1. d[0] = start /\ \A k \in 1 .. max : d[k] = DecodeStep(d[k - 1])
  BY DecodingDefined
<1>2. max \in Nat
  OBVIOUS
<1>3. Reading(<< >>, << >>, in, Zero) = start
  BY DEF Reading
<1>4. DecodeStep(e) = e
  OBVIOUS
<1>5. pb_decode(in) = IF d[max].ok /\ d[max].open = << >> THEN Got(d[max].m, << >>) ELSE Failed
  BY DEF pb_decode
<1> HIDE DEF d, start, max
<1>6. Within(start, e, max)
  BY <1>3 DEF max
<1>7. PICK k \in 0 .. max : \E path : Leads(start, e, k, path)
  BY <1>6 DEF Within
<1>8. PICK path : Leads(start, e, k, path)
  BY <1>7
<1>9. d[k] = e
  <2> DEFINE T == {i \in 0 .. k : d[i] = path[i]}
  <2>1. 0 \in T /\ k \in Nat
    BY <1>1, <1>2, <1>8 DEF Leads
  <2>2. ASSUME NEW i \in 0 .. k - 1, i \in T PROVE i + 1 \in T
    <3>1. i + 1 \in 1 .. k /\ i + 1 \in 1 .. max /\ (i + 1) - 1 = i /\ i + 1 \in 0 .. k
      BY <1>2, <2>1
    <3>2. d[i + 1] = DecodeStep(d[i]) /\ path[i + 1] = DecodeStep(path[i])
      BY <1>1, <1>8, <3>1 DEF Leads
    <3> QED
      BY <2>2, <3>1, <3>2
  <2>3. 0 .. k \subseteq T
    <3> HIDE DEF T
    <3> QED
      BY <2>1, <2>2, InductionUpTo
  <2> QED
    BY <1>8, <2>1, <2>3 DEF Leads
<1>10. d[max] = e
  <2> DEFINE T == {i \in 0 .. max - k : d[k + i] = e}
             left == max - k
  <2>1. 0 \in T /\ left \in Nat
    BY <1>2, <1>9
  <2>2. ASSUME NEW i \in 0 .. left - 1, i \in T PROVE i + 1 \in T
    <3>1. k + (i + 1) \in 1 .. max /\ (k + (i + 1)) - 1 = k + i /\ i + 1 \in 0 .. left
      BY <1>2, <2>1
    <3>2. d[k + (i + 1)] = DecodeStep(d[k + i])
      BY <1>1, <3>1
    <3> QED
      BY <1>4, <2>2, <3>1, <3>2
  <2>3. 0 .. left \subseteq T
    <3> HIDE DEF T, left
    <3> QED
      BY <2>1, <2>2, InductionUpTo
  <2>4. left \in 0 .. left /\ k + left = max
    BY <1>2, <2>1
  <2>5. left \in T
    <3> HIDE DEF T, left
    <3> QED
      BY <2>3, <2>4
  <2> QED
    BY <2>4, <2>5
<1> QED
  BY <1>5, <1>10

\* When the last message is left in time, that is the result.
LEMMA Finishes ==
  ASSUME NEW in \in Seq(Byte), NEW n,
         Within(Reading(<< >>, << >>, in, Zero), [ok |-> TRUE, open |-> << >>, m |-> n], 2 * Len(in) + 1)
  PROVE  pb_decode(in) = Got(n, << >>)
<1> DEFINE e == [ok |-> TRUE, open |-> << >>, m |-> n]
<1>1. DecodeStep(e) = e
  BY DEF DecodeStep
<1>2. e.ok /\ e.open = << >> /\ e.m = n
  OBVIOUS
<1> HIDE DEF e
<1>3. Within(Reading(<< >>, << >>, in, Zero), e, 2 * Len(in) + 1)
  BY DEF e
<1> QED
  BY <1>1, <1>2, <1>3, StaysSo

\* After an error nothing is decoded.
LEMMA ErrorFails ==
  ASSUME NEW in \in Seq(Byte), NEW e, ~e.ok,
         Within(Reading(<< >>, << >>, in, Zero), e, 2 * Len(in) + 1)
  PROVE  pb_decode(in) = Failed
<1>1. DecodeStep(e) = e
  BY DEF DecodeStep
<1> QED
  BY <1>1, StaysSo

\* The decoder Reading stands for, field by field.
LEMMA ReadingIs ==
  ASSUME NEW stack \in Seq(Opened), NEW p \in Places, NEW in \in Seq(Byte), NEW n
  PROVE  LET d == Reading(stack, p, in, n)
         IN  /\ d = [ok |-> TRUE, open |-> d.open, m |-> n]
             /\ d.open # << >> /\ d.open \in Seq(Opened) /\ Len(d.open) = Len(stack) + 1
             /\ d.open = Append(stack, Message(p, in)) /\ d.open[Len(d.open)] = Message(p, in)
             /\ SubSeq(d.open, 1, Len(d.open) - 1) = stack
<1> DEFINE x == Message(p, in)
           open == Append(stack, x)
           d == Reading(stack, p, in, n)
<1>1. x \in Opened
  BY DEF Message, Opened
<1>2. d = [ok |-> TRUE, open |-> open, m |-> n]
  BY DEF Reading
<1>3. /\ open \in Seq(Opened) /\ Len(open) = Len(stack) + 1 /\ Len(stack) \in Nat
      /\ open[Len(open)] = x /\ open # << >>
      /\ SubSeq(open, 1, Len(open) - 1) = stack
  <2> HIDE DEF x
  <2>1. /\ open \in Seq(Opened) /\ Len(open) = Len(stack) + 1 /\ Len(stack) \in Nat
        /\ open[Len(stack) + 1] = x /\ open # << >>
        /\ \A i \in 1 .. Len(stack) : open[i] = stack[i]
    BY <1>1
  <2>2. SubSeq(open, 1, Len(stack)) = stack
    BY <1>1
  <2> HIDE DEF open
  <2>3. Len(open) - 1 = Len(stack)
    BY <2>1
  <2> QED
    BY <2>1, <2>2, <2>3
<1> HIDE DEF open, d, x
<1>4. d.open = open
  BY <1>2
<1> QED
  BY <1>2, <1>3, <1>4 DEF x, d, open

\* With other messages open.
LEMMA OpenWith ==
  ASSUME NEW open, NEW n
  PROVE  \A u : [[ok |-> TRUE, open |-> open, m |-> n] EXCEPT !.open = u] = [ok |-> TRUE, open |-> u, m |-> n]
<1> DEFINE d == [ok |-> TRUE, open |-> open, m |-> n]
<1>1. d \in [ok : BOOLEAN, open : {open}, m : {n}] /\ d.ok = TRUE /\ d.open = open /\ d.m = n
  OBVIOUS
<1> HIDE DEF d
<1>2. \A u : [d EXCEPT !.open = u] = [ok |-> d.ok, open |-> u, m |-> d.m]
  BY ONLY <1>1
<1> QED
  BY <1>1, <1>2 DEF d

\* On with the same message.
LEMMA ReadingOn ==
  ASSUME NEW stack \in Seq(Opened), NEW p \in Places, NEW in \in Seq(Byte), NEW n,
         NEW rest \in Seq(Byte), NEW o
  PROVE  Continue(Reading(stack, p, in, n), rest, o) = Reading(stack, p, rest, o)
<1> DEFINE x == Message(p, in)
           y == Message(p, rest)
           open == Append(stack, x)
           l == Len(stack) + 1
           r == [open EXCEPT ![l] = y]
           z == Append(stack, y)
           d == Reading(stack, p, in, n)
<1>1. /\ x \in Opened /\ y \in Opened
      /\ x = [place |-> p, in |-> in] /\ y = [place |-> p, in |-> rest]
  BY DEF Message, Opened
<1>2. [x EXCEPT !.in = rest] = y
  BY <1>1
<1>3. /\ open \in Seq(Opened) /\ Len(open) = l /\ open[l] = x /\ l \in 1 .. l /\ l \in Nat
      /\ z \in Seq(Opened) /\ Len(z) = l /\ z[l] = y
      /\ \A i \in 1 .. l : i # l => open[i] = z[i]
  <2> HIDE DEF x, y
  <2> QED
    BY <1>1
<1> HIDE DEF x, y, open, z, l
<1>4. r \in Seq(Opened) /\ Len(r) = l /\ \A i \in 1 .. l : r[i] = z[i]
  BY <1>1, <1>3
<1>5. r = z
  <2> HIDE DEF r
  <2> QED
    BY <1>3, <1>4, SeqEqual
<1>6. [open EXCEPT ![l].in = rest] = r
  BY <1>2, <1>3
<1>7. d.ok = TRUE /\ d.open = open
  BY DEF Reading, open, x
<1>8. Continue(d, rest, o) = [ok |-> d.ok, open |-> [d.open EXCEPT ![Len(d.open)].in = rest], m |-> o]
  BY DEF Continue
<1> HIDE DEF d, r
<1>9. Continue(d, rest, o) = [ok |-> TRUE, open |-> z, m |-> o]
  BY <1>3, <1>5, <1>6, <1>7, <1>8
<1> QED
  BY <1>9 DEF d, z, y, Reading

\* The end of a submessage: back to the message around it.
LEMMA SubmessageLeft ==
  ASSUME NEW stack \in Seq(Opened), NEW p \in Places, NEW n
  PROVE  DecodeStep(Reading(stack, p, << >>, n)) = [ok |-> TRUE, open |-> stack, m |-> n]
<1> DEFINE d == Reading(stack, p, << >>, n)
<1>1. << >> \in Seq(Byte)
  OBVIOUS
<1>2. /\ d = [ok |-> TRUE, open |-> d.open, m |-> n]
      /\ d.open # << >> /\ d.open[Len(d.open)] = Message(p, << >>)
      /\ SubSeq(d.open, 1, Len(d.open) - 1) = stack
  BY <1>1, ReadingIs, ZenonT(30)
<1>3. Message(p, << >>).in = << >>
  BY DEF Message
<1>7. \A u : [d EXCEPT !.open = u] = [ok |-> TRUE, open |-> u, m |-> n]
  BY OpenWith DEF Reading
<1> HIDE DEF d
<1>4. d.ok
  BY <1>2
<1>5. DecodeStep(d) = [d EXCEPT !.open = SubSeq(@, 1, Len(@) - 1)]
  BY <1>2, <1>3, <1>4 DEF DecodeStep
<1>6. [d EXCEPT !.open = SubSeq(@, 1, Len(@) - 1)] = [ok |-> TRUE, open |-> stack, m |-> n]
  <2>2. [d EXCEPT !.open = SubSeq(@, 1, Len(@) - 1)]
            = [ok |-> TRUE, open |-> SubSeq(d.open, 1, Len(d.open) - 1), m |-> n]
    BY ONLY <1>7, Zenon
  <2> QED
    BY <1>2, <2>2
<1> QED
  BY <1>5, <1>6 DEF d

\* The next field, behind its key.
LEMMA ReadsField ==
  ASSUME NEW stack \in Seq(Opened), NEW p \in Places, NEW in \in Seq(Byte), in # << >>, NEW n,
         pb_decode_varint32(in).ok, pb_decode_varint32(in).value \div 8 # 0
  PROVE  LET key == pb_decode_varint32(in)
         IN  DecodeStep(Reading(stack, p, in, n)) =
                 decode_field(Reading(stack, p, in, n), key.rest, key.value % 8, p, key.value \div 8)
<1> DEFINE d == Reading(stack, p, in, n)
<1>1. d.ok /\ d.open # << >> /\ d.open[Len(d.open)] = Message(p, in)
  <2>1. /\ d = [ok |-> TRUE, open |-> d.open, m |-> n]
        /\ d.open # << >> /\ d.open[Len(d.open)] = Message(p, in)
    BY ReadingIs
  <2> HIDE DEF d
  <2> QED
    BY <2>1
<1>2. Message(p, in).in = in /\ Message(p, in).place = p
  BY DEF Message
<1> HIDE DEF d
<1>3. DecodeStep(d) =
          decode_field(d, pb_decode_varint32(in).rest, pb_decode_varint32(in).value % 8, p,
                       pb_decode_varint32(in).value \div 8)
  BY <1>1, <1>2 DEF DecodeStep
<1> QED
  BY <1>3 DEF d

\* A field of the message, behind the key that was written.
LEMMA ReadsKnown ==
  ASSUME NEW stack \in Seq(Opened), NEW p \in Places, NEW f \in FieldsAt(p), NEW in \in Seq(Byte), NEW n
  PROVE  LET d == Reading(stack, p, pb_encode_varint(KeyOf(f)) \o in, n)
         IN  /\ f.ltype = "callback" => DecodeStep(d) =
                   LET skipped == decode_callback_field(in, WireType(f.ltype))
                   IN  IF skipped.ok THEN Continue(d, skipped.rest, d.m) ELSE Error(d)
             /\ f.ltype # "callback" => DecodeStep(d) =
                   decode_static_field(d, in, WireType(f.ltype), p, f)
<1> DEFINE s == pb_encode_varint(KeyOf(f))
           all == s \o in
           key == pb_decode_varint32(all)
           d == Reading(stack, p, all, n)
<1>1. /\ KeyOf(f) \div 8 = f.tag /\ f.tag # 0 /\ KeyOf(f) % 8 = WireType(f.ltype)
      /\ s \in Seq(Byte) /\ Len(s) \in Nat \ {0}
      /\ key = Got(KeyOf(f), in)
  BY KeyWritten
<1>2. key.ok /\ key.value = KeyOf(f) /\ key.rest = in
  BY <1>1 DEF Got
<1>3. all \in Seq(Byte) /\ all # << >>
  <2> HIDE DEF s
  <2>1. all \in Seq(Byte) /\ Len(all) = Len(s) + Len(in) /\ Len(in) \in Nat
    BY <1>1, BytesBefore
  <2> HIDE DEF all
  <2> QED
    BY <1>1, <2>1
<1> HIDE DEF s, all, key
<1>4. DecodeStep(d) = decode_field(d, in, WireType(f.ltype), p, f.tag)
  <2>1. DecodeStep(d) = decode_field(d, key.rest, key.value % 8, p, key.value \div 8)
    BY <1>1, <1>2, <1>3, ReadsField DEF key
  <2> HIDE DEF d
  <2> QED
    BY <1>1, <1>2, <2>1
<1> HIDE DEF d
<1>5. /\ \E g \in FieldsAt(p) : g.tag = f.tag
      /\ (CHOOSE g \in FieldsAt(p) : g.tag = f.tag) = f
  BY FieldFacts
<1>6. f.ltype = "callback" => DecodeStep(d) =
          LET skipped == decode_callback_field(in, WireType(f.ltype))
          IN  IF skipped.ok THEN Continue(d, skipped.rest, d.m) ELSE Error(d)
  BY <1>4, <1>5 DEF decode_field
<1>7. f.ltype # "callback" => DecodeStep(d) = decode_static_field(d, in, WireType(f.ltype), p, f)
  BY <1>4, <1>5 DEF decode_field
<1> QED
  BY <1>6, <1>7 DEF d, all, s

-----------------------------------------------------------------------------
(* Bytes that fill in some of the fields                                   *)

\* Where the message at p is open and none of the fields A of m is decoded, the
\* decoder gets through b and has decoded A.
FillsFrom(m, p, A, b, s, D, stack, rest) ==
    /\ Closed(m, D \cup A)
    /\ Within(Reading(stack, p, b \o rest, Mix(s, m, D)),
              Reading(stack, p, rest, Mix(s, m, D \cup A)), 2 * Len(b))
\* The message at p is open, and none of A is decoded.
Ready(m, p, A, D) == Closed(m, D) /\ (p = << >> \/ p \in D) /\ D \cap A = {}
\* The bytes b stand for the fields A, whatever was there before, whatever is
\* around the message and whatever follows.
Fills(m, p, A, b) ==
    \A s \in Structures : \A D \in SUBSET Sent(m) : \A stack \in Seq(Opened) : \A rest \in Seq(Byte) :
        Ready(m, p, A, D) => FillsFrom(m, p, A, b, s, D, stack, rest)

\* No bytes.
LEMMA FillsNothing ==
  ASSUME NEW m, NEW p
  PROVE  Fills(m, p, {}, << >>)
<1> SUFFICES ASSUME NEW s \in Structures, NEW D \in SUBSET Sent(m), NEW stack \in Seq(Opened),
                    NEW rest \in Seq(Byte), Ready(m, p, {}, D)
             PROVE  FillsFrom(m, p, {}, << >>, s, D, stack, rest)
  BY DEF Fills
<1>1. << >> \o rest = rest /\ D \cup {} = D /\ 2 * Len(<< >>) = 0
  OBVIOUS
<1>2. \A d : Within(d, d, 0)
  BY AtOnce
<1> QED
  BY <1>1, <1>2 DEF FillsFrom, Ready

\* One after the other.
LEMMA FillsBoth ==
  ASSUME NEW m, NEW p, NEW A, NEW B, A \cap B = {}, NEW b \in Seq(Byte), NEW c \in Seq(Byte),
         Fills(m, p, A, b), Fills(m, p, B, c)
  PROVE  Fills(m, p, A \cup B, b \o c)
<1> SUFFICES ASSUME NEW s \in Structures, NEW D \in SUBSET Sent(m), NEW stack \in Seq(Opened),
                    NEW rest \in Seq(Byte), Ready(m, p, A \cup B, D)
             PROVE  FillsFrom(m, p, A \cup B, b \o c, s, D, stack, rest)
  BY DEF Fills
<1> DEFINE E == D \cup A
           x == Reading(stack, p, b \o (c \o rest), Mix(s, m, D))
           y == Reading(stack, p, c \o rest, Mix(s, m, E))
           z == Reading(stack, p, rest, Mix(s, m, E \cup B))
<1>1. /\ c \o rest \in Seq(Byte) /\ (b \o c) \o rest = b \o (c \o rest)
      /\ Len(b \o c) = Len(b) + Len(c) /\ Len(b) \in Nat /\ Len(c) \in Nat
  BY BytesBefore, BytesJoined, SMTT(30)
<1>2. Ready(m, p, A, D)
  BY DEF Ready
<1>3. Closed(m, E) /\ Within(x, y, 2 * Len(b))
  BY <1>1, <1>2 DEF Fills, FillsFrom
<1>4. E \in SUBSET Sent(m) /\ Ready(m, p, B, E)
  BY <1>3 DEF Ready, Closed
<1> HIDE DEF E
<1>5. Closed(m, E \cup B) /\ Within(y, z, 2 * Len(c))
  BY <1>4 DEF Fills, FillsFrom
<1> HIDE DEF x, y, z
<1>6. Within(x, z, 2 * Len(b) + 2 * Len(c))
  <2>1. 2 * Len(b) \in Nat /\ 2 * Len(c) \in Nat
    BY <1>1
  <2> QED
    BY <1>3, <1>5, <2>1, OneAfterAnother
<1>7. 2 * Len(b) + 2 * Len(c) = 2 * Len(b \o c) /\ E \cup B = D \cup (A \cup B)
  BY <1>1 DEF E
<1> QED
  BY <1>1, <1>5, <1>6, <1>7 DEF FillsFrom, x, z

\* The field comes after the submessages it is in.
LEMMA NextField ==
  ASSUME NEW m, NEW p \in Places, NEW f \in FieldsAt(p), NEW D, NEW A,
         Append(p, f.tag) \in A, Append(p, f.tag) \in Sent(m), Ready(m, p, A, D)
  PROVE  Extends(m, D, Append(p, f.tag))
<1> DEFINE a == Append(p, f.tag)
<1>1. a \in Sent(m) \ D /\ Closed(m, D)
  BY DEF Ready
<1>2. ASSUME NEW y \in Sent(m), Under(a, y), y # a PROVE y \in D
  <2>1. p \in Address /\ f.tag \in Nat /\ y \in Address
    BY FieldFacts, SentFacts
  <2>2. Under(p, y)
    BY <1>2, <2>1, UnderField
  <2>3. CASE p = << >>
    <3>1. PICK q \in Places : \E g \in FieldsAt(q) : y = Append(q, g.tag)
      BY SentFacts
    <3>2. PICK g \in FieldsAt(q) : y = Append(q, g.tag)
      BY <3>1
    <3>3. Len(y) = Len(q) + 1 /\ Len(q) \in Nat
      BY <3>2, FieldFacts, FieldAddress
    <3>4. Len(y) <= Len(p) /\ Len(p) = 0
      BY <2>2, <2>3 DEF Under
    <3> QED
      BY <3>3, <3>4
  <2>4. CASE p \in D
    BY <1>1, <2>2, <2>4 DEF Closed
  <2> QED
    BY <2>3, <2>4 DEF Ready
<1> QED
  BY <1>1, <1>2 DEF Extends

\* A string of a callback field is skipped.
LEMMA CallbackFills ==
  ASSUME NEW m, NEW p \in Places, NEW f \in FieldsAt(p), f.ltype = "callback",
         NEW b \in Seq(Byte), Len(b) < Max32
  PROVE  LET c == pb_encode_varint(KeyOf(f)) \o Delimited(b)
         IN  c \in Seq(Byte) /\ Fills(m, p, {}, c)
<1> DEFINE k == pb_encode_varint(KeyOf(f))
           c == k \o Delimited(b)
<1>1. k \in Seq(Byte) /\ Len(k) \in Nat \ {0}
  <2>1. << >> \in Seq(Byte)
    OBVIOUS
  <2> QED
    BY <2>1, KeyWritten
<1>2. Delimited(b) \in Seq(Byte)
  <2>1. << >> \in Seq(Byte)
    OBVIOUS
  <2> QED
    BY <2>1, DelimitedWritten
<1>3. c \in Seq(Byte) /\ Len(c) \in Nat \ {0}
  <2> HIDE DEF k
  <2>1. c \in Seq(Byte) /\ Len(c) = Len(k) + Len(Delimited(b)) /\ Len(Delimited(b)) \in Nat
    BY <1>1, <1>2, BytesBefore
  <2> QED
    BY <1>1, <2>1
<1>4. SUFFICES ASSUME NEW s \in Structures, NEW D \in SUBSET Sent(m), NEW stack \in Seq(Opened),
                      NEW rest \in Seq(Byte), Ready(m, p, {}, D)
               PROVE  FillsFrom(m, p, {}, c, s, D, stack, rest)
  BY <1>3 DEF Fills
<1> DEFINE in == Delimited(b) \o rest
           n == Mix(s, m, D)
           all == k \o in
           d == Reading(stack, p, all, n)
           skipped == decode_callback_field(in, WireType(f.ltype))
<1>5. c \o rest = all /\ in \in Seq(Byte) /\ all \in Seq(Byte)
  <2> HIDE DEF k
  <2> QED
    BY <1>1, <1>2, BytesJoined, BytesBefore
<1>6. skipped = Got(b, rest)
  <2>1. Substream(in) = Got(b, rest)
    BY DelimitedWritten
  <2>2. WireType(f.ltype) = WT_STRING /\ WT_STRING # WT_VARINT
    BY DEF WireType, WT_STRING, WT_VARINT
  <2> HIDE DEF in
  <2>3. pb_skip_field(in, WT_STRING) = Substream(in)
    BY DEF pb_skip_field, WT_VARINT, WT_64BIT, WT_STRING, WT_32BIT
  <2> QED
    BY <2>1, <2>2, <2>3 DEF decode_callback_field
<1>7. skipped.ok /\ skipped.rest = rest
  BY <1>6 DEF Got
<1>8. DecodeStep(d) = IF skipped.ok THEN Continue(d, skipped.rest, d.m) ELSE Error(d)
  <2> HIDE DEF in
  <2> QED
    BY <1>5, ReadsKnown
<1> HIDE DEF skipped, in, k, c, n, all
<1>9. Continue(d, rest, d.m) = Reading(stack, p, rest, n)
  <2>1. d.m = n
    BY DEF Reading
  <2>2. Continue(d, rest, n) = Reading(stack, p, rest, n)
    BY <1>5, ReadingOn
  <2> HIDE DEF d
  <2> QED
    BY <2>1, <2>2
<1>10. Within(d, Reading(stack, p, rest, n), 2 * Len(c))
  <2>1. 2 * Len(c) \in Nat /\ 2 * Len(c) # 0
    BY <1>3
  <2> HIDE DEF d, c
  <2> QED
    BY <1>7, <1>8, <1>9, <2>1, AtOnce
<1>11. D \cup {} = D
  OBVIOUS
<1>12. Closed(m, D) /\ Reading(stack, p, c \o rest, n) = d
  BY <1>4, <1>5 DEF Ready
<1> HIDE DEF d
<1> QED
  BY <1>10, <1>11, <1>12 DEF FillsFrom, n

\* A field with a single value is decoded.
LEMMA ScalarFills ==
  ASSUME NEW m, NEW p \in Places, NEW f \in FieldsAt(p), f.ltype \notin {"callback", "submessage"},
         Append(p, f.tag) \in Sent(m), m.data[Append(p, f.tag)] \in Values(f),
         StringAllowed(f, m.data[Append(p, f.tag)]), Len(Contents(f, m.data[Append(p, f.tag)])) < Max32
  PROVE  LET c == pb_encode_varint(KeyOf(f)) \o Contents(f, m.data[Append(p, f.tag)])
         IN  c \in Seq(Byte) /\ Fills(m, p, {Append(p, f.tag)}, c)
<1> DEFINE a == Append(p, f.tag)
           v == m.data[a]
           k == pb_encode_varint(KeyOf(f))
           c == k \o Contents(f, v)
<1>0. /\ f.ltype \in {"bool", "enum", "int32", "string"} /\ v \in Values(f)
      /\ f.ltype = "string" => f.size \in Nat /\ Len(v) < f.size
      /\ Len(Contents(f, v)) < Max32
  BY FieldFacts DEF StringAllowed
<1>00. \A rest \in Seq(Byte) :
          /\ Contents(f, v) \in Seq(Byte)
          /\ decode_basic_field(Contents(f, v) \o rest, f) = Got(v, rest)
  <2> HIDE DEF v
  <2> QED
    BY <1>0, ContentsRead
<1> HIDE DEF v
<1>1. k \in Seq(Byte) /\ Len(k) \in Nat \ {0} /\ Contents(f, v) \in Seq(Byte)
  <2>1. << >> \in Seq(Byte)
    OBVIOUS
  <2>2. k \in Seq(Byte) /\ Len(k) \in Nat \ {0}
    BY <2>1, KeyWritten
  <2>3. Contents(f, v) \in Seq(Byte)
    BY <1>00, <2>1
  <2> QED
    BY <2>2, <2>3
<1>2. c \in Seq(Byte) /\ Len(c) \in Nat \ {0}
  <2> HIDE DEF k
  <2>1. c \in Seq(Byte) /\ Len(c) = Len(k) + Len(Contents(f, v)) /\ Len(Contents(f, v)) \in Nat
    BY <1>1, BytesBefore
  <2> QED
    BY <1>1, <2>1
<1>3. SUFFICES ASSUME NEW s \in Structures, NEW D \in SUBSET Sent(m), NEW stack \in Seq(Opened),
                      NEW rest \in Seq(Byte), Ready(m, p, {a}, D)
               PROVE  FillsFrom(m, p, {a}, c, s, D, stack, rest)
  BY <1>2 DEF Fills, v
<1>6. Extends(m, D, a)
  <2> DEFINE A == {a}
  <2>1. a \in A /\ a \in Sent(m) /\ Ready(m, p, A, D)
    BY <1>3
  <2> HIDE DEF A
  <2> QED
    BY <2>1, NextField
<1> DEFINE in == Contents(f, v) \o rest
           n == Mix(s, m, D)
           o == [Prepared(n, p, f) EXCEPT !.data[a] = v]
           all == k \o in
           d == Reading(stack, p, all, n)
           value == decode_basic_field(in, f)
<1>4. c \o rest = all /\ in \in Seq(Byte) /\ all \in Seq(Byte)
  <2> HIDE DEF k
  <2> QED
    BY <1>1, BytesJoined, BytesBefore
<1>5. value.ok /\ value.value = v /\ value.rest = rest
  <2>1. value = Got(v, rest)
    BY <1>00
  <2> HIDE DEF value
  <2> QED
    BY <2>1 DEF Got
<1>7. o = Mix(s, m, D \cup {a})
  <2>1. With(Prepared(Mix(s, m, D), p, f), a, m.data[a]) = Mix(s, m, D \cup {a})
    BY <1>6, MixStep
  <2> QED
    BY <2>1 DEF v, With
<1>8. DecodeStep(d) = decode_static_field(d, in, WireType(f.ltype), p, f)
  <2> HIDE DEF in
  <2> QED
    BY <1>4, ReadsKnown
<1>9. d.m = n
  BY DEF Reading
<1>10. DecodeStep(d) = Continue(d, rest, o)
  <2> HIDE DEF d, n, in
  <2>1. decode_static_field(d, in, WireType(f.ltype), p, f) =
            IF value.ok THEN Continue(d, value.rest, [Prepared(d.m, p, f) EXCEPT !.data[a] = value.value])
            ELSE Error(d)
    BY DEF decode_static_field
  <2> HIDE DEF value
  <2> QED
    BY <1>5, <1>8, <1>9, <2>1
<1> HIDE DEF in, k, o, n, c, value, all
<1>11. Continue(d, rest, o) = Reading(stack, p, rest, o)
  BY <1>4, ReadingOn
<1>12. Within(d, Reading(stack, p, rest, o), 2 * Len(c))
  <2>1. 2 * Len(c) \in Nat /\ 2 * Len(c) # 0
    BY <1>2
  <2> HIDE DEF d, c
  <2> QED
    BY <1>10, <1>11, <2>1, AtOnce
<1>13. Closed(m, D \cup {a})
  BY <1>6, ClosedWith
<1>14. Reading(stack, p, c \o rest, n) = d
  BY <1>4
<1> HIDE DEF d, a
<1> QED
  BY <1>7, <1>12, <1>13, <1>14 DEF FillsFrom, n

\* A submessage is entered, its fields are decoded, and it is left.
LEMMA SubmessageFills ==
  ASSUME NEW m, NEW p \in Places, NEW f \in FieldsAt(p), f.ltype = "submessage",
         Append(p, f.tag) \in Sent(m), NEW B, Append(p, f.tag) \notin B,
         NEW b \in Seq(Byte), Len(b) < Max32, Fills(m, Append(p, f.tag), B, b)
  PROVE  LET c == pb_encode_varint(KeyOf(f)) \o Delimited(b)
         IN  c \in Seq(Byte) /\ Fills(m, p, {Append(p, f.tag)} \cup B, c)
<1> DEFINE a == Append(p, f.tag)
           A == {a} \cup B
           k == pb_encode_varint(KeyOf(f))
           c == k \o Delimited(b)
<1>1. k \in Seq(Byte) /\ Len(k) \in Nat \ {0}
  <2>1. << >> \in Seq(Byte)
    OBVIOUS
  <2> QED
    BY <2>1, KeyWritten
<1>2. Delimited(b) \in Seq(Byte) /\ Len(Delimited(b)) > Len(b)
  <2>1. << >> \in Seq(Byte)
    OBVIOUS
  <2> QED
    BY <2>1, DelimitedWritten
<1>3. c \in Seq(Byte) /\ Len(c) \in Nat /\ Len(b) \in Nat /\ Len(b) + 2 <= Len(c)
  <2> HIDE DEF k
  <2>1. /\ c \in Seq(Byte) /\ Len(c) = Len(k) + Len(Delimited(b))
        /\ Len(Delimited(b)) \in Nat /\ Len(b) \in Nat
    BY <1>1, <1>2, BytesBefore
  <2> HIDE DEF c
  <2> QED
    BY <1>1, <1>2, <2>1
<1>4. SUFFICES ASSUME NEW s \in Structures, NEW D \in SUBSET Sent(m), NEW stack \in Seq(Opened),
                      NEW rest \in Seq(Byte), Ready(m, p, A, D)
               PROVE  FillsFrom(m, p, A, c, s, D, stack, rest)
  BY <1>3 DEF Fills
<1>5. Extends(m, D, a) /\ a \in Places
  <2>1. a \in A /\ a \in Sent(m) /\ Ready(m, p, A, D)
    BY <1>4
  <2>2. a \in Places
    BY FieldFacts
  <2> HIDE DEF A
  <2> QED
    BY <2>1, <2>2, NextField
<1> DEFINE E == D \cup {a}
           F == E \cup B
<1>6. Prepared(Mix(s, m, D), p, f) = Mix(s, m, E)
  BY <1>5, MixStep, SMTT(30)
<1>7. Closed(m, E) /\ E \in SUBSET Sent(m) /\ a \in E /\ E \cap B = {} /\ F = D \cup A
  <2>1. Closed(m, E)
    BY <1>5, ClosedWith
  <2>2. D \cap A = {}
    BY <1>4 DEF Ready
  <2> QED
    BY <2>1, <2>2 DEF Closed
<1> HIDE DEF E, F
<1> DEFINE in == Delimited(b) \o rest
           all == k \o in
           n == Mix(s, m, D)
           d == Reading(stack, p, all, n)
           around == Append(stack, Message(p, rest))
<1>8. c \o rest = all /\ in \in Seq(Byte) /\ all \in Seq(Byte)
  <2> DEFINE l == Delimited(b)
  <2>1. k \in Seq(Byte) /\ l \in Seq(Byte)
    BY <1>1, <1>2
  <2> HIDE DEF k, l
  <2>2. (k \o l) \o rest = k \o (l \o rest)
    BY <2>1, BytesJoined, SMTT(30)
  <2>3. l \o rest \in Seq(Byte)
    BY <2>1, BytesBefore
  <2>4. k \o (l \o rest) \in Seq(Byte)
    BY <2>1, <2>3, BytesBefore
  <2> QED
    BY <2>2, <2>3, <2>4 DEF l
<1>9. Substream(in).ok /\ Substream(in).value = b /\ Substream(in).rest = rest
  <2>1. Substream(in) = Got(b, rest)
    BY DelimitedWritten
  <2> HIDE DEF in
  <2> QED
    BY <2>1 DEF Got
<1>10. DecodeStep(d) = decode_static_field(d, in, WireType(f.ltype), p, f)
  <2> HIDE DEF in
  <2> QED
    BY <1>8, ReadsKnown
<1>11. d.m = n
  BY DEF Reading
<1> HIDE DEF in, all, k, c
<1>12. DecodeStep(d) = Enter(Continue(d, rest, Mix(s, m, E)), Message(a, b))
  <2> HIDE DEF d
  <2>1. DecodeStep(d) = pb_dec_submessage(d, in, a, Prepared(d.m, p, f))
    BY <1>10 DEF decode_static_field
  <2>2. DecodeStep(d) = pb_dec_submessage(d, in, a, Mix(s, m, E))
    BY <1>6, <1>11, <2>1
  <2> QED
    BY <1>9, <2>2 DEF pb_dec_submessage
<1>13. DecodeStep(d) = Reading(around, a, b, Mix(s, m, E))
  <2> DEFINE o == Mix(s, m, E)
  <2> HIDE DEF n, o
  <2>1. Continue(d, rest, o) = Reading(stack, p, rest, o)
    BY <1>8, ReadingOn
  <2>2. Reading(stack, p, rest, o) = [ok |-> TRUE, open |-> around, m |-> o]
    BY DEF Reading
  <2> HIDE DEF d, around
  <2> DEFINE e == [ok |-> TRUE, open |-> around, m |-> o]
  <2>3. \A u : [e EXCEPT !.open = u] = [ok |-> TRUE, open |-> u, m |-> o]
    BY OpenWith
  <2>4. e.open = around
    OBVIOUS
  <2> HIDE DEF e
  <2>5. [e EXCEPT !.open = Append(@, Message(a, b))] =
            [ok |-> TRUE, open |-> Append(e.open, Message(a, b)), m |-> o]
    BY ONLY <2>3, Zenon
  <2>6. DecodeStep(d) = Enter(e, Message(a, b))
    BY <1>12, <2>1, <2>2 DEF e, o
  <2>7. Enter(e, Message(a, b)) = [e EXCEPT !.open = Append(@, Message(a, b))]
    BY DEF Enter
  <2> QED
    BY <2>4, <2>5, <2>6, <2>7 DEF Reading, o
<1>14. around \in Seq(Opened)
  <2>1. Message(p, rest) \in Opened
    BY DEF Message, Opened
  <2> QED
    BY <2>1
<1> HIDE DEF around
<1>15. /\ Closed(m, F)
       /\ Within(Reading(around, a, b, Mix(s, m, E)), Reading(around, a, << >>, Mix(s, m, F)), 2 * Len(b))
  <2>1. Ready(m, a, B, E)
    BY <1>7 DEF Ready
  <2>2. << >> \in Seq(Byte) /\ b \o << >> = b
    OBVIOUS
  <2>3. FillsFrom(m, a, B, b, s, E, around, << >>)
    BY <1>7, <1>14, <2>1, <2>2 DEF Fills
  <2> QED
    BY <2>2, <2>3 DEF FillsFrom, F
<1>16. DecodeStep(Reading(around, a, << >>, Mix(s, m, F))) = Reading(stack, p, rest, Mix(s, m, F))
  <2>1. DecodeStep(Reading(around, a, << >>, Mix(s, m, F))) = [ok |-> TRUE, open |-> around, m |-> Mix(s, m, F)]
    BY <1>5, <1>14, SubmessageLeft
  <2> QED
    BY <2>1 DEF Reading, around
<1>17. Within(d, Reading(stack, p, rest, Mix(s, m, F)), 2 * Len(c))
  <2> DEFINE x == Reading(around, a, b, Mix(s, m, E))
             y == Reading(around, a, << >>, Mix(s, m, F))
             z == Reading(stack, p, rest, Mix(s, m, F))
             u == 2 * Len(b)
  <2>0. u \in Nat /\ 1 \in Nat /\ 1 + u \in Nat /\ (1 + u) + 1 \in Nat /\ 2 * Len(c) \in Nat /\ (1 + u) + 1 <= 2 * Len(c)
    BY <1>3
  <2> HIDE DEF d, x, y, z, u
  <2>1. Within(d, x, 1)
    BY <1>13, <2>0, AtOnce DEF x
  <2>2. Within(x, y, u)
    BY <1>15 DEF x, y, u
  <2>3. Within(y, z, 1)
    BY <1>16, <2>0, AtOnce DEF y, z
  <2>4. Within(d, y, 1 + u)
    BY <2>0, <2>1, <2>2, OneAfterAnother
  <2>5. Within(d, z, (1 + u) + 1)
    BY <2>0, <2>3, <2>4, OneAfterAnother
  <2>6. Within(d, z, 2 * Len(c))
    BY <2>0, <2>5, WithinMore
  <2> QED
    BY <2>6 DEF z
<1>18. Reading(stack, p, c \o rest, n) = d
  BY <1>8
<1> HIDE DEF d, A
<1> QED
  BY <1>7, <1>15, <1>17, <1>18 DEF FillsFrom, n

-----------------------------------------------------------------------------
(* What the encoder writes fills in the fields                             *)

\* The streams that only count.
Counters == {s \in WithinRoom : s.sizing}

\* From s to t there are bytes that fill in the fields A, if t is not too long.
Filled(s, t, m, p, A) ==
    t.ok /\ Len(t.bytes) < Max32 =>
        /\ s.ok /\ Len(s.bytes) < Max32
        /\ \E b \in Seq(Byte) : t.bytes = s.bytes \o b /\ Fills(m, p, A, b)

\* A stream that counts goes on counting, and takes what it is given.
LEMMA CounterWrote ==
  ASSUME NEW s \in Counters, NEW t, NEW x, NEW b \in Seq(Byte), Wrote(s, t, x, b)
  PROVE  /\ t \in Counters
         /\ t.ok => s.ok /\ x /\ t.bytes = s.bytes \o b
         /\ s.bytes \in Seq(Byte) /\ Len(s.bytes \o b) = Len(s.bytes) + Len(b)
         /\ Len(s.bytes) \in Nat /\ Len(b) \in Nat
<1>1. s \in WithinRoom /\ s.sizing
  BY DEF Counters
<1>2. s.bytes \in Seq(Byte)
  BY <1>1, StreamFacts
<1>3. /\ s.bytes \in Seq(Byte) /\ Len(s.bytes \o b) = Len(s.bytes) + Len(b)
      /\ Len(s.bytes) \in Nat /\ Len(b) \in Nat
  BY <1>2
<1>4. t \in Counters
  BY <1>1 DEF Wrote, Counters
<1> QED
  BY <1>1, <1>3, <1>4 DEF Wrote

\* Bytes that fill in fields, if they are not too long.
LEMMA FilledBy ==
  ASSUME NEW s \in Counters, NEW t, NEW x, NEW b \in Seq(Byte), Wrote(s, t, x, b), NEW m, NEW p, NEW A,
         x /\ Len(b) < Max32 => Fills(m, p, A, b)
  PROVE  Filled(s, t, m, p, A)
<1> SUFFICES ASSUME t.ok, Len(t.bytes) < Max32
             PROVE  /\ s.ok /\ Len(s.bytes) < Max32
                    /\ \E c \in Seq(Byte) : t.bytes = s.bytes \o c /\ Fills(m, p, A, c)
  BY DEF Filled
<1>1. /\ s.ok /\ x /\ t.bytes = s.bytes \o b
      /\ Len(s.bytes \o b) = Len(s.bytes) + Len(b) /\ Len(s.bytes) \in Nat /\ Len(b) \in Nat
  BY CounterWrote
<1>2. Max32 \in Nat
  BY Widths, Pow2Positive DEF Max32
<1>3. Len(s.bytes) < Max32 /\ Len(b) < Max32
  BY <1>1, <1>2
<1> QED
  BY <1>1, <1>3

\* One after the other.
LEMMA FilledBoth ==
  ASSUME NEW s \in Counters, NEW t, NEW u, NEW m, NEW p, NEW A, NEW B, A \cap B = {},
         Filled(s, t, m, p, A), Filled(t, u, m, p, B)
  PROVE  Filled(s, u, m, p, A \cup B)
<1> SUFFICES ASSUME u.ok, Len(u.bytes) < Max32
             PROVE  /\ s.ok /\ Len(s.bytes) < Max32
                    /\ \E c \in Seq(Byte) : u.bytes = s.bytes \o c /\ Fills(m, p, A \cup B, c)
  BY DEF Filled
<1>1. PICK c \in Seq(Byte) : u.bytes = t.bytes \o c /\ Fills(m, p, B, c)
  BY DEF Filled
<1>2. t.ok /\ Len(t.bytes) < Max32
  BY DEF Filled
<1>3. PICK b \in Seq(Byte) : t.bytes = s.bytes \o b /\ Fills(m, p, A, b)
  BY <1>2 DEF Filled
<1>4. s.ok /\ Len(s.bytes) < Max32
  BY <1>2 DEF Filled
<1>5. s.bytes \in Seq(Byte)
  BY StreamFacts DEF Counters
<1> DEFINE v == s.bytes
           w == u.bytes
<1>6. w = v \o (b \o c)
  <2>1. w = (v \o b) \o c /\ v \in Seq(Byte)
    BY <1>1, <1>3, <1>5
  <2> HIDE DEF v, w
  <2> QED
    BY <2>1, BytesJoined
<1>7. b \o c \in Seq(Byte) /\ Fills(m, p, A \cup B, b \o c)
  <2>1. b \o c \in Seq(Byte)
    OBVIOUS
  <2> QED
    BY <1>1, <1>3, <2>1, FillsBoth
<1> QED
  BY <1>4, <1>6, <1>7

\* Nothing.
LEMMA FilledNothing ==
  ASSUME NEW s \in Counters, NEW m, NEW p
  PROVE  Filled(s, s, m, p, {})
<1>1. s \in WithinRoom /\ << >> \in Seq(Byte)
  BY DEF Counters
<1>2. Wrote(s, s, TRUE, << >>)
  BY <1>1, NothingWrites
<1> QED
  BY <1>1, <1>2, FillsNothing, FilledBy

\* The sets with the numbers to n, together.
Together(X, n) == UNION {X[i] : i \in 1 .. n}

\* Steps that each fill in fields fill in all.
LEMMA FilledInTurn ==
  ASSUME NEW n \in Nat, NEW step, NEW m, NEW p, NEW X,
         \A i \in 1 .. n : \A s \in Counters :
             step[<<i - 1, s>>] \in Counters /\ Filled(s, step[<<i - 1, s>>], m, p, X[i]),
         \A i, j \in 1 .. n : i # j => X[i] \cap X[j] = {},
         NEW s \in Counters, NEW t, Recursive(t, n, s, step)
  PROVE  t[n] \in Counters /\ Filled(s, t[n], m, p, Together(X, n))
<1> DEFINE All(k) == UNION {X[i] : i \in 1 .. k}
           T == {k \in Nat : k <= n => t[k] \in Counters /\ Filled(s, t[k], m, p, All(k))}
<1>1. 0 \in T
  <2>1. t[0] = s /\ All(0) = {}
    BY DEF Recursive
  <2> HIDE DEF All
  <2> QED
    BY <2>1, FilledNothing
<1>2. ASSUME NEW k \in T PROVE k + 1 \in T
  <2> SUFFICES ASSUME k + 1 <= n
               PROVE  t[k + 1] \in Counters /\ Filled(s, t[k + 1], m, p, All(k + 1))
    <3>1. k + 1 \in Nat
      OBVIOUS
    <3> HIDE DEF All
    <3> QED
      BY <3>1
  <2>1. k \in Nat /\ k <= n /\ k + 1 \in 1 .. n /\ (k + 1) - 1 = k
    OBVIOUS
  <2>2. t[k] \in Counters /\ Filled(s, t[k], m, p, All(k))
    BY <2>1
  <2>3. t[k + 1] = step[<<k, t[k]>>]
    BY <2>1 DEF Recursive
  <2> DEFINE r == t[k]
             u == t[k + 1]
             Y == X[k + 1]
             B == All(k)
  <2>4. u \in Counters /\ Filled(r, u, m, p, Y)
    BY <2>1, <2>2, <2>3
  <2>5. B \cap Y = {}
    <3>1. \A i \in 1 .. k : i \in 1 .. n /\ i # k + 1
      BY <2>1
    <3>2. \A i \in 1 .. k : X[i] \cap Y = {}
      BY <2>1, <3>1
    <3> HIDE DEF Y
    <3> QED
      BY <3>2
  <2>6. All(k + 1) = B \cup Y
    <3>1. \A i : i \in 1 .. k + 1 <=> i \in 1 .. k \/ i = k + 1
      BY <2>1
    <3> DEFINE K == 1 .. k
               L == 1 .. k + 1
    <3>2. L = K \cup {k + 1}
      BY <3>1
    <3> HIDE DEF K, L
    <3>3. UNION {X[i] : i \in L} = (UNION {X[i] : i \in K}) \cup X[k + 1]
      BY <3>2
    <3> QED
      BY <3>3 DEF K, L
  <2>7. Filled(s, r, m, p, B)
    BY <2>2
  <2> HIDE DEF r, u, Y, B, All
  <2>8. Filled(s, u, m, p, B \cup Y)
    BY <2>4, <2>5, <2>7, FilledBoth
  <2> QED
    BY <2>4, <2>6, <2>8 DEF u
<1>3. T = Nat
  <2>1. T \in SUBSET Nat
    OBVIOUS
  <2> HIDE DEF T
  <2> QED
    BY <1>1, <1>2, <2>1, SetInduction
<1> HIDE DEF All
<1>4. t[n] \in Counters /\ Filled(s, t[n], m, p, All(n))
  BY <1>3
<1> QED
  BY <1>4 DEF All, Together

\* The key of a field, and the string of a callback.
LEMMA KeyWrites ==
  ASSUME NEW p \in Places, NEW f \in FieldsAt(p), NEW s \in WithinRoom
  PROVE  Wrote(s, pb_encode_tag_for_field(s, f), TRUE, pb_encode_varint(KeyOf(f)))
<1> DEFINE k == pb_encode_varint(KeyOf(f))
<1>1. k \in Seq(Byte)
  <2>1. << >> \in Seq(Byte)
    OBVIOUS
  <2> QED
    BY <2>1, KeyWritten
<1>2. pb_encode_tag_for_field(s, f) = pb_write(s, k)
  BY DEF pb_encode_tag_for_field, KeyOf
<1> HIDE DEF k
<1> QED
  BY <1>1, <1>2, BytesWrite DEF k

\* A string behind its length.
LEMMA DelimitedWrites ==
  ASSUME NEW v \in Seq(Byte), NEW s \in WithinRoom
  PROVE  /\ Delimited(v) \in Seq(Byte)
         /\ Wrote(s, pb_write(pb_write(s, pb_encode_varint(Len(v))), v), TRUE, Delimited(v))
<1> DEFINE l == pb_encode_varint(Len(v))
           t == pb_write(s, l)
           u == pb_write(t, v)
<1>1. l \in Seq(Byte)
  BY VarintBytesWritten
<1> HIDE DEF l
<1>2. Wrote(s, t, TRUE, l)
  BY <1>1, BytesWrite
<1>3. t \in WithinRoom
  BY <1>2, WritesWithinRoom
<1> HIDE DEF t
<1>4. Wrote(t, u, TRUE, v)
  BY <1>3, BytesWrite
<1> HIDE DEF u
<1>5. Wrote(s, u, TRUE, l \o v) /\ l \o v \in Seq(Byte)
  BY <1>1, <1>2, <1>4, TRUE \in BOOLEAN, WriteThen
<1> QED
  BY <1>5 DEF l, t, u, Delimited

\* A string of a callback is skipped.
LEMMA OneFilled ==
  ASSUME NEW m, NEW p \in Places, NEW f \in FieldsAt(p), f.ltype = "callback",
         NEW v \in Seq(Byte), NEW s \in Counters
  PROVE  EncodeOne(s, f, v) \in Counters /\ Filled(s, EncodeOne(s, f, v), m, p, {})
<1> DEFINE k == pb_encode_varint(KeyOf(f))
           t == pb_encode_tag_for_field(s, f)
           u == EncodeOne(s, f, v)
           e == Delimited(v)
<1>1. s \in WithinRoom
  BY DEF Counters
<1>2. k \in Seq(Byte)
  <2>1. << >> \in Seq(Byte)
    OBVIOUS
  <2> QED
    BY <2>1, KeyWritten
<1>3. Wrote(s, t, TRUE, k)
  BY <1>1, KeyWrites
<1>4. t \in WithinRoom
  BY <1>3, WritesWithinRoom
<1>5. e \in Seq(Byte) /\ Wrote(t, u, TRUE, e)
  <2> HIDE DEF t
  <2>1. pb_encode_string(t, v) = pb_write(pb_write(t, pb_encode_varint(Len(v))), v)
    BY DEF pb_encode_string
  <2>2. u = pb_encode_string(t, v)
    BY DEF EncodeOne, t
  <2> HIDE DEF u
  <2> QED
    BY <1>4, <2>1, <2>2, DelimitedWrites
<1>6. k \o e \in Seq(Byte) /\ (Len(k \o e) < Max32 => Fills(m, p, {}, k \o e))
  <2>1. k \o e \in Seq(Byte) /\ Len(k \o e) = Len(k) + Len(e) /\ Len(k) \in Nat /\ Len(e) \in Nat
    <3> HIDE DEF k, e
    <3> QED
      BY <1>2, <1>5, BytesBefore
  <2>2. Len(v) \in Nat /\ Len(v) <= Len(e)
    <3>1. e = pb_encode_varint(Len(v)) \o v /\ pb_encode_varint(Len(v)) \in Seq(Byte)
      BY VarintBytesWritten DEF Delimited
    <3> DEFINE l == pb_encode_varint(Len(v))
    <3> HIDE DEF l, e
    <3>2. Len(e) = Len(l) + Len(v) /\ Len(l) \in Nat /\ Len(v) \in Nat
      BY <3>1, BytesBefore DEF l
    <3> QED
      BY <3>2
  <2>3. ASSUME Len(k \o e) < Max32 PROVE Fills(m, p, {}, k \o e)
    <3>1. Max32 \in Nat
      BY Widths, Pow2Positive DEF Max32
    <3>2. Len(v) < Max32
      <4> HIDE DEF k, e
      <4> QED
        BY <2>1, <2>2, <2>3, <3>1
    <3> QED
      BY <3>2, CallbackFills
  <2> QED
    BY <2>1, <2>3
<1> HIDE DEF k, t, u, e
<1>7. Wrote(s, u, TRUE, k \o e)
  BY <1>1, <1>2, <1>3, <1>5, TRUE \in BOOLEAN, WriteThen
<1> DEFINE c == k \o e
<1>8. c \in Seq(Byte) /\ (Len(c) < Max32 => Fills(m, p, {}, c)) /\ Wrote(s, u, TRUE, c)
  BY <1>6, <1>7
<1> HIDE DEF c
<1>9. u \in Counters
  BY <1>8, CounterWrote
<1>10. Filled(s, u, m, p, {})
  BY <1>8, FilledBy
<1> QED
  BY <1>9, <1>10 DEF u

\* So are all the strings of a callback.
LEMMA CallbackFilled ==
  ASSUME NEW m, NEW p \in Places, NEW f \in FieldsAt(p), f.ltype = "callback",
         NEW strings \in Seq(Seq(Byte)), NEW s \in Counters
  PROVE  LET t == encode_callback_field(s, f, strings)
         IN  t \in Counters /\ Filled(s, t, m, p, {})
<1> DEFINE n == Len(strings)
           step == StringsInTurn(f, strings)
           X == [i \in 1 .. n |-> {}]
<1>1. n \in Nat /\ \A i \in 1 .. n : strings[i] \in Seq(Byte)
  OBVIOUS
<1>2. f.tag \in Nat /\ s \in WithinRoom
  BY FieldFacts DEF Counters
<1>3. ASSUME NEW i \in 1 .. n, NEW r \in Counters
      PROVE  step[<<i - 1, r>>] \in Counters /\ Filled(r, step[<<i - 1, r>>], m, p, X[i])
  <2> DEFINE v == strings[i]
  <2>1. v \in Seq(Byte)
    BY <1>1
  <2>2. r \in WithinRoom
    BY DEF Counters
  <2>3. step[<<i - 1, r>>] = EncodeOne(r, f, v)
    <3>1. i - 1 \in Nat /\ (i - 1) + 1 = i
      OBVIOUS
    <3> HIDE DEF n
    <3> QED
      BY <2>2, <3>1 DEF StringsInTurn, n
  <2>4. X[i] = {}
    OBVIOUS
  <2> HIDE DEF step, v, X
  <2> QED
    BY <2>1, <2>3, <2>4, OneFilled
<1>4. \A i, j \in 1 .. n : i # j => X[i] \cap X[j] = {}
  OBVIOUS
<1>5. Together(X, n) = {}
  BY DEF Together
<1>6. PICK t \in [0 .. n -> WithinRoom] :
         Recursive(t, n, s, step) /\ encode_callback_field(s, f, strings) = t[n]
  BY <1>2, StringsEncoded
<1> HIDE DEF n, step, X
<1>7. t[n] \in Counters /\ Filled(s, t[n], m, p, Together(X, n))
  BY <1>1, <1>3, <1>4, <1>6, FilledInTurn
<1> QED
  BY <1>5, <1>6, <1>7

\* A scalar behind its key, if a string is not too long.
LEMMA ScalarWrites ==
  ASSUME NEW p \in Places, NEW f \in FieldsAt(p), f.ltype \notin {"callback", "submessage"},
         NEW v \in Values(f), NEW s \in WithinRoom
  PROVE  LET c == pb_encode_varint(KeyOf(f)) \o Contents(f, v)
         IN  /\ c \in Seq(Byte) /\ Contents(f, v) \in Seq(Byte)
             /\ Len(Contents(f, v)) \in Nat /\ Len(Contents(f, v)) <= Len(c) /\ Len(c) \in Nat
             /\ Wrote(s, encode_basic_field(s, f, v), StringAllowed(f, v), c)
<1> DEFINE k == pb_encode_varint(KeyOf(f))
           r == pb_encode_tag_for_field(s, f)
           t == encode_basic_field(s, f, v)
           e == Contents(f, v)
<1>2. k \in Seq(Byte)
  <2>1. << >> \in Seq(Byte)
    OBVIOUS
  <2> QED
    BY <2>1, KeyWritten
<1>3. Wrote(s, r, TRUE, k)
  BY KeyWrites
<1>4. r \in WithinRoom
  BY <1>3, WritesWithinRoom
<1>5. f.ltype \in {"bool", "enum", "int32", "string"}
  BY FieldFacts
<1> HIDE DEF k, r
<1>6. e \in Seq(Byte) /\ Wrote(r, t, StringAllowed(f, v), e)
  <2>1. CASE f.ltype = "bool"
    <3> DEFINE w == pb_encode_varint(IF v THEN 1 ELSE 0)
    <3>1. w \in Seq(Byte)
      BY VarintBytesWritten
    <3>2. e = w /\ t = pb_write(r, w)
      BY <2>1 DEF Contents, encode_basic_field, r
    <3> HIDE DEF w, e, t
    <3>3. StringAllowed(f, v)
      BY <2>1 DEF StringAllowed
    <3>4. Wrote(r, t, TRUE, e)
      BY <1>4, <3>1, <3>2, BytesWrite
    <3> QED
      BY <3>1, <3>2, <3>3, <3>4 DEF Wrote
  <2>2. CASE f.ltype \in {"enum", "int32"}
    <3> DEFINE w == pb_encode_varint(v)
    <3>1. v \in Int
      <4>1. Max32 \in Int /\ Pow2[Bits32 - 1] \in Int
        <5>1. Bits32 \in Nat \ {0}
          BY Widths
        <5>2. Bits32 - 1 \in Nat
          BY <5>1
        <5> QED
          BY <5>1, <5>2, Pow2Positive DEF Max32
      <4> QED
        BY <2>2, <4>1 DEF Values
    <3>2. w \in Seq(Byte)
      BY <3>1, VarintBytesWritten
    <3>3. e = w /\ t = pb_write(r, w)
      BY <2>2 DEF Contents, encode_basic_field, r
    <3> HIDE DEF w, e, t
    <3>4. StringAllowed(f, v)
      BY <2>2 DEF StringAllowed
    <3>5. Wrote(r, t, TRUE, e)
      BY <1>4, <3>2, <3>3, BytesWrite
    <3> QED
      BY <3>2, <3>3, <3>4, <3>5 DEF Wrote
  <2>3. CASE f.ltype = "string"
    <3>1. v \in Seq(Byte)
      <4>1. v \in Seq(Byte \ {0})
        BY <2>3 DEF Values
      <4> QED
        BY <4>1, CStringIs
    <3>2. e = Delimited(v) /\ t = pb_enc_string(r, f, v)
      BY <2>3 DEF Contents, encode_basic_field, r
    <3> HIDE DEF e, t
    <3>3. e \in Seq(Byte)
      BY <1>4, <3>1, <3>2, DelimitedWrites
    <3>4. CASE Len(v) < f.size
      <4>1. t = pb_write(pb_write(r, pb_encode_varint(Len(v))), v)
        BY <3>2, <3>4 DEF pb_enc_string, pb_encode_string
      <4>2. Wrote(r, t, TRUE, e)
        BY <1>4, <3>1, <3>2, <4>1, DelimitedWrites
      <4> QED
        BY <3>3, <3>4, <4>2 DEF StringAllowed, Wrote
    <3>5. CASE ~(Len(v) < f.size)
      <4>1. t = [r EXCEPT !.ok = FALSE]
        BY <3>2, <3>5 DEF pb_enc_string
      <4>2. Wrote(r, t, FALSE, e)
        BY <1>4, <3>3, <4>1, ErrorWrites
      <4>3. ~StringAllowed(f, v)
        BY <2>3, <3>5 DEF StringAllowed
      <4> QED
        BY <3>3, <4>2, <4>3 DEF Wrote
    <3> QED
      BY <3>4, <3>5
  <2> QED
    BY <1>5, <2>1, <2>2, <2>3
<1> DEFINE y == StringAllowed(f, v)
           c == k \o e
<1>7. y \in BOOLEAN
  BY DEF StringAllowed
<1>8. c \in Seq(Byte) /\ Len(c) = Len(k) + Len(e) /\ Len(k) \in Nat /\ Len(e) \in Nat
  <2> HIDE DEF e
  <2> QED
    BY <1>2, <1>6, BytesBefore
<1>9. Wrote(s, t, y, c)
  <2>1. e \in Seq(Byte) /\ Wrote(r, t, y, e)
    BY <1>6
  <2> HIDE DEF y, e, t
  <2>2. Wrote(s, t, y, k \o e) /\ k \o e \in Seq(Byte)
    BY <1>2, <1>3, <1>7, <2>1, WriteThen
  <2> QED
    BY <2>2
<1>10. Len(e) <= Len(c) /\ Len(c) \in Nat
  <2> HIDE DEF e, c
  <2> QED
    BY <1>8
<1> QED
  BY <1>6, <1>8, <1>9, <1>10 DEF k

\* A scalar that is written fills in its field.
LEMMA ScalarFilled ==
  ASSUME NEW m, NEW p \in Places, NEW f \in FieldsAt(p), f.ltype \notin {"callback", "submessage"},
         Append(p, f.tag) \in Sent(m), m.data[Append(p, f.tag)] \in Values(f), NEW s \in Counters
  PROVE  LET t == encode_basic_field(s, f, m.data[Append(p, f.tag)])
         IN  t \in Counters /\ Filled(s, t, m, p, {Append(p, f.tag)})
<1> DEFINE v == m.data[Append(p, f.tag)]
           t == encode_basic_field(s, f, v)
           e == Contents(f, v)
           c == pb_encode_varint(KeyOf(f)) \o e
           y == StringAllowed(f, v)
           A == {Append(p, f.tag)}
<1>1. s \in WithinRoom
  BY DEF Counters
<1>2. /\ c \in Seq(Byte) /\ Wrote(s, t, y, c)
      /\ Len(e) \in Nat /\ Len(e) <= Len(c) /\ Len(c) \in Nat
  <2>1. v \in Values(f)
    OBVIOUS
  <2> HIDE DEF v
  <2> QED
    BY <1>1, <2>1, ScalarWrites
<1>3. y /\ Len(c) < Max32 => Fills(m, p, A, c)
  <2> SUFFICES ASSUME y, Len(c) < Max32 PROVE Fills(m, p, A, c)
    OBVIOUS
  <2>1. Max32 \in Nat
    BY Widths, Pow2Positive DEF Max32
  <2>2. Len(e) < Max32
    <3> HIDE DEF c, e
    <3> QED
      BY <1>2, <2>1
  <2>3. Len(Contents(f, m.data[Append(p, f.tag)])) < Max32
    BY <2>2
  <2>4. Fills(m, p, {Append(p, f.tag)},
              pb_encode_varint(KeyOf(f)) \o Contents(f, m.data[Append(p, f.tag)]))
    BY <2>3, ScalarFills
  <2> QED
    BY <2>4
<1> HIDE DEF y, c, t, A
<1>4. t \in Counters
  BY <1>2, CounterWrote
<1>5. Filled(s, t, m, p, A)
  BY <1>2, <1>3, FilledBy
<1> QED
  BY <1>4, <1>5 DEF t, A

\* A submessage behind its key and its length, as it was counted.
LEMMA SubmessageCounted ==
  ASSUME NEW p \in Places, NEW f \in FieldsAt(p), NEW a, NEW encoded,
         encoded[a][Counting] \in WithinRoom, NEW s \in Counters
  PROVE  LET sub == encoded[a][Counting]
             b == pb_encode_varint(KeyOf(f)) \o Delimited(sub.bytes)
         IN  /\ sub.ok \in BOOLEAN /\ sub.bytes \in Seq(Byte) /\ Delimited(sub.bytes) \in Seq(Byte)
             /\ b \in Seq(Byte) /\ Len(b) \in Nat /\ Len(sub.bytes) \in Nat /\ Len(sub.bytes) <= Len(b)
             /\ Wrote(s, pb_encode_submessage(pb_encode_tag_for_field(s, f), a, encoded), sub.ok, b)
<1> DEFINE sub == encoded[a][Counting]
           c == sub.bytes
           k == pb_encode_varint(KeyOf(f))
           r == pb_encode_tag_for_field(s, f)
           t == pb_encode_submessage(r, a, encoded)
           e == Delimited(c)
<1>1. s \in WithinRoom
  BY DEF Counters
<1>2. k \in Seq(Byte)
  <2>1. << >> \in Seq(Byte)
    OBVIOUS
  <2> QED
    BY <2>1, KeyWritten
<1>3. Wrote(s, r, TRUE, k)
  BY <1>1, KeyWrites
<1>4. r \in WithinRoom /\ r \in Counters /\ r.sizing
  <2>1. r \in Counters
    BY <1>2, <1>3, CounterWrote
  <2> QED
    BY <2>1 DEF Counters
<1>5. sub.ok \in BOOLEAN /\ c \in Seq(Byte)
  BY StreamFacts
<1> HIDE DEF r
<1>7. e \in Seq(Byte) /\ Wrote(r, t, sub.ok, e)
  <2>1. e \in Seq(Byte) /\ Wrote(r, pb_write(pb_write(r, pb_encode_varint(Len(c))), c), TRUE, e)
    <3> HIDE DEF c
    <3> QED
      BY <1>4, <1>5, DelimitedWrites
  <2>2. CASE ~sub.ok
    <3>1. t = [r EXCEPT !.ok = FALSE]
      BY <2>2, Zenon DEF pb_encode_submessage
    <3> HIDE DEF t, e
    <3>2. Wrote(r, t, FALSE, e)
      BY <1>4, <2>1, <3>1, ErrorWrites
    <3> QED
      BY <2>1, <2>2, <3>2 DEF Wrote
  <2>3. CASE sub.ok
    <3> DEFINE u == pb_write(r, pb_encode_varint(Len(c)))
    <3>1. u.sizing
      <4>1. pb_encode_varint(Len(c)) \in Seq(Byte)
        BY <1>5, VarintBytesWritten
      <4> DEFINE l == pb_encode_varint(Len(c))
      <4> HIDE DEF l
      <4>2. Wrote(r, pb_write(r, l), TRUE, l)
        BY <1>4, <4>1, BytesWrite DEF l
      <4> QED
        BY <1>4, <4>2 DEF Wrote, l
    <3>2. t = pb_write(u, c)
      <4>1. t = IF u.sizing THEN pb_write(u, c)
                ELSE IF u.ok /\ HasRoom(u, Len(c)) /\ encoded[a][Len(c)].ok
                        /\ Len(encoded[a][Len(c)].bytes) = Len(c)
                     THEN pb_write(u, encoded[a][Len(c)].bytes)
                     ELSE [u EXCEPT !.ok = FALSE]
        BY <2>3, Zenon DEF pb_encode_submessage
      <4> HIDE DEF t, u, c
      <4> QED
        BY <3>1, <4>1
    <3> HIDE DEF t, e
    <3>3. Wrote(r, t, TRUE, e)
      BY <2>1, <3>2
    <3> QED
      BY <2>1, <2>3, <3>3 DEF Wrote
  <2> QED
    BY <1>5, <2>2, <2>3
<1> DEFINE y == sub.ok
           b == k \o e
<1>8. b \in Seq(Byte) /\ Len(b) = Len(k) + Len(e) /\ Len(k) \in Nat /\ Len(e) \in Nat
  <2> HIDE DEF e, k
  <2> QED
    BY <1>2, <1>7, BytesBefore
<1>9. Len(c) \in Nat /\ Len(c) <= Len(e)
  <2>1. e = pb_encode_varint(Len(c)) \o c /\ pb_encode_varint(Len(c)) \in Seq(Byte)
    BY <1>5, VarintBytesWritten DEF Delimited
  <2> DEFINE l == pb_encode_varint(Len(c))
  <2> HIDE DEF l, e, c
  <2>2. Len(e) = Len(l) + Len(c) /\ Len(l) \in Nat /\ Len(c) \in Nat
    BY <1>5, <2>1, BytesBefore DEF l
  <2> QED
    BY <2>2
<1>10. Wrote(s, t, y, b)
  <2>1. e \in Seq(Byte) /\ Wrote(r, t, y, e) /\ y \in BOOLEAN
    BY <1>5, <1>7
  <2> HIDE DEF y, e, t, k
  <2>2. Wrote(s, t, y, k \o e) /\ k \o e \in Seq(Byte)
    BY <1>1, <1>2, <1>3, <2>1, WriteThen
  <2> QED
    BY <2>2
<1>11. Len(c) <= Len(b) /\ Len(b) \in Nat
  <2> HIDE DEF b, c, e, k
  <2> QED
    BY <1>8, <1>9
<1> QED
  BY <1>5, <1>7, <1>8, <1>9, <1>10, <1>11 DEF r, k

\* A submessage that is written fills in its fields.
LEMMA SubmessageFilled ==
  ASSUME NEW m, NEW p \in Places, NEW f \in FieldsAt(p), f.ltype = "submessage",
         Append(p, f.tag) \in Sent(m), NEW B, Append(p, f.tag) \notin B, NEW encoded,
         encoded[Append(p, f.tag)][Counting] \in WithinRoom,
         LET sub == encoded[Append(p, f.tag)][Counting]
         IN  sub.ok /\ Len(sub.bytes) < Max32 => Fills(m, Append(p, f.tag), B, sub.bytes),
         NEW s \in Counters
  PROVE  LET t == pb_encode_submessage(pb_encode_tag_for_field(s, f), Append(p, f.tag), encoded)
         IN  t \in Counters /\ Filled(s, t, m, p, {Append(p, f.tag)} \cup B)
<1> DEFINE a == Append(p, f.tag)
           sub == encoded[a][Counting]
           c == sub.bytes
           t == pb_encode_submessage(pb_encode_tag_for_field(s, f), a, encoded)
           y == sub.ok
           b == pb_encode_varint(KeyOf(f)) \o Delimited(c)
           A == {a} \cup B
<1>2. /\ b \in Seq(Byte) /\ Wrote(s, t, y, b) /\ c \in Seq(Byte)
      /\ Len(c) \in Nat /\ Len(c) <= Len(b) /\ Len(b) \in Nat
  BY SubmessageCounted
<1>3. y /\ Len(b) < Max32 => Fills(m, p, A, b)
  <2> SUFFICES ASSUME y, Len(b) < Max32 PROVE Fills(m, p, A, b)
    OBVIOUS
  <2>1. Max32 \in Nat
    BY Widths, Pow2Positive DEF Max32
  <2>2. Len(c) < Max32
    <3> HIDE DEF b, c
    <3> QED
      BY <1>2, <2>1
  <2>3. Fills(m, a, B, c)
    BY <2>2
  <2> HIDE DEF c, y
  <2>4. Fills(m, p, {Append(p, f.tag)} \cup B, pb_encode_varint(KeyOf(f)) \o Delimited(c))
    BY <1>2, <2>2, <2>3, SubmessageFills
  <2> QED
    BY <2>4
<1> HIDE DEF y, b, t, A
<1>4. t \in Counters
  BY <1>2, CounterWrote
<1>5. Filled(s, t, m, p, A)
  BY <1>2, <1>3, FilledBy
<1> QED
  BY <1>4, <1>5 DEF t, A

\* What is written of the field at a, and inside the message at p.
AtField(m, a) == {x \in Sent(m) : Under(x, a)}
\* What is sent under p.
Inside(m, p) == {x \in Sent(m) : Under(x, p) /\ x # p}

\* A message consists of its fields.
LEMMA InsideIs ==
  ASSUME NEW m, NEW p \in Places
  PROVE  /\ \A x : x \in Inside(m, p) <=> \E f \in FieldsAt(p) : x \in AtField(m, Append(p, f.tag))
         /\ \A f, g \in FieldsAt(p) :
               f # g => AtField(m, Append(p, f.tag)) \cap AtField(m, Append(p, g.tag)) = {}
<1>1. p \in Address
  BY PlaceIsAddress
<1>2. ASSUME NEW x \in Inside(m, p) PROVE \E f \in FieldsAt(p) : x \in AtField(m, Append(p, f.tag))
  <2>1. x \in Sent(m) /\ Under(x, p) /\ x # p /\ x \in Address
    BY SentFacts DEF Inside
  <2>2. PICK q \in Places : \E g \in FieldsAt(q) : x = Append(q, g.tag)
    BY <2>1, SentFacts
  <2>3. PICK g \in FieldsAt(q) : x = Append(q, g.tag)
    BY <2>2
  <2>4. q \in Address /\ g.tag \in Nat
    BY FieldFacts
  <2>5. Under(q, p)
    BY <1>1, <2>1, <2>3, <2>4, UnderField
  <2>6. CASE q = p
    <3>1. Under(x, x)
      BY <2>1, UnderOrder
    <3> QED
      BY <2>1, <2>3, <2>6, <3>1 DEF AtField
  <2>7. CASE q # p
    <3>1. PICK f \in FieldsAt(p) : Under(q, Append(p, f.tag))
      BY <2>5, <2>7, PlaceInside
    <3>2. Append(p, f.tag) \in Address
      BY FieldFacts, FieldAddress
    <3>3. Under(x, q)
      BY <2>3, <2>4, UnderField, UnderOrder
    <3>4. Under(x, Append(p, f.tag))
      BY <2>1, <2>4, <3>1, <3>2, <3>3, UnderOrder
    <3> QED
      BY <2>1, <3>4 DEF AtField
  <2> QED
    BY <2>6, <2>7
<1>3. ASSUME NEW f \in FieldsAt(p), NEW x \in AtField(m, Append(p, f.tag)) PROVE x \in Inside(m, p)
  <2>1. x \in Sent(m) /\ Under(x, Append(p, f.tag)) /\ x \in Address
    BY SentFacts DEF AtField
  <2>2. f.tag \in Nat /\ Append(p, f.tag) \in Address
    BY <1>1, FieldFacts, FieldAddress
  <2>3. Under(Append(p, f.tag), p) /\ ~Under(p, Append(p, f.tag))
    BY <1>1, <2>2, UnderField, UnderOrder
  <2>4. Under(x, p) /\ x # p
    BY <1>1, <2>1, <2>2, <2>3, UnderOrder
  <2> QED
    BY <2>1, <2>4 DEF Inside
<1>4. ASSUME NEW f \in FieldsAt(p), NEW g \in FieldsAt(p), NEW x,
             x \in AtField(m, Append(p, f.tag)), x \in AtField(m, Append(p, g.tag))
      PROVE  f = g
  <2>1. x \in Address /\ Under(x, Append(p, f.tag)) /\ Under(x, Append(p, g.tag))
    BY <1>4, SentFacts DEF AtField
  <2>2. /\ f.tag \in Nat /\ Append(p, f.tag) \in Address
        /\ g.tag \in Nat /\ Append(p, g.tag) \in Address
    BY <1>1, FieldFacts, FieldAddress
  <2>3. Under(Append(p, f.tag), Append(p, g.tag)) \/ Under(Append(p, g.tag), Append(p, f.tag))
    BY <2>1, <2>2, UnderOrder
  <2>4. f.tag = g.tag
    BY <1>1, <2>2, <2>3, UnderField
  <2> QED
    BY <2>4, FieldFacts
<1> QED
  BY <1>2, <1>3, <1>4

\* There is nothing under a field that is not a submessage.
LEMMA NothingBelowLeaf ==
  ASSUME NEW m, NEW p \in Places, NEW f \in FieldsAt(p), f.ltype # "submessage",
         NEW x \in AtField(m, Append(p, f.tag))
  PROVE  x = Append(p, f.tag)
<1> DEFINE a == Append(p, f.tag)
<1>1. a \in Leaves /\ a \in Address
  BY FieldFacts, LeafFacts
<1>2. x \in Sent(m) /\ Under(x, a)
  BY DEF AtField
<1>3. PICK q \in Places : \E g \in FieldsAt(q) : x = Append(q, g.tag)
  BY <1>2, SentFacts
<1>4. PICK g \in FieldsAt(q) : x = Append(q, g.tag)
  BY <1>3
<1>5. q \in Address /\ g.tag \in Nat
  BY FieldFacts
<1> HIDE DEF a
<1>6. ASSUME Under(q, a) PROVE FALSE
  <2>1. Len(a) <= Len(q) /\ SubSeq(q, 1, Len(a)) = a /\ Len(a) \in Nat /\ Len(q) \in Nat
    BY <1>1, <1>5, <1>6 DEF Under, Address
  <2>2. CASE Len(a) = Len(q)
    <3>1. SubSeq(q, 1, Len(q)) = q
      BY <1>5 DEF Address
    <3> QED
      BY <1>1, <2>1, <2>2, <3>1, LeafNotPlace
  <2>3. CASE Len(a) < Len(q)
    <3>1. Len(a) \in 0 .. Len(q) - 1
      BY <2>1, <2>3
    <3>2. a \in Places
      BY <2>1, <3>1, FieldsAssumption, ZenonT(30)
    <3> QED
      BY <1>1, <3>2, LeafNotPlace
  <2> QED
    BY <2>1, <2>2, <2>3
<1>7. x = a
  BY <1>1, <1>2, <1>4, <1>5, <1>6, UnderField
<1> QED
  BY <1>7 DEF a

\* A field is written if it is there, and then with all that is inside.
LEMMA AtFieldIs ==
  ASSUME NEW m, NEW p \in Places, NEW f \in FieldsAt(p), Present(m, p)
  PROVE  LET a == Append(p, f.tag)
         IN  /\ Absent(m, p, f) \/ f.ltype = "callback" => AtField(m, a) = {}
             /\ ~Absent(m, p, f) /\ f.ltype # "callback" => a \in Sent(m) /\ Present(m, a)
             /\ ~Absent(m, p, f) /\ f.ltype \notin {"callback", "submessage"} => AtField(m, a) = {a}
             /\ ~Absent(m, p, f) /\ f.ltype = "submessage" =>
                   AtField(m, a) = {a} \cup Inside(m, a) /\ a \notin Inside(m, a)
<1> DEFINE a == Append(p, f.tag)
<1>1. /\ p \in Address /\ f.tag \in Nat /\ a \in Address /\ Under(a, a)
      /\ f.ltype = "submessage" => f.htype \in {"optional", "oneof"}
  BY FieldFacts, FieldAddress, UnderOrder
<1>2. ASSUME Absent(m, p, f) \/ f.ltype = "callback", NEW x \in AtField(m, a) PROVE FALSE
  <2>1. x \in Sent(m) /\ Under(x, a)
    BY DEF AtField
  <2>2. CASE f.ltype = "submessage"
    <3>1. Lacks(m, p, f)
      BY <1>1, <1>2, <2>2 DEF Absent, Lacks
    <3>2. Present(m, x)
      BY <2>1, SentFacts
    <3> QED
      BY <2>1, <3>1, <3>2 DEF Present
  <2>3. CASE f.ltype # "submessage"
    <3>1. x = a
      BY <2>3, NothingBelowLeaf
    <3>2. a \in Sent(m)
      BY <2>1, <3>1
    <3> QED
      BY <1>2, <3>2, SentIs
  <2> QED
    BY <2>2, <2>3
<1>3. ASSUME ~Absent(m, p, f), f.ltype # "callback" PROVE a \in Sent(m) /\ Present(m, a)
  <2>1. ~Lacks(m, p, f)
    BY <1>3 DEF Absent, Lacks
  <2>2. Present(m, a)
    <3> SUFFICES ASSUME NEW q \in Places, NEW g \in FieldsAt(q), Under(a, Append(q, g.tag))
                 PROVE  ~Lacks(m, q, g)
      BY DEF Present
    <3>1. (q = p /\ g = f) \/ Under(p, Append(q, g.tag))
      BY AroundField
    <3> QED
      BY <2>1, <3>1 DEF Present
  <2> QED
    BY <1>3, <2>2, SentIs
<1>4. ASSUME ~Absent(m, p, f), f.ltype \notin {"callback", "submessage"} PROVE AtField(m, a) = {a}
  <2>1. a \in AtField(m, a)
    BY <1>1, <1>3, <1>4 DEF AtField
  <2>2. \A x \in AtField(m, a) : x = a
    BY <1>4, NothingBelowLeaf
  <2> QED
    BY <2>1, <2>2
<1>5. ASSUME ~Absent(m, p, f), f.ltype = "submessage"
      PROVE  AtField(m, a) = {a} \cup Inside(m, a) /\ a \notin Inside(m, a)
  <2>1. a \in Sent(m)
    BY <1>3, <1>5
  <2> HIDE DEF a
  <2> QED
    BY <1>1, <2>1 DEF AtField, Inside
<1>6. Absent(m, p, f) \/ f.ltype = "callback" => AtField(m, a) = {}
  BY <1>2
<1> QED
  BY <1>3, <1>4, <1>5, <1>6

\* The message at p fills in what is inside, if it is not too long.
MessageFills(m, p, r) == r.ok /\ Len(r.bytes) < Max32 => Fills(m, p, Inside(m, p), r.bytes)

\* A field, if a submessage in it does.
LEMMA FieldFilled ==
  ASSUME NEW m \in Structures, NEW p \in Places, Present(m, p), NEW f \in FieldsAt(p), NEW g \in Contained,
         f.ltype = "submessage" /\ Present(m, Append(p, f.tag)) =>
            MessageFills(m, Append(p, f.tag), g[Append(p, f.tag)][Counting]),
         NEW s \in Counters
  PROVE  LET t == encode_field(s, m, p, f, g)
         IN  t \in Counters /\ Filled(s, t, m, p, AtField(m, Append(p, f.tag)))
<1> DEFINE a == Append(p, f.tag)
           t == encode_field(s, m, p, f, g)
           A == AtField(m, a)
<1>0. /\ Absent(m, p, f) \/ f.ltype = "callback" => A = {}
      /\ ~Absent(m, p, f) /\ f.ltype # "callback" => a \in Sent(m) /\ Present(m, a)
      /\ ~Absent(m, p, f) /\ f.ltype \notin {"callback", "submessage"} => A = {a}
      /\ ~Absent(m, p, f) /\ f.ltype = "submessage" => A = {a} \cup Inside(m, a) /\ a \notin Inside(m, a)
  BY AtFieldIs
<1>1. f.ltype # "submessage" => m.data[a] \in Values(f)
  BY FieldFacts, StructureFacts
<1> HIDE DEF A
<1>2. CASE Absent(m, p, f)
  <2>1. t = s
    BY <1>2, Zenon DEF encode_field
  <2> HIDE DEF t
  <2>2. Filled(s, s, m, p, {})
    BY FilledNothing
  <2> QED
    BY <1>0, <1>2, <2>1, <2>2 DEF t, A
<1>3. CASE ~Absent(m, p, f) /\ f.ltype = "callback"
  <2>1. t = encode_callback_field(s, f, m.data[a])
    BY <1>3, Zenon DEF encode_field
  <2>2. m.data[a] \in Seq(Seq(Byte))
    BY <1>1, <1>3 DEF Values
  <2> DEFINE v == m.data[a]
  <2> HIDE DEF v, t
  <2>3. t \in Counters /\ Filled(s, t, m, p, {})
    BY <1>3, <2>1, <2>2, CallbackFilled DEF v
  <2> QED
    BY <1>0, <1>3, <2>3 DEF t, A
<1>4. CASE ~Absent(m, p, f) /\ f.ltype = "submessage"
  <2>1. t = pb_encode_submessage(pb_encode_tag_for_field(s, f), a, g)
    BY <1>4, Zenon DEF encode_field
  <2>2. a \in Sent(m) /\ Present(m, a) /\ a \in Places /\ A = {a} \cup Inside(m, a) /\ a \notin Inside(m, a)
    BY <1>0, <1>4, FieldFacts
  <2>3. g[a][Counting] \in WithinRoom
    <3>1. Counting \in Sizes
      BY DEF Sizes
    <3> QED
      BY <2>2, <3>1 DEF Contained
  <2>4. MessageFills(m, a, g[a][Counting])
    BY <1>4, <2>2
  <2> DEFINE B == Inside(m, a)
             sub == g[a][Counting]
  <2>5. sub.ok /\ Len(sub.bytes) < Max32 => Fills(m, a, B, sub.bytes)
    BY <2>4 DEF MessageFills
  <2> HIDE DEF B, t
  <2>6. t \in Counters /\ Filled(s, t, m, p, {a} \cup B)
    BY <1>4, <2>1, <2>2, <2>3, <2>5, SubmessageFilled DEF B
  <2> QED
    BY <2>2, <2>6 DEF t, A, B
<1>5. CASE ~Absent(m, p, f) /\ f.ltype \notin {"callback", "submessage"}
  <2>1. t = encode_basic_field(s, f, m.data[a])
    BY <1>5, Zenon DEF encode_field
  <2>2. a \in Sent(m) /\ A = {a} /\ m.data[a] \in Values(f)
    BY <1>0, <1>1, <1>5
  <2> HIDE DEF t
  <2>3. t \in Counters /\ Filled(s, t, m, p, {a})
    BY <1>5, <2>1, <2>2, ScalarFilled
  <2> QED
    BY <2>2, <2>3 DEF t, A
<1> QED
  BY <1>2, <1>3, <1>4, <1>5

\* A message, if its submessages do.
LEMMA FieldsFill ==
  ASSUME NEW m \in Structures, NEW p \in Places, Present(m, p), NEW g \in Contained,
         \A f \in FieldsAt(p) : f.ltype = "submessage" /\ Present(m, Append(p, f.tag)) =>
            MessageFills(m, Append(p, f.tag), g[Append(p, f.tag)][Counting])
  PROVE  MessageFills(m, p, EncodeFields(Stream(Counting), m, p, g))
<1> DEFINE n == Len(Fields[p])
           step == FieldsInTurn(m, p, g)
           X == [i \in 1 .. n |-> AtField(m, Append(p, Fields[p][i].tag))]
           s == Stream(Counting)
           u == EncodeFields(s, m, p, g)
<1>1. n \in Nat /\ \A i \in 1 .. n : Fields[p][i] \in FieldsAt(p)
  BY PlaceFields
<1>2. s \in Counters /\ s \in WithinRoom /\ s.ok /\ s.bytes = << >>
  <2>1. Counting \in Sizes
    BY DEF Sizes
  <2> QED
    BY <2>1, StreamsFor DEF Counters
<1>3. ASSUME NEW i \in 1 .. n, NEW r \in Counters
      PROVE  step[<<i - 1, r>>] \in Counters /\ Filled(r, step[<<i - 1, r>>], m, p, X[i])
  <2> DEFINE f == Fields[p][i]
             t == encode_field(r, m, p, f, g)
  <2>1. f \in FieldsAt(p)
    BY <1>1
  <2>2. r \in WithinRoom
    BY DEF Counters
  <2>3. step[<<i - 1, r>>] = t
    <3>1. i - 1 \in Nat /\ (i - 1) + 1 = i
      BY <1>1
    <3> QED
      BY <2>2, <3>1 DEF FieldsInTurn
  <2>4. X[i] = AtField(m, Append(p, f.tag))
    OBVIOUS
  <2> HIDE DEF step, f, X
  <2>5. t \in Counters /\ Filled(r, t, m, p, AtField(m, Append(p, f.tag)))
    BY <2>1, FieldFilled
  <2> QED
    BY <2>3, <2>4, <2>5
<1>4. \A i, j \in 1 .. n : i # j => X[i] \cap X[j] = {}
  <2> TAKE i, j \in 1 .. n
  <2> HAVE i # j
  <2>1. Fields[p][i] \in FieldsAt(p) /\ Fields[p][j] \in FieldsAt(p)
    BY <1>1
  <2>2. Fields[p][i] # Fields[p][j]
    <3>1. DOMAIN Fields[p] = 1 .. n
      BY FieldsAssumption
    <3>2. Fields[p][i].tag = Fields[p][j].tag => i = j
      BY <3>1, FieldsAssumption
    <3> QED
      BY <3>2
  <2>3. /\ X[i] = AtField(m, Append(p, Fields[p][i].tag))
        /\ X[j] = AtField(m, Append(p, Fields[p][j].tag))
    OBVIOUS
  <2> HIDE DEF X, n
  <2> QED
    BY <2>1, <2>2, <2>3, InsideIs
<1>5. Together(X, n) = Inside(m, p)
  <2>1. \A i \in 1 .. n : X[i] = AtField(m, Append(p, Fields[p][i].tag))
    OBVIOUS
  <2>2. \A f \in FieldsAt(p) : \E i \in 1 .. n : f = Fields[p][i]
    BY PlaceFields
  <2>3. \A x : x \in Inside(m, p) <=> \E f \in FieldsAt(p) : x \in AtField(m, Append(p, f.tag))
    BY InsideIs
  <2> HIDE DEF X, n
  <2>4. \A x : x \in Together(X, n) <=> \E i \in 1 .. n : x \in X[i]
    BY DEF Together
  <2>5. \A x : x \in Together(X, n) <=> x \in Inside(m, p)
    BY <1>1, <2>1, <2>2, <2>3, <2>4
  <2> QED
    BY <2>5
<1>6. PICK t \in [0 .. n -> WithinRoom] : Recursive(t, n, s, step) /\ u = t[n]
  BY <1>2, FieldsEncoded
<1> HIDE DEF n, step, X, s, u
<1>7. Filled(s, t[n], m, p, Together(X, n))
  BY <1>1, <1>2, <1>3, <1>4, <1>6, FilledInTurn
<1>8. Filled(s, u, m, p, Inside(m, p))
  BY <1>5, <1>6, <1>7
<1>9. MessageFills(m, p, u)
  <2> SUFFICES ASSUME u.ok, Len(u.bytes) < Max32 PROVE Fills(m, p, Inside(m, p), u.bytes)
    BY DEF MessageFills
  <2>1. PICK b \in Seq(Byte) : u.bytes = s.bytes \o b /\ Fills(m, p, Inside(m, p), b)
    BY <1>8 DEF Filled
  <2>2. s.bytes \o b = b
    BY <1>2
  <2> QED
    BY <2>1, <2>2
<1> QED
  BY <1>9 DEF u, s

\* At each place there are the bytes of the fields in turn.
LEMMA EachCounted ==
  ASSUME NEW m \in Structures
  PROVE  /\ Encoded(m) \in Contained
         /\ \A q \in Places : Encoded(m)[q][Counting] = EncodeFields(Stream(Counting), m, q, Encoded(m))
<1> DEFINE e == Encoded(m)
<1>1. e \in Contained /\ e = EncodeOnce(m, e)
  BY EncodedDefined
<1>2. Counting \in Sizes
  BY DEF Sizes
<1> HIDE DEF e
<1>3. \A q \in Places : EncodeOnce(m, e)[q][Counting] = EncodeFields(Stream(Counting), m, q, e)
  BY <1>2 DEF EncodeOnce
<1>4. \A q \in Places : e[q][Counting] = EncodeFields(Stream(Counting), m, q, e)
  BY <1>1, <1>3, Zenon
<1> QED
  BY <1>1, <1>4 DEF e

\* The messages at all places, from the innermost outwards.
LEMMA MessagesFill ==
  ASSUME NEW m \in Structures, NEW p \in Places, Present(m, p)
  PROVE  MessageFills(m, p, Encoded(m)[p][Counting])
<1> DEFINE e == Encoded(m)
           Good(k) == \A q \in Places : Len(q) + k >= Depth /\ Present(m, q) =>
                         MessageFills(m, q, e[q][Counting])
           T == {k \in Nat : Good(k)}
<1>1. e \in Contained /\ \A q \in Places : e[q][Counting] = EncodeFields(Stream(Counting), m, q, e)
  BY EachCounted
<1> HIDE DEF e
<1>2. 0 \in T
  BY PlacesAreDeep
<1>3. ASSUME NEW k \in T PROVE k + 1 \in T
  <2>0. k \in Nat /\ Good(k)
    OBVIOUS
  <2>1. ASSUME NEW q \in Places, Len(q) + (k + 1) >= Depth, Present(m, q)
        PROVE  MessageFills(m, q, e[q][Counting])
    <3>1. ASSUME NEW f \in FieldsAt(q), f.ltype = "submessage", Present(m, Append(q, f.tag))
          PROVE  MessageFills(m, Append(q, f.tag), e[Append(q, f.tag)][Counting])
      <4> DEFINE a == Append(q, f.tag)
      <4>1. a \in Places /\ Len(a) = Len(q) + 1
        BY <3>1, FieldFacts, FieldAddress
      <4>2. Present(m, a)
        BY <3>1
      <4> HIDE DEF a
      <4>3. Len(a) + k >= Depth
        BY <2>0, <2>1, <4>1, PlacesAreDeep
      <4>4. MessageFills(m, a, e[a][Counting])
        BY <2>0, <4>1, <4>2, <4>3
      <4> QED
        BY <4>4 DEF a
    <3>2. MessageFills(m, q, EncodeFields(Stream(Counting), m, q, e))
      BY <1>1, <2>1, <3>1, FieldsFill
    <3> QED
      BY <1>1, <3>2
  <2>2. Good(k + 1)
    BY <2>1
  <2> HIDE DEF Good
  <2> QED
    BY <2>0, <2>2
<1>4. T = Nat
  <2>1. T \in SUBSET Nat
    OBVIOUS
  <2> HIDE DEF T
  <2> QED
    BY <1>2, <1>3, <2>1, SetInduction
<1>5. Good(Depth)
  <2>1. Depth \in Nat
    BY PlacesAreDeep
  <2> HIDE DEF Good
  <2> QED
    BY <1>4, <2>1
<1>6. Len(p) + Depth >= Depth
  BY PlacesAreDeep
<1> QED
  BY <1>5, <1>6 DEF e

-----------------------------------------------------------------------------
(* What is decoded                                                         *)

\* A structure that was encoded, and whose bytes are not too long for a size_t.
Encodes(m) == m \in Structures /\ Consistent(m) /\ pb_encode(m, Counting).ok /\ Len(Bytes(m)) < Max32

\* The outermost message is there.
LEMMA OutermostPresent ==
  ASSUME NEW m
  PROVE  Present(m, << >>)
<1> SUFFICES ASSUME NEW q \in Places, NEW f \in FieldsAt(q), Under(<< >>, Append(q, f.tag)) PROVE FALSE
  BY DEF Present
<1>1. Len(Append(q, f.tag)) = Len(q) + 1 /\ Len(q) \in Nat
  BY FieldFacts, FieldAddress
<1>2. Len(Append(q, f.tag)) <= Len(<< >>) /\ Len(<< >>) = 0
  BY DEF Under
<1> QED
  BY <1>1, <1>2

\* Its bytes fill in all that is written of it.
LEMMA BytesFill ==
  ASSUME NEW m, Encodes(m)
  PROVE  Bytes(m) \in Seq(Byte) /\ Fills(m, << >>, Sent(m), Bytes(m))
<1>0. m \in Structures
  BY DEF Encodes
<1>1. << >> \in Places
  BY FieldsAssumption
<1>2. Present(m, << >>)
  BY OutermostPresent
<1>3. Inside(m, << >>) = Sent(m)
  <2>1. ASSUME NEW x \in Sent(m) PROVE Under(x, << >>) /\ x # << >>
    <3>1. x \in Address
      BY SentFacts
    <3>2. PICK q \in Places : \E f \in FieldsAt(q) : x = Append(q, f.tag)
      BY SentFacts
    <3>3. PICK f \in FieldsAt(q) : x = Append(q, f.tag)
      BY <3>2
    <3>4. Len(x) = Len(q) + 1 /\ Len(q) \in Nat
      BY <3>3, FieldFacts, FieldAddress
    <3>5. x # << >>
      BY <3>4
    <3> QED
      BY <3>1, <3>5, UnderOrder
  <2> QED
    BY <2>1 DEF Inside
<1>4. MessageFills(m, << >>, Encoded(m)[<< >>][Counting])
  BY <1>0, <1>1, <1>2, MessagesFill
<1>5. Fills(m, << >>, Sent(m), Bytes(m))
  <2>1. pb_encode(m, Counting) = Encoded(m)[<< >>][Counting] /\ Bytes(m) = pb_encode(m, Counting).bytes
    BY DEF pb_encode, Bytes
  <2>2. pb_encode(m, Counting).ok /\ Len(Bytes(m)) < Max32
    BY DEF Encodes
  <2> QED
    BY <1>3, <1>4, <2>1, <2>2 DEF MessageFills
<1>6. Bytes(m) \in Seq(Byte)
  BY <1>0, CountedBytes DEF Bytes
<1> QED
  BY <1>5, <1>6

\* A field the message does not have fills in nothing.
LEMMA UnknownFills ==
  ASSUME NEW m, NEW u, UnknownField(u)
  PROVE  u \in Seq(Byte) /\ Fills(m, << >>, {}, u)
<1>1. u \in Seq(Byte) /\ Len(u) \in Nat \ {0}
  <2>1. << >> \in Seq(Byte)
    OBVIOUS
  <2> QED
    BY <2>1, UnknownSkipped
<1>2. << >> \in Places
  BY FieldsAssumption
<1>3. SUFFICES ASSUME NEW s \in Structures, NEW D \in SUBSET Sent(m), NEW stack \in Seq(Opened),
                      NEW rest \in Seq(Byte), Ready(m, << >>, {}, D)
               PROVE  FillsFrom(m, << >>, {}, u, s, D, stack, rest)
  BY <1>1 DEF Fills
<1> DEFINE n == Mix(s, m, D)
           all == u \o rest
           d == Reading(stack, << >>, all, n)
           key == pb_decode_varint32(all)
           tag == key.value \div 8
           skipped == pb_skip_field(key.rest, key.value % 8)
<1>4. all \in Seq(Byte) /\ all # << >>
  <2>1. Len(all) = Len(u) + Len(rest) /\ Len(rest) \in Nat /\ all \in Seq(Byte)
    BY <1>1, BytesBefore
  <2> HIDE DEF all
  <2>2. Len(all) # 0
    BY <1>1, <2>1
  <2> QED
    BY <2>1, <2>2
<1>5. /\ key.ok /\ tag # 0 /\ (\A f \in FieldsAt(<< >>) : f.tag # tag)
      /\ skipped.ok /\ skipped.rest = rest
  BY UnknownSkipped
<1> HIDE DEF n, all
<1>6. DecodeStep(d) = decode_field(d, key.rest, key.value % 8, << >>, tag)
  BY <1>2, <1>4, <1>5, ReadsField
<1> HIDE DEF key, d
<1>7. decode_field(d, key.rest, key.value % 8, << >>, tag) = Continue(d, rest, d.m)
  <2> HIDE DEF tag
  <2>1. decode_field(d, key.rest, key.value % 8, << >>, tag) =
            IF skipped.ok THEN Continue(d, skipped.rest, d.m) ELSE Error(d)
    BY <1>5, Zenon DEF decode_field
  <2> HIDE DEF skipped
  <2> QED
    BY <1>5, <2>1
<1>8. Continue(d, rest, d.m) = Reading(stack, << >>, rest, n)
  <2>1. d.m = n
    BY DEF Reading, d
  <2>2. Continue(d, rest, n) = Reading(stack, << >>, rest, n)
    BY <1>2, <1>4, ReadingOn DEF d
  <2> QED
    BY <2>1, <2>2
<1>9. Within(d, Reading(stack, << >>, rest, n), 2 * Len(u))
  <2>1. 2 * Len(u) \in Nat /\ 2 * Len(u) # 0
    BY <1>1
  <2>2. DecodeStep(d) = Reading(stack, << >>, rest, n)
    BY <1>6, <1>7, <1>8
  <2> QED
    BY <2>1, <2>2, AtOnce
<1>10. D \cup {} = D
  OBVIOUS
<1> QED
  BY <1>3, <1>9, <1>10 DEF FillsFrom, Ready, d, all, n

\* Bytes that fill in all of a structure are merged into what was there.
LEMMA DecodedInto ==
  ASSUME NEW m, Encodes(m), NEW b \in Seq(Byte), Fills(m, << >>, Sent(m), b),
         NEW s \in Structures, FitsC(s), NEW rest \in Seq(Byte)
  PROVE  Within(Reading(<< >>, << >>, b \o rest, s),
                Reading(<< >>, << >>, rest, MergeInto(s, m)), 2 * Len(b))
<1>1. m \in Structures /\ Consistent(m)
  BY DEF Encodes
<1>2. Mix(s, m, {}) = s /\ Mix(s, m, Sent(m)) = MergeInto(s, m) /\ {} \cup Sent(m) = Sent(m)
  BY <1>1, MixStarts, MixEnds
<1>3. {} \in SUBSET Sent(m) /\ Ready(m, << >>, Sent(m), {})
  BY DEF Ready, Closed
<1>4. << >> \in Seq(Opened)
  OBVIOUS
<1>5. FillsFrom(m, << >>, Sent(m), b, s, {}, << >>, rest)
  BY <1>3, <1>4 DEF Fills
<1> QED
  BY <1>2, <1>5 DEF FillsFrom

\* At the end of its bytes the message is decoded.
LEMMA DecodedAll ==
  ASSUME NEW b \in Seq(Byte), NEW n,
         Within(Reading(<< >>, << >>, b, Zero), Reading(<< >>, << >>, << >>, n), 2 * Len(b))
  PROVE  pb_decode(b) = Got(n, << >>)
<1> DEFINE x == Reading(<< >>, << >>, b, Zero)
           y == Reading(<< >>, << >>, << >>, n)
           z == [ok |-> TRUE, open |-> << >>, m |-> n]
<1>1. << >> \in Seq(Opened) /\ << >> \in Places
  <2>1. << >> \in Seq(Opened)
    OBVIOUS
  <2> QED
    BY <2>1, FieldsAssumption
<1>2. DecodeStep(y) = z
  BY <1>1, SubmessageLeft
<1> HIDE DEF x, y, z
<1>3. Within(y, z, 1)
  <2>1. 1 \in Nat /\ 1 # 0
    OBVIOUS
  <2> QED
    BY <1>2, <2>1, AtOnce
<1>4. 2 * Len(b) \in Nat /\ 1 \in Nat
  OBVIOUS
<1>5. Within(x, y, 2 * Len(b))
  BY DEF x, y
<1>6. Within(x, z, 2 * Len(b) + 1)
  BY <1>3, <1>4, <1>5, OneAfterAnother
<1> QED
  BY <1>6, Finishes DEF x, z

\* One message: it is merged into an empty structure.
LEMMA OneDecoded ==
  ASSUME NEW m, Encodes(m), NEW b \in Seq(Byte), Fills(m, << >>, Sent(m), b)
  PROVE  /\ pb_decode(b) = Got(MergeInto(Zero, m), << >>)
         /\ MergeInto(Zero, m) \in Structures /\ FitsC(MergeInto(Zero, m))
<1>1. << >> \in Seq(Byte) /\ b \o << >> = b
  OBVIOUS
<1>2. pb_decode(b) = Got(MergeInto(Zero, m), << >>)
  <2>1. Zero \in Structures /\ FitsC(Zero)
    BY ZeroFits
  <2>2. Within(Reading(<< >>, << >>, b \o << >>, Zero),
               Reading(<< >>, << >>, << >>, MergeInto(Zero, m)), 2 * Len(b))
    BY <1>1, <2>1, DecodedInto
  <2> QED
    BY <1>1, <2>2, DecodedAll
<1>3. pb_decode(b).ok /\ pb_decode(b).value = MergeInto(Zero, m)
  BY <1>2 DEF Got
<1> QED
  BY <1>2, <1>3, DecodeFits

\* Two messages one behind the other: the second one is merged into the first.
LEMMA TwoDecoded ==
  ASSUME NEW m, Encodes(m), NEW n, Encodes(n)
  PROVE  pb_decode(Bytes(m) \o Bytes(n)) = Got(MergeInto(MergeInto(Zero, m), n), << >>)
<1> DEFINE b == Bytes(m)
           c == Bytes(n)
           s == MergeInto(Zero, m)
           x == Reading(<< >>, << >>, b \o c, Zero)
           y == Reading(<< >>, << >>, c, s)
           z == Reading(<< >>, << >>, << >>, MergeInto(s, n))
<1>1. /\ b \in Seq(Byte) /\ Fills(m, << >>, Sent(m), b)
      /\ c \in Seq(Byte) /\ Fills(n, << >>, Sent(n), c)
  BY BytesFill
<1>2. s \in Structures /\ FitsC(s)
  BY <1>1, OneDecoded
<1> HIDE DEF b, c, s
<1>3. /\ b \o c \in Seq(Byte) /\ Len(b \o c) = Len(b) + Len(c) /\ Len(b) \in Nat /\ Len(c) \in Nat
      /\ c \o << >> = c /\ << >> \in Seq(Byte)
  BY <1>1, BytesBefore
<1>4. Within(x, y, 2 * Len(b))
  <2>1. Zero \in Structures /\ FitsC(Zero)
    BY ZeroFits
  <2> QED
    BY <1>1, <2>1, DecodedInto DEF s
<1>5. Within(y, z, 2 * Len(c))
  <2>1. Within(Reading(<< >>, << >>, c \o << >>, s), z, 2 * Len(c))
    BY <1>1, <1>2, <1>3, DecodedInto
  <2> QED
    BY <1>3, <2>1
<1> HIDE DEF x, y, z
<1>6. Within(x, z, 2 * Len(b \o c))
  <2>1. 2 * Len(b) \in Nat /\ 2 * Len(c) \in Nat /\ 2 * Len(b) + 2 * Len(c) = 2 * Len(b \o c)
    BY <1>3
  <2>2. Within(x, z, 2 * Len(b) + 2 * Len(c))
    BY <1>4, <1>5, <2>1, OneAfterAnother
  <2> QED
    BY <2>1, <2>2
<1>7. pb_decode(b \o c) = Got(MergeInto(s, n), << >>)
  BY <1>3, <1>6, DecodedAll DEF x, z
<1> QED
  BY <1>7 DEF b, c, s

\* An unknown field in front or behind changes nothing.
LEMMA UnknownDecoded ==
  ASSUME NEW m, Encodes(m), NEW u, UnknownField(u)
  PROVE  /\ pb_decode(Bytes(m) \o u) = Got(MergeInto(Zero, m), << >>)
         /\ pb_decode(u \o Bytes(m)) = Got(MergeInto(Zero, m), << >>)
<1> DEFINE b == Bytes(m)
           A == Sent(m)
           N == {}
<1>1. b \in Seq(Byte) /\ Fills(m, << >>, A, b) /\ u \in Seq(Byte) /\ Fills(m, << >>, N, u)
  BY BytesFill, UnknownFills
<1>2. A \cap N = {} /\ N \cap A = {} /\ A \cup N = A /\ N \cup A = A
  OBVIOUS
<1> HIDE DEF b, A, N
<1>3. b \o u \in Seq(Byte) /\ u \o b \in Seq(Byte)
  BY <1>1, BytesBefore
<1>4. Fills(m, << >>, A, b \o u)
  BY <1>1, <1>2, FillsBoth
<1>5. Fills(m, << >>, A, u \o b)
  BY <1>1, <1>2, FillsBoth
<1> QED
  BY <1>3, <1>4, <1>5, OneDecoded DEF A, b

\* What is written into a buffer is what a sizing stream counts.
LEMMA EncodedAlike ==
  ASSUME NEW m \in Structures, NEW size \in Nat, pb_encode(m, size).ok
  PROVE  pb_encode(m, Counting).ok /\ pb_encode(m, size).bytes = Bytes(m) /\ Len(Bytes(m)) <= size
<1> DEFINE g == Encoded(m)[<< >>]
           s == g[size]
           u == g[Counting]
<1>1. << >> \in Places /\ g = Encoded(m)[<< >>]
  BY FieldsAssumption
<1>2. PICK c \in Seq(Byte) : Holds(g, g[Counting].ok, c)
  <2>1. \E c \in Seq(Byte) : Holds(g, g[Counting].ok, c)
    BY <1>1, EncodedDefined DEF Contained
  <2> QED
    BY <2>1
<1>3. pb_encode(m, size) = s /\ pb_encode(m, Counting) = u
  BY DEF pb_encode
<1> HIDE DEF g
<1>4. size \in Sizes /\ Counting \in Sizes /\ << >> \o c = c
  BY DEF Sizes
<1>5. /\ Wrote(Stream(size), s, u.ok, c) /\ Wrote(Stream(Counting), u, u.ok, c)
      /\ Stream(size).bytes = << >> /\ Stream(Counting).bytes = << >>
  BY <1>2, <1>4, StreamsFor DEF Holds
<1> HIDE DEF s, u
<1>6. s.ok
  BY <1>3
<1>7. u.ok /\ s.bytes = c /\ u.bytes = c
  BY <1>4, <1>5, <1>6 DEF Wrote
<1>8. Len(pb_encode(m, size).bytes) <= size
  BY EncodeIsExact
<1> QED
  BY <1>3, <1>7, <1>8 DEF Bytes

\* What fits into the arrays of the program is written.
LEMMA FitsIsWritten ==
  ASSUME NEW m \in Structures, FitsC(m)
  PROVE  pb_encode(m, Counting).ok /\ Consistent(m)
<1> DEFINE n == Len(Bytes(m))
<1>1. StringsFit(m) /\ Consistent(m)
  BY DEF FitsC, FieldFitsC, StringsFit
<1>2. n \in Nat
  <2>1. Bytes(m) \in Seq(Byte)
    BY CountedBytes DEF Bytes
  <2> QED
    BY <2>1
<1>3. ~pb_encode(m, n).ok <=> n < Len(pb_encode(m, Counting).bytes) \/ ~StringsFit(m)
  BY <1>2, EncodeIsExact
<1>4. n = Len(pb_encode(m, Counting).bytes)
  BY DEF Bytes
<1> HIDE DEF n
<1>5. pb_encode(m, n).ok
  <2>1. ~(n < n)
    BY <1>2
  <2> QED
    BY <1>1, <1>3, <1>4, <2>1
<1> QED
  BY <1>1, <1>2, <1>5, EncodedAlike

-----------------------------------------------------------------------------
(* Bytes that break off                                                    *)

\* c is how x begins, but not all of it.
Begins(c, x) == \E r \in Seq(Byte) : r # << >> /\ x = c \o r

\* Bytes are what comes first and what comes after.
LEMMA BytesSplit ==
  ASSUME NEW in \in Seq(Byte), NEW n \in 0 .. Len(in)
  PROVE  in = SubSeq(in, 1, n) \o After(in, n)
<1> DEFINE a == SubSeq(in, 1, n)
           b == After(in, n)
           l == Len(in)
<1>1. l \in Nat /\ n \in Nat /\ n <= l /\ \A i \in 1 .. l : in[i] \in Byte
  OBVIOUS
<1>2. a \in Seq(Byte) /\ Len(a) = n /\ (\A i \in 1 .. n : a[i] = in[i]) /\ b \in Seq(Byte) /\ Len(b) = l - n
  BY PartsOfBytes
<1>3. \A i \in 1 .. l - n : b[i] = in[n + i]
  BY <1>1 DEF After
<1> HIDE DEF a, b, l
<1>4. /\ a \o b \in Seq(Byte) /\ Len(a \o b) = n + (l - n)
      /\ \A i \in 1 .. n + (l - n) : (a \o b)[i] = IF i <= n THEN a[i] ELSE b[i - n]
  BY <1>2
<1>5. ASSUME NEW i \in 1 .. l PROVE (a \o b)[i] = in[i]
  <2>1. i \in 1 .. n + (l - n) /\ (i <= n => i \in 1 .. n)
        /\ (~(i <= n) => i - n \in 1 .. l - n /\ n + (i - n) = i)
    BY <1>1
  <2> QED
    BY <1>2, <1>3, <1>4, <2>1
<1>6. Len(a \o b) = l /\ Len(in) = l
  BY <1>1, <1>4 DEF l
<1> DEFINE z == a \o b
<1>7. z \in Seq(Byte) /\ Len(z) = Len(in) /\ \A i \in 1 .. Len(in) : in[i] = z[i]
  BY <1>4, <1>5, <1>6
<1> HIDE DEF z
<1>8. in = z
  BY <1>7, SeqEqual
<1> QED
  BY <1>8 DEF z, a, b

\* The beginning of two strings, one after the other, ends in one of them.
LEMMA BeginsBoth ==
  ASSUME NEW c \in Seq(Byte), NEW x \in Seq(Byte), NEW y \in Seq(Byte), Begins(c, x \o y)
  PROVE  \/ Begins(c, x)
         \/ \E d \in Seq(Byte) : c = x \o d /\ Begins(d, y)
<1>1. PICK r \in Seq(Byte) : r # << >> /\ x \o y = c \o r
  BY DEF Begins
<1> DEFINE all == x \o y
           k == Len(x)
           n == Len(c)
<1>2. /\ all = c \o r /\ k \in Nat /\ n \in Nat
      /\ SubSeq(x, 1, k) = x /\ After(x, k) = << >> /\ SubSeq(c, 1, n) = c /\ After(c, n) = << >>
      /\ << >> \o y = y /\ << >> \o r = r
  BY <1>1 DEF After
<1>3. CASE k <= n
  <2> DEFINE d == After(c, k)
  <2>1. k \in 0 .. n /\ k \in 0 .. k
    BY <1>2, <1>3
  <2>2. /\ After(c \o r, k) = d \o r /\ SubSeq(c \o r, 1, k) = SubSeq(c, 1, k)
        /\ After(x \o y, k) = After(x, k) \o y /\ SubSeq(x \o y, 1, k) = SubSeq(x, 1, k)
    BY <2>1, AfterBefore
  <2>3. y = d \o r /\ x = SubSeq(c, 1, k)
    BY <1>1, <1>2, <2>2
  <2>4. d \in Seq(Byte) /\ c = SubSeq(c, 1, k) \o d
    BY <2>1, PartsOfBytes, BytesSplit
  <2> HIDE DEF d
  <2> QED
    BY <1>1, <2>3, <2>4, ZenonT(30) DEF Begins
<1>4. CASE n < k
  <2> DEFINE d == After(x, n)
  <2>1. n \in 0 .. n /\ n \in 0 .. k
    BY <1>2, <1>4
  <2>2. /\ After(c \o r, n) = After(c, n) \o r /\ SubSeq(c \o r, 1, n) = SubSeq(c, 1, n)
        /\ After(x \o y, n) = d \o y /\ SubSeq(x \o y, 1, n) = SubSeq(x, 1, n)
    BY <2>1, AfterBefore
  <2>3. c = SubSeq(x, 1, n)
    BY <1>1, <1>2, <2>2
  <2>4. d \in Seq(Byte) /\ x = SubSeq(x, 1, n) \o d /\ Len(d) = k - n
    BY <2>1, PartsOfBytes, BytesSplit
  <2> HIDE DEF d
  <2>5. d # << >>
    BY <1>2, <1>4, <2>4
  <2>6. x = c \o d
    BY <2>3, <2>4
  <2> QED
    BY <2>4, <2>5, <2>6 DEF Begins
<1>5. k <= n \/ n < k
  BY <1>2
<1> QED
  BY <1>3, <1>4, <1>5

\* A varint that broke off is not read.
LEMMA VarintCut ==
  ASSUME NEW v \in Nat, v < Max64, NEW c \in Seq(Byte), Begins(c, pb_encode_varint(v))
  PROVE  ~pb_decode_varint(c).ok /\ (v < Max32 => ~pb_decode_varint32(c).ok)
<1> DEFINE s == pb_encode_varint(v)
<1>1. PICK r \in Seq(Byte) : r # << >> /\ s = c \o r
  BY DEF Begins
<1>2. << >> \in Seq(Byte)
  OBVIOUS
<1>3. /\ s \in Seq(Byte) /\ s \o << >> = s
      /\ pb_decode_varint(s) = Got(v, << >>) /\ (v < Max32 => pb_decode_varint32(s) = Got(v, << >>))
  <2>1. /\ s \in Seq(Byte) /\ pb_decode_varint(s \o << >>) = Got(v, << >>)
        /\ (v < Max32 => pb_decode_varint32(s \o << >>) = Got(v, << >>))
    BY <1>2, VarintWritten
  <2> HIDE DEF s
  <2>2. s \o << >> = s
    BY <2>1
  <2> QED
    BY <2>1, <2>2
<1> HIDE DEF s
<1>4. /\ Before(pb_decode_varint(c), c, pb_decode_varint(s), r)
      /\ Before(pb_decode_varint32(c), c, pb_decode_varint32(s), r)
  BY <1>1, VarintBefore
<1>5. \A rest \in Seq(Byte) : rest \o r # << >>
  BY <1>1
<1>6. \A q, t : Got(v, << >>) = Got(q, t) => t = << >>
  BY DEF Got
<1> QED
  BY <1>3, <1>4, <1>5, <1>6 DEF Before

\* Nor are bytes behind their length.
LEMMA DelimitedCut ==
  ASSUME NEW b \in Seq(Byte), Len(b) < Max32, NEW c \in Seq(Byte), Begins(c, Delimited(b))
  PROVE  ~Substream(c).ok
<1> DEFINE s == pb_encode_varint(Len(b))
<1>1. Len(b) \in Nat /\ Len(b) < Max64
  <2>1. Max32 <= Max64 /\ Max32 \in Nat /\ Max64 \in Nat
    <3>1. Bits32 \in Nat /\ Bits64 \in Nat /\ Bits32 <= Bits64
      BY Widths, SMTT(30)
    <3> QED
      BY <3>1, Rooms, Pow2Monotone DEF Max32, Max64
  <2> QED
    BY <2>1
<1>2. s \in Seq(Byte)
  <2>1. << >> \in Seq(Byte)
    OBVIOUS
  <2> QED
    BY <1>1, <2>1, VarintWritten
<1>3. Begins(c, s \o b)
  BY DEF Delimited
<1>4. CASE Begins(c, s)
  <2>1. ~pb_decode_varint32(c).ok
    BY <1>1, <1>4, VarintCut
  <2> QED
    BY <2>1 DEF Substream, Failed
<1>5. ASSUME NEW d \in Seq(Byte), c = s \o d, Begins(d, b) PROVE ~Substream(c).ok
  <2>1. pb_decode_varint32(c) = Got(Len(b), d)
    BY <1>1, <1>5, VarintWritten
  <2>2. PICK r \in Seq(Byte) : r # << >> /\ b = d \o r
    BY <1>5 DEF Begins
  <2>3. Len(d) < Len(b)
    BY <2>2
  <2> HIDE DEF s
  <2>4. Substream(c) = pb_read(d, Len(b))
    BY <2>1 DEF Substream, Got
  <2> QED
    BY <2>3, <2>4 DEF pb_read, Failed
<1> HIDE DEF s
<1> QED
  BY <1>2, <1>3, <1>4, <1>5, BeginsBoth

\* What the decoder refuses at once, where the message at p is open.
Refused(p, c) == \A stack \in Seq(Opened) : \A n : ~DecodeStep(Reading(stack, p, c, n)).ok

\* It refuses a field that broke off, if it does not read contents that did.
LEMMA KeyedCut ==
  ASSUME NEW p \in Places, NEW f \in FieldsAt(p), f.ltype \in {"enum", "submessage"}, NEW e \in Seq(Byte),
         \A d \in Seq(Byte) : Begins(d, e) =>
             /\ f.ltype = "enum" => ~decode_basic_field(d, f).ok
             /\ f.ltype = "submessage" => ~Substream(d).ok,
         NEW c \in Seq(Byte), c # << >>, Begins(c, pb_encode_varint(KeyOf(f)) \o e)
  PROVE  Refused(p, c)
<1> DEFINE k == pb_encode_varint(KeyOf(f))
<1>1. << >> \in Seq(Byte)
  OBVIOUS
<1>2. k \in Seq(Byte) /\ KeyOf(f) \in Nat /\ KeyOf(f) < Max32 /\ KeyOf(f) < Max64
  <2>1. k \in Seq(Byte) /\ KeyOf(f) \in Nat /\ KeyOf(f) < Max32
    BY <1>1, KeyWritten
  <2>2. Max32 <= Max64 /\ Max32 \in Nat /\ Max64 \in Nat
    <3>1. Bits32 \in Nat /\ Bits64 \in Nat /\ Bits32 <= Bits64
      BY Widths, SMTT(30)
    <3> QED
      BY <3>1, Rooms, Pow2Monotone DEF Max32, Max64
  <2> QED
    BY <2>1, <2>2
<1>3. ASSUME Begins(c, k), NEW stack \in Seq(Opened), NEW n
      PROVE  ~DecodeStep(Reading(stack, p, c, n)).ok
  <2> DEFINE d == Reading(stack, p, c, n)
  <2>1. ~pb_decode_varint32(c).ok
    BY <1>2, <1>3, VarintCut
  <2>2. /\ d = [ok |-> TRUE, open |-> d.open, m |-> n]
        /\ d.open # << >> /\ d.open[Len(d.open)] = Message(p, c)
    BY ReadingIs
  <2>3. Message(p, c).in = c
    BY DEF Message
  <2> HIDE DEF d
  <2>4. d.ok
    BY <2>2
  <2>5. DecodeStep(d) = Error(d)
    BY <2>1, <2>2, <2>3, <2>4 DEF DecodeStep
  <2>6. ~Error(d).ok
    BY <2>2 DEF Error
  <2> QED
    BY <2>5, <2>6 DEF d
<1>4. ASSUME NEW e1 \in Seq(Byte), c = k \o e1, Begins(e1, e), NEW stack \in Seq(Opened), NEW n
      PROVE  ~DecodeStep(Reading(stack, p, c, n)).ok
  <2> DEFINE d == Reading(stack, p, c, n)
  <2>1. f.ltype # "callback"
    OBVIOUS
  <2>2. DecodeStep(d) = decode_static_field(d, e1, WireType(f.ltype), p, f)
    BY <1>4, <2>1, ReadsKnown
  <2>3. d = [ok |-> TRUE, open |-> d.open, m |-> n]
    BY DEF Reading
  <2> HIDE DEF d, k
  <2>4. /\ f.ltype = "enum" => ~decode_basic_field(e1, f).ok
        /\ f.ltype = "submessage" => ~Substream(e1).ok
    BY <1>4
  <2>5. decode_static_field(d, e1, WireType(f.ltype), p, f) = Error(d)
    BY <2>1, <2>4 DEF decode_static_field, pb_dec_submessage
  <2>6. ~Error(d).ok
    BY <2>3 DEF Error
  <2> QED
    BY <2>2, <2>5, <2>6 DEF d
<1> HIDE DEF k
<1>5. Begins(c, k) \/ \E e1 \in Seq(Byte) : c = k \o e1 /\ Begins(e1, e)
  BY <1>2, BeginsBoth DEF k
<1> QED
  BY <1>3, <1>4, <1>5 DEF Refused

\* Bytes of which every beginning is refused.
Whole(p, b) == \A c \in Seq(Byte) : c # << >> /\ Begins(c, b) => Refused(p, c)

\* From s to t there are such bytes, if t is not too long.
Added(s, t, p) ==
    t.ok /\ Len(t.bytes) < Max32 =>
        /\ s.ok /\ Len(s.bytes) < Max32
        /\ \E b \in Seq(Byte) : t.bytes = s.bytes \o b /\ Whole(p, b)

\* Bytes of which every beginning is refused, if they are not too long.
LEMMA AddedBy ==
  ASSUME NEW p, NEW s \in Counters, NEW t, NEW x, NEW b \in Seq(Byte), Wrote(s, t, x, b),
         x /\ Len(b) < Max32 => Whole(p, b)
  PROVE  Added(s, t, p)
<1> SUFFICES ASSUME t.ok, Len(t.bytes) < Max32
             PROVE  /\ s.ok /\ Len(s.bytes) < Max32
                    /\ \E c \in Seq(Byte) : t.bytes = s.bytes \o c /\ Whole(p, c)
  BY DEF Added
<1>1. /\ s.ok /\ x /\ t.bytes = s.bytes \o b
      /\ Len(s.bytes \o b) = Len(s.bytes) + Len(b) /\ Len(s.bytes) \in Nat /\ Len(b) \in Nat
  BY CounterWrote
<1>2. Max32 \in Nat
  BY Widths, Pow2Positive DEF Max32
<1>3. Len(s.bytes) < Max32 /\ Len(b) < Max32
  BY <1>1, <1>2
<1> QED
  BY <1>1, <1>3

\* No bytes.
LEMMA AddedNothing ==
  ASSUME NEW p, NEW s \in Counters
  PROVE  Added(s, s, p)
<1>1. s.bytes \in Seq(Byte)
  BY StreamFacts DEF Counters
<1>2. << >> \in Seq(Byte) /\ s.bytes \o << >> = s.bytes
  BY <1>1
<1>3. \A c, r \in Seq(Byte) : r # << >> => << >> # c \o r
  <2>1. ASSUME NEW c \in Seq(Byte), NEW r \in Seq(Byte), r # << >> PROVE Len(c \o r) # 0
    <3>1. Len(c \o r) = Len(c) + Len(r) /\ Len(c) \in Nat /\ Len(r) \in Nat
      BY BytesBefore
    <3>2. Len(r) # 0
      BY <2>1
    <3> QED
      BY <3>1, <3>2
  <2> QED
    BY <2>1
<1>4. Whole(p, << >>)
  BY <1>3 DEF Whole, Begins
<1> QED
  BY <1>2, <1>4 DEF Added

\* A field that is written, of the types that the envelope has.
LEMMA FieldAdded ==
  ASSUME NEW m \in Structures, NEW p \in Places, NEW f \in FieldsAt(p), f.ltype \in {"enum", "submessage"},
         NEW g \in Contained, NEW s \in Counters
  PROVE  LET t == encode_field(s, m, p, f, g)
         IN  t \in Counters /\ Added(s, t, p)
<1> DEFINE a == Append(p, f.tag)
           t == encode_field(s, m, p, f, g)
           k == pb_encode_varint(KeyOf(f))
<1>0. s \in WithinRoom
  BY DEF Counters
<1>9. Max32 \in Nat /\ Max64 \in Nat /\ Max32 <= Max64
  <2>1. Bits32 \in Nat /\ Bits64 \in Nat /\ Bits32 <= Bits64
    BY Widths
  <2> QED
    BY <2>1, Rooms, Pow2Monotone DEF Max32, Max64
<1>1. CASE Absent(m, p, f)
  <2>1. t = s
    BY <1>1, Zenon DEF encode_field
  <2> HIDE DEF t
  <2> QED
    BY <2>1, AddedNothing DEF t
<1>2. CASE ~Absent(m, p, f) /\ f.ltype = "enum"
  <2> DEFINE v == m.data[a]
             e == Contents(f, v)
             b == k \o e
             y == StringAllowed(f, v)
  <2>1. t = encode_basic_field(s, f, v)
    BY <1>2, Zenon DEF encode_field
  <2>2. v \in Values(f)
    BY <1>0, <1>2, FieldFacts, StructureFacts, ZenonT(30)
  <2> HIDE DEF v, t
  <2>3. b \in Seq(Byte) /\ e \in Seq(Byte) /\ Wrote(s, t, y, b)
    BY <1>0, <1>2, <2>1, <2>2, ScalarWrites
  <2>4. v \in Nat /\ v < Max32 /\ v < Max64 /\ e = pb_encode_varint(v)
    BY <1>2, <1>9, <2>2 DEF Values, Contents
  <2>5. ASSUME NEW d \in Seq(Byte), Begins(d, e) PROVE ~decode_basic_field(d, f).ok
    <3>1. ~pb_decode_varint(d).ok
      BY <2>4, <2>5, VarintCut
    <3>2. decode_basic_field(d, f) = pb_dec_uvarint(d)
      BY <1>2 DEF decode_basic_field
    <3> QED
      BY <3>1, <3>2 DEF pb_dec_uvarint, Failed
  <2> HIDE DEF e, y
  <2>6. Whole(p, b)
    BY <1>2, <2>3, <2>5, KeyedCut DEF Whole
  <2> HIDE DEF b
  <2>7. t \in Counters /\ Added(s, t, p)
    BY <2>3, <2>6, AddedBy, CounterWrote
  <2> QED
    BY <2>7 DEF t
<1>3. CASE ~Absent(m, p, f) /\ f.ltype = "submessage"
  <2> DEFINE sub == g[a][Counting]
             e == Delimited(sub.bytes)
             b == k \o e
             y == sub.ok
  <2>1. t = pb_encode_submessage(pb_encode_tag_for_field(s, f), a, g)
    BY <1>3, Zenon DEF encode_field
  <2>2. sub \in WithinRoom
    <3>1. Counting \in Sizes
      BY DEF Sizes
    <3>2. a \in Places
      BY <1>0, <1>3, FieldFacts, ZenonT(30)
    <3> QED
      BY <3>1, <3>2 DEF Contained
  <2> HIDE DEF a, t
  <2>3. /\ b \in Seq(Byte) /\ e \in Seq(Byte) /\ Wrote(s, t, y, b) /\ sub.bytes \in Seq(Byte)
        /\ Len(sub.bytes) \in Nat /\ Len(sub.bytes) <= Len(b) /\ Len(b) \in Nat
    BY <1>0, <2>1, <2>2, SubmessageCounted
  <2> DEFINE w == sub.bytes
  <2>4. ASSUME Len(b) < Max32 PROVE Whole(p, b)
    <3>1. Len(w) < Max32 /\ w \in Seq(Byte)
      BY <1>9, <2>3, <2>4
    <3>2. ASSUME NEW d \in Seq(Byte), Begins(d, e) PROVE ~Substream(d).ok
      <4> HIDE DEF w
      <4>1. Begins(d, Delimited(w))
        BY <3>2 DEF w
      <4> QED
        BY <3>1, <4>1, DelimitedCut
    <3> HIDE DEF e, w
    <3> QED
      BY <1>3, <2>3, <3>2, KeyedCut DEF Whole
  <2> HIDE DEF b, y
  <2>5. t \in Counters /\ Added(s, t, p)
    BY <2>3, <2>4, AddedBy, CounterWrote
  <2> QED
    BY <2>5 DEF t
<1> QED
  BY <1>1, <1>2, <1>3

\* The fields of the envelope.
LEMMA EnvelopeFields ==
  /\ Len(Fields[<< >>]) = 6 /\ DOMAIN Fields[<< >>] = 1 .. 6
  /\ Fields[<< >>][1] = Scalar(1, "enum")
  /\ \A i \in 2 .. 6 : Fields[<< >>][i] = Submessage(i, "oneof")
<1> DEFINE s == Scalar(1, "enum")
           f(i) == Submessage(i, "oneof")
<1>1. Fields[<< >>] = <<s, f(2), f(3), f(4), f(5), f(6)>>
  BY EnvelopeAssumption DEF SmartCityMessage
<1> HIDE DEF s, f
<1>2. \A i \in 2 .. 6 : i = 2 \/ i = 3 \/ i = 4 \/ i = 5 \/ i = 6
  OBVIOUS
<1>3. /\ Len(Fields[<< >>]) = 6 /\ DOMAIN Fields[<< >>] = 1 .. 6
      /\ Fields[<< >>][1] = s
  BY <1>1
<1>4. \A i \in 2 .. 6 : Fields[<< >>][i] = f(i)
  BY <1>1, <1>2
<1> QED
  BY <1>3, <1>4 DEF s, f

\* Its type, and then the message in it, each with bytes of which every
\* beginning is refused.
LEMMA EnvelopeBytes ==
  ASSUME NEW m, Encodes(m)
  PROVE  \E b, c \in Seq(Byte) :
            /\ Bytes(m) = b \o c /\ Whole(<< >>, b) /\ Whole(<< >>, c)
            /\ Fills(m, << >>, AtField(m, Append(<< >>, 1)), b)
<1> DEFINE p == << >>
           F == Fields[p]
           e == Encoded(m)
           s == Stream(Counting)
           E(i, r) == encode_field(r, m, p, F[i], e)
           step == FieldsInTurn(m, p, e)
           j == m.which[p]
           A == AtField(m, Append(p, 1))
<1>1. m \in Structures /\ pb_encode(m, Counting).ok /\ Len(Bytes(m)) < Max32
  BY DEF Encodes
<1>2. p \in Places /\ Present(m, p)
  BY FieldsAssumption, OutermostPresent, ZenonT(30)
<1>3. /\ Len(F) = 6 /\ \A i \in 1 .. 6 : F[i] \in FieldsAt(p)
      /\ F[1] = Scalar(1, "enum") /\ \A i \in 2 .. 6 : F[i] = Submessage(i, "oneof")
  BY <1>2, EnvelopeFields, PlaceFields
<1>4. /\ F[1].ltype = "enum" /\ F[1].tag = 1
      /\ \A i \in 2 .. 6 : F[i].ltype = "submessage" /\ F[i].htype = "oneof" /\ F[i].tag = i
  BY <1>3 DEF Scalar, Submessage
<1>5. e \in Contained /\ pb_encode(m, Counting) = EncodeFields(s, m, p, e)
  BY <1>1, <1>2, EachCounted DEF pb_encode
<1>6. s \in Counters /\ s \in WithinRoom /\ s.bytes = << >>
  <2>1. Counting \in Sizes
    BY DEF Sizes
  <2> QED
    BY <2>1, StreamsFor DEF Counters
<1> HIDE DEF p, F, e, s
<1>7. PICK t \in [0 .. 6 -> WithinRoom] : Recursive(t, 6, s, step) /\ EncodeFields(s, m, p, e) = t[6]
  <2>1. \A f \in FieldsAt(p) : f.ltype = "submessage" => e[Append(p, f.tag)] = e[Append(p, f.tag)]
    OBVIOUS
  <2>2. \E t \in [0 .. Len(Fields[p]) -> WithinRoom] :
           Recursive(t, Len(Fields[p]), s, step) /\ EncodeFields(s, m, p, e) = t[Len(Fields[p])]
    BY <1>1, <1>2, <1>5, <1>6, <2>1, FieldsEncoded
  <2>3. Len(Fields[p]) = 6
    BY <1>3 DEF F
  <2> HIDE DEF step
  <2> QED
    BY <2>2, <2>3
<1>8. t[0] = s /\ \A i \in 1 .. 6 : t[i] = E(i, t[i - 1])
  <2>1. t[0] = s /\ \A i \in 1 .. 6 : t[i] = step[<<i - 1, t[i - 1]>>]
    BY <1>7 DEF Recursive
  <2>2. ASSUME NEW i \in 1 .. 6, NEW r \in WithinRoom PROVE step[<<i - 1, r>>] = E(i, r)
    <3>1. i - 1 \in Nat /\ (i - 1) + 1 = i
      OBVIOUS
    <3> QED
      BY <1>3, <3>1 DEF FieldsInTurn, F
  <2>3. \A i \in 1 .. 6 : t[i - 1] \in WithinRoom
    BY <1>7
  <2> HIDE DEF step, E
  <2> QED
    BY <2>1, <2>2, <2>3
<1>9. ASSUME NEW i \in 1 .. 6, NEW r \in Counters
      PROVE  E(i, r) \in Counters /\ Added(r, E(i, r), p)
  <2>1. F[i] \in FieldsAt(p) /\ F[i].ltype \in {"enum", "submessage"}
    <3>1. i = 1 \/ i \in 2 .. 6
      OBVIOUS
    <3> QED
      BY <1>3, <1>4, <3>1
  <2> QED
    BY <1>1, <1>2, <1>5, <2>1, FieldAdded
<1>10. ASSUME NEW i \in 2 .. 6, i # j, NEW r PROVE E(i, r) = r
  <2>1. Absent(m, p, F[i])
    BY <1>4, <1>10 DEF Absent
  <2> QED
    BY <2>1, Zenon DEF encode_field
<1>11. Filled(s, E(1, s), m, p, A)
  <2>1. F[1] \in FieldsAt(p) /\ F[1].ltype # "submessage"
    BY <1>3, <1>4
  <2>2. Filled(s, encode_field(s, m, p, F[1], e), m, p, AtField(m, Append(p, F[1].tag)))
    BY <1>1, <1>2, <1>5, <1>6, <2>1, FieldFilled
  <2> QED
    BY <1>4, <2>2
<1> DEFINE x == t[1]
           y == t[6]
<1> HIDE DEF E, j, A, step
<1>12. x = E(1, s) /\ (y = x \/ \E i \in 2 .. 6 : y = E(i, x))
  <2>1. /\ t[1] = E(1, t[0]) /\ t[2] = E(2, t[1]) /\ t[3] = E(3, t[2])
        /\ t[4] = E(4, t[3]) /\ t[5] = E(5, t[4]) /\ t[6] = E(6, t[5])
    BY <1>8
  <2>2. \A r : /\ j # 2 => E(2, r) = r
               /\ j # 3 => E(3, r) = r
               /\ j # 4 => E(4, r) = r
               /\ j # 5 => E(5, r) = r
               /\ j # 6 => E(6, r) = r
    BY <1>10
  <2>3. t[6] = t[1] \/ t[6] = E(2, t[1]) \/ t[6] = E(3, t[1]) \/ t[6] = E(4, t[1])
        \/ t[6] = E(5, t[1]) \/ t[6] = E(6, t[1])
    BY <2>1, <2>2
  <2>4. 2 \in 2 .. 6 /\ 3 \in 2 .. 6 /\ 4 \in 2 .. 6 /\ 5 \in 2 .. 6 /\ 6 \in 2 .. 6
    OBVIOUS
  <2> QED
    BY <1>8, <2>1, <2>3, <2>4
<1>13. x \in Counters /\ Added(s, x, p)
  <2>1. 1 \in 1 .. 6
    OBVIOUS
  <2> QED
    BY <1>6, <1>9, <1>12, <2>1
<1>14. Added(x, y, p)
  <2>1. CASE y = x
    BY <1>13, <2>1, AddedNothing
  <2>2. ASSUME NEW i \in 2 .. 6, y = E(i, x) PROVE Added(x, y, p)
    <3>1. i \in 1 .. 6
      OBVIOUS
    <3> QED
      BY <1>9, <1>13, <2>2, <3>1
  <2> QED
    BY <1>12, <2>1, <2>2
<1>15. y.ok /\ Len(y.bytes) < Max32 /\ y.bytes = Bytes(m)
  BY <1>1, <1>5, <1>7 DEF Bytes
<1>16. Filled(s, x, m, p, A)
  BY <1>11, <1>12
<1> HIDE DEF x, y
<1>17. PICK c \in Seq(Byte) : y.bytes = x.bytes \o c /\ Whole(p, c)
  BY <1>14, <1>15 DEF Added
<1>18. x.ok /\ Len(x.bytes) < Max32
  BY <1>14, <1>15 DEF Added
<1>19. PICK b \in Seq(Byte) : x.bytes = s.bytes \o b /\ Whole(p, b)
  BY <1>13, <1>18 DEF Added
<1>20. PICK d \in Seq(Byte) : x.bytes = s.bytes \o d /\ Fills(m, p, A, d)
  BY <1>16, <1>18 DEF Filled
<1>21. x.bytes = b /\ x.bytes = d
  BY <1>6, <1>19, <1>20
<1> QED
  BY <1>15, <1>17, <1>19, <1>20, <1>21 DEF p, A

\* The end of the bytes, or a field that broke off, behind bytes that filled in
\* some fields: these are decoded, or nothing is.
LEMMA BrokenOff ==
  ASSUME NEW m, NEW A \in SUBSET Sent(m), Closed(m, A), NEW x \in Seq(Byte), Fills(m, << >>, A, x),
         NEW d \in Seq(Byte), d = << >> \/ Refused(<< >>, d)
  PROVE  pb_decode(x \o d) = Failed \/ pb_decode(x \o d) = Got(Mix(Zero, m, A), << >>)
<1> DEFINE all == x \o d
           n == Mix(Zero, m, A)
           u == Reading(<< >>, << >>, all, Zero)
           v == Reading(<< >>, << >>, d, n)
           e == DecodeStep(v)
<1>1. << >> \in Seq(Opened) /\ << >> \in Places /\ all \in Seq(Byte) /\ 2 * Len(x) + 1 <= 2 * Len(all) + 1
  <2>1. << >> \in Seq(Opened) /\ all \in Seq(Byte)
    OBVIOUS
  <2>2. Len(all) = Len(x) + Len(d) /\ Len(x) \in Nat /\ Len(d) \in Nat
    BY BytesBefore
  <2> HIDE DEF all
  <2>3. 2 * Len(x) + 1 <= 2 * Len(all) + 1
    BY <2>2
  <2> QED
    BY <2>1, <2>3, FieldsAssumption, ZenonT(30)
<1>2. Mix(Zero, m, {}) = Zero /\ {} \cup A = A /\ Zero \in Structures
  BY ZeroFits, MixStarts
<1>3. {} \in SUBSET Sent(m) /\ Ready(m, << >>, A, {})
  BY DEF Ready, Closed
<1>4. Within(u, v, 2 * Len(x))
  <2>1. FillsFrom(m, << >>, A, x, Zero, {}, << >>, d)
    BY <1>1, <1>2, <1>3 DEF Fills
  <2> QED
    BY <1>2, <2>1 DEF FillsFrom
<1>5. Len(x) \in Nat /\ Len(all) \in Nat
  BY <1>1
<1> HIDE DEF u, v
<1>6. Within(u, e, 2 * Len(all) + 1)
  <2>1. 1 \in Nat /\ 1 # 0
    OBVIOUS
  <2>2. Within(v, e, 1)
    BY <2>1, AtOnce
  <2> HIDE DEF e, all
  <2>3. 2 * Len(x) \in Nat
    BY <1>5
  <2>4. Within(u, e, 2 * Len(x) + 1)
    BY <1>4, <2>1, <2>2, <2>3, OneAfterAnother
  <2>5. 2 * Len(x) + 1 \in Nat /\ 2 * Len(all) + 1 \in Nat
    BY <1>5
  <2> QED
    BY <1>1, <2>4, <2>5, WithinMore
<1>7. CASE d = << >>
  <2>1. e = [ok |-> TRUE, open |-> << >>, m |-> n]
    BY <1>1, <1>7, SubmessageLeft DEF v
  <2> HIDE DEF n, e, all
  <2>2. pb_decode(all) = Got(n, << >>)
    BY <1>1, <1>6, <2>1, Finishes DEF u
  <2> QED
    BY <2>2 DEF n, all
<1>8. CASE Refused(<< >>, d)
  <2>1. ~e.ok
    BY <1>1, <1>8 DEF Refused, v
  <2> HIDE DEF n, e, all
  <2>2. pb_decode(all) = Failed
    BY <1>1, <1>6, <2>1, ErrorFails DEF u
  <2> QED
    BY <2>2 DEF all
<1> QED
  BY <1>7, <1>8

\* When no more than its type was decoded, there is nothing in the envelope.
LEMMA TypeOnly ==
  ASSUME NEW m, NEW A \in SUBSET {Append(<< >>, 1)}
  PROVE  LET n == Mix(Zero, m, A)
         IN  n.which[<< >>] = 0 /\ n.data[Append(<< >>, 1)] \in {0, m.data[Append(<< >>, 1)]}
<1> DEFINE p == << >>
           F == Fields[p]
           a == Append(p, 1)
           n == Mix(Zero, m, A)
<1>1. p \in Places
  BY FieldsAssumption, ZenonT(30)
<1>2. F[1] \in FieldsAt(p) /\ F[1].ltype = "enum" /\ F[1].htype = "singular" /\ F[1].tag = 1
  <2>1. F[1] = Scalar(1, "enum") /\ 1 \in 1 .. 6 /\ Len(F) = 6
    BY EnvelopeFields
  <2> HIDE DEF p, F
  <2>2. F[1] \in FieldsAt(p)
    BY <1>1, <2>1, PlaceFields DEF F
  <2> QED
    BY <2>1, <2>2 DEF Scalar
<1> HIDE DEF p
<1>3. a \in Leaves /\ FieldAt(a) = F[1] /\ p \in Address
  BY <1>1, <1>2, FieldFacts, ZenonT(30)
<1>4. Zero.data[a] = 0 /\ Zero.which[p] = 0
  BY <1>1, <1>2, <1>3 DEF Zero, Default
<1>5. ~Chosen(m, A, p)
  <2> SUFFICES ASSUME m.which[p] \in OneofTags(p), Append(p, m.which[p]) = a PROVE FALSE
    BY DEF Chosen, p
  <2>1. m.which[p] \in Nat /\ 1 \in Nat
    BY <1>1, OneofTagsAre
  <2>2. m.which[p] = 1
    <3>1. \A t \in Nat : Append(p, t)[Len(p) + 1] = t
      BY <1>3, AppendProperties DEF Address
    <3> QED
      BY <2>1, <3>1
  <2>3. 1 \notin OneofTags(p)
    BY <1>1, <1>2, OneofTag
  <2> QED
    BY <2>2, <2>3
<1>6. /\ n.data[a] = (IF a \in A THEN m.data[a]
                      ELSE IF Gone(Zero, m, A, a) THEN Zero.data[a] ELSE Zero.data[a])
      /\ n.which[p] = (IF Chosen(m, A, p) THEN m.which[p]
                       ELSE IF Gone(Zero, m, A, p) THEN 0 ELSE Zero.which[p])
  <2>1. /\ n = [data |-> n.data, has |-> n.has, which |-> n.which]
        /\ n.data = [x \in Leaves |-> n.data[x]] /\ n.which = [q \in Places |-> n.which[q]]
        /\ \A x \in Leaves : n.data[x] =
              IF x \in A THEN m.data[x]
              ELSE IF Gone(Zero, m, A, x) THEN Zero.data[x] ELSE Zero.data[x]
        /\ \A x : x \in n.has <=>
              (x \in Zero.has /\ ~Gone(Zero, m, A, x)) \/ (x \in A /\ x \in Optionals)
        /\ \A q \in Places : n.which[q] =
              IF Chosen(m, A, q) THEN m.which[q]
              ELSE IF Gone(Zero, m, A, q) THEN 0 ELSE Zero.which[q]
    BY MixFacts
  <2> HIDE DEF n, a
  <2> QED
    BY <1>1, <1>3, <2>1
<1> HIDE DEF n, a
<1>7. n.which[p] = 0 /\ n.data[a] \in {0, m.data[a]}
  BY <1>4, <1>5, <1>6
<1> QED
  BY <1>7 DEF n, a, p

\* Nothing is decoded, or nothing but the type of m.
TypeAlone(m, r) ==
    r.ok => /\ r.value.which[<< >>] = 0
            /\ r.value.data[Append(<< >>, 1)] \in {0, m.data[Append(<< >>, 1)]}

\* What is decoded of an envelope that lost its end.
LEMMA CutDecoded ==
  ASSUME NEW m, Encodes(m), NEW c \in Seq(Byte), Begins(c, Bytes(m))
  PROVE  pb_decode(c).ok =>
            /\ pb_decode(c).value.which[<< >>] = 0
            /\ pb_decode(c).value.data[<<1>>] \in {0, m.data[<<1>>]}
<1> DEFINE a == Append(<< >>, 1)
           A == AtField(m, a)
<1>1. a = <<1>>
  OBVIOUS
<1>2. PICK b, e \in Seq(Byte) :
         /\ Bytes(m) = b \o e /\ Whole(<< >>, b) /\ Whole(<< >>, e)
         /\ Fills(m, << >>, A, b)
  BY EnvelopeBytes
<1>3. A \in SUBSET {a} /\ A \subseteq Sent(m) /\ Closed(m, A)
  <2>1. << >> \in Places /\ Present(m, << >>)
    BY FieldsAssumption, OutermostPresent, ZenonT(30)
  <2> DEFINE p == << >>
             f == Fields[p][1]
  <2>2. f \in FieldsAt(p) /\ f.ltype = "enum" /\ f.tag = 1
    <3>1. f = Scalar(1, "enum") /\ 1 \in 1 .. 6 /\ Len(Fields[p]) = 6
      BY EnvelopeFields
    <3> HIDE DEF p, f
    <3>2. f \in FieldsAt(p)
      BY <2>1, <3>1, PlaceFields DEF f, p
    <3> QED
      BY <3>1, <3>2 DEF Scalar
  <2>3. AtField(m, Append(p, f.tag)) \in SUBSET {Append(p, f.tag)}
    <3> HIDE DEF p, f
    <3>1. \/ AtField(m, Append(p, f.tag)) = {}
          \/ AtField(m, Append(p, f.tag)) = {Append(p, f.tag)}
      BY <2>1, <2>2, AtFieldIs DEF p
    <3> QED
      BY <3>1
  <2>4. A \subseteq Sent(m)
    BY DEF AtField
  <2>5. A \in SUBSET {a}
    BY <2>2, <2>3
  <2>6. Closed(m, A)
    <3> SUFFICES ASSUME NEW x \in A, NEW y \in Sent(m), Under(x, y) PROVE y \in A
      BY <2>4 DEF Closed
    <3>1. x = a /\ Under(a, y) /\ y \in Address
      BY <2>5, SentFacts
    <3>2. PICK q \in Places : \E h \in FieldsAt(q) : y = Append(q, h.tag)
      BY SentFacts
    <3>3. PICK h \in FieldsAt(q) : y = Append(q, h.tag)
      BY <3>2
    <3>4. y = a
      <4>1. Len(y) = Len(q) + 1 /\ Len(q) \in Nat
        BY <3>3, FieldFacts, FieldAddress, ZenonT(30)
      <4>2. Len(y) <= Len(a) /\ SubSeq(a, 1, Len(y)) = y
        BY <3>1 DEF Under
      <4>3. Len(a) = 1 /\ SubSeq(a, 1, Len(a)) = a
        <5>1. << >> \in Address /\ 1 \in Nat
          <6>1. << >> \in Seq(Nat)
            OBVIOUS
          <6> QED
            BY <6>1 DEF Address
        <5>2. Len(a) = Len(<< >>) + 1 /\ a \in Address
          BY <5>1, FieldAddress
        <5>3. SubSeq(a, 1, Len(a)) = a
          <6> HIDE DEF a
          <6> QED
            BY <5>2 DEF Address
        <5> QED
          BY <5>2, <5>3
      <4> HIDE DEF a
      <4> QED
        BY <4>1, <4>2, <4>3
    <3> QED
      BY <3>1, <3>4
  <2> QED
    BY <2>4, <2>5, <2>6
<1> HIDE DEF A
<1>4. TypeAlone(m, Failed)
  BY DEF Failed, TypeAlone
<1>5. ASSUME NEW D \in SUBSET {a} PROVE TypeAlone(m, Got(Mix(Zero, m, D), << >>))
  <2> DEFINE n == Mix(Zero, m, D)
  <2>1. n.which[<< >>] = 0 /\ n.data[a] \in {0, m.data[a]}
    BY TypeOnly
  <2> HIDE DEF n
  <2> QED
    BY <2>1 DEF Got, n, TypeAlone, a
<1>6. ASSUME Begins(c, b) PROVE TypeAlone(m, pb_decode(c))
  <2>1. c = << >> \/ Refused(<< >>, c)
    BY <1>2, <1>6 DEF Whole
  <2>2. << >> \in Seq(Byte) /\ << >> \o c = c /\ {} \in SUBSET Sent(m) /\ {} \in SUBSET {a}
    OBVIOUS
  <2>3. Fills(m, << >>, {}, << >>) /\ Closed(m, {})
    BY FillsNothing DEF Closed
  <2>4. pb_decode(<< >> \o c) = Failed \/ pb_decode(<< >> \o c) = Got(Mix(Zero, m, {}), << >>)
    BY <2>1, <2>2, <2>3, BrokenOff, ZenonT(30)
  <2>5. TypeAlone(m, Got(Mix(Zero, m, {}), << >>))
    BY <1>5, <2>2, Zenon
  <2>6. pb_decode(c) = Failed \/ pb_decode(c) = Got(Mix(Zero, m, {}), << >>)
    BY <2>2, <2>4, Zenon
  <2> QED
    BY <1>4, <2>5, <2>6, Zenon
<1>7. ASSUME NEW d \in Seq(Byte), c = b \o d, Begins(d, e) PROVE TypeAlone(m, pb_decode(c))
  <2>1. d = << >> \/ Refused(<< >>, d)
    BY <1>2, <1>7 DEF Whole
  <2>2. pb_decode(c) = Failed \/ pb_decode(c) = Got(Mix(Zero, m, A), << >>)
    BY <1>2, <1>3, <1>7, <2>1, BrokenOff
  <2> QED
    BY <1>3, <1>4, <1>5, <2>2, Zenon
<1>8. Begins(c, b \o e)
  BY <1>2
<1>9. TypeAlone(m, pb_decode(c))
  <2>1. Begins(c, b) \/ \E d \in Seq(Byte) : c = b \o d /\ Begins(d, e)
    BY <1>2, <1>8, BeginsBoth
  <2> QED
    BY <1>6, <1>7, <2>1, Zenon
<1> QED
  BY <1>1, <1>9 DEF TypeAlone

\* Bytes without their end.
LEMMA CutBegins ==
  ASSUME NEW b \in Seq(Byte), NEW n \in 0 .. Len(b) - 1
  PROVE  SubSeq(b, 1, n) \in Seq(Byte) /\ Begins(SubSeq(b, 1, n), b)
<1> DEFINE c == SubSeq(b, 1, n)
           r == After(b, n)
<1>1. Len(b) \in Nat /\ n \in 0 .. Len(b) /\ Len(b) - n # 0
  OBVIOUS
<1>2. c \in Seq(Byte) /\ r \in Seq(Byte) /\ Len(r) = Len(b) - n /\ b = c \o r
  BY <1>1, PartsOfBytes, BytesSplit
<1> HIDE DEF c, r
<1>3. r # << >>
  BY <1>1, <1>2
<1> QED
  BY <1>2, <1>3 DEF Begins, c

-----------------------------------------------------------------------------
(* The invariant                                                           *)

\* The bytes on their way are those of the structures that were encoded: of one,
\* of two, of one with an unknown field before it or behind it, or of one
\* without its end.
CameAs ==
    /\ came \in {"whole", "again"} =>
          parts = <<parts[1]>> /\ Encodes(parts[1]) /\ wire = Bytes(parts[1])
    /\ came = "parts" =>
          /\ Len(parts) = 2 /\ Encodes(parts[1]) /\ Encodes(parts[2])
          /\ wire = Bytes(parts[1]) \o Bytes(parts[2])
    /\ came = "unknown" =>
          /\ parts = <<parts[1]>> /\ Encodes(parts[1])
          /\ \E u : UnknownField(u) /\ wire \in {Bytes(parts[1]) \o u, u \o Bytes(parts[1])}
    /\ came = "cut" =>
          /\ parts = <<parts[1]>> /\ Encodes(parts[1])
          /\ \E n \in 0 .. Len(Bytes(parts[1])) - 1 : wire = SubSeq(Bytes(parts[1]), 1, n)

\* They are until they are decoded; and what is encoded again was decoded, so
\* that it fits.
TripInv ==
    /\ stage = "start" => came = "whole"
    /\ stage \in {"sent", "decoded"} => CameAs
    /\ stage = "decoded" => result = pb_decode(wire)
    /\ came = "again" => stage \in {"sent", "decoded"} /\ FitsC(parts[1])

\* At the beginning nothing is on its way.
LEMMA TripInit == Init => TripInv
<1> SUFFICES ASSUME Init PROVE TripInv
  OBVIOUS
<1>1. stage = "start" /\ came = "whole"
  BY DEF Init, WireInit
<1> QED
  BY <1>1 DEF TripInv

\* A message of the programs, when it is not too long.
LEMMA MessageEncodes ==
  ASSUME NEW m \in Messages, pb_encode(m, Counting).ok, Len(Bytes(m)) < Max32
  PROVE  Encodes(m)
<1>1. m \in Structures
  BY MessagesAre
<1>2. Consistent(m)
  BY MessagesAssumption
<1> QED
  BY <1>1, <1>2 DEF Encodes

\* A message is encoded.
LEMMA EncodeTrip ==
  ASSUME NEW m \in Messages, NEW size \in BufferSizes, TripInv, Encode(m, size)
  PROVE  TripInv'
<1>1. m \in Structures /\ size \in Nat /\ size < Max32 /\ Max32 \in Nat
  <2>1. size \in 0 .. Max32 - 1
    BY MessagesAssumption
  <2>2. Max32 \in Nat
    BY Widths, Pow2Positive DEF Max32
  <2> QED
    BY <2>1, <2>2, MessagesAre
<1> DEFINE s == pb_encode(m, size)
<1>2. /\ stage' = (IF s.ok THEN "sent" ELSE "full") /\ wire' = s.bytes
      /\ parts' = <<m>> /\ came' = came
  BY DEF Encode
<1>3. came = "whole"
  BY DEF Encode, TripInv
<1>4. CASE s.ok
  <2>1. pb_encode(m, Counting).ok /\ s.bytes = Bytes(m) /\ Len(Bytes(m)) <= size
    BY <1>1, <1>4, EncodedAlike
  <2>2. Len(Bytes(m)) < Max32
    <3>1. Bytes(m) \in Seq(Byte)
      BY MessagesAre
    <3>2. Len(Bytes(m)) \in Nat
      BY <3>1
    <3> QED
      BY <1>1, <2>1, <3>2
  <2>3. Encodes(m)
    BY <2>1, <2>2, MessageEncodes
  <2>4. parts' = <<parts'[1]>> /\ parts'[1] = m
    BY <1>2
  <2>5. stage' = "sent" /\ came' = "whole" /\ wire' = Bytes(parts'[1]) /\ Encodes(parts'[1])
    BY <1>2, <1>3, <1>4, <2>1, <2>3, <2>4
  <2> HIDE DEF s
  <2> QED
    BY <2>4, <2>5 DEF TripInv, CameAs
<1>5. CASE ~s.ok
  <2>1. stage' = "full" /\ came' = "whole"
    BY <1>2, <1>3, <1>5
  <2> QED
    BY <2>1 DEF TripInv
<1> QED
  BY <1>4, <1>5

\* On the way another part or an unknown field is added, or something happens
\* to the bytes.
LEMMA WayTrip ==
  ASSUME TripInv,
         \/ \E m \in Messages : AppendPart(m)
         \/ \E field \in Strange : AddUnknown(field)
         \/ \E length \in 0 .. Len(wire) : Cut(length)
         \/ \E i \in 1 .. Len(wire), byte \in Corrupted : Differ(i, byte)
  PROVE  TripInv'
<1>1. Underway => parts = <<parts[1]>> /\ Encodes(parts[1]) /\ wire = Bytes(parts[1])
  BY DEF Underway, TripInv, CameAs
<1>2. ASSUME NEW m \in Messages, AppendPart(m) PROVE TripInv'
  <2>1. /\ Underway /\ pb_encode(m, Counting).ok /\ Len(wire) + Len(Bytes(m)) < Max32
        /\ came' = "parts" /\ parts' = Append(parts, m) /\ wire' = wire \o Bytes(m)
        /\ stage' = "sent"
    BY <1>2 DEF AppendPart, Underway
  <2>2. Len(Bytes(m)) < Max32
    <3>1. Bytes(m) \in Seq(Byte) /\ wire \in Seq(Byte)
      BY <1>1, <2>1, MessagesAre, BytesFill
    <3>2. Len(Bytes(m)) \in Nat /\ Len(wire) \in Nat
      BY <3>1
    <3>3. Max32 \in Nat
      BY Widths, Pow2Positive DEF Max32
    <3> QED
      BY <2>1, <3>2, <3>3
  <2>3. Encodes(m)
    BY <2>1, <2>2, MessageEncodes
  <2>4. Len(parts') = 2 /\ parts'[1] = parts[1] /\ parts'[2] = m
    <3> DEFINE n == parts[1]
    <3>1. parts = <<n>> /\ parts' = Append(parts, m)
      BY <1>1, <2>1
    <3> DEFINE v == <<n>>
               S == {n, m}
    <3> HIDE DEF n
    <3>2. v \in Seq(S) /\ Len(v) = 1 /\ v[1] = n /\ m \in S
      OBVIOUS
    <3> HIDE DEF v, S
    <3>3. Len(Append(v, m)) = 2 /\ Append(v, m)[1] = n /\ Append(v, m)[2] = m
      <4>1. Len(Append(v, m)) = Len(v) + 1 /\ Append(v, m)[Len(v) + 1] = m
        BY <3>2, AppendProperties, ZenonT(30)
      <4>2. Append(v, m)[1] = v[1]
        BY <3>2, AppendProperties, SMTT(30)
      <4> QED
        BY <3>2, <4>1, <4>2
    <3> QED
      BY <3>1, <3>3 DEF v, n
  <2> QED
    BY <1>1, <2>1, <2>3, <2>4 DEF TripInv, CameAs
<1>3. ASSUME NEW field \in Strange, AddUnknown(field) PROVE TripInv'
  <2>1. /\ Underway /\ came' = "unknown" /\ wire' \in {wire \o field, field \o wire}
        /\ stage' = "sent" /\ parts' = parts
    BY <1>3 DEF AddUnknown, Underway
  <2>2. UnknownField(field)
    BY MessagesAssumption
  <2>3. \E u : UnknownField(u) /\ wire' \in {Bytes(parts[1]) \o u, u \o Bytes(parts[1])}
    BY <1>1, <2>1, <2>2
  <2> QED
    BY <1>1, <2>1, <2>3 DEF TripInv, CameAs
<1>4. ASSUME NEW length \in 0 .. Len(wire), Cut(length) PROVE TripInv'
  <2>1. /\ stage' = "sent" /\ came' = "cut" /\ parts' = parts
        /\ Underway /\ length < Len(wire) /\ wire' = SubSeq(wire, 1, length)
    BY <1>4 DEF Cut, Underway
  <2>2. length \in 0 .. Len(wire) - 1
    BY <2>1
  <2>3. \E n \in 0 .. Len(Bytes(parts[1])) - 1 : wire' = SubSeq(Bytes(parts[1]), 1, n)
    BY <1>1, <2>1, <2>2
  <2> QED
    BY <1>1, <2>1, <2>3 DEF TripInv, CameAs
<1>5. ASSUME NEW i \in 1 .. Len(wire), NEW byte \in Corrupted, Differ(i, byte) PROVE TripInv'
  <2>1. stage' = "sent" /\ came' = "other"
    BY <1>5 DEF Differ, Underway
  <2> QED
    BY <2>1 DEF TripInv, CameAs
<1> QED
  BY <1>2, <1>3, <1>4, <1>5

\* What arrived is decoded.
LEMMA DecodeTrip ==
  ASSUME TripInv, Decode
  PROVE  TripInv'
<1>1. /\ stage = "sent" /\ stage' = "decoded" /\ result' = pb_decode(wire)
      /\ wire' = wire /\ came' = came /\ parts' = parts
  BY DEF Decode
<1>2. CameAs /\ (came = "again" => FitsC(parts[1]))
  BY <1>1 DEF TripInv
<1>3. CameAs'
  BY <1>1, <1>2 DEF CameAs
<1> QED
  BY <1>1, <1>2, <1>3 DEF TripInv

\* What was decoded fits, and is encoded again.
LEMMA ReencodeTrip ==
  ASSUME CodecInv, TripInv, Reencode
  PROVE  TripInv'
<1> DEFINE m == result.value
           s == pb_encode(m, Counting)
<1>1. /\ stage = "decoded" /\ result.ok /\ Len(Bytes(m)) < Max32
      /\ stage' = (IF s.ok THEN "sent" ELSE "full") /\ wire' = s.bytes
      /\ came' = "again" /\ parts' = <<m>>
  BY DEF Reencode
<1>2. m \in Structures /\ FitsC(m)
  BY <1>1, StructuresAre DEF CodecInv
<1>3. s.ok /\ Consistent(m)
  BY <1>2, FitsIsWritten
<1>4. Encodes(m)
  BY <1>1, <1>2, <1>3 DEF Encodes
<1>5. s.bytes = Bytes(m)
  BY DEF Bytes
<1>6. stage' = "sent" /\ parts' = <<parts'[1]>> /\ parts'[1] = m /\ wire' = Bytes(m)
  BY <1>1, <1>3, <1>5
<1> HIDE DEF m, s
<1> QED
  BY <1>1, <1>2, <1>4, <1>6 DEF TripInv, CameAs

\* Every step keeps the invariant.
LEMMA TripNext ==
  ASSUME CodecInv, TripInv, [Next]_vars
  PROVE  TripInv'
<1>1. CASE UNCHANGED vars
  BY <1>1 DEF TripInv, CameAs, vars, wireVars
<1>2. ASSUME NEW m \in Messages, NEW size \in BufferSizes, Encode(m, size) PROVE TripInv'
  BY <1>2, EncodeTrip
<1>3. CASE \/ \E m \in Messages : AppendPart(m)
           \/ \E field \in Strange : AddUnknown(field)
           \/ \E length \in 0 .. Len(wire) : Cut(length)
           \/ \E i \in 1 .. Len(wire), byte \in Corrupted : Differ(i, byte)
  BY <1>3, WayTrip
<1>4. CASE Decode
  BY <1>4, DecodeTrip
<1>5. CASE Reencode
  BY <1>5, ReencodeTrip
<1>6. CASE WireNext /\ UNCHANGED <<came, buffer>>
  <2>1. stage = "start" /\ stage' \in {"varint", "frame"} /\ came' = came
    BY <1>6 DEF WireNext, ReadVarint, ReadFrame
  <2> QED
    BY <2>1 DEF TripInv
<1> QED
  BY <1>1, <1>2, <1>3, <1>4, <1>5, <1>6 DEF Next

\* The invariant holds in every reachable state.
THEOREM TripIsSound == Spec => []TripInv
<1>1. CodecInv /\ TripInv /\ [Next]_vars => TripInv'
  BY TripNext
<1> QED
  BY <1>1, TripInit, CodecIsSound, PTL DEF Spec

\* For every descriptor, every width and every structure whose fields hold
\* values of their types: what pb_encode wrote, pb_decode reads as the same, but
\* for callbacks; and of two messages one behind the other it makes what
\* protobuf prescribes.  (pb_decode_inner, decode_static_field, pb_dec_submessage)
THEOREM PartsAreMerged == Spec => []PartsMerge
<1>1. ASSUME TripInv PROVE PartsMerge
  <2> SUFFICES ASSUME stage = "decoded", came \in {"whole", "parts"}
               PROVE  result.ok /\ result.value = Merged
    BY DEF PartsMerge
  <2>1. result = pb_decode(wire) /\ CameAs
    BY <1>1 DEF TripInv
  <2>2. CASE came = "whole"
    <3>1. parts = <<parts[1]>> /\ Encodes(parts[1]) /\ wire = Bytes(parts[1])
      BY <2>1, <2>2 DEF CameAs
    <3>2. pb_decode(wire) = Got(MergeInto(Zero, parts[1]), << >>)
      BY <3>1, BytesFill, OneDecoded
    <3>3. Len(parts) = 1
      BY <3>1
    <3> QED
      BY <2>1, <3>2, <3>3 DEF Merged, Got
  <2>3. CASE came = "parts"
    <3>1. /\ Len(parts) = 2 /\ Encodes(parts[1]) /\ Encodes(parts[2])
          /\ wire = Bytes(parts[1]) \o Bytes(parts[2])
      BY <2>1, <2>3 DEF CameAs
    <3>2. pb_decode(wire) = Got(MergeInto(MergeInto(Zero, parts[1]), parts[2]), << >>)
      BY <3>1, TwoDecoded
    <3> QED
      BY <2>1, <3>1, <3>2 DEF Merged, Got
  <2> QED
    BY <2>2, <2>3
<1> QED
  BY <1>1, TripIsSound, PTL

\* For every descriptor and whatever was decoded: encoded and decoded once more
\* it is the same, its presence bits and the members of its oneofs included.
\* (encode_field, pb_check_proto3_default_value)
THEOREM ReencodingChangesNothing == Spec => []ReencodedTheSame
<1>1. ASSUME TripInv PROVE ReencodedTheSame
  <2> SUFFICES ASSUME came = "again"
               PROVE  /\ stage # "full"
                      /\ stage = "decoded" => result = Got(parts[1], << >>)
    BY DEF ReencodedTheSame
  <2>1. stage \in {"sent", "decoded"} /\ FitsC(parts[1])
    BY <1>1 DEF TripInv
  <2>2. ASSUME stage = "decoded" PROVE result = Got(parts[1], << >>)
    <3>1. result = pb_decode(wire) /\ CameAs
      BY <1>1, <2>2 DEF TripInv
    <3>2. Encodes(parts[1]) /\ wire = Bytes(parts[1])
      BY <3>1 DEF CameAs
    <3>3. pb_decode(wire) = Got(MergeInto(Zero, parts[1]), << >>)
      BY <3>2, BytesFill, OneDecoded
    <3>4. MergeInto(Zero, parts[1]) = parts[1]
      BY <2>1, <3>2, MergedIntoZero DEF Encodes
    <3> QED
      BY <3>1, <3>3, <3>4
  <2> QED
    BY <2>1, <2>2
<1> QED
  BY <1>1, TripIsSound, PTL

\* For every field that the outermost message does not have, whatever its wire
\* type: the message is decoded as without it.  (pb_skip_field, pb_field_iter_find)
THEOREM UnknownFieldsAreSkipped == Spec => []UnknownFieldsSkipped
<1>1. ASSUME TripInv PROVE UnknownFieldsSkipped
  <2> SUFFICES ASSUME stage = "decoded", came = "unknown"
               PROVE  result.ok /\ result.value = Merged
    BY DEF UnknownFieldsSkipped
  <2>1. result = pb_decode(wire) /\ CameAs
    BY <1>1 DEF TripInv
  <2>2. /\ parts = <<parts[1]>> /\ Encodes(parts[1])
        /\ \E u : UnknownField(u) /\ wire \in {Bytes(parts[1]) \o u, u \o Bytes(parts[1])}
    BY <2>1 DEF CameAs
  <2>3. PICK u : UnknownField(u) /\ wire \in {Bytes(parts[1]) \o u, u \o Bytes(parts[1])}
    BY <2>2
  <2>4. pb_decode(wire) = Got(MergeInto(Zero, parts[1]), << >>)
    BY <2>2, <2>3, UnknownDecoded
  <2>5. Len(parts) = 1
    BY <2>2
  <2> QED
    BY <2>1, <2>4, <2>5 DEF Merged, Got
<1> QED
  BY <1>1, TripIsSound, PTL

\* For every structure and wherever its bytes end: no more of it than its type
\* is decoded.  The fields of the envelope, a varint and a submessage, are
\* refused when they break off.  (pb_read, pb_make_string_substream)
THEOREM CutsAreNotObeyed == Spec => []CutIsNotObeyed
<1>1. ASSUME TripInv PROVE CutIsNotObeyed
  <2> SUFFICES ASSUME stage = "decoded", came = "cut", result.ok
               PROVE  /\ result.value.which[<< >>] = 0
                      /\ result.value.data[<<1>>] \in {0, parts[1].data[<<1>>]}
    BY DEF CutIsNotObeyed
  <2>1. result = pb_decode(wire) /\ CameAs
    BY <1>1 DEF TripInv
  <2> DEFINE m == parts[1]
             b == Bytes(m)
  <2>2. Encodes(m) /\ \E n \in 0 .. Len(b) - 1 : wire = SubSeq(b, 1, n)
    BY <2>1 DEF CameAs
  <2>3. b \in Seq(Byte)
    BY <2>2, BytesFill
  <2> HIDE DEF m
  <2>4. wire \in Seq(Byte) /\ Begins(wire, b)
    <3> HIDE DEF b
    <3> QED
      BY <2>2, <2>3, CutBegins
  <2>5. /\ pb_decode(wire).value.which[<< >>] = 0
        /\ pb_decode(wire).value.data[<<1>>] \in {0, m.data[<<1>>]}
    BY <2>1, <2>2, <2>4, CutDecoded
  <2> QED
    BY <2>1, <2>5 DEF m
<1> QED
  BY <1>1, TripIsSound, PTL

=============================================================================
