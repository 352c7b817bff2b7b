--------------------------- MODULE BoardCodec_proofs ---------------------------
(***************************************************************************)
(* What pb_encode and pb_decode of the boards do, for all widths, all      *)
(* descriptors that FieldsAssumption allows and all bytes, and the         *)
(* properties of BoardCodec that follow.                                   *)
(*                                                                         *)
(* Decoding.  Every step of a decoder leads to a decoder (Decoders) whose  *)
(* structure is one the C program can hold, and which is there around the  *)
(* innermost message.  So what is accepted fits (DecodeFits).              *)
(*                                                                         *)
(* Encoding.  A function from streams to streams writes b if it appends b  *)
(* when that is allowed and there is room, and has an error otherwise      *)
(* (Wrote): whether it has an error is decided before it begins.  Writing  *)
(* one after the other is such a function again (WritesBoth), and so is    *)
(* every function of the encoder; a submessage is, if its contents are     *)
(* (SubmessageWrites).  Encoded is defined by recursion over the places.   *)
(* Encoding Depth + 1 times, each time with the submessages of the time    *)
(* before, changes nothing any more, which is why there is such an Encoded *)
(* (EncodedDefined); what it allows is that all strings fit                *)
(* (WrittenIfStringsFit).                                                  *)
(*                                                                         *)
(* CodecInv relates the bytes on their way to the structure they were made *)
(* of; with it these lemmas are the properties of BoardCodec.              *)
(***************************************************************************)
EXTENDS BoardCodec, WireFormat_proofs

Address == Seq(Nat)

-----------------------------------------------------------------------------
(* Addresses                                                               *)

\* An address is under another one that it begins with.
LEMMA UnderIs ==
  ASSUME NEW a \in Address, NEW b \in Address
  PROVE  Under(a, b) <=> Len(b) <= Len(a) /\ \A i \in 1 .. Len(b) : a[i] = b[i]
<1>1. CASE Len(b) <= Len(a)
  <2>1. /\ SubSeq(a, 1, Len(b)) \in Seq(Nat) /\ Len(SubSeq(a, 1, Len(b))) = Len(b)
        /\ \A i \in 1 .. Len(b) : SubSeq(a, 1, Len(b))[i] = a[i]
    BY <1>1, SubSeqProperties DEF Address
  <2>2. SubSeq(a, 1, Len(b)) = b <=> \A i \in 1 .. Len(b) : SubSeq(a, 1, Len(b))[i] = b[i]
    BY <2>1, SeqEqual DEF Address
  <2> QED
    BY <1>1, <2>1, <2>2 DEF Under
<1> QED
  BY <1>1 DEF Under

\* To be under is a partial order.
LEMMA UnderOrder ==
  ASSUME NEW a \in Address, NEW b \in Address, NEW c \in Address
  PROVE  /\ Under(a, a) /\ Under(a, << >>)
         /\ Under(a, b) /\ Under(b, c) => Under(a, c)
         /\ Under(a, b) /\ Under(b, a) => a = b
         /\ Under(a, b) /\ Under(a, c) => Under(b, c) \/ Under(c, b)
<1>1. /\ Len(a) \in Nat /\ Len(b) \in Nat /\ Len(c) \in Nat
      /\ << >> \in Address /\ Len(<< >>) = 0
  BY DEF Address
<1>2. Under(a, a) /\ Under(a, << >>)
  BY <1>1, UnderIs
<1>3. Under(a, b) /\ Under(b, c) => Under(a, c)
  BY <1>1, UnderIs
<1>4. Under(a, b) /\ Under(b, a) => a = b
  <2> SUFFICES ASSUME Under(a, b), Under(b, a) PROVE a = b
    OBVIOUS
  <2>1. Len(a) = Len(b) /\ \A i \in 1 .. Len(a) : a[i] = b[i]
    BY <1>1, UnderIs
  <2> QED
    BY <2>1, SeqEqual DEF Address
<1>5. Under(a, b) /\ Under(a, c) => Under(b, c) \/ Under(c, b)
  BY <1>1, UnderIs
<1> QED
  BY <1>2, <1>3, <1>4, <1>5

\* The address of a field of the message at p.
LEMMA FieldAddress ==
  ASSUME NEW p \in Address, NEW t \in Nat
  PROVE  /\ Append(p, t) \in Address
         /\ Len(Append(p, t)) = Len(p) + 1 /\ Len(p) \in Nat
         /\ SubSeq(Append(p, t), 1, Len(p)) = p
         /\ Append(p, t)[Len(p) + 1] = t
         /\ \A i \in 1 .. Len(p) : Append(p, t)[i] = p[i]
<1>1. Append(p, t) \in Address /\ Len(Append(p, t)) = Len(p) + 1 /\ Len(p) \in Nat
  BY DEF Address
<1>2. /\ Append(p, t)[Len(p) + 1] = t
      /\ \A i \in 1 .. Len(p) : Append(p, t)[i] = p[i]
  BY DEF Address
<1> DEFINE a == Append(p, t)
<1> HIDE DEF a
<1>3. Under(a, p)
  <2>1. a \in Address /\ Len(p) <= Len(a) /\ \A i \in 1 .. Len(p) : a[i] = p[i]
    BY <1>1, <1>2 DEF a
  <2> QED
    BY <2>1, UnderIs
<1> QED
  BY <1>1, <1>2, <1>3 DEF Under, a

\* It is under the message, what it is under the message is too, and it says
\* which field of which message it is.
LEMMA UnderField ==
  ASSUME NEW p \in Address, NEW t \in Nat, NEW q \in Address, NEW u \in Nat
  PROVE  /\ Under(Append(p, t), q) <=> q = Append(p, t) \/ Under(p, q)
         /\ ~Under(p, Append(p, t))
         /\ Append(p, t) = Append(q, u) => p = q /\ t = u
         /\ Under(Append(p, t), Append(p, u)) => t = u
<1> DEFINE a == Append(p, t)
           b == Append(q, u)
           c == Append(p, u)
<1>1. /\ a \in Address /\ Len(a) = Len(p) + 1 /\ Len(p) \in Nat
      /\ a[Len(p) + 1] = t /\ SubSeq(a, 1, Len(p)) = p
      /\ \A i \in 1 .. Len(p) : a[i] = p[i]
  BY FieldAddress
<1>2. /\ b \in Address /\ Len(b) = Len(q) + 1 /\ Len(q) \in Nat
      /\ b[Len(q) + 1] = u /\ SubSeq(b, 1, Len(q)) = q
  BY FieldAddress
<1>3. /\ c \in Address /\ Len(c) = Len(p) + 1 /\ c[Len(p) + 1] = u
  BY FieldAddress
<1> HIDE DEF a, b, c
<1>30. Len(p) \in Nat /\ Len(q) \in Nat /\ Len(a) = Len(p) + 1 /\ Len(b) = Len(q) + 1
  BY <1>1, <1>2
<1>4. ~Under(p, a)
  BY <1>1 DEF Under
<1>5. a = b => p = q /\ t = u
  <2> SUFFICES ASSUME a = b PROVE p = q /\ t = u
    OBVIOUS
  <2>1. Len(p) = Len(q)
    BY ONLY <1>30, a = b
  <2> QED
    BY <1>1, <1>2, <2>1
<1>6. Under(p, q) => Under(a, q)
  <2> SUFFICES ASSUME Under(p, q) PROVE Under(a, q)
    OBVIOUS
  <2>1. Len(q) <= Len(p) /\ \A i \in 1 .. Len(q) : p[i] = q[i]
    BY UnderIs
  <2>2. Len(q) <= Len(a) /\ \A i \in 1 .. Len(q) : i \in 1 .. Len(p)
    BY <1>30, <2>1
  <2>3. \A i \in 1 .. Len(q) : a[i] = q[i]
    BY <1>1, <2>1, <2>2
  <2> QED
    BY <1>1, <2>2, <2>3, UnderIs
<1>7. q = a => Under(a, q)
  BY <1>1, UnderOrder
<1>8. ASSUME Under(a, q), ~Under(p, q) PROVE q = a
  <2>1. Len(q) <= Len(p) + 1 /\ \A i \in 1 .. Len(q) : a[i] = q[i]
    BY <1>1, <1>8, UnderIs
  <2>2. ASSUME Len(q) <= Len(p) PROVE FALSE
    <3>1. \A i \in 1 .. Len(q) : p[i] = q[i]
      BY <1>1, <1>30, <2>1, <2>2
    <3> QED
      BY <2>2, <3>1, <1>8, UnderIs
  <2>4. Len(q) = Len(p) + 1
    <3>1. Len(q) <= Len(p) + 1
      BY <2>1
    <3> QED
      BY ONLY <1>30, <2>2, <3>1
  <2>3. \A i \in 1 .. Len(q) : q[i] = a[i]
    BY <2>1
  <2> QED
    BY <1>1, <2>4, <2>3, SeqEqual DEF Address
<1>9. Under(a, c) => t = u
  <2> SUFFICES ASSUME Under(a, c) PROVE t = u
    OBVIOUS
  <2>1. \A i \in 1 .. Len(c) : a[i] = c[i]
    BY <1>1, <1>3, UnderIs
  <2> QED
    BY <1>1, <1>3, <2>1
<1> QED
  BY <1>4, <1>5, <1>6, <1>7, <1>8, <1>9 DEF a, b, c

-----------------------------------------------------------------------------
(* Fields                                                                  *)

\* What FieldsAssumption says of a field, and how it is found.
LEMMA FieldFacts ==
  ASSUME NEW p \in Places, NEW f \in FieldsAt(p)
  PROVE  /\ p \in Address /\ f.tag \in Nat \ {0}
         /\ \A g \in FieldsAt(p) : g.tag = f.tag => g = f
         /\ FieldAt(Append(p, f.tag)) = f
         /\ f.ltype \in {"bool", "int32", "enum", "string", "callback", "submessage"}
         /\ f.ltype = "submessage" =>
               f.htype \in {"optional", "oneof"} /\ Append(p, f.tag) \in Places
         /\ f.ltype = "callback" => f.htype = "optional callback"
         /\ f.ltype \notin {"submessage", "callback"} => f.htype \in {"singular", "oneof"}
         /\ f.ltype = "string" => f.size \in Nat \ {0}
         /\ f.ltype # "submessage" => Append(p, f.tag) \in Leaves
<1>1. /\ p \in Seq(Nat) /\ f.tag \in Nat \ {0}
      /\ \A i, j \in DOMAIN Fields[p] : Fields[p][i].tag = Fields[p][j].tag => i = j
      /\ f.ltype \in {"bool", "int32", "enum", "string", "callback", "submessage"}
      /\ f.ltype = "submessage" =>
            f.htype \in {"optional", "oneof"} /\ Append(p, f.tag) \in Places
      /\ f.ltype = "callback" => f.htype = "optional callback"
      /\ f.ltype \notin {"submessage", "callback"} => f.htype \in {"singular", "oneof"}
      /\ f.ltype = "string" => f.size \in Nat \ {0}
  BY FieldsAssumption
<1>2. \A g \in FieldsAt(p) : g.tag = f.tag => g = f
  BY <1>1 DEF FieldsAt
<1>3. FieldAt(Append(p, f.tag)) = f
  <2> DEFINE a == Append(p, f.tag)
  <2>1. p \in Address /\ f.tag \in Nat
    BY <1>1 DEF Address
  <2>2. /\ Len(a) = Len(p) + 1 /\ Len(p) \in Nat
        /\ SubSeq(a, 1, Len(p)) = p /\ a[Len(p) + 1] = f.tag
    BY <2>1, FieldAddress
  <2> HIDE DEF a
  <2>3. Len(a) - 1 = Len(p)
    BY <2>2
  <2>4. FieldAt(a) = CHOOSE g \in FieldsAt(p) : g.tag = f.tag
    BY <2>2, <2>3 DEF FieldAt
  <2> QED
    BY <1>2, <2>4 DEF a
<1>4. f.ltype # "submessage" => Append(p, f.tag) \in Leaves
  BY DEF Leaves
<1> QED
  BY <1>1, <1>2, <1>3, <1>4 DEF Address

\* A leaf is the address of a field that is not a submessage.
LEMMA LeafFacts ==
  ASSUME NEW a \in Leaves
  PROVE  /\ a \in Address
         /\ \E p \in Places : \E f \in FieldsAt(p) :
               /\ a = Append(p, f.tag) /\ f.ltype # "submessage"
               /\ FieldAt(a) = f
<1>0. PICK p \in Places : \E f \in FieldsAt(p) : a = Append(p, f.tag) /\ f.ltype # "submessage"
  BY DEF Leaves
<1>1. PICK f \in FieldsAt(p) : a = Append(p, f.tag) /\ f.ltype # "submessage"
  BY <1>0
<1>2. p \in Address /\ f.tag \in Nat /\ FieldAt(Append(p, f.tag)) = f
  BY FieldFacts
<1>3. Append(p, f.tag) \in Address
  BY <1>2, FieldAddress
<1> QED
  BY <1>1, <1>2, <1>3

-----------------------------------------------------------------------------
(* Reading                                                                 *)

\* r is what a read leaves: an error, or a value of V and the rest.
Reads(r, V) ==
    r.ok \in BOOLEAN /\ (r.ok => r.value \in V /\ r.rest \in Seq(Byte))

\* A read that succeeded, and one that failed.
LEMMA GotReads ==
  ASSUME NEW V, NEW v \in V, NEW rest \in Seq(Byte)
  PROVE  /\ Reads(Got(v, rest), V) /\ Got(v, rest).ok
         /\ Got(v, rest).value = v /\ Got(v, rest).rest = rest
  BY DEF Got, Reads

\* A read that failed has no value.
LEMMA FailedReads == ASSUME NEW V PROVE Reads(Failed, V) /\ ~Failed.ok
  BY DEF Failed, Reads

\* What is left of bytes, and their beginning, are bytes.
LEMMA PartsOfBytes ==
  ASSUME NEW in \in Seq(Byte), NEW n \in 0 .. Len(in)
  PROVE  /\ SubSeq(in, 1, n) \in Seq(Byte) /\ Len(SubSeq(in, 1, n)) = n
         /\ \A i \in 1 .. n : SubSeq(in, 1, n)[i] = in[i]
         /\ After(in, n) \in Seq(Byte) /\ Len(After(in, n)) = Len(in) - n
<1>1. n \in Nat /\ Len(in) \in Nat /\ n <= Len(in) /\ \A i \in 1 .. Len(in) : in[i] \in Byte
  OBVIOUS
<1>2. /\ SubSeq(in, 1, n) \in Seq(Byte) /\ Len(SubSeq(in, 1, n)) = n
      /\ \A i \in 1 .. n : SubSeq(in, 1, n)[i] = in[i]
  BY <1>1, SubSeqProperties
<1>3. SubSeq(in, n + 1, Len(in)) \in Seq(Byte) /\ Len(SubSeq(in, n + 1, Len(in))) = Len(in) - n
  BY <1>1, SubSeqProperties
<1> QED
  BY <1>2, <1>3 DEF After

\* The two readers of varints return a number of their type.
LEMMA VarintReads ==
  ASSUME NEW in \in Seq(Byte)
  PROVE  /\ Reads(pb_decode_varint(in), 0 .. Max64 - 1)
         /\ Reads(pb_decode_varint32(in), 0 .. Max32 - 1)
<1> DEFINE n == End(in)
           r == Results(in)
<1>1. Len(in) \in Nat /\ n \in 0 .. Len(in) /\ After(in, n) \in Seq(Byte)
  BY EndDefined, PartsOfBytes
<1>2. r \in [0 .. Len(in) -> Nat] /\ Max32 \in Nat \ {0} /\ Max64 \in Nat \ {0}
  BY ResultsDefined, Rooms
<1>3. Reads(pb_decode_varint(in), 0 .. Max64 - 1)
  <2>1. CASE n = 0 \/ \E i \in 1 .. n : Overflows(in[i], BitPos(i))
    BY <2>1, FailedReads DEF pb_decode_varint
  <2>2. CASE n # 0 /\ \A i \in 1 .. n : ~Overflows(in[i], BitPos(i))
    <3>1. r[n] < Max64
      BY <2>2, WideFits
    <3>2. pb_decode_varint(in) = Got(r[n], After(in, n))
      BY <2>2, Zenon DEF pb_decode_varint
    <3> QED
      BY <1>1, <1>2, <3>1, <3>2, r[n] \in 0 .. Max64 - 1, GotReads
  <2> QED
    BY <2>1, <2>2
<1>4. Reads(pb_decode_varint32(in), 0 .. Max32 - 1)
  <2>2. n # 0 => Narrow(in, n) \in 0 .. Max32 - 1
    <3>1. Shorter(n, Whole32 + 1) \in 0 .. Len(in)
      <4> HIDE DEF n
      <4> QED
        BY <1>1, Positions DEF Shorter
    <3> DEFINE v == r[Shorter(n, Whole32 + 1)]
    <3>2. v \in Nat /\ Narrow(in, n) = v % Max32
      BY <1>2, <3>1 DEF Narrow
    <3> HIDE DEF v
    <3> QED
      BY <1>2, <3>2, DivMod
  <2>3. CASE n = 0 \/ \E i \in 1 .. n : ~Valid(in, i)
    <3>1. pb_decode_varint32(in) = Failed
      BY <2>3, NarrowDecodes
    <3> QED
      BY <3>1, FailedReads
  <2>4. CASE n # 0 /\ \A i \in 1 .. n : Valid(in, i)
    <3>1. pb_decode_varint32(in) = Got(Narrow(in, n), After(in, n))
      BY <2>4, NarrowDecodes
    <3> HIDE DEF n
    <3> QED
      BY <1>1, <2>2, <2>4, <3>1, GotReads
  <2> QED
    BY <2>3, <2>4
<1> QED
  BY <1>3, <1>4

\* A read takes bytes from the start, or fails.
LEMMA BytesRead ==
  ASSUME NEW in \in Seq(Byte), NEW n \in Nat
  PROVE  /\ Reads(pb_read(in, n), Seq(Byte))
         /\ pb_read(in, n).ok => Len(pb_read(in, n).value) = n
<1>1. CASE Len(in) < n
  <2>1. pb_read(in, n) = Failed
    BY <1>1 DEF pb_read
  <2> QED
    BY <2>1, FailedReads
<1>2. CASE n <= Len(in)
  <2>1. pb_read(in, n) = Got(SubSeq(in, 1, n), After(in, n))
    BY <1>2 DEF pb_read
  <2>2. SubSeq(in, 1, n) \in Seq(Byte) /\ After(in, n) \in Seq(Byte) /\ Len(SubSeq(in, 1, n)) = n
    BY <1>2, PartsOfBytes, n \in 0 .. Len(in)
  <2> DEFINE s == SubSeq(in, 1, n)
  <2> HIDE DEF s
  <2>3. /\ pb_read(in, n) = Got(s, After(in, n)) /\ Len(s) = n
        /\ s \in Seq(Byte) /\ After(in, n) \in Seq(Byte)
    BY <2>1, <2>2 DEF s
  <2> QED
    BY <2>3, GotReads
<1> QED
  BY <1>1, <1>2

\* So do the reads of what stands behind a length, and the skips.
LEMMA FieldsSkipped ==
  ASSUME NEW in \in Seq(Byte), NEW wire_type
  PROVE  /\ Reads(Substream(in), Seq(Byte))
         /\ Reads(pb_skip_field(in, wire_type), Seq(Byte))
         /\ Reads(decode_callback_field(in, wire_type), Seq(Byte))
<1>1. {Fixed64, Fixed32} \subseteq Nat
  BY FieldsAssumption
<1>2. Reads(Substream(in), Seq(Byte))
  <2> DEFINE size == pb_decode_varint32(in)
  <2>1. CASE size.ok
    <3>1. size.value \in Nat /\ size.rest \in Seq(Byte)
      BY <2>1, VarintReads DEF Reads
    <3>2. Substream(in) = pb_read(size.rest, size.value)
      BY <2>1 DEF Substream
    <3> HIDE DEF size
    <3> QED
      BY <3>1, <3>2, BytesRead
  <2>2. CASE ~size.ok
    BY <2>2, FailedReads DEF Substream
  <2> QED
    BY <2>1, <2>2
<1>3. Reads(RawVarint(in), Seq(Byte))
  <2>1. End(in) \in Nat
    BY EndDefined, Len(in) \in Nat
  <2> QED
    BY <2>1, BytesRead, FailedReads DEF RawVarint
<1>4. Reads(pb_skip_field(in, wire_type), Seq(Byte))
  <2>1. Reads(pb_read(in, Fixed64), Seq(Byte)) /\ Reads(pb_read(in, Fixed32), Seq(Byte))
    BY <1>1, BytesRead
  <2>2. \/ pb_skip_field(in, wire_type) = RawVarint(in)
        \/ pb_skip_field(in, wire_type) = pb_read(in, Fixed64)
        \/ pb_skip_field(in, wire_type) = Substream(in)
        \/ pb_skip_field(in, wire_type) = pb_read(in, Fixed32)
        \/ pb_skip_field(in, wire_type) = Failed
    BY DEF pb_skip_field, WT_VARINT, WT_64BIT, WT_STRING, WT_32BIT
  <2> QED
    BY <1>2, <1>3, <2>1, <2>2, FailedReads
<1>5. Reads(decode_callback_field(in, wire_type), Seq(Byte))
  BY <1>4, FailedReads DEF decode_callback_field
<1> QED
  BY <1>2, <1>4, <1>5

\* The string in a char array has no zero, and is no longer than what was read.
LEMMA StringsEnd ==
  ASSUME NEW s \in Seq(Byte)
  PROVE  /\ AsCString(s) \in Seq(Byte) /\ Len(AsCString(s)) <= Len(s)
         /\ \A i \in 1 .. Len(AsCString(s)) : AsCString(s)[i] # 0
<1>1. CASE \A i \in 1 .. Len(s) : s[i] # 0
  BY <1>1 DEF AsCString
<1>2. CASE \E i \in 1 .. Len(s) : s[i] = 0
  <2> DEFINE T == {i \in 1 .. Len(s) : s[i] = 0}
             FirstZero(n) == s[n] = 0 /\ \A i \in 1 .. n - 1 : s[i] # 0
             zero == CHOOSE n \in 1 .. Len(s) : FirstZero(n)
  <2>1. PICK n \in T : \A y \in T : n <= y
    <3>1. T \in SUBSET Nat /\ T # {}
      BY <1>2
    <3> HIDE DEF T
    <3> QED
      BY <3>1, LeastElement
  <2>2. n \in 1 .. Len(s) /\ FirstZero(n)
    BY <2>1
  <2>3. AsCString(s) = SubSeq(s, 1, zero - 1)
    BY <1>2 DEF AsCString
  <2> HIDE DEF FirstZero
  <2>4. zero \in 1 .. Len(s) /\ FirstZero(zero)
    BY <2>2
  <2> HIDE DEF zero
  <2>5. zero - 1 \in 0 .. Len(s)
    BY <2>4
  <2>6. /\ SubSeq(s, 1, zero - 1) \in Seq(Byte) /\ Len(SubSeq(s, 1, zero - 1)) = zero - 1
        /\ \A i \in 1 .. zero - 1 : SubSeq(s, 1, zero - 1)[i] = s[i]
    BY <2>5, PartsOfBytes
  <2> QED
    BY <2>3, <2>4, <2>5, <2>6 DEF FirstZero
<1> QED
  BY <1>1, <1>2

\* A string without zeros.
LEMMA WithoutZeros ==
  ASSUME NEW s \in Seq(Byte)
  PROVE  s \in Seq(Byte \ {0}) <=> \A i \in 1 .. Len(s) : s[i] # 0
  OBVIOUS

\* What decode_basic_field accepts has the C type of the field.
LEMMA BasicFieldFits ==
  ASSUME NEW in \in Seq(Byte), NEW f,
         f.ltype \in {"bool", "enum", "int32", "string"},
         f.ltype = "string" => f.size \in Nat \ {0}
  PROVE  LET r == decode_basic_field(in, f)
         IN  /\ Reads(r, Values(f))
             /\ r.ok => FieldFitsC(f, r.value)
<1>1. /\ Max32 \in Nat \ {0} /\ Max64 \in Nat \ {0} /\ Max32 = 2 * Pow2[Bits32 - 1]
      /\ Pow2[Bits32 - 1] \in Nat \ {0}
  BY Rooms DEF Sign32
<1>2. CASE f.ltype = "bool"
  <2> DEFINE v == pb_decode_varint32(in)
             r == decode_basic_field(in, f)
             b == v.value # 0
  <2>1. r = IF v.ok THEN Got(b, v.rest) ELSE Failed
    BY <1>2 DEF decode_basic_field, pb_dec_bool
  <2>2. v.ok \in BOOLEAN /\ (v.ok => v.rest \in Seq(Byte))
    BY VarintReads DEF Reads
  <2>3. Values(f) = BOOLEAN /\ \A x \in BOOLEAN : FieldFitsC(f, x)
    BY <1>2 DEF Values, FieldFitsC
  <2>4. b \in BOOLEAN
    OBVIOUS
  <2> HIDE DEF v, r, b
  <2>5. CASE v.ok
    <3>1. r = Got(b, v.rest) /\ v.rest \in Seq(Byte)
      BY <2>1, <2>2, <2>5
    <3>2. Reads(r, BOOLEAN) /\ r.value = b
      BY <2>4, <3>1, GotReads
    <3> QED
      BY <2>3, <2>4, <3>2 DEF r
  <2>6. CASE ~v.ok
    <3>1. r = Failed
      BY <2>1, <2>6
    <3> QED
      BY <3>1, FailedReads DEF r
  <2> QED
    BY <2>5, <2>6, <2>2
<1>3. CASE f.ltype = "enum"
  <2> DEFINE v == pb_decode_varint(in)
             r == decode_basic_field(in, f)
  <2>1. r = IF v.ok /\ v.value < Max32 THEN v ELSE Failed
    BY <1>3 DEF decode_basic_field, pb_dec_uvarint
  <2>2. v.ok \in BOOLEAN /\ (v.ok => v.rest \in Seq(Byte) /\ v.value \in 0 .. Max64 - 1)
    BY VarintReads DEF Reads
  <2>3. Values(f) = 0 .. Max32 - 1 /\ \A n \in 0 .. Max32 - 1 : FieldFitsC(f, n)
    BY <1>3 DEF Values, FieldFitsC
  <2> HIDE DEF v, r
  <2>4. CASE v.ok /\ v.value < Max32
    <3>1. r = v /\ v.value \in 0 .. Max32 - 1
      BY <1>1, <2>1, <2>2, <2>4
    <3>3. FieldFitsC(f, v.value)
      BY <1>1, <2>3, <3>1
    <3>4. Reads(v, 0 .. Max32 - 1)
      BY <2>2, <2>4, <3>1 DEF Reads
    <3>2. Reads(r, 0 .. Max32 - 1) /\ FieldFitsC(f, r.value)
      BY <3>1, <3>3, <3>4
    <3> QED
      BY <2>3, <3>2 DEF r
  <2>5. CASE ~(v.ok /\ v.value < Max32)
    <3>1. r = Failed
      BY <2>1, <2>5
    <3> QED
      BY <3>1, FailedReads DEF r
  <2> QED
    BY <2>4, <2>5
<1>4. CASE f.ltype = "int32"
  <2> DEFINE v == pb_decode_varint(in)
             r == decode_basic_field(in, f)
  <2>1. r = IF v.ok THEN Got(Signed32(v.value % Max32), v.rest) ELSE Failed
    BY <1>4 DEF decode_basic_field, pb_dec_varint
  <2>2. v.ok \in BOOLEAN /\ (v.ok => v.rest \in Seq(Byte) /\ v.value \in Nat)
    BY VarintReads DEF Reads
  <2> DEFINE Signed == -Pow2[Bits32 - 1] .. Pow2[Bits32 - 1] - 1
  <2>3. Values(f) = Signed /\ \A n \in Signed : FieldFitsC(f, n)
    BY <1>4 DEF Values, FieldFitsC
  <2> HIDE DEF v, r
  <2>4. CASE v.ok
    <3>1. v.value % Max32 \in 0 .. Max32 - 1
      BY <1>1, <2>2, <2>4, DivMod
    <3>2. Signed32(v.value % Max32) \in Signed
      BY <1>1, <3>1 DEF Signed32
    <3>3. r = Got(Signed32(v.value % Max32), v.rest)
      BY <1>1, <2>1, <2>4, <3>2
    <3> HIDE DEF Signed
    <3>4. Reads(r, Signed) /\ r.value = Signed32(v.value % Max32)
      BY <2>2, <2>4, <3>2, <3>3, GotReads
    <3> QED
      BY <2>3, <3>2, <3>4 DEF r
  <2>5. CASE ~v.ok
    <3>1. r = Failed
      BY <2>1, <2>5
    <3> QED
      BY <3>1, FailedReads DEF r
  <2> QED
    BY <2>2, <2>4, <2>5
<1>5. CASE f.ltype = "string"
  <2> DEFINE size == pb_decode_varint32(in)
             bytes == pb_read(size.rest, size.value)
             r == decode_basic_field(in, f)
             bad == ~size.ok \/ size.value = Max32 - 1 \/ size.value + 1 > f.size \/ ~bytes.ok
  <2>1. r = IF bad THEN Failed ELSE Got(AsCString(bytes.value), bytes.rest)
    BY <1>5 DEF decode_basic_field, pb_dec_string
  <2>2. Values(f) = Seq(Byte \ {0}) /\ \A s \in Seq(Byte) :
           Len(s) < f.size /\ (\A i \in 1 .. Len(s) : s[i] # 0) => FieldFitsC(f, s)
    BY <1>5 DEF Values, FieldFitsC
  <2>3. CASE bad
    <3>1. r = Failed
      BY <2>1, <2>3
    <3> QED
      BY <3>1, FailedReads DEF r
  <2>4. CASE ~bad
    <3>1. size.rest \in Seq(Byte) /\ size.value \in Nat
      BY <2>4, VarintReads DEF Reads
    <3> HIDE DEF size
    <3>2. /\ bytes.value \in Seq(Byte) /\ bytes.rest \in Seq(Byte)
          /\ Len(bytes.value) = size.value
      BY <2>4, <3>1, BytesRead DEF Reads
    <3>3. size.value + 1 <= f.size
      BY <1>5, <2>4, <3>1
    <3>4. r = Got(AsCString(bytes.value), bytes.rest)
      BY <2>1, <2>4
    <3> HIDE DEF bytes, r, bad
    <3>5. /\ AsCString(bytes.value) \in Seq(Byte) /\ Len(AsCString(bytes.value)) <= size.value
          /\ \A i \in 1 .. Len(AsCString(bytes.value)) : AsCString(bytes.value)[i] # 0
      BY <3>2, StringsEnd
    <3>6. Len(AsCString(bytes.value)) < f.size
      BY <1>5, <3>1, <3>3, <3>5
    <3>7. FieldFitsC(f, AsCString(bytes.value))
      BY <2>2, <3>5, <3>6
    <3>9. AsCString(bytes.value) \in Seq(Byte \ {0})
      BY <3>5, WithoutZeros
    <3>8. Reads(r, Seq(Byte \ {0})) /\ r.value = AsCString(bytes.value)
      BY <3>2, <3>4, <3>9, GotReads
    <3> QED
      BY <2>2, <3>7, <3>8 DEF r
  <2> QED
    BY <2>3, <2>4
<1> QED
  BY <1>2, <1>3, <1>4, <1>5

-----------------------------------------------------------------------------
(* Structures                                                              *)

Structures ==
    {m \in [data : [Leaves -> UNION {Values(FieldAt(a)) : a \in Leaves}],
            has : SUBSET Optionals, which : [Places -> Nat]] :
        \A a \in Leaves : m.data[a] \in Values(FieldAt(a))}

\* A structure by its three parts, and the other way round.
LEMMA StructureIs ==
  ASSUME NEW data, NEW has \in SUBSET Optionals, NEW which,
         data = [a \in Leaves |-> data[a]], \A a \in Leaves : data[a] \in Values(FieldAt(a)),
         which = [p \in Places |-> which[p]], \A p \in Places : which[p] \in Nat
  PROVE  [data |-> data, has |-> has, which |-> which] \in Structures
<1>1. data \in [Leaves -> UNION {Values(FieldAt(a)) : a \in Leaves}]
  OBVIOUS
<1>2. which \in [Places -> Nat]
  OBVIOUS
<1> QED
  BY <1>1, <1>2 DEF Structures

\* What a structure consists of.
LEMMA StructureFacts ==
  ASSUME NEW m \in Structures
  PROVE  /\ m = [data |-> m.data, has |-> m.has, which |-> m.which]
         /\ m.data = [a \in Leaves |-> m.data[a]]
         /\ \A a \in Leaves : m.data[a] \in Values(FieldAt(a))
         /\ m.has \in SUBSET Optionals
         /\ m.which \in [Places -> Nat]
  BY DEF Structures

\* An optional submessage, by its address.
LEMMA OptionalField ==
  ASSUME NEW p \in Places, NEW f \in FieldsAt(p)
  PROVE  Append(p, f.tag) \in Optionals <=> f.htype = "optional"
<1>1. /\ p \in Address /\ f.tag \in Nat
      /\ \A h \in FieldsAt(p) : h.tag = f.tag => h = f
  BY FieldFacts
<1>2. ASSUME Append(p, f.tag) \in Optionals PROVE f.htype = "optional"
  <2>1. PICK q \in Places : \E g \in FieldsAt(q) : g.htype = "optional" /\ Append(p, f.tag) = Append(q, g.tag)
    BY <1>2 DEF Optionals
  <2>2. PICK g \in FieldsAt(q) : g.htype = "optional" /\ Append(p, f.tag) = Append(q, g.tag)
    BY <2>1
  <2>3. q \in Address /\ g.tag \in Nat
    BY FieldFacts
  <2>4. p = q /\ f.tag = g.tag
    BY <1>1, <2>2, <2>3, UnderField
  <2> QED
    BY <1>1, <2>2, <2>4
<1>3. f.htype = "optional" => Append(p, f.tag) \in Optionals
  BY DEF Optionals
<1> QED
  BY <1>2, <1>3

\* Optional fields are submessages.
LEMMA OptionalsArePlaces == Optionals \subseteq Places
<1> SUFFICES ASSUME NEW a \in Optionals PROVE a \in Places
  OBVIOUS
<1>1. PICK p \in Places : \E f \in FieldsAt(p) : f.htype = "optional" /\ a = Append(p, f.tag)
  BY DEF Optionals
<1>2. PICK f \in FieldsAt(p) : f.htype = "optional" /\ a = Append(p, f.tag)
  BY <1>1
<1> QED
  BY <1>2, FieldFacts

\* An address around a field is the field itself or around its message.
LEMMA AroundField ==
  ASSUME NEW p \in Places, NEW f \in FieldsAt(p), NEW q \in Places, NEW g \in FieldsAt(q),
         Under(Append(p, f.tag), Append(q, g.tag))
  PROVE  (q = p /\ g = f) \/ Under(p, Append(q, g.tag))
<1>1. /\ p \in Address /\ q \in Address /\ f.tag \in Nat /\ g.tag \in Nat
      /\ \A h \in FieldsAt(p) : h.tag = f.tag => h = f
  BY FieldFacts
<1>2. Append(q, g.tag) \in Address
  BY <1>1, FieldAddress
<1> DEFINE b == Append(q, g.tag)
<1>3. b = Append(p, f.tag) \/ Under(p, b)
  <2> HIDE DEF b
  <2>1. b \in Address /\ Under(Append(p, f.tag), b)
    BY <1>2 DEF b
  <2> QED
    BY <1>1, <2>1, UnderField
<1>4. b = Append(p, f.tag) => q = p /\ g.tag = f.tag
  BY <1>1, UnderField
<1> QED
  BY <1>1, <1>3, <1>4

\* The empty structure.
LEMMA ZeroFits == Zero \in Structures /\ FitsC(Zero)
<1>1. ASSUME NEW a \in Leaves
      PROVE  Default(FieldAt(a)) \in Values(FieldAt(a)) /\ FieldFitsC(FieldAt(a), Default(FieldAt(a)))
  <2>1. PICK p \in Places : \E f \in FieldsAt(p) : f.ltype # "submessage" /\ FieldAt(a) = f
    BY LeafFacts
  <2>2. PICK f \in FieldsAt(p) : f.ltype # "submessage" /\ FieldAt(a) = f
    BY <2>1
  <2>3. /\ f.ltype \in {"bool", "int32", "enum", "string", "callback"}
        /\ f.ltype = "string" => f.size \in Nat \ {0}
    BY <2>2, FieldFacts
  <2>4. << >> \in Seq(Byte \ {0}) /\ << >> \in Seq(Seq(Byte)) /\ Len(<< >>) = 0
    OBVIOUS
  <2>5. Pow2[Bits32 - 1] \in Nat \ {0} /\ Max32 \in Nat \ {0}
    BY Rooms DEF Sign32
  <2>6. CASE f.ltype = "string"
    <3>1. Default(f) = << >> /\ Values(f) = Seq(Byte \ {0})
      BY <2>6 DEF Default, Values
    <3>2. FieldFitsC(f, << >>)
      BY <2>3, <2>4, <2>6 DEF FieldFitsC
    <3> QED
      BY <2>2, <2>4, <3>1, <3>2
  <2>7. CASE f.ltype = "callback"
    <3>1. Default(f) = << >> /\ Values(f) = Seq(Seq(Byte)) /\ FieldFitsC(f, << >>)
      BY <2>7 DEF Default, Values, FieldFitsC
    <3> QED
      BY <2>2, <2>4, <3>1
  <2>8. CASE f.ltype = "bool"
    BY <2>2, <2>8 DEF Default, Values, FieldFitsC
  <2>9. CASE f.ltype = "int32"
    <3>1. Default(f) = 0 /\ 0 \in Values(f)
      BY <2>5, <2>9 DEF Default, Values
    <3>2. FieldFitsC(f, 0)
      BY <2>5, <2>9 DEF FieldFitsC
    <3> QED
      BY <2>2, <3>1, <3>2
  <2>10. CASE f.ltype = "enum"
    <3>1. Default(f) = 0 /\ 0 \in Values(f)
      BY <2>5, <2>10 DEF Default, Values
    <3>2. FieldFitsC(f, 0)
      BY <2>5, <2>10 DEF FieldFitsC
    <3> QED
      BY <2>2, <3>1, <3>2
  <2> QED
    BY <2>3, <2>6, <2>7, <2>8, <2>9, <2>10
<1> DEFINE data == [a \in Leaves |-> Default(FieldAt(a))]
           which == [p \in Places |-> 0]
<1>2. Zero = [data |-> data, has |-> {}, which |-> which]
  BY DEF Zero
<1>3. Zero \in Structures
  <2>1. /\ data = [a \in Leaves |-> data[a]] /\ \A a \in Leaves : data[a] \in Values(FieldAt(a))
        /\ which = [p \in Places |-> which[p]] /\ \A p \in Places : which[p] \in Nat
    BY <1>1
  <2> HIDE DEF data, which
  <2> QED
    BY <1>2, <2>1, StructureIs
<1>4. FitsC(Zero)
  <2>1. \A a \in Leaves : FieldFitsC(FieldAt(a), Zero.data[a])
    BY <1>1, <1>2
  <2>2. \A a : Empty(Zero, a)
    BY <1>2 DEF Empty, IsDefault
  <2>3. \A p \in Places : Zero.which[p] = 0
    BY <1>2
  <2> QED
    BY <2>1, <2>2, <2>3 DEF FitsC, Consistent
<1> QED
  BY <1>3, <1>4

\* To set a field of a structure that has it leaves what the program can hold.
LEMMA SetFits ==
  ASSUME NEW m \in Structures, FitsC(m), NEW p \in Places, NEW f \in FieldsAt(p),
         f.ltype # "submessage", Present(m, Append(p, f.tag)),
         NEW v \in Values(f), FieldFitsC(f, v)
  PROVE  LET n == [m EXCEPT !.data[Append(p, f.tag)] = v]
         IN  n \in Structures /\ FitsC(n) /\ Present(n, Append(p, f.tag))
<1> DEFINE a == Append(p, f.tag)
           data == [m.data EXCEPT ![a] = v]
           n == [m EXCEPT !.data[a] = v]
<1>1. a \in Leaves /\ FieldAt(a) = f
  BY FieldFacts
<1>2. /\ m = [data |-> m.data, has |-> m.has, which |-> m.which]
      /\ m.data = [b \in Leaves |-> m.data[b]]
      /\ \A b \in Leaves : m.data[b] \in Values(FieldAt(b))
      /\ m.has \in SUBSET Optionals /\ m.which \in [Places -> Nat]
  BY StructureFacts
<1> HIDE DEF a
<1>3. n = [data |-> data, has |-> m.has, which |-> m.which]
  BY <1>2
<1>4. data = [b \in Leaves |-> IF b = a THEN v ELSE m.data[b]]
  BY <1>2
<1>5. n \in Structures
  <2>1. /\ data = [b \in Leaves |-> data[b]] /\ \A b \in Leaves : data[b] \in Values(FieldAt(b))
        /\ m.which = [q \in Places |-> m.which[q]] /\ \A q \in Places : m.which[q] \in Nat
    BY <1>1, <1>2, <1>4
  <2> HIDE DEF data, n
  <2> QED
    BY <1>2, <1>3, <2>1, StructureIs
<1>6. /\ n.has = m.has /\ n.which = m.which
      /\ \A b \in Leaves : n.data[b] = IF b = a THEN v ELSE m.data[b]
  BY <1>3, <1>4
<1> HIDE DEF n, data
<1>7. \A q, g : Lacks(n, q, g) <=> Lacks(m, q, g)
  BY <1>6 DEF Lacks
<1>8. Present(n, a)
  BY <1>7 DEF Present, a
<1>9. FitsC(n)
  <2>1. \A b \in Leaves : FieldFitsC(FieldAt(b), n.data[b])
    BY <1>1, <1>6 DEF FitsC, Consistent
  <2>2. \A q \in Places : n.which[q] \in {0} \cup OneofTags(q)
    BY <1>6 DEF FitsC, Consistent
  <2>3. ASSUME NEW q \in Places, NEW g \in FieldsAt(q), Lacks(n, q, g)
        PROVE  Empty(n, Append(q, g.tag))
    <3>1. Empty(m, Append(q, g.tag))
      BY <1>7, <2>3 DEF FitsC, Consistent
    <3>2. ~Under(a, Append(q, g.tag))
      BY <1>8, <2>3 DEF Present
    <3> QED
      BY <1>6, <3>1, <3>2 DEF Empty, IsDefault
  <2> QED
    BY <2>1, <2>2, <2>3 DEF FitsC, Consistent
<1> QED
  BY <1>5, <1>8, <1>9 DEF n, a

\* To make room for a member of a oneof: what the program can hold, with the
\* member in it.
LEMMA ClearedFits ==
  ASSUME NEW m \in Structures, FitsC(m), NEW p \in Places, Present(m, p),
         NEW f \in FieldsAt(p), f.htype = "oneof"
  PROVE  LET S == {Append(p, t) : t \in OneofTags(p)}
             n == [Cleared(m, S) EXCEPT !.which[p] = f.tag]
         IN  n \in Structures /\ FitsC(n) /\ Present(n, Append(p, f.tag))
<1> DEFINE S == {Append(p, t) : t \in OneofTags(p)}
           Gone(b) == \E c \in S : Under(b, c)
           data == [b \in Leaves |-> IF Gone(b) THEN Zero.data[b] ELSE m.data[b]]
           has == {b \in m.has : ~Gone(b)}
           left == [q \in Places |-> IF Gone(q) THEN 0 ELSE m.which[q]]
           which == [left EXCEPT ![p] = f.tag]
           n == [Cleared(m, S) EXCEPT !.which[p] = f.tag]
<1>1. Cleared(m, S) = [data |-> data, has |-> has, which |-> left]
  <2> HIDE DEF S
  <2> QED
    BY ONLY Zenon DEF Cleared, data, has, left, Gone
<1>2. n = [data |-> data, has |-> has, which |-> which]
  <2> HIDE DEF S, data, has, left
  <2> QED
    BY ONLY <1>1
<1>3. /\ m.data = [b \in Leaves |-> m.data[b]]
      /\ \A b \in Leaves : m.data[b] \in Values(FieldAt(b)) /\ Zero.data[b] \in Values(FieldAt(b))
      /\ m.has \in SUBSET Optionals /\ m.which \in [Places -> Nat]
  BY StructureFacts, ZeroFits
<1>4. p \in Address /\ f.tag \in Nat \ {0} /\ \A g \in FieldsAt(p) : g.tag \in Nat
  BY FieldFacts
<1>5. \A c \in S : \E g \in FieldsAt(p) : g.htype = "oneof" /\ c = Append(p, g.tag)
  BY DEF OneofTags
<1>6. \A g \in FieldsAt(p) : g.htype = "oneof" => Append(p, g.tag) \in S /\ g.tag \in OneofTags(p)
  BY DEF OneofTags
<1>7. S \in SUBSET Address
  <2>1. \A g \in FieldsAt(p) : Append(p, g.tag) \in Address
    BY <1>4, FieldAddress
  <2> HIDE DEF S
  <2> QED
    BY <1>5, <2>1
<1> HIDE DEF S
<1>8. /\ \A b \in Leaves : data[b] = IF Gone(b) THEN Zero.data[b] ELSE m.data[b]
      /\ \A q \in Places : which[q] = IF q = p THEN f.tag
                                      ELSE IF Gone(q) THEN 0 ELSE m.which[q]
      /\ \A q : q \in has <=> q \in m.has /\ ~Gone(q)
      /\ which = [q \in Places |-> which[q]] /\ has \in SUBSET Optionals
  <2> HIDE DEF Gone
  <2> QED
    BY <1>3
<1>9. n \in Structures
  <2>1. /\ data = [b \in Leaves |-> data[b]] /\ \A b \in Leaves : data[b] \in Values(FieldAt(b))
        /\ \A q \in Places : which[q] \in Nat
    <3> HIDE DEF Gone
    <3> QED
      BY <1>3, <1>4, <1>8
  <2> HIDE DEF data, has, which, n
  <2> QED
    BY <1>2, <1>8, <2>1, StructureIs
<1>10. n.data = data /\ n.has = has /\ n.which = which
  BY <1>2
<1> HIDE DEF n, data, has, which, left
\* What is under something that is gone is gone; p is not.
<1>11. ASSUME NEW b \in Address, NEW c \in Address, Gone(b), Under(c, b) PROVE Gone(c)
  BY <1>7, <1>11, UnderOrder
<1>12. ~Gone(p)
  <2> SUFFICES ASSUME NEW c \in S, Under(p, c) PROVE FALSE
    OBVIOUS
  <2>1. PICK g \in FieldsAt(p) : c = Append(p, g.tag)
    BY <1>5
  <2>2. ~Under(p, Append(p, g.tag))
    BY <1>4, UnderField
  <2> QED
    BY <2>1, <2>2
\* A field is gone with its message, or is a member of the oneof.
<1>13. ASSUME NEW q \in Places, NEW g \in FieldsAt(q), Gone(Append(q, g.tag)), ~Gone(q)
       PROVE  q = p /\ g.htype = "oneof"
  <2>1. PICK c \in S : Under(Append(q, g.tag), c)
    BY <1>13
  <2>2. PICK h \in FieldsAt(p) : h.htype = "oneof" /\ c = Append(p, h.tag)
    BY <1>5
  <2>3. (p = q /\ h = g) \/ Under(q, c)
    BY <2>1, <2>2, AroundField
  <2> QED
    BY <1>13, <2>2, <2>3
<1>14. Present(n, Append(p, f.tag))
  <2> SUFFICES ASSUME NEW q \in Places, NEW g \in FieldsAt(q),
                      Under(Append(p, f.tag), Append(q, g.tag)), Lacks(n, q, g)
               PROVE  FALSE
    BY DEF Present
  <2>0. q \in Address /\ g.tag \in Nat
    BY FieldFacts
  <2>1. CASE q = p /\ g = f
    BY <1>8, <1>10, <2>1 DEF Lacks
  <2>2. CASE Under(p, Append(q, g.tag))
    <3>1. ~Lacks(m, q, g)
      BY <2>2 DEF Present
    <3>2. Append(q, g.tag) \in Address /\ Under(Append(q, g.tag), q)
      BY <2>0, FieldAddress, UnderField, UnderOrder, SMTT(30)
    <3>3. q # p /\ ~Gone(q) /\ ~Gone(Append(q, g.tag))
      <4>1. Under(p, q)
        BY <1>4, <2>0, <2>2, <3>2, UnderOrder
      <4>2. q # p
        BY <1>4, <2>0, <2>2, UnderField
      <4> QED
        BY <1>4, <1>11, <1>12, <2>0, <2>2, <3>2, <4>1, <4>2
    <3>4. g.htype = "optional" => Append(q, g.tag) \in m.has
      BY <3>1 DEF Lacks
    <3>5. g.htype = "optional" => Append(q, g.tag) \in n.has
      BY <1>3, <1>8, <1>10, <3>3, <3>4
    <3>6. n.which[q] = m.which[q]
      BY <1>8, <1>10, <3>3
    <3> QED
      BY <3>1, <3>5, <3>6 DEF Lacks
  <2> QED
    BY <2>1, <2>2, AroundField
<1>15. FitsC(n)
  <2>1. \A b \in Leaves : FieldFitsC(FieldAt(b), n.data[b])
    BY <1>8, <1>10, ZeroFits DEF FitsC, Consistent
  <2>2. \A q \in Places : n.which[q] \in {0} \cup OneofTags(q)
    BY <1>6, <1>8, <1>10 DEF FitsC, Consistent
  <2>3. ASSUME NEW q \in Places, NEW g \in FieldsAt(q), Lacks(n, q, g)
        PROVE  Empty(n, Append(q, g.tag))
    <3>0. q \in Address /\ g.tag \in Nat /\ Append(q, g.tag) \in Address
      BY FieldFacts, FieldAddress
    <3>00. \A r \in Places : r \in Address
      BY FieldsAssumption DEF Address
    <3>1. ~Under(p, Append(q, g.tag))
      <4> SUFFICES ASSUME Under(p, Append(q, g.tag)) PROVE FALSE
        OBVIOUS
      <4>1. Under(Append(p, f.tag), Append(q, g.tag))
        BY <1>4, <3>0, UnderField
      <4> QED
        BY <1>14, <2>3, <4>1 DEF Present
    <3>2. CASE Gone(Append(q, g.tag))
      <4>1. \A b \in Leaves : Under(b, Append(q, g.tag)) => n.data[b] = Zero.data[b]
        BY <1>8, <1>10, <1>11, <3>0, <3>2, LeafFacts
      <4>2. \A r \in Places : Under(r, Append(q, g.tag)) => r \notin n.has /\ n.which[r] = 0
        <5> TAKE r \in Places
        <5> HAVE Under(r, Append(q, g.tag))
        <5>1. Gone(r)
          BY <1>11, <3>0, <3>00, <3>2
        <5> QED
          BY <1>8, <1>10, <3>1, <5>1
      <4> QED
        BY <4>1, <4>2 DEF Empty, IsDefault
    <3>3. CASE ~Gone(Append(q, g.tag))
      <4>1. ~Gone(q)
        BY <1>11, <3>0, <3>3, UnderField, UnderOrder
      <4>2. Lacks(m, q, g)
        <5>1. CASE g.htype = "oneof"
          <6>1. q # p
            BY <1>6, <3>3, <5>1, <3>0, UnderOrder
          <6>2. n.which[q] = m.which[q]
            BY <1>8, <1>10, <4>1, <6>1
          <6> QED
            BY <2>3, <5>1, <6>2 DEF Lacks
        <5>2. CASE g.htype = "optional"
          <6>1. Append(q, g.tag) \notin n.has
            BY <2>3, <5>2 DEF Lacks
          <6>2. Append(q, g.tag) \notin m.has
            BY <1>3, <1>8, <1>10, <3>3, <6>1
          <6> QED
            BY <5>2, <6>2 DEF Lacks
        <5> QED
          BY <2>3, <5>1, <5>2 DEF Lacks
      <4>3. Empty(m, Append(q, g.tag))
        BY <4>2 DEF FitsC, Consistent
      <4>4. \A r \in Places : Under(r, Append(q, g.tag)) => r # p
        BY <3>1
      <4> QED
        BY <1>8, <1>10, <4>3, <4>4 DEF Empty, IsDefault
    <3> QED
      BY <3>2, <3>3
  <2> QED
    BY <2>1, <2>2, <2>3 DEF FitsC, Consistent
<1> QED
  BY <1>9, <1>14, <1>15 DEF n, S

\* To make room for a field.
LEMMA PreparedFits ==
  ASSUME NEW m \in Structures, FitsC(m), NEW p \in Places, Present(m, p), NEW f \in FieldsAt(p)
  PROVE  /\ Prepared(m, p, f) \in Structures /\ FitsC(Prepared(m, p, f))
         /\ Present(Prepared(m, p, f), Append(p, f.tag))
<1> DEFINE a == Append(p, f.tag)
<1>0. \A q \in Places : \A g \in FieldsAt(q) :
        Under(a, Append(q, g.tag)) => (q = p /\ g = f) \/ Under(p, Append(q, g.tag))
  BY AroundField
<1>1. CASE f.htype = "oneof" /\ m.which[p] # f.tag
  <2>1. Prepared(m, p, f) =
          [Cleared(m, {Append(p, t) : t \in OneofTags(p)}) EXCEPT !.which[p] = f.tag]
    BY <1>1 DEF Prepared
  <2> QED
    BY <1>1, <2>1, ClearedFits
<1>2. CASE f.htype = "optional"
  <2> DEFINE n == [m EXCEPT !.has = @ \cup {a}]
  <2>1. Prepared(m, p, f) = n
    BY <1>2 DEF Prepared
  <2>2. a \in Optionals
    BY <1>2, OptionalField
  <2>3. /\ m = [data |-> m.data, has |-> m.has, which |-> m.which]
        /\ m.data = [b \in Leaves |-> m.data[b]]
        /\ \A b \in Leaves : m.data[b] \in Values(FieldAt(b))
        /\ m.has \in SUBSET Optionals /\ m.which \in [Places -> Nat]
    BY StructureFacts
  <2> HIDE DEF a
  <2>4. n = [data |-> m.data, has |-> m.has \cup {a}, which |-> m.which]
    <3>1. m = [data |-> m.data, has |-> m.has, which |-> m.which]
      BY <2>3
    <3> QED
      BY ONLY <3>1
  <2>5. n \in Structures
    <3>1. m.has \cup {a} \in SUBSET Optionals /\ m.which = [q \in Places |-> m.which[q]]
      BY <2>2, <2>3
    <3> HIDE DEF n
    <3> QED
      BY <2>3, <2>4, <3>1, StructureIs
  <2>6. n.data = m.data /\ n.has = m.has \cup {a} /\ n.which = m.which
    BY <2>4
  <2> HIDE DEF n
  <2>7. \A q, g : Lacks(n, q, g) => Lacks(m, q, g) /\ (g.htype = "optional" => Append(q, g.tag) # a)
    BY <2>6 DEF Lacks
  <2>8. Present(n, a)
    <3> SUFFICES ASSUME NEW q \in Places, NEW g \in FieldsAt(q),
                        Under(a, Append(q, g.tag)), Lacks(n, q, g)
                 PROVE  FALSE
      BY DEF Present
    <3>1. CASE q = p /\ g = f
      BY <1>2, <2>7, <3>1 DEF a
    <3>2. CASE Under(p, Append(q, g.tag))
      BY <2>7, <3>2 DEF Present
    <3> QED
      BY <1>0, <3>1, <3>2
  <2>9. FitsC(n)
    <3>1. \A b \in Leaves : FieldFitsC(FieldAt(b), n.data[b])
      BY <2>6 DEF FitsC, Consistent
    <3>2. \A q \in Places : n.which[q] \in {0} \cup OneofTags(q)
      BY <2>6 DEF FitsC, Consistent
    <3>3. ASSUME NEW q \in Places, NEW g \in FieldsAt(q), Lacks(n, q, g)
          PROVE  Empty(n, Append(q, g.tag))
      <4>1. Empty(m, Append(q, g.tag))
        BY <2>7, <3>3 DEF FitsC, Consistent
      <4>2. ~Under(a, Append(q, g.tag))
        BY <2>8, <3>3 DEF Present
      <4> QED
        BY <2>6, <4>1, <4>2 DEF Empty, IsDefault
    <3> QED
      BY <3>1, <3>2, <3>3 DEF FitsC, Consistent
  <2> QED
    BY <2>1, <2>5, <2>8, <2>9 DEF a
<1>3. CASE ~(f.htype = "oneof" /\ m.which[p] # f.tag) /\ f.htype # "optional"
  <2>1. Prepared(m, p, f) = m
    BY <1>3 DEF Prepared
  <2>2. ~Lacks(m, p, f)
    BY <1>3 DEF Lacks
  <2>3. Present(m, a)
    BY <1>0, <2>2 DEF Present
  <2> QED
    BY <2>1, <2>3
<1> QED
  BY <1>1, <1>2, <1>3

-----------------------------------------------------------------------------
(* Decoding                                                                *)

\* A decoder between two steps: the messages it is in are inside one another,
\* and the structure has them all.
Opened == [place : Places, in : Seq(Byte)]
Decoders ==
    {d \in [ok : BOOLEAN, open : Seq(Opened), m : Structures] :
        /\ FitsC(d.m)
        /\ d.open # << >> => Present(d.m, d.open[Len(d.open)].place)
        /\ \A i, j \in 1 .. Len(d.open) : i <= j => Under(d.open[j].place, d.open[i].place)}

\* A decoder by its three parts, and the other way round.
LEMMA DecoderIs ==
  ASSUME NEW ok \in BOOLEAN, NEW open \in Seq(Opened), NEW m \in Structures, FitsC(m),
         open # << >> => Present(m, open[Len(open)].place),
         \A i, j \in 1 .. Len(open) : i <= j => Under(open[j].place, open[i].place)
  PROVE  [ok |-> ok, open |-> open, m |-> m] \in Decoders
  BY DEF Decoders

\* What a decoder consists of.
LEMMA DecoderFacts ==
  ASSUME NEW d \in Decoders
  PROVE  /\ d = [ok |-> d.ok, open |-> d.open, m |-> d.m]
         /\ d.ok \in BOOLEAN /\ d.open \in Seq(Opened) /\ d.m \in Structures /\ FitsC(d.m)
         /\ d.open # << >> => Present(d.m, d.open[Len(d.open)].place)
         /\ \A i, j \in 1 .. Len(d.open) : i <= j => Under(d.open[j].place, d.open[i].place)
  BY DEF Decoders

\* A decoder with some of its fields changed.
LEMMA DecoderWith ==
  ASSUME NEW d \in Decoders
  PROVE  /\ Error(d) = [ok |-> FALSE, open |-> d.open, m |-> d.m]
         /\ [d EXCEPT !.open = SubSeq(@, 1, Len(@) - 1)]
               = [ok |-> d.ok, open |-> SubSeq(d.open, 1, Len(d.open) - 1), m |-> d.m]
         /\ \A message : Enter(d, message) = [ok |-> d.ok, open |-> Append(d.open, message), m |-> d.m]
<1>1. d \in [ok : BOOLEAN, open : Seq(Opened), m : Structures]
  BY DEF Decoders
<1>2. /\ \A x : [d EXCEPT !.ok = x] = [ok |-> x, open |-> d.open, m |-> d.m]
      /\ \A x : [d EXCEPT !.open = x] = [ok |-> d.ok, open |-> x, m |-> d.m]
  BY ONLY <1>1
<1>3. Error(d) = [ok |-> FALSE, open |-> d.open, m |-> d.m]
  BY <1>2, Zenon DEF Error
<1>4. [d EXCEPT !.open = SubSeq(@, 1, Len(@) - 1)]
               = [ok |-> d.ok, open |-> SubSeq(d.open, 1, Len(d.open) - 1), m |-> d.m]
  BY <1>2, Zenon
<1>5. ASSUME NEW message
      PROVE  Enter(d, message) = [ok |-> d.ok, open |-> Append(d.open, message), m |-> d.m]
  BY <1>2, Zenon DEF Enter
<1> QED
  BY <1>3, <1>4, <1>5

\* A structure that has something has everything around it.
LEMMA PresentAround ==
  ASSUME NEW m, NEW a \in Address, NEW b \in Address, Under(a, b), Present(m, a)
  PROVE  Present(m, b)
<1> SUFFICES ASSUME NEW p \in Places, NEW f \in FieldsAt(p), Under(b, Append(p, f.tag))
             PROVE  ~Lacks(m, p, f)
  BY DEF Present
<1>1. Append(p, f.tag) \in Address
  BY FieldFacts, FieldAddress
<1>2. Under(a, Append(p, f.tag))
  BY <1>1, UnderOrder
<1> QED
  BY <1>2 DEF Present

\* A place is an address.
LEMMA PlaceIsAddress == Places \subseteq Address
  BY FieldsAssumption DEF Address

\* On in the innermost message.
LEMMA ContinueDecodes ==
  ASSUME NEW d \in Decoders, d.open # << >>, NEW rest \in Seq(Byte), NEW m \in Structures, FitsC(m),
         Present(m, d.open[Len(d.open)].place)
  PROVE  LET e == Continue(d, rest, m)
         IN  /\ e \in Decoders /\ e.m = m /\ Len(e.open) = Len(d.open) /\ e.open # << >>
             /\ e.open[Len(e.open)].place = d.open[Len(d.open)].place
<1> DEFINE n == Len(d.open)
           open == [d.open EXCEPT ![n] = [@ EXCEPT !.in = rest]]
           e == Continue(d, rest, m)
<1>1. /\ d = [ok |-> d.ok, open |-> d.open, m |-> d.m]
      /\ d.ok \in BOOLEAN /\ d.open \in Seq(Opened)
      /\ \A i, j \in 1 .. Len(d.open) : i <= j => Under(d.open[j].place, d.open[i].place)
  BY DecoderFacts
<1>2. n \in Nat \ {0} /\ \A i \in 1 .. n : d.open[i] \in Opened
  BY <1>1
<1>3. e = [ok |-> d.ok, open |-> open, m |-> m]
  BY Zenon DEF Continue
<1>4. /\ open \in Seq(Opened) /\ Len(open) = n
      /\ \A i \in 1 .. n : open[i].place = d.open[i].place
  <2>1. [d.open[n] EXCEPT !.in = rest] \in Opened /\ [d.open[n] EXCEPT !.in = rest].place = d.open[n].place
    BY <1>2 DEF Opened
  <2> DEFINE x == [d.open[n] EXCEPT !.in = rest]
  <2> HIDE DEF x
  <2>2. open = [d.open EXCEPT ![n] = x]
    BY DEF x
  <2> HIDE DEF open
  <2>3. open \in Seq(Opened) /\ Len(open) = n /\ \A i \in 1 .. n : open[i] = IF i = n THEN x ELSE d.open[i]
    BY <1>1, <1>2, <2>1, <2>2 DEF x
  <2> QED
    BY <2>1, <2>3 DEF x
<1> HIDE DEF open, n
<1>5. [ok |-> d.ok, open |-> open, m |-> m] \in Decoders
  <2>1. open # << >> => Present(m, open[Len(open)].place)
    BY <1>2, <1>4 DEF n
  <2>2. \A i, j \in 1 .. Len(open) : i <= j => Under(open[j].place, open[i].place)
    BY <1>1, <1>4 DEF n
  <2> QED
    BY <1>1, <1>4, <2>1, <2>2, DecoderIs
<1>6. open # << >> /\ open[Len(open)].place = d.open[Len(d.open)].place
  BY <1>2, <1>4 DEF n
<1> QED
  BY <1>3, <1>4, <1>5, <1>6 DEF n

\* Into another message.
LEMMA EnterDecodes ==
  ASSUME NEW d \in Decoders, d.open # << >>, NEW a \in Places, NEW in \in Seq(Byte),
         Under(a, d.open[Len(d.open)].place), Present(d.m, a)
  PROVE  Enter(d, Message(a, in)) \in Decoders
<1> DEFINE n == Len(d.open)
           open == Append(d.open, Message(a, in))
<1>1. /\ d = [ok |-> d.ok, open |-> d.open, m |-> d.m]
      /\ d.ok \in BOOLEAN /\ d.open \in Seq(Opened) /\ d.m \in Structures /\ FitsC(d.m)
      /\ \A i, j \in 1 .. Len(d.open) : i <= j => Under(d.open[j].place, d.open[i].place)
  BY DecoderFacts
<1>2. Message(a, in) \in Opened /\ Message(a, in).place = a
  BY DEF Message, Opened
<1>3. Enter(d, Message(a, in)) = [ok |-> d.ok, open |-> open, m |-> d.m]
  BY DecoderWith
<1>4. /\ open \in Seq(Opened) /\ Len(open) = n + 1 /\ n \in Nat \ {0}
      /\ \A i \in 1 .. n : open[i] = d.open[i]
      /\ open[n + 1] = Message(a, in)
  BY <1>1, <1>2
<1> HIDE DEF open
<1>5. Present(d.m, open[Len(open)].place)
  BY <1>2, <1>4
<1>6. ASSUME NEW i \in 1 .. n + 1, NEW j \in 1 .. n + 1, i <= j
      PROVE  Under(open[j].place, open[i].place)
  <2>0. \A k \in 1 .. n : d.open[k].place \in Address
    <3>1. \A k \in 1 .. n : d.open[k] \in Opened
      BY <1>1
    <3> QED
      BY <3>1, PlaceIsAddress DEF Opened
  <2>1. a \in Address
    BY PlaceIsAddress
  <2>2. CASE j = n + 1 /\ i = n + 1
    BY <1>2, <1>4, <2>1, <2>2, UnderOrder
  <2>3. CASE j = n + 1 /\ i # n + 1
    <3>1. i \in 1 .. n /\ n \in 1 .. n
      BY <1>4, <2>3
    <3>2. Under(d.open[n].place, d.open[i].place)
      BY <1>1, <3>1
    <3>3. Under(a, d.open[i].place)
      BY <2>0, <2>1, <3>1, <3>2, UnderOrder
    <3> QED
      BY <1>2, <1>4, <2>3, <3>1, <3>3
  <2>4. CASE j # n + 1
    <3>1. i \in 1 .. n /\ j \in 1 .. n
      BY <1>4, <1>6, <2>4
    <3>2. Under(d.open[j].place, d.open[i].place)
      BY <1>1, <1>6, <3>1
    <3> QED
      BY <1>4, <3>1, <3>2
  <2> QED
    BY <2>2, <2>3, <2>4
<1>7. [ok |-> d.ok, open |-> open, m |-> d.m] \in Decoders
  <2>1. \A i, j \in 1 .. Len(open) : i <= j => Under(open[j].place, open[i].place)
    BY <1>4, <1>6
  <2> HIDE DEF n
  <2> QED
    BY <1>1, <1>4, <1>5, <2>1, DecoderIs
<1> QED
  BY <1>3, <1>7

\* Out of the innermost message.
LEMMA LeaveDecodes ==
  ASSUME NEW d \in Decoders, d.open # << >>
  PROVE  [d EXCEPT !.open = SubSeq(@, 1, Len(@) - 1)] \in Decoders
<1> DEFINE n == Len(d.open)
           open == SubSeq(d.open, 1, n - 1)
<1>1. /\ d = [ok |-> d.ok, open |-> d.open, m |-> d.m]
      /\ d.ok \in BOOLEAN /\ d.open \in Seq(Opened) /\ d.m \in Structures /\ FitsC(d.m)
      /\ Present(d.m, d.open[n].place)
      /\ \A i, j \in 1 .. n : i <= j => Under(d.open[j].place, d.open[i].place)
  BY DecoderFacts
<1>2. [d EXCEPT !.open = SubSeq(@, 1, Len(@) - 1)] = [ok |-> d.ok, open |-> open, m |-> d.m]
  BY DecoderWith
<1>3. n \in Nat \ {0} /\ \A i \in 1 .. n : d.open[i] \in Opened /\ d.open[i].place \in Address
  <2>1. n \in Nat \ {0} /\ \A i \in 1 .. n : d.open[i] \in Opened
    BY <1>1
  <2> HIDE DEF n
  <2> QED
    BY <2>1, PlaceIsAddress DEF Opened
<1>4. /\ open \in Seq(Opened) /\ Len(open) = n - 1
      /\ \A i \in 1 .. n - 1 : open[i] = d.open[i]
  BY <1>3, SubSeqProperties
<1> HIDE DEF open, n
<1>5. open # << >> => Present(d.m, open[Len(open)].place)
  <2> SUFFICES ASSUME open # << >> PROVE Present(d.m, open[Len(open)].place)
    OBVIOUS
  <2>1. n - 1 \in 1 .. n /\ n \in 1 .. n /\ n - 1 \in 1 .. n - 1
    BY <1>3, <1>4
  <2>2. Under(d.open[n].place, d.open[n - 1].place)
    BY <1>1, <1>3, <2>1
  <2>3. Present(d.m, d.open[n - 1].place)
    BY <1>1, <1>3, <2>1, <2>2, PresentAround
  <2> QED
    BY <1>4, <2>1, <2>3
<1>6. \A i, j \in 1 .. Len(open) : i <= j => Under(open[j].place, open[i].place)
  BY <1>1, <1>3, <1>4
<1>7. [ok |-> d.ok, open |-> open, m |-> d.m] \in Decoders
  BY <1>1, <1>4, <1>5, <1>6, DecoderIs
<1> QED
  BY <1>2, <1>7

\* A decoder with an error is still one.
LEMMA ErrorDecodes ==
  ASSUME NEW d \in Decoders
  PROVE  Error(d) \in Decoders
<1>1. /\ d = [ok |-> d.ok, open |-> d.open, m |-> d.m]
      /\ d.open \in Seq(Opened) /\ d.m \in Structures /\ FitsC(d.m)
      /\ d.open # << >> => Present(d.m, d.open[Len(d.open)].place)
      /\ \A i, j \in 1 .. Len(d.open) : i <= j => Under(d.open[j].place, d.open[i].place)
  BY DecoderFacts
<1>2. Error(d) = [ok |-> FALSE, open |-> d.open, m |-> d.m]
  BY DecoderWith
<1> QED
  BY <1>1, <1>2, FALSE \in BOOLEAN, DecoderIs

\* A field with a place in the structure: its value is set, or it is entered.
LEMMA StaticFieldDecodes ==
  ASSUME NEW d \in Decoders, d.open # << >>, NEW in \in Seq(Byte), NEW wire_type,
         NEW p \in Places, p = d.open[Len(d.open)].place,
         NEW f \in FieldsAt(p), f.ltype # "callback"
  PROVE  decode_static_field(d, in, wire_type, p, f) \in Decoders
<1> DEFINE a == Append(p, f.tag)
           m == Prepared(d.m, p, f)
           r == decode_static_field(d, in, wire_type, p, f)
<1>1. d.m \in Structures /\ FitsC(d.m) /\ Present(d.m, p)
  BY DecoderFacts
<1>2. m \in Structures /\ FitsC(m) /\ Present(m, a)
  BY <1>1, PreparedFits
<1>3. /\ p \in Address /\ a \in Address /\ Under(a, p)
      /\ f.ltype \in {"bool", "int32", "enum", "string", "submessage"}
      /\ f.ltype = "submessage" => a \in Places
      /\ f.ltype = "string" => f.size \in Nat \ {0}
  <2>1. /\ p \in Address /\ f.tag \in Nat
        /\ f.ltype \in {"bool", "int32", "enum", "string", "callback", "submessage"}
        /\ f.ltype = "submessage" => a \in Places
        /\ f.ltype = "string" => f.size \in Nat \ {0}
    BY FieldFacts
  <2>2. a \in Address /\ Under(p, p)
    BY <2>1, FieldAddress, UnderOrder
  <2>3. Under(a, p)
    BY <2>1, <2>2, UnderField
  <2> QED
    BY <2>1, <2>2, <2>3
<1>4. Present(m, p)
  BY <1>2, <1>3, PresentAround
<1>5. Error(d) \in Decoders
  BY ErrorDecodes
<1>6. CASE wire_type # WireType(f.ltype)
  <2>1. r = Error(d)
    BY <1>6 DEF decode_static_field
  <2> QED
    BY <1>5, <2>1
<1>7. CASE wire_type = WireType(f.ltype) /\ f.ltype = "submessage"
  <2> DEFINE sub == Substream(in)
  <2>1. r = IF sub.ok THEN Enter(Continue(d, sub.rest, m), Message(a, sub.value)) ELSE Error(d)
    BY <1>7, Zenon DEF decode_static_field, pb_dec_submessage
  <2>2. sub.ok => sub.value \in Seq(Byte) /\ sub.rest \in Seq(Byte)
    BY FieldsSkipped DEF Reads
  <2>3. ASSUME sub.ok PROVE Enter(Continue(d, sub.rest, m), Message(a, sub.value)) \in Decoders
    <3> DEFINE e == Continue(d, sub.rest, m)
    <3> HIDE DEF sub, m
    <3>1. /\ e \in Decoders /\ e.m = m /\ e.open # << >>
          /\ e.open[Len(e.open)].place = p
      BY <1>2, <1>4, <2>2, <2>3, ContinueDecodes
    <3> HIDE DEF e, a
    <3>2. Enter(e, Message(a, sub.value)) \in Decoders
      BY <1>2, <1>3, <1>7, <2>2, <2>3, <3>1, EnterDecodes
    <3> QED
      BY <3>2 DEF e
  <2> QED
    BY <1>5, <2>1, <2>3
<1>8. CASE wire_type = WireType(f.ltype) /\ f.ltype # "submessage"
  <2> DEFINE v == decode_basic_field(in, f)
             n == [m EXCEPT !.data[a] = v.value]
  <2>1. r = IF v.ok THEN Continue(d, v.rest, n) ELSE Error(d)
    BY <1>8, Zenon DEF decode_static_field
  <2>2. Reads(v, Values(f)) /\ (v.ok => FieldFitsC(f, v.value))
    BY <1>3, <1>8, BasicFieldFits
  <2>3. ASSUME v.ok PROVE Continue(d, v.rest, n) \in Decoders
    <3>1. v.rest \in Seq(Byte) /\ v.value \in Values(f) /\ FieldFitsC(f, v.value)
      BY <2>2, <2>3 DEF Reads
    <3> HIDE DEF v, m
    <3>2. n \in Structures /\ FitsC(n) /\ Present(n, a)
      BY <1>2, <1>8, <3>1, SetFits
    <3> HIDE DEF n, a
    <3>3. Present(n, p)
      BY <1>3, <3>2, PresentAround
    <3> QED
      BY <3>1, <3>2, <3>3, ContinueDecodes
  <2> QED
    BY <1>5, <2>1, <2>3
<1> QED
  BY <1>6, <1>7, <1>8

\* A field with any tag.
LEMMA FieldDecodes ==
  ASSUME NEW d \in Decoders, d.open # << >>, NEW in \in Seq(Byte), NEW wire_type, NEW tag,
         NEW p \in Places, p = d.open[Len(d.open)].place
  PROVE  decode_field(d, in, wire_type, p, tag) \in Decoders
<1> DEFINE known == \E g \in FieldsAt(p) : g.tag = tag
           f == CHOOSE g \in FieldsAt(p) : g.tag = tag
           Go(skipped) == IF skipped.ok THEN Continue(d, skipped.rest, d.m) ELSE Error(d)
           r == decode_field(d, in, wire_type, p, tag)
<1>1. r = IF ~known THEN Go(pb_skip_field(in, wire_type))
          ELSE IF f.ltype = "callback" THEN Go(decode_callback_field(in, wire_type))
          ELSE decode_static_field(d, in, wire_type, p, f)
  BY Zenon DEF decode_field
<1>2. ASSUME NEW skipped, Reads(skipped, Seq(Byte)) PROVE Go(skipped) \in Decoders
  <2>1. d.m \in Structures /\ FitsC(d.m) /\ Present(d.m, p)
    BY DecoderFacts
  <2>2. CASE skipped.ok
    <3>1. skipped.rest \in Seq(Byte)
      BY <1>2, <2>2 DEF Reads
    <3> QED
      BY <2>1, <2>2, <3>1, ContinueDecodes
  <2>3. CASE ~skipped.ok
    BY <2>3, ErrorDecodes
  <2> QED
    BY <2>2, <2>3
<1>3. known => f \in FieldsAt(p)
  OBVIOUS
<1> HIDE DEF known, f, Go
<1>4. CASE ~known
  BY <1>1, <1>2, <1>4, FieldsSkipped
<1>5. CASE known /\ f.ltype = "callback"
  BY <1>1, <1>2, <1>5, FieldsSkipped
<1>6. CASE known /\ f.ltype # "callback"
  <2>1. r = decode_static_field(d, in, wire_type, p, f)
    BY <1>1, <1>6
  <2> QED
    BY <1>3, <1>6, <2>1, StaticFieldDecodes
<1> QED
  BY <1>4, <1>5, <1>6

\* A step of the decoder.
LEMMA StepDecodes ==
  ASSUME NEW d \in Decoders
  PROVE  DecodeStep(d) \in Decoders
<1> DEFINE top == d.open[Len(d.open)]
           tag == pb_decode_varint32(top.in)
           r == DecodeStep(d)
<1>1. CASE ~d.ok \/ d.open = << >>
  <2>1. r = d
    BY <1>1 DEF DecodeStep
  <2> QED
    BY <2>1
<1>2. CASE d.ok /\ d.open # << >>
  <2>1. top \in Opened
    BY <1>2, DecoderFacts
  <2>2. top.place \in Places /\ top.in \in Seq(Byte)
    BY <2>1 DEF Opened
  <2>3. CASE top.in = << >>
    <3>1. r = [d EXCEPT !.open = SubSeq(@, 1, Len(@) - 1)]
      BY <1>2, <2>3, Zenon DEF DecodeStep
    <3> QED
      BY <1>2, <3>1, LeaveDecodes
  <2>4. CASE top.in # << >>
    <3>1. r = IF ~tag.ok \/ tag.value \div 8 = 0 THEN Error(d)
              ELSE decode_field(d, tag.rest, tag.value % 8, top.place, tag.value \div 8)
      BY <1>2, <2>4, Zenon DEF DecodeStep
    <3>2. tag.ok => tag.rest \in Seq(Byte)
      BY <2>2, VarintReads DEF Reads
    <3>3. tag.ok => decode_field(d, tag.rest, tag.value % 8, top.place, tag.value \div 8) \in Decoders
      <4>1. \A w, t : tag.ok => decode_field(d, tag.rest, w, top.place, t) \in Decoders
        <5> HIDE DEF tag
        <5> QED
          BY <1>2, <2>2, <3>2, FieldDecodes
      <4> QED
        BY <4>1
    <3>4. Error(d) \in Decoders
      BY ErrorDecodes
    <3> QED
      BY <3>1, <3>3, <3>4
  <2> QED
    BY <2>3, <2>4
<1> QED
  BY <1>1, <1>2

\* All steps of the decoder.
LEMMA DecodingDefined ==
  ASSUME NEW in \in Seq(Byte)
  PROVE  /\ Decoding(in)[0] = [ok |-> TRUE, open |-> <<Message(<< >>, in)>>, m |-> Zero]
         /\ \A k \in 1 .. 2 * Len(in) + 1 : Decoding(in)[k] = DecodeStep(Decoding(in)[k - 1])
         /\ \A k \in 0 .. 2 * Len(in) + 1 : Decoding(in)[k] \in Decoders
<1> DEFINE n == 2 * Len(in) + 1
           start == [ok |-> TRUE, open |-> <<Message(<< >>, in)>>, m |-> Zero]
           next == [q \in Nat \X Decoders |-> DecodeStep(q[2])]
<1>1. n \in Nat
  OBVIOUS
<1>2. start \in Decoders
  <2>1. /\ << >> \in Places /\ << >> \in Address /\ Len(<< >>) = 0
        /\ \A p \in Places : \A f \in FieldsAt(p) : f.tag \in Nat
    BY FieldsAssumption, FieldFacts DEF Address
  <2>2. Message(<< >>, in) \in Opened /\ Message(<< >>, in).place = << >>
    BY <2>1 DEF Message, Opened
  <2> DEFINE open == <<Message(<< >>, in)>>
  <2>3. open \in Seq(Opened) /\ Len(open) = 1 /\ open[1].place = << >>
    BY <2>2
  <2>4. Present(Zero, << >>)
    <3> SUFFICES ASSUME NEW p \in Places, NEW f \in FieldsAt(p), Under(<< >>, Append(p, f.tag))
                 PROVE  FALSE
      BY DEF Present
    <3>1. Len(Append(p, f.tag)) = Len(p) + 1 /\ Len(p) \in Nat
      BY FieldFacts, FieldAddress
    <3> QED
      BY <2>1, <3>1 DEF Under
  <2>5. Zero \in Structures /\ FitsC(Zero) /\ Under(<< >>, << >>)
    BY <2>1, ZeroFits, UnderOrder
  <2> HIDE DEF open
  <2>6. [ok |-> TRUE, open |-> open, m |-> Zero] \in Decoders
    <3>1. \A i, j \in 1 .. Len(open) : i <= j => Under(open[j].place, open[i].place)
      BY <2>3, <2>5
    <3>2. Present(Zero, open[Len(open)].place)
      BY <2>3, <2>4
    <3> QED
      BY <2>3, <2>5, <3>1, <3>2, TRUE \in BOOLEAN, DecoderIs
  <2> QED
    BY <2>6 DEF open
<1>3. next \in [Nat \X Decoders -> Decoders]
  BY StepDecodes
<1> HIDE DEF n, start
<1>4. PICK f \in [0 .. n -> Decoders] : Recursive(f, n, start, next)
  <2> HIDE DEF next
  <2>1. \A a \in Decoders : \E f \in [0 .. n -> Decoders] : Recursive(f, n, a, next)
    BY <1>1, <1>3, RecursionUpTo
  <2> QED
    BY <1>2, <2>1
<1>5. f[0] = start /\ \A i \in 1 .. n : f[i] = DecodeStep(f[i - 1])
  <2>1. ASSUME NEW i \in 1 .. n PROVE f[i] = DecodeStep(f[i - 1])
    <3>1. f[i] = next[<<i - 1, f[i - 1]>>]
      BY <1>4 DEF Recursive
    <3>2. i - 1 \in 0 .. n /\ f[i - 1] \in Decoders /\ <<i - 1, f[i - 1]>> \in Nat \X Decoders
      BY <1>1
    <3> QED
      BY <3>1, <3>2
  <2> QED
    BY <1>4, <2>1 DEF Recursive
<1> HIDE DEF next
<1>6. f = [i \in 0 .. n |-> IF i = 0 THEN start ELSE DecodeStep(f[i - 1])]
  BY <1>5
<1> DEFINE d == Decoding(in)
<1>7. d = [i \in 0 .. n |-> IF i = 0 THEN start ELSE DecodeStep(d[i - 1])]
  BY <1>6, Zenon DEF Decoding, n, start
<1>8. d[0] = start /\ \A i \in 1 .. n : d[i] = DecodeStep(d[i - 1])
  <2> HIDE DEF d
  <2> QED
    BY <1>1, <1>7
<1> HIDE DEF d
<1>9. \A i \in Nat : i \in 0 .. n => d[i] \in Decoders
  <2> DEFINE T == {i \in Nat : i \in 0 .. n => d[i] \in Decoders}
  <2>1. 0 \in T
    BY <1>2, <1>8
  <2>2. ASSUME NEW i \in T PROVE i + 1 \in T
    <3>1. i + 1 \in 0 .. n => i \in 0 .. n /\ i + 1 \in 1 .. n /\ d[i + 1] = DecodeStep(d[(i + 1) - 1])
      BY <1>1, <1>8
    <3>2. i \in Nat /\ (i + 1) - 1 = i
      OBVIOUS
    <3> QED
      BY <3>1, <3>2, StepDecodes
  <2>3. T = Nat
    <3>1. T \in SUBSET Nat
      OBVIOUS
    <3> HIDE DEF T
    <3> QED
      BY <2>1, <2>2, <3>1, SetInduction
  <2> QED
    BY <2>3
<1>10. \A i \in 0 .. n : i \in Nat
  BY <1>1
<1>11. \A i \in 0 .. n : d[i] \in Decoders
  BY <1>9, <1>10
<1> QED
  BY <1>8, <1>11 DEF d, n, start

\* What pb_decode accepts is a structure that the program can hold.
LEMMA DecodeFits ==
  ASSUME NEW in \in Seq(Byte), pb_decode(in).ok
  PROVE  pb_decode(in).value \in Structures /\ FitsC(pb_decode(in).value)
<1> DEFINE end == Decoding(in)[2 * Len(in) + 1]
<1>1. end \in Decoders
  <2>1. 2 * Len(in) + 1 \in 0 .. 2 * Len(in) + 1
    OBVIOUS
  <2> QED
    BY <2>1, DecodingDefined
<1> HIDE DEF end
<1>2. end.m \in Structures /\ FitsC(end.m)
  BY <1>1, DecoderFacts
<1>3. pb_decode(in) = IF end.ok /\ end.open = << >> THEN Got(end.m, << >>) ELSE Failed
  BY DEF pb_decode, end
<1>4. pb_decode(in) = Got(end.m, << >>)
  BY <1>3 DEF Failed
<1> QED
  BY <1>2, <1>4 DEF Got

-----------------------------------------------------------------------------
(* Writing                                                                 *)

\* A stream has a room or only counts.
Streams == [ok : BOOLEAN, sizing : BOOLEAN, max_size : Nat, bytes : Seq(Byte)]
Room(s, n) == s.sizing \/ Len(s.bytes) + n <= s.max_size
WithinRoom == {s \in Streams : Room(s, 0)}

\* From s to t the bytes b were written behind the others, if they are allowed
\* and there is room for them; otherwise t has an error.
Wrote(s, t, allowed, b) ==
    /\ t \in WithinRoom /\ t.sizing = s.sizing /\ t.max_size = s.max_size
    /\ t.ok <=> s.ok /\ allowed /\ Room(s, Len(b))
    /\ t.ok => t.bytes = s.bytes \o b

\* What a stream consists of.
LEMMA StreamFacts ==
  ASSUME NEW s \in WithinRoom
  PROVE  /\ s = [ok |-> s.ok, sizing |-> s.sizing, max_size |-> s.max_size, bytes |-> s.bytes]
         /\ s.ok \in BOOLEAN /\ s.sizing \in BOOLEAN /\ s.max_size \in Nat /\ s.bytes \in Seq(Byte)
         /\ Room(s, 0)
  BY DEF WithinRoom, Streams

\* A stream by its parts.
LEMMA StreamIs ==
  ASSUME NEW ok \in BOOLEAN, NEW sizing \in BOOLEAN, NEW max_size \in Nat, NEW bytes \in Seq(Byte),
         sizing \/ Len(bytes) <= max_size
  PROVE  [ok |-> ok, sizing |-> sizing, max_size |-> max_size, bytes |-> bytes] \in WithinRoom
  BY DEF WithinRoom, Streams, Room

\* A stream with some of its fields changed.
LEMMA StreamWith ==
  ASSUME NEW s \in WithinRoom
  PROVE  /\ \A x : [s EXCEPT !.bytes = x]
                     = [ok |-> s.ok, sizing |-> s.sizing, max_size |-> s.max_size, bytes |-> x]
         /\ \A x : [s EXCEPT !.ok = x]
                     = [ok |-> x, sizing |-> s.sizing, max_size |-> s.max_size, bytes |-> s.bytes]
         /\ \A x : [s EXCEPT !.sizing = x]
                     = [ok |-> s.ok, sizing |-> x, max_size |-> s.max_size, bytes |-> s.bytes]
<1>1. s \in [ok : BOOLEAN, sizing : BOOLEAN, max_size : Nat, bytes : Seq(Byte)]
  BY DEF WithinRoom, Streams
<1> QED
  BY ONLY <1>1

\* An error.
LEMMA ErrorWrites ==
  ASSUME NEW s \in WithinRoom, NEW b \in Seq(Byte)
  PROVE  Wrote(s, [s EXCEPT !.ok = FALSE], FALSE, b)
<1>1. [s EXCEPT !.ok = FALSE]
        = [ok |-> FALSE, sizing |-> s.sizing, max_size |-> s.max_size, bytes |-> s.bytes]
  BY StreamWith
<1>2. /\ s.sizing \in BOOLEAN /\ s.max_size \in Nat /\ s.bytes \in Seq(Byte)
      /\ s.sizing \/ Len(s.bytes) + 0 <= s.max_size
  BY StreamFacts DEF Room
<1> DEFINE t == [s EXCEPT !.ok = FALSE]
<1>3. t \in WithinRoom
  <2>1. s.sizing \/ Len(s.bytes) <= s.max_size
    BY <1>2
  <2>2. [ok |-> FALSE, sizing |-> s.sizing, max_size |-> s.max_size, bytes |-> s.bytes] \in WithinRoom
    BY <1>2, <2>1, FALSE \in BOOLEAN, StreamIs
  <2> QED
    BY <1>1, <2>2
<1> QED
  BY <1>1, <1>3 DEF Wrote

\* Nothing.
LEMMA NothingWrites ==
  ASSUME NEW s \in WithinRoom
  PROVE  Wrote(s, s, TRUE, << >>)
<1>1. s.ok \in BOOLEAN /\ s.bytes \in Seq(Byte) /\ Room(s, 0)
  BY StreamFacts
<1>2. s.bytes \o << >> = s.bytes /\ Len(<< >>) = 0
  BY <1>1
<1> QED
  BY <1>1, <1>2 DEF Wrote

\* pb_write.
LEMMA BytesWrite ==
  ASSUME NEW s \in WithinRoom, NEW b \in Seq(Byte)
  PROVE  Wrote(s, pb_write(s, b), TRUE, b)
<1>1. /\ s.ok \in BOOLEAN /\ s.sizing \in BOOLEAN /\ s.max_size \in Nat /\ s.bytes \in Seq(Byte)
      /\ Room(s, 0)
  BY StreamFacts
<1>2. /\ s.bytes \o b \in Seq(Byte) /\ Len(s.bytes \o b) = Len(s.bytes) + Len(b)
      /\ Len(s.bytes) \in Nat /\ Len(b) \in Nat /\ (b = << >> => Len(b) = 0)
  BY <1>1
<1>3. CASE s.ok /\ (b = << >> \/ HasRoom(s, Len(b)))
  <2> DEFINE t == [s EXCEPT !.bytes = s.bytes \o b]
             c == s.bytes \o b
  <2>1. pb_write(s, b) = t
    BY <1>3 DEF pb_write
  <2>2. Room(s, Len(b))
    BY <1>1, <1>2, <1>3 DEF Room, HasRoom
  <2>3. t = [ok |-> s.ok, sizing |-> s.sizing, max_size |-> s.max_size, bytes |-> c]
    BY StreamWith
  <2> HIDE DEF t
  <2>4. c \in Seq(Byte) /\ (s.sizing \/ Len(c) <= s.max_size)
    BY <1>2, <2>2 DEF Room
  <2>5. t \in WithinRoom
    <3> HIDE DEF c
    <3> QED
      BY <1>1, <2>3, <2>4, StreamIs
  <2> QED
    BY <1>3, <2>1, <2>2, <2>3, <2>5 DEF Wrote
<1>4. CASE ~(s.ok /\ (b = << >> \/ HasRoom(s, Len(b))))
  <2>1. pb_write(s, b) = [s EXCEPT !.ok = FALSE]
    BY <1>4 DEF pb_write
  <2>2. ~(s.ok /\ Room(s, Len(b)))
    BY <1>4 DEF Room, HasRoom
  <2>3. Wrote(s, [s EXCEPT !.ok = FALSE], FALSE, b)
    BY ErrorWrites
  <2> QED
    BY <2>1, <2>2, <2>3 DEF Wrote
<1> QED
  BY <1>3, <1>4

\* Bytes are joined in any order.
LEMMA BytesJoined ==
  ASSUME NEW a \in Seq(Byte), NEW b \in Seq(Byte), NEW c \in Seq(Byte)
  PROVE  (a \o b) \o c = a \o (b \o c)
  OBVIOUS

\* One after the other.
LEMMA WritesBoth ==
  ASSUME NEW s \in WithinRoom, NEW t, NEW u,
         NEW x \in BOOLEAN, NEW y \in BOOLEAN, NEW b \in Seq(Byte), NEW c \in Seq(Byte),
         Wrote(s, t, x, b), Wrote(t, u, y, c)
  PROVE  Wrote(s, u, x /\ y, b \o c)
<1>1. /\ s.ok \in BOOLEAN /\ s.sizing \in BOOLEAN /\ s.max_size \in Nat /\ s.bytes \in Seq(Byte)
  BY StreamFacts
<1>2. /\ Len(s.bytes \o b) = Len(s.bytes) + Len(b) /\ Len(b \o c) = Len(b) + Len(c)
      /\ (s.bytes \o b) \o c = s.bytes \o (b \o c)
      /\ Len(s.bytes) \in Nat /\ Len(b) \in Nat /\ Len(c) \in Nat
  <2>1. ASSUME NEW o \in Seq(Byte), NEW a \in Seq(Byte)
        PROVE  Len(a \o o) = Len(a) + Len(o) /\ Len(a) \in Nat /\ a \o o \in Seq(Byte)
    OBVIOUS
  <2>2. (s.bytes \o b) \o c = s.bytes \o (b \o c)
    BY <1>1, BytesJoined
  <2> QED
    BY <1>1, <2>1, <2>2
<1>3. /\ t.sizing = s.sizing /\ t.max_size = s.max_size
      /\ t.ok <=> s.ok /\ x /\ Room(s, Len(b))
      /\ t.ok => t.bytes = s.bytes \o b
      /\ u \in WithinRoom /\ u.sizing = t.sizing /\ u.max_size = t.max_size
      /\ u.ok <=> t.ok /\ y /\ Room(t, Len(c))
      /\ u.ok => u.bytes = t.bytes \o c
  BY DEF Wrote
<1> DEFINE n == Len(s.bytes)
           k == Len(b)
           l == Len(c)
<1> HIDE DEF n, k, l
<1>0. /\ n \in Nat /\ k \in Nat /\ l \in Nat /\ s.max_size \in Nat
      /\ Len(s.bytes) = n /\ Len(b) = k /\ Len(c) = l /\ Len(b \o c) = k + l
  BY <1>1, <1>2 DEF n, k, l
<1>4. t.ok => (Room(t, Len(c)) <=> Room(s, Len(b \o c)))
  <2> SUFFICES ASSUME t.ok PROVE Room(t, Len(c)) <=> Room(s, Len(b \o c))
    OBVIOUS
  <2>1. Len(t.bytes) = n + k
    BY <1>0, <1>2, <1>3
  <2> QED
    BY <1>0, <1>3, <2>1 DEF Room
<1>5. Room(s, Len(b \o c)) => Room(s, Len(b))
  BY <1>0 DEF Room
<1>6. u.ok <=> s.ok /\ (x /\ y) /\ Room(s, Len(b \o c))
  BY <1>3, <1>4, <1>5
<1>7. u.ok => u.bytes = s.bytes \o (b \o c)
  <2> SUFFICES ASSUME u.ok PROVE u.bytes = s.bytes \o (b \o c)
    OBVIOUS
  <2>1. t.ok /\ u.bytes = t.bytes \o c /\ t.bytes = s.bytes \o b
    BY <1>3
  <2> QED
    BY <1>2, <2>1
<1> QED
  BY <1>3, <1>6, <1>7 DEF Wrote

\* What was written is within the room.
LEMMA WritesWithinRoom ==
  ASSUME NEW s, NEW t, NEW x, NEW b, Wrote(s, t, x, b)
  PROVE  t \in WithinRoom
  BY DEF Wrote

\* The bytes of a varint.
LEMMA VarintBytesWritten ==
  ASSUME NEW v \in Int
  PROVE  pb_encode_varint(v) \in Seq(Byte)
<1> DEFINE w == v % Max64
<1>1. w \in Nat /\ w < Max64 /\ w % Max64 = w
  <2>1. Max64 \in Nat \ {0}
    BY Rooms
  <2> HIDE DEF Max64
  <2> QED
    BY <2>1
<1>2. pb_encode_varint(v) = pb_encode_varint(w)
  <2> HIDE DEF w
  <2> QED
    BY <1>1, Zenon DEF pb_encode_varint, w
<1> HIDE DEF w
<1>3. pb_encode_varint(w) = encode_varint(w) /\ encode_varint(w) \in Seq(Byte)
  BY <1>1, BoardsWriteTheSame, EncodedBytes
<1> QED
  BY <1>2, <1>3

\* One after the other, when the first is always allowed.
LEMMA WriteThen ==
  ASSUME NEW s \in WithinRoom, NEW t, NEW u, NEW y \in BOOLEAN,
         NEW b \in Seq(Byte), NEW c \in Seq(Byte), Wrote(s, t, TRUE, b), Wrote(t, u, y, c)
  PROVE  Wrote(s, u, y, b \o c) /\ b \o c \in Seq(Byte)
<1>1. Wrote(s, u, TRUE /\ y, b \o c)
  BY WritesBoth
<1>2. (TRUE /\ y) = y
  OBVIOUS
<1>3. Wrote(s, u, y, b \o c)
  BY <1>1, <1>2 DEF Wrote
<1>4. b \o c \in Seq(Byte)
  OBVIOUS
<1> QED
  BY <1>3, <1>4

\* The tag of a field, and a string with its length.
LEMMA TagWrites ==
  ASSUME NEW f, f.tag \in Nat
  PROVE  \E b \in Seq(Byte) : \A s \in WithinRoom : Wrote(s, pb_encode_tag_for_field(s, f), TRUE, b)
<1> DEFINE b == pb_encode_varint(f.tag * 8 + WireType(f.ltype))
<1>1. f.tag * 8 + WireType(f.ltype) \in Int
  BY DEF WireType, WT_VARINT, WT_STRING
<1>2. b \in Seq(Byte)
  BY <1>1, VarintBytesWritten
<1>3. \A s : pb_encode_tag_for_field(s, f) = pb_write(s, b)
  BY DEF pb_encode_tag_for_field
<1> HIDE DEF b
<1>4. \A s \in WithinRoom : Wrote(s, pb_encode_tag_for_field(s, f), TRUE, b)
  BY <1>2, <1>3, BytesWrite
<1> QED
  BY <1>2, <1>4

\* pb_encode_string.
LEMMA StringWrites ==
  ASSUME NEW v \in Seq(Byte)
  PROVE  \E b \in Seq(Byte) : \A s \in WithinRoom : Wrote(s, pb_encode_string(s, v), TRUE, b)
<1> DEFINE l == pb_encode_varint(Len(v))
<1>1. l \in Seq(Byte)
  BY VarintBytesWritten
<1>2. \A s : pb_encode_string(s, v) = pb_write(pb_write(s, l), v)
  BY DEF pb_encode_string
<1> HIDE DEF l
<1>3. ASSUME NEW s \in WithinRoom
      PROVE  Wrote(s, pb_encode_string(s, v), TRUE, l \o v)
  <2>1. Wrote(s, pb_write(s, l), TRUE, l)
    BY <1>1, BytesWrite
  <2>2. pb_write(s, l) \in WithinRoom
    BY <2>1, WritesWithinRoom
  <2>3. Wrote(pb_write(s, l), pb_write(pb_write(s, l), v), TRUE, v)
    BY <2>2, BytesWrite
  <2> DEFINE t == pb_write(s, l)
             u == pb_write(t, v)
  <2> HIDE DEF t, u
  <2>4. Wrote(s, t, TRUE, l) /\ Wrote(t, u, TRUE, v)
    BY <2>1, <2>3 DEF t, u
  <2>5. Wrote(s, u, TRUE, l \o v)
    BY <1>1, <2>4, TRUE \in BOOLEAN, WriteThen
  <2> QED
    BY <1>2, <2>5 DEF t, u
<1>4. l \o v \in Seq(Byte)
  BY <1>1
<1> QED
  BY <1>3, <1>4

\* A field with a value: an error when a string is too long.
StringAllowed(f, v) == f.ltype = "string" => Len(v) < f.size

\* encode_basic_field.
LEMMA BasicFieldWrites ==
  ASSUME NEW f, f.tag \in Nat, f.ltype \in {"bool", "enum", "int32", "string"}, NEW v \in Values(f)
  PROVE  \E b \in Seq(Byte) : \A s \in WithinRoom :
            Wrote(s, encode_basic_field(s, f, v), StringAllowed(f, v), b)
<1> DEFINE allowed == StringAllowed(f, v)
<1>0. allowed \in BOOLEAN
  BY DEF StringAllowed
<1>1. PICK g \in Seq(Byte) : \A s \in WithinRoom : Wrote(s, pb_encode_tag_for_field(s, f), TRUE, g)
  BY TagWrites
<1>2. PICK c \in Seq(Byte) : \A s \in WithinRoom : \A t \in WithinRoom :
        t = pb_encode_tag_for_field(s, f) => Wrote(t, encode_basic_field(s, f, v), allowed, c)
  <2>1. CASE f.ltype # "string"
    <3> DEFINE n == IF f.ltype = "bool" THEN (IF v THEN 1 ELSE 0) ELSE v
    <3>1. n \in Int
      BY <2>1 DEF Values
    <3>2. \A s : encode_basic_field(s, f, v) = pb_write(pb_encode_tag_for_field(s, f), pb_encode_varint(n))
      BY <2>1 DEF encode_basic_field
    <3> HIDE DEF n
    <3> DEFINE c == pb_encode_varint(n)
    <3>3. c \in Seq(Byte)
      BY <3>1, VarintBytesWritten
    <3> HIDE DEF c
    <3>4. \A t \in WithinRoom : Wrote(t, pb_write(t, c), TRUE, c)
      BY <3>3, BytesWrite
    <3>5. \A t \in WithinRoom : Wrote(t, pb_write(t, c), allowed, c)
      BY <2>1, <3>4 DEF Wrote, StringAllowed
    <3>6. \A s : encode_basic_field(s, f, v) = pb_write(pb_encode_tag_for_field(s, f), c)
      BY <3>2 DEF c
    <3> QED
      BY <3>3, <3>5, <3>6
  <2>2. CASE f.ltype = "string"
    <3>1. v \in Seq(Byte)
      BY <2>2 DEF Values
    <3>2. PICK c \in Seq(Byte) : \A s \in WithinRoom : Wrote(s, pb_encode_string(s, v), TRUE, c)
      BY <3>1, StringWrites
    <3>3. \A s : encode_basic_field(s, f, v) =
             LET t == pb_encode_tag_for_field(s, f)
             IN  IF Len(v) < f.size THEN pb_encode_string(t, v) ELSE [t EXCEPT !.ok = FALSE]
      BY <2>2 DEF encode_basic_field, pb_enc_string
    <3>4. CASE Len(v) < f.size
      <4>1. \A t \in WithinRoom : Wrote(t, pb_encode_string(t, v), allowed, c)
        BY <3>2, <3>4 DEF Wrote, StringAllowed
      <4>2. \A s : encode_basic_field(s, f, v) = pb_encode_string(pb_encode_tag_for_field(s, f), v)
        BY <3>3, <3>4
      <4> QED
        BY <4>1, <4>2
    <3>5. CASE ~(Len(v) < f.size)
      <4>1. \A t \in WithinRoom : Wrote(t, [t EXCEPT !.ok = FALSE], FALSE, c)
        BY ErrorWrites
      <4>2. \A t \in WithinRoom : Wrote(t, [t EXCEPT !.ok = FALSE], allowed, c)
        <5>1. ~allowed
          BY <2>2, <3>5 DEF StringAllowed
        <5> HIDE DEF allowed
        <5> QED
          BY <4>1, <5>1, Zenon DEF Wrote
      <4>3. \A s, t : t = pb_encode_tag_for_field(s, f) =>
                encode_basic_field(s, f, v) = [t EXCEPT !.ok = FALSE]
        BY <3>3, <3>5, Zenon
      <4> QED
        BY <4>2, <4>3, ZenonT(30)
    <3> QED
      BY <3>4, <3>5
  <2> QED
    BY <2>1, <2>2
<1> HIDE DEF allowed
<1>3. ASSUME NEW s \in WithinRoom
      PROVE  Wrote(s, encode_basic_field(s, f, v), allowed, g \o c) /\ g \o c \in Seq(Byte)
  <2> DEFINE t == pb_encode_tag_for_field(s, f)
             u == encode_basic_field(s, f, v)
  <2>1. Wrote(s, t, TRUE, g) /\ t \in WithinRoom
    BY <1>1, WritesWithinRoom
  <2>2. Wrote(t, u, allowed, c)
    BY <1>2, <2>1
  <2> HIDE DEF t, u
  <2>3. Wrote(s, u, allowed, g \o c) /\ g \o c \in Seq(Byte)
    BY <1>0, <2>1, <2>2, WriteThen
  <2> QED
    BY <2>3 DEF u
<1>4. g \o c \in Seq(Byte)
  OBVIOUS
<1> QED
  BY <1>3, <1>4 DEF allowed

\* Streams for messages, and what is in them when the contents x, b of a
\* message are written.
Holds(message, x, b) == \A size \in Sizes : Wrote(Stream(size), message[size], x, b)

\* The stream for a size begins empty.
LEMMA StreamsFor ==
  ASSUME NEW size \in Sizes
  PROVE  /\ Stream(size) \in WithinRoom /\ Stream(size).ok /\ Stream(size).bytes = << >>
         /\ Stream(size).sizing <=> size = Counting
         /\ size # Counting => size \in Nat /\ Stream(size).max_size = size
<1>1. size \in Nat \/ size = Counting
  BY DEF Sizes
<1>2. Counting \notin Nat
  BY DEF Counting
<1>3. \A n \in Nat : /\ OutStream(n) = [ok |-> TRUE, sizing |-> FALSE, max_size |-> n, bytes |-> << >>]
                     /\ OutStream(n) \in WithinRoom
  <2>1. << >> \in Seq(Byte) /\ \A n \in Nat : Len(<< >>) <= n
    OBVIOUS
  <2> QED
    BY <2>1, StreamIs, TRUE \in BOOLEAN, FALSE \in BOOLEAN DEF OutStream
<1>4. SizingStream = [ok |-> TRUE, sizing |-> TRUE, max_size |-> 0, bytes |-> << >>]
  <2> DEFINE s == OutStream(0)
  <2>1. /\ s \in WithinRoom
        /\ s = [ok |-> TRUE, sizing |-> FALSE, max_size |-> 0, bytes |-> << >>]
    BY <1>3
  <2>2. SizingStream = [s EXCEPT !.sizing = TRUE]
    BY DEF SizingStream
  <2> HIDE DEF s
  <2>3. [s EXCEPT !.sizing = TRUE]
           = [ok |-> s.ok, sizing |-> TRUE, max_size |-> s.max_size, bytes |-> s.bytes]
    BY <2>1, StreamWith
  <2> QED
    BY <2>1, <2>2, <2>3
<1>5. SizingStream \in WithinRoom
  <2>1. << >> \in Seq(Byte) /\ 0 \in Nat
    OBVIOUS
  <2> QED
    BY <1>4, <2>1, StreamIs, TRUE \in BOOLEAN
<1>6. CASE size = Counting
  BY <1>4, <1>5, <1>6 DEF Stream
<1>7. CASE size # Counting
  <2>1. size \in Nat /\ Stream(size) = OutStream(size)
    BY <1>1, <1>7 DEF Stream
  <2> QED
    BY <1>3, <1>7, <2>1
<1> QED
  BY <1>6, <1>7

\* A submessage: its length and its contents.
LEMMA SubmessageWrites ==
  ASSUME NEW a, NEW encoded, NEW x \in BOOLEAN, NEW c \in Seq(Byte), Holds(encoded[a], x, c)
  PROVE  \E b \in Seq(Byte) : \A s \in WithinRoom : Wrote(s, pb_encode_submessage(s, a, encoded), x, b)
<1> DEFINE sub == encoded[a][Counting]
           size == Len(sub.bytes)
           again == encoded[a][size]
           Contents(t) ==
             IF t.sizing THEN pb_write(t, sub.bytes)
             ELSE IF t.ok /\ HasRoom(t, size) /\ again.ok /\ Len(again.bytes) = size
                  THEN pb_write(t, again.bytes)
                  ELSE [t EXCEPT !.ok = FALSE]
           l == pb_encode_varint(Len(c))
<1>1. \A s : pb_encode_submessage(s, a, encoded) =
          IF sub.ok THEN Contents(pb_write(s, pb_encode_varint(size))) ELSE [s EXCEPT !.ok = FALSE]
  BY Zenon DEF pb_encode_submessage
<1>2. l \in Seq(Byte) /\ l \o c \in Seq(Byte)
  <2>1. l \in Seq(Byte)
    BY VarintBytesWritten
  <2> HIDE DEF l
  <2> QED
    BY <2>1
<1>3. << >> \o c = c
  OBVIOUS
<1>4. sub.ok <=> x
  <2>1. Counting \in Sizes
    BY DEF Sizes
  <2>2. Wrote(Stream(Counting), sub, x, c) /\ Stream(Counting).ok /\ Stream(Counting).sizing
    BY <2>1, StreamsFor DEF Holds
  <2> QED
    BY <2>2 DEF Wrote, Room
<1>5. x => sub.bytes = c
  <2>1. Counting \in Sizes
    BY DEF Sizes
  <2>2. Wrote(Stream(Counting), sub, x, c) /\ Stream(Counting).bytes = << >>
    BY <2>1, StreamsFor DEF Holds
  <2> QED
    BY <1>3, <1>4, <2>2 DEF Wrote
<1>6. CASE ~x
  <2>1. \A s \in WithinRoom : Wrote(s, [s EXCEPT !.ok = FALSE], FALSE, c)
    BY ErrorWrites
  <2>2. \A s : pb_encode_submessage(s, a, encoded) = [s EXCEPT !.ok = FALSE]
    BY <1>1, <1>4, <1>6, Zenon
  <2>3. x = FALSE
    BY <1>6
  <2> QED
    BY <2>1, <2>2, <2>3, Zenon
<1>7. CASE x
  <2>1. sub.bytes = c /\ size = Len(c) /\ Len(c) \in Nat
    BY <1>5, <1>7
  <2>2. again.ok /\ again.bytes = c
    <3>1. Len(c) \in Sizes /\ Len(c) # Counting
      BY <2>1 DEF Sizes, Counting
    <3>2. /\ Wrote(Stream(Len(c)), encoded[a][Len(c)], x, c)
          /\ Stream(Len(c)).ok /\ Stream(Len(c)).bytes = << >> /\ Stream(Len(c)).max_size = Len(c)
      BY <3>1, StreamsFor DEF Holds
    <3>3. Room(Stream(Len(c)), Len(c))
      <4>1. Len(<< >>) + Len(c) <= Len(c)
        BY <2>1
      <4> QED
        BY <3>2, <4>1 DEF Room
    <3> DEFINE e == encoded[a][Len(c)]
    <3> HIDE DEF e
    <3>4. e.ok /\ e.bytes = c
      BY <1>3, <1>7, <3>2, <3>3 DEF Wrote, e
    <3> QED
      BY <2>1, <3>4 DEF e
  <2>3. ASSUME NEW t \in WithinRoom PROVE Wrote(t, Contents(t), TRUE, c)
    <3> HIDE DEF sub, again, size
    <3>1. Wrote(t, pb_write(t, c), TRUE, c)
      BY BytesWrite
    <3>2. CASE t.sizing \/ (t.ok /\ HasRoom(t, Len(c)))
      <4>1. Contents(t) = pb_write(t, c)
        BY <2>1, <2>2, <3>2
      <4> QED
        BY <3>1, <4>1
    <3>3. CASE ~(t.sizing \/ (t.ok /\ HasRoom(t, Len(c))))
      <4>1. Contents(t) = [t EXCEPT !.ok = FALSE]
        BY <2>1, <2>2, <3>3
      <4>2. Wrote(t, [t EXCEPT !.ok = FALSE], FALSE, c)
        BY ErrorWrites
      <4>3. ~(t.ok /\ Room(t, Len(c)))
        BY <3>3 DEF Room, HasRoom
      <4> DEFINE u == [t EXCEPT !.ok = FALSE]
      <4> HIDE DEF u
      <4>4. Wrote(t, u, FALSE, c) /\ Contents(t) = u
        BY <4>1, <4>2 DEF u
      <4>5. Wrote(t, u, TRUE, c)
        BY <4>3, <4>4 DEF Wrote
      <4> QED
        BY <4>4, <4>5
    <3> QED
      BY <3>2, <3>3
  <2>4. pb_encode_varint(size) = l
    BY <2>1
  <2>5. \A s : pb_encode_submessage(s, a, encoded) = Contents(pb_write(s, l))
    <3> HIDE DEF Contents, l, size, sub
    <3> QED
      BY <1>1, <1>4, <1>7, <2>4
  <2> HIDE DEF Contents, l, sub, size, again
  <2>6. ASSUME NEW s \in WithinRoom PROVE Wrote(s, pb_encode_submessage(s, a, encoded), x, l \o c)
    <3> DEFINE t == pb_write(s, l)
               u == Contents(t)
    <3>1. Wrote(s, t, TRUE, l) /\ t \in WithinRoom
      BY <1>2, BytesWrite, WritesWithinRoom
    <3>2. Wrote(t, u, TRUE, c)
      BY <2>3, <3>1
    <3> HIDE DEF t, u
    <3>3. Wrote(s, u, TRUE, l \o c)
      BY <1>2, <3>1, <3>2, TRUE \in BOOLEAN, WriteThen
    <3>4. pb_encode_submessage(s, a, encoded) = u
      BY <2>5 DEF t, u
    <3>5. x = TRUE
      BY <1>7
    <3> QED
      BY <3>3, <3>4, <3>5
  <2> QED
    BY <1>2, <2>6
<1> QED
  BY <1>6, <1>7

-----------------------------------------------------------------------------
(* One after the other                                                     *)

\* Steps that each write write all.
LEMMA WritesInTurn ==
  ASSUME NEW n \in Nat, NEW step, NEW x,
         \A i \in 1 .. n : x[i] \in BOOLEAN /\ \E b \in Seq(Byte) : \A s \in WithinRoom :
             Wrote(s, step[<<i - 1, s>>], x[i], b)
  PROVE  \E b \in Seq(Byte) : \A s \in WithinRoom : \A t :
            Recursive(t, n, s, step) => Wrote(s, t[n], \A i \in 1 .. n : x[i], b)
<1> DEFINE All(k) == \A i \in 1 .. k : x[i]
           Written(k, b) == \A s \in WithinRoom : \A t :
                               Recursive(t, n, s, step) => Wrote(s, t[k], All(k), b)
           T == {k \in Nat : k <= n => \E b \in Seq(Byte) : Written(k, b)}
<1>1. 0 \in T
  <2>1. << >> \in Seq(Byte)
    OBVIOUS
  <2>2. All(0)
    OBVIOUS
  <2>3. ASSUME NEW s \in WithinRoom, NEW t, Recursive(t, n, s, step)
        PROVE  Wrote(s, t[0], All(0), << >>)
    <3>1. t[0] = s /\ Wrote(s, s, TRUE, << >>)
      BY <2>3, NothingWrites DEF Recursive
    <3> HIDE DEF All
    <3> QED
      BY <2>2, <3>1 DEF Wrote
  <2> QED
    BY <2>1, <2>3
<1>2. ASSUME NEW k \in T PROVE k + 1 \in T
  <2> SUFFICES ASSUME k + 1 <= n PROVE \E b \in Seq(Byte) : Written(k + 1, b)
    <3>1. k + 1 \in Nat
      OBVIOUS
    <3> HIDE DEF Written
    <3> QED
      BY <3>1
  <2>1. k \in Nat /\ k <= n /\ k + 1 \in 1 .. n /\ (k + 1) - 1 = k
    OBVIOUS
  <2>2. PICK b \in Seq(Byte) : Written(k, b)
    BY <2>1
  <2>3. PICK c \in Seq(Byte) : \A s \in WithinRoom : Wrote(s, step[<<k, s>>], x[k + 1], c)
    BY <2>1
  <2>4. All(k + 1) <=> All(k) /\ x[k + 1]
    <3>1. \A i : i \in 1 .. k + 1 <=> i \in 1 .. k \/ i = k + 1
      BY <2>1
    <3> QED
      BY <3>1, Zenon
  <2>5. ASSUME NEW s \in WithinRoom, NEW t, Recursive(t, n, s, step)
        PROVE  Wrote(s, t[k + 1], All(k + 1), b \o c)
    <3>1. Wrote(s, t[k], All(k), b)
      BY <2>2, <2>5
    <3>2. t[k] \in WithinRoom
      BY <3>1, WritesWithinRoom
    <3>3. t[k + 1] = step[<<k, t[k]>>]
      BY <2>1, <2>5 DEF Recursive
    <3>4. Wrote(t[k], t[k + 1], x[k + 1], c)
      BY <2>3, <3>2, <3>3
    <3> DEFINE y == All(k)
               z == x[k + 1]
               r == t[k]
               u == t[k + 1]
    <3>5. y \in BOOLEAN /\ z \in BOOLEAN
      BY <2>1
    <3>6. Wrote(s, r, y, b) /\ Wrote(r, u, z, c)
      BY <3>1, <3>4
    <3>7. All(k + 1) <=> y /\ z
      BY <2>4
    <3> HIDE DEF y, z, r, u, All
    <3>8. Wrote(s, u, y /\ z, b \o c)
      BY <3>5, <3>6, WritesBoth
    <3>9. Wrote(s, u, All(k + 1), b \o c)
      BY <3>7, <3>8 DEF Wrote
    <3> QED
      BY <3>9 DEF u
  <2>6. b \o c \in Seq(Byte)
    OBVIOUS
  <2>7. Written(k + 1, b \o c)
    BY <2>5
  <2> HIDE DEF Written
  <2> QED
    BY <2>6, <2>7
<1>3. T = Nat
  <2>1. T \in SUBSET Nat
    OBVIOUS
  <2> HIDE DEF T
  <2> QED
    BY <1>1, <1>2, <2>1, SetInduction
<1>4. \E b \in Seq(Byte) : Written(n, b)
  <2> HIDE DEF Written
  <2> QED
    BY <1>3
<1> QED
  BY <1>4, Zenon

\* A string of a callback, with its key.
EncodeOne(s, f, v) == pb_encode_string(pb_encode_tag_for_field(s, f), v)

\* It writes the key and then the length and the string.
LEMMA OneWrites ==
  ASSUME NEW f, f.tag \in Nat, NEW v \in Seq(Byte)
  PROVE  \E b \in Seq(Byte) : \A s \in WithinRoom : Wrote(s, EncodeOne(s, f, v), TRUE, b)
<1>1. PICK g \in Seq(Byte) : \A s \in WithinRoom : Wrote(s, pb_encode_tag_for_field(s, f), TRUE, g)
  BY TagWrites
<1>2. PICK c \in Seq(Byte) : \A s \in WithinRoom : Wrote(s, pb_encode_string(s, v), TRUE, c)
  BY StringWrites
<1>3. ASSUME NEW s \in WithinRoom PROVE Wrote(s, EncodeOne(s, f, v), TRUE, g \o c)
  <2> DEFINE t == pb_encode_tag_for_field(s, f)
             u == pb_encode_string(t, v)
  <2>1. Wrote(s, t, TRUE, g) /\ t \in WithinRoom
    BY <1>1, WritesWithinRoom
  <2>2. Wrote(t, u, TRUE, c)
    BY <1>2, <2>1
  <2> HIDE DEF t, u
  <2>3. Wrote(s, u, TRUE, g \o c)
    BY <2>1, <2>2, TRUE \in BOOLEAN, WriteThen
  <2> QED
    BY <2>3 DEF t, u, EncodeOne
<1>4. g \o c \in Seq(Byte)
  OBVIOUS
<1> QED
  BY <1>3, <1>4

\* The string with a number, on a stream.
StringsInTurn(f, strings) ==
    [q \in Nat \X WithinRoom |->
        IF q[1] + 1 \in 1 .. Len(strings) THEN EncodeOne(q[2], f, strings[q[1] + 1]) ELSE q[2]]

\* What encode_callback_field computes.
LEMMA StringsEncoded ==
  ASSUME NEW f, f.tag \in Nat, NEW strings \in Seq(Seq(Byte)), NEW s \in WithinRoom
  PROVE  \E t \in [0 .. Len(strings) -> WithinRoom] :
            /\ Recursive(t, Len(strings), s, StringsInTurn(f, strings))
            /\ encode_callback_field(s, f, strings) = t[Len(strings)]
<1> DEFINE n == Len(strings)
           One(r, i) == EncodeOne(r, f, strings[i])
           step == [q \in Nat \X WithinRoom |-> IF q[1] + 1 \in 1 .. n THEN One(q[2], q[1] + 1) ELSE q[2]]
<1>1. n \in Nat /\ \A i \in 1 .. n : strings[i] \in Seq(Byte)
  OBVIOUS
<1>2. \A i \in 1 .. n : \A r \in WithinRoom : One(r, i) \in WithinRoom
  <2> TAKE i \in 1 .. n
  <2> TAKE r \in WithinRoom
  <2> DEFINE v == strings[i]
  <2>1. v \in Seq(Byte)
    BY <1>1
  <2> HIDE DEF v
  <2>2. EncodeOne(r, f, v) \in WithinRoom
    BY <2>1, OneWrites, WritesWithinRoom
  <2> QED
    BY <2>2 DEF v
<1>3. encode_callback_field(s, f, strings) \in
             {t[n] : t \in {u \in [0 .. n -> WithinRoom] : Recursive(u, n, s, step)}}
  <2>1. step \in [Nat \X WithinRoom -> WithinRoom]
    <3> HIDE DEF One, n
    <3> QED
      BY <1>2
  <2>2. PICK t \in [0 .. n -> WithinRoom] : Recursive(t, n, s, step)
    <3> HIDE DEF step, n
    <3>1. \A a \in WithinRoom : \E t \in [0 .. n -> WithinRoom] : Recursive(t, n, a, step)
      BY <1>1, <2>1, RecursionUpTo
    <3> QED
      BY <3>1
  <2>3. t[0] = s /\ \A i \in 1 .. n : t[i] = One(t[i - 1], i)
    <3> HIDE DEF One, n
    <3>1. ASSUME NEW i \in 1 .. n PROVE t[i] = One(t[i - 1], i)
      <4>1. t[i] = step[<<i - 1, t[i - 1]>>]
        BY <2>2 DEF Recursive
      <4>2. i - 1 \in Nat /\ i - 1 \in 0 .. n /\ t[i - 1] \in WithinRoom /\ (i - 1) + 1 = i
        BY <1>1
      <4>3. step[<<i - 1, t[i - 1]>>] = One(t[i - 1], i)
        BY <4>2
      <4> QED
        BY <4>1, <4>3
    <3> QED
      BY <2>2, <3>1 DEF Recursive
  <2> HIDE DEF step
  <2>4. t = [i \in 0 .. n |-> IF i = 0 THEN s ELSE One(t[i - 1], i)]
    <3> HIDE DEF One
    <3> QED
      BY <2>3
  <2> DEFINE d == CHOOSE r : r = [i \in 0 .. n |-> IF i = 0 THEN s ELSE One(r[i - 1], i)]
  <2>5. d = [i \in 0 .. n |-> IF i = 0 THEN s ELSE One(d[i - 1], i)]
    <3> HIDE DEF One, n
    <3> QED
      BY <2>4, Zenon
  <2>6. encode_callback_field(s, f, strings) = d[n]
    BY Zenon DEF encode_callback_field, EncodeOne
  <2> HIDE DEF d, One, n
  <2>7. d \in [0 .. n -> WithinRoom] /\ Recursive(d, n, s, step)
    <3>1. d[0] = s /\ \A i \in 1 .. n : d[i] = One(d[i - 1], i)
      BY <1>1, <2>5
    <3>2. \A i \in Nat : i \in 0 .. n => d[i] \in WithinRoom
      <4> DEFINE T == {i \in Nat : i \in 0 .. n => d[i] \in WithinRoom}
      <4>1. 0 \in T
        BY <3>1
      <4>2. ASSUME NEW i \in T PROVE i + 1 \in T
        <5>1. i + 1 \in 0 .. n => i \in 0 .. n /\ i + 1 \in 1 .. n /\ d[i + 1] = One(d[(i + 1) - 1], i + 1)
          BY <1>1, <3>1
        <5>2. i \in Nat /\ (i + 1) - 1 = i
          OBVIOUS
        <5>3. \A r \in WithinRoom : i + 1 \in 1 .. n => One(r, i + 1) \in WithinRoom
          BY <1>2
        <5> QED
          BY <5>1, <5>2, <5>3
      <4>3. T = Nat
        <5>1. T \in SUBSET Nat
          OBVIOUS
        <5> HIDE DEF T
        <5> QED
          BY <4>1, <4>2, <5>1, SetInduction
      <4> QED
        BY <4>3
    <3>3. d \in [0 .. n -> WithinRoom]
      BY <1>1, <2>5, <3>2
    <3>4. ASSUME NEW i \in 1 .. n PROVE d[i] = step[<<i - 1, d[i - 1]>>]
      <4>1. i - 1 \in Nat /\ i - 1 \in 0 .. n /\ d[i - 1] \in WithinRoom /\ (i - 1) + 1 = i
        BY <1>1, <3>2
      <4>2. step[<<i - 1, d[i - 1]>>] = One(d[i - 1], i)
        BY <4>1 DEF step
      <4> QED
        BY <3>1, <4>2
    <3> QED
      BY <3>1, <3>3, <3>4 DEF Recursive
  <2> QED
    BY <2>6, <2>7
<1> HIDE DEF One, n
<1>4. step = StringsInTurn(f, strings)
  BY DEF StringsInTurn, One, n
<1> HIDE DEF step
<1> QED
  BY <1>3, <1>4 DEF n

\* The strings of a callback.
LEMMA CallbackWrites ==
  ASSUME NEW f, f.tag \in Nat, NEW strings \in Seq(Seq(Byte))
  PROVE  \E b \in Seq(Byte) : \A s \in WithinRoom :
            Wrote(s, encode_callback_field(s, f, strings), TRUE, b)
<1> DEFINE n == Len(strings)
           step == StringsInTurn(f, strings)
           x == [i \in 1 .. n |-> TRUE]
<1>1. n \in Nat /\ \A i \in 1 .. n : strings[i] \in Seq(Byte)
  OBVIOUS
<1>2. \A i \in 1 .. n : x[i] \in BOOLEAN /\ \E b \in Seq(Byte) : \A s \in WithinRoom :
          Wrote(s, step[<<i - 1, s>>], x[i], b)
  <2> TAKE i \in 1 .. n
  <2> DEFINE v == strings[i]
  <2>1. v \in Seq(Byte)
    BY <1>1
  <2>2. \A s \in WithinRoom : step[<<i - 1, s>>] = EncodeOne(s, f, v)
    <3>1. i - 1 \in Nat /\ (i - 1) + 1 = i
      OBVIOUS
    <3> HIDE DEF n
    <3> QED
      BY <3>1 DEF StringsInTurn, n
  <2>3. x[i] = TRUE
    OBVIOUS
  <2> HIDE DEF step, x, v
  <2>4. PICK b \in Seq(Byte) : \A s \in WithinRoom : Wrote(s, EncodeOne(s, f, v), TRUE, b)
    BY <2>1, OneWrites
  <2>5. \A s \in WithinRoom : Wrote(s, step[<<i - 1, s>>], x[i], b)
    BY <2>2, <2>3, <2>4, Zenon
  <2> QED
    BY <2>3, <2>5
<1>3. \A i \in 1 .. n : x[i]
  OBVIOUS
<1> HIDE DEF n, step, x
<1>4. PICK b \in Seq(Byte) : \A s \in WithinRoom : \A t :
        Recursive(t, n, s, step) => Wrote(s, t[n], \A i \in 1 .. n : x[i], b)
  BY <1>1, <1>2, WritesInTurn
<1>5. \A s \in WithinRoom : \A t : Recursive(t, n, s, step) => Wrote(s, t[n], TRUE, b)
  BY <1>3, <1>4 DEF Wrote
<1>6. \A s \in WithinRoom : Wrote(s, encode_callback_field(s, f, strings), TRUE, b)
  BY <1>5, StringsEncoded DEF n, step
<1> QED
  BY <1>6

\* A field of the message at p, y saying whether a submessage is allowed.
FieldAllowed(m, p, f, y) ==
    ~Lacks(m, p, f) =>
        /\ f.ltype = "string" => Len(m.data[Append(p, f.tag)]) < f.size
        /\ f.ltype = "submessage" => y

\* encode_field, when the submessage in the field is known.
LEMMA FieldWrites ==
  ASSUME NEW m \in Structures, NEW p \in Places, NEW f \in FieldsAt(p), NEW encoded,
         NEW y \in BOOLEAN, NEW c \in Seq(Byte),
         f.ltype = "submessage" => Holds(encoded[Append(p, f.tag)], y, c)
  PROVE  \E b \in Seq(Byte) : \A s \in WithinRoom :
            Wrote(s, encode_field(s, m, p, f, encoded), FieldAllowed(m, p, f, y), b)
<1> DEFINE a == Append(p, f.tag)
           allowed == FieldAllowed(m, p, f, y)
<1>1. /\ p \in Address /\ a \in Address /\ Under(a, a) /\ f.tag \in Nat
      /\ f.ltype \in {"bool", "int32", "enum", "string", "callback", "submessage"}
      /\ f.ltype = "submessage" => f.htype \in {"optional", "oneof"}
      /\ f.ltype = "callback" => f.htype = "optional callback"
      /\ f.ltype = "string" => f.size \in Nat \ {0}
      /\ f.ltype # "submessage" => a \in Leaves /\ FieldAt(a) = f
  <2>1. p \in Address /\ f.tag \in Nat
    BY FieldFacts
  <2>2. a \in Address /\ Under(a, a)
    BY <2>1, FieldAddress, UnderOrder
  <2> QED
    BY <2>1, <2>2, FieldFacts
<1>2. f.ltype # "submessage" => m.data[a] \in Values(f)
  BY <1>1, StructureFacts
<1>3. allowed \in BOOLEAN
  BY DEF FieldAllowed
<1>4. CASE Absent(m, p, f)
  <2>1. \A s : encode_field(s, m, p, f, encoded) = s
    BY <1>4, Zenon DEF encode_field
  <2>2. ASSUME Lacks(m, p, f) PROVE allowed
    BY <2>2 DEF FieldAllowed
  <2>3. ASSUME f.htype = "singular" /\ IsDefault(m, a) PROVE allowed
    <3>1. f.ltype # "submessage"
      BY <1>1, <2>3
    <3>2. ASSUME f.ltype = "string" PROVE Len(m.data[a]) < f.size
      <4>1. m.data[a] = Zero.data[a]
        BY <1>1, <2>3, <3>1 DEF IsDefault
      <4>2. Zero.data[a] = << >>
        <5>1. Zero.data[a] = Default(f)
          BY <1>1, <3>1 DEF Zero
        <5> QED
          BY <3>2, <5>1 DEF Default
      <4> QED
        BY <1>1, <3>2, <4>1, <4>2
    <3> QED
      BY <3>1, <3>2 DEF FieldAllowed
  <2>4. allowed
    BY <1>4, <2>2, <2>3 DEF Absent, Lacks
  <2>5. << >> \in Seq(Byte)
    OBVIOUS
  <2>6. \A s \in WithinRoom : Wrote(s, s, TRUE, << >>)
    BY NothingWrites
  <2> HIDE DEF allowed
  <2>7. \A s \in WithinRoom : Wrote(s, encode_field(s, m, p, f, encoded), allowed, << >>)
    BY <2>1, <2>4, <2>6 DEF Wrote
  <2> QED
    BY <2>5, <2>7 DEF allowed
<1>5. CASE ~Absent(m, p, f)
  <2>0. ~Lacks(m, p, f)
    BY <1>5 DEF Absent, Lacks
  <2>1. CASE f.ltype = "callback"
    <3>1. \A s : encode_field(s, m, p, f, encoded) = encode_callback_field(s, f, m.data[a])
      BY <1>5, <2>1, Zenon DEF encode_field
    <3>2. m.data[a] \in Seq(Seq(Byte))
      BY <1>2, <2>1 DEF Values
    <3> DEFINE v == m.data[a]
    <3> HIDE DEF v
    <3>3. PICK b \in Seq(Byte) : \A s \in WithinRoom : Wrote(s, encode_callback_field(s, f, v), TRUE, b)
      BY <1>1, <3>2, CallbackWrites DEF v
    <3>4. allowed
      BY <2>1 DEF FieldAllowed
    <3> HIDE DEF allowed
    <3>5. \A s \in WithinRoom : Wrote(s, encode_field(s, m, p, f, encoded), allowed, b)
      BY <3>1, <3>3, <3>4 DEF Wrote, v
    <3> QED
      BY <3>5 DEF allowed
  <2>2. CASE f.ltype = "submessage"
    <3>1. \A s : encode_field(s, m, p, f, encoded) =
                    pb_encode_submessage(pb_encode_tag_for_field(s, f), a, encoded)
      BY <1>5, <2>2, Zenon DEF encode_field
    <3>2. PICK g \in Seq(Byte) : \A s \in WithinRoom : Wrote(s, pb_encode_tag_for_field(s, f), TRUE, g)
      BY <1>1, TagWrites
    <3>3. PICK b \in Seq(Byte) : \A s \in WithinRoom : Wrote(s, pb_encode_submessage(s, a, encoded), y, b)
      <4>1. Holds(encoded[a], y, c)
        BY <2>2
      <4> HIDE DEF a
      <4> QED
        BY <4>1, SubmessageWrites
    <3>4. allowed <=> y
      BY <2>0, <2>2 DEF FieldAllowed
    <3> HIDE DEF a, allowed
    <3>5. ASSUME NEW s \in WithinRoom
          PROVE  Wrote(s, encode_field(s, m, p, f, encoded), allowed, g \o b)
      <4> DEFINE t == pb_encode_tag_for_field(s, f)
                 u == pb_encode_submessage(t, a, encoded)
      <4>1. Wrote(s, t, TRUE, g) /\ t \in WithinRoom
        BY <3>2, WritesWithinRoom
      <4>2. Wrote(t, u, y, b)
        BY <3>3, <4>1
      <4>3. encode_field(s, m, p, f, encoded) = u
        BY <3>1
      <4> HIDE DEF t, u
      <4>4. Wrote(s, u, y, g \o b) /\ g \o b \in Seq(Byte)
        BY <4>1, <4>2, WriteThen
      <4> QED
        BY <3>4, <4>3, <4>4 DEF Wrote
    <3>6. g \o b \in Seq(Byte)
      OBVIOUS
    <3> QED
      BY <3>5, <3>6 DEF allowed
  <2>3. CASE f.ltype \notin {"callback", "submessage"}
    <3>1. \A s : encode_field(s, m, p, f, encoded) = encode_basic_field(s, f, m.data[a])
      BY <1>5, <2>3, Zenon DEF encode_field
    <3> DEFINE v == m.data[a]
    <3>2. v \in Values(f) /\ f.ltype \in {"bool", "enum", "int32", "string"}
      BY <1>1, <1>2, <2>3
    <3>3. allowed <=> StringAllowed(f, v)
      BY <2>0, <2>3 DEF FieldAllowed, StringAllowed
    <3> HIDE DEF v, allowed
    <3>4. PICK b \in Seq(Byte) : \A s \in WithinRoom :
            Wrote(s, encode_basic_field(s, f, v), StringAllowed(f, v), b)
      BY <1>1, <3>2, BasicFieldWrites
    <3>5. \A s \in WithinRoom : Wrote(s, encode_field(s, m, p, f, encoded), allowed, b)
      BY <3>1, <3>3, <3>4 DEF Wrote, v
    <3> QED
      BY <3>5 DEF allowed
  <2> QED
    BY <2>1, <2>2, <2>3
<1> QED
  BY <1>4, <1>5

-----------------------------------------------------------------------------
(* The messages at all places                                              *)

\* Streams that hold the same for every size.
Contained ==
    {g \in [Places -> [Sizes -> WithinRoom]] :
        \A p \in Places : \E c \in Seq(Byte) : Holds(g[p], g[p][Counting].ok, c)}

\* The field with a number, on a stream; the submessages are those of g.
FieldsInTurn(m, p, g) ==
    [q \in Nat \X WithinRoom |->
        IF q[1] + 1 \in 1 .. Len(Fields[p])
        THEN encode_field(q[2], m, p, Fields[p][q[1] + 1], g) ELSE q[2]]
AllowedIn(m, p, f, g) == FieldAllowed(m, p, f, g[Append(p, f.tag)][Counting].ok)

\* The fields of the message at a place.
LEMMA PlaceFields ==
  ASSUME NEW p \in Places
  PROVE  /\ Len(Fields[p]) \in Nat
         /\ \A i \in 1 .. Len(Fields[p]) : Fields[p][i] \in FieldsAt(p)
         /\ \A f \in FieldsAt(p) : \E i \in 1 .. Len(Fields[p]) : f = Fields[p][i]
  BY FieldsAssumption DEF FieldsAt

\* The same, with the submessages of g.
LEMMA FieldInTurn ==
  ASSUME NEW m \in Structures, NEW p \in Places, NEW g \in Contained, NEW f \in FieldsAt(p)
  PROVE  \E b \in Seq(Byte) : \A s \in WithinRoom :
            Wrote(s, encode_field(s, m, p, f, g), AllowedIn(m, p, f, g), b)
<1> DEFINE a == Append(p, f.tag)
<1>1. CASE f.ltype = "submessage"
  <2>1. a \in Places
    BY <1>1, FieldFacts
  <2>2. PICK c \in Seq(Byte) : Holds(g[a], g[a][Counting].ok, c)
    BY <2>1 DEF Contained
  <2> DEFINE y == g[a][Counting].ok
  <2>3. y \in BOOLEAN
    <3>1. Counting \in Sizes
      BY DEF Sizes
    <3>2. g[a][Counting] \in WithinRoom
      BY <2>1, <3>1 DEF Contained
    <3> QED
      BY <3>2, StreamFacts
  <2> HIDE DEF y
  <2>4. Holds(g[a], y, c)
    BY <2>2 DEF y
  <2>5. \E b \in Seq(Byte) : \A s \in WithinRoom :
            Wrote(s, encode_field(s, m, p, f, g), FieldAllowed(m, p, f, y), b)
    BY <2>3, <2>4, FieldWrites
  <2> QED
    BY <2>5 DEF y, AllowedIn
<1>2. CASE f.ltype # "submessage"
  <2>1. << >> \in Seq(Byte)
    OBVIOUS
  <2>2. PICK b \in Seq(Byte) : \A s \in WithinRoom :
            Wrote(s, encode_field(s, m, p, f, g), FieldAllowed(m, p, f, TRUE), b)
    BY <1>2, <2>1, TRUE \in BOOLEAN, FieldWrites
  <2>3. FieldAllowed(m, p, f, TRUE) <=> AllowedIn(m, p, f, g)
    BY <1>2 DEF FieldAllowed, AllowedIn
  <2>4. \A s \in WithinRoom : Wrote(s, encode_field(s, m, p, f, g), AllowedIn(m, p, f, g), b)
    BY <2>2, <2>3 DEF Wrote
  <2> QED
    BY <2>4
<1> QED
  BY <1>1, <1>2

\* What EncodeFields computes.  Of e, only the submessages of the message count.
LEMMA FieldsEncoded ==
  ASSUME NEW m \in Structures, NEW p \in Places, NEW g \in Contained, NEW s \in WithinRoom, NEW e,
         \A f \in FieldsAt(p) : f.ltype = "submessage" => e[Append(p, f.tag)] = g[Append(p, f.tag)]
  PROVE  \E t \in [0 .. Len(Fields[p]) -> WithinRoom] :
            /\ Recursive(t, Len(Fields[p]), s, FieldsInTurn(m, p, g))
            /\ EncodeFields(s, m, p, e) = t[Len(Fields[p])]
<1> DEFINE n == Len(Fields[p])
           One(r, i) == encode_field(r, m, p, Fields[p][i], e)
           step == FieldsInTurn(m, p, g)
<1>1. n \in Nat /\ \A i \in 1 .. n : Fields[p][i] \in FieldsAt(p)
  BY PlaceFields
<1>0. \A i \in 1 .. n : \A r : One(r, i) = encode_field(r, m, p, Fields[p][i], g)
  <2>1. ASSUME NEW f \in FieldsAt(p), NEW r PROVE encode_field(r, m, p, f, e) = encode_field(r, m, p, f, g)
    <3>1. f.ltype = "submessage" => e[Append(p, f.tag)] = g[Append(p, f.tag)]
      OBVIOUS
    <3> QED
      BY <3>1 DEF encode_field, pb_encode_submessage
  <2> QED
    BY <1>1, <2>1
<1>2. \A i \in 1 .. n : \A r \in WithinRoom : One(r, i) \in WithinRoom
  <2>1. \A i \in 1 .. n : \A r \in WithinRoom : encode_field(r, m, p, Fields[p][i], g) \in WithinRoom
    BY <1>1, FieldInTurn, WritesWithinRoom
  <2> HIDE DEF One
  <2> QED
    BY <1>0, <2>1
<1>3. step = [q \in Nat \X WithinRoom |-> IF q[1] + 1 \in 1 .. n THEN One(q[2], q[1] + 1) ELSE q[2]]
  <2> HIDE DEF One
  <2> QED
    BY <1>0 DEF FieldsInTurn
<1> DEFINE d == CHOOSE r : r = [i \in 0 .. n |-> IF i = 0 THEN s ELSE One(r[i - 1], i)]
<1>4. EncodeFields(s, m, p, e) = d[n]
  BY Zenon DEF EncodeFields
<1> HIDE DEF One, n, step
<1>5. step \in [Nat \X WithinRoom -> WithinRoom]
  BY <1>2, <1>3
<1>6. ASSUME NEW i \in 1 .. n, NEW r \in WithinRoom PROVE step[<<i - 1, r>>] = One(r, i)
  <2>1. i - 1 \in Nat /\ (i - 1) + 1 = i
    BY <1>1
  <2> QED
    BY <1>3, <2>1
<1>7. PICK t \in [0 .. n -> WithinRoom] : Recursive(t, n, s, step)
  <2>1. \A a \in WithinRoom : \E t \in [0 .. n -> WithinRoom] : Recursive(t, n, a, step)
    BY <1>1, <1>5, RecursionUpTo
  <2> QED
    BY <2>1
<1>8. t[0] = s /\ \A i \in 1 .. n : t[i] = One(t[i - 1], i)
  <2>1. ASSUME NEW i \in 1 .. n PROVE t[i] = One(t[i - 1], i)
    <3>1. t[i] = step[<<i - 1, t[i - 1]>>] /\ i - 1 \in 0 .. n
      BY <1>1, <1>7 DEF Recursive
    <3> QED
      BY <1>6, <3>1
  <2> QED
    BY <1>7, <2>1 DEF Recursive
<1>9. t = [i \in 0 .. n |-> IF i = 0 THEN s ELSE One(t[i - 1], i)]
  BY <1>8
<1>10. d = [i \in 0 .. n |-> IF i = 0 THEN s ELSE One(d[i - 1], i)]
  BY <1>9, Zenon
<1> HIDE DEF d
<1>11. d[0] = s /\ \A i \in 1 .. n : d[i] = One(d[i - 1], i)
  BY <1>1, <1>10
<1>12. \A i \in Nat : i \in 0 .. n => d[i] \in WithinRoom
  <2> DEFINE T == {i \in Nat : i \in 0 .. n => d[i] \in WithinRoom}
  <2>1. 0 \in T
    BY <1>11
  <2>2. ASSUME NEW i \in T PROVE i + 1 \in T
    <3>1. i + 1 \in 0 .. n => i \in 0 .. n /\ i + 1 \in 1 .. n /\ d[i + 1] = One(d[(i + 1) - 1], i + 1)
      BY <1>1, <1>11
    <3>2. i \in Nat /\ (i + 1) - 1 = i
      OBVIOUS
    <3> QED
      BY <1>2, <3>1, <3>2
  <2>3. T = Nat
    <3>1. T \in SUBSET Nat
      OBVIOUS
    <3> HIDE DEF T
    <3> QED
      BY <2>1, <2>2, <3>1, SetInduction
  <2> QED
    BY <2>3
<1>13. d \in [0 .. n -> WithinRoom]
  BY <1>1, <1>10, <1>12
<1>14. ASSUME NEW i \in 1 .. n PROVE d[i] = step[<<i - 1, d[i - 1]>>]
  <2>1. i - 1 \in 0 .. n
    BY <1>1
  <2> QED
    BY <1>6, <1>11, <1>13, <2>1
<1>15. Recursive(d, n, s, step)
  BY <1>11, <1>14 DEF Recursive
<1> QED
  BY <1>4, <1>13, <1>15 DEF n, step

\* The message at p is written if its fields are allowed.
LEMMA MessageWrites ==
  ASSUME NEW m \in Structures, NEW p \in Places, NEW g \in Contained
  PROVE  \E b \in Seq(Byte) : \A s \in WithinRoom :
            Wrote(s, EncodeFields(s, m, p, g), \A f \in FieldsAt(p) : AllowedIn(m, p, f, g), b)
<1> DEFINE n == Len(Fields[p])
           step == FieldsInTurn(m, p, g)
           x == [i \in 1 .. n |-> AllowedIn(m, p, Fields[p][i], g)]
<1>1. n \in Nat /\ \A i \in 1 .. n : Fields[p][i] \in FieldsAt(p)
  BY PlaceFields
<1>2. \A i \in 1 .. n : x[i] \in BOOLEAN /\ \E b \in Seq(Byte) : \A s \in WithinRoom :
          Wrote(s, step[<<i - 1, s>>], x[i], b)
  <2> TAKE i \in 1 .. n
  <2> DEFINE f == Fields[p][i]
  <2>1. x[i] = AllowedIn(m, p, f, g)
    OBVIOUS
  <2>2. x[i] \in BOOLEAN
    BY <2>1 DEF AllowedIn, FieldAllowed
  <2>3. \A s \in WithinRoom : step[<<i - 1, s>>] = encode_field(s, m, p, f, g)
    <3>1. i - 1 \in Nat /\ (i - 1) + 1 = i
      BY <1>1
    <3> QED
      BY <3>1 DEF FieldsInTurn
  <2>4. f \in FieldsAt(p)
    BY <1>1
  <2> HIDE DEF x, step, f
  <2>5. PICK b \in Seq(Byte) : \A s \in WithinRoom :
            Wrote(s, encode_field(s, m, p, f, g), AllowedIn(m, p, f, g), b)
    BY <2>4, FieldInTurn
  <2>6. \A s \in WithinRoom : Wrote(s, step[<<i - 1, s>>], x[i], b)
    BY <2>1, <2>3, <2>5, Zenon
  <2> QED
    BY <2>2, <2>6
<1>3. (\A i \in 1 .. n : x[i]) <=> \A f \in FieldsAt(p) : AllowedIn(m, p, f, g)
  <2>1. \A i \in 1 .. n : x[i] <=> AllowedIn(m, p, Fields[p][i], g)
    OBVIOUS
  <2>2. \A f \in FieldsAt(p) : \E i \in 1 .. n : f = Fields[p][i]
    BY PlaceFields
  <2> HIDE DEF x, n
  <2> QED
    BY <1>1, <2>1, <2>2, Zenon
<1> HIDE DEF x, step
<1>4. PICK b \in Seq(Byte) : \A s \in WithinRoom : \A t :
        Recursive(t, n, s, step) => Wrote(s, t[n], \A i \in 1 .. n : x[i], b)
  <2> HIDE DEF n
  <2> QED
    BY <1>1, <1>2, WritesInTurn
<1>5. ASSUME NEW s \in WithinRoom
      PROVE  Wrote(s, EncodeFields(s, m, p, g), \A f \in FieldsAt(p) : AllowedIn(m, p, f, g), b)
  <2>1. PICK t \in [0 .. n -> WithinRoom] :
           Recursive(t, n, s, step) /\ EncodeFields(s, m, p, g) = t[n]
    BY FieldsEncoded DEF step
  <2> HIDE DEF n
  <2>2. Wrote(s, t[n], \A i \in 1 .. n : x[i], b)
    BY <1>4, <2>1
  <2> DEFINE y == \A i \in 1 .. n : x[i]
             z == \A f \in FieldsAt(p) : AllowedIn(m, p, f, g)
             u == t[n]
  <2>3. Wrote(s, u, y, b) /\ (y <=> z)
    BY <1>3, <2>2
  <2> HIDE DEF y, z, u
  <2>4. Wrote(s, u, z, b)
    BY <2>3 DEF Wrote
  <2> QED
    BY <2>1, <2>4 DEF z, u
<1> QED
  BY <1>5

\* It depends on its submessages.
LEMMA SameSubmessages ==
  ASSUME NEW m \in Structures, NEW p \in Places, NEW g \in Contained, NEW e,
         \A f \in FieldsAt(p) : f.ltype = "submessage" => e[Append(p, f.tag)] = g[Append(p, f.tag)],
         NEW s \in WithinRoom
  PROVE  EncodeFields(s, m, p, e) = EncodeFields(s, m, p, g)
<1> DEFINE n == Len(Fields[p])
<1>1. n \in Nat
  BY PlaceFields
<1>2. PICK t : Recursive(t, n, s, FieldsInTurn(m, p, g)) /\ EncodeFields(s, m, p, g) = t[n]
  BY FieldsEncoded
<1>3. PICK u : Recursive(u, n, s, FieldsInTurn(m, p, g)) /\ EncodeFields(s, m, p, e) = u[n]
  BY FieldsEncoded
<1>4. t[n] = u[n]
  <2> HIDE DEF n
  <2>1. n <= n
    BY <1>1
  <2> DEFINE step == FieldsInTurn(m, p, g)
  <2>2. Recursive(t, n, s, step) /\ Recursive(u, n, s, step)
    BY <1>2, <1>3
  <2> HIDE DEF step
  <2> QED
    BY <1>1, <2>1, <2>2, RecursionUnique
<1> QED
  BY <1>2, <1>3, <1>4

\* The messages at all places, when the submessages are those of g.
EncodeOnce(m, g) == [p \in Places |-> [size \in Sizes |-> EncodeFields(Stream(size), m, p, g)]]

\* Encoding once more leaves the submessages what they have to be.
LEMMA OnceContained ==
  ASSUME NEW m \in Structures, NEW g \in Contained
  PROVE  /\ EncodeOnce(m, g) \in Contained
         /\ \A p \in Places :
               EncodeOnce(m, g)[p][Counting].ok <=> \A f \in FieldsAt(p) : AllowedIn(m, p, f, g)
<1> DEFINE e == EncodeOnce(m, g)
<1>1. \A p \in Places : \A size \in Sizes : e[p][size] = EncodeFields(Stream(size), m, p, g)
  BY DEF EncodeOnce
<1>2. Counting \in Sizes
  BY DEF Sizes
<1>3. e = [p \in Places |-> [size \in Sizes |-> e[p][size]]]
  BY DEF EncodeOnce
<1> HIDE DEF e
<1>4. ASSUME NEW p \in Places
      PROVE  /\ \A size \in Sizes : e[p][size] \in WithinRoom
             /\ \E c \in Seq(Byte) : Holds(e[p], e[p][Counting].ok, c)
             /\ e[p][Counting].ok <=> \A f \in FieldsAt(p) : AllowedIn(m, p, f, g)
  <2> DEFINE z == \A f \in FieldsAt(p) : AllowedIn(m, p, f, g)
  <2>1. PICK c \in Seq(Byte) : \A s \in WithinRoom : Wrote(s, EncodeFields(s, m, p, g), z, c)
    BY MessageWrites
  <2> HIDE DEF z
  <2>2. \A size \in Sizes : Wrote(Stream(size), e[p][size], z, c)
    BY <1>1, <2>1, StreamsFor
  <2>3. e[p][Counting].ok <=> z
    <3>1. Wrote(Stream(Counting), e[p][Counting], z, c) /\ Stream(Counting).ok /\ Stream(Counting).sizing
      BY <1>2, <2>2, StreamsFor
    <3> QED
      BY <3>1 DEF Wrote, Room
  <2>4. Holds(e[p], e[p][Counting].ok, c)
    BY <2>2, <2>3 DEF Holds, Wrote
  <2>5. \A size \in Sizes : e[p][size] \in WithinRoom
    BY <2>2, WritesWithinRoom
  <2> QED
    BY <2>3, <2>4, <2>5 DEF z
<1>5. e \in [Places -> [Sizes -> WithinRoom]]
  BY <1>3, <1>4
<1>6. e \in Contained
  BY <1>4, <1>5 DEF Contained
<1> QED
  BY <1>4, <1>6 DEF e

\* No place is deeper than Depth.
LEMMA PlacesAreDeep == Depth \in Nat /\ \A p \in Places : Len(p) \in Nat /\ Len(p) < Depth
<1>1. Depth \in Nat /\ \A p \in Places : p \in Seq(Nat) /\ Len(p) < Depth
  BY FieldsAssumption
<1>2. \A p \in Seq(Nat) : Len(p) \in Nat
  OBVIOUS
<1> QED
  BY <1>1, <1>2

\* The recursion ends: it goes as deep as the messages are inside one another.
LEMMA EncodedDefined ==
  ASSUME NEW m \in Structures
  PROVE  Encoded(m) \in Contained /\ Encoded(m) = EncodeOnce(m, Encoded(m))
<1> DEFINE start == [p \in Places |-> [size \in Sizes |-> Stream(size)]]
           step == [q \in Nat \X Contained |-> EncodeOnce(m, q[2])]
           n == Depth + 1
<1>1. start \in Contained
  <2>1. \A p \in Places : \A size \in Sizes : start[p][size] = Stream(size)
    OBVIOUS
  <2>2. start \in [Places -> [Sizes -> WithinRoom]]
    BY StreamsFor
  <2> HIDE DEF start
  <2>3. << >> \in Seq(Byte) /\ Counting \in Sizes
    BY DEF Sizes
  <2>4. \A p \in Places : start[p][Counting].ok
    BY <2>1, <2>3, StreamsFor
  <2>5. \A p \in Places : Holds(start[p], start[p][Counting].ok, << >>)
    <3>1. \A size \in Sizes : Wrote(Stream(size), Stream(size), TRUE, << >>)
      BY StreamsFor, NothingWrites
    <3>2. \A p \in Places : \A size \in Sizes :
             Wrote(Stream(size), start[p][size], start[p][Counting].ok, << >>)
      BY <2>1, <2>4, <3>1 DEF Wrote
    <3> QED
      BY <3>2 DEF Holds
  <2> QED
    BY <2>2, <2>3, <2>5 DEF Contained
<1>2. step \in [Nat \X Contained -> Contained]
  BY OnceContained
<1>3. Depth \in Nat /\ n \in Nat /\ n = Depth + 1
  BY PlacesAreDeep
<1> HIDE DEF start, n
<1>4. PICK f \in [0 .. n -> Contained] : Recursive(f, n, start, step)
  <2> HIDE DEF step
  <2>1. \A a \in Contained : \E f \in [0 .. n -> Contained] : Recursive(f, n, a, step)
    BY <1>2, <1>3, RecursionUpTo
  <2> QED
    BY <1>1, <2>1
<1>5. ASSUME NEW i \in 1 .. n
      PROVE  i - 1 \in 0 .. n /\ f[i - 1] \in Contained /\ f[i] = EncodeOnce(m, f[i - 1])
  <2>1. f[i] = step[<<i - 1, f[i - 1]>>]
    BY <1>4 DEF Recursive
  <2>2. i - 1 \in Nat /\ i - 1 \in 0 .. n /\ f[i - 1] \in Contained
    BY <1>3
  <2> QED
    BY <2>1, <2>2
<1> HIDE DEF step
<1>6. ASSUME NEW p \in Places, NEW g \in Contained, NEW e,
             \A a \in Places : Len(a) = Len(p) + 1 => e[a] = g[a]
      PROVE  EncodeOnce(m, e)[p] = EncodeOnce(m, g)[p]
  <2>1. ASSUME NEW x \in FieldsAt(p), x.ltype = "submessage"
        PROVE  e[Append(p, x.tag)] = g[Append(p, x.tag)]
    <3>1. Append(p, x.tag) \in Places /\ Len(Append(p, x.tag)) = Len(p) + 1
      BY <2>1, FieldFacts, FieldAddress
    <3> QED
      BY <1>6, <3>1
  <2>2. \A size \in Sizes : EncodeFields(Stream(size), m, p, e) = EncodeFields(Stream(size), m, p, g)
    BY <2>1, SameSubmessages, StreamsFor
  <2> QED
    BY <2>2 DEF EncodeOnce
\* After k steps, the messages at the Depth - k innermost places are as they stay.
<1> DEFINE Same(k) == \A p \in Places : Len(p) + k >= Depth => f[k + 1][p] = f[k][p]
<1>7. \A k \in Nat : k <= Depth => Same(k)
  <2> DEFINE T == {k \in Nat : k <= Depth => Same(k)}
  <2>1. 0 \in T
    <3>1. \A p \in Places : Len(p) \in Nat /\ Len(p) < Depth
      BY PlacesAreDeep
    <3> QED
      BY <1>3, <3>1
  <2>2. ASSUME NEW k \in T PROVE k + 1 \in T
    <3>0. k \in Nat
      OBVIOUS
    <3>1. ASSUME k + 1 <= Depth, NEW p \in Places, Len(p) + (k + 1) >= Depth
          PROVE  f[(k + 1) + 1][p] = f[k + 1][p]
      <4>1. Len(p) \in Nat
        BY PlacesAreDeep
      <4>2. k + 1 \in 1 .. n /\ (k + 1) + 1 \in 1 .. n /\ (k + 1) - 1 = k /\ ((k + 1) + 1) - 1 = k + 1
        BY <1>3, <3>0, <3>1
      <4>3. /\ f[k + 1] = EncodeOnce(m, f[k]) /\ f[(k + 1) + 1] = EncodeOnce(m, f[k + 1])
            /\ f[k] \in Contained
        BY <1>5, <4>2
      <4>4. Same(k)
        BY <1>3, <3>0, <3>1
      <4>5. \A a \in Places : Len(a) = Len(p) + 1 => f[k + 1][a] = f[k][a]
        <5>1. \A a \in Places : Len(a) = Len(p) + 1 => Len(a) + k >= Depth
          BY <1>3, <3>0, <3>1, <4>1
        <5> QED
          BY <4>4, <5>1
      <4>6. EncodeOnce(m, f[k + 1])[p] = EncodeOnce(m, f[k])[p]
        BY <1>6, <4>3, <4>5
      <4> QED
        BY <4>3, <4>6
    <3>2. k + 1 <= Depth => Same(k + 1)
      BY <3>1
    <3> HIDE DEF Same
    <3> QED
      BY <3>0, <3>2
  <2>3. T = Nat
    <3>1. T \in SUBSET Nat
      OBVIOUS
    <3> HIDE DEF T
    <3> QED
      BY <2>1, <2>2, <3>1, SetInduction
  <2> HIDE DEF Same
  <2> QED
    BY <2>3
<1> DEFINE g == f[Depth]
<1>8. g \in Contained /\ g = EncodeOnce(m, g)
  <2>1. Depth \in 0 .. n /\ Depth + 1 \in 1 .. n /\ (Depth + 1) - 1 = Depth
    BY <1>3
  <2>2. f[Depth + 1] = EncodeOnce(m, g) /\ g \in Contained /\ f[Depth + 1] \in Contained
    BY <1>5, <2>1
  <2>3. \A p \in Places : f[Depth + 1][p] = g[p]
    <3>1. Same(Depth)
      BY <1>3, <1>7
    <3>2. \A p \in Places : Len(p) + Depth >= Depth
      <4>1. \A p \in Places : Len(p) \in Nat
        BY PlacesAreDeep
      <4> QED
        BY <1>3, <4>1
    <3> QED
      BY <3>1, <3>2
  <2> DEFINE h == f[Depth + 1]
  <2> HIDE DEF g, h
  <2>4. h \in [Places -> [Sizes -> WithinRoom]] /\ g \in [Places -> [Sizes -> WithinRoom]]
    BY <2>2 DEF Contained, h
  <2>5. h = g
    BY <2>3, <2>4 DEF h
  <2> QED
    BY <2>2, <2>5 DEF h
<1> HIDE DEF g
<1> DEFINE e == Encoded(m)
<1>9. e = EncodeOnce(m, e)
  <2>1. g = [p \in Places |-> [size \in Sizes |-> EncodeFields(Stream(size), m, p, g)]]
    BY <1>8 DEF EncodeOnce
  <2>2. e = [p \in Places |-> [size \in Sizes |-> EncodeFields(Stream(size), m, p, e)]]
    BY <2>1, Zenon DEF Encoded
  <2> QED
    BY <2>2 DEF EncodeOnce
<1> HIDE DEF e
\* There is only one such function.
<1>10. \A k \in Nat : \A p \in Places : Len(p) + k >= Depth => e[p] = g[p]
  <2> DEFINE Equal(k) == \A p \in Places : Len(p) + k >= Depth => e[p] = g[p]
             T == {k \in Nat : Equal(k)}
  <2>1. 0 \in T
    <3>1. \A p \in Places : Len(p) \in Nat /\ Len(p) < Depth
      BY PlacesAreDeep
    <3> QED
      BY <1>3, <3>1
  <2>2. ASSUME NEW k \in T PROVE k + 1 \in T
    <3>0. k \in Nat /\ Equal(k)
      OBVIOUS
    <3>1. ASSUME NEW p \in Places, Len(p) + (k + 1) >= Depth PROVE e[p] = g[p]
      <4>1. Len(p) \in Nat
        BY PlacesAreDeep
      <4>2. \A a \in Places : Len(a) = Len(p) + 1 => e[a] = g[a]
        <5>1. \A a \in Places : Len(a) = Len(p) + 1 => Len(a) + k >= Depth
          BY <1>3, <3>0, <3>1, <4>1
        <5> QED
          BY <3>0, <5>1
      <4>3. EncodeOnce(m, e)[p] = EncodeOnce(m, g)[p]
        BY <1>6, <1>8, <4>2
      <4> QED
        BY <1>8, <1>9, <4>3
    <3> QED
      BY <3>0, <3>1
  <2>3. T = Nat
    <3>1. T \in SUBSET Nat
      OBVIOUS
    <3> HIDE DEF T
    <3> QED
      BY <2>1, <2>2, <3>1, SetInduction
  <2> HIDE DEF Equal
  <2>4. \A k \in Nat : Equal(k)
    BY <2>3
  <2> QED
    BY <2>4 DEF Equal
<1>11. e = g
  <2>1. \A p \in Places : e[p] = g[p]
    <3>1. \A p \in Places : Len(p) + Depth >= Depth
      <4>1. \A p \in Places : Len(p) \in Nat
        BY PlacesAreDeep
      <4> QED
        BY <1>3, <4>1
    <3> QED
      BY <1>3, <1>10, <3>1
  <2>2. e = [p \in Places |-> e[p]] /\ g = [p \in Places |-> g[p]]
    <3>1. \A x : EncodeOnce(m, x) = [p \in Places |-> EncodeOnce(m, x)[p]]
      BY DEF EncodeOnce
    <3> QED
      BY <1>8, <1>9, <3>1
  <2> QED
    BY <2>1, <2>2
<1> QED
  BY <1>8, <1>9, <1>11 DEF e

-----------------------------------------------------------------------------
(* The strings of a message                                                *)

\* A place under another one is under one of its submessages.
LEMMA PlaceInside ==
  ASSUME NEW p \in Places, NEW q \in Places, Under(q, p), q # p
  PROVE  \E f \in FieldsAt(p) : f.ltype = "submessage" /\ Under(q, Append(p, f.tag))
<1>1. p \in Address /\ q \in Address /\ Len(p) \in Nat /\ Len(q) \in Nat
  BY PlaceIsAddress, PlacesAreDeep
<1>2. Len(p) <= Len(q) /\ SubSeq(q, 1, Len(p)) = p /\ \A i \in 1 .. Len(p) : q[i] = p[i]
  <2>1. Len(p) <= Len(q) /\ \A i \in 1 .. Len(p) : q[i] = p[i]
    BY <1>1, UnderIs
  <2> QED
    BY <2>1 DEF Under
<1>3. Len(p) < Len(q)
  <2> SUFFICES ASSUME Len(p) = Len(q) PROVE FALSE
    BY <1>1, <1>2
  <2>1. Len(q) <= Len(p) /\ \A i \in 1 .. Len(q) : p[i] = q[i]
    BY <1>1, <1>2
  <2>2. Under(p, q)
    BY <1>1, <2>1, UnderIs
  <2> QED
    BY <1>1, <2>2, UnderOrder
<1>4. PICK f \in FieldsAt(p) : f.tag = q[Len(p) + 1] /\ f.ltype = "submessage"
  <2>1. \A k \in 0 .. Len(q) - 1 : \E f \in FieldsAt(SubSeq(q, 1, k)) :
           f.tag = q[k + 1] /\ f.ltype = "submessage"
    BY FieldsAssumption
  <2>2. Len(p) \in 0 .. Len(q) - 1
    BY <1>1, <1>3
  <2>3. \E f \in FieldsAt(SubSeq(q, 1, Len(p))) : f.tag = q[Len(p) + 1] /\ f.ltype = "submessage"
    BY <2>1, <2>2
  <2> QED
    BY <1>2, <2>3
<1>5. Under(q, Append(p, f.tag))
  <2> DEFINE a == Append(p, f.tag)
  <2>1. /\ a \in Address /\ Len(a) = Len(p) + 1 /\ a[Len(p) + 1] = f.tag
        /\ \A i \in 1 .. Len(p) : a[i] = p[i]
    BY <1>1, FieldFacts, FieldAddress, ZenonT(30)
  <2> HIDE DEF a
  <2>2. Len(a) <= Len(q) /\ \A i \in 1 .. Len(a) : q[i] = a[i]
    BY <1>1, <1>2, <1>3, <1>4, <2>1
  <2>3. Under(q, a)
    BY <1>1, <2>1, <2>2, UnderIs
  <2> QED
    BY <2>3 DEF a
<1> QED
  BY <1>4, <1>5

\* There are no messages at and under a leaf.
LEMMA LeafNotPlace ==
  ASSUME NEW a \in Leaves
  PROVE  a \notin Places
<1> SUFFICES ASSUME a \in Places PROVE FALSE
  OBVIOUS
<1>0. PICK p \in Places : \E f \in FieldsAt(p) : a = Append(p, f.tag) /\ f.ltype # "submessage"
  BY LeafFacts
<1>1. PICK f \in FieldsAt(p) : a = Append(p, f.tag) /\ f.ltype # "submessage"
  BY <1>0
<1>2. p \in Address /\ a \in Address /\ f.tag \in Nat
  BY PlaceIsAddress, FieldFacts
<1>3. Under(a, p) /\ a # p
  BY <1>1, <1>2, UnderField, UnderOrder
<1>4. PICK g \in FieldsAt(p) : g.ltype = "submessage" /\ Under(a, Append(p, g.tag))
  BY <1>3, PlaceInside
<1>5. g.tag = f.tag
  BY <1>1, <1>2, <1>4, FieldFacts, UnderField
<1> QED
  BY <1>1, <1>4, <1>5, FieldFacts

\* Everything is there that is around a, up to the message at p; and the
\* strings of the message at p that are there, inside others or not, fit.
PresentFrom(m, a, p) ==
    \A q \in Places : Under(q, p) =>
        \A f \in FieldsAt(q) : Under(a, Append(q, f.tag)) => ~Lacks(m, q, f)
StringsFitAt(m, p) ==
    \A a \in Leaves :
        FieldAt(a).ltype = "string" /\ Under(a, p) /\ PresentFrom(m, a, p)
            => Len(m.data[a]) < FieldAt(a).size

\* They do if those of each of its fields do.
LEMMA FitByFields ==
  ASSUME NEW m, NEW p \in Places
  PROVE  StringsFitAt(m, p) <=>
            \A f \in FieldsAt(p) : FieldAllowed(m, p, f, StringsFitAt(m, Append(p, f.tag)))
<1>0. p \in Address /\ Under(p, p) /\ \A q \in Places : q \in Address
  BY PlaceIsAddress, UnderOrder
<1>1. ASSUME StringsFitAt(m, p), NEW f \in FieldsAt(p), ~Lacks(m, p, f)
      PROVE  /\ f.ltype = "string" => Len(m.data[Append(p, f.tag)]) < f.size
             /\ f.ltype = "submessage" => StringsFitAt(m, Append(p, f.tag))
  <2> DEFINE b == Append(p, f.tag)
  <2>1. b \in Address /\ f.tag \in Nat
    BY <1>0, FieldFacts, FieldAddress
  <2>2. Under(b, p)
    BY <1>0, <2>1, UnderField
  <2>3. CASE f.ltype = "string"
    <3>1. b \in Leaves /\ FieldAt(b) = f
      BY <2>3, FieldFacts
    <3>2. ASSUME NEW q \in Places, Under(q, p), NEW g \in FieldsAt(q), Under(b, Append(q, g.tag))
          PROVE  ~Lacks(m, q, g)
      <4>1. (q = p /\ g = f) \/ Under(p, Append(q, g.tag))
        BY <3>2, AroundField
      <4>2. q \in Address /\ g.tag \in Nat /\ Append(q, g.tag) \in Address
        BY <1>0, FieldFacts, FieldAddress
      <4>3. ~Under(p, Append(q, g.tag))
        <5> SUFFICES ASSUME Under(p, Append(q, g.tag)) PROVE FALSE
          OBVIOUS
        <5>1. Under(q, Append(q, g.tag))
          BY <1>0, <3>2, <4>2, UnderOrder
        <5> QED
          BY <4>2, <5>1, UnderField
      <4> QED
        BY <1>1, <4>1, <4>3
    <3>3. PresentFrom(m, b, p)
      BY <3>2 DEF PresentFrom
    <3>4. Len(m.data[b]) < f.size
      BY <1>1, <2>2, <2>3, <3>1, <3>3 DEF StringsFitAt
    <3> QED
      BY <2>3, <3>4
  <2>4. CASE f.ltype = "submessage"
    <3>1. ASSUME NEW a \in Leaves, FieldAt(a).ltype = "string", Under(a, b), PresentFrom(m, a, b)
          PROVE  Len(m.data[a]) < FieldAt(a).size
      <4>0. a \in Address
        BY LeafFacts
      <4> HIDE DEF b
      <4>1. Under(a, p)
        BY <1>0, <2>1, <2>2, <3>1, <4>0, UnderOrder
      <4>2. ASSUME NEW q \in Places, Under(q, p), NEW g \in FieldsAt(q), Under(a, Append(q, g.tag))
            PROVE  ~Lacks(m, q, g)
        <5>1. q \in Address /\ g.tag \in Nat /\ Append(q, g.tag) \in Address
          BY <1>0, FieldFacts, FieldAddress
        <5>2. CASE q = p
          <6>1. Under(b, Append(q, g.tag)) \/ Under(Append(q, g.tag), b)
            BY <2>1, <3>1, <4>0, <4>2, <5>1, UnderOrder
          <6>2. f.tag = g.tag
            BY <1>0, <2>1, <5>1, <5>2, <6>1, UnderField DEF b
          <6>3. g = f
            BY <5>2, <6>2, FieldFacts
          <6> QED
            BY <1>1, <5>2, <6>3
        <5>3. CASE q # p
          <6>1. Under(a, q)
            <7>1. Under(Append(q, g.tag), q)
              BY <5>1, UnderField, UnderOrder
            <7> QED
              BY <4>0, <4>2, <5>1, <7>1, UnderOrder
          <6>2. Under(q, b) \/ Under(b, q)
            BY <2>1, <3>1, <4>0, <5>1, <6>1, UnderOrder
          <6>3. Under(b, q) => q = b
            <7>1. Under(b, q) => q = b \/ Under(p, q)
              BY <1>0, <2>1, <5>1, UnderField DEF b
            <7>2. ~Under(p, q)
              BY <1>0, <4>2, <5>1, <5>3, UnderOrder
            <7> QED
              BY <7>1, <7>2
          <6>4. Under(q, b)
            BY <2>1, <6>2, <6>3, UnderOrder
          <6> QED
            BY <3>1, <4>2, <6>4 DEF PresentFrom
        <5> QED
          BY <5>2, <5>3
      <4>3. PresentFrom(m, a, p)
        BY <4>2 DEF PresentFrom
      <4> QED
        BY <1>1, <3>1, <4>1, <4>3 DEF StringsFitAt
    <3> HIDE DEF b
    <3>2. StringsFitAt(m, b)
      BY <3>1 DEF StringsFitAt
    <3> QED
      BY <2>4, <3>2 DEF b
  <2> QED
    BY <2>3, <2>4
<1>2. ASSUME \A f \in FieldsAt(p) : FieldAllowed(m, p, f, StringsFitAt(m, Append(p, f.tag))),
             NEW a \in Leaves, FieldAt(a).ltype = "string", Under(a, p), PresentFrom(m, a, p)
      PROVE  Len(m.data[a]) < FieldAt(a).size
  <2>0. PICK q \in Places : \E g \in FieldsAt(q) : a = Append(q, g.tag) /\ FieldAt(a) = g
    BY LeafFacts
  <2>1. PICK g \in FieldsAt(q) : a = Append(q, g.tag) /\ FieldAt(a) = g
    BY <2>0
  <2>2. q \in Address /\ g.tag \in Nat /\ a \in Address
    BY <1>0, FieldFacts, LeafFacts
  <2>3. Under(q, p)
    <3>1. a # p
      BY LeafNotPlace
    <3> QED
      BY <1>0, <1>2, <2>1, <2>2, <3>1, UnderField
  <2>4. CASE q = p
    <3>1. ~Lacks(m, p, g)
      <4>1. Under(a, Append(q, g.tag))
        BY <2>1, <2>2, UnderOrder
      <4> QED
        BY <1>2, <2>3, <2>4, <4>1 DEF PresentFrom
    <3> QED
      BY <1>2, <2>1, <2>4, <3>1 DEF FieldAllowed
  <2>5. CASE q # p
    <3>1. PICK f \in FieldsAt(p) : f.ltype = "submessage" /\ Under(q, Append(p, f.tag))
      BY <2>3, <2>5, PlaceInside
    <3> DEFINE b == Append(p, f.tag)
    <3>2. b \in Address /\ Under(b, p)
      <4>1. f.tag \in Nat /\ b \in Address
        BY <1>0, FieldFacts, FieldAddress
      <4> QED
        BY <1>0, <4>1, UnderField
    <3>3. Under(a, b)
      <4>1. Under(a, q)
        BY <2>1, <2>2, UnderField, UnderOrder
      <4> HIDE DEF b
      <4>2. Under(q, b)
        BY <3>1 DEF b
      <4> QED
        BY <2>2, <3>2, <4>1, <4>2, UnderOrder
    <3>4. ~Lacks(m, p, f)
      BY <1>0, <1>2, <3>3 DEF PresentFrom
    <3>5. StringsFitAt(m, b)
      BY <1>2, <3>1, <3>4 DEF FieldAllowed
    <3> HIDE DEF b
    <3>6. PresentFrom(m, a, b)
      <4>1. \A r \in Places : Under(r, b) => Under(r, p)
        BY <1>0, <3>2, UnderOrder
      <4> QED
        BY <1>2, <4>1 DEF PresentFrom
    <3> QED
      BY <1>2, <3>3, <3>5, <3>6 DEF StringsFitAt
  <2> QED
    BY <2>4, <2>5
<1>3. StringsFitAt(m, p) =>
         \A f \in FieldsAt(p) : FieldAllowed(m, p, f, StringsFitAt(m, Append(p, f.tag)))
  BY <1>1 DEF FieldAllowed
<1>4. (\A f \in FieldsAt(p) : FieldAllowed(m, p, f, StringsFitAt(m, Append(p, f.tag))))
         => StringsFitAt(m, p)
  BY <1>2 DEF StringsFitAt
<1> QED
  BY <1>3, <1>4

\* A message is written into a stream that counts if its strings fit.
LEMMA WrittenIfStringsFit ==
  ASSUME NEW m \in Structures, NEW p \in Places
  PROVE  Encoded(m)[p][Counting].ok <=> StringsFitAt(m, p)
<1> DEFINE e == Encoded(m)
           Good(k) == \A q \in Places : Len(q) + k >= Depth =>
                         (e[q][Counting].ok <=> StringsFitAt(m, q))
           T == {k \in Nat : Good(k)}
<1>1. \A q \in Places : e[q][Counting].ok <=> \A f \in FieldsAt(q) : AllowedIn(m, q, f, e)
  <2>1. e \in Contained /\ e = EncodeOnce(m, e)
    BY EncodedDefined
  <2> HIDE DEF e
  <2> QED
    BY <2>1, OnceContained
<1> HIDE DEF e
<1>2. 0 \in T
  BY PlacesAreDeep
<1>3. ASSUME NEW k \in T PROVE k + 1 \in T
  <2>0. k \in Nat /\ Good(k)
    OBVIOUS
  <2>1. ASSUME NEW q \in Places, Len(q) + (k + 1) >= Depth
        PROVE  e[q][Counting].ok <=> StringsFitAt(m, q)
    <3>1. ASSUME NEW f \in FieldsAt(q)
          PROVE  AllowedIn(m, q, f, e) <=> FieldAllowed(m, q, f, StringsFitAt(m, Append(q, f.tag)))
      <4> DEFINE a == Append(q, f.tag)
      <4>1. CASE f.ltype = "submessage"
        <5>1. a \in Places /\ Len(a) = Len(q) + 1
          BY <4>1, FieldFacts, FieldAddress
        <5> HIDE DEF a
        <5>2. Len(a) + k >= Depth
          BY <2>0, <2>1, <5>1, PlacesAreDeep
        <5>3. e[a][Counting].ok <=> StringsFitAt(m, a)
          BY <2>0, <5>1, <5>2
        <5> QED
          BY <5>3 DEF AllowedIn, FieldAllowed, a
      <4>2. CASE f.ltype # "submessage"
        BY <4>2 DEF AllowedIn, FieldAllowed
      <4> QED
        BY <4>1, <4>2
    <3>2. StringsFitAt(m, q) <=>
             \A f \in FieldsAt(q) : FieldAllowed(m, q, f, StringsFitAt(m, Append(q, f.tag)))
      BY FitByFields
    <3> QED
      BY <1>1, <3>1, <3>2
  <2>2. Good(k + 1)
    BY <2>1
  <2> HIDE DEF Good
  <2> QED
    BY <2>0, <2>2
<1>4. T = Nat
  <2>1. T \in SUBSET Nat
    OBVIOUS
  <2> HIDE DEF T
  <2> QED
    BY <1>2, <1>3, <2>1, SetInduction
<1>5. Good(Depth)
  <2>1. Depth \in Nat
    BY PlacesAreDeep
  <2> HIDE DEF Good
  <2> QED
    BY <1>4, <2>1
<1>6. Len(p) + Depth >= Depth
  BY PlacesAreDeep
<1> QED
  BY <1>5, <1>6 DEF e

\* What pb_encode writes, and when it gives up.
LEMMA EncodeIsExact ==
  ASSUME NEW m \in Structures, NEW size \in Nat
  PROVE  LET s == pb_encode(m, size)
             counted == Len(pb_encode(m, Counting).bytes)
         IN  /\ s.ok \in BOOLEAN /\ s.bytes \in Seq(Byte) /\ Len(s.bytes) <= size
             /\ s.ok => Len(s.bytes) = counted
             /\ ~s.ok <=> size < counted \/ ~StringsFit(m)
<1> DEFINE g == Encoded(m)[<< >>]
           s == g[size]
           u == g[Counting]
<1>1. << >> \in Places /\ g = Encoded(m)[<< >>]
  BY FieldsAssumption
<1>2. \E c \in Seq(Byte) : Holds(g, g[Counting].ok, c)
  BY <1>1, EncodedDefined DEF Contained
<1>3. u.ok <=> StringsFit(m)
  <2>1. u.ok <=> StringsFitAt(m, << >>)
    BY <1>1, WrittenIfStringsFit
  <2>2. \A p \in Places : Under(p, << >>)
    BY PlaceIsAddress, UnderOrder
  <2>3. \A a \in Leaves : Under(a, << >>)
    BY LeafFacts, UnderOrder
  <2>4. \A a : Present(m, a) <=> PresentFrom(m, a, << >>)
    BY <2>2 DEF Present, PresentFrom
  <2>5. StringsFit(m) <=> StringsFitAt(m, << >>)
    BY <2>3, <2>4 DEF StringsFit, StringsFitAt
  <2> QED
    BY <2>1, <2>5
<1>4. pb_encode(m, size) = s /\ pb_encode(m, Counting) = u
  BY DEF pb_encode
<1> HIDE DEF g
<1>5. PICK c \in Seq(Byte) : Holds(g, g[Counting].ok, c)
  BY <1>2
<1>6. /\ size \in Sizes /\ size # Counting /\ Counting \in Sizes
      /\ Len(c) \in Nat /\ << >> \o c = c /\ Len(<< >>) = 0
  BY DEF Sizes, Counting
<1>7. /\ Wrote(Stream(size), s, u.ok, c) /\ Wrote(Stream(Counting), u, u.ok, c)
      /\ Stream(size).ok /\ Stream(size).bytes = << >> /\ ~Stream(size).sizing
      /\ Stream(size).max_size = size
      /\ Stream(Counting).ok /\ Stream(Counting).bytes = << >> /\ Stream(Counting).sizing
  BY <1>5, <1>6, StreamsFor DEF Holds
<1> HIDE DEF s, u
<1>8. /\ s \in WithinRoom /\ u \in WithinRoom
      /\ s.ok <=> u.ok /\ Len(c) <= size
      /\ s.ok => s.bytes = c
      /\ u.ok => u.bytes = c
      /\ ~s.sizing /\ s.max_size = size
  BY <1>6, <1>7 DEF Wrote, Room
<1>9. /\ s.ok \in BOOLEAN /\ s.bytes \in Seq(Byte) /\ Len(s.bytes) <= size
  <2>1. s.ok \in BOOLEAN /\ s.bytes \in Seq(Byte) /\ Room(s, 0)
    BY <1>8, StreamFacts
  <2>2. Len(s.bytes) \in Nat
    BY <2>1
  <2> QED
    BY <1>8, <2>1, <2>2 DEF Room
<1>10. s.ok => Len(s.bytes) = Len(u.bytes)
  BY <1>8
<1>11. ~s.ok <=> size < Len(u.bytes) \/ ~StringsFit(m)
  <2>1. CASE u.ok
    BY <1>3, <1>6, <1>8, <2>1
  <2>2. CASE ~u.ok
    BY <1>3, <1>8, <2>2
  <2> QED
    BY <2>1, <2>2
<1> QED
  BY <1>4, <1>9, <1>10, <1>11

-----------------------------------------------------------------------------
(* The messages                                                            *)

\* What the programs put into a structure makes it one of Structures.
LEMMA StructuresAre == \A m : m \in Structures <=> IsStructure(m)
<1>1. ASSUME NEW m \in Structures PROVE IsStructure(m)
  BY StructureFacts DEF IsStructure
<1>2. ASSUME NEW m, IsStructure(m) PROVE m \in Structures
  <2> DEFINE data == [a \in Leaves |-> m.data[a]]
             which == [p \in Places |-> m.which[p]]
  <2>1. m = [data |-> data, has |-> m.has, which |-> which]
    BY <1>2 DEF IsStructure
  <2>2. /\ \A a \in Leaves : m.data[a] \in Values(FieldAt(a))
        /\ m.has \in SUBSET Optionals /\ \A p \in Places : m.which[p] \in Nat
    BY <1>2 DEF IsStructure
  <2>3. /\ data = [a \in Leaves |-> data[a]] /\ \A a \in Leaves : data[a] \in Values(FieldAt(a))
        /\ which = [p \in Places |-> which[p]] /\ \A p \in Places : which[p] \in Nat
    BY <2>2
  <2> HIDE DEF data, which
  <2>4. [data |-> data, has |-> m.has, which |-> which] \in Structures
    BY <2>2, <2>3, StructureIs
  <2> QED
    BY <2>1, <2>4
<1> QED
  BY <1>1, <1>2

\* What a sizing stream has counted are bytes.
LEMMA CountedBytes ==
  ASSUME NEW m \in Structures
  PROVE  pb_encode(m, Counting).bytes \in Seq(Byte)
<1>1. Encoded(m)[<< >>][Counting] \in WithinRoom
  <2>1. << >> \in Places /\ Counting \in Sizes
    BY FieldsAssumption DEF Sizes
  <2>2. Encoded(m) \in [Places -> [Sizes -> WithinRoom]]
    BY EncodedDefined DEF Contained
  <2> QED
    BY <2>1, <2>2
<1> QED
  BY <1>1, StreamFacts DEF pb_encode

\* What was encoded is a structure and what arrives are bytes; a message on its
\* way or given up is what pb_encode made of the structure; and what was decoded
\* is a structure that the program can hold.
CodecInv ==
    /\ wire \in Seq(Byte)
    /\ came = "whole" /\ stage \in {"sent", "full"} =>
          LET s == pb_encode(parts[1], buffer)
          IN  /\ IsStructure(parts[1]) /\ buffer \in Nat
              /\ wire = s.bytes /\ (stage = "sent" <=> s.ok)
    /\ stage = "decoded" /\ result.ok => IsStructure(result.value) /\ FitsC(result.value)

\* The messages that are encoded.
LEMMA MessagesAre ==
  ASSUME NEW m \in Messages
  PROVE  m \in Structures /\ Bytes(m) \in Seq(Byte)
<1>1. m \in Structures
  <2>1. IsStructure(m)
    BY MessagesAssumption
  <2> QED
    BY <2>1, StructuresAre
<1> QED
  BY <1>1, CountedBytes DEF Bytes

\* The invariant at the beginning.
LEMMA CodecInit == Init => CodecInv
<1> SUFFICES ASSUME Init PROVE CodecInv
  OBVIOUS
<1>1. stage = "start" /\ wire = << >>
  BY DEF Init, WireInit
<1> QED
  BY <1>1 DEF CodecInv

\* A message is encoded.
LEMMA EncodeStep ==
  ASSUME NEW m \in Messages, NEW size \in BufferSizes, CodecInv, Encode(m, size)
  PROVE  CodecInv'
<1>1. m \in Structures /\ size \in Nat
  BY MessagesAre, MessagesAssumption
<1> DEFINE s == pb_encode(m, size)
<1>2. s.ok \in BOOLEAN /\ s.bytes \in Seq(Byte)
  BY <1>1, EncodeIsExact
<1>3. /\ stage' = (IF s.ok THEN "sent" ELSE "full") /\ wire' = s.bytes
      /\ parts' = <<m>> /\ buffer' = size
  BY DEF Encode
<1>4. IsStructure(m)
  BY <1>1, StructuresAre
<1>5. pb_encode(parts'[1], buffer') = s
  BY <1>3
<1> HIDE DEF s
<1>6. stage' # "decoded" /\ (stage' = "sent" <=> s.ok)
  BY <1>2, <1>3
<1>7. wire' \in Seq(Byte) /\ IsStructure(parts'[1]) /\ buffer' \in Nat
  BY <1>1, <1>2, <1>3, <1>4
<1> QED
  BY <1>3, <1>5, <1>6, <1>7 DEF CodecInv

\* What arrived is decoded.
LEMMA DecodeStepKeeps ==
  ASSUME CodecInv, Decode
  PROVE  CodecInv'
<1>1. wire \in Seq(Byte)
  BY DEF CodecInv
<1>2. stage' = "decoded" /\ result' = pb_decode(wire) /\ wire' = wire
  BY DEF Decode
<1>3. result'.ok => result'.value \in Structures /\ FitsC(result'.value)
  BY <1>1, <1>2, DecodeFits
<1>4. result'.ok => IsStructure(result'.value)
  BY <1>3, StructuresAre
<1> QED
  BY <1>1, <1>2, <1>3, <1>4 DEF CodecInv

\* What was decoded is encoded again.
LEMMA ReencodeStep ==
  ASSUME CodecInv, Reencode
  PROVE  CodecInv'
<1> DEFINE s == pb_encode(result.value, Counting)
<1>1. IsStructure(result.value)
  BY DEF CodecInv, Reencode
<1>2. s.bytes \in Seq(Byte)
  BY <1>1, StructuresAre, CountedBytes
<1>3. stage' = (IF s.ok THEN "sent" ELSE "full") /\ wire' = s.bytes /\ came' = "again"
  BY DEF Reencode
<1> HIDE DEF s
<1> QED
  BY <1>2, <1>3 DEF CodecInv

\* On the way a message becomes other bytes, and is no longer whole.
LEMMA WayStep ==
  ASSUME CodecInv,
         \/ \E m \in Messages : AppendPart(m)
         \/ \E field \in Strange : AddUnknown(field)
         \/ \E length \in 0 .. Len(wire) : Cut(length)
         \/ \E i \in 1 .. Len(wire), byte \in Corrupted : Differ(i, byte)
  PROVE  CodecInv'
<1>1. wire \in Seq(Byte)
  BY DEF CodecInv
<1>2. ASSUME NEW m \in Messages, AppendPart(m)
      PROVE  stage' = "sent" /\ came' # "whole" /\ wire' \in Seq(Byte)
  <2>1. Bytes(m) \in Seq(Byte)
    BY MessagesAre
  <2>2. stage' = "sent" /\ came' = "parts" /\ wire' = wire \o Bytes(m)
    BY <1>2 DEF AppendPart, Underway
  <2> QED
    BY <1>1, <2>1, <2>2
<1>3. ASSUME NEW field \in Strange, AddUnknown(field)
      PROVE  stage' = "sent" /\ came' # "whole" /\ wire' \in Seq(Byte)
  <2>1. field \in Seq(Byte)
    BY MessagesAssumption DEF UnknownField
  <2>2. stage' = "sent" /\ came' = "unknown" /\ wire' \in {wire \o field, field \o wire}
    BY <1>3 DEF AddUnknown, Underway
  <2>3. wire \o field \in Seq(Byte) /\ field \o wire \in Seq(Byte)
    BY <1>1, <2>1
  <2> QED
    BY <2>2, <2>3
<1>4. ASSUME NEW length \in 0 .. Len(wire), Cut(length)
      PROVE  stage' = "sent" /\ came' # "whole" /\ wire' \in Seq(Byte)
  <2>1. stage' = "sent" /\ came' = "cut" /\ wire' = SubSeq(wire, 1, length)
    BY <1>4 DEF Cut, Underway
  <2>2. SubSeq(wire, 1, length) \in Seq(Byte)
    BY <1>1, SubSeqProperties
  <2> QED
    BY <2>1, <2>2
<1>5. ASSUME NEW i \in 1 .. Len(wire), NEW byte \in Corrupted, Differ(i, byte)
      PROVE  stage' = "sent" /\ came' # "whole" /\ wire' \in Seq(Byte)
  <2>1. stage' = "sent" /\ came' = "other" /\ wire' = [wire EXCEPT ![i] = byte]
    BY <1>5 DEF Differ, Underway
  <2>2. byte \in Byte
    BY MessagesAssumption
  <2>3. [wire EXCEPT ![i] = byte] \in Seq(Byte)
    BY <1>1, <2>2
  <2> QED
    BY <2>1, <2>3
<1>6. stage' = "sent" /\ came' # "whole" /\ wire' \in Seq(Byte)
  BY <1>2, <1>3, <1>4, <1>5
<1> QED
  BY <1>6 DEF CodecInv

\* Frames and varints are bytes, too.
LEMMA WireStep ==
  ASSUME CodecInv, WireNext
  PROVE  CodecInv'
<1>1. CASE ReadVarint
  <2>1. stage' = "varint" /\ wire' \in Seq(Byte)
    BY <1>1, InputAssumption DEF ReadVarint
  <2> QED
    BY <2>1 DEF CodecInv
<1>2. ASSUME NEW payload \in Payloads, NEW junk \in Junk, ReadFrame(payload, junk)
      PROVE  CodecInv'
  <2>1. stage' = "frame"
    BY <1>2 DEF ReadFrame
  <2>2. PICK arrived \in 0 .. Len(Frame(payload)) : wire' = SubSeq(Frame(payload), 1, arrived)
    BY <1>2 DEF ReadFrame
  <2>3. Frame(payload) \in Seq(Byte)
    <3>1. payload \in Seq(Byte) /\ Len(payload) \in Nat
      BY InputAssumption
    <3>2. encode_varint(Len(payload)) \in Seq(Byte)
      BY <3>1, EncodedBytes
    <3> HIDE DEF encode_varint
    <3> QED
      BY <3>1, <3>2 DEF Frame
  <2>4. wire' \in Seq(Byte)
    <3> HIDE DEF Frame
    <3> QED
      BY <2>2, <2>3, SubSeqProperties
  <2> QED
    BY <2>1, <2>4 DEF CodecInv
<1> QED
  BY <1>1, <1>2 DEF WireNext

\* Every step keeps the invariant.
LEMMA CodecNext ==
  ASSUME CodecInv, [Next]_vars
  PROVE  CodecInv'
<1>1. CASE UNCHANGED vars
  BY <1>1 DEF CodecInv, vars, wireVars
<1>2. ASSUME NEW m \in Messages, NEW size \in BufferSizes, Encode(m, size) PROVE CodecInv'
  BY <1>2, EncodeStep
<1>3. CASE \/ \E m \in Messages : AppendPart(m)
           \/ \E field \in Strange : AddUnknown(field)
           \/ \E length \in 0 .. Len(wire) : Cut(length)
           \/ \E i \in 1 .. Len(wire), byte \in Corrupted : Differ(i, byte)
  BY <1>3, WayStep
<1>4. CASE Decode
  BY <1>4, DecodeStepKeeps
<1>5. CASE Reencode
  BY <1>5, ReencodeStep
<1>6. CASE WireNext
  BY <1>6, WireStep
<1> QED
  BY <1>1, <1>2, <1>3, <1>4, <1>5, <1>6 DEF Next

\* The invariant holds in every reachable state.
THEOREM CodecIsSound == Spec => []CodecInv
<1>1. CodecInv /\ [Next]_vars => CodecInv'
  BY CodecNext
<1> QED
  BY <1>1, CodecInit, PTL DEF Spec

\* For every width, every descriptor and whatever bytes arrive: what a board
\* accepts is a structure that the C program can hold, its strings with their
\* ends inside the char arrays.  (pb_decode, pb_dec_string, decode_static_field)
THEOREM DecodedMessagesFit == Spec => []DecodedFitsC
<1>1. CodecInv => DecodedFitsC
  BY DEF CodecInv, DecodedFitsC
<1> QED
  BY <1>1, CodecIsSound, PTL

\* For every message and every size of the buffer: pb_encode stays inside the
\* buffer, writes what a sizing stream counts, and gives up exactly when that is
\* too much or a string is too long.  (pb_write, pb_encode_submessage, pb_enc_string)
THEOREM BuffersAreRespected == Spec => []BufferRespected
<1>1. ASSUME CodecInv PROVE BufferRespected
  <2> SUFFICES ASSUME stage \in {"sent", "full"}, came = "whole"
               PROVE  /\ Len(wire) <= buffer
                      /\ stage = "sent" => Len(wire) = Len(Bytes(parts[1]))
                      /\ stage = "full" <=> buffer < Len(Bytes(parts[1])) \/ ~StringsFit(parts[1])
    BY DEF BufferRespected
  <2> DEFINE s == pb_encode(parts[1], buffer)
  <2>1. /\ IsStructure(parts[1]) /\ buffer \in Nat
        /\ wire = s.bytes /\ (stage = "sent" <=> s.ok)
    BY <1>1 DEF CodecInv
  <2>2. parts[1] \in Structures
    BY <2>1, StructuresAre
  <2>3. /\ s.ok \in BOOLEAN /\ Len(s.bytes) <= buffer
        /\ s.ok => Len(s.bytes) = Len(Bytes(parts[1]))
        /\ ~s.ok <=> buffer < Len(Bytes(parts[1])) \/ ~StringsFit(parts[1])
    BY <2>1, <2>2, EncodeIsExact DEF Bytes
  <2> HIDE DEF s
  <2> QED
    BY <2>1, <2>3
<1> QED
  BY <1>1, CodecIsSound, PTL

\* As WireFormat alone: the other actions leave no frame and no varint behind.
LEMMA OnlyWireSteps ==
  ASSUME [Next]_vars, stage' \in {"frame", "varint"}
  PROVE  [WireNext]_wireVars
<1>1. ASSUME NEW m \in Messages, NEW size \in BufferSizes, Encode(m, size) PROVE FALSE
  BY <1>1 DEF Encode
<1>2. ASSUME NEW m \in Messages, AppendPart(m) PROVE FALSE
  BY <1>2 DEF AppendPart, Underway
<1>3. ASSUME NEW field \in Strange, AddUnknown(field) PROVE FALSE
  BY <1>3 DEF AddUnknown, Underway
<1>4. ASSUME NEW length \in 0 .. Len(wire), Cut(length) PROVE FALSE
  BY <1>4 DEF Cut, Underway
<1>5. ASSUME NEW i \in 1 .. Len(wire), NEW byte \in Corrupted, Differ(i, byte) PROVE FALSE
  BY <1>5 DEF Differ, Underway
<1>6. ~Decode /\ ~Reencode
  BY DEF Decode, Reencode
<1> QED
  BY <1>1, <1>2, <1>3, <1>4, <1>5, <1>6 DEF Next, vars

\* FramesAreReadWhole, among the messages of the boards.
THEOREM FramesReadWholeToo == Spec => []FramesReadWhole
<1>1. Init => FramesReadWhole
  BY DEF Init, WireInit, FramesReadWhole
<1>2. FramesReadWhole /\ [Next]_vars => FramesReadWhole'
  <2> SUFFICES ASSUME FramesReadWhole, [Next]_vars, stage' = "frame" PROVE FramesReadWhole'
    BY DEF FramesReadWhole
  <2> QED
    BY OnlyWireSteps, FramesStep
<1> QED
  BY <1>1, <1>2, PTL DEF Spec

\* VarintsReadAlike, among the messages of the boards.
THEOREM VarintsReadAlikeToo == Spec => []VarintsAgree
<1>1. Init => VarintsAgree
  BY DEF Init, WireInit, VarintsAgree
<1>2. VarintsAgree /\ [Next]_vars => VarintsAgree'
  <2> SUFFICES ASSUME VarintsAgree, [Next]_vars, stage' = "varint" PROVE VarintsAgree'
    BY DEF VarintsAgree
  <2> QED
    BY OnlyWireSteps, VarintsStep
<1> QED
  BY <1>1, <1>2, PTL DEF Spec

=============================================================================
