-------------------------------- MODULE Nanopb --------------------------------
(***************************************************************************)
(* nanopb as the boards use it: pb_encode and pb_decode over buffers,      *)
(* driven by the descriptors of the messages.  The field types are those   *)
(* of smart_city_devices.proto that the boards fill in or look at.         *)
(*                                                                         *)
(* A message is a structure in memory, with the structures of its          *)
(* submessages inside.  The address of a field is the sequence of tags     *)
(* that leads to it; the address of a message is its place.  A structure   *)
(* has the values of its fields, by address; the addresses of the optional *)
(* submessages it has; and for each place the tag of the oneof's member,   *)
(* or zero.  A callback field holds what its encoder writes: one string    *)
(* for each time it repeats, and nothing without an encoder.  The boards   *)
(* set no decoder, so that decoding leaves callback fields as they are.    *)
(***************************************************************************)
EXTENDS Varint

CONSTANTS
    Fields,     \* the fields of the message at each place, in the order of
                \* their tags: tag, htype, ltype, and size, which a string
                \* must not exceed with its end
    Depth,      \* how many messages are inside one another at most
    Fixed64,    \* the bytes of a 64BIT field (8)
    Fixed32,    \* the bytes of a 32BIT field (4)
    RawSize     \* the buffer for a scalar of a callback field (10)

WT_VARINT == 0
WT_64BIT == 1
WT_STRING == 2
WT_32BIT == 5

Places == DOMAIN Fields
FieldsAt(p) == {Fields[p][i] : i \in DOMAIN Fields[p]}
OneofTags(p) == {f.tag : f \in {g \in FieldsAt(p) : g.htype = "oneof"}}

\* a is at b, or inside the message there.
Under(a, b) == Len(b) <= Len(a) /\ SubSeq(a, 1, Len(b)) = b

\* A tag takes 29 bits.  The message around all others is at << >>, and every
\* other place is reached through submessages.
ASSUME FieldsAssumption ==
    /\ Depth \in Nat /\ {Fixed64, Fixed32, RawSize} \subseteq Nat
    /\ << >> \in Places
    /\ \A p \in Places :
          /\ p \in Seq(Nat) /\ Len(p) < Depth
          /\ \A k \in 0 .. Len(p) - 1 :
                /\ SubSeq(p, 1, k) \in Places
                /\ \E f \in FieldsAt(SubSeq(p, 1, k)) : f.tag = p[k + 1] /\ f.ltype = "submessage"
          /\ Len(Fields[p]) \in Nat /\ DOMAIN Fields[p] = 1 .. Len(Fields[p])
          /\ \A i, j \in DOMAIN Fields[p] : Fields[p][i].tag = Fields[p][j].tag => i = j
          /\ \A f \in FieldsAt(p) :
                /\ f.tag \in Nat \ {0} /\ f.tag * 8 + 7 < Max32
                /\ f.ltype \in {"bool", "int32", "enum", "string", "callback", "submessage"}
                /\ f.ltype = "submessage" =>
                      f.htype \in {"optional", "oneof"} /\ Append(p, f.tag) \in Places
                /\ f.ltype = "callback" => f.htype = "optional callback"
                /\ f.ltype \notin {"submessage", "callback"} => f.htype \in {"singular", "oneof"}
                /\ f.ltype = "string" => f.size \in Nat \ {0}

Default(f) ==
    CASE f.ltype \in {"string", "callback"} -> << >>
      [] f.ltype = "bool"                   -> FALSE
      [] f.ltype \in {"int32", "enum"}      -> 0

\* The addresses of the fields that are not submessages, and the field at one.
Leaves == UNION {{Append(p, f.tag) : f \in {g \in FieldsAt(p) : g.ltype # "submessage"}} : p \in Places}
FieldAt(a) ==
    CHOOSE f \in FieldsAt(SubSeq(a, 1, Len(a) - 1)) : f.tag = a[Len(a)]

Optionals ==
    UNION {{Append(p, f.tag) : f \in {g \in FieldsAt(p) : g.htype = "optional"}} : p \in Places}

\* What the programs put into a field; a string may be too long for its array.
Values(f) ==
    CASE f.ltype = "string"   -> Seq(Byte \ {0})
      [] f.ltype = "callback" -> Seq(Seq(Byte))
      [] f.ltype = "bool"     -> BOOLEAN
      [] f.ltype = "int32"    -> -Pow2[Bits32 - 1] .. Pow2[Bits32 - 1] - 1
      [] f.ltype = "enum"     -> 0 .. Max32 - 1
IsStructure(m) ==
    /\ m = [data |-> [a \in Leaves |-> m.data[a]], has |-> m.has,
            which |-> [p \in Places |-> m.which[p]]]
    /\ \A a \in Leaves : m.data[a] \in Values(FieldAt(a))
    /\ m.has \subseteq Optionals /\ \A p \in Places : m.which[p] \in Nat

\* smartcity_devices_..._init_zero, pb_message_set_to_defaults
Zero ==
    [data |-> [a \in Leaves |-> Default(FieldAt(a))],
     has |-> {}, which |-> [p \in Places |-> 0]]

Signed32(v) == IF v < Pow2[Bits32 - 1] THEN v ELSE v - Max32

-----------------------------------------------------------------------------
(* Encoding                                                                *)

\* A stream for size bytes, and one that only counts.
OutStream(size) == [ok |-> TRUE, sizing |-> FALSE, max_size |-> size, bytes |-> << >>]
SizingStream == [OutStream(0) EXCEPT !.sizing = TRUE]
Counting == -1
Sizes == Nat \cup {Counting}
Stream(size) == IF size = Counting THEN SizingStream ELSE OutStream(size)

\* Mutant of HasRoom: a stream may be overrun by its last byte.
HasRoomPlusOne(s, count) == s.sizing \/ Len(s.bytes) + count <= s.max_size + 1
HasRoom(s, count) == s.sizing \/ Len(s.bytes) + count <= s.max_size

\* Nothing is written after an error.
pb_write(s, bytes) ==
    IF s.ok /\ (bytes = << >> \/ HasRoom(s, Len(bytes)))
    THEN [s EXCEPT !.bytes = @ \o bytes]
    ELSE [s EXCEPT !.ok = FALSE]

pb_encode_string(s, bytes) ==
    pb_write(pb_write(s, pb_encode_varint(Len(bytes))), bytes)

\* A string without room for its end is refused.
pb_enc_string(s, f, value) ==
    IF Len(value) < f.size THEN pb_encode_string(s, value) ELSE [s EXCEPT !.ok = FALSE]

WireType(ltype) == IF ltype \in {"bool", "int32", "enum"} THEN WT_VARINT ELSE WT_STRING
pb_encode_tag_for_field(s, f) ==
    pb_write(s, pb_encode_varint(f.tag * 8 + WireType(f.ltype)))

\* encode_device_id, encode_ip_address, encode_capabilities
encode_callback_field(s, f, strings) ==
    LET t[i \in 0 .. Len(strings)] ==
            IF i = 0 THEN s
            ELSE pb_encode_string(pb_encode_tag_for_field(t[i - 1], f), strings[i])
    IN  t[Len(strings)]

\* First the size, then the same again into a stream of that size.
pb_encode_submessage(s, a, encoded) ==
    LET sub == encoded[a][Counting]
        size == Len(sub.bytes)
        again == encoded[a][size]
        contents(t) ==
            IF t.sizing THEN pb_write(t, sub.bytes)
            ELSE IF t.ok /\ HasRoom(t, size) /\ again.ok /\ Len(again.bytes) = size
                 THEN pb_write(t, again.bytes)
                 ELSE [t EXCEPT !.ok = FALSE]
    IN  IF sub.ok THEN contents(pb_write(s, pb_encode_varint(size)))
        ELSE [s EXCEPT !.ok = FALSE]

encode_basic_field(s, f, value) ==
    LET t == pb_encode_tag_for_field(s, f)
    IN  CASE f.ltype = "bool"   -> pb_write(t, pb_encode_varint(IF value THEN 1 ELSE 0))
          [] f.ltype \in {"enum", "int32"} -> pb_write(t, pb_encode_varint(value))
          [] f.ltype = "string" -> pb_enc_string(t, f, value)

\* pb_check_proto3_default_value
IsDefault(m, a) == \A b \in Leaves : Under(b, a) => m.data[b] = Zero.data[b]

\* Mutant of Absent: an optional submessage without contents is left out.
AbsentWhenEmpty(m, p, f) ==
    \/ f.htype = "oneof" /\ m.which[p] # f.tag
    \/ f.htype \in {"optional", "singular"} /\ IsDefault(m, Append(p, f.tag))
\* Which fields of the message at p are left out.
Absent(m, p, f) ==
    \/ f.htype = "oneof" /\ m.which[p] # f.tag
    \/ f.htype = "optional" /\ Append(p, f.tag) \notin m.has
    \/ f.htype = "singular" /\ IsDefault(m, Append(p, f.tag))

encode_field(s, m, p, f, encoded) ==
    LET a == Append(p, f.tag)
    IN  IF Absent(m, p, f) THEN s
        ELSE IF f.ltype = "callback" THEN encode_callback_field(s, f, m.data[a])
        ELSE IF f.ltype = "submessage"
             THEN pb_encode_submessage(pb_encode_tag_for_field(s, f), a, encoded)
        ELSE encode_basic_field(s, f, m.data[a])

EncodeFields(s, m, p, encoded) ==
    LET t[i \in 0 .. Len(Fields[p])] ==
            IF i = 0 THEN s ELSE encode_field(t[i - 1], m, p, Fields[p][i], encoded)
    IN  t[Len(Fields[p])]

\* The message at each place of m, in a stream of each size.
Encoded(m) ==
    LET encoded[p \in Places] == [size \in Sizes |-> EncodeFields(Stream(size), m, p, encoded)]
    IN  encoded

pb_encode(m, size) == Encoded(m)[<< >>][size]

-----------------------------------------------------------------------------
(* Decoding                                                                *)

\* Mutant of pb_read: at the end of the stream, what there is.
ReadWhatThereIs(in, count) == Got(SubSeq(in, 1, Shorter(count, Len(in))), After(in, count))
pb_read(in, count) ==
    IF Len(in) < count THEN Failed ELSE Got(SubSeq(in, 1, count), After(in, count))

\* pb_make_string_substream, and what pb_close_string_substream skips.
Substream(in) ==
    LET size == pb_decode_varint32(in)
    IN  IF size.ok THEN pb_read(size.rest, size.value) ELSE Failed

\* The bytes of a varint, of any length.
RawVarint(in) == IF End(in) = 0 THEN Failed ELSE pb_read(in, End(in))

\* Mutant of pb_skip_field: a string is skipped with its length only.
SkipLengthOnly(in, wire_type) ==
    CASE wire_type = WT_VARINT -> RawVarint(in)
      [] wire_type = WT_64BIT  -> pb_read(in, Fixed64)
      [] wire_type = WT_STRING -> pb_decode_varint32(in)
      [] wire_type = WT_32BIT  -> pb_read(in, Fixed32)
      [] OTHER                 -> Failed
pb_skip_field(in, wire_type) ==
    CASE wire_type = WT_VARINT -> RawVarint(in)
      [] wire_type = WT_64BIT  -> pb_read(in, Fixed64)
      [] wire_type = WT_STRING -> Substream(in)
      [] wire_type = WT_32BIT  -> pb_read(in, Fixed32)
      [] OTHER                 -> Failed

\* A scalar is copied for the callback, a string is a stream of its own; there
\* is no decoder to read either.
decode_callback_field(in, wire_type) ==
    LET skipped == pb_skip_field(in, wire_type)
    IN  IF wire_type = WT_VARINT /\ skipped.ok /\ Len(skipped.value) > RawSize
        THEN Failed
        ELSE skipped

\* What the program sees of a char array: up to its first zero.
AsCString(bytes) ==
    IF \A i \in 1 .. Len(bytes) : bytes[i] # 0 THEN bytes
    ELSE LET zero == CHOOSE n \in 1 .. Len(bytes) :
                        bytes[n] = 0 /\ \A i \in 1 .. n - 1 : bytes[i] # 0
         IN  SubSeq(bytes, 1, zero - 1)

\* Mutant of pb_dec_string: the end of the string is forgotten.
StringWithoutEnd(in, f) ==
    LET size == pb_decode_varint32(in)
        bytes == pb_read(size.rest, size.value)
    IN  IF ~size.ok \/ size.value > f.size \/ ~bytes.ok THEN Failed
        ELSE Got(AsCString(bytes.value), bytes.rest)
pb_dec_string(in, f) ==
    LET size == pb_decode_varint32(in)
        bytes == pb_read(size.rest, size.value)
    IN  IF ~size.ok \/ size.value = Max32 - 1 \/ size.value + 1 > f.size \/ ~bytes.ok THEN Failed
        ELSE Got(AsCString(bytes.value), bytes.rest)

pb_dec_bool(in) ==
    LET v == pb_decode_varint32(in)
    IN  IF v.ok THEN Got(v.value # 0, v.rest) ELSE Failed

\* pb_dec_varint: an unsigned field must fit, a signed one is cut to its size.
pb_dec_uvarint(in) ==
    LET v == pb_decode_varint(in)
    IN  IF v.ok /\ v.value < Max32 THEN v ELSE Failed
pb_dec_varint(in) ==
    LET v == pb_decode_varint(in)
    IN  IF v.ok THEN Got(Signed32(v.value % Max32), v.rest) ELSE Failed

decode_basic_field(in, f) ==
    CASE f.ltype = "bool"   -> pb_dec_bool(in)
      [] f.ltype = "enum"   -> pb_dec_uvarint(in)
      [] f.ltype = "int32"  -> pb_dec_varint(in)
      [] f.ltype = "string" -> pb_dec_string(in, f)

\* Zeros at some addresses and under them.
Cleared(m, addresses) ==
    LET gone(a) == \E b \in addresses : Under(a, b)
    IN  [data |-> [a \in Leaves |-> IF gone(a) THEN Zero.data[a] ELSE m.data[a]],
         has |-> {a \in m.has : ~gone(a)},
         which |-> [p \in Places |-> IF gone(p) THEN 0 ELSE m.which[p]]]

\* Mutant of Prepared: the member of a oneof that was there before is kept.
PreparedOver(m, p, f) ==
    CASE f.htype = "optional" -> [m EXCEPT !.has = @ \cup {Append(p, f.tag)}]
      [] f.htype = "oneof"    -> [m EXCEPT !.which[p] = f.tag]
      [] OTHER                -> m
\* An optional field is there; another member of a oneof makes place for this.  (The
\* code writes zeros for a submessage only.  A scalar or a string is written over
\* anyway, and of the members that are not there nobody sees anything: they share
\* its memory.  Zeros are how the model says that they hold nothing.)
Prepared(m, p, f) ==
    CASE f.htype = "optional" -> [m EXCEPT !.has = @ \cup {Append(p, f.tag)}]
      [] f.htype = "oneof" /\ m.which[p] # f.tag ->
            [Cleared(m, {Append(p, t) : t \in OneofTags(p)}) EXCEPT !.which[p] = f.tag]
      [] OTHER                -> m

\* A decoder has the messages it is in, the innermost last, with what is left
\* of their bytes.  (The recursion of pb_dec_submessage)
Message(p, in) == [place |-> p, in |-> in]
Error(d) == [d EXCEPT !.ok = FALSE]
\* On with the innermost message, and into another one.
Continue(d, rest, m) ==
    [ok |-> d.ok, open |-> [d.open EXCEPT ![Len(d.open)].in = rest], m |-> m]
Enter(d, message) == [d EXCEPT !.open = Append(@, message)]

\* Into the structure as it is: a submessage that comes twice is merged.
pb_dec_submessage(d, in, a, m) ==
    LET sub == Substream(in)
    IN  IF sub.ok THEN Enter(Continue(d, sub.rest, m), Message(a, sub.value)) ELSE Error(d)

decode_static_field(d, in, wire_type, p, f) ==
    LET a == Append(p, f.tag)
        m == Prepared(d.m, p, f)
        set(v) == IF v.ok THEN Continue(d, v.rest, [m EXCEPT !.data[a] = v.value]) ELSE Error(d)
    IN  IF wire_type # WireType(f.ltype) THEN Error(d)
        ELSE IF f.ltype = "submessage" THEN pb_dec_submessage(d, in, a, m)
        ELSE set(decode_basic_field(in, f))

\* pb_field_iter_find, decode_field; an unknown field is skipped.
decode_field(d, in, wire_type, p, tag) ==
    LET known == \E g \in FieldsAt(p) : g.tag = tag
        f == CHOOSE g \in FieldsAt(p) : g.tag = tag
        go(skipped) == IF skipped.ok THEN Continue(d, skipped.rest, d.m) ELSE Error(d)
    IN  IF ~known THEN go(pb_skip_field(in, wire_type))
        ELSE IF f.ltype = "callback" THEN go(decode_callback_field(in, wire_type))
        ELSE decode_static_field(d, in, wire_type, p, f)

\* pb_decode_inner: the next field, or the end of the innermost message.
DecodeStep(d) ==
    LET top == d.open[Len(d.open)]
        field(tag) ==
            IF ~tag.ok \/ tag.value \div 8 = 0 THEN Error(d)
            ELSE decode_field(d, tag.rest, tag.value % 8, top.place, tag.value \div 8)
    IN  IF ~d.ok \/ d.open = << >> THEN d
        ELSE IF top.in = << >> THEN [d EXCEPT !.open = SubSeq(@, 1, Len(@) - 1)]
        ELSE field(pb_decode_varint32(top.in))

\* A step takes a byte at least, or leaves a message that took two to enter.
Decoding(in) ==
    LET step[k \in 0 .. 2 * Len(in) + 1] ==
            IF k = 0 THEN [ok |-> TRUE, open |-> <<Message(<< >>, in)>>, m |-> Zero]
            ELSE DecodeStep(step[k - 1])
    IN  step

pb_decode(in) ==
    LET end == Decoding(in)[2 * Len(in) + 1]
    IN  IF end.ok /\ end.open = << >> THEN Got(end.m, << >>) ELSE Failed

=============================================================================
