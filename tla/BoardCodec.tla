------------------------------ MODULE BoardCodec ------------------------------
(***************************************************************************)
(* The messages the boards exchange with the gateway and the bridge, from  *)
(* the structure that is encoded to the structure that is decoded.         *)
(*                                                                         *)
(*   boards   encode DeviceInfo and DeviceUpdate into a buffer on the      *)
(*            stack; decode ClientRequest and DiscoveryRequest             *)
(*   others   use Google's library, which writes the same format           *)
(*                                                                         *)
(* A message may come in two parts, may have fields the boards' .proto     *)
(* does not know, may be cut (a datagram longer than the buffer it is read *)
(* into), and may be another message altogether.                           *)
(***************************************************************************)
EXTENDS Nanopb, WireFormat, FiniteSetsExt, TLC

CONSTANTS
    StringSize, \* the size of the char arrays (max_length + 1: 33 and 65 in the
                \* code; one size in the run, any for each field in the proofs)
    BufferSizes,\* the sizes of the buffers messages are encoded into (128, 512)
    Strings,    \* what callbacks and strings hold
    Ports,      \* the values of int32 fields
    Strange,    \* fields the boards' .proto does not know, encoded
    Corrupted   \* bytes of a message that are not what the boards expect

\* The descriptors the generator makes of smart_city_devices.proto, as far as
\* the boards use them: strings without a max_length and repeated fields are
\* callbacks, submessages are optional.  (Of the oneof in a DeviceUpdate only
\* frequency_ms is here.  The other members are submessages that no board sets or
\* looks at: readings travel as JSON over MQTT, and there is no camera and no air
\* conditioner.  The proofs hold for any descriptors of what is in the envelope.)
Scalar(tag, ltype) == [tag |-> tag, htype |-> "singular", ltype |-> ltype]
CharArray(tag) == [tag |-> tag, htype |-> "singular", ltype |-> "string", size |-> StringSize]
Callback(tag) == [tag |-> tag, htype |-> "optional callback", ltype |-> "callback"]
Submessage(tag, htype) == [tag |-> tag, htype |-> htype, ltype |-> "submessage"]

SmartCityMessage == <<
    Scalar(1, "enum"),                              \* message_type,
    Submessage(2, "oneof"), Submessage(3, "oneof"), \* client_request, device_update,
    Submessage(4, "oneof"), Submessage(5, "oneof"), \* gateway_response, device_info,
    Submessage(6, "oneof")>>                        \* discovery_request
ClientRequest == <<                                 \* type, target_device_id, command
    Scalar(1, "enum"), Callback(2), Submessage(3, "optional")>>
DeviceCommand == <<                                 \* device_id, type,
    Callback(1), Scalar(2, "enum"),                 \* command_type, command_value
    CharArray(3), CharArray(4)>>
DeviceUpdate == <<                                  \* device_id, type, current_status,
    Callback(1), Scalar(2, "enum"), Scalar(3, "enum"),
    Callback(20),                                   \* custom_config_status,
    [Scalar(21, "int32") EXCEPT !.htype = "oneof"]>>\* frequency_ms
GatewayResponse == <<                               \* type, message, devices,
    Scalar(1, "enum"), Callback(2), Callback(3),    \* device_status,
    Submessage(4, "optional"), Callback(5)>>        \* command_status
DeviceInfo == <<                                    \* device_id, type, ip_address, port,
    Callback(1), Scalar(2, "enum"), Callback(3), Scalar(4, "int32"),
    Scalar(5, "enum"),                              \* initial_state, is_actuator,
    Scalar(6, "bool"), Scalar(7, "bool"),           \* is_sensor, capabilities
    Callback(8)>>
DiscoveryRequest == <<                              \* gateway_ip, gateway_tcp_port,
    CharArray(1), Scalar(2, "int32"),               \* gateway_udp_port,
    Scalar(3, "int32"), CharArray(4),               \* mqtt_broker_ip,
    Scalar(5, "int32")>>                            \* mqtt_broker_port

DeviceFields ==
    << >> :> SmartCityMessage
    @@ <<2>> :> ClientRequest @@ <<2, 3>> :> DeviceCommand
    @@ <<3>> :> DeviceUpdate
    @@ <<4>> :> GatewayResponse @@ <<4, 4>> :> DeviceUpdate
    @@ <<5>> :> DeviceInfo @@ <<6>> :> DiscoveryRequest

\* All of them travel in this envelope.
ASSUME EnvelopeAssumption == Fields[<< >>] = SmartCityMessage

\* With the variables of WireFormat: stage is also "full", "sent" or "decoded",
\* parts are the structures that were encoded, wire their bytes and result what
\* was decoded.
VARIABLES
    came,   \* how the bytes came: "whole", or what happened to them
    buffer  \* the size of the buffer of the first part

vars == <<came, buffer, wireVars>>

\* An envelope with a message, some of whose fields are set.
Envelope(type, tag, values) ==
    [Zero EXCEPT !.data = (<<1>> :> type @@ values) @@ @, !.which[<< >>] = tag]

\* sendDiscoveryResponse, registerWithGateway
Info(id, port, state, actuator) ==
    Envelope(4, 5,
        <<5, 1>> :> <<id>> @@ <<5, 2>> :> 6 @@ <<5, 3>> :> <<id>> @@ <<5, 4>> :> port
        @@ <<5, 5>> :> state @@ <<5, 6>> :> actuator @@ <<5, 7>> :> ~actuator)
\* processTCPCommands: the answer; other devices may add a frequency.
Update(id, state, frequency) ==
    LET m == Envelope(2, 3, <<3, 1>> :> <<id>> @@ <<3, 2>> :> 6 @@ <<3, 3>> :> state)
    IN  IF frequency = 0 THEN m
        ELSE [m EXCEPT !.data[<<3, 21>>] = frequency, !.which[<<3>>] = 21]
\* send_tcp_command_to_device; without a command, GET_DEVICE_STATUS.
Request(id, type, value) ==
    [Envelope(1, 2,
        <<2, 1>> :> 3 @@ <<2, 2>> :> <<id>>
        @@ <<2, 3, 1>> :> <<id>> @@ <<2, 3, 3>> :> type @@ <<2, 3, 4>> :> value)
     EXCEPT !.has = {<<2, 3>>}]
StatusRequest(id) == Envelope(1, 2, <<2, 1>> :> 2 @@ <<2, 2>> :> <<id>>)
\* An empty command: there, but without contents.
EmptyRequest == [Envelope(1, 2, <<2, 1>> :> 3) EXCEPT !.has = {<<2, 3>>}]
\* multicast_discovery
Discovery(ip, port) ==
    Envelope(5, 6,
        <<6, 1>> :> ip @@ <<6, 2>> :> port @@ <<6, 4>> :> ip @@ <<6, 5>> :> port)

Messages ==
    {Info(id, port, 2, b) : id \in Strings, port \in Ports, b \in BOOLEAN}
    \cup {Update(id, state, f) : id \in Strings, state \in 0 .. 2, f \in Ports}
    \cup {Request(id, t, v) : id \in Strings, t \in Strings, v \in Strings}
    \cup {StatusRequest(id) : id \in Strings} \cup {EmptyRequest}
    \cup {Discovery(ip, port) : ip \in Strings, port \in Ports}

\* There is nothing at a and under it.
Empty(m, a) ==
    /\ IsDefault(m, a)
    /\ \A p \in Places : Under(p, a) => p \notin m.has /\ m.which[p] = 0
\* A field the structure does not have.
Lacks(m, p, f) ==
    \/ f.htype = "oneof" /\ f.tag # m.which[p]
    \/ f.htype = "optional" /\ Append(p, f.tag) \notin m.has
\* Nothing has contents but what is there, of a oneof its member.
Consistent(m) ==
    \A p \in Places :
        /\ m.which[p] \in {0} \cup OneofTags(p)
        /\ \A f \in FieldsAt(p) : Lacks(m, p, f) => Empty(m, Append(p, f.tag))

\* A field that the outermost message does not have: its key, and then a
\* varint, as many bytes as the type has, or a length and so many bytes.
UnknownField(bytes) ==
    LET key == pb_decode_varint32(bytes)
        length == pb_decode_varint32(key.rest)
        contents(type) ==
            \/ type = WT_VARINT /\ key.rest # << >> /\ End(key.rest) = Len(key.rest)
            \/ type = WT_64BIT /\ Len(key.rest) = Fixed64
            \/ type = WT_STRING /\ length.ok /\ Len(length.rest) = length.value
            \/ type = WT_32BIT /\ Len(key.rest) = Fixed32
    IN  /\ bytes \in Seq(Byte) /\ key.ok
        /\ key.value \div 8 \notin {0} \cup {f.tag : f \in FieldsAt(<< >>)}
        /\ contents(key.value % 8)

\* The size of a buffer is a size_t.
ASSUME MessagesAssumption ==
    /\ \A m \in Messages : IsStructure(m) /\ Consistent(m)
    /\ BufferSizes \subseteq 0 .. Max32 - 1
    /\ Corrupted \subseteq Byte /\ \A field \in Strange : UnknownField(field)

Bytes(m) == pb_encode(m, Counting).bytes

-----------------------------------------------------------------------------

Init == WireInit /\ came = "whole" /\ buffer = 0

Encode(m, size) ==
    /\ stage = "start"
    /\ LET s == pb_encode(m, size)
       IN  /\ stage' = IF s.ok THEN "sent" ELSE "full"
           /\ wire' = s.bytes
    /\ parts' = <<m>>
    /\ buffer' = size
    /\ UNCHANGED <<came, result>>

\* A message on its way; only those from the largest buffer are followed.
Underway == stage = "sent" /\ came = "whole" /\ buffer = Max(BufferSizes)

\* Another message in the same envelope: protobuf merges them.  A size_t holds
\* the length of both.
AppendPart(m) ==
    /\ Underway
    /\ pb_encode(m, Counting).ok /\ Len(wire) + Len(Bytes(m)) < Max32
    /\ came' = "parts"
    /\ parts' = Append(parts, m)
    /\ wire' = wire \o Bytes(m)
    /\ UNCHANGED <<stage, buffer, result>>

\* A field of a newer .proto, before or after the others.
AddUnknown(field) ==
    /\ Underway
    /\ came' = "unknown"
    /\ wire' \in {wire \o field, field \o wire}
    /\ UNCHANGED <<stage, parts, buffer, result>>

\* A datagram is longer than the buffer it is read into.
Cut(length) ==
    /\ Underway
    /\ length < Len(wire)
    /\ came' = "cut"
    /\ wire' = SubSeq(wire, 1, length)
    /\ UNCHANGED <<stage, parts, buffer, result>>

\* A message that differs in a byte.
Differ(i, byte) ==
    /\ Underway
    /\ i \in DOMAIN wire
    /\ came' = "other"
    /\ wire' = [wire EXCEPT ![i] = byte]
    /\ UNCHANGED <<stage, parts, buffer, result>>

Decode ==
    /\ stage = "sent" /\ buffer = Max(BufferSizes)
    /\ stage' = "decoded"
    /\ result' = pb_decode(wire)
    /\ UNCHANGED <<came, parts, buffer, wire>>

\* What was decoded is encoded again, and decoded once more.  (A size_t holds
\* its length.)
Reencode ==
    /\ stage = "decoded" /\ result.ok /\ came # "again"
    /\ Len(Bytes(result.value)) < Max32
    /\ LET s == pb_encode(result.value, Counting)
       IN  /\ stage' = IF s.ok THEN "sent" ELSE "full"
           /\ wire' = s.bytes
    /\ came' = "again"
    /\ parts' = <<result.value>>
    /\ UNCHANGED <<buffer, result>>

Next ==
    \/ \E m \in Messages, size \in BufferSizes : Encode(m, size)
    \/ \E m \in Messages : AppendPart(m)
    \/ \E field \in Strange : AddUnknown(field)
    \/ \E length \in 0 .. Len(wire) : Cut(length)
    \/ \E i \in 1 .. Len(wire), byte \in Corrupted : Differ(i, byte)
    \/ Decode
    \/ Reencode
    \/ WireNext /\ UNCHANGED <<came, buffer>>

Spec == Init /\ [][Next]_vars

-----------------------------------------------------------------------------
(* Reference definitions                                                   *)

\* The value of a field has the C type of the field.
FieldFitsC(f, v) ==
    CASE f.ltype = "string"     -> Len(v) < f.size /\ \A i \in 1 .. Len(v) : v[i] # 0
      [] f.ltype = "callback"   -> v = << >>
      [] f.ltype = "bool"       -> v \in BOOLEAN
      [] f.ltype = "int32"      -> v \in -Pow2[Bits32 - 1] .. Pow2[Bits32 - 1] - 1
      [] f.ltype = "enum"       -> v \in 0 .. Max32 - 1
\* A structure the program can hold.
FitsC(m) ==
    Consistent(m) /\ \A a \in Leaves : FieldFitsC(FieldAt(a), m.data[a])

\* Everything at or around a is there.
Present(m, a) ==
    \A p \in Places : \A f \in FieldsAt(p) : Under(a, Append(p, f.tag)) => ~Lacks(m, p, f)
\* Every char array has room for the end of its string.
StringsFit(m) ==
    \A a \in Leaves :
        FieldAt(a).ltype = "string" /\ Present(m, a) => Len(m.data[a]) < FieldAt(a).size

\* What protobuf prescribes for two messages one after the other: the later
\* scalar counts unless it is the default, submessages are merged, and of a
\* oneof the member that came last stays.
MergeInto(a, b) ==
    LET Other(p, t) == b.which[p] \notin {0, a.which[p]} /\ t \in OneofTags(p)
        old == Cleared(a, UNION {{Append(p, t) : t \in {u \in OneofTags(p) : Other(p, u)}} : p \in Places})
        Chosen(x) == \E p \in Places : x = Append(p, b.which[p])
        value(x) ==
            IF FieldAt(x).ltype = "callback" THEN << >>
            ELSE IF Chosen(x) \/ b.data[x] # Zero.data[x] THEN b.data[x]
            ELSE old.data[x]
    IN  [data |-> [x \in Leaves |-> value(x)],
         has |-> old.has \cup b.has,
         which |-> [p \in Places |-> IF b.which[p] = 0 THEN old.which[p] ELSE b.which[p]]]

\* The parts, merged into an empty structure.
Merged ==
    IF Len(parts) = 1 THEN MergeInto(Zero, parts[1])
    ELSE MergeInto(MergeInto(Zero, parts[1]), parts[2])

-----------------------------------------------------------------------------
(* Properties                                                              *)

\* Whatever bytes arrive, what pb_decode accepts is a structure the C program
\* can hold: every string ends inside its char array, every number is one of
\* its type, and only one member of each oneof has contents.  (pb_dec_string,
\* pb_dec_varint, decode_static_field)
DecodedFitsC ==
    stage = "decoded" /\ result.ok => FitsC(result.value)

\* pb_encode never writes past the buffer on the stack, and gives up exactly
\* when the message is longer than the buffer or a string is too long; it is
\* the size that a sizing stream counts.  (pb_write, pb_encode_submessage)
BufferRespected ==
    stage \in {"sent", "full"} /\ came = "whole" =>
        LET m == parts[1]
            size == Len(Bytes(m))
        IN  /\ Len(wire) <= buffer
            /\ stage = "sent" => Len(wire) = size
            /\ stage = "full" <=> buffer < size \/ ~StringsFit(m)

\* A message is decoded as it was sent, and two messages in one envelope as
\* protobuf merges them: a board and Google's library agree on the contents.
\* (pb_decode_inner, decode_static_field, pb_dec_submessage)
PartsMerge ==
    stage = "decoded" /\ came \in {"whole", "parts"} =>
        result.ok /\ result.value = Merged

\* What a board decodes it can encode and decode again without a difference,
\* an empty optional submessage included: has_command is what makes a request
\* a command.  (encode_field, pb_check_proto3_default_value)
ReencodedTheSame ==
    came = "again" =>
        /\ stage # "full"
        /\ stage = "decoded" => result = Got(parts[1], << >>)

\* A field the board's .proto does not know changes nothing, whatever its wire
\* type and wherever it stands.  (pb_skip_field, pb_field_iter_find)
UnknownFieldsSkipped ==
    stage = "decoded" /\ came = "unknown" =>
        result.ok /\ result.value = Merged

\* A message that lost its end is never obeyed in part: it is refused, or
\* nothing but its type is left.  (pb_read, pb_make_string_substream)
CutIsNotObeyed ==
    stage = "decoded" /\ came = "cut" /\ result.ok =>
        /\ result.value.which[<< >>] = 0
        /\ result.value.data[<<1>>] \in {0, parts[1].data[<<1>>]}

=============================================================================
