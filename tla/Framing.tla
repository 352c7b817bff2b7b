-------------------------------- MODULE Framing --------------------------------
(***************************************************************************)
(* Messages on a TCP connection: the length of a message as a varint, then *)
(* its bytes.  Each program has a writer and a reader of its own.          *)
(*                                                                         *)
(* A reader is given the bytes that arrive before the connection ends or   *)
(* its patience does, and returns what it hands to the decoder.  A length  *)
(* is expected in LengthBytes bytes (5).                                   *)
(***************************************************************************)
EXTENDS Varint

LengthBytes == Bits32 \div GroupBits + 1

\* The bytes a value takes: while value >= 0x80, or until value is zero.
Size(value) ==
    CHOOSE n \in 1 .. value + 1 :
        /\ value < Pow2[GroupBits * n]
        /\ \A m \in 1 .. n - 1 : value >= Pow2[GroupBits * m]

\* Of the gateway, the API and the bridge, and the loops of the boards.
encode_varint(value) == Linked([i \in 1 .. Size(value) |-> Digit(value, i)])

Frame(payload) == encode_varint(Len(payload)) \o payload

\* A length of at most limit continued bytes, read byte by byte.
LengthBefore(in, limit) ==
    LET n == End(in)
    IN  IF n \in 1 .. limit + 1 THEN Got(Results(in)[n], After(in, n)) ELSE Failed

\* read(size) of a file made of a socket: less than size at the end only.
Read(size) ==
    Got(SubSeq(size.rest, 1, Shorter(size.value, Len(size.rest))),
        After(size.rest, size.value))
\* What was read is as long as it should be.
Complete(size) == IF size.ok /\ Len(size.rest) >= size.value THEN Read(size) ELSE Failed

\* Mutant of gateway_read: what was read is not compared with the length.
GatewayReadsWhatThereIs(in) ==
    LET size == LengthBefore(in, LengthBytes) IN IF size.ok THEN Read(size) ELSE Failed
\* read_delimited_message_bytes of the gateway.
gateway_read(in) == Complete(LengthBefore(in, LengthBytes))

\* send_tcp_command_to_device of the bridge: a length of any number of bytes.
bridge_read(in) == Complete(LengthBefore(in, Len(in)))

\* read_delimited_message of the API: what was read may be too short.
api_read(in) ==
    LET size == LengthBefore(in, Bits64 \div GroupBits)
    IN  IF size.ok THEN Read(size) ELSE Failed

\* processTCPCommands of the relay board: the bytes of the length are those
\* that are there at its first look, and one of the array besides, which has
\* not been written (junk) if the last of them is not the end of the length.
\* The sum is a size_t, of 32 bits.  (Left out: readBytes would write a message that
\* is longer than the 128 bytes of its buffer past its end; no program sends one.)
board_read(in, first, junk) ==
    LET seen == SubSeq(in, 1, Shorter(first, LengthBytes))
        ended == End(seen) # 0
        used == IF ended THEN End(seen) ELSE Len(seen)
        varint == IF ended THEN SubSeq(seen, 1, used) ELSE Append(seen, junk)
    IN  IF first = 0 THEN Failed
        ELSE Complete(Got(Results(varint)[Len(varint)] % Max32, After(in, used)))

=============================================================================
