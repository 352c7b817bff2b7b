------------------------------ MODULE WireFormat ------------------------------
(***************************************************************************)
(* What the programs write in front of a message and inside one: varints,  *)
(* and messages behind their length, as they are read back.                *)
(***************************************************************************)
EXTENDS Framing

CONSTANTS
    VarintBytes,\* byte strings that are read as a varint, in both widths
    Payloads,   \* what is sent behind a length
    Junk        \* what an array that was not written may hold

\* Bytes, and messages whose length is a size_t of the boards.
ASSUME InputAssumption ==
    /\ VarintBytes \subseteq Seq(Byte)
    /\ Payloads \subseteq Seq(Byte) /\ \A p \in Payloads : Len(p) < Max32
    /\ Junk \subseteq Byte

VARIABLES
    stage,  \* "start", "varint" or "frame"
    parts,  \* what was sent
    wire,   \* the bytes that arrive
    result  \* what each reader made of them

wireVars == <<stage, parts, wire, result>>

WireInit == stage = "start" /\ parts = << >> /\ wire = << >> /\ result = Failed

\* A varint by itself.
ReadVarint ==
    /\ stage = "start"
    /\ stage' = "varint"
    /\ wire' \in VarintBytes
    /\ UNCHANGED <<parts, result>>

\* A message behind its length, of which the first bytes arrive, some of them
\* at the board's first look; by each of the programs that read one.
ReadFrame(payload, junk) ==
    /\ stage = "start"
    /\ stage' = "frame"
    /\ parts' = <<payload>>
    /\ \E arrived \in 0 .. Len(Frame(payload)) :
          LET in == SubSeq(Frame(payload), 1, arrived)
          IN  /\ wire' = in
              /\ \E first \in 0 .. arrived :
                    result' = [gateway |-> gateway_read(in), bridge |-> bridge_read(in),
                               api |-> api_read(in), board |-> board_read(in, first, junk)]

WireNext ==
    \/ ReadVarint
    \/ \E payload \in Payloads, junk \in Junk : ReadFrame(payload, junk)

WireSpec == WireInit /\ [][WireNext]_wireVars

-----------------------------------------------------------------------------

\* pb_decode_varint and pb_decode_varint32 read the same bytes as the same
\* number and leave the same rest.  They refuse different bytes: the shorter
\* one none that hold a uint32_t or a negative int32_t, and none that the
\* longer one accepts as such.  (pb_decode_varint32, whose sign extension decides)
VarintsAgree ==
    stage = "varint" =>
        LET wide == pb_decode_varint(wire)
            narrow == pb_decode_varint32(wire)
        IN  /\ narrow.ok => /\ wide.ok
                            /\ narrow.value = wide.value % Max32
                            /\ narrow.rest = wide.rest
            /\ wide.ok /\ (wide.value < Max32 \/ wide.value >= Max64 - Pow2[Bits32 - 1])
                  => narrow.ok
            /\ wide.ok => pb_decode_varint(pb_encode_varint(wide.value)) =
                              Got(wide.value, << >>)

\* What the gateway and the bridge hand to the decoder is the message as it was
\* sent, or nothing, wherever the connection breaks off; so does the board for
\* a message whose length is one byte, however the bytes arrive.  The API may
\* be left with the beginning of a message.  All write lengths as nanopb does.
\* (read_delimited_message_bytes, send_tcp_command_to_device, processTCPCommands)
FramesReadWhole ==
    stage = "frame" =>
        LET payload == parts[1]
            all == Len(wire) = Len(Frame(payload))
            size == Len(payload)
        IN  /\ encode_varint(size) = pb_encode_varint(size)
            /\ \A reader \in {result.gateway, result.bridge} :
                  /\ reader.ok <=> all
                  /\ reader.ok => reader.value = payload
            /\ result.board.ok /\ size < Group => result.board.value = payload
            /\ result.api.ok =>
                  result.api.value = SubSeq(payload, 1, Len(result.api.value))
            /\ all => result.api.ok /\ result.api.value = payload

=============================================================================
