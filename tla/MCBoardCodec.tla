----------------------------- MODULE MCBoardCodec -----------------------------
(* Small widths, in which a uint32_t has two bytes and a uint64_t four;    *)
(* strings up to one byte too long for a char array; varints of zeros and  *)
(* ones at both ends of a byte and where the two types end inside one.     *)
EXTENDS BoardCodec

MCStrings == {<< >>, <<1, 2>>, <<3, 1, 2>>}
MCPorts == {0, -1}
MCBufferSizes == 0 .. 30 \cup {60}
\* Tag 9, in two bytes, in each wire type, and tag 7 in one.
MCStrange == {
    <<72, 1, 65, 1>>, <<73, 1, 5, 6>>, <<74, 1, 3, 8, 9, 10>>, <<74, 1, 0>>,
    <<77, 1, 26>>, <<56, 1>>, <<58, 2, 10, 10>>}
MCCorrupted == {0, 1, 2, 3, 8, 16, 26, 64, 127}
\* With 6 bits to a byte, 8 and 19 bits to the types: 64 says that a byte follows.
MCVarintByte == {0, 1, 2, 3, 62, 63, 64, 65, 66, 67, 126, 127}
MCVarintBytes == UNION {[1 .. n -> MCVarintByte] : n \in 0 .. 4}
\* Lengths of one and two bytes.
MCPayloads == {[i \in 1 .. n |-> i % 128] : n \in {0, 1, 2, 63, 64, 65}}
MCJunk == {0, 1, 64, 65}

=============================================================================
