--------------------------- MODULE ByteStreamOut ---------------------------
(***************************************************************************)
(* The output stream of src/byte_stream_out.go: typed writes at the end of *)
(* a growing buffer.  A stream is the bytes written so far, and every      *)
(* writer is an operator from a stream to the stream after the call.  The  *)
(* bytes and the kinds of values are those of StreamIn.                    *)
(***************************************************************************)
EXTENDS StreamIn

\* NewByteStreamOut, and CopyNew: a stream with a blank buffer.
NewByteStreamOut == <<>>

CopyNew(bso) == NewByteStreamOut

\* Write: Grow by the length of the data, then WriteBytesNext.
Write(bso, data) == bso \o data

\* Mutation of LittleEndian: the most significant byte comes first.
BigEndian(value, width) ==
    [i \in 1..width |-> (value \div (ByteSpace ^ (width - i))) % ByteSpace]

\* WriteU16LENext, WriteU32LENext, ...: the bytes of an unsigned number, the
\* least significant first.
LittleEndian(value, width) ==
    [i \in 1..width |-> (value \div (ByteSpace ^ (i - 1))) % ByteSpace]

\* byte(s8), uint16(s16), ...: a negative number is its two's complement.
AsUnsigned(value, width) == value % (ByteSpace ^ width)

\* WritePrimitiveUInt8 ... WritePrimitiveBool: Grow by the size of the type
\* and write the value, little-endian.  A float is its bits; a bool is the
\* byte 1 or 0.
WritePrimitive(bso, kind, value) ==
    Write(bso, CASE kind.type = "int"  -> LittleEndian(AsUnsigned(value, kind.width), kind.width)
                 [] kind.type = "bool" -> <<IF value THEN 1 ELSE 0>>
                 [] OTHER              -> LittleEndian(value, kind.width))

=============================================================================
