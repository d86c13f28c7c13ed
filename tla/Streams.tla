------------------------------ MODULE Streams ------------------------------
(***************************************************************************)
(* A message on its way through the byte streams: a ByteStreamOut is       *)
(* written value by value, its bytes become the data of a StreamIn, and    *)
(* the StreamIn is read call by call.  Or the data of the StreamIn come    *)
(* from the network, and are any bytes at all.                             *)
(***************************************************************************)
EXTENDS Types, FiniteSets

CONSTANTS
    MaxData,      \* bound: bytes of a datagram from the network
    MaxWrites,    \* bound: values written to one ByteStreamOut
    MaxQBuffer,   \* bound: bytes of a QBuffer that is written
    Samples,      \* bound: the numbers that are written (those a kind can hold)
    ReadKinds,    \* the kinds the reader asks for
    ElementKinds, \* the kinds of the lists the reader asks for
    MapKinds,     \* the <<key, value>> kinds of the maps the reader asks for
    Structures    \* the structure types the reader asks for

ASSUME /\ {MaxData, MaxWrites, MaxQBuffer} \subseteq Nat
       /\ Samples \subseteq Int
       /\ ReadKinds \subseteq Kinds /\ ElementKinds \subseteq ListKinds

VARIABLES
    bso,       \* the bytes of the ByteStreamOut
    written,   \* history: the values written to bso, each with its kind
    stream,    \* the StreamIn; NoStream while the message is being written
    expected,  \* history: the values in the data of stream, if a ByteStreamOut wrote them
    position,  \* how many of `expected` the reader has read; Lost once it reads
               \* past them, or data from the network
    last       \* the last call on stream and what it returned

vars == <<bso, written, stream, expected, position, last>>

NoStream == [data |-> <<>>, offset |-> -1]
Lost     == -1
NoCall   == [call |-> "none", kind |-> UInt8, from |-> 0, err |-> FALSE, value |-> 0, capacity |-> 0]

Bytes == 0..(ByteSpace - 1)

\* The byte strings of at most n bytes.
ByteStrings(n) == UNION { [1..m -> Bytes] : m \in 0..n }

\* The values a primitive kind holds.
ValuesOf(kind) ==
    CASE kind.type = "bool" -> BOOLEAN
      [] kind.type = "int"  -> -((ByteSpace ^ kind.width) \div 2) .. ((ByteSpace ^ kind.width) \div 2 - 1)
      [] OTHER              -> 0..(ByteSpace ^ kind.width - 1)

\* ByteStreamOut writes little-endian only.
WriteKinds == { kind \in Primitives : kind.order = "LE" }

-----------------------------------------------------------------------------
(* Writing *)

Writing == stream = NoStream /\ Len(written) < MaxWrites

Wrote(kind, value) ==
    /\ written' = Append(written, [kind |-> kind, value |-> value])
    /\ UNCHANGED <<stream, expected, position, last>>

WritesPrimitive(kind, value) ==
    /\ Writing
    /\ bso' = WritePrimitive(bso, kind, value)
    /\ Wrote(kind, value)

\* Write(data): the bytes can be read back one by one.
WritesData(data) ==
    /\ Writing
    /\ bso' = Write(bso, data)
    /\ written' = written \o [i \in DOMAIN data |-> [kind |-> UInt8, value |-> data[i]]]
    /\ UNCHANGED <<stream, expected, position, last>>

WritesQBuffer(qb) ==
    /\ Writing
    /\ bso' = QBufferWriteTo(qb, bso)
    /\ Wrote(QBuffer, qb)

WritesPrimitiveF64(f64) ==
    /\ Writing
    /\ bso' = PrimitiveF64WriteTo(f64, bso)
    /\ Wrote(Float64LE, f64)

\* CopyNew: go on with a blank stream.
CopiesNew ==
    /\ stream = NoStream /\ bso # NewByteStreamOut
    /\ bso' = CopyNew(bso)
    /\ written' = <<>>
    /\ UNCHANGED <<stream, expected, position, last>>

-----------------------------------------------------------------------------
(* From the writer, or from the network, to the reader *)

\* NewStreamIn(bso.Bytes(), server)
Delivers ==
    /\ stream = NoStream
    /\ stream' = NewStreamIn(bso)
    /\ expected' = written
    /\ position' = 0
    /\ UNCHANGED <<bso, written, last>>

\* NewStreamIn(packetData, server)
Receives(data) ==
    /\ stream = NoStream /\ written = <<>>
    /\ stream' = NewStreamIn(data)
    /\ position' = Lost
    /\ UNCHANGED <<bso, written, expected, last>>

-----------------------------------------------------------------------------
(* Reading *)

\* The reader of a message this server's own writer made asks for the kinds
\* that were written, in their order, and then for anything; the reader of
\* data from the network asks for anything from the start.
InStep == position \in 0..(Len(expected) - 1)

\* The call returned: the stream is as the reader left it.
Returned(call, kind, result) ==
    /\ stream # NoStream
    /\ InStep => call = "value" /\ kind = expected[position + 1].kind
    /\ stream' = result.stream
    /\ last' = [call |-> call, kind |-> kind, from |-> stream.offset,
                err |-> result.err, value |-> result.value, capacity |-> result.capacity]
    /\ position' = IF InStep THEN position + 1 ELSE Lost
    /\ UNCHANGED <<bso, written, expected>>

Reads(kind) == Returned("value", kind, ReadElement(stream, kind))

ExtractsQBuffer == Returned("value", QBuffer, QBufferExtractFrom(stream))

ExtractsPrimitiveF64 == Returned("value", Float64LE, PrimitiveF64ExtractFrom(stream))

ReadsList(kind) == Returned("list", kind, ReadList(stream, kind))

ReadsMap(key, value) == Returned("map", key, StreamReadMap(stream, key, value))

ReadsStructure(structure) ==
    Returned("structure", UInt8, StreamReadStructure(stream, structure))

ReadsListStructure(structure) ==
    Returned("list", UInt8, StreamReadListStructure(stream, structure))

ReadsRemaining == Returned("remaining", UInt8, ReadRemaining(stream))

-----------------------------------------------------------------------------
(* The specification *)

Init ==
    /\ bso = NewByteStreamOut
    /\ written = <<>>
    /\ stream = NoStream
    /\ expected = <<>>
    /\ position = Lost
    /\ last = NoCall

Next ==
    \/ \E kind \in WriteKinds \ {Bool} : \E value \in ValuesOf(kind) \cap Samples :
           WritesPrimitive(kind, value)
    \/ \E value \in BOOLEAN : WritesPrimitive(Bool, value)
    \/ \E data \in ByteStrings(MaxQBuffer) \ {<<>>} : WritesData(data)
    \/ \E qb \in ByteStrings(MaxQBuffer) : WritesQBuffer(qb)
    \/ \E f64 \in ValuesOf(Float64LE) \cap Samples : WritesPrimitiveF64(f64)
    \/ CopiesNew
    \/ Delivers
    \/ \E data \in ByteStrings(MaxData) : Receives(data)
    \/ \E kind \in ReadKinds : Reads(kind)
    \/ ExtractsQBuffer
    \/ ExtractsPrimitiveF64
    \/ \E kind \in ElementKinds : ReadsList(kind)
    \/ \E kinds \in MapKinds : ReadsMap(kinds[1], kinds[2])
    \/ \E structure \in Structures : ReadsStructure(structure) \/ ReadsListStructure(structure)
    \/ ReadsRemaining

Spec == Init /\ [][Next]_vars

-----------------------------------------------------------------------------
(* Properties *)

\* The variables have their types; a number that was read is one its kind
\* can hold.
TypeOK ==
    /\ bso \in Seq(Bytes)
    /\ \A i \in DOMAIN written : written[i].kind \in WriteKinds \cup {QBuffer}
    /\ stream.data \in Seq(Bytes) /\ stream.offset \in Int
    /\ expected \in {<<>>, written}
    /\ position \in {Lost} \cup 0..Len(expected)
    /\ last.call \in {"none", "value", "list", "map", "structure", "remaining"}
    /\ last.err \in BOOLEAN /\ last.capacity \in Nat /\ last.from \in Nat
    /\ last.call = "value" /\ last.kind \in Primitives => last.value \in ValuesOf(last.kind)

\* No sequence of reads, of any kinds, on any data, takes the cursor out of
\* the buffer: every reader of stream_in.go compares what it is about to
\* take with Remaining() first, the readers of strings, buffers and
\* structures with the length they have just read from the data.
CursorWithinBuffer ==
    stream # NoStream => stream.offset \in 0..Len(stream.data)

\* What ByteStreamOut, QBuffer and PrimitiveF64 write, StreamIn reads: a
\* reader that asks for the kinds that were written, in their order, gets
\* the values that were written, negative numbers and the largest of each
\* size included, whatever was written before and after them.
ReadsInvertWrites ==
    position \in 1..Len(expected) =>
        ~last.err /\ last.value = expected[position].value

\* The list readers compare the length they read with the bytes that remain
\* ("length longer than data size") before they allocate: make([]T, 0,
\* length) is for no more elements than there are bytes left.  The product
\* in the comparison is a uint32 and wraps, and the readers of lists of
\* PIDs, strings, buffers and structures do not compare.
AllocationWithinInput ==
    last.call = "list" /\ last.capacity > 0 =>
        last.capacity <= Len(stream.data) - last.from - 4

=============================================================================
