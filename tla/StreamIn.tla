------------------------------ MODULE StreamIn ------------------------------
(***************************************************************************)
(* The input stream of src/stream_in.go: typed reads over a byte buffer    *)
(* with a cursor.  A stream is a record of its bytes and its offset, and   *)
(* every reader is an operator from a stream to a result: the error, the   *)
(* value, the stream after the call and, for the list readers, the         *)
(* capacity they allocated.                                                *)
(*                                                                         *)
(* A byte has ByteSpace values (2^8 in the code), so a uint32 has          *)
(* ByteSpace^4: the widths of the code are kept and the arithmetic wraps   *)
(* where the code's does.                                                  *)
(***************************************************************************)
EXTENDS Integers, Sequences, SequencesExt

CONSTANTS
    ByteSpace,          \* number of values of a byte
    StringLengthSize,   \* Server.StringLengthSize(): bytes in the length of a string
    LargePID,           \* Server.LibraryVersion().GreaterOrEqual("4.0.0")
    UseStructureHeader  \* PRUDPMinorVersion >= 3, or library version >= 3.5.0

ASSUME /\ ByteSpace \in Nat \ {0, 1}
       /\ StringLengthSize \in {2, 4}
       /\ LargePID \in BOOLEAN /\ UseStructureHeader \in BOOLEAN

-----------------------------------------------------------------------------
(* The buffer (crunch.Buffer) *)

NewStreamIn(data) == [data |-> data, offset |-> 0]

Remaining(s) == Len(s.data) - s.offset

\* ReadBytesNext(n): the next n bytes, and the cursor moved past them.  The
\* library panics on a read past the end; here such a read gets zeros and
\* leaves the cursor outside the buffer.
ReadBytesNext(s, n) ==
    [ bytes  |-> [i \in 1..n |-> IF s.offset + i \in DOMAIN s.data THEN s.data[s.offset + i] ELSE 0],
      stream |-> [s EXCEPT !.offset = @ + n] ]

\* What a reader returns, and the stream it leaves.
Result(err, value, stream) == [err |-> err, value |-> value, stream |-> stream, capacity |-> 0]

ReadRemaining(s) ==
    LET read == ReadBytesNext(s, Remaining(s))
    IN  Result(FALSE, read.bytes, read.stream)

-----------------------------------------------------------------------------
(* Primitives *)

Kind(type, width, order) == [type |-> type, width |-> width, order |-> order]

UInt8    == Kind("uint", 1, "LE")
UInt16LE == Kind("uint", 2, "LE")
UInt32LE == Kind("uint", 4, "LE")
UInt64LE == Kind("uint", 8, "LE")
Bool     == Kind("bool", 1, "LE")

\* The integer and float readers: 8 bits, and 16, 32 and 64 bits in both
\* byte orders; floats of 32 and 64 bits.
Numbers ==
    { Kind(type, 1, "LE") : type \in {"uint", "int"} } \cup
    { Kind(type, width, order) : type \in {"uint", "int"}, width \in {2, 4, 8}, order \in {"LE", "BE"} } \cup
    { Kind("float", width, order) : width \in {4, 8}, order \in {"LE", "BE"} }

Primitives == Numbers \cup {Bool}

\* The number a run of bytes stands for (ReadU16LENext, ReadU32BENext, ...).
RECURSIVE Unsigned(_, _)
Unsigned(bytes, order) ==
    CASE bytes = <<>> -> 0
      [] order = "LE" -> Head(bytes) + ByteSpace * Unsigned(Tail(bytes), order)
      [] OTHER        -> ByteSpace * Unsigned(Front(bytes), order) + Last(bytes)

\* Mutation of Signed: the conversion is left out.
SignedAsRead(value, width) == value

\* int8(x), int16(x), ...: the upper half of the range is negative.
Signed(value, width) ==
    IF 2 * value >= ByteSpace ^ width THEN value - ByteSpace ^ width ELSE value

\* The value of a primitive: a float is its bits, a bool is "the byte is 1".
Decoded(kind, bytes) ==
    LET value == Unsigned(bytes, kind.order)
    IN  CASE kind.type = "int"  -> Signed(value, kind.width)
          [] kind.type = "bool" -> value = 1
          [] OTHER              -> value

\* What a reader of this kind returns with an error.
Zero(kind) ==
    CASE kind.type = "bool" -> FALSE
      [] kind.type \in {"string", "buffer", "qbuffer", "stationurl"} -> <<>>
      [] OTHER -> 0

\* ReadUInt8 ... ReadBool: an error if fewer bytes remain than the type
\* has, and then nothing is consumed.
ReadPrimitive(s, kind) ==
    IF Remaining(s) < kind.width
    THEN Result(TRUE, Zero(kind), s)
    ELSE LET read == ReadBytesNext(s, kind.width)
         IN  Result(FALSE, Decoded(kind, read.bytes), read.stream)

\* ReadPID: 8 bytes from library version 4.0.0 on, 4 before.
ReadPID(s) == ReadPrimitive(s, IF LargePID THEN UInt64LE ELSE UInt32LE)

ReadDateTime(s) == ReadPrimitive(s, UInt64LE)

-----------------------------------------------------------------------------
(* Strings and buffers *)

\* Mutation of ReadPrefixed: the length is not compared with what remains.
ReadPrefixedUnchecked(s, lengthKind) ==
    LET length == ReadPrimitive(s, lengthKind)
        read   == ReadBytesNext(length.stream, length.value)
    IN  IF length.err THEN Result(TRUE, <<>>, s) ELSE Result(FALSE, read.bytes, read.stream)

\* A length and as many bytes.  With the length read and the bytes missing,
\* the error leaves the cursor after the length.
ReadPrefixed(s, lengthKind) ==
    LET length == ReadPrimitive(s, lengthKind)
        read   == ReadBytesNext(length.stream, length.value)
    IN  CASE length.err                                 -> Result(TRUE, <<>>, s)
          [] Remaining(length.stream) < length.value    -> Result(TRUE, <<>>, length.stream)
          [] OTHER                                      -> Result(FALSE, read.bytes, read.stream)

ReadBuffer(s)  == ReadPrefixed(s, UInt32LE)
ReadQBuffer(s) == ReadPrefixed(s, UInt16LE)

\* strings.TrimRight(str, "\x00"): without the zero bytes at its end.
TrimRight(bytes) ==
    SubSeq(bytes, 1, Max({0} \cup { i \in DOMAIN bytes : bytes[i] # 0 }))

ReadString(s) ==
    LET read == ReadPrefixed(s, IF StringLengthSize = 4 THEN UInt32LE ELSE UInt16LE)
    IN  [read EXCEPT !.value = TrimRight(@)]

\* A station URL is the string it is parsed from.
ReadStationURL(s) == ReadString(s)

\* The header of a structure: a version and the length of the content,
\* which must not be more than what remains.  Without headers nothing is
\* read.
StructureHeader == Kind("header", 0, "LE")

ReadStructureHeader(s) ==
    LET version == ReadPrimitive(s, UInt8)
        length  == ReadPrimitive(version.stream, UInt32LE)
    IN  CASE ~UseStructureHeader -> Result(FALSE, 0, s)
          [] version.err         -> Result(TRUE, 0, s)
          [] length.err \/ Remaining(length.stream) < length.value -> Result(TRUE, 0, length.stream)
          [] OTHER               -> Result(FALSE, version.value, length.stream)

Composites == { Kind(type, 0, "LE") : type \in {"pid", "datetime", "string", "buffer", "qbuffer", "stationurl"} }

Kinds == Primitives \cup Composites

\* The reader of a kind.
ReadElement(s, kind) ==
    CASE kind.type = "pid"        -> ReadPID(s)
      [] kind.type = "datetime"   -> ReadDateTime(s)
      [] kind.type = "string"     -> ReadString(s)
      [] kind.type = "buffer"     -> ReadBuffer(s)
      [] kind.type = "qbuffer"    -> ReadQBuffer(s)
      [] kind.type = "stationurl" -> ReadStationURL(s)
      [] kind.type = "header"     -> ReadStructureHeader(s)
      [] OTHER                    -> ReadPrimitive(s, kind)

-----------------------------------------------------------------------------
(* Lists, maps and structures *)

\* The loops of the list, map and structure readers: one read per kind, in
\* order, until one fails; then the values read are dropped.
RECURSIVE ReadEach(_, _)
ReadEach(s, kinds) ==
    IF kinds = <<>> THEN Result(FALSE, <<>>, s)
    ELSE LET read == ReadElement(s, Head(kinds))
             rest == ReadEach(read.stream, Tail(kinds))
         IN  CASE read.err -> Result(TRUE, <<>>, read.stream)
               [] rest.err -> rest
               [] OTHER    -> [rest EXCEPT !.value = <<read.value>> \o @]

\* A product of uint32 is a uint32.
UInt32(n) == n % (ByteSpace ^ 4)

\* The list readers exist for the numbers, PIDs, strings, buffers, qBuffers
\* and station URLs.
ListKinds == Kinds \ {Bool, Kind("datetime", 0, "LE")}

\* What the list reader multiplies the length by before it compares it with
\* the bytes that remain: the size of an integer, 4 for a float of either
\* size; 0 for the readers that do not compare.
ListCheck(kind) ==
    CASE kind.type \in {"uint", "int"} -> kind.width
      [] kind.type = "float"           -> 4
      [] OTHER                         -> 0

\* make([]T, 0, length) and the loop: one read per element.
ReadElements(s, kind, length) ==
    [ReadEach(s, [i \in 1..length |-> kind]) EXCEPT !.capacity = length]

\* ReadListUInt8 ... ReadListFloat64BE: the length, the comparison (in
\* uint32), then the elements.
ReadListOfNumbers(s, kind) ==
    LET length == ReadPrimitive(s, UInt32LE)
        rest   == length.stream
    IN  CASE length.err -> Result(TRUE, <<>>, s)
          [] Remaining(rest) < UInt32(length.value * ListCheck(kind)) -> Result(TRUE, <<>>, rest)
          [] OTHER -> ReadElements(rest, kind, length.value)

\* ReadListPID ... ReadListStationURL: the length, then the elements.
ReadListOfValues(s, kind) ==
    LET length == ReadPrimitive(s, UInt32LE)
    IN  IF length.err THEN Result(TRUE, <<>>, s)
        ELSE ReadElements(length.stream, kind, length.value)

\* The list reader of a kind: the readers of numbers are those with a size to
\* compare with.
ReadList(s, kind) ==
    IF ListCheck(kind) # 0 THEN ReadListOfNumbers(s, kind) ELSE ReadListOfValues(s, kind)

\* StreamReadMap: the length, then a key and a value per entry; a key read
\* again replaces the entry.
StreamReadMap(s, keyKind, valueKind) ==
    LET length  == ReadPrimitive(s, UInt32LE)
        entries == ReadEach(length.stream,
                            [i \in 1..(2 * length.value) |-> IF i % 2 = 1 THEN keyKind ELSE valueKind])
        KeyAt(i) == entries.value[2 * i - 1]
        LastOf(key) == Max({ i \in 1..length.value : KeyAt(i) = key })
    IN  CASE length.err  -> Result(TRUE, <<>>, s)
          [] entries.err -> entries
          [] OTHER       -> [entries EXCEPT !.value = [key \in { KeyAt(i) : i \in 1..length.value } |->
                                                          entries.value[2 * LastOf(key)]]]

\* A structure type is the field kinds of its ancestors and of itself, the
\* root first.  StreamReadStructure reads the parent, then the header, then
\* the fields: a header and the fields for every type from the root down.
FieldsOf(structure) ==
    FlattenSeq([type \in DOMAIN structure |-> <<StructureHeader>> \o structure[type]])

StreamReadStructure(s, structure) == ReadEach(s, FieldsOf(structure))

\* StreamReadListStructure: the length, make([]T, 0, length), and one
\* structure per element.
StreamReadListStructure(s, structure) ==
    LET length == ReadPrimitive(s, UInt32LE)
    IN  IF length.err THEN Result(TRUE, <<>>, s)
        ELSE [ReadEach(length.stream, FlattenSeq([i \in 1..length.value |-> FieldsOf(structure)]))
                 EXCEPT !.capacity = length.value]

=============================================================================
