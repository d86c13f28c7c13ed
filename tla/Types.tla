------------------------------- MODULE Types -------------------------------
(***************************************************************************)
(* The value types of src/unnamed/part_000, QBuffer and PrimitiveF64: how  *)
(* each writes itself to a writable and extracts itself from a readable.   *)
(* The writable is ByteStreamOut.  The readable of these types is not      *)
(* among the repository's files; StreamIn stands for it: a read of a       *)
(* number or of n bytes fails if fewer bytes remain.                       *)
(***************************************************************************)
EXTENDS ByteStreamOut

QBuffer    == Kind("qbuffer", 0, "LE")
Float64LE  == Kind("float", 8, "LE")

\* QBuffer.WriteTo: the length as a uint16, then the bytes if there are any.
QBufferWriteTo(qb, writable) ==
    LET withLength == WritePrimitive(writable, UInt16LE, AsUnsigned(Len(qb), 2))
    IN  IF Len(qb) > 0 THEN Write(withLength, qb) ELSE withLength

\* QBuffer.ExtractFrom: a uint16 length, then as many bytes.
QBufferExtractFrom(readable) == ReadPrefixed(readable, UInt16LE)

\* PrimitiveF64.WriteTo and ExtractFrom: the float64, little-endian.
PrimitiveF64WriteTo(f64, writable) == WritePrimitive(writable, Float64LE, f64)

PrimitiveF64ExtractFrom(readable) == ReadPrimitive(readable, Float64LE)

=============================================================================
