----------------------------- MODULE MCStreams -----------------------------
(***************************************************************************)
(* Streams for TLC: the kinds and structure types the reader asks for.     *)
(***************************************************************************)
EXTENDS Streams

\* Every kind StreamIn has a reader for.
AllKinds == Kinds

\* Every kind StreamIn has a list reader for.
AllLists == ListKinds

\* The integers and floats only: the list readers that compare the length
\* with the bytes that remain.
NumberLists == Numbers

\* The lists of 16-bit numbers alone: ReadListUInt16LE.
UInt16Lists == {UInt16LE}

\* Maps from a byte to a byte and from a byte to a qBuffer.
ByteMaps == { <<UInt8, UInt8>>, <<UInt8, QBuffer>> }

\* A structure of one byte, and one that inherits from it and adds a uint16.
Structure1 == << <<UInt8>> >>
Structure2 == << <<UInt8>>, <<UInt16LE>> >>
TwoStructures == {Structure1, Structure2}

\* The numbers at the ends of the ranges of 8, 16, 32 and 64 bits when a
\* byte has two values.
EdgeNumbers == {-128, -8, -1, 0, 1, 7, 15, 127, 255}

=============================================================================
