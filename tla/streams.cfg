SPECIFICATION Spec
CONSTANTS
    ByteSpace = 2
    StringLengthSize = 2
    LargePID = FALSE
    UseStructureHeader = TRUE
    MaxData = 5
    MaxWrites = 2
    MaxQBuffer = 2
    Samples <- EdgeNumbers
    ReadKinds <- AllKinds
    ElementKinds <- AllLists
    MapKinds <- ByteMaps
    Structures <- TwoStructures
INVARIANT TypeOK
INVARIANT CursorWithinBuffer
INVARIANT ReadsInvertWrites
