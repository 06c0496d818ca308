SPECIFICATION Spec
CONSTANTS
    Layout <- MCLayout
    PieceSize = 2
    BufferPercent = 100
    MaxBufferSize = 5
    BufferNowPieces = 0
    BufferHighPieces = 1
    BufferReadAheadPieces = 1
    MaxPlays = 2
    MaxSeeks = 1
INVARIANTS
    OneWindow
    ReadyMeansAlmostThere
PROPERTIES
    OneReporterLeft
    PlayheadSteers
