CONSTANTS
    Streams <- SmallStreams
    MaxPieces = 3
SPECIFICATION Spec
INVARIANTS
    TypeOK
    AnsweredAsReceived
PROPERTY
    EveryPieceIsAnswered
