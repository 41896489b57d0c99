CONSTANTS
    NumPieces = 7
    InitialWanted <- MCLayouts
    InitialHave <- MCResumed
    PREPARE_PIECE_COUNT = 1
    ACTIVE_PIECE_COUNT = 2
    MovieLength = 7
    MaxReloads = 2
    MayLoseHandle = TRUE
SPECIFICATION Spec
INVARIANTS PrefixDownloaded HaveAllSound SeekSound RequestedInOrder OnlyVideoRequested AtMostTwoChains
PROPERTIES PieceIndexMonotone
CHECK_DEADLOCK FALSE
