CONSTANTS
    NumPieces = 6
    InitialWanted <- MCSingleFile
    InitialHave <- MCNothing
    PREPARE_PIECE_COUNT = 1
    ACTIVE_PIECE_COUNT = 1
    MovieLength = 7
    MaxReloads = 1
    MayLoseHandle = FALSE
SPECIFICATION Spec
PROPERTIES StartedVideoCompletes TaskEnds
CHECK_DEADLOCK FALSE
