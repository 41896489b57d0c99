SPECIFICATION PlaySpec
CONSTANTS
    Contents = {"film", "other"}
    Places <- MCPlaces
    MaxDownloads = 1
    LocalDownloads = {}
    ContentOf <- MCContentOf
    MaxRequests = 1
    MaxEnds = 0
    LocalContents = {}
    MaxPlays = 2
INVARIANTS WatchedIsRemembered PausedAgain PreparationRuns
CHECK_DEADLOCK FALSE
