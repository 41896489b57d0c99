SPECIFICATION PlaySpec
CONSTANTS
    Contents = {"film", "other", "local"}
    Places <- MCPlaces
    MaxDownloads = 0
    LocalDownloads = {}
    ContentOf <- MCContentOf
    MaxRequests = 0
    MaxEnds = 1
    LocalContents = {"local"}
    MaxPlays = 3
INVARIANTS WatchNowStops PlaysAsked WatchedIsRemembered
CHECK_DEADLOCK FALSE
PROPERTY WaitingStarts
