SPECIFICATION Spec
CONSTANTS
    Contents = {"shared", "other"}
    Places <- MCPlaces
    MaxDownloads = 2
    LocalDownloads = {2}
    ContentOf <- MCDistinct
    MaxRequests = 0
    MaxEnds = 1
INVARIANT LastWatchedIsNoDownload
CHECK_DEADLOCK FALSE
