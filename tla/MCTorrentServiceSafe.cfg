SPECIFICATION Spec
CONSTANTS
    Contents = {"shared", "other"}
    Places <- MCPlaces
    MaxDownloads = 3
    LocalDownloads = {3}
    ContentOf <- MCContentOf
    MaxRequests = 2
    MaxEnds = 1
INVARIANTS NoStrayTorrent RowsHaveTorrents StatesAgree DirectoriesHaveRows
CHECK_DEADLOCK FALSE
