SPECIFICATION Spec
CONSTANTS
    Contents = {"shared", "other"}
    Places <- MCPlaces
    MaxDownloads = 2
    LocalDownloads = {2}
    ContentOf <- MCContentOf
    MaxRequests = 2
    MaxEnds = 1
PROPERTIES QueueDrains ImplementsLife
CHECK_DEADLOCK FALSE
