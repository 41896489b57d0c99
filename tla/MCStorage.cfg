SPECIFICATION Spec
CONSTANTS
    Names <- MCNames
    Storages = {"phone", "card", "files"}
    Primary = "phone"
    Private = "files"
    UserDirs <- MCUserDirs
    MaxChoices = 2
    MaxEnds = 2
    MaxDepth = 4
INVARIANTS RootInUse UserDirsKept
PROPERTIES DownloadsKept
CHECK_DEADLOCK FALSE
