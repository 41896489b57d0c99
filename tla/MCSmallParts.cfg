SPECIFICATION MCSpec
CONSTANTS
    Names = {"film", "sample", "notes"}
    Sizes = {0, 1, 3, 4, 7, 8}
    LongMax = 3
    MaxFiles = 3
    MaxCalls = 2
    Parts = {"film", "sample", "notes", "extras"}
    Paths <- MCPaths
    Videos = {"film", "sample"}
    MaxLines = 6
    Episodes = {"pilot", "final"}
    Languages = {"english", "hebrew"}
    SubLang = "english"
    MaxSelections = 3
    MaxSubtitles = 2
    MaxStarts = 3
    MaxFaults = 2
INVARIANTS RightFileWanted PickedIsLoaded CuesKept SubtitlesOfEpisode SessionFollowsScreen
CHECK_DEADLOCK FALSE
