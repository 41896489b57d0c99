SPECIFICATION Spec
CONSTANTS
    Length = 3
    SubtitleChoices = {1}
    MaxDisturbed = 2
INVARIANTS SilentWhenPaused ReadyIsCurrent OneScreen SubtitlesAsChosen
PROPERTIES PositionKept PlaybackStarts
CHECK_DEADLOCK FALSE
