SPECIFICATION LiveSourceSpec
CONSTANTS
    MergeGap = 3
    StoreCap = 3
    RingCap = 3
    LeadInCap = 1
    PartialEvery = 2
    StaleReset = 5
    FeedAfter = 2
    MinVoice = 1
    MinQuiet = 1
    BatchMax = 3
    Horizon = 8
    VoiceBudget = 4
    MaxToggles = 1
INVARIANTS TypeOK NoClipLeaks NoResidue FragmentNamesItsSegment
PROPERTIES KeepsFeed TrailingWindowSettles
CHECK_DEADLOCK FALSE
