SPECIFICATION FairSpec
CONSTANTS
    RecentCap = 2
    ChannelBound = 3
    SegBound = 5
INVARIANTS FinalCoversWindow AnnouncedIsRecorded
PROPERTIES AnnouncesFeed ClosedIsAnnounced
CHECK_DEADLOCK FALSE
