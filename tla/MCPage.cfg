CONSTANTS
    Day = 2
    Before = 1
    After = 1
    Files <- MCFiles
    Links <- MCLinks
    CacheSize = 1
    MaxActs = 2
    MaxEntries = 2
SPECIFICATION MCSpec
INVARIANTS
    NoEventIsHidden
    OpensWhileArmed
    LinkIsHonouredOrDisowned
    AddressIsTheQuestion
    ShowsWhatIsAsked
    EverythingIsDated
    RankingIsOfTheInstant
PROPERTIES
    PageSettles
CHECK_DEADLOCK FALSE
