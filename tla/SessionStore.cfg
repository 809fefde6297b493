SPECIFICATION StoreSpec
CONSTANTS
    KeepRecent = 2
    RecentMessages = 4
    PinnedUsers = 1
    SnipKeeps = {1}
    MaxRounds = 3
    MaxFaults = 1
    MaxCrashes = 1
INVARIANTS CrashLosesAtMostOneSave LoadsWhatWas ShorteningIsSafe ForkKeepsWhatIsAsked
CHECK_DEADLOCK FALSE
