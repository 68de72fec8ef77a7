SPECIFICATION LogSpec
CONSTANTS
    f1 = f1
    f2 = f2
    None = None
    Follower = {f1, f2}
    Text = {"text"}
    Activity = {"tool"}
    Budget = 1
    MaxMerged = 3
    MaxEvents = 6
    MaxShared = 4
SYMMETRY Symmetry
INVARIANTS LentIntact NothingLeaks ClientSeesRun CommittedIsStreamed
CHECK_DEADLOCK FALSE
