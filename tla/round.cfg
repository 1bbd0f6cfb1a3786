SPECIFICATION FairSpec
CONSTANTS
    None = None
    Surprise = Surprise
    DefaultGenre = "g"
    Late = 1
    Stored <- MCStored
    Pages <- MCPages
    Links <- MCLinks
    Stageable <- MCStageable
    Speeds <- MCSpeeds
    Levels = {"easy"}
    Preps = {0, 1}
    Speaks = {1}
    LeadIn = 2
    MaxRan = 3
    MaxMoved = 1
INVARIANTS
    TypeOK
    ScreenIsServed
PROPERTIES
    WrittenIsTrue
    DrawnAsChosen
    FollowsFlow
    NothingHangs
CHECK_DEADLOCK FALSE
