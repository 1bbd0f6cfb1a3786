SPECIFICATION InsightSpec
CONSTANTS
    Hangover = 1
    MinSpeech = 2
    HeardPart = 4
    MinPause = 3
    Awkward = 4
    LongGap = 5
    LongStart = 4
    GoodStart = 2
    ManyUms = 40
    Pitch = 3
    None = None
    Six = 4
    CompareMost = 2
    Recent = 3
    FloorMost = 3
    LastTen = 3
    Unmeasured = Unmeasured
    Enough = 2
    Smooth = 2
    SmoothFrom = 5
    Most = 5
    DotsUntil = 4
    PointBy = 12
    MonthLength = 30
    Words <- MCWords
    Fillers = {"um"}
    Crutches = {"like", "so"}
    CrutchesNamed = 1
    Alphabet <- MCAlphabet
    NoLetters = "2"
    PerMinute = 20
    PaceStep = 4
    RestartWithin = 8
    RestartApart = 3
    RestartReach = 8
    BesidePause = 1
    RunOn = 3
    Repeated = 3
    Scale <- MCScale
    GoodPace <- MCGoodPace
    Utterances = 5
    WordKinds <- MCWordKinds
    Readers <- MCReaders
    Closings = {0, 3}
    Frames = 9
    Overrun = 3
    Rounds = 6
    Sentences = 3
    LastDate = 100
    Kinds <- MCKinds
    SentenceKinds <- MCSentenceKinds
    GenreNames <- MCSlugs
    Windows = {65, 71}
    UmRates = {0, 40, 60}
INVARIANTS
    WordsReadBack MinuteReadBack PagesAgree
PROPERTY
    SilentRoundsMoveNothing
CHECK_DEADLOCK FALSE
