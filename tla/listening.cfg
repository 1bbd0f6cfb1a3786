SPECIFICATION FairSpec
CONSTANTS
    None = None
    Takes = {1, 2}
    Overtaken = {"record", "idle"}
INVARIANTS
    TypeOK
    MicrophoneInHand
PROPERTIES
    SoundIsOfTheMinute
    RoundClosed
CHECK_DEADLOCK FALSE
