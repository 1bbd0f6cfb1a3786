SPECIFICATION FairSpec
CHECK_DEADLOCK FALSE
CONSTANTS
    Pages = {here, there}
    Texts = {s, t}
    Cap = 1
    PerMonth = 1
    MaxSends = 3
    MaxRows = 2
INVARIANTS TypeOK StalePagesHarmless
PROPERTIES PublicLink ControlsComeBack
