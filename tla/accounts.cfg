SPECIFICATION Spec
CONSTANTS
    Ada = Ada
    Alan = Alan
    Cy = Cy
    b1 = b1
    b2 = b2
    None = None
    Keep = Keep
    People = {Ada, Alan, Cy}
    Browsers = {b1, b2}
    Met <- MCMet
    Runs = {r1}
    Codes <- MCCodes
    Devices = {1, 2, 3, 4, 5, 6}
    Keys = {1, 2, 3, 4, 5, 6}
    Calls = {1, 2}
    MaxWord = 2
    Scenes <- MCScenes
    Stem <- MCStem
    Sales = {1, 2}
    Cents <- MCCents
    LooksAtOnce = 1
INVARIANTS
    MembersTypeOK LockedOut LinkKeepsWorking CommissionIsOwed
CHECK_DEADLOCK FALSE
