SPECIFICATION BankSpec
CONSTANTS
    Genres = {"g", "h"}
    Texts = {"a", "b", "c", "d"}
    Slugs = {1, 2, 3, 4}
    Editions <- Edits
    Theirs <- Mine
    Overlap = FALSE
    MaxSeeds = 3
INVARIANTS
    BankTypeOK
PROPERTIES
    SeedKeepsItsWord
CHECK_DEADLOCK FALSE
