SPECIFICATION Spec
CONSTANTS
    Words <- MCWords
    MaxWords = 4
    Addresses = {"dns", "srv"}
    Times = {"6:10"}
    BadLevels = {"9"}
INVARIANTS
    SpellingsAgree
    OrderIsFree
    DebugTakesNoOption
CHECK_DEADLOCK FALSE
