CONSTANTS
    Calls = {c1, c2, c3, c4}
    c1 = c1
    c2 = c2
    c3 = c3
    c4 = c4
    Key <- MCKey
    Texts <- MCTexts
    Queries <- MCQueries
SPECIFICATION UtilitiesSpec
INVARIANTS MkPathMeaning Base64Meaning QueryMeaning
CHECK_DEADLOCK FALSE
