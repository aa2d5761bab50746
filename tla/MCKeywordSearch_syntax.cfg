CONSTANTS
    BoxOrder <- MCBoxOrder
    Alphabet <- MCRegexAlphabet
    Keywords <- MCRegexKeywords
    MaxText = 3
    MaxShown = 2
SPECIFICATION Spec
INVARIANT KeywordQueryExitsZero
CHECK_DEADLOCK FALSE
