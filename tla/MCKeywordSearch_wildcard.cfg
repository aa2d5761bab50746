CONSTANTS
    BoxOrder <- MCBoxOrder
    Alphabet <- MCRegexAlphabet
    Keywords <- MCRegexKeywords
    MaxText = 3
    MaxShown = 2
SPECIFICATION Spec
INVARIANT RegexRelevanceIsCount
CHECK_DEADLOCK FALSE
