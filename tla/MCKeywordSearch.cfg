CONSTANTS
    BoxOrder <- MCBoxOrder
    Alphabet <- MCLiteralAlphabet
    Keywords <- MCLiteralKeywords
    MaxText = 3
    MaxShown = 2
SPECIFICATION Spec
INVARIANT ShownAreTopMatches
INVARIANT LiteralRelevanceIsCount
CHECK_DEADLOCK FALSE
