\* The object file src/ch.o against the exclude list.
CONSTANTS
    Chars <- MCChars
    ToUpper <- MCToUpper
    ToLower <- MCToLower
    Trees <- MCTrees
    MaxName = 3

SPECIFICATION Spec

INVARIANT NoExcludedFileDiscovered

\* The run ends: with the ids computed, or with a filesystem error.
CHECK_DEADLOCK FALSE
