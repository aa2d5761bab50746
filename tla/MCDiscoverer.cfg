\* Discovery of every tree of MCTrees in every readdir order, with readdir
\* and stat failures, and the box ids of the discovered files.
CONSTANTS
    Chars <- MCChars
    ToUpper <- MCToUpper
    ToLower <- MCToLower
    Trees <- MCTrees
    MaxName = 3

SPECIFICATION Spec

INVARIANT DepthFirstDiscovery
INVARIANT GlobFilesDiscovered
INVARIANT BoxIdMatchesReference

\* The run ends: with the ids computed, or with a filesystem error.
CHECK_DEADLOCK FALSE
