CONSTANTS
    Dirs <- MCDirs
    Bases <- MCBases
    Exts <- MCExts
    DepNames <- MCOneDepName
    Mentions <- MCMentions
    BoxIdOf <- MCBoxIdOf
    MaxFiles = 3
    Commands <- MCCommands
    Args <- MCArgs
    StrIncludes <- MCStrIncludes
    StrLower <- MCStrLower

SPECIFICATION Spec

INVARIANT OrdinaryMissExitsZero
INVARIANT CategoriesListedByCount
INVARIANT ExitStatusFollowsLoad


\* One command per process: the CLI exits after answering it.
CHECK_DEADLOCK FALSE
