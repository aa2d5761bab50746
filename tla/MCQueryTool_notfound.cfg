CONSTANTS
    Dirs <- MCDirs
    Bases <- MCBases
    Exts <- MCExts
    DepNames <- MCDepNames
    Mentions <- MCMentions
    BoxIdOf <- MCBoxIdOf
    MaxFiles = 2
    Commands <- MCCommands
    Args <- MCArgs
    StrIncludes <- MCStrIncludes
    StrLower <- MCStrLower

SPECIFICATION Spec


INVARIANT NotFoundExitsZero

\* One command per process: the CLI exits after answering it.
CHECK_DEADLOCK FALSE
