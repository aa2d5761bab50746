CONSTANTS
    Dirs <- MCDirs
    Bases <- MCBases
    Exts <- MCExts
    DepNames <- MCProtoDepNames
    Mentions <- MCMentions
    BoxIdOf <- MCBoxIdOf
    MaxFiles = 2

SPECIFICATION Spec

PROPERTY LegendReturns

\* createMasterLegend returns, or throws and the process exits.
CHECK_DEADLOCK FALSE
