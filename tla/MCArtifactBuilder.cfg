CONSTANTS
    Dirs <- MCDirs
    Bases <- MCBases
    Exts <- MCExts
    DepNames <- MCProtoDepNames
    Mentions <- MCMentions
    BoxIdOf <- MCBoxIdOf
    MaxFiles = 3
    SummaryShown = 2

SPECIFICATION ArtSpec

INVARIANT ArtTypeOK
INVARIANT EveryBoxIndexed
INVARIANT DerivedViewsMatchLegend
PROPERTY ImplementsLegendSpec

\* main() goes on to write the artifacts (module Pipeline); here the
\* computation ends after step 8, or in the legend loop when a file
\* includes `constructor` and createMasterLegend throws.
CHECK_DEADLOCK FALSE
