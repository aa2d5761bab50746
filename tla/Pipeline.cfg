CONSTANTS
    MaxRuns = 3
    MaxQueries = 2

SPECIFICATION Spec

INVARIANT TypeOK
INVARIANT QuiescentLoadSeesLastSuccess

\* Both programs exit; once the bounded runs are used up nothing moves.
CHECK_DEADLOCK FALSE
