CONSTANTS
    MaxRuns = 3
    MaxQueries = 2

SPECIFICATION Spec


INVARIANT AllOrNothing

\* Both programs exit; once the bounded runs are used up nothing moves.
CHECK_DEADLOCK FALSE
