------------------------------ MODULE LegendSpec ------------------------------
(***************************************************************************)
(* What the Legend Builder promises (spec sections 3 and 4.3): one step   *)
(* that returns the batch definition of the Legend (LegendBatch) over the  *)
(* analyzed files.                                                         *)
(***************************************************************************)
EXTENDS LegendBatch

VARIABLES analyzedFiles, legend, returned

Init ==
    /\ returned = FALSE
    /\ legend = [boxes |-> EmptyObject, categories |-> EmptyObject,
                 dependencies |-> EmptyObject]

Build ==
    /\ ~returned
    /\ returned' = TRUE
    /\ legend' = BatchLegend(analyzedFiles)
    /\ UNCHANGED analyzedFiles

Spec == Init /\ [][Build]_<<analyzedFiles, legend, returned>>
=============================================================================
