-------------------------- MODULE MCArtifactBuilder --------------------------
(* Steps 3-6 and 8 of the generator over the files of MCLegendBuilder. *)
EXTENDS ArtifactBuilder, MCLegendBuilder
=============================================================================
