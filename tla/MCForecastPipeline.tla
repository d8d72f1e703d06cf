------------------------- MODULE MCForecastPipeline --------------------------
(* Instances of ForecastPipeline for TLC.                                      *)
EXTENDS ForecastPipeline, TLC

\* Every target is interested in the first group.
InFirstGroup == [t \in Targets |-> 1]
PageBodies == Permutations(Contents)
=============================================================================
