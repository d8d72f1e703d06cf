------------------------- MODULE MCUniversityCoverage ------------------------
(* Instances of ItmoIngestion and UniversityCoverage for TLC.                  *)
EXTENDS UniversityCoverage, TLC

\* Runs and page bodies are interchangeable; groups are not, they are ordered.
Interchangeable == Permutations(Runs) \cup Permutations(Contents)
=============================================================================
