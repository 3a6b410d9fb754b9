--------------------------- MODULE MCMetricBatches ---------------------------
(***************************************************************************)
(* Instances of MetricBatches for TLC.  Workers are interchangeable and so  *)
(* are operators, batches and digests: no property mentions a particular    *)
(* one.                                                                     *)
(***************************************************************************)
EXTENDS MetricBatches, TLC

Symmetry == Permutations(Workers) \cup Permutations(Batches)
              \cup Permutations(Digests) \cup Permutations(Operators)
=============================================================================
