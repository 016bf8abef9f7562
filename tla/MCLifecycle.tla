---------------------------- MODULE MCLifecycle ----------------------------
\* Instances of Lifecycle for TLC: the values are in the .cfg files.
EXTENDS Lifecycle, TLC

AllLow == [p \in Producers |-> {"low"}]

\* The jobs of a run.
OneFork     == [k \in JobKinds |-> IF k = "fork" THEN 1 ELSE 0]
OneOfEach   == [k \in JobKinds |-> 1]
ForkTwice   == [OneOfEach EXCEPT !["fork"] = 2]

\* Objects that nobody has made yet are alike, and so are threads that log.
Symmetry ==
  Permutations(Producers) \cup Permutations(Pipelines) \cup Permutations(Writers)
=============================================================================
