------------------------------ MODULE MCScopes ------------------------------
\* Instances of Scopes for TLC: the values are in the .cfg file.
EXTENDS Scopes, TLC

CONSTANTS k1, k2, o1

MCOperations == {k1, k2, o1}
MCTasks == {k1, k2}
Symmetric == Permutations(Threads) \cup Permutations(Requests)
             \cup Permutations(Tasks) \cup Permutations(Ids)
=============================================================================
