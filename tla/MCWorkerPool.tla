---------------------------- MODULE MCWorkerPool ----------------------------
EXTENDS WorkerPoolFair, TLC

Symmetry == Permutations(Sessions) \cup Permutations(Calls) \cup Permutations(Workers)
=============================================================================
