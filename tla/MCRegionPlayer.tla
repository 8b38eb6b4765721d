---------------------------- MODULE MCRegionPlayer ----------------------------
EXTENDS RegionPlayer, TLC

Symmetry == Permutations(Clients) \cup Permutations(Backgrounds)
=============================================================================
