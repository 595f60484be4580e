---------------------------- MODULE MCInstallation ----------------------------
EXTENDS Installation, TLC

Symmetry == Permutations(Command) \union Permutations(Home)
=============================================================================
