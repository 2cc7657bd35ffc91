------------------------------ MODULE MCFiles ------------------------------
\* Files with two names, none of which is treated differently from the other
EXTENDS Files, TLC

NameSymmetry == Permutations(Names)
=============================================================================
