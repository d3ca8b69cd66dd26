------------------------------ MODULE MCFleet ------------------------------
EXTENDS Fleet, TLC

MCSymmetry == Permutations(Daemons)
=============================================================================
