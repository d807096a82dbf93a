------------------------------ MODULE MCRoost ------------------------------
EXTENDS Roost, TLC

Symmetric == Permutations(Session) \cup Permutations(Frame)
=============================================================================
