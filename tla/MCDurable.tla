----------------------------- MODULE MCDurable -----------------------------
EXTENDS Durable, TLC

Symmetric == Permutations(Session) \cup Permutations(Frame)
=============================================================================
