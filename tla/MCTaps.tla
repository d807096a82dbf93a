------------------------------- MODULE MCTaps -------------------------------
\* Instances of Taps for TLC.
EXTENDS Taps
=============================================================================
