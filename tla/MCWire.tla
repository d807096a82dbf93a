------------------------------- MODULE MCWire -------------------------------
(* Instances of Wire for TLC: a program that renders the table and a caller. *)
EXTENDS Wire
=============================================================================
