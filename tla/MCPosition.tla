------------------------------ MODULE MCPosition ------------------------------
(* Instances of Position for TLC.                                          *)
EXTENDS Position, TLC

InstrumentSymmetry == Permutations(Instruments)
=============================================================================
