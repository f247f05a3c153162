------------------------------ MODULE MCFillFeed ------------------------------
(* Instances of FillFeed for TLC.                                          *)
EXTENDS FillFeed
=============================================================================
