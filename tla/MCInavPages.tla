---------------------------- MODULE MCInavPages ----------------------------
(* Instances of InavPages for TLC.                                         *)
EXTENDS InavPages

TwoSats == {"E11", "E12"}
=============================================================================
