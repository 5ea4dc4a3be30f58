-------------------------- MODULE MCOsnmaSubframes --------------------------
(* Instances of OsnmaSubframes for TLC.                                    *)
EXTENDS OsnmaSubframes

OneSatellite == {"E11"}
=============================================================================
