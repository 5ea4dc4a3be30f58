-------------------------- MODULE MCTrackingLoop --------------------------
(* An instance of TrackingLoop for TLC.                                    *)
EXTENDS TrackingLoop
=============================================================================
