------------------------- MODULE MCPcpsAcquisition -------------------------
(* Instances of PcpsAcquisition for TLC.                                   *)
EXTENDS PcpsAcquisition

(* The plain search: one step, in a thread of its own.                     *)
PlainConfigs ==
    {[two_steps |-> FALSE, bit_transition |-> FALSE, blocking |-> FALSE, repeat |-> FALSE]}
=============================================================================
