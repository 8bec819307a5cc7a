------------------------------ MODULE MC_USBPhy ------------------------------
(* USBPhy instantiated for TLC: one IN and one OUT endpoint beside         *)
(* endpoint 0, enough for a completion of each direction to be latched    *)
(* while a reset, a removal or a SETUP overtakes it.                      *)
EXTENDS USBPhy

CONSTANTS i1, o1

MCInEps == {i1}
MCOutEps == {o1}

\* Endpoint 0 only, for the liveness of control transfers.
MCNoEps == {}
=============================================================================
