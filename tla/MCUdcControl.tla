----------------------------- MODULE MCUdcControl -----------------------------
(* The control endpoint with everything irregular the module knows. *)
EXTENDS UdcControl

AllFaults == {"abort", "reset", "stall", "suspend"}
=============================================================================
