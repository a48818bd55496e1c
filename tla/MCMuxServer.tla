----------------------------- MODULE MCMuxServer -----------------------------
(* Instance of MuxServer with two sessions that compete for a port.           *)
EXTENDS MuxServer
=============================================================================
