----------------------------- MODULE MCMuxDialer -----------------------------
(* Instance of MuxDialer with a few callers and sessions.                     *)
EXTENDS MuxDialer
=============================================================================
