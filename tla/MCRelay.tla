------------------------------- MODULE MCRelay -------------------------------
(* Instance of Relay for all four pairings of full-close and half-close ends. *)
EXTENDS Relay
=============================================================================
