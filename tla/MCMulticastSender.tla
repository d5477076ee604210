-------------------------- MODULE MCMulticastSender --------------------------
(* Small instances of MulticastSender for TLC. *)
EXTENDS MulticastSender
=============================================================================
