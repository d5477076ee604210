----------------------------- MODULE MCChatClient -----------------------------
(* A small instance of ChatClient for TLC.  Lines are not symmetric: what is  *)
(* checked goes on for ever.                                                  *)
EXTENDS ChatClient
=============================================================================
