---------------------------- MODULE MCChatServer ----------------------------
(* Small instances of ChatServer for TLC. *)
EXTENDS ChatServer, TLC

Symmetry == Permutations(Session) \cup Permutations(Body)
=============================================================================
