---------------------------- MODULE MCChatFrame ----------------------------
EXTENDS ChatFrame
(* The lengths about which the number of digits and the limit change. *)
Lengths == 0..12 \cup 95..105 \cup 500..515
=============================================================================
