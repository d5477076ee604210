--------------------------- MODULE MCHttpConnection ---------------------------
(* A small instance of HttpConnection, with the grammar, for TLC. *)
EXTENDS HttpGrammar
=============================================================================
