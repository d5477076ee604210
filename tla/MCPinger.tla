------------------------------ MODULE MCPinger ------------------------------
(* A small instance of Pinger for TLC: replies with and without options, cut *)
(* within the ICMP header, to another process, and the request itself, which *)
(* a pinger of its own host receives too.                                    *)
EXTENDS Pinger

MCFields(options) ==
  [version |-> 4, words |-> 5 + options, tos |-> 0, length |-> 300, id |-> 7,
   df |-> TRUE, mf |-> FALSE, offset |-> 0, ttl |-> 64, protocol |-> 1,
   checksum |-> 0, source |-> <<10, 0, 0, 1>>, destination |-> <<10, 0, 0, 2>>]
MCForm(options, type, identifier, icmp) ==
  [fields |-> MCFields(options), type |-> type, identifier |-> identifier,
   icmp |-> icmp]
MCForms == {MCForm(2, 0, 258, 12), MCForm(0, 0, 258, 6), MCForm(0, 0, 513, 8),
            MCForm(0, 8, 258, 9)}
=============================================================================
