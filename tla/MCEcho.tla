------------------------------- MODULE MCEcho -------------------------------
(* A small instance of the three echo servers with their clients.  They are  *)
(* programs of their own: a behaviour is one of them, and the others rest.   *)
EXTENDS EchoTwin, UdpEcho

VARIABLE program

MCVars == <<twinVars, udpVars, program>>

MCInit ==
  /\ TwinInit /\ UdpInit
  /\ program \in {"echo_server.cc", "examples/server.cc", "udp/server.cc"}

MCNext ==
  /\ UNCHANGED program
  /\ \/ /\ program = "echo_server.cc"
        /\ Next /\ UNCHANGED <<memory, exited, udpVars>>
     \/ /\ program = "examples/server.cc"
        /\ TwinNext /\ UNCHANGED udpVars
     \/ /\ program = "udp/server.cc"
        /\ UdpNext /\ UNCHANGED twinVars

(* What is fair of a program asks nothing of one that rests, and the twin's  *)
(* sessions are fair as the echo server's; but only the twin exits.          *)
MCSpec ==
  /\ MCInit
  /\ [][MCNext]_MCVars
  /\ Fairness /\ UdpFairness
  /\ WF_twinVars(program = "examples/server.cc" /\ Exit)

(* Of each program: its clients end, but for those that nothing can end. *)
EverybodyEnds ==
  /\ program = "echo_server.cc" => BothEnd
  /\ program = "examples/server.cc" => TwinBothEnd
  /\ AnsweredUnlessLost
=============================================================================
