----------------------------- MODULE MCHttpServer -----------------------------
(* A small instance of the two programs that run an io_context on threads of *)
(* their own and join them: a behaviour is one of them, the other rests.     *)
EXTENDS HttpServer

VARIABLES program, caller, promise, worker, halted, datagram

Daytime == INSTANCE FutureClient

daytime == <<caller, promise, worker, halted, datagram>>

MCInit ==
  /\ Init /\ Daytime!FutureInit
  /\ program \in {"server.cpp", "future/client.cc"}

MCNext ==
  /\ UNCHANGED program
  /\ \/ program = "server.cpp" /\ Next /\ UNCHANGED daytime
     \/ program = "future/client.cc" /\ Daytime!FutureNext /\ UNCHANGED vars

MCSpec ==
  /\ MCInit
  /\ [][MCNext]_<<vars, daytime, program>>
  /\ program = "server.cpp" => Fairness
  /\ program = "future/client.cc" => Daytime!FutureFairness

(* Of each program: once it is told to end, or has nothing more to do, its   *)
(* threads return and main with them.                                        *)
ThreadsEnd ==
  /\ SignalEnds
  /\ program = "future/client.cc" => Daytime!DaytimeEnds
=============================================================================
