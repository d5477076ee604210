----------------------------- MODULE MCHttpClient -----------------------------
(* A small instance of the two http clients for TLC.  They are programs of   *)
(* their own that read the same responses: a behaviour is one of them.       *)
EXTENDS HttpStream

CONSTANTS Programs,
          MayLackHeaders  (* the programs that get responses without headers *)
VARIABLE program

MCInit ==
  /\ ClientInit
  /\ program \in Programs
  /\ sends.headers = 0 => program \in MayLackHeaders
MCNext ==
  /\ \/ program = "http_client.cc" /\ ClientNext
     \/ program = "http.cc" /\ StreamNext
  /\ UNCHANGED program
MCSpec ==
  /\ MCInit
  /\ [][MCNext]_<<clientVars, program>>
  /\ program = "http_client.cc" => WF_clientVars(Progress)
  /\ program = "http.cc" => StreamFairness
=============================================================================
