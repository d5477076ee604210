------------------------------ MODULE HttpStream ------------------------------
(***************************************************************************)
(* The http client on a tcp::iostream: the same server and the same        *)
(* responses as HttpClient, read with >>, getline and rdbuf by one thread  *)
(* that blocks.  All of it must be done in 60 seconds: then the socket is  *)
(* closed, and what reads from it finds its end.                           *)
(***************************************************************************)
EXTENDS HttpClient

(* connect, and the request that the first read flushes. *)
Connect ==
  /\ stage = "resolve"
  /\ stage' \in {"status", "failed"}
  /\ UNCHANGED <<response_, shown, muted, sends, got, closes>>

(* Mutant: getline ends where async_read_until does, at the blank line. *)
NoBlankLine == Find(response_, Crlf \o Crlf) = 0

(* The stream has no whole line, and what is called reads from the socket. *)
NoLine == Find(response_, <<"lf">>) = 0
Blocked == stage = "content" \/ (stage \in {"status", "headers"} /\ NoLine)
Underflow(n) == Blocked /\ Take(n)

(* The status line: >> twice and getline. *)
StatusLine ==
  /\ stage = "status" /\ ~NoLine
  /\ stage' = IF Head(response_) = "200" THEN "headers" ELSE "refused"
  /\ response_' = RestOfLine(response_)
  /\ UNCHANGED <<shown, muted, sends, got, closes>>

(* getline in the loop: a header, or the blank line; then cout << rdbuf()   *)
(* begins with what the stream holds.                                       *)
HeaderLine ==
  /\ stage = "headers" /\ ~NoLine
  /\ IF SubSeq(response_, 1, 2) = Crlf
     THEN /\ stage' = "content"
          /\ response_' = <<>>
          /\ shown' = RestOfLine(response_)
     ELSE response_' = RestOfLine(response_) /\ UNCHANGED <<stage, shown>>
  /\ UNCHANGED <<muted, sends, got, closes>>

(* What the program does at the end of the stream.  A status line without   *)
(* its end is good if something follows its number (right behind the number *)
(* that depends on where it was cut); then the loop over headers and rdbuf  *)
(* find nothing.                                                            *)
IsOK == response_ # <<>> /\ Head(response_) = "200"
AtEnd ==
  IF stage # "status" \/ (IsOK /\ Len(response_) > 1) THEN {"done"}
  ELSE IF IsOK THEN {"done", "refused"} ELSE {"refused"}

(* The server closed and all was read, the connection broke, or the 60      *)
(* seconds are over: nothing more is read, whatever is under way.           *)
StreamEnds ==
  /\ Blocked
  /\ stage' \in AtEnd
  /\ UNCHANGED <<response_, shown, muted, sends, got, closes>>

StreamRuns == Connect \/ StatusLine \/ HeaderLine
StreamNext == StreamRuns \/ StreamEnds \/ \E n \in 1..MaxPiece : Underflow(n)

(* The program runs, and its time ends; the server need send nothing.       *)
StreamFairness == WF_clientVars(StreamRuns) /\ WF_clientVars(StreamEnds)

StreamSpec == ClientInit /\ [][StreamNext]_clientVars /\ StreamFairness
=============================================================================
