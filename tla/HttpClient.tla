------------------------------ MODULE HttpClient ------------------------------
(***************************************************************************)
(* The asynchronous http client: resolve, connect, write the request, read *)
(* until the status line is there, until the headers are, and then what    *)
(* comes until the end.  The server sends a response of its choice, in     *)
(* pieces, and may close early or reset the connection.                    *)
(***************************************************************************)
EXTENDS Naturals, Sequences

CONSTANTS
  Headers,     (* how many header lines a response may have                *)
  MaxContent,  (* bound: the length of a response's content                *)
  MaxPiece     (* bound: the bytes that one read returns                   *)

ASSUME ConstantsAssumption ==
  /\ Headers \subseteq Nat
  /\ MaxContent \in Nat
  /\ MaxPiece \in Nat \ {0}

VARIABLES
  stage,       (* the operation under way, or how the client ended         *)
  response_,   (* bytes read and not consumed                              *)
  shown,       (* content written to cout                                  *)
  muted,       (* cout has failed and shows nothing more                   *)
  sends,       (* the response the server sends                            *)
  got,         (* how many of its bytes were read                          *)
  closes       (* after how many it closes                                 *)

clientVars == <<stage, response_, shown, muted, sends, got, closes>>

-----------------------------------------------------------------------------
(* A status line is one of three, up to its end of line; a header line is  *)
(* "h", and content may hold ends of lines.                                *)
Statuses == {"200", "404", "junk"}
ContentByte == {"x", "cr", "lf"}
Crlf == <<"cr", "lf">>
Contents == UNION {[1..n -> ContentByte] : n \in 0..MaxContent}

HeaderText(n) == [i \in 1..3 * n |-> <<"lf", "h", "cr">>[(i % 3) + 1]]
Before(r) == <<r.status>> \o Crlf \o HeaderText(r.headers) \o Crlf
Text(r) == Before(r) \o r.content
Responses == [status : Statuses, headers : Headers, content : Contents]

Ended == {"done", "failed", "refused"}
Reading == {"status", "headers", "content"}

ClientInit ==
  /\ stage = "resolve"
  /\ response_ = <<>>
  /\ shown = <<>>
  /\ muted = FALSE
  /\ sends \in Responses
  /\ got = 0
  /\ closes \in 0..Len(Text(sends))

-----------------------------------------------------------------------------
(* handle_resolve, handle_connect and handle_write_request: on to the next *)
(* operation, or the end.                                                  *)
Goes(from, to) ==
  /\ stage = from
  /\ stage' \in {to, "failed"}
  /\ UNCHANGED <<response_, shown, muted, sends, got, closes>>

HandleResolve == Goes("resolve", "connect")
HandleConnect == Goes("connect", "write")
HandleWriteRequest == Goes("write", "status")

(* Where the first d of s begins, or 0. *)
Find(s, d) ==
  LET at == {i \in 1..Len(s) + 1 - Len(d) : SubSeq(s, i, i + Len(d) - 1) = d}
  IN  IF at = {} THEN 0 ELSE CHOOSE i \in at : \A j \in at : i <= j
Until == [status |-> Crlf, headers |-> Crlf \o Crlf]
Found == stage \in DOMAIN Until /\ Find(response_, Until[stage]) # 0

(* Mutant: an empty buffer is written to cout as any other. *)
HasContent(b) == TRUE

(* There is something to write. *)
NotEmpty(b) == b # <<>>

(* cout << &b: nothing written is a failure, after which cout stays silent. *)
Write(b) ==
  /\ shown' = IF muted THEN shown ELSE shown \o b
  /\ muted' = (muted \/ b = <<>>)

(* The server has sent n bytes more. *)
HasCome(n) == got + n <= closes

(* A piece comes: content is written as it comes, other text is kept.       *)
Take(n) ==
  /\ HasCome(n)
  /\ got' = got + n
  /\ LET piece == SubSeq(Text(sends), got + 1, got + n)
     IN  IF stage = "content"
         THEN Write(piece) /\ UNCHANGED response_
         ELSE response_' = response_ \o piece /\ UNCHANGED <<shown, muted>>
  /\ UNCHANGED <<stage, sends, closes>>

(* An operation that reads until it finds something goes on, the reading of *)
(* content ends, and handle_read_content writes the piece.                  *)
ReceivePiece(n) == stage \in Reading /\ ~Found /\ Take(n)

(* What >> and getline leave of a buffer: what is after its first line. *)
RestOfLine(s) == SubSeq(s, Find(s, <<"lf">>) + 1, Len(s))

(* handle_read_status_line. *)
HandleReadStatusLine ==
  /\ stage = "status" /\ Found
  /\ stage' = IF Head(response_) = "200" THEN "headers" ELSE "refused"
  /\ response_' = RestOfLine(response_)
  /\ UNCHANGED <<shown, muted, sends, got, closes>>

(* What is after the first line that is empty. *)
AfterBlankLine(s) ==
  IF SubSeq(s, 1, 2) = Crlf THEN SubSeq(s, 3, Len(s))
  ELSE SubSeq(s, Find(s, Crlf \o Crlf) + 4, Len(s))

(* handle_read_headers: lines up to the empty one are headers; the rest, if *)
(* there is any, is written at once, and the reading of content begins.     *)
HandleReadHeaders ==
  /\ stage = "headers" /\ Found
  /\ LET rest == AfterBlankLine(response_)
     IN  IF NotEmpty(rest) THEN Write(rest) ELSE UNCHANGED <<shown, muted>>
  /\ response_' = <<>>
  /\ stage' = "content"
  /\ UNCHANGED <<sends, got, closes>>

(* Mutant: the end of the stream is not looked at, and reading goes on. *)
EofIsNothing == stage

(* The end of the stream is the end of the content, not of what is before. *)
AtEof == IF stage = "content" THEN "done" ELSE "failed"

(* The server has closed and all it sent was read: the read ends with eof. *)
ReadEof ==
  /\ stage \in Reading /\ ~Found
  /\ got = closes
  /\ stage' = AtEof
  /\ UNCHANGED <<response_, shown, muted, sends, got, closes>>

(* A read ends with another error. *)
ReadBreaks ==
  /\ stage \in Reading /\ ~Found
  /\ stage' = "failed"
  /\ UNCHANGED <<response_, shown, muted, sends, got, closes>>

Progress ==
  \/ HandleResolve \/ HandleConnect \/ HandleWriteRequest
  \/ HandleReadStatusLine \/ HandleReadHeaders
  \/ \E n \in 1..MaxPiece : ReceivePiece(n)
  \/ ReadEof

ClientNext == Progress \/ ReadBreaks

(* Every operation ends, and its handler runs; the server sends what it     *)
(* sends and closes.                                                        *)
ClientSpec == ClientInit /\ [][ClientNext]_clientVars /\ WF_clientVars(Progress)

-----------------------------------------------------------------------------
(* "Write whatever content we already have", "Write all of the data that   *)
(* has been read so far" (http_client.cc:121, 137): once the headers are   *)
(* read, what was shown is the content that came, byte for byte, wherever  *)
(* the pieces were cut.                                                    *)
ShownIsWhatCame ==
  stage \in {"content", "done"}
    => shown = SubSeq(Text(sends), Len(Before(sends)) + 1, got)

(* "Read the response headers, which are terminated by a blank line"       *)
(* (http_client.cc:102): the stream does not end on a client that reads    *)
(* the headers after the blank line has come.                              *)
BlankLineEndsHeaders ==
  [][stage = "headers" /\ ReadEof => got < Len(Before(sends))]_clientVars

(* The client comes to an end. *)
Ends == <>(stage \in Ended)
=============================================================================
