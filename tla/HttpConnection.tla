---------------------------- MODULE HttpConnection ----------------------------
(***************************************************************************)
(* One connection of the http server and its request_parser.  A read ends  *)
(* with some bytes, anything from one to the whole buffer; the parser takes *)
(* them one by one until it knows the request to be good or bad, and the   *)
(* connection answers, or reads on.  After one answer it is closed.        *)
(*                                                                         *)
(* A connection has one operation under way at a time, so nothing else     *)
(* touches its state while a handler runs: each turn of the parser's loop  *)
(* is a step.  The bytes of a chunk are chosen as they are parsed.         *)
(***************************************************************************)
EXTENDS Naturals, Sequences

CONSTANTS
  BufferSize,  (* bytes of buffer_                                           *)
  MaxText,     (* bound: bytes a client sends                                *)
  MaxPart,     (* bound: bytes of a method, uri, number, header name or value    *)
  Sample,      (* bound: the bytes it has in them                            *)
  MaxHeaders   (* bound: headers a client sends                              *)

ASSUME BoundsAssumption ==
  /\ BufferSize \in Nat \ {0}
  /\ MaxText \in Nat
  /\ MaxPart \in Nat
  /\ MaxHeaders \in Nat

VARIABLES
  phase,     (* what the connection waits for or does                      *)
  left,      (* bytes of buffer_ still to parse                            *)
  state_,    (* the parser's state, or its result "good" or "bad"          *)
  request_,
  reply_,    (* the status of the reply, or "none"                         *)
  text       (* history: the bytes parsed so far                           *)

vars == <<phase, left, state_, request_, reply_, text>>

-----------------------------------------------------------------------------
(* Bytes, as the parser tells them apart: a letter of HTTP, any separator  *)
(* that has no role of its own ("special"), any control character ("ctl"), *)
(* any byte above 127 ("high").                                            *)
Char == {"H", "T", "P", ".", "0", "/", ":", "space", "tab", "cr", "lf",
         "special", "ctl", "high"}

is_char == Char \ {"high"}
is_ctl == {"tab", "cr", "lf", "ctl"}
is_tspecial == {"/", ":", "space", "tab", "special"}
is_digit == {"0"}

Token == is_char \ (is_ctl \cup is_tspecial)
Blank == {"space", "tab"}

(* Result of the parser, and its states. *)
Result == {"good", "bad"}
State == Result \cup {
  "method_start", "method", "uri", "http_version_h", "http_version_t_1",
  "http_version_t_2", "http_version_p", "http_version_slash",
  "http_version_major_start", "http_version_major",
  "http_version_minor_start", "http_version_minor", "expecting_newline_1",
  "header_line_start", "header_lws", "header_name",
  "space_before_header_value", "header_value", "expecting_newline_2",
  "expecting_newline_3" }

(* Mutants: a line may start with blanks though no header is before it; it  *)
(* may never.                                                               *)
ContinuesAnyway(req) == TRUE
ContinuesNever(req) == FALSE

(* A line that starts with a blank continues a header. *)
Continues(req) == req.headers # <<>>

(* Mutant: any byte may come after the last cr. *)
AnyEnd(c) == TRUE

(* The last byte of a request. *)
End(c) == c = "lf"

(* Where a byte leads from s.  A byte that has no case is bad. *)
Goto(s, c, req) ==
  CASE s = "method_start" /\ c \in Token -> "method"
    [] s = "method" /\ c = "space" -> "uri"
    [] s = "method" /\ c \in Token -> "method"
    [] s = "uri" /\ c = "space" -> "http_version_h"
    [] s = "uri" /\ c \notin is_ctl \cup {"space"} -> "uri"
    [] s = "http_version_h" /\ c = "H" -> "http_version_t_1"
    [] s = "http_version_t_1" /\ c = "T" -> "http_version_t_2"
    [] s = "http_version_t_2" /\ c = "T" -> "http_version_p"
    [] s = "http_version_p" /\ c = "P" -> "http_version_slash"
    [] s = "http_version_slash" /\ c = "/" -> "http_version_major_start"
    [] s = "http_version_major_start" /\ c \in is_digit -> "http_version_major"
    [] s = "http_version_major" /\ c = "." -> "http_version_minor_start"
    [] s = "http_version_major" /\ c \in is_digit -> "http_version_major"
    [] s = "http_version_minor_start" /\ c \in is_digit -> "http_version_minor"
    [] s = "http_version_minor" /\ c = "cr" -> "expecting_newline_1"
    [] s = "http_version_minor" /\ c \in is_digit -> "http_version_minor"
    [] s = "expecting_newline_1" /\ c = "lf" -> "header_line_start"
    [] s = "header_line_start" /\ c = "cr" -> "expecting_newline_3"
    [] s = "header_line_start" /\ c \in Blank /\ Continues(req) -> "header_lws"
    [] s = "header_line_start" /\ c \in Token -> "header_name"
    [] s = "header_lws" /\ c = "cr" -> "expecting_newline_2"
    [] s = "header_lws" /\ c \in Blank -> "header_lws"
    [] s = "header_lws" /\ c \notin is_ctl \cup Blank -> "header_value"
    [] s = "header_name" /\ c = ":" -> "space_before_header_value"
    [] s = "header_name" /\ c \in Token -> "header_name"
    [] s = "space_before_header_value" /\ c = "space" -> "header_value"
    [] s = "header_value" /\ c = "cr" -> "expecting_newline_2"
    [] s = "header_value" /\ c \notin is_ctl -> "header_value"
    [] s = "expecting_newline_2" /\ c = "lf" -> "header_line_start"
    [] s = "expecting_newline_3" /\ End(c) -> "good"
    [] OTHER -> "bad"

AddToName(req, c) == [req EXCEPT !.headers[Len(req.headers)].name = Append(@, c)]
AddToValue(req, c) == [req EXCEPT !.headers[Len(req.headers)].value = Append(@, c)]

(* Mutant: the byte that ends the blanks before a continued value is lost. *)
LosesFirst(s) == s = "header_value"

(* A byte on its way to header_value is part of it, but for the space *)
(* after the colon.                                                   *)
IsValue(s) == s # "space_before_header_value"

(* What a byte adds to the request on its way from s to t. *)
Store(req, s, c, t) ==
  CASE t = "method" -> [req EXCEPT !.method = Append(@, c)]
    [] t = "uri" /\ s = "uri" -> [req EXCEPT !.uri = Append(@, c)]
    [] t = "http_version_major" -> [req EXCEPT !.major = Append(@, c)]
    [] t = "http_version_minor" -> [req EXCEPT !.minor = Append(@, c)]
    [] t = "header_name" /\ s = "header_line_start" ->
         [req EXCEPT !.headers = Append(@, [name |-> <<c>>, value |-> <<>>])]
    [] t = "header_name" /\ s = "header_name" -> AddToName(req, c)
    [] t = "header_value" /\ IsValue(s) -> AddToValue(req, c)
    [] OTHER -> req

-----------------------------------------------------------------------------
Header == [name : Seq(Char), value : Seq(Char)]
(* Of the version's numbers, their digits. *)
Request == [method : Seq(Char), uri : Seq(Char), major : Seq(Char),
            minor : Seq(Char), headers : Seq(Header)]

TypeOK ==
  /\ phase \in {"reading", "parsing", "writing", "closed"}
  /\ left \in 0..BufferSize
  /\ state_ \in State
  /\ request_ \in Request
  /\ reply_ \in {"none", "ok", "bad_request"}
  /\ text \in Seq(Char)

NoRequest == [method |-> <<>>, uri |-> <<>>, major |-> <<>>, minor |-> <<>>,
              headers |-> <<>>]

Init ==
  /\ phase = "reading"
  /\ left = 0
  /\ state_ = "method_start"
  /\ request_ = NoRequest
  /\ reply_ = "none"
  /\ text = <<>>

(* do_read's operation ends with some bytes. *)
Receive(n) ==
  /\ phase = "reading"
  /\ Len(text) + n <= MaxText
  /\ phase' = "parsing"
  /\ left' = n
  /\ UNCHANGED <<state_, request_, reply_, text>>

(* The handler was the last to hold the connection, which is destroyed. *)
Destroy ==
  /\ phase' = "closed"
  /\ left' = 0
  /\ state_' = "method_start"
  /\ request_' = NoRequest
  /\ reply_' = "none"
  /\ text' = <<>>

(* do_read's operation ends with an error, or the end of the stream. *)
ReadFails == phase = "reading" /\ Destroy

(* What clients send, by the bounds. *)
Short(s) == Len(s) <= MaxPart /\ \A i \in DOMAIN s : s[i] \in Sample
Sent(req) ==
  /\ \A p \in {req.method, req.uri, req.major, req.minor} : Short(p)
  /\ Len(req.headers) <= MaxHeaders
  /\ \A i \in DOMAIN req.headers :
       Short(req.headers[i].name) /\ Short(req.headers[i].value)

(* begin != end. *)
Unparsed == left > 0

(* One turn of the parser's loop: consume(c). *)
Consume(c) ==
  /\ phase = "parsing"
  /\ Unparsed
  /\ state_ \notin Result
  /\ state_' = Goto(state_, c, request_)
  /\ request_' = Store(request_, state_, c, state_')
  /\ Sent(request_')
  /\ text' = Append(text, c)
  /\ left' = IF state_' \in Result THEN 0 ELSE left - 1
  /\ UNCHANGED <<phase, reply_>>

(* Mutant: a chunk that ends in the middle of a request is taken for a bad *)
(* one.                                                                     *)
MoreIsBad == FALSE

(* The request is neither good nor bad when the chunk is used up. *)
WantsMore == state_ \notin Result

(* The rest of do_read's handler: answer what is known, or read on.  The     *)
(* reply to a good request is the file, or bad_request.                      *)
Finish ==
  /\ phase = "parsing"
  /\ left = 0
  /\ IF WantsMore
     THEN phase' = "reading" /\ UNCHANGED reply_
     ELSE /\ phase' = "writing"
          /\ \/ reply_' = "bad_request"
             \/ state_ = "good" /\ reply_' = "ok"
  /\ UNCHANGED <<left, state_, request_, text>>

(* The write ends, well or with an error. *)
Written == phase = "writing" /\ Destroy

Closed == phase = "closed" /\ UNCHANGED vars

Next ==
  \/ \E n \in 1..BufferSize : Receive(n)
  \/ \E c \in Char : Consume(c)
  \/ ReadFails \/ Finish \/ Written \/ Closed

Spec == Init /\ [][Next]_vars

-----------------------------------------------------------------------------
(* There is a last header where consume takes headers.back() of request_:  *)
(* a name or value is only added to a header that a line has begun.        *)
BackIsDefined ==
  state_ \in {"header_name", "space_before_header_value", "header_value",
              "header_lws", "expecting_newline_2"}
    => request_.headers # <<>>
=============================================================================
