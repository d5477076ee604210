---------------------------- MODULE FileHandler ----------------------------
(***************************************************************************)
(* What the http server answers a request with: request_handler decodes    *)
(* the uri byte by byte, checks the path, and reads the file in pieces.    *)
(* One call runs alone from its beginning to its end; an action is one     *)
(* turn of a loop of it, or what is between the loops.                     *)
(*                                                                         *)
(* A uri is made of units, each one way to write a byte of a path, and of  *)
(* a tail that may be no way to write anything.  The letters of a name are *)
(* one byte.                                                               *)
(***************************************************************************)
EXTENDS Reply

CONSTANTS
  MaxUnits,  (* bound: how many bytes a uri stands for   *)
  MaxFile,   (* bound: how many bytes a file has         *)
  BufSize    (* sizeof(buf)                              *)

ASSUME BoundsAssumption ==
  MaxUnits \in Nat /\ MaxFile \in Nat /\ BufSize \in Nat \ {0}

VARIABLES
  stage,  (* where the call is                              *)
  uri,    (* req.uri                                        *)
  means,  (* the path the units of the uri stand for        *)
  tail,   (* the tail of the uri                            *)
  i,      (* url_decode's i, from 1                         *)
  path,   (* request_path                                   *)
  opened, (* full_path.c_str(), without doc_root_           *)
  unread, (* how much of the file is not read               *)
  file,   (* how long it is                                 *)
  broken, (* history: reading it failed                     *)
  rep     (* reply_                                         *)

input == <<uri, means, tail>>
reading == <<opened, unread, file, broken>>
handlerVars == <<stage, input, i, path, reading, rep>>

-----------------------------------------------------------------------------
Hex == {"0", "2", "e", "f", "b"}

(* What two bytes after a percent are: a sign and a digit, two digits or one *)
(* digit and anything give a number, and so a byte; anything else does not.  *)
IsNumber(s) ==
  \/ s[1] \in Hex
  \/ s[1] = "+" /\ Len(s) = 2 /\ s[2] \in Hex
ByteOf(s) ==
  CASE s = <<"2", "e">> -> "." [] s = <<"2", "f">> -> "/"
    [] s = <<"2", "b">> -> "+" [] s = <<"0", "0">> -> "zero"
    [] OTHER -> "another"

Plain == {[text |-> <<c>>, means |-> c] :
            c \in {"/", ".", "2", "gif", "htm", "jpg", "png"}}
Encoded == {[text |-> <<"%">> \o s, means |-> ByteOf(s)] :
              s \in {<<"2", "e">>, <<"2", "f">>, <<"2", "b">>, <<"0", "0">>}}
Unit == Plain \cup Encoded \cup {[text |-> <<"+">>, means |-> "space"]}

(* Percents with fewer than two bytes after them or with no number.  And one *)
(* with a single digit, which is decoded all the same.                       *)
Broken == {<<"%">>, <<"%", "2">>, <<"%", "gif", "2">>, <<"%", "+", "gif">>}
Tails == Broken \cup {<<>>, <<"%", "2", "gif">>}

(* The parser lets neither an empty uri through nor one with a control       *)
(* character: a zero byte is always encoded.                                 *)
HandlerInit ==
  /\ stage = "decode"
  /\ \E us \in UNION {[1..n -> Unit] : n \in 0..MaxUnits} :
       /\ means = [k \in 1..Len(us) |-> us[k].means]
       /\ tail \in Tails
       /\ uri = FlattenSeq([k \in 1..Len(us) |-> us[k].text]) \o tail
  /\ uri # <<>>
  /\ i = 1
  /\ path = <<>> /\ opened = <<>>
  /\ unread = 0 /\ file = 0 /\ broken = FALSE
  /\ rep = NoReply

-----------------------------------------------------------------------------
(* A stock reply, and return. *)
Refuse ==
  /\ stage' = "done"
  /\ rep' = stock_reply("bad_request")
  /\ UNCHANGED <<input, i, path, reading>>

Add(c, n) ==
  /\ path' = Append(path, c)
  /\ i' = i + n
  /\ UNCHANGED <<stage, input, reading, rep>>

(* Mutant: a percent needs one byte after it to go on. *)
OneFollows == i + 1 <= Len(uri)

(* i + 3 <= in.size(), with i from 1. *)
TwoFollow == i + 2 <= Len(uri)

(* in.substr(i + 1, 2), which ends where the uri does. *)
Two == SubSeq(uri, i + 1, IF i + 2 > Len(uri) THEN Len(uri) ELSE i + 2)

(* A turn of url_decode's loop. *)
Decode ==
  /\ stage = "decode" /\ i <= Len(uri)
  /\ \/ uri[i] = "%" /\ TwoFollow /\ IsNumber(Two) /\ Add(ByteOf(Two), 3)
     \/ uri[i] = "%" /\ ~(TwoFollow /\ IsNumber(Two)) /\ Refuse
     \/ uri[i] = "+" /\ Add("space", 1)
     \/ uri[i] \notin {"%", "+"} /\ Add(uri[i], 1)

Decoded ==
  /\ stage = "decode" /\ i > Len(uri)
  /\ stage' = "check"
  /\ UNCHANGED <<input, i, path, reading, rep>>

(* Mutant: the uri is checked as it was before it was decoded. *)
IsProperUri(p) ==
  uri[1] = "/" /\ \A k \in 1..Len(uri) - 1 : SubSeq(uri, k, k + 1) # <<".", ".">>

(* Absolute, and without two dots together. *)
IsProper(p) ==
  /\ p # <<>> /\ p[1] = "/"
  /\ \A k \in 1..Len(p) - 1 : SubSeq(p, k, k + 1) # <<".", ".">>

(* A path that ends in a slash gets index.html. *)
Completed(p) == IF Last(p) = "/" THEN p \o <<"index", ".", "html">> ELSE p

(* What the system makes of c_str(): it ends before the first zero byte. *)
CString(p) ==
  LET k == SelectInSeq(p, LAMBDA c : c = "zero")
  IN  IF k = 0 THEN p ELSE SubSeq(p, 1, k - 1)

(* The checks, and opening the file, which may not be there. *)
Open ==
  /\ stage = "check" /\ IsProper(path)
  /\ stage' = "read"
  /\ path' = Completed(path)
  /\ opened' = CString(path')
  /\ file' \in 0..MaxFile
  /\ unread' = file'
  /\ rep' = [rep EXCEPT !.status = "ok"]
  /\ UNCHANGED <<input, i, broken>>

Check == stage = "check" /\ ~IsProper(path) /\ Refuse
NoFile == stage = "check" /\ IsProper(path) /\ Refuse

(* What is after the last dot, if no slash is. *)
Extension(p) ==
  LET k == SelectLastInSeq(p, LAMBDA c : c \in {".", "/"})
  IN  IF p[k] = "." THEN SubSeq(p, k + 1, Len(p)) ELSE <<>>

(* Mutant: a read that does not fill the buffer is the end. *)
Filled(n) == n = BufSize

(* gcount() > 0 *)
GotSome(n) == n > 0

(* is.read: as much as the buffer takes and the file still has. *)
Got == IF unread < BufSize THEN unread ELSE BufSize

mappings ==
  [e \in {<<"gif">>, <<"htm">>, <<"html">>, <<"jpg">>, <<"png">>} |->
     CASE e = <<"gif">> -> "image/gif" [] e = <<"jpg">> -> "image/jpeg"
       [] e = <<"png">> -> "image/png" [] OTHER -> "text/html"]
extension_to_type(e) ==
  IF e \in DOMAIN mappings THEN mappings[e] ELSE "text/plain"

(* A turn of the loop over the file. *)
Read ==
  /\ stage = "read" /\ GotSome(Got)
  /\ unread' = unread - Got
  /\ LET length == rep.content + Got
     IN  rep' = [rep EXCEPT !.content = length,
                            !.headers = Headers(length,
                                          extension_to_type(Extension(path)))]
  /\ UNCHANGED <<stage, input, i, path, opened, file, broken>>

EndOfFile ==
  /\ stage = "read" /\ ~GotSome(Got)
  /\ stage' = "done"
  /\ UNCHANGED <<input, i, path, reading, rep>>

(* The file, or a directory that was opened, cannot be read on: nothing of   *)
(* this turn is got, which ends the loop as the end of the file does.        *)
ReadFails ==
  /\ stage = "read"
  /\ stage' = "done" /\ broken' = TRUE
  /\ UNCHANGED <<input, i, path, opened, unread, file, rep>>

HandlerNext ==
  \/ Decode \/ Decoded \/ Check \/ Open \/ NoFile \/ Read \/ EndOfFile \/ ReadFails

HandlerSpec == HandlerInit /\ [][HandlerNext]_handlerVars

-----------------------------------------------------------------------------
(* Every way to write a path is decoded to that path, and what is refused    *)
(* before the end is only a percent that no number follows.                  *)
DecodedRight ==
  /\ stage = "check" => tail \notin Broken /\ (tail = <<>> => path = means)
  /\ stage = "done" /\ i <= Len(uri) => tail \in Broken

(* "Request path must be absolute and not contain ".."", "If path ends in    *)
(* slash (i.e. is a directory) then add "index.html"" (file_handler.cpp:62,  *)
(* 68): of the file that is opened, however its uri was written.  A zero     *)
(* byte cuts what is opened short of what was checked: it is still absolute  *)
(* and without two dots, but may be a directory, or another name.            *)
OpensProperPath ==
  rep.status = "ok" =>
    /\ Head(opened) = "/"
    /\ ~\E k \in 1..Len(opened) - 1 : opened[k] = "." /\ opened[k + 1] = "."
    /\ "zero" \notin Range(path) => opened = path /\ Last(opened) # "/"

(* A file is answered whole, with the type that the name in the uri says; if *)
(* it cannot be read to its end, as far as it was.  The length is right all  *)
(* the same.  If nothing was read there is a status line and nothing else,   *)
(* for the loop has no turn in which to set the headers.                     *)
WholeFile ==
  LET sent == rep.content
      Named(name) == IsSuffix(<<".", name>>, path)
      type == CASE Named("gif") -> "image/gif" [] Named("jpg") -> "image/jpeg"
                [] Named("png") -> "image/png"
                [] Named("htm") \/ Named("html") -> "text/html"
                [] OTHER -> "text/plain"
  IN  rep.status = "ok" /\ stage = "done" =>
        /\ sent = file \/ (broken /\ sent <= file)
        /\ to_buffers(rep) =
             IF sent = 0 THEN <<to_buffer("ok"), "", 0>>
             ELSE <<to_buffer("ok"), "Content-Length", sent,
                    "Content-Type", type, "", sent>>

(* Whatever the handler answers says on the wire what it is, and so does     *)
(* every stock reply there is, page included: the tables that are written by *)
(* hand agree with the enumeration and with each other (reply.cpp:18-76,     *)
(* 99-203), but for one word.                                                *)
RepliesAgree ==
  stage = "done" =>
    /\ SaysWhatItIs(rep)
    /\ \A s \in DOMAIN status_type : SaysWhatItIs(stock_reply(s)) /\ PageAgrees(s)
=============================================================================
