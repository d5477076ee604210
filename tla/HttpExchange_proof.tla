-------------------------- MODULE HttpExchange_proof --------------------------
(***************************************************************************)
(* Proofs about the two ends of an http exchange, for every value of their *)
(* constants: the request as the server's connection parses it, which is   *)
(* the request the grammar reads from the same text, line by line, and the *)
(* response as the two clients show it.                                    *)
(*                                                                         *)
(* The parser and the grammar meet in the places of a text: where the      *)
(* method, the uri, the version and each line end.  Parsed says, for each  *)
(* state of the parser, which places the text has and what was stored of   *)
(* them; a byte keeps it so (ByteIsParsed).  A text with all its places is *)
(* a request (GoodIsComplete).  A byte the parser refuses begins none, for *)
(* places are unique (BadEndsHope).  And from every other state one of the *)
(* grammar's endings leads to a request (MoreIsViable).                    *)
(***************************************************************************)
EXTENDS HttpGrammar, HttpStream, SequenceTheorems, WellFoundedInduction, TLAPS

-----------------------------------------------------------------------------
(* The server's connection. *)

InHeader == {"header_name", "space_before_header_value", "header_value",
             "header_lws", "expecting_newline_2"}

HasHeader(req, s) == s \in InHeader => req.headers # <<>>
Leads(req, s, t) ==
  t \in InHeader => \/ s \in InHeader
                    \/ s = "header_line_start" /\ t = "header_name"
                    \/ s = "header_line_start" /\ req.headers # <<>>

(* The states in a header are reached from one, or when there is a header. *)
LEMMA IntoHeader ==
  ASSUME NEW s, NEW c, NEW req
  PROVE  Leads(req, s, Goto(s, c, req))
<1> SUFFICES ASSUME Goto(s, c, req) \in InHeader
             PROVE  \/ s \in InHeader
                    \/ s = "header_line_start" /\ Goto(s, c, req) = "header_name"
                    \/ s = "header_line_start" /\ req.headers # <<>>
  BY DEF Leads
<1> QED  BY DEF Goto, Continues, InHeader

LEMMA StateOfGoto ==
  ASSUME NEW s, NEW c, NEW req
  PROVE  Goto(s, c, req) \in State
  BY DEF Goto, State, Result

(* Adding to the last header changes it, and there is one. *)
LEMMA AddTyped ==
  ASSUME NEW req \in Request, req.headers # <<>>, NEW c \in Char
  PROVE  /\ AddToName(req, c) \in Request /\ AddToName(req, c).headers # <<>>
         /\ AddToValue(req, c) \in Request /\ AddToValue(req, c).headers # <<>>
<1> DEFINE hs == req.headers
           n  == Len(hs)
           nm == [hs[n] EXCEPT !.name = Append(hs[n].name, c)]
           vl == [hs[n] EXCEPT !.value = Append(hs[n].value, c)]
           a  == [hs EXCEPT ![n] = nm]
           v  == [hs EXCEPT ![n] = vl]
<1>1. hs \in Seq(Header) /\ n \in 1..Len(hs) /\ n \in Nat
  BY DEF Request
<1>2. hs[n] \in Header
  BY <1>1
<1>3. nm \in Header /\ vl \in Header
  <2>1. hs[n].name \in Seq(Char) /\ hs[n].value \in Seq(Char)
    BY <1>2 DEF Header
  <2>2. Append(hs[n].name, c) \in Seq(Char) /\ Append(hs[n].value, c) \in Seq(Char)
    BY <2>1
  <2> QED  BY <1>2, <2>2 DEF Header
<1>4. a \in Seq(Header) /\ Len(a) = n /\ v \in Seq(Header) /\ Len(v) = n
  <2> HIDE DEF hs, nm, vl
  <2> QED  BY <1>1, <1>3, ExceptSeq
<1>5. a # <<>> /\ v # <<>>
  BY <1>1, <1>4
<1>6. /\ AddToName(req, c) = [req EXCEPT !.headers = a]
      /\ AddToValue(req, c) = [req EXCEPT !.headers = v]
  BY Zenon DEF AddToName, AddToValue
<1> HIDE DEF a, v
<1> QED  BY <1>4, <1>5, <1>6 DEF Request

(* A step of the parser keeps the request's type, and its last header. *)
LEMMA StoreTyped ==
  ASSUME NEW req \in Request, NEW s \in State, NEW c \in Char, NEW t \in State,
         HasHeader(req, s), Leads(req, s, t)
  PROVE  Store(req, s, c, t) \in Request /\ HasHeader(Store(req, s, c, t), t)
<1> USE DEF HasHeader, Leads
<1>1. CASE t \notin InHeader
  <2>0. /\ req.method \in Seq(Char) /\ req.uri \in Seq(Char)
        /\ req.major \in Seq(Char) /\ req.minor \in Seq(Char)
    BY DEF Request
  <2>1. Store(req, s, c, t) \in
          {[req EXCEPT !.method = Append(@, c)], [req EXCEPT !.uri = Append(@, c)],
           [req EXCEPT !.major = Append(@, c)], [req EXCEPT !.minor = Append(@, c)],
           req}
    BY <1>1 DEF Store, InHeader
  <2>2. \A q \in Seq(Char) : Append(q, c) \in Seq(Char)
    OBVIOUS
  <2>3. /\ [req EXCEPT !.method = Append(@, c)] \in Request
        /\ [req EXCEPT !.uri = Append(@, c)] \in Request
        /\ [req EXCEPT !.major = Append(@, c)] \in Request
        /\ [req EXCEPT !.minor = Append(@, c)] \in Request
    BY <2>0, <2>2 DEF Request
  <2> QED  BY <1>1, <2>1, <2>3
<1>2. CASE t \in InHeader /\ s = "header_line_start" /\ t = "header_name"
  <2> DEFINE h == [name |-> <<c>>, value |-> <<>>]
  <2>1. Store(req, s, c, t) = [req EXCEPT !.headers = Append(@, h)]
    BY <1>2 DEF Store
  <2>2. h \in Header /\ req.headers \in Seq(Header)
    BY DEF Header, Request
  <2> HIDE DEF h
  <2>3. Append(req.headers, h) \in Seq(Header) /\ Append(req.headers, h) # <<>>
    BY <2>2
  <2> QED  BY <2>1, <2>3 DEF Request
<1>3. CASE t \in InHeader /\ ~(s = "header_line_start" /\ t = "header_name")
  <2>1. Store(req, s, c, t) \in {AddToName(req, c), AddToValue(req, c), req}
    BY <1>3 DEF Store, InHeader
  <2>2. req.headers # <<>>
    BY <1>3
  <2> QED  BY <2>1, <2>2, AddTyped
<1> QED  BY <1>1, <1>2, <1>3

-----------------------------------------------------------------------------
Inv == TypeOK /\ BackIsDefined

LEMMA Fresh == NoRequest \in Request /\ "method_start" \in State
  BY DEF NoRequest, Request, State

LEMMA InvInit == Init => Inv
  BY Fresh, BoundsAssumption DEF Init, Inv, TypeOK, BackIsDefined

LEMMA InvNext == Inv /\ [Next]_vars => Inv'
<1> SUFFICES ASSUME Inv, [Next]_vars PROVE Inv'
  OBVIOUS
<1> USE BoundsAssumption DEF Inv, TypeOK, BackIsDefined
<1>1. CASE \E n \in 1..BufferSize : Receive(n)
  BY <1>1 DEF Receive
<1>2. ASSUME NEW c \in Char, Consume(c) PROVE Inv'
  <2>1. /\ state_' = Goto(state_, c, request_)
        /\ request_' = Store(request_, state_, c, state_')
        /\ text' = Append(text, c)
        /\ left > 0 /\ left' \in {0, left - 1}
        /\ UNCHANGED <<phase, reply_>>
    BY <1>2 DEF Consume, Unparsed
  <2>2. state_' \in State
    BY <2>1, StateOfGoto
  <2>3. Leads(request_, state_, state_')
    BY <2>1, IntoHeader
  <2>4. HasHeader(request_, state_)
    BY DEF HasHeader, InHeader
  <2>5. request_' \in Request /\ HasHeader(request_', state_')
    BY <2>1, <2>2, <2>3, <2>4, StoreTyped
  <2>6. text' \in Seq(Char) /\ left' \in 0..BufferSize
    BY <2>1
  <2> QED  BY <2>1, <2>2, <2>5, <2>6 DEF HasHeader, InHeader
<1>3. CASE ReadFails \/ Written
  <2>1. /\ phase' = "closed" /\ left' = 0 /\ state_' = "method_start"
        /\ request_' = NoRequest /\ reply_' = "none" /\ text' = <<>>
    BY <1>3 DEF ReadFails, Written, Destroy
  <2>2. <<>> \in Seq(Char) /\ 0 \in 0..BufferSize
    OBVIOUS
  <2>3. TypeOK'
    BY <2>1, <2>2, Fresh, Zenon
  <2> QED  BY <2>1, <2>3
<1>4. CASE Finish
  <2>1. phase' \in {"reading", "writing"} /\ reply_' \in {reply_, "bad_request", "ok"}
    BY <1>4 DEF Finish
  <2> QED  BY <1>4, <2>1 DEF Finish
<1>5. CASE UNCHANGED vars
  BY <1>5 DEF vars
<1> QED  BY <1>1, <1>2, <1>3, <1>4, <1>5 DEF Next, Closed

(* Whatever bytes come and however they are cut in chunks, consume never     *)
(* takes headers.back() (request_parser.cpp:158-185) of a request that has   *)
(* no header, and every variable keeps its type.                             *)
THEOREM HeadersBackIsDefined == Spec => [](TypeOK /\ BackIsDefined)
  BY InvInit, InvNext, PTL DEF Spec, Inv

-----------------------------------------------------------------------------
(* What a text is laid out as, said by places in it.  These are the bytes   *)
(* from i to j, and what belongs before each kind of end.                   *)
Visible == Char \ is_ctl
UriByte == Visible \ {"space"}
Bytes(t, i, j, S) == \A k \in i..j : t[k] \in S

MethodAt(t, a) == 1 < a /\ Bytes(t, 1, a - 1, Token) /\ t[a] = "space"
UriAt(t, a, b) ==
  MethodAt(t, a) /\ a < b /\ Bytes(t, a + 1, b - 1, UriByte) /\ t[b] = "space"
NameAt(t, b, k) ==
  /\ k >= 1 => t[b + 1] = "H"
  /\ k >= 2 => t[b + 2] = "T"
  /\ k >= 3 => t[b + 3] = "T"
  /\ k >= 4 => t[b + 4] = "P"
  /\ k >= 5 => t[b + 5] = "/"
MajorAt(t, a, b, d) ==
  /\ UriAt(t, a, b) /\ NameAt(t, b, 5)
  /\ b + 6 < d /\ Bytes(t, b + 6, d - 1, is_digit) /\ t[d] = "."
RequestAt(t, a, b, d, f) ==
  /\ MajorAt(t, a, b, d)
  /\ d + 1 < f /\ Bytes(t, d + 1, f - 1, is_digit) /\ t[f] = "cr"

FieldAt(t, i, c, j) ==
  /\ i < c /\ Bytes(t, i, c - 1, Token) /\ t[c] = ":"
  /\ c + 1 < j /\ t[c + 1] = "space" /\ Bytes(t, c + 2, j - 1, Visible) /\ t[j] = "cr"
FoldAt(t, i, u, j) ==
  /\ i < u /\ Bytes(t, i, u - 1, Blank) /\ t[u] \notin Blank
  /\ u <= j /\ Bytes(t, u, j - 1, Visible) /\ t[j] = "cr"

(* A line from i to j makes other headers of those before it. *)
Continued(hs, v) == [hs EXCEPT ![Len(hs)].value = @ \o v]
Field(t, i, c, j) == [name |-> SubSeq(t, i, c - 1), value |-> SubSeq(t, c + 2, j - 1)]
LineSays(t, i, j, from, to) ==
  \/ \E c \in 1..Len(t) : FieldAt(t, i, c, j) /\ to = Append(from, Field(t, i, c, j))
  \/ /\ from # <<>>
     /\ \E u \in 1..Len(t) :
          FoldAt(t, i, u, j) /\ to = Continued(from, SubSeq(t, u, j - 1))

(* Behind the request line, which ends at f, there are whole lines up to s; *)
(* h[i] are the headers they made up to i.                                  *)
Whole(t, f, s, h) ==
  /\ f + 2 <= s /\ s <= Len(t) + 1 /\ t[s - 1] = "lf"
  /\ \A i \in 1..s - 2 : t[i] = "cr" <=> t[i + 1] = "lf"
  /\ \A i \in f + 2..s - 1 :
       IF t[i - 1] = "lf"
       THEN \E j \in i + 1..s - 2 : LineSays(t, i, j, h[i - 1], h[i])
       ELSE h[i] = h[i - 1]
  /\ \A i \in 0..f + 1 : h[i] = <<>>
  /\ \A i \in f + 2..s - 1 : h[i] # <<>>

(* What a request line and headers make a request of. *)
Req(m, u, x, y, hs) ==
  [method |-> m, uri |-> u, major |-> x, minor |-> y, headers |-> hs]
RequestOf(t, a, b, d, f, hs) ==
  Req(SubSeq(t, 1, a - 1), SubSeq(t, a + 1, b - 1), SubSeq(t, b + 6, d - 1),
      SubSeq(t, d + 1, f - 1), hs)

-----------------------------------------------------------------------------
(* What was parsed, in each state of the parser. *)
AtStart(t, req) == t = <<>> /\ req = NoRequest
InMethod(t, req) ==
  /\ t # <<>> /\ Bytes(t, 1, Len(t), Token)
  /\ req = Req(t, <<>>, <<>>, <<>>, <<>>)
InUri(t, req) ==
  \E a \in 1..Len(t) :
    /\ MethodAt(t, a) /\ Bytes(t, a + 1, Len(t), UriByte)
    /\ req = Req(SubSeq(t, 1, a - 1), SubSeq(t, a + 1, Len(t)), <<>>, <<>>, <<>>)
InName(t, req, k) ==
  \E a, b \in 1..Len(t) :
    /\ UriAt(t, a, b) /\ Len(t) = b + k /\ NameAt(t, b, k)
    /\ req = Req(SubSeq(t, 1, a - 1), SubSeq(t, a + 1, b - 1), <<>>, <<>>, <<>>)
InMajor(t, req) ==
  \E a, b \in 1..Len(t) :
    /\ UriAt(t, a, b) /\ NameAt(t, b, 5)
    /\ b + 6 <= Len(t) /\ Bytes(t, b + 6, Len(t), is_digit)
    /\ req = Req(SubSeq(t, 1, a - 1), SubSeq(t, a + 1, b - 1),
                 SubSeq(t, b + 6, Len(t)), <<>>, <<>>)
AtPoint(t, req) ==
  \E a, b \in 1..Len(t) :
    /\ MajorAt(t, a, b, Len(t))
    /\ req = Req(SubSeq(t, 1, a - 1), SubSeq(t, a + 1, b - 1),
                 SubSeq(t, b + 6, Len(t) - 1), <<>>, <<>>)
InMinor(t, req) ==
  \E a, b, d \in 1..Len(t) :
    /\ MajorAt(t, a, b, d) /\ d < Len(t) /\ Bytes(t, d + 1, Len(t), is_digit)
    /\ req = Req(SubSeq(t, 1, a - 1), SubSeq(t, a + 1, b - 1),
                 SubSeq(t, b + 6, d - 1), SubSeq(t, d + 1, Len(t)), <<>>)
LineRead(t, req) ==
  \E a, b, d \in 1..Len(t) :
    RequestAt(t, a, b, d, Len(t)) /\ req = RequestOf(t, a, b, d, Len(t), <<>>)

(* The line that begins at s, with the headers hs before it, makes them is. *)
InLine(t, s, hs, is) == s = Len(t) + 1 /\ is = hs
InBlanks(t, s, hs, is) ==
  s <= Len(t) /\ Bytes(t, s, Len(t), Blank) /\ hs # <<>> /\ is = hs
InFieldName(t, s, hs, is) ==
  /\ s <= Len(t) /\ Bytes(t, s, Len(t), Token)
  /\ is = Append(hs, [name |-> SubSeq(t, s, Len(t)), value |-> <<>>])
AtColon(t, s, hs, is) ==
  /\ s < Len(t) /\ Bytes(t, s, Len(t) - 1, Token) /\ t[Len(t)] = ":"
  /\ is = Append(hs, [name |-> SubSeq(t, s, Len(t) - 1), value |-> <<>>])
InValue(t, s, hs, is) ==
  \/ \E c \in 1..Len(t) :
       /\ s < c /\ c < Len(t) /\ Bytes(t, s, c - 1, Token)
       /\ t[c] = ":" /\ t[c + 1] = "space" /\ Bytes(t, c + 2, Len(t), Visible)
       /\ is = Append(hs, Field(t, s, c, Len(t) + 1))
  \/ \E u \in 1..Len(t) :
       /\ s < u /\ Bytes(t, s, u - 1, Blank) /\ t[u] \notin Blank
       /\ Bytes(t, u, Len(t), Visible)
       /\ hs # <<>> /\ is = Continued(hs, SubSeq(t, u, Len(t)))
AtEndOfLine(t, s, hs, is) == s < Len(t) /\ LineSays(t, s, Len(t), hs, is)
AtLastLine(t, s, hs, is) == s = Len(t) /\ t[s] = "cr" /\ is = hs
AtTheEnd(t, s, hs, is) ==
  s + 1 = Len(t) /\ t[s] = "cr" /\ t[s + 1] = "lf" /\ is = hs

LineSoFar(st, t, s, hs, is) ==
  /\ st = "header_line_start" => InLine(t, s, hs, is)
  /\ st = "header_lws" => InBlanks(t, s, hs, is)
  /\ st = "header_name" => InFieldName(t, s, hs, is)
  /\ st = "space_before_header_value" => AtColon(t, s, hs, is)
  /\ st = "header_value" => InValue(t, s, hs, is)
  /\ st = "expecting_newline_2" => AtEndOfLine(t, s, hs, is)
  /\ st = "expecting_newline_3" => AtLastLine(t, s, hs, is)
  /\ st = "good" => AtTheEnd(t, s, hs, is)

HeaderState == {"header_line_start", "header_lws", "header_name",
                "space_before_header_value", "header_value",
                "expecting_newline_2", "expecting_newline_3", "good"}
HeadersAt(t, req, a, b, d, f, s, h, is) ==
  /\ h \in [0..s - 1 -> Seq(Header)] /\ is \in Seq(Header)
  /\ RequestAt(t, a, b, d, f) /\ Whole(t, f, s, h)
  /\ req = RequestOf(t, a, b, d, f, is)
InHeaders(st, t, req) ==
  \E a, b, d, f \in 1..Len(t), s \in 1..Len(t) + 1 : \E h, is :
    HeadersAt(t, req, a, b, d, f, s, h, is) /\ LineSoFar(st, t, s, h[s - 1], is)

(* Every state but "bad" says what the text is so far. *)
Parsed(st, t, req) ==
  /\ st = "method_start" => AtStart(t, req)
  /\ st = "method" => InMethod(t, req)
  /\ st = "uri" => InUri(t, req)
  /\ st = "http_version_h" => InName(t, req, 0)
  /\ st = "http_version_t_1" => InName(t, req, 1)
  /\ st = "http_version_t_2" => InName(t, req, 2)
  /\ st = "http_version_p" => InName(t, req, 3)
  /\ st = "http_version_slash" => InName(t, req, 4)
  /\ st = "http_version_major_start" => InName(t, req, 5)
  /\ st = "http_version_major" => InMajor(t, req)
  /\ st = "http_version_minor_start" => AtPoint(t, req)
  /\ st = "http_version_minor" => InMinor(t, req)
  /\ st = "expecting_newline_1" => LineRead(t, req)
  /\ st \in HeaderState => InHeaders(st, t, req)
-----------------------------------------------------------------------------
(* A set of numbers has a least. *)
LEMMA Least ==
  ASSUME NEW S, S \subseteq Nat, S # {}
  PROVE  \E m \in S : \A k \in S : m <= k
<1> DEFINE Less == {p \in Nat \X Nat : p[1] < p[2]}
<1>1. IsWellFoundedOn(Less, Nat)
  BY NatLessThanWellFounded DEF OpToRel
<1>2. PICK m \in S : \A k \in S : ~(<<k, m>> \in Less)
  <2> HIDE DEF Less
  <2> QED  BY <1>1, WFMin
<1>3. \A k \in S : ~(<<k, m>> \in Less) => m <= k
  OBVIOUS
<1> QED  BY <1>2, <1>3

(* Which byte is of which kind. *)
LEMMA Kinds ==
  /\ Token \subseteq Visible /\ UriByte \subseteq Visible /\ is_digit \subseteq Visible
  /\ Visible \subseteq Char
  /\ \A c \in {"cr", "lf"} : c \notin Visible /\ c \notin Blank /\ c \in Char
  /\ \A c \in Token : c \notin {"space", ":", "cr", "lf"} /\ c \notin Blank
  /\ "space" \in Visible /\ "space" \notin UriByte
  /\ "." \notin is_digit /\ \A c \in Blank : c \notin Token /\ c \in Char
BY DEF Token, Visible, UriByte, Blank, Char, is_char, is_ctl, is_tspecial, is_digit

-----------------------------------------------------------------------------
(* Parts of a text. *)
LEMMA Part ==
  ASSUME NEW t \in Seq(Char), NEW i \in 1..Len(t) + 1, NEW j \in i - 1..Len(t)
  PROVE  /\ SubSeq(t, i, j) \in Seq(Char) /\ Len(SubSeq(t, i, j)) = j - i + 1
         /\ \A k \in 1..j - i + 1 : SubSeq(t, i, j)[k] = t[i + k - 1]
<1>1. i \in Int /\ j \in Int /\ \A k \in i..j : t[k] \in Char
  OBVIOUS
<1>2. /\ SubSeq(t, i, j) \in Seq(Char)
      /\ Len(SubSeq(t, i, j)) = IF i <= j THEN j - i + 1 ELSE 0
      /\ \A k \in 1..j - i + 1 : SubSeq(t, i, j)[k] = t[i + k - 1]
  BY <1>1, SubSeqProperties
<1> QED  BY <1>2

(* A part of a part of a text is a part of the text. *)
LEMMA PartOfPart ==
  ASSUME NEW t \in Seq(Char), NEW i \in 1..Len(t) + 1, NEW j \in i - 1..Len(t),
         NEW m \in 1..j - i + 2, NEW n \in m - 1..j - i + 1
  PROVE  SubSeq(SubSeq(t, i, j), m, n) = SubSeq(t, i + m - 1, i + n - 1)
<1> DEFINE s == SubSeq(t, i, j)
<1>1. s \in Seq(Char) /\ Len(s) = j - i + 1 /\ \A k \in 1..j - i + 1 : s[k] = t[i + k - 1]
  BY Part
<1> HIDE DEF s
<1>2. /\ SubSeq(s, m, n) \in Seq(Char) /\ Len(SubSeq(s, m, n)) = n - m + 1
      /\ \A k \in 1..n - m + 1 : SubSeq(s, m, n)[k] = s[m + k - 1]
  <2>1. m \in 1..Len(s) + 1 /\ n \in m - 1..Len(s)
    BY <1>1
  <2> QED  BY <1>1, <2>1, Part
<1> DEFINE a == i + m - 1
           b == i + n - 1
<1>3. a \in 1..Len(t) + 1 /\ b \in a - 1..Len(t) /\ b - a + 1 = n - m + 1
  OBVIOUS
<1> HIDE DEF a, b
<1>4. /\ SubSeq(t, a, b) \in Seq(Char) /\ Len(SubSeq(t, a, b)) = n - m + 1
      /\ \A k \in 1..n - m + 1 : SubSeq(t, a, b)[k] = t[a + k - 1]
  BY <1>3, Part
<1>5. \A k \in 1..n - m + 1 : s[m + k - 1] = t[a + k - 1]
  BY <1>1 DEF a
<1>6. \A k \in 1..n - m + 1 : SubSeq(s, m, n)[k] = SubSeq(t, a, b)[k]
  BY <1>2, <1>4, <1>5
<1>7. SubSeq(s, m, n) = SubSeq(t, a, b)
  BY <1>2, <1>4, <1>6, SeqEqual
<1> QED  BY <1>7 DEF s, a, b

(* In a part there is an x with none before it, or none at all. *)
LEMMA Split ==
  ASSUME NEW t \in Seq(Char), NEW i \in 1..Len(t) + 1, NEW j \in i..Len(t) + 1,
         NEW x \in Char
  PROVE  \E c \in i..j : (c = j \/ t[c] = x) /\ \A k \in i..c - 1 : t[k] # x
<1> DEFINE S == {c \in i..j : c = j \/ t[c] = x}
<1>1. S \subseteq Nat /\ j \in S
  OBVIOUS
<1>2. PICK c \in S : \A k \in S : c <= k
  <2> HIDE DEF S
  <2> QED  BY <1>1, Least
<1>3. \A k \in i..c - 1 : k \notin S
  BY <1>2
<1> QED  BY <1>3

(* The place of the first x is the one with no x before it. *)
LEMMA FirstIs ==
  ASSUME NEW s \in Seq(Char), NEW x, NEW k \in 1..Len(s) + 1,
         k = Len(s) + 1 \/ s[k] = x, \A j \in 1..k - 1 : s[j] # x
  PROVE  First(s, x) = k
<1> DEFINE P(i) == /\ i = Len(s) + 1 \/ s[i] = x
                   /\ \A j \in 1..i - 1 : s[j] # x
<1>1. P(k)
  OBVIOUS
<1>2. ASSUME NEW i \in 1..Len(s) + 1, P(i) PROVE i = k
  <2>1. ~(i < k)  BY <1>2
  <2>2. ~(k < i)  BY <1>2
  <2> QED  BY <2>1, <2>2
<1>3. First(s, x) = CHOOSE i \in 1..Len(s) + 1 : P(i)
  BY DEF First
<1> HIDE DEF P
<1> QED  BY <1>1, <1>2, <1>3

(* What is before and what behind the first x of a part. *)
LEMMA Parts ==
  ASSUME NEW t \in Seq(Char), NEW i \in 1..Len(t) + 1, NEW j \in i..Len(t) + 1,
         NEW x \in Char, NEW c \in i..j, c = j \/ t[c] = x, \A k \in i..c - 1 : t[k] # x
  PROVE  /\ UpTo(SubSeq(t, i, j - 1), x) = SubSeq(t, i, c - 1)
         /\ c < j => Past(SubSeq(t, i, j - 1), x) = SubSeq(t, c + 1, j - 1)
         /\ c = j => Past(SubSeq(t, i, j - 1), x) = <<>>
<1> DEFINE s == SubSeq(t, i, j - 1)
           k == c - i + 1
<1>1. s \in Seq(Char) /\ Len(s) = j - i /\ \A n \in 1..j - i : s[n] = t[i + n - 1]
  <2>1. j - 1 \in i - 1..Len(t) /\ (j - 1) - i + 1 = j - i  OBVIOUS
  <2> QED  BY <2>1, Part
<1> HIDE DEF s
<1>2. First(s, x) = k
  <2>1. k \in 1..Len(s) + 1  BY <1>1
  <2>2. k = Len(s) + 1 \/ s[k] = x
    <3>1. CASE c = j  BY <3>1, <1>1
    <3>2. CASE c < j
      <4>1. k \in 1..j - i /\ i + k - 1 = c  BY <3>2
      <4> QED  BY <4>1, <1>1
    <3> QED  BY <3>1, <3>2
  <2>3. \A n \in 1..k - 1 : s[n] # x
    <3>1. \A n \in 1..k - 1 : n \in 1..j - i /\ i + n - 1 \in i..c - 1  OBVIOUS
    <3> QED  BY <3>1, <1>1
  <2> QED  BY <1>1, <2>1, <2>2, <2>3, FirstIs
<1>3. SubSeq(s, 1, k - 1) = SubSeq(t, i, c - 1)
  <2> DEFINE m == 1
             n == k - 1
             e == j - 1
  <2>1. m \in 1..e - i + 2 /\ n \in m - 1..e - i + 1 /\ e \in i - 1..Len(t)
    OBVIOUS
  <2>2. i + m - 1 = i /\ i + n - 1 = c - 1  OBVIOUS
  <2> HIDE DEF m, n, e
  <2>3. SubSeq(SubSeq(t, i, e), m, n) = SubSeq(t, i + m - 1, i + n - 1)
    BY <2>1, PartOfPart
  <2>4. SubSeq(SubSeq(t, i, e), m, n) = SubSeq(t, i, c - 1)  BY <2>2, <2>3
  <2> QED  BY <2>4 DEF s, m, n, e
<1>4. ASSUME c < j PROVE SubSeq(s, k + 1, Len(s)) = SubSeq(t, c + 1, j - 1)
  <2> DEFINE m == k + 1
             n == j - i
  <2>1. m \in 1..(j - 1) - i + 2 /\ n \in m - 1..(j - 1) - i + 1 /\ j - 1 \in i - 1..Len(t)
    BY <1>4
  <2>2. i + m - 1 = c + 1 /\ i + n - 1 = j - 1 /\ Len(s) = n
    BY <1>1
  <2> HIDE DEF k, m, n
  <2>3. SubSeq(s, m, n) = SubSeq(t, i + m - 1, i + n - 1)
    BY <2>1, PartOfPart DEF s
  <2> QED  BY <2>2, <2>3 DEF m
<1>5. ASSUME c = j PROVE SubSeq(s, k + 1, Len(s)) = <<>>
  <2>1. k + 1 \in Int /\ Len(s) \in Int /\ Len(s) < k + 1  BY <1>1, <1>5
  <2> QED  BY <2>1, SubSeqEmpty
<1>6. UpTo(s, x) = SubSeq(s, 1, k - 1) /\ Past(s, x) = SubSeq(s, k + 1, Len(s))
  BY <1>2 DEF UpTo, Past, Cut
<1> QED  BY <1>3, <1>4, <1>5, <1>6 DEF s

(* The bytes of a part, said by places. *)
LEMMA AllOfPart ==
  ASSUME NEW t \in Seq(Char), NEW i \in 1..Len(t) + 1, NEW j \in i - 1..Len(t), NEW S
  PROVE  All(SubSeq(t, i, j), S) <=> Bytes(t, i, j, S)
<1>1. /\ DOMAIN SubSeq(t, i, j) = 1..j - i + 1
      /\ \A k \in 1..j - i + 1 : SubSeq(t, i, j)[k] = t[i + k - 1]
  BY Part, LenProperties
<1>2. \A k \in i..j : k - i + 1 \in 1..j - i + 1 /\ i + (k - i + 1) - 1 = k
  OBVIOUS
<1>3. \A k \in 1..j - i + 1 : i + k - 1 \in i..j
  OBVIOUS
<1> QED  BY <1>1, <1>2, <1>3 DEF All, Bytes
-----------------------------------------------------------------------------
(* The grammar's lines, said by places. *)
LEMMA LineIs ==
  ASSUME NEW t \in Seq(Char), NEW i \in 1..Len(t), NEW j \in i..Len(t),
         t[j] = "cr", \A k \in i..j - 1 : t[k] # "cr"
  PROVE  Line(t, i) = SubSeq(t, i, j - 1)
<1> DEFINE n == Len(t) + 1
<1>1. i \in 1..Len(t) + 1 /\ n \in i..Len(t) + 1 /\ j \in i..n /\ n - 1 = Len(t)
      /\ "cr" \in Char
  BY DEF Char
<1> HIDE DEF n
<1>2. UpTo(SubSeq(t, i, n - 1), "cr") = SubSeq(t, i, j - 1)
  BY <1>1, Parts
<1> QED  BY <1>1, <1>2 DEF Line

(* "HTTP/", digits, a point, digits. *)
VersionAt(t, b, d, f) ==
  /\ NameAt(t, b, 5)
  /\ b + 6 < d /\ Bytes(t, b + 6, d - 1, is_digit) /\ t[d] = "."
  /\ d + 1 < f /\ Bytes(t, d + 1, f - 1, is_digit)

(* A number: at least one byte, and only digits. *)
LEMMA NumberIs ==
  ASSUME NEW t \in Seq(Char), NEW i \in 1..Len(t) + 1, NEW j \in i - 1..Len(t)
  PROVE  Number(SubSeq(t, i, j)) <=> i <= j /\ Bytes(t, i, j, is_digit)
<1>1. SubSeq(t, i, j) \in Seq(Char) /\ Len(SubSeq(t, i, j)) = j - i + 1
  BY Part
<1>2. SubSeq(t, i, j) # <<>> <=> i <= j
  <2>1. Len(SubSeq(t, i, j)) = 0 <=> SubSeq(t, i, j) = <<>>
    BY <1>1, EmptySeq
  <2> QED  BY <1>1, <2>1
<1> QED  BY <1>2, AllOfPart DEF Number

(* The empty text is no number. *)
LEMMA NothingIsNoNumber == ~Number(<<>>)
BY DEF Number

(* Two numbers with a point between them, said by places. *)
LEMMA VersionNumbers ==
  ASSUME NEW t \in Seq(Char), NEW i \in 1..Len(t) + 1, NEW f \in i..Len(t) + 1
  PROVE  LET n == SubSeq(t, i, f - 1) IN
         Number(UpTo(n, ".")) /\ Number(Past(n, ".")) <=>
           \E d \in 1..Len(t) : /\ i < d /\ Bytes(t, i, d - 1, is_digit) /\ t[d] = "."
                                /\ d + 1 < f /\ Bytes(t, d + 1, f - 1, is_digit)
<1> DEFINE n == SubSeq(t, i, f - 1)
           D(d) == /\ i < d /\ Bytes(t, i, d - 1, is_digit) /\ t[d] = "."
                   /\ d + 1 < f /\ Bytes(t, d + 1, f - 1, is_digit)
<1>0. "." \in Char
  BY DEF Char
<1>1. PICK d \in i..f : (d = f \/ t[d] = ".") /\ \A k \in i..d - 1 : t[k] # "."
  <2> HIDE DEF n, D
  <2> QED  BY <1>0, Split
<1>2. /\ UpTo(n, ".") = SubSeq(t, i, d - 1)
      /\ d < f => Past(n, ".") = SubSeq(t, d + 1, f - 1)
      /\ d = f => Past(n, ".") = <<>>
  <2> HIDE DEF D
  <2> QED  BY <1>0, <1>1, Parts
<1>3. Number(SubSeq(t, i, d - 1)) <=> i <= d - 1 /\ Bytes(t, i, d - 1, is_digit)
  <2>1. d - 1 \in i - 1..Len(t)  OBVIOUS
  <2> QED  BY <2>1, NumberIs
<1>4. d < f => (Number(SubSeq(t, d + 1, f - 1)) <=>
                  d + 1 <= f - 1 /\ Bytes(t, d + 1, f - 1, is_digit))
  <2>1. d < f => d + 1 \in 1..Len(t) + 1 /\ f - 1 \in (d + 1) - 1..Len(t)  OBVIOUS
  <2> QED  BY <2>1, NumberIs
<1>5. ASSUME Number(UpTo(n, ".")) /\ Number(Past(n, ".")) PROVE \E e \in 1..Len(t) : D(e)
  <2>1. d < f  BY <1>1, <1>2, <1>5, NothingIsNoNumber
  <2>2. d \in 1..Len(t) /\ d \in i..f  BY <2>1
  <2>3. Number(SubSeq(t, i, d - 1)) /\ Number(SubSeq(t, d + 1, f - 1))
    <3> HIDE DEF n
    <3> QED  BY <1>2, <1>5, <2>1
  <2>4. i < d /\ t[d] = "." /\ Bytes(t, i, d - 1, is_digit)
    BY <1>1, <1>3, <2>1, <2>2, <2>3
  <2>5. d + 1 < f /\ Bytes(t, d + 1, f - 1, is_digit)
    BY <1>4, <2>1, <2>2, <2>3
  <2> QED  BY <2>2, <2>4, <2>5
<1>6. ASSUME NEW e \in 1..Len(t), D(e) PROVE Number(UpTo(n, ".")) /\ Number(Past(n, "."))
  <2>1. e = d
    <3>1. \A k \in i..e - 1 : t[k] # "."  BY <1>6, Kinds DEF Bytes
    <3>2. ~(d < e)  BY <1>1, <1>6, <3>1
    <3>3. ~(e < d)  BY <1>1, <1>6
    <3> QED  BY <3>2, <3>3
  <2>2. d < f /\ i <= d - 1 /\ d + 1 <= f - 1  BY <1>6, <2>1
  <2> QED  BY <1>2, <1>3, <1>4, <1>6, <2>1, <2>2
<1> HIDE DEF D
<1>7. Number(UpTo(n, ".")) /\ Number(Past(n, ".")) <=> \E e \in 1..Len(t) : D(e)
  BY <1>5, <1>6
<1> QED  BY <1>7 DEF D, n

(* The five bytes in front of a version. *)
LEMMA HttpIs ==
  ASSUME NEW s \in Seq(Char), Len(s) = 5
  PROVE  s = <<"H", "T", "T", "P", "/">> <=>
           s[1] = "H" /\ s[2] = "T" /\ s[3] = "T" /\ s[4] = "P" /\ s[5] = "/"
<1> DEFINE w == <<"H", "T", "T", "P", "/">>
<1>1. w \in Seq(Char) /\ Len(w) = 5
  BY DEF Char
<1>2. w[1] = "H" /\ w[2] = "T" /\ w[3] = "T" /\ w[4] = "P" /\ w[5] = "/"
  OBVIOUS
<1> HIDE DEF w
<1>3. ASSUME s[1] = "H" /\ s[2] = "T" /\ s[3] = "T" /\ s[4] = "P" /\ s[5] = "/"
      PROVE  s = w
  <2>1. \A k \in 1..5 : k \in {1, 2, 3, 4, 5}  OBVIOUS
  <2>2. \A k \in 1..Len(s) : s[k] = w[k]  BY <1>1, <1>2, <1>3, <2>1
  <2> QED  BY <1>1, <2>2, SeqEqual
<1>4. s = w => s[1] = "H" /\ s[2] = "T" /\ s[3] = "T" /\ s[4] = "P" /\ s[5] = "/"
  BY <1>2
<1>5. s = w <=> s[1] = "H" /\ s[2] = "T" /\ s[3] = "T" /\ s[4] = "P" /\ s[5] = "/"
  BY <1>3, <1>4
<1> QED  BY <1>5 DEF w

(* The version of a request line, said by places. *)
LEMMA VersionIs ==
  ASSUME NEW t \in Seq(Char), NEW b \in 0..Len(t), NEW f \in b + 1..Len(t) + 1
  PROVE  Version(SubSeq(t, b + 1, f - 1)) <=> \E d \in 1..Len(t) : VersionAt(t, b, d, f)
<1> DEFINE s == SubSeq(t, b + 1, f - 1)
<1>1. /\ s \in Seq(Char) /\ Len(s) = f - b - 1
      /\ \A k \in 1..f - b - 1 : s[k] = t[b + k]
  <2>1. b + 1 \in 1..Len(t) + 1 /\ f - 1 \in (b + 1) - 1..Len(t)
        /\ (f - 1) - (b + 1) + 1 = f - b - 1
        /\ \A k \in 1..f - b - 1 : (b + 1) + k - 1 = b + k
    OBVIOUS
  <2> QED  BY <2>1, Part
<1>2. CASE Len(s) <= 5
  <2>1. ~Version(s)  BY <1>1, <1>2 DEF Version
  <2>2. \A d \in 1..Len(t) : ~VersionAt(t, b, d, f)  BY <1>1, <1>2 DEF VersionAt
  <2> QED  BY <2>1, <2>2
<1>3. CASE Len(s) > 5
  <2>1. SubSeq(s, 6, Len(s)) = SubSeq(t, b + 6, f - 1)
    <3> DEFINE n == Len(s)
    <3>1. b + 1 \in 1..Len(t) + 1 /\ f - 1 \in (b + 1) - 1..Len(t)
          /\ 6 \in 1..(f - 1) - (b + 1) + 2 /\ n \in 6 - 1..(f - 1) - (b + 1) + 1
          /\ (b + 1) + 6 - 1 = b + 6 /\ (b + 1) + n - 1 = f - 1
      BY <1>1, <1>3
    <3>2. SubSeq(s, 6, n) = SubSeq(t, (b + 1) + 6 - 1, (b + 1) + n - 1)
      <4> HIDE DEF n
      <4> QED  BY <3>1, PartOfPart
    <3> QED  BY <3>1, <3>2
  <2>2. SubSeq(s, 1, 5) = <<"H", "T", "T", "P", "/">> <=> NameAt(t, b, 5)
    <3>1. 1 \in 1..Len(s) + 1 /\ 5 \in 1 - 1..Len(s) /\ 5 - 1 + 1 = 5
      BY <1>1, <1>3
    <3>2. /\ SubSeq(s, 1, 5) \in Seq(Char) /\ Len(SubSeq(s, 1, 5)) = 5
          /\ \A k \in 1..5 : SubSeq(s, 1, 5)[k] = s[1 + k - 1]
      BY <1>1, <3>1, Part
    <3>3. \A k \in 1..5 : SubSeq(s, 1, 5)[k] = t[b + k]
      <4>1. \A k \in 1..5 : 1 + k - 1 = k /\ k \in 1..f - b - 1
        BY <1>1, <1>3
      <4> QED  BY <1>1, <3>2, <4>1
    <3>4. 1 \in 1..5 /\ 2 \in 1..5 /\ 3 \in 1..5 /\ 4 \in 1..5 /\ 5 \in 1..5
      OBVIOUS
    <3>5. NameAt(t, b, 5) <=> t[b + 1] = "H" /\ t[b + 2] = "T" /\ t[b + 3] = "T"
                              /\ t[b + 4] = "P" /\ t[b + 5] = "/"
      BY DEF NameAt
    <3> QED  BY <3>2, <3>3, <3>4, <3>5, HttpIs
  <2>3. LET n == SubSeq(t, b + 6, f - 1) IN
        Number(UpTo(n, ".")) /\ Number(Past(n, ".")) <=>
          \E d \in 1..Len(t) :
             /\ b + 6 < d /\ Bytes(t, b + 6, d - 1, is_digit) /\ t[d] = "."
             /\ d + 1 < f /\ Bytes(t, d + 1, f - 1, is_digit)
    <3>1. b + 6 \in 1..Len(t) + 1 /\ f \in b + 6..Len(t) + 1
      BY <1>1, <1>3
    <3> QED  BY <3>1, VersionNumbers
  <2>4. Version(s) <=> /\ SubSeq(s, 1, 5) = <<"H", "T", "T", "P", "/">>
                       /\ Number(UpTo(SubSeq(t, b + 6, f - 1), "."))
                       /\ Number(Past(SubSeq(t, b + 6, f - 1), "."))
    BY <1>3, <2>1 DEF Version
  <2> QED  BY <2>2, <2>3, <2>4 DEF VersionAt
<1>4. Len(s) <= 5 \/ Len(s) > 5
  BY <1>1
<1> QED  BY <1>2, <1>3, <1>4

(* The empty text is no version. *)
LEMMA NothingIsNoVersion == ~Version(<<>>)
BY EmptySeq DEF Version

(* A line is a request line when there are places for its spaces and its *)
(* point.                                                                *)
LEMMA RequestLineIs ==
  ASSUME NEW t \in Seq(Char), NEW f \in 1..Len(t), t[f] = "cr"
  PROVE  RequestLine(SubSeq(t, 1, f - 1)) <=>
           \E a, b, d \in 1..Len(t) : RequestAt(t, a, b, d, f)
<1> DEFINE l == SubSeq(t, 1, f - 1)
           R == \E a, b, d \in 1..Len(t) : RequestAt(t, a, b, d, f)
<1>0. "space" \in Char /\ 1 \in 1..Len(t) + 1 /\ f \in 1..Len(t) + 1
  BY DEF Char
<1>1. PICK a \in 1..f : (a = f \/ t[a] = "space") /\ \A k \in 1..a - 1 : t[k] # "space"
  <2> HIDE DEF l, R
  <2> QED  BY <1>0, Split
<1>2. /\ UpTo(l, "space") = SubSeq(t, 1, a - 1)
      /\ a < f => Past(l, "space") = SubSeq(t, a + 1, f - 1)
      /\ a = f => Past(l, "space") = <<>>
  <2> HIDE DEF R
  <2> QED  BY <1>0, <1>1, Parts
<1>3. /\ SubSeq(t, 1, a - 1) # <<>> <=> 1 < a
      /\ All(SubSeq(t, 1, a - 1), Token) <=> Bytes(t, 1, a - 1, Token)
  <2>1. 1 \in 1..Len(t) + 1 /\ a - 1 \in 1 - 1..Len(t)  OBVIOUS
  <2>2. SubSeq(t, 1, a - 1) \in Seq(Char) /\ Len(SubSeq(t, 1, a - 1)) = (a - 1) - 1 + 1
    BY <2>1, Part
  <2>3. SubSeq(t, 1, a - 1) = <<>> <=> Len(SubSeq(t, 1, a - 1)) = 0
    BY <2>2, EmptySeq
  <2>4. All(SubSeq(t, 1, a - 1), Token) <=> Bytes(t, 1, a - 1, Token)
    BY <2>1, AllOfPart
  <2> QED  BY <2>2, <2>3, <2>4
<1>4. \A x, y, z \in 1..Len(t) : RequestAt(t, x, y, z, f) => x = a /\ a < f
  <2> SUFFICES ASSUME NEW x \in 1..Len(t), NEW y \in 1..Len(t), NEW z \in 1..Len(t),
                      RequestAt(t, x, y, z, f)
               PROVE  x = a /\ a < f
    OBVIOUS
  <2>1. /\ Bytes(t, 1, x - 1, Token) /\ t[x] = "space"
        /\ x < y /\ y < z /\ z < f
    BY DEF RequestAt, MajorAt, UriAt, MethodAt
  <2>2. \A k \in 1..x - 1 : t[k] # "space"
    BY <2>1, Kinds DEF Bytes
  <2> QED  BY <1>1, <2>1, <2>2
<1>5. CASE a = f
  <2>1. ~R  BY <1>4, <1>5
  <2>2. Past(Past(l, "space"), "space") = <<>>
    <3>1. UpTo(<<>>, "space") = <<>> /\ Past(<<>>, "space") = <<>>
      <4>1. SubSeq(t, f, f - 1) = <<>>  BY SubSeqEmpty
      <4>2. f \in f..f /\ f \in f..Len(t) + 1 /\ \A k \in f..f - 1 : t[k] # "space"  OBVIOUS
      <4>3. Past(SubSeq(t, f, f - 1), "space") = <<>>
            /\ UpTo(SubSeq(t, f, f - 1), "space") = SubSeq(t, f, f - 1)
        <5> HIDE DEF R, l
        <5> QED  BY <1>0, <4>2, Parts
      <4> QED  BY <4>1, <4>3
    <3> QED  BY <1>2, <1>5, <3>1
  <2>3. ~RequestLine(l)  BY <2>2, NothingIsNoVersion DEF RequestLine
  <2> QED  BY <2>1, <2>3
<1>6. CASE a < f
  <2>0. a + 1 \in 1..Len(t) + 1 /\ f \in a + 1..Len(t) + 1  BY <1>6
  <2>1. PICK b \in a + 1..f : (b = f \/ t[b] = "space")
                              /\ \A k \in a + 1..b - 1 : t[k] # "space"
    <3> DEFINE i == a + 1
    <3> HIDE DEF l, R, i
    <3>1. i \in 1..Len(t) + 1 /\ f \in i..Len(t) + 1
      BY <2>0 DEF i
    <3>2. \A x \in Char : \E b \in i..f :
                            (b = f \/ t[b] = x) /\ \A k \in i..b - 1 : t[k] # x
      BY <3>1, Split
    <3> QED  BY <1>0, <3>2 DEF i
  <2>2. /\ UpTo(Past(l, "space"), "space") = SubSeq(t, a + 1, b - 1)
        /\ b < f => Past(Past(l, "space"), "space") = SubSeq(t, b + 1, f - 1)
        /\ b = f => Past(Past(l, "space"), "space") = <<>>
    <3> DEFINE i == a + 1
    <3> HIDE DEF R, l, i
    <3>1. /\ UpTo(SubSeq(t, i, f - 1), "space") = SubSeq(t, i, b - 1)
          /\ b < f => Past(SubSeq(t, i, f - 1), "space") = SubSeq(t, b + 1, f - 1)
          /\ b = f => Past(SubSeq(t, i, f - 1), "space") = <<>>
      <4>1. /\ i \in 1..Len(t) + 1 /\ f \in i..Len(t) + 1 /\ b \in i..f
            /\ (b = f \/ t[b] = "space") /\ \A k \in i..b - 1 : t[k] # "space"
        BY <2>0, <2>1 DEF i
      <4> QED  BY <1>0, <4>1, Parts
    <3>2. Past(l, "space") = SubSeq(t, i, f - 1)  BY <1>2, <1>6 DEF i
    <3> QED  BY <3>1, <3>2 DEF i
  <2>3. All(SubSeq(t, a + 1, b - 1), Char \ is_ctl) <=> Bytes(t, a + 1, b - 1, Visible)
    <3>1. b - 1 \in (a + 1) - 1..Len(t)  BY <2>0
    <3> QED  BY <2>0, <3>1, AllOfPart DEF Visible
  <2>4. Bytes(t, a + 1, b - 1, Visible) <=> Bytes(t, a + 1, b - 1, UriByte)
    BY <2>1 DEF Bytes, UriByte
  <2>5. \A x, y, z \in 1..Len(t) : RequestAt(t, x, y, z, f) => y = b /\ b < f
    <3> SUFFICES ASSUME NEW x \in 1..Len(t), NEW y \in 1..Len(t), NEW z \in 1..Len(t),
                        RequestAt(t, x, y, z, f)
                 PROVE  y = b /\ b < f
      OBVIOUS
    <3>1. /\ x = a /\ Bytes(t, x + 1, y - 1, UriByte) /\ t[y] = "space"
          /\ x < y /\ y < z /\ z < f
      BY <1>4 DEF RequestAt, MajorAt, UriAt
    <3>2. \A k \in a + 1..y - 1 : t[k] # "space"
      BY <3>1, Kinds DEF Bytes
    <3> QED  BY <2>1, <3>1, <3>2
  <2>6. CASE b = f
    <3>1. ~R  BY <2>5, <2>6
    <3>2. ~RequestLine(l)  BY <2>2, <2>6, NothingIsNoVersion DEF RequestLine
    <3> QED  BY <3>1, <3>2
  <2>7. CASE b < f
    <3>1. Version(SubSeq(t, b + 1, f - 1)) <=> \E d \in 1..Len(t) : VersionAt(t, b, d, f)
      <4>1. b \in 0..Len(t) /\ f \in b + 1..Len(t) + 1  BY <2>7
      <4> QED  BY <4>1, VersionIs
    <3>2. ASSUME RequestLine(l) PROVE R
      <4>1. /\ SubSeq(t, 1, a - 1) # <<>> /\ All(SubSeq(t, 1, a - 1), Token)
            /\ All(SubSeq(t, a + 1, b - 1), Char \ is_ctl)
            /\ Version(SubSeq(t, b + 1, f - 1))
        <5> HIDE DEF l
        <5> QED  BY <1>2, <1>6, <2>2, <2>7, <3>2 DEF RequestLine
      <4>2. PICK d \in 1..Len(t) : VersionAt(t, b, d, f)  BY <3>1, <4>1
      <4>3. MethodAt(t, a)  BY <1>1, <1>3, <1>6, <4>1 DEF MethodAt
      <4>4. UriAt(t, a, b)  BY <4>3, <2>1, <2>3, <2>4, <2>7, <4>1 DEF UriAt
      <4>5. RequestAt(t, a, b, d, f)
        BY <4>2, <4>4 DEF RequestAt, MajorAt, VersionAt
      <4>6. a \in 1..Len(t) /\ b \in 1..Len(t)  BY <1>6, <2>7
      <4> QED  BY <4>5, <4>6
    <3>3. ASSUME R PROVE RequestLine(l)
      <4>1. PICK x, y, z \in 1..Len(t) : RequestAt(t, x, y, z, f)  BY <3>3
      <4>2. x = a /\ y = b  BY <4>1, <1>4, <2>5
      <4>3. UriAt(t, a, b) /\ VersionAt(t, b, z, f)
        BY <4>1, <4>2 DEF RequestAt, MajorAt, VersionAt
      <4>4. /\ SubSeq(t, 1, a - 1) # <<>> /\ All(SubSeq(t, 1, a - 1), Token)
            /\ All(SubSeq(t, a + 1, b - 1), Char \ is_ctl)
        BY <4>3, <1>3, <2>3, <2>4 DEF UriAt, MethodAt
      <4>5. Version(SubSeq(t, b + 1, f - 1))  BY <4>3, <3>1
      <4> HIDE DEF l
      <4> QED  BY <1>2, <1>6, <2>2, <2>7, <4>4, <4>5 DEF RequestLine
    <3> QED  BY <3>2, <3>3
  <2>8. b = f \/ b < f  OBVIOUS
  <2> QED  BY <2>6, <2>7, <2>8
<1>7. a = f \/ a < f  OBVIOUS
<1> QED  BY <1>5, <1>6, <1>7

(* And what its parts are. *)
LEMMA RequestLineParts ==
  ASSUME NEW t \in Seq(Char), NEW a \in 1..Len(t), NEW b \in 1..Len(t),
         NEW d \in 1..Len(t), NEW f \in 1..Len(t), RequestAt(t, a, b, d, f)
  PROVE  LET l == SubSeq(t, 1, f - 1)
             v == Past(Past(l, "space"), "space")
             n == SubSeq(v, 6, Len(v))
         IN  /\ UpTo(l, "space") = SubSeq(t, 1, a - 1)
             /\ UpTo(Past(l, "space"), "space") = SubSeq(t, a + 1, b - 1)
             /\ UpTo(n, ".") = SubSeq(t, b + 6, d - 1)
             /\ Past(v, ".") = SubSeq(t, d + 1, f - 1)
<1>0. /\ 1 < a /\ Bytes(t, 1, a - 1, Token) /\ t[a] = "space"
      /\ a < b /\ Bytes(t, a + 1, b - 1, UriByte) /\ t[b] = "space"
      /\ b + 6 < d /\ Bytes(t, b + 6, d - 1, is_digit) /\ t[d] = "." /\ d + 1 < f
  BY DEF RequestAt, MajorAt, UriAt, MethodAt
<1>1. "space" \in Char /\ "." \in Char
  BY DEF Char
<1>2. \A k \in 1..a - 1 : t[k] # "space"  BY <1>0, Kinds DEF Bytes
<1>3. \A k \in a + 1..b - 1 : t[k] # "space"  BY <1>0, Kinds DEF Bytes
<1>4. \A k \in b + 1..d - 1 : t[k] # "."
  <2>1. t[b + 1] = "H" /\ t[b + 2] = "T" /\ t[b + 3] = "T" /\ t[b + 4] = "P" /\ t[b + 5] = "/"
    BY DEF RequestAt, MajorAt, NameAt
  <2>2. \A k \in b + 1..d - 1 : k \in b + 6..d - 1 \/ k = b + 1 \/ k = b + 2 \/ k = b + 3
                                 \/ k = b + 4 \/ k = b + 5
    OBVIOUS
  <2> QED  BY <1>0, <2>1, <2>2, Kinds DEF Bytes
<1> DEFINE l == SubSeq(t, 1, f - 1)
           w == SubSeq(t, a + 1, f - 1)
           v == SubSeq(t, b + 1, f - 1)
           n == SubSeq(t, b + 6, f - 1)
<1>5. UpTo(l, "space") = SubSeq(t, 1, a - 1) /\ Past(l, "space") = w
  <2>1. /\ 1 \in 1..Len(t) + 1 /\ f \in 1..Len(t) + 1 /\ a \in 1..f /\ a < f
        /\ t[a] = "space"
    BY <1>0
  <2> HIDE DEF w, v, n
  <2>2. /\ UpTo(SubSeq(t, 1, f - 1), "space") = SubSeq(t, 1, a - 1)
        /\ Past(SubSeq(t, 1, f - 1), "space") = SubSeq(t, a + 1, f - 1)
    BY <1>1, <1>2, <2>1, Parts
  <2> QED  BY <2>2 DEF w
<1>6. UpTo(w, "space") = SubSeq(t, a + 1, b - 1) /\ Past(w, "space") = v
  <2> DEFINE i == a + 1
  <2>1. i \in 1..Len(t) + 1 /\ f \in i..Len(t) + 1 /\ b \in i..f /\ b < f
        /\ t[b] = "space"
    BY <1>0
  <2>2. \A k \in i..b - 1 : t[k] # "space"  BY <1>3
  <2> HIDE DEF i, l, w, v, n
  <2>3. /\ UpTo(SubSeq(t, i, f - 1), "space") = SubSeq(t, i, b - 1)
        /\ Past(SubSeq(t, i, f - 1), "space") = SubSeq(t, b + 1, f - 1)
    BY <1>1, <2>1, <2>2, Parts
  <2> QED  BY <2>3 DEF i, w, v
<1>7. UpTo(n, ".") = SubSeq(t, b + 6, d - 1)
  <2> DEFINE i == b + 6
  <2>1. i \in 1..Len(t) + 1 /\ f \in i..Len(t) + 1 /\ d \in i..f /\ d < f
        /\ t[d] = "."
    BY <1>0
  <2>2. \A k \in i..d - 1 : t[k] # "."  BY <1>4
  <2> HIDE DEF i, l, w, v, n
  <2>3. UpTo(SubSeq(t, i, f - 1), ".") = SubSeq(t, i, d - 1)
    BY <1>1, <2>1, <2>2, Parts
  <2> QED  BY <2>3 DEF i, n
<1>9. Past(v, ".") = SubSeq(t, d + 1, f - 1)
  <2> DEFINE i == b + 1
  <2>1. i \in 1..Len(t) + 1 /\ f \in i..Len(t) + 1 /\ d \in i..f /\ d < f
        /\ t[d] = "."
    BY <1>0
  <2>2. \A k \in i..d - 1 : t[k] # "."  BY <1>4
  <2> HIDE DEF i, l, w, v, n
  <2>3. Past(SubSeq(t, i, f - 1), ".") = SubSeq(t, d + 1, f - 1)
    BY <1>1, <2>1, <2>2, Parts
  <2> QED  BY <2>3 DEF i, v
<1>8. SubSeq(v, 6, Len(v)) = n
  <2> DEFINE i == b + 1
             j == f - 1
             m == f - b - 1
  <2>1. i \in 1..Len(t) + 1 /\ j \in i - 1..Len(t) /\ j - i + 1 = m
        /\ 6 \in 1..j - i + 2 /\ m \in 6 - 1..j - i + 1 /\ i + 6 - 1 = b + 6 /\ i + m - 1 = j
    BY <1>0
  <2> HIDE DEF i, j, m, n, v
  <2>2. Len(SubSeq(t, i, j)) = m  BY <2>1, Part
  <2>3. SubSeq(SubSeq(t, i, j), 6, m) = SubSeq(t, i + 6 - 1, i + m - 1)
    BY <2>1, PartOfPart
  <2>4. v = SubSeq(t, i, j) /\ n = SubSeq(t, b + 6, j)  BY DEF v, n, i, j
  <2> QED  BY <2>1, <2>2, <2>3, <2>4
<1> HIDE DEF l, w, v, n
<1> QED  BY <1>5, <1>6, <1>7, <1>8, <1>9 DEF l

(* The name and the value of a header line that is not folded. *)
LEMMA FieldParts ==
  ASSUME NEW t \in Seq(Char), NEW i \in 1..Len(t), NEW j \in 1..Len(t), NEW c \in 1..Len(t),
         FieldAt(t, i, c, j)
  PROVE  LET l == SubSeq(t, i, j - 1)
         IN  /\ UpTo(l, ":") = SubSeq(t, i, c - 1)
             /\ Past(l, ":") = SubSeq(t, c + 1, j - 1)
             /\ Head(Past(l, ":")) = "space"
             /\ Tail(Past(l, ":")) = SubSeq(t, c + 2, j - 1)
<1> DEFINE l == SubSeq(t, i, j - 1)
<1>0. /\ i < c /\ Bytes(t, i, c - 1, Token) /\ t[c] = ":" /\ c + 1 < j
      /\ t[c + 1] = "space"
  BY DEF FieldAt
<1>1. ":" \in Char  BY DEF Char
<1>2. \A k \in i..c - 1 : t[k] # ":"  BY <1>0, Kinds DEF Bytes
<1>3. UpTo(l, ":") = SubSeq(t, i, c - 1) /\ Past(l, ":") = SubSeq(t, c + 1, j - 1)
  <2>1. i \in 1..Len(t) + 1 /\ j \in i..Len(t) + 1 /\ c \in i..j /\ c < j
    BY <1>0
  <2> QED  BY <1>0, <1>1, <1>2, <2>1, Parts
<1>4. /\ Head(SubSeq(t, c + 1, j - 1)) = t[c + 1]
      /\ Tail(SubSeq(t, c + 1, j - 1)) = SubSeq(t, c + 2, j - 1)
  <2> DEFINE m == c + 1
             n == j - 1
  <2>1. m \in 1..Len(t) /\ n \in m..Len(t)  BY <1>0
  <2> HIDE DEF m, n
  <2>2. Head(SubSeq(t, m, n)) = t[m] /\ Tail(SubSeq(t, m, n)) = SubSeq(t, m + 1, n)
    BY <2>1, HeadTailOfSubSeq
  <2>3. m + 1 = c + 2  BY DEF m
  <2> QED  BY <2>2, <2>3 DEF m, n
<1> HIDE DEF l
<1> QED  BY <1>0, <1>3, <1>4 DEF l

(* A line is a header line when there is a place for its colon. *)
LEMMA FieldLineIs ==
  ASSUME NEW t \in Seq(Char), NEW i \in 1..Len(t), NEW j \in i..Len(t), t[j] = "cr"
  PROVE  FieldLine(SubSeq(t, i, j - 1)) <=> \E c \in 1..Len(t) : FieldAt(t, i, c, j)
<1> DEFINE l == SubSeq(t, i, j - 1)
<1>0. ":" \in Char /\ i \in 1..Len(t) + 1 /\ j \in i..Len(t) + 1  BY DEF Char
<1>1. PICK c \in i..j : (c = j \/ t[c] = ":") /\ \A k \in i..c - 1 : t[k] # ":"
  <2> HIDE DEF l
  <2> QED  BY <1>0, Split
<1>2. /\ UpTo(l, ":") = SubSeq(t, i, c - 1)
      /\ c < j => Past(l, ":") = SubSeq(t, c + 1, j - 1)
      /\ c = j => Past(l, ":") = <<>>
  BY <1>0, <1>1, Parts
<1>3. /\ SubSeq(t, i, c - 1) # <<>> <=> i < c
      /\ All(SubSeq(t, i, c - 1), Token) <=> Bytes(t, i, c - 1, Token)
  <2>1. c - 1 \in i - 1..Len(t)  OBVIOUS
  <2>2. SubSeq(t, i, c - 1) \in Seq(Char) /\ Len(SubSeq(t, i, c - 1)) = (c - 1) - i + 1
    BY <1>0, <2>1, Part
  <2>3. SubSeq(t, i, c - 1) = <<>> <=> Len(SubSeq(t, i, c - 1)) = 0
    BY <2>2, EmptySeq
  <2>4. All(SubSeq(t, i, c - 1), Token) <=> Bytes(t, i, c - 1, Token)
    BY <1>0, <2>1, AllOfPart
  <2> QED  BY <2>2, <2>3, <2>4
<1>4. ASSUME FieldLine(l) PROVE \E e \in 1..Len(t) : FieldAt(t, i, e, j)
  <2>1. c < j  BY <1>1, <1>2, <1>4 DEF FieldLine
  <2> DEFINE p == SubSeq(t, c + 1, j - 1)
  <2>2. p # <<>> /\ Head(p) = "space" /\ All(p, Char \ is_ctl)
        /\ SubSeq(t, i, c - 1) # <<>> /\ All(SubSeq(t, i, c - 1), Token)
    <3> HIDE DEF l
    <3> QED  BY <1>2, <1>4, <2>1 DEF FieldLine
  <2>3. c + 1 \in 1..Len(t) + 1 /\ j - 1 \in (c + 1) - 1..Len(t)  BY <2>1
  <2>4. p \in Seq(Char) /\ Len(p) = (j - 1) - (c + 1) + 1
        /\ \A k \in 1..(j - 1) - (c + 1) + 1 : p[k] = t[(c + 1) + k - 1]
    BY <2>3, Part
  <2>5. All(p, Visible) <=> Bytes(t, c + 1, j - 1, Visible)  BY <2>3, AllOfPart
  <2>6. c + 1 < j
    <3>1. Len(p) = 0 <=> p = <<>>  BY <2>4, EmptySeq
    <3> QED  BY <2>1, <2>2, <2>4, <3>1
  <2>7. t[c + 1] = "space"
    <3>1. Head(p) = p[1]  BY <2>2, <2>4
    <3>2. 1 \in 1..(j - 1) - (c + 1) + 1 /\ (c + 1) + 1 - 1 = c + 1  BY <2>6
    <3> HIDE DEF p
    <3> QED  BY <2>2, <2>4, <3>1, <3>2
  <2>8. Bytes(t, c + 2, j - 1, Visible)  BY <2>2, <2>5 DEF Visible, Bytes
  <2>9. c \in 1..Len(t) /\ t[c] = ":" /\ i < c /\ Bytes(t, i, c - 1, Token)
    BY <1>1, <1>3, <2>1, <2>2
  <2>10. FieldAt(t, i, c, j)  BY <2>6, <2>7, <2>8, <2>9 DEF FieldAt
  <2> QED  BY <2>9, <2>10
<1>5. ASSUME NEW e \in 1..Len(t), FieldAt(t, i, e, j) PROVE FieldLine(l)
  <2>1. /\ i < e /\ Bytes(t, i, e - 1, Token) /\ t[e] = ":" /\ e + 1 < j
        /\ t[e + 1] = "space" /\ Bytes(t, e + 2, j - 1, Visible)
    BY <1>5 DEF FieldAt
  <2>2. e = c
    <3>1. \A k \in i..e - 1 : t[k] # ":"  BY <2>1, Kinds DEF Bytes
    <3>2. ~(e < c)  BY <1>1, <2>1
    <3>3. ~(c < e)  BY <1>1, <2>1, <3>1
    <3> QED  BY <3>2, <3>3
  <2> DEFINE p == SubSeq(t, c + 1, j - 1)
  <2>3. Past(l, ":") = p /\ Head(p) = "space"
    <3>1. j \in 1..Len(t)  OBVIOUS
    <3>2. Past(l, ":") = p /\ Head(Past(l, ":")) = "space"
      BY <1>5, <2>2, <3>1, FieldParts
    <3> QED  BY <3>2
  <2>4. c + 1 \in 1..Len(t) + 1 /\ j - 1 \in (c + 1) - 1..Len(t)  BY <2>1, <2>2
  <2>5. p # <<>>
    <3>1. p \in Seq(Char) /\ Len(p) = (j - 1) - (c + 1) + 1  BY <2>4, Part
    <3>2. Len(p) > 0  BY <2>1, <2>2, <3>1
    <3> HIDE DEF p
    <3> QED  BY <3>1, <3>2, EmptySeq
  <2>6. All(p, Char \ is_ctl)
    <3>1. Bytes(t, c + 1, j - 1, Visible)
      <4>1. \A k \in c + 1..j - 1 : k = c + 1 \/ k \in c + 2..j - 1  OBVIOUS
      <4> QED  BY <2>1, <2>2, <4>1, Kinds DEF Bytes
    <3> QED  BY <2>4, <3>1, AllOfPart DEF Visible
  <2> HIDE DEF l, p
  <2> QED  BY <1>2, <1>3, <2>1, <2>2, <2>3, <2>5, <2>6 DEF FieldLine
<1> QED  BY <1>4, <1>5

(* Behind the blanks that begin a line is what it says more. *)
LEMMA UnfoldIs ==
  ASSUME NEW t \in Seq(Char), NEW i \in 1..Len(t), NEW j \in i..Len(t),
         NEW u \in i..j, u = j \/ t[u] \notin Blank, Bytes(t, i, u - 1, Blank)
  PROVE  Unfold(SubSeq(t, i, j - 1)) = SubSeq(t, u, j - 1)
<1> DEFINE l == SubSeq(t, i, j - 1)
           k == u - i + 1
<1>0. i \in 1..Len(t) + 1 /\ j - 1 \in i - 1..Len(t)  OBVIOUS
<1>1. /\ l \in Seq(Char) /\ Len(l) = j - i /\ DOMAIN l = 1..j - i
      /\ \A n \in 1..j - i : l[n] = t[i + n - 1]
  <2>1. (j - 1) - i + 1 = j - i  OBVIOUS
  <2> QED  BY <1>0, <2>1, Part, LenProperties
<1> HIDE DEF l
<1>2. \A n \in 1..k - 1 : l[n] \in Blank
  <2>1. \A n \in 1..k - 1 : n \in 1..j - i /\ i + n - 1 \in i..u - 1  OBVIOUS
  <2> QED  BY <1>1, <2>1 DEF Bytes
<1>3. CASE u = j
  <2>1. ~\E n \in DOMAIN l : l[n] \notin Blank  BY <1>1, <1>2, <1>3
  <2>2. SubSeq(t, u, j - 1) = <<>>  BY <1>3, SubSeqEmpty
  <2> QED  BY <2>1, <2>2 DEF Unfold, l
<1>4. CASE u < j
  <2>1. k \in DOMAIN l /\ l[k] \notin Blank
    <3>1. k \in 1..j - i /\ i + k - 1 = u  BY <1>4
    <3> QED  BY <1>1, <1>4, <3>1
  <2>2. \A n \in DOMAIN l : All(Cut(l, 1, n), Blank) <=> \A m \in 1..n - 1 : l[m] \in Blank
    <3> SUFFICES ASSUME NEW n \in DOMAIN l
                 PROVE  All(Cut(l, 1, n), Blank) <=> \A m \in 1..n - 1 : l[m] \in Blank
      OBVIOUS
    <3>1. 1 \in 1..Len(l) + 1 /\ n - 1 \in 1 - 1..Len(l)  BY <1>1
    <3>2. All(SubSeq(l, 1, n - 1), Blank) <=> Bytes(l, 1, n - 1, Blank)
      BY <1>1, <3>1, AllOfPart
    <3> QED  BY <3>2 DEF Cut, Bytes
  <2> DEFINE P(n) == l[n] \notin Blank /\ All(Cut(l, 1, n), Blank)
  <2>3. P(k)  BY <1>2, <2>1, <2>2
  <2>4. ASSUME NEW n \in DOMAIN l, P(n) PROVE n = k
    <3>1. n \in 1..j - i /\ k \in 1..j - i  BY <1>1, <2>1
    <3>2. \A m \in 1..n - 1 : l[m] \in Blank  BY <2>2, <2>4
    <3>3. ~(n < k)  BY <1>2, <2>4, <3>1
    <3>4. ~(k < n)  BY <2>1, <3>1, <3>2
    <3> QED  BY <3>1, <3>3, <3>4
  <2>5. (CHOOSE n \in DOMAIN l : P(n)) = k
    <3> HIDE DEF P
    <3> QED  BY <2>1, <2>3, <2>4
  <2>6. Unfold(l) = SubSeq(l, k, Len(l))
    <3> HIDE DEF k
    <3> QED  BY <2>1, <2>5 DEF Unfold
  <2>7. SubSeq(l, k, Len(l)) = SubSeq(t, u, j - 1)
    <3> DEFINE e == j - 1
               n == j - i
    <3>1. /\ e \in i - 1..Len(t) /\ k \in 1..e - i + 2 /\ n \in k - 1..e - i + 1
          /\ i + k - 1 = u /\ i + n - 1 = e
      BY <1>4
    <3> HIDE DEF e, n, k
    <3>2. SubSeq(SubSeq(t, i, e), k, n) = SubSeq(t, i + k - 1, i + n - 1)
      BY <1>0, <3>1, PartOfPart
    <3>3. l = SubSeq(t, i, e) /\ Len(l) = n  BY <1>1 DEF l, e, n
    <3> QED  BY <3>1, <3>2, <3>3 DEF e
  <2> QED  BY <2>6, <2>7 DEF l
<1>5. u = j \/ u < j  OBVIOUS
<1> QED  BY <1>3, <1>4, <1>5

(* A line is folded when its first byte is a blank. *)
LEMMA FoldedIs ==
  ASSUME NEW t \in Seq(Char), NEW i \in 1..Len(t), NEW j \in i + 1..Len(t)
  PROVE  Folded(SubSeq(t, i, j - 1)) <=> t[i] \in Blank
<1>1. i \in 1..Len(t) + 1 /\ j - 1 \in i - 1..Len(t) /\ 1 \in 1..(j - 1) - i + 1
      /\ i + 1 - 1 = i
  OBVIOUS
<1>2. SubSeq(t, i, j - 1)[1] = t[i]
  BY <1>1, Part
<1> QED  BY <1>2 DEF Folded

(* A line continues a value when there is a place where the blanks end. *)
LEMMA FoldedLineIs ==
  ASSUME NEW t \in Seq(Char), NEW i \in 1..Len(t), NEW j \in i + 1..Len(t), t[j] = "cr"
  PROVE  FoldedLine(SubSeq(t, i, j - 1)) <=> \E u \in 1..Len(t) : FoldAt(t, i, u, j)
<1> DEFINE l == SubSeq(t, i, j - 1)
<1>1. Folded(l) <=> t[i] \in Blank  BY FoldedIs
<1>2. ASSUME NEW u \in i..j, u = j \/ t[u] \notin Blank, Bytes(t, i, u - 1, Blank)
      PROVE  All(Unfold(l), Char \ is_ctl) <=> Bytes(t, u, j - 1, Visible)
  <2>1. j \in i..Len(t)  OBVIOUS
  <2>2. Unfold(l) = SubSeq(t, u, j - 1)  BY <1>2, <2>1, UnfoldIs
  <2>3. u \in 1..Len(t) + 1 /\ j - 1 \in u - 1..Len(t)  OBVIOUS
  <2> QED  BY <2>2, <2>3, AllOfPart DEF Visible
<1>3. ASSUME FoldedLine(l) PROVE \E u \in 1..Len(t) : FoldAt(t, i, u, j)
  <2> DEFINE S == {u \in i..j : u = j \/ t[u] \notin Blank}
  <2>1. PICK u \in S : \A k \in S : u <= k
    <3>1. S \subseteq Nat /\ j \in S  OBVIOUS
    <3> HIDE DEF S
    <3> QED  BY <3>1, Least
  <2>2. Bytes(t, i, u - 1, Blank)
    <3>1. \A k \in i..u - 1 : k \notin S  BY <2>1
    <3> QED  BY <3>1 DEF Bytes
  <2>3. i < u  BY <1>1, <1>3, <2>1 DEF FoldedLine
  <2>4. Bytes(t, u, j - 1, Visible)
    BY <1>2, <1>3, <2>1, <2>2 DEF FoldedLine
  <2>5. t[u] \notin Blank  BY <2>1, Kinds
  <2>6. FoldAt(t, i, u, j) /\ u \in 1..Len(t)
    BY <2>1, <2>2, <2>3, <2>4, <2>5 DEF FoldAt
  <2> QED  BY <2>6
<1>4. ASSUME NEW u \in 1..Len(t), FoldAt(t, i, u, j) PROVE FoldedLine(l)
  <2>1. /\ u \in i..j /\ i < u /\ t[u] \notin Blank /\ Bytes(t, i, u - 1, Blank)
        /\ Bytes(t, u, j - 1, Visible)
    BY <1>4 DEF FoldAt
  <2>2. t[i] \in Blank  BY <2>1 DEF Bytes
  <2> QED  BY <1>1, <1>2, <2>1, <2>2 DEF FoldedLine
<1> QED  BY <1>3, <1>4

-----------------------------------------------------------------------------
(* The whole text: a request line that ends at f, then header lines.       *)
LineAt(t, i, j, f) ==
  \/ \E c \in 1..Len(t) : FieldAt(t, i, c, j)
  \/ i # f + 2 /\ \E u \in 1..Len(t) : FoldAt(t, i, u, j)
LinesAt(t, f) ==
  \A i \in f + 2..Len(t) - 3 :
    t[i - 1] = "lf" => \E j \in i + 1..Len(t) - 3 : LineAt(t, i, j, f)
Laid(t) ==
  /\ InLines(t)
  /\ \E a, b, d, f \in 1..Len(t) : RequestAt(t, a, b, d, f) /\ LinesAt(t, f)

(* The places of a request line are in order, and no line ends within it. *)
LEMMA RequestBytes ==
  ASSUME NEW t \in Seq(Char), NEW a \in 1..Len(t), NEW b \in 1..Len(t),
         NEW d \in 1..Len(t), NEW f \in Nat,
         MajorAt(t, a, b, d), Bytes(t, d + 1, f - 1, is_digit)
  PROVE  /\ 1 < a /\ a < b /\ b + 6 < d
         /\ \A k \in 1..f - 1 : t[k] \notin {"cr", "lf"}
<1>1. /\ 1 < a /\ Bytes(t, 1, a - 1, Token) /\ t[a] = "space"
      /\ a < b /\ Bytes(t, a + 1, b - 1, UriByte) /\ t[b] = "space"
      /\ t[b + 1] = "H" /\ t[b + 2] = "T" /\ t[b + 3] = "T" /\ t[b + 4] = "P" /\ t[b + 5] = "/"
      /\ b + 6 < d /\ Bytes(t, b + 6, d - 1, is_digit) /\ t[d] = "."
  BY DEF MajorAt, UriAt, MethodAt, NameAt
<1>2. \A k \in 1..f - 1 :
        \/ k \in 1..a - 1 \/ k = a \/ k \in a + 1..b - 1 \/ k = b
        \/ k = b + 1 \/ k = b + 2 \/ k = b + 3 \/ k = b + 4 \/ k = b + 5
        \/ k \in b + 6..d - 1 \/ k = d \/ k \in d + 1..f - 1
  OBVIOUS
<1> SUFFICES ASSUME NEW k \in 1..f - 1 PROVE t[k] \notin {"cr", "lf"}
  BY <1>1
<1>3. CASE k \in 1..a - 1  BY <1>1, <1>3, Kinds DEF Bytes
<1>4. CASE k \in a + 1..b - 1  BY <1>1, <1>4, Kinds DEF Bytes
<1>5. CASE k \in b + 6..d - 1  BY <1>1, <1>5, Kinds DEF Bytes
<1>6. CASE k \in d + 1..f - 1  BY <1>6, Kinds DEF Bytes
<1>7. CASE k = b + 1 \/ k = b + 2 \/ k = b + 3 \/ k = b + 4 \/ k = b + 5
  BY <1>1, <1>7
<1>8. CASE k \in {a, b, d}  BY <1>1, <1>8
<1> QED  BY <1>2, <1>3, <1>4, <1>5, <1>6, <1>7, <1>8

(* No line ends within a header line. *)
LEMMA FieldBytes ==
  ASSUME NEW t \in Seq(Char), NEW i \in Nat, NEW j \in Nat, NEW c \in Nat, FieldAt(t, i, c, j)
  PROVE  i < j /\ t[j] = "cr" /\ \A k \in i..j - 1 : t[k] \notin {"cr", "lf"}
<1>1. /\ i < c /\ Bytes(t, i, c - 1, Token) /\ t[c] = ":"
      /\ c + 1 < j /\ t[c + 1] = "space" /\ Bytes(t, c + 2, j - 1, Visible) /\ t[j] = "cr"
  BY DEF FieldAt
<1>2. \A k \in i..j - 1 : k \in i..c - 1 \/ k = c \/ k = c + 1 \/ k \in c + 2..j - 1
  OBVIOUS
<1> QED  BY <1>1, <1>2, Kinds DEF Bytes

(* No line ends within a line that continues a value. *)
LEMMA FoldBytes ==
  ASSUME NEW t \in Seq(Char), NEW i \in Nat, NEW j \in Nat, NEW u \in Nat, FoldAt(t, i, u, j)
  PROVE  i < j /\ t[j] = "cr" /\ \A k \in i..j - 1 : t[k] \notin {"cr", "lf"}
<1>1. /\ i < u /\ Bytes(t, i, u - 1, Blank)
      /\ u <= j /\ Bytes(t, u, j - 1, Visible) /\ t[j] = "cr"
  BY DEF FoldAt
<1>2. \A k \in i..j - 1 : k \in i..u - 1 \/ k \in u..j - 1
  OBVIOUS
<1> QED  BY <1>1, <1>2, Kinds DEF Bytes

(* A request is what is laid out so. *)
LEMMA LaidIsRequest ==
  ASSUME NEW t \in Seq(Char), Laid(t)
  PROVE  IsRequest(t)
<1> DEFINE n == Len(t)
<1>1. /\ n > 4 /\ t[n - 3] = "cr" /\ t[n - 2] = "lf" /\ t[n] = "lf"
      /\ \A i \in 1..n - 1 : t[i] = "cr" <=> t[i + 1] = "lf"
  BY DEF Laid, InLines, EndsAt
<1>2. PICK a, b, d, f \in 1..n : RequestAt(t, a, b, d, f) /\ LinesAt(t, f)
  BY DEF Laid
<1>3. /\ \A k \in 1..f - 1 : t[k] \notin {"cr", "lf"}
      /\ t[f] = "cr" /\ 1 < f
  <2>1. /\ MajorAt(t, a, b, d) /\ Bytes(t, d + 1, f - 1, is_digit) /\ t[f] = "cr"
        /\ d + 1 < f
    BY <1>2 DEF RequestAt
  <2>2. f \in Nat  OBVIOUS
  <2> QED  BY <2>1, <2>2, RequestBytes
<1>4. f <= n - 3 /\ t[f + 1] = "lf"  BY <1>1, <1>3
<1>5. RequestLine(Line(t, 1))
  <2>1. /\ 1 \in 1..Len(t) /\ f \in 1..Len(t) /\ \A k \in 1..f - 1 : t[k] # "cr"
    BY <1>3
  <2>2. Line(t, 1) = SubSeq(t, 1, f - 1)  BY <1>3, <2>1, LineIs
  <2> QED  BY <1>2, <1>3, <2>2, RequestLineIs
<1>6. First(t, "lf") = f + 1
  <2>1. f + 1 \in 1..Len(t) + 1 /\ \A k \in 1..(f + 1) - 1 : t[k] # "lf"
    BY <1>3
  <2> QED  BY <1>4, <2>1, FirstIs
<1>7. ASSUME NEW i \in Starts(t) \ {1}
      PROVE  \/ FieldLine(Line(t, i))
             \/ FoldedLine(Line(t, i)) /\ First(t, "lf") + 1 # i
  <2>1. i \in 2..n - 3 /\ t[i - 1] = "lf"  BY <1>7 DEF Starts
  <2>2. i >= f + 2
    <3>1. i - 1 > f  BY <2>1, <1>3
    <3> QED  BY <3>1, <2>1
  <2>3. PICK j \in i + 1..n - 3 : LineAt(t, i, j, f)
    BY <1>2, <2>1, <2>2 DEF LinesAt
  <2>4. /\ i \in Nat /\ j \in Nat /\ i \in 1..Len(t) /\ j \in i + 1..Len(t) /\ j \in i..Len(t)
    BY <1>1, <2>1, <2>2
  <2>5. t[j] = "cr" /\ \A k \in i..j - 1 : t[k] \notin {"cr", "lf"}
    <3>1. CASE \E c \in 1..Len(t) : FieldAt(t, i, c, j)
      <4>1. PICK c \in 1..Len(t) : FieldAt(t, i, c, j)  BY <3>1
      <4>2. c \in Nat  OBVIOUS
      <4> QED  BY <2>4, <4>1, <4>2, FieldBytes
    <3>2. CASE \E u \in 1..Len(t) : FoldAt(t, i, u, j)
      <4>1. PICK u \in 1..Len(t) : FoldAt(t, i, u, j)  BY <3>2
      <4>2. u \in Nat  OBVIOUS
      <4> QED  BY <2>4, <4>1, <4>2, FoldBytes
    <3> QED  BY <2>3, <3>1, <3>2 DEF LineAt
  <2>6. Line(t, i) = SubSeq(t, i, j - 1)  BY <2>4, <2>5, LineIs
  <2>7. FieldLine(SubSeq(t, i, j - 1)) <=> \E c \in 1..Len(t) : FieldAt(t, i, c, j)
    BY <2>4, <2>5, FieldLineIs
  <2>8. FoldedLine(SubSeq(t, i, j - 1)) <=> \E u \in 1..Len(t) : FoldAt(t, i, u, j)
    BY <2>4, <2>5, FoldedLineIs
  <2>9. f + 1 + 1 = f + 2  OBVIOUS
  <2> QED  BY <1>6, <2>3, <2>6, <2>7, <2>8, <2>9 DEF LineAt
<1> QED  BY <1>5, <1>7 DEF IsRequest, Laid

(* A request, line by line, has its places. *)
LEMMA RequestIsLaid ==
  ASSUME NEW t \in Seq(Char), IsRequest(t)
  PROVE  Laid(t)
<1> DEFINE n == Len(t)
<1>1. /\ n > 4 /\ t[n - 3] = "cr" /\ t[n - 2] = "lf" /\ t[n] = "lf"
      /\ \A i \in 1..n - 1 : t[i] = "cr" <=> t[i + 1] = "lf"
      /\ \A i \in 1..n - 4 : ~(t[i] = "cr" /\ t[i + 1] = "lf" /\ t[i + 2] = "cr" /\ t[i + 3] = "lf")
  <2>1. \A i \in Nat : i + 2 + 1 = i + 3  OBVIOUS
  <2> QED  BY <2>1 DEF IsRequest, InLines, EndsAt
<1>2. "cr" \in Char /\ n \in Nat  BY DEF Char
<1>3. PICK f \in 1..n - 3 : t[f] = "cr" /\ \A k \in 1..f - 1 : t[k] # "cr"
  <2> DEFINE e == n - 3
  <2>1. 1 \in 1..Len(t) + 1 /\ e \in 1..Len(t) + 1 /\ t[e] = "cr"  BY <1>1
  <2> HIDE DEF e
  <2>2. \E f \in 1..e : (f = e \/ t[f] = "cr") /\ \A k \in 1..f - 1 : t[k] # "cr"
    BY <1>2, <2>1, Split
  <2> QED  BY <2>1, <2>2 DEF e
<1>4. PICK a, b, d \in 1..n : RequestAt(t, a, b, d, f)
  <2>1. 1 \in 1..Len(t) /\ f \in 1..Len(t)  BY <1>1
  <2>2. Line(t, 1) = SubSeq(t, 1, f - 1)  BY <1>3, <2>1, LineIs
  <2> QED  BY <1>3, <2>1, <2>2, RequestLineIs DEF IsRequest
<1>5. First(t, "lf") = f + 1
  <2>1. 1 < f /\ t[1] # "lf"
    <3>1. /\ MajorAt(t, a, b, d) /\ Bytes(t, d + 1, f - 1, is_digit) /\ d + 1 < f
      BY <1>4 DEF RequestAt
    <3>2. f \in Nat  OBVIOUS
    <3> QED  BY <3>1, <3>2, RequestBytes
  <2>2. f + 1 \in 1..Len(t) + 1 /\ t[f + 1] = "lf"  BY <1>1, <1>3
  <2>3. \A k \in 1..(f + 1) - 1 : t[k] # "lf"
    <3> SUFFICES ASSUME NEW k \in 1..f, t[k] = "lf" PROVE FALSE
      OBVIOUS
    <3>1. k - 1 \in 1..n - 1 /\ k - 1 + 1 = k /\ k - 1 \in 1..f - 1  BY <1>1, <2>1
    <3> QED  BY <1>1, <1>3, <3>1
  <2> QED  BY <2>2, <2>3, FirstIs
<1>6. ASSUME NEW i \in f + 2..n - 3, t[i - 1] = "lf"
      PROVE  \E j \in i + 1..n - 3 : LineAt(t, i, j, f)
  <2>1. i \in Starts(t) \ {1}  BY <1>1, <1>6 DEF Starts
  <2>2. PICK j \in i..n - 3 : t[j] = "cr" /\ \A k \in i..j - 1 : t[k] # "cr"
    <3> DEFINE e == n - 3
    <3>1. i \in 1..Len(t) + 1 /\ e \in i..Len(t) + 1 /\ t[e] = "cr"  BY <1>1
    <3> HIDE DEF e
    <3>2. \E j \in i..e : (j = e \/ t[j] = "cr") /\ \A k \in i..j - 1 : t[k] # "cr"
      BY <1>2, <3>1, Split
    <3> QED  BY <3>1, <3>2 DEF e
  <2>3. t[i] # "cr"
    <3>0. i - 2 \in 1..n - 4 /\ i - 2 \in 1..n - 1 /\ i - 2 + 1 = i - 1 /\ i - 2 + 2 = i
          /\ i - 2 + 3 = i + 1 /\ i \in 1..n - 1
      BY <1>1
    <3>1. t[i - 2] = "cr"  BY <1>1, <1>6, <3>0
    <3> QED  BY <1>1, <1>6, <3>0, <3>1
  <2>4. j \in i + 1..n - 3 /\ i \in 1..Len(t) /\ j \in i + 1..Len(t) /\ j \in i..Len(t)
    BY <1>1, <2>2, <2>3
  <2>6. Line(t, i) = SubSeq(t, i, j - 1)  BY <2>2, <2>4, LineIs
  <2>7. FieldLine(SubSeq(t, i, j - 1)) <=> \E c \in 1..Len(t) : FieldAt(t, i, c, j)
    BY <2>2, <2>4, FieldLineIs
  <2>8. FoldedLine(SubSeq(t, i, j - 1)) <=> \E u \in 1..Len(t) : FoldAt(t, i, u, j)
    BY <2>2, <2>4, FoldedLineIs
  <2>9. f + 1 + 1 = f + 2  OBVIOUS
  <2>10. LineAt(t, i, j, f)
    BY <1>5, <2>1, <2>6, <2>7, <2>8, <2>9 DEF LineAt, IsRequest
  <2> QED  BY <2>4, <2>10
<1>7. LinesAt(t, f) /\ f \in 1..n  BY <1>1, <1>6 DEF LinesAt
<1> QED  BY <1>4, <1>7 DEF Laid, IsRequest

-----------------------------------------------------------------------------
(* A line makes of the headers before it what the grammar says.            *)
LEMMA LineBytes ==
  ASSUME NEW t \in Seq(Char), NEW i \in Nat, NEW j \in Nat, NEW from, NEW to,
         LineSays(t, i, j, from, to)
  PROVE  i < j /\ t[j] = "cr" /\ \A k \in i..j - 1 : t[k] \notin {"cr", "lf"}
<1>1. CASE \E c \in 1..Len(t) : FieldAt(t, i, c, j)
  <2>1. PICK c \in 1..Len(t) : FieldAt(t, i, c, j)  BY <1>1
  <2>2. c \in Nat  OBVIOUS
  <2> QED  BY <2>1, <2>2, FieldBytes
<1>2. CASE \E u \in 1..Len(t) : FoldAt(t, i, u, j)
  <2>1. PICK u \in 1..Len(t) : FoldAt(t, i, u, j)  BY <1>2
  <2>2. u \in Nat  OBVIOUS
  <2> QED  BY <2>1, <2>2, FoldBytes
<1> QED  BY <1>1, <1>2 DEF LineSays

(* A line makes of the headers before it what the grammar says it does. *)
LEMMA LineSaysIt ==
  ASSUME NEW t \in Seq(Char), NEW i \in 1..Len(t), NEW j \in 1..Len(t), NEW from, NEW to,
         LineSays(t, i, j, from, to)
  PROVE  WithLine(from, Line(t, i)) = to
<1>1. /\ i < j /\ t[j] = "cr" /\ \A k \in i..j - 1 : t[k] # "cr"
      /\ i \in Nat /\ j \in Nat /\ j \in i..Len(t) /\ j \in i + 1..Len(t)
  <2>1. i \in Nat /\ j \in Nat  OBVIOUS
  <2>2. i < j /\ t[j] = "cr" /\ \A k \in i..j - 1 : t[k] \notin {"cr", "lf"}
    BY <2>1, LineBytes
  <2> QED  BY <2>1, <2>2
<1> DEFINE l == SubSeq(t, i, j - 1)
<1>2. Line(t, i) = l  BY <1>1, LineIs
<1>3. Folded(l) <=> t[i] \in Blank  BY <1>1, FoldedIs
<1>4. CASE \E c \in 1..Len(t) : FieldAt(t, i, c, j) /\ to = Append(from, Field(t, i, c, j))
  <2>1. PICK c \in 1..Len(t) : FieldAt(t, i, c, j) /\ to = Append(from, Field(t, i, c, j))
    BY <1>4
  <2>2. UpTo(l, ":") = SubSeq(t, i, c - 1) /\ Tail(Past(l, ":")) = SubSeq(t, c + 2, j - 1)
    BY <2>1, FieldParts
  <2>3. t[i] \in Token  BY <2>1 DEF FieldAt, Bytes
  <2>4. ~Folded(l)  BY <1>3, <2>3, Kinds
  <2> HIDE DEF l
  <2> QED  BY <1>2, <2>1, <2>2, <2>4 DEF WithLine, Field
<1>5. CASE \E u \in 1..Len(t) : FoldAt(t, i, u, j) /\ to = Continued(from, SubSeq(t, u, j - 1))
  <2>1. PICK u \in 1..Len(t) : FoldAt(t, i, u, j) /\ to = Continued(from, SubSeq(t, u, j - 1))
    BY <1>5
  <2>2. u \in i..j /\ i < u /\ t[u] \notin Blank /\ Bytes(t, i, u - 1, Blank)
    BY <2>1 DEF FoldAt
  <2>3. Unfold(l) = SubSeq(t, u, j - 1)  BY <1>1, <2>2, UnfoldIs
  <2>4. Folded(l)  BY <1>3, <2>2 DEF Bytes
  <2> HIDE DEF l
  <2> QED  BY <1>2, <2>1, <2>3, <2>4 DEF WithLine, Continued
<1> QED  BY <1>4, <1>5 DEF LineSays

(* What the lines make is the only function that the grammar can mean.     *)
LEMMA HeadersAre ==
  ASSUME NEW t \in Seq(Char), NEW g,
         g = [i \in 0..Len(t) |->
                IF i = 0 THEN <<>>
                ELSE IF i \in Starts(t) \ {1} THEN WithLine(g[i - 1], Line(t, i))
                ELSE g[i - 1]]
  PROVE  TheHeaders(t) = g[Len(t)]
<1> DEFINE F(hs) == [i \in 0..Len(t) |->
                       IF i = 0 THEN <<>>
                       ELSE IF i \in Starts(t) \ {1} THEN WithLine(hs[i - 1], Line(t, i))
                       ELSE hs[i - 1]]
           H == CHOOSE hs : hs = F(hs)
<1>1. TheHeaders(t) = H[Len(t)]  BY DEF TheHeaders
<1>2. H = F(H)
  <2>1. g = F(g)  OBVIOUS
  <2> HIDE DEF F
  <2> QED  BY <2>1
<1> HIDE DEF H
<1>3. \A i \in 0..Len(t) : H[i] = g[i]
  <2> DEFINE D == {i \in 0..Len(t) : H[i] # g[i]}
  <2> SUFFICES ASSUME D # {} PROVE FALSE
    OBVIOUS
  <2>1. PICK m \in D : \A k \in D : m <= k
    <3>1. D \subseteq Nat  OBVIOUS
    <3> HIDE DEF D
    <3> QED  BY <3>1, Least
  <2>2. m \in 0..Len(t) /\ H[m] # g[m]  OBVIOUS
  <2>3. H[0] = <<>> /\ g[0] = <<>>
    <3>1. 0 \in 0..Len(t)  OBVIOUS
    <3> QED  BY <1>2, <3>1
  <2>4. m # 0  BY <2>2, <2>3
  <2>5. m - 1 \in 0..Len(t) /\ m - 1 \notin D  BY <2>1, <2>2, <2>4
  <2>6. H[m - 1] = g[m - 1]  BY <2>5
  <2>7. H[m] = IF m \in Starts(t) \ {1} THEN WithLine(H[m - 1], Line(t, m)) ELSE H[m - 1]
    BY <1>2, <2>2, <2>4
  <2>8. g[m] = IF m \in Starts(t) \ {1} THEN WithLine(g[m - 1], Line(t, m)) ELSE g[m - 1]
    BY <2>2, <2>4
  <2> QED  BY <2>2, <2>6, <2>7, <2>8
<1>4. Len(t) \in 0..Len(t)  OBVIOUS
<1> QED  BY <1>1, <1>3, <1>4

(* The request of a text, by the places of its request line. *)
LEMMA TheRequestIs ==
  ASSUME NEW t \in Seq(Char), NEW a \in 1..Len(t), NEW b \in 1..Len(t),
         NEW d \in 1..Len(t), NEW f \in 1..Len(t), RequestAt(t, a, b, d, f),
         Line(t, 1) = SubSeq(t, 1, f - 1)
  PROVE  TheRequest(t) = RequestOf(t, a, b, d, f, TheHeaders(t))
<1> DEFINE l == SubSeq(t, 1, f - 1)
           v == Past(Past(l, "space"), "space")
           m == SubSeq(v, 6, Len(v))
<1>1. /\ UpTo(l, "space") = SubSeq(t, 1, a - 1)
      /\ UpTo(Past(l, "space"), "space") = SubSeq(t, a + 1, b - 1)
      /\ UpTo(m, ".") = SubSeq(t, b + 6, d - 1)
      /\ Past(v, ".") = SubSeq(t, d + 1, f - 1)
  BY RequestLineParts
<1> DEFINE r(x) == LET w == Past(Past(x, "space"), "space") IN
                   [method |-> UpTo(x, "space"), uri |-> UpTo(Past(x, "space"), "space"),
                    major |-> UpTo(SubSeq(w, 6, Len(w)), "."),
                    minor |-> Past(w, "."),
                    headers |-> TheHeaders(t)]
<1>2. TheRequest(t) = r(Line(t, 1))  BY DEF TheRequest
<1>3. r(l) = RequestOf(t, a, b, d, f, TheHeaders(t))
  <2>1. r(l) = [method |-> UpTo(l, "space"), uri |-> UpTo(Past(l, "space"), "space"),
                major |-> UpTo(m, "."), minor |-> Past(v, "."), headers |-> TheHeaders(t)]
    OBVIOUS
  <2> HIDE DEF l, v, m, r
  <2> QED  BY <1>1, <2>1 DEF RequestOf, Req
<1> HIDE DEF r
<1> QED  BY <1>2, <1>3

(* A whole request, whose lines end at s. *)
LEMMA EndIs ==
  ASSUME NEW t \in Seq(Char), NEW a \in 1..Len(t), NEW b \in 1..Len(t),
         NEW d \in 1..Len(t), NEW f \in 1..Len(t), NEW s \in 1..Len(t) + 1, NEW h, NEW is,
         NEW req, HeadersAt(t, req, a, b, d, f, s, h, is), AtTheEnd(t, s, h[s - 1], is)
  PROVE  Laid(t) /\ TheRequest(t) = req
<1>0. /\ RequestAt(t, a, b, d, f) /\ Whole(t, f, s, h) /\ req = RequestOf(t, a, b, d, f, is)
      /\ s + 1 = Len(t) /\ t[s] = "cr" /\ t[s + 1] = "lf" /\ is = h[s - 1]
  BY DEF HeadersAt, AtTheEnd
<1> USE <1>0
<1> DEFINE n == Len(t)
<1>1. /\ \A k \in 1..f - 1 : t[k] \notin {"cr", "lf"}
      /\ t[f] = "cr" /\ 1 < f
  <2>1. /\ MajorAt(t, a, b, d) /\ Bytes(t, d + 1, f - 1, is_digit) /\ t[f] = "cr"
        /\ d + 1 < f
    BY DEF RequestAt
  <2>2. f \in Nat  OBVIOUS
  <2>3. \A k \in 1..f - 1 : t[k] \notin {"cr", "lf"}  BY <2>1, <2>2, RequestBytes
  <2> QED  BY <2>1, <2>3
<1>2. /\ f + 2 <= s /\ t[s - 1] = "lf" /\ s = n - 1
      /\ \A i \in 1..s - 2 : t[i] = "cr" <=> t[i + 1] = "lf"
      /\ \A i \in f + 2..s - 1 :
           IF t[i - 1] = "lf"
           THEN \E j \in i + 1..s - 2 : LineSays(t, i, j, h[i - 1], h[i])
           ELSE h[i] = h[i - 1]
      /\ \A i \in 0..f + 1 : h[i] = <<>>
  <2>1. s = n - 1  OBVIOUS
  <2>2. Whole(t, f, s, h)  OBVIOUS
  <2> HIDE DEF n
  <2> QED  BY <2>1, <2>2 DEF Whole
<1>3. \A i \in 1..n - 1 : t[i] = "cr" <=> t[i + 1] = "lf"
  <2> SUFFICES ASSUME NEW i \in 1..n - 1 PROVE t[i] = "cr" <=> t[i + 1] = "lf"
    OBVIOUS
  <2>1. CASE i \in 1..s - 2  BY <1>2, <2>1
  <2>2. CASE i = s - 1
    <3>1. i + 1 = s  BY <2>2
    <3> QED  BY <1>2, <2>2, <3>1
  <2>3. CASE i = s
    BY <2>3
  <2>4. i \in 1..s - 2 \/ i = s - 1 \/ i = s
    <3>1. s = n - 1 /\ n \in Nat  BY <1>2
    <3> HIDE DEF n
    <3> QED  BY <3>1
  <2> QED  BY <2>1, <2>2, <2>3, <2>4
<1>4. \A i \in f + 2..s - 1 : t[i - 1] = "lf" => t[i] # "cr" /\ i \in 1..n - 4
  <2> SUFFICES ASSUME NEW i \in f + 2..s - 1, t[i - 1] = "lf"
               PROVE  t[i] # "cr" /\ i \in 1..n - 4
    OBVIOUS
  <2>1. PICK j \in i + 1..s - 2 : LineSays(t, i, j, h[i - 1], h[i])  BY <1>2
  <2>2. i \in Nat /\ j \in Nat /\ i \in i..j - 1  OBVIOUS
  <2>3. \A k \in i..j - 1 : t[k] \notin {"cr", "lf"}  BY <2>1, <2>2, LineBytes
  <2>4. t[i] # "cr"  BY <2>2, <2>3
  <2>5. s = n - 1 /\ i \in f + 2..s - 1 /\ j \in i + 1..s - 2 /\ f \in Nat /\ n \in Nat
    BY <1>2
  <2>6. i \in 1..n - 4
    <3> HIDE DEF n
    <3> QED  BY <2>5
  <2> QED  BY <2>4, <2>6
<1>5. InLines(t)
  <2>1. n > 4 /\ n - 3 + 1 = n - 2 /\ n - 1 + 1 = n /\ n - 3 \in 1..n - 1 /\ n - 2 = s - 1
        /\ n = s + 1
    BY <1>1, <1>2
  <2>2. EndsAt(t, n - 3)  BY <1>2, <1>3, <2>1 DEF EndsAt
  <2>3. EndsAt(t, n - 1)  BY <1>2, <2>1 DEF EndsAt
  <2>4. ASSUME NEW i \in 1..n - 4, EndsAt(t, i), EndsAt(t, i + 2) PROVE FALSE
    <3>1. t[i] = "cr" /\ t[i + 1] = "lf" /\ t[i + 2] = "cr"  BY <2>4 DEF EndsAt
    <3>2. i >= f  BY <1>1, <3>1
    <3>3. i + 2 \in f + 2..s - 1 /\ i + 2 - 1 = i + 1  BY <1>2, <3>2
    <3> QED  BY <1>4, <3>1, <3>3
  <2> QED  BY <1>3, <2>1, <2>2, <2>3, <2>4 DEF InLines
<1>6. LinesAt(t, f)
  <2> SUFFICES ASSUME NEW i \in f + 2..n - 3, t[i - 1] = "lf"
               PROVE  \E j \in i + 1..n - 3 : LineAt(t, i, j, f)
    BY DEF LinesAt
  <2>1. i \in f + 2..s - 1  BY <1>2
  <2>2. PICK j \in i + 1..s - 2 : LineSays(t, i, j, h[i - 1], h[i])  BY <1>2, <2>1
  <2>3. j \in i + 1..n - 3  BY <1>2
  <2>4. i = f + 2 => h[i - 1] = <<>>
    <3>1. i = f + 2 => i - 1 \in 0..f + 1  OBVIOUS
    <3> QED  BY <1>2, <3>1
  <2>5. LineAt(t, i, j, f)  BY <2>2, <2>4 DEF LineAt, LineSays
  <2> QED  BY <2>3, <2>5
<1>7. Laid(t)  BY <1>5, <1>6 DEF Laid
<1>8. TheHeaders(t) = h[s - 1]
  <2> DEFINE g == [i \in 0..Len(t) |-> IF i <= s - 1 THEN h[i] ELSE h[s - 1]]
             v(i) == IF i = 0 THEN <<>>
                     ELSE IF i \in Starts(t) \ {1} THEN WithLine(g[i - 1], Line(t, i))
                     ELSE g[i - 1]
  <2>1. ASSUME NEW i \in 0..Len(t) PROVE g[i] = v(i)
    <3>1. i > 0 => i - 1 \in 0..Len(t)  OBVIOUS
    <3>2. CASE i = 0
      <4>1. g[0] = h[0]  BY <1>2
      <4>2. 0 \in 0..f + 1  OBVIOUS
      <4> QED  BY <1>2, <3>2, <4>1, <4>2
    <3>3. CASE i > 0 /\ i <= f + 1
      <4>1. i \notin Starts(t) \ {1}
        <5>1. i - 1 > 0 => t[i - 1] # "lf"
          <6>1. i - 1 > 0 => i - 1 = f \/ i - 1 \in 1..f - 1  BY <3>3
          <6> QED  BY <1>1, <6>1
        <5> QED  BY <5>1 DEF Starts
      <4>2. i \in 0..f + 1 /\ i - 1 \in 0..f + 1 /\ i <= s - 1 /\ i - 1 <= s - 1
        BY <1>2, <3>3
      <4>3. g[i] = h[i] /\ g[i - 1] = h[i - 1]  BY <3>1, <3>3, <4>2
      <4> HIDE DEF g
      <4> QED  BY <1>2, <3>3, <4>1, <4>2, <4>3
    <3>4. CASE i \in f + 2..s - 1
      <4>1. g[i] = h[i] /\ g[i - 1] = h[i - 1]  BY <3>1, <3>4
      <4>2. CASE t[i - 1] = "lf"
        <5>1. PICK j \in i + 1..s - 2 : LineSays(t, i, j, h[i - 1], h[i])
          BY <1>2, <3>4, <4>2
        <5>2. i \in 1..Len(t) /\ j \in 1..Len(t)  BY <3>4, <1>2
        <5>3. WithLine(h[i - 1], Line(t, i)) = h[i]  BY <5>1, <5>2, LineSaysIt
        <5>4. i \in Starts(t) \ {1}
          <6>1. i \in 1..Len(t) - 4 /\ i # 1  BY <1>1, <1>4, <3>4, <4>2
          <6>2. i \in 2..Len(t) - 3  BY <6>1
          <6> QED  BY <4>2, <6>1, <6>2 DEF Starts
        <5>5. i # 0  BY <3>4
        <5> HIDE DEF g
        <5> QED  BY <4>1, <5>3, <5>4, <5>5
      <4>3. CASE t[i - 1] # "lf"
        <5>1. i \notin Starts(t) \ {1}  BY <4>3 DEF Starts
        <5>2. h[i] = h[i - 1] /\ i # 0  BY <1>2, <3>4, <4>3
        <5> HIDE DEF g
        <5> QED  BY <4>1, <5>1, <5>2
      <4> QED  BY <4>2, <4>3
    <3>5. CASE i >= s
      <4>1. i \notin Starts(t) \ {1} /\ i # 0  BY <1>2, <3>5 DEF Starts
      <4>2. g[i] = h[s - 1]  BY <3>5
      <4>3. g[i - 1] = h[s - 1]
        <5>1. i - 1 <= s - 1 => i - 1 = s - 1  BY <3>5
        <5> QED  BY <3>1, <4>1, <5>1
      <4> HIDE DEF g
      <4> QED  BY <4>1, <4>2, <4>3
    <3>6. i = 0 \/ (i > 0 /\ i <= f + 1) \/ i \in f + 2..s - 1 \/ i >= s
      OBVIOUS
    <3> QED  BY <3>2, <3>3, <3>4, <3>5, <3>6
  <2>2. g = [i \in 0..Len(t) |-> v(i)]
    <3> HIDE DEF v
    <3> QED  BY <2>1
  <2>3. g[Len(t)] = h[s - 1]  BY <1>2
  <2> HIDE DEF g
  <2>4. TheHeaders(t) = g[Len(t)]  BY <2>2, HeadersAre
  <2> QED  BY <2>3, <2>4
<1>9. Line(t, 1) = SubSeq(t, 1, f - 1)
  <2>1. 1 \in 1..Len(t) /\ f \in 1..Len(t) /\ \A k \in 1..f - 1 : t[k] # "cr"
    BY <1>1
  <2> QED  BY <1>1, <2>1, LineIs
<1>10. TheRequest(t) = RequestOf(t, a, b, d, f, h[s - 1])
  BY <1>8, <1>9, TheRequestIs
<1> QED  BY <1>7, <1>10

-----------------------------------------------------------------------------
(* x begins with t.  What is said of places within t holds of x too.       *)
Extends(x, t) == Len(t) <= Len(x) /\ \A k \in 1..Len(t) : x[k] = t[k]

(* A text and the same text with one more byte. *)
LEMMA Grown ==
  ASSUME NEW t \in Seq(Char), NEW c \in Char
  PROVE  LET y == Append(t, c) IN
         /\ y \in Seq(Char) /\ Len(y) = Len(t) + 1 /\ Extends(y, t)
         /\ y[Len(t) + 1] = c /\ \A k \in 1..Len(t) : y[k] = t[k]
BY DEF Extends

(* A part of a text is the same part of a longer one. *)
LEMMA SamePart ==
  ASSUME NEW t \in Seq(Char), NEW x \in Seq(Char), Extends(x, t),
         NEW i \in 1..Len(t) + 1, NEW j \in i - 1..Len(t)
  PROVE  SubSeq(x, i, j) = SubSeq(t, i, j)
<1>1. i \in 1..Len(x) + 1 /\ j \in i - 1..Len(x)  BY DEF Extends
<1> DEFINE p == SubSeq(x, i, j)
           q == SubSeq(t, i, j)
           n == j - i + 1
<1>2. p \in Seq(Char) /\ Len(p) = n /\ \A k \in 1..n : p[k] = x[i + k - 1]
  BY <1>1, Part
<1>3. q \in Seq(Char) /\ Len(q) = n /\ \A k \in 1..n : q[k] = t[i + k - 1]
  BY Part
<1>4. \A k \in 1..n : i + k - 1 \in 1..Len(t)  OBVIOUS
<1>5. \A k \in 1..n : p[k] = q[k]  BY <1>2, <1>3, <1>4 DEF Extends
<1> HIDE DEF p, q, n
<1> QED  BY <1>2, <1>3, <1>5, SeqEqual DEF p, q

(* The part up to the end grows with the text. *)
LEMMA LongerPart ==
  ASSUME NEW t \in Seq(Char), NEW c \in Char, NEW i \in 1..Len(t) + 1
  PROVE  SubSeq(Append(t, c), i, Len(t) + 1) = Append(SubSeq(t, i, Len(t)), c)
<1> DEFINE y == Append(t, c)
           q == SubSeq(t, i, Len(t))
           p == SubSeq(y, i, Len(t) + 1)
           n == Len(t) - i + 1
<1>1. y \in Seq(Char) /\ Len(y) = Len(t) + 1 /\ y[Len(t) + 1] = c
      /\ \A k \in 1..Len(t) : y[k] = t[k]
  BY Grown
<1>2. q \in Seq(Char) /\ Len(q) = n /\ \A k \in 1..n : q[k] = t[i + k - 1]
  <2>1. Len(t) \in i - 1..Len(t)  OBVIOUS
  <2> QED  BY <2>1, Part
<1>3. p \in Seq(Char) /\ Len(p) = n + 1 /\ \A k \in 1..n + 1 : p[k] = y[i + k - 1]
  <2> DEFINE m == Len(t) + 1
  <2>1. i \in 1..Len(y) + 1 /\ m \in i - 1..Len(y) /\ m - i + 1 = n + 1  BY <1>1
  <2> HIDE DEF y, m, n
  <2>2. /\ SubSeq(y, i, m) \in Seq(Char) /\ Len(SubSeq(y, i, m)) = m - i + 1
        /\ \A k \in 1..m - i + 1 : SubSeq(y, i, m)[k] = y[i + k - 1]
    BY <1>1, <2>1, Part
  <2> QED  BY <2>1, <2>2 DEF m
<1>4. \A k \in 1..n + 1 : Append(q, c)[k] = IF k = n + 1 THEN c ELSE q[k]
  BY <1>2
<1>5. Append(q, c) \in Seq(Char) /\ Len(Append(q, c)) = n + 1  BY <1>2
<1>6. \A k \in 1..n + 1 : p[k] = Append(q, c)[k]
  <2> SUFFICES ASSUME NEW k \in 1..n + 1 PROVE p[k] = Append(q, c)[k]
    OBVIOUS
  <2>1. CASE k = n + 1
    <3>1. i + k - 1 = Len(t) + 1  BY <2>1
    <3> QED  BY <1>1, <1>3, <1>4, <2>1, <3>1
  <2>2. CASE k \in 1..n
    <3>1. i + k - 1 \in 1..Len(t) /\ k # n + 1  BY <2>2
    <3> QED  BY <1>1, <1>2, <1>3, <1>4, <2>2, <3>1
  <2> QED  BY <2>1, <2>2
<1> HIDE DEF p, q, y
<1> QED  BY <1>3, <1>5, <1>6, SeqEqual DEF p, q, y

(* Each of the shapes is the same in a longer text: bytes of a kind, *)
LEMMA SameBytes ==
  ASSUME NEW t \in Seq(Char), NEW x \in Seq(Char), Extends(x, t),
         NEW i \in Nat, i >= 1, NEW j \in Int, j <= Len(t), NEW S
  PROVE  Bytes(x, i, j, S) <=> Bytes(t, i, j, S)
<1>1. \A k \in i..j : k \in 1..Len(t)  OBVIOUS
<1> QED  BY <1>1 DEF Bytes, Extends

(* the bytes in front of a version, *)
LEMMA SameName ==
  ASSUME NEW t \in Seq(Char), NEW x \in Seq(Char), Extends(x, t),
         NEW b \in 1..Len(t), NEW k \in 0..5, b + k <= Len(t)
  PROVE  NameAt(x, b, k) <=> NameAt(t, b, k)
<1>1. /\ k >= 1 => b + 1 \in 1..Len(t)
      /\ k >= 2 => b + 2 \in 1..Len(t)
      /\ k >= 3 => b + 3 \in 1..Len(t)
      /\ k >= 4 => b + 4 \in 1..Len(t)
      /\ k >= 5 => b + 5 \in 1..Len(t)
  OBVIOUS
<1> QED  BY <1>1 DEF NameAt, Extends

(* a method, *)
LEMMA SameMethod ==
  ASSUME NEW t \in Seq(Char), NEW x \in Seq(Char), Extends(x, t), NEW a \in 1..Len(t)
  PROVE  MethodAt(x, a) <=> MethodAt(t, a)
<1>1. Bytes(x, 1, a - 1, Token) <=> Bytes(t, 1, a - 1, Token)
  <2>1. 1 \in Nat /\ 1 >= 1 /\ a - 1 \in Int /\ a - 1 <= Len(t)  OBVIOUS
  <2> QED  BY <2>1, SameBytes
<1> QED  BY <1>1 DEF MethodAt, Extends

(* a uri, *)
LEMMA SameUri ==
  ASSUME NEW t \in Seq(Char), NEW x \in Seq(Char), Extends(x, t),
         NEW a \in 1..Len(t), NEW b \in 1..Len(t)
  PROVE  UriAt(x, a, b) <=> UriAt(t, a, b)
<1>1. Bytes(x, a + 1, b - 1, UriByte) <=> Bytes(t, a + 1, b - 1, UriByte)
  <2>1. a + 1 \in Nat /\ a + 1 >= 1 /\ b - 1 \in Int /\ b - 1 <= Len(t)  OBVIOUS
  <2> QED  BY <2>1, SameBytes
<1>2. MethodAt(x, a) <=> MethodAt(t, a)  BY SameMethod
<1> QED  BY <1>1, <1>2 DEF UriAt, Extends

(* a version up to its point, *)
LEMMA SameMajor ==
  ASSUME NEW t \in Seq(Char), NEW x \in Seq(Char), Extends(x, t),
         NEW a \in 1..Len(t), NEW b \in 1..Len(t), NEW d \in 1..Len(t)
  PROVE  MajorAt(x, a, b, d) <=> MajorAt(t, a, b, d)
<1>1. Bytes(x, b + 6, d - 1, is_digit) <=> Bytes(t, b + 6, d - 1, is_digit)
  <2>1. b + 6 \in Nat /\ b + 6 >= 1 /\ d - 1 \in Int /\ d - 1 <= Len(t)  OBVIOUS
  <2> QED  BY <2>1, SameBytes
<1>2. UriAt(x, a, b) <=> UriAt(t, a, b)  BY SameUri
<1>3. b + 6 < d => (NameAt(x, b, 5) <=> NameAt(t, b, 5))
  <2>1. b + 6 < d => 5 \in 0..5 /\ b + 5 <= Len(t)  OBVIOUS
  <2> QED  BY <2>1, SameName
<1> QED  BY <1>1, <1>2, <1>3 DEF MajorAt, Extends

(* a request line, *)
LEMMA SameRequest ==
  ASSUME NEW t \in Seq(Char), NEW x \in Seq(Char), Extends(x, t), NEW a \in 1..Len(t),
         NEW b \in 1..Len(t), NEW d \in 1..Len(t), NEW f \in 1..Len(t)
  PROVE  RequestAt(x, a, b, d, f) <=> RequestAt(t, a, b, d, f)
<1>1. Bytes(x, d + 1, f - 1, is_digit) <=> Bytes(t, d + 1, f - 1, is_digit)
  <2>1. d + 1 \in Nat /\ d + 1 >= 1 /\ f - 1 \in Int /\ f - 1 <= Len(t)  OBVIOUS
  <2> QED  BY <2>1, SameBytes
<1>2. MajorAt(x, a, b, d) <=> MajorAt(t, a, b, d)  BY SameMajor
<1> QED  BY <1>1, <1>2 DEF RequestAt, Extends

(* what a request line says, *)
LEMMA SameRequestOf ==
  ASSUME NEW t \in Seq(Char), NEW x \in Seq(Char), Extends(x, t), NEW a \in 1..Len(t),
         NEW b \in 1..Len(t), NEW d \in 1..Len(t), NEW f \in 1..Len(t),
         RequestAt(t, a, b, d, f), NEW hs
  PROVE  RequestOf(x, a, b, d, f, hs) = RequestOf(t, a, b, d, f, hs)
<1>1. 1 < a /\ a < b /\ b + 6 < d /\ d + 1 < f
  BY DEF RequestAt, MajorAt, UriAt, MethodAt
<1>2. SubSeq(x, 1, a - 1) = SubSeq(t, 1, a - 1)
  <2>1. 1 \in 1..Len(t) + 1 /\ a - 1 \in 1 - 1..Len(t)  OBVIOUS
  <2> QED  BY <2>1, SamePart
<1>3. SubSeq(x, a + 1, b - 1) = SubSeq(t, a + 1, b - 1)
  <2>1. a + 1 \in 1..Len(t) + 1 /\ b - 1 \in (a + 1) - 1..Len(t)  BY <1>1
  <2> QED  BY <2>1, SamePart
<1>4. SubSeq(x, b + 6, d - 1) = SubSeq(t, b + 6, d - 1)
  <2>1. b + 6 \in 1..Len(t) + 1 /\ d - 1 \in (b + 6) - 1..Len(t)  BY <1>1
  <2> QED  BY <2>1, SamePart
<1>5. SubSeq(x, d + 1, f - 1) = SubSeq(t, d + 1, f - 1)
  <2>1. d + 1 \in 1..Len(t) + 1 /\ f - 1 \in (d + 1) - 1..Len(t)  BY <1>1
  <2> QED  BY <2>1, SamePart
<1> QED  BY <1>2, <1>3, <1>4, <1>5 DEF RequestOf

(* a header line, *)
LEMMA SameLine ==
  ASSUME NEW t \in Seq(Char), NEW x \in Seq(Char), Extends(x, t),
         NEW i \in 1..Len(t), NEW j \in 1..Len(t), NEW from, NEW to,
         LineSays(t, i, j, from, to)
  PROVE  LineSays(x, i, j, from, to)
<1>0. \A k \in 1..Len(t) : k \in 1..Len(x)  BY DEF Extends
<1>1. CASE \E c \in 1..Len(t) : FieldAt(t, i, c, j) /\ to = Append(from, Field(t, i, c, j))
  <2>1. PICK c \in 1..Len(t) : FieldAt(t, i, c, j) /\ to = Append(from, Field(t, i, c, j))
    BY <1>1
  <2>2. i < c /\ c + 1 < j  BY <2>1 DEF FieldAt
  <2>3. Bytes(x, i, c - 1, Token) <=> Bytes(t, i, c - 1, Token)
    <3>1. i \in Nat /\ i >= 1 /\ c - 1 \in Int /\ c - 1 <= Len(t)  OBVIOUS
    <3> QED  BY <3>1, SameBytes
  <2>4. Bytes(x, c + 2, j - 1, Visible) <=> Bytes(t, c + 2, j - 1, Visible)
    <3>1. c + 2 \in Nat /\ c + 2 >= 1 /\ j - 1 \in Int /\ j - 1 <= Len(t)  OBVIOUS
    <3> QED  BY <3>1, SameBytes
  <2>5. c + 1 \in 1..Len(t)  BY <2>2
  <2>6. FieldAt(x, i, c, j)  BY <2>1, <2>3, <2>4, <2>5 DEF FieldAt, Extends
  <2>7. SubSeq(x, i, c - 1) = SubSeq(t, i, c - 1)
    <3>1. i \in 1..Len(t) + 1 /\ c - 1 \in i - 1..Len(t)  BY <2>2
    <3> QED  BY <3>1, SamePart
  <2>8. SubSeq(x, c + 2, j - 1) = SubSeq(t, c + 2, j - 1)
    <3>1. c + 2 \in 1..Len(t) + 1 /\ j - 1 \in (c + 2) - 1..Len(t)  BY <2>2
    <3> QED  BY <3>1, SamePart
  <2>9. Field(x, i, c, j) = Field(t, i, c, j)  BY <2>7, <2>8 DEF Field
  <2>10. c \in 1..Len(x)  BY <1>0
  <2> QED  BY <2>1, <2>6, <2>9, <2>10 DEF LineSays
<1>2. CASE /\ from # <<>>
           /\ \E u \in 1..Len(t) :
                FoldAt(t, i, u, j) /\ to = Continued(from, SubSeq(t, u, j - 1))
  <2>1. PICK u \in 1..Len(t) : FoldAt(t, i, u, j) /\ to = Continued(from, SubSeq(t, u, j - 1))
    BY <1>2
  <2>2. i < u /\ u <= j  BY <2>1 DEF FoldAt
  <2>3. Bytes(x, i, u - 1, Blank) <=> Bytes(t, i, u - 1, Blank)
    <3>1. i \in Nat /\ i >= 1 /\ u - 1 \in Int /\ u - 1 <= Len(t)  OBVIOUS
    <3> QED  BY <3>1, SameBytes
  <2>4. Bytes(x, u, j - 1, Visible) <=> Bytes(t, u, j - 1, Visible)
    <3>1. u \in Nat /\ u >= 1 /\ j - 1 \in Int /\ j - 1 <= Len(t)  OBVIOUS
    <3> QED  BY <3>1, SameBytes
  <2>5. FoldAt(x, i, u, j)  BY <2>1, <2>3, <2>4 DEF FoldAt, Extends
  <2>6. SubSeq(x, u, j - 1) = SubSeq(t, u, j - 1)
    <3>1. u \in 1..Len(t) + 1 /\ j - 1 \in u - 1..Len(t)  BY <2>2
    <3> QED  BY <3>1, SamePart
  <2>7. u \in 1..Len(x)  BY <1>0
  <2> QED  BY <1>2, <2>1, <2>5, <2>6, <2>7 DEF LineSays
<1> QED  BY <1>1, <1>2 DEF LineSays

(* and header lines up to a place. *)
LEMMA SameLines ==
  ASSUME NEW t \in Seq(Char), NEW x \in Seq(Char), Extends(x, t),
         NEW f \in 1..Len(t), NEW s \in 1..Len(t) + 1, NEW h, Whole(t, f, s, h)
  PROVE  Whole(x, f, s, h)
<1>1. /\ f + 2 <= s /\ s <= Len(t) + 1 /\ t[s - 1] = "lf"
      /\ \A i \in 1..s - 2 : t[i] = "cr" <=> t[i + 1] = "lf"
      /\ \A i \in f + 2..s - 1 :
           IF t[i - 1] = "lf"
           THEN \E j \in i + 1..s - 2 : LineSays(t, i, j, h[i - 1], h[i])
           ELSE h[i] = h[i - 1]
      /\ \A i \in 0..f + 1 : h[i] = <<>>
      /\ \A i \in f + 2..s - 1 : h[i] # <<>>
  BY DEF Whole
<1>2. s - 1 \in 1..Len(t) /\ s <= Len(x) + 1  BY <1>1 DEF Extends
<1>3. \A k \in 1..Len(t) : x[k] = t[k]  BY DEF Extends
<1>4. \A i \in 1..s - 2 : x[i] = "cr" <=> x[i + 1] = "lf"
  <2>1. \A i \in 1..s - 2 : i \in 1..Len(t) /\ i + 1 \in 1..Len(t)  OBVIOUS
  <2> QED  BY <1>1, <1>3, <2>1
<1>5. ASSUME NEW i \in f + 2..s - 1
      PROVE  IF x[i - 1] = "lf"
             THEN \E j \in i + 1..s - 2 : LineSays(x, i, j, h[i - 1], h[i])
             ELSE h[i] = h[i - 1]
  <2>1. i - 1 \in 1..Len(t) /\ i \in 1..Len(t)  OBVIOUS
  <2>2. CASE t[i - 1] = "lf"
    <3>1. PICK j \in i + 1..s - 2 : LineSays(t, i, j, h[i - 1], h[i])  BY <1>1, <2>2
    <3>2. j \in 1..Len(t)  OBVIOUS
    <3>3. LineSays(x, i, j, h[i - 1], h[i])  BY <2>1, <3>1, <3>2, SameLine
    <3> QED  BY <1>3, <2>1, <2>2, <3>3
  <2>3. CASE t[i - 1] # "lf"
    BY <1>1, <1>3, <2>1, <2>3
  <2> QED  BY <2>2, <2>3
<1> QED  BY <1>1, <1>2, <1>3, <1>4, <1>5 DEF Whole

-----------------------------------------------------------------------------
(* A byte more in the name or the value of the last header.                *)
AddName(hs, c) == [hs EXCEPT ![Len(hs)].name = Append(@, c)]
AddValue(hs, c) == [hs EXCEPT ![Len(hs)].value = Append(@, c)]

(* A header is its name and its value. *)
LEMMA HeaderIs ==
  ASSUME NEW r \in Header, NEW x \in Seq(Char)
  PROVE  /\ r.name \in Seq(Char) /\ r.value \in Seq(Char)
         /\ r = [name |-> r.name, value |-> r.value]
         /\ [r EXCEPT !.name = x] = [name |-> x, value |-> r.value]
         /\ [r EXCEPT !.value = x] = [name |-> r.name, value |-> x]
<1>1. r.name \in Seq(Char) /\ r.value \in Seq(Char)
      /\ r = [name |-> r.name, value |-> r.value]
  BY DEF Header
<1> DEFINE u == [r EXCEPT !.name = x]
           v == [r EXCEPT !.value = x]
<1>2. u \in Header /\ u.name = x /\ u.value = r.value  BY DEF Header
<1>3. v \in Header /\ v.value = x /\ v.name = r.name  BY DEF Header
<1> HIDE DEF u, v
<1>4. \A y \in Header : y = [name |-> y.name, value |-> y.value]  BY DEF Header
<1>5. u = [name |-> x, value |-> r.value]  BY <1>2, <1>4
<1>6. v = [name |-> r.name, value |-> x]  BY <1>3, <1>4
<1> QED  BY <1>1, <1>5, <1>6 DEF u, v

(* Headers, and one more. *)
LEMMA MoreHeaders ==
  ASSUME NEW hs \in Seq(Header), NEW r \in Header
  PROVE  Append(hs, r) \in Seq(Header)
OBVIOUS

(* A byte for the name or the value of a header just appended. *)
LEMMA LastGrows ==
  ASSUME NEW hs \in Seq(Header), NEW n \in Seq(Char), NEW v \in Seq(Char), NEW c \in Char
  PROVE  /\ AddName(Append(hs, [name |-> n, value |-> v]), c)
              = Append(hs, [name |-> Append(n, c), value |-> v])
         /\ AddValue(Append(hs, [name |-> n, value |-> v]), c)
              = Append(hs, [name |-> n, value |-> Append(v, c)])
<1> DEFINE r == [name |-> n, value |-> v]
           p == [name |-> Append(n, c), value |-> v]
           q == [name |-> n, value |-> Append(v, c)]
           g == Append(hs, r)
           m == Len(hs) + 1
<1>1. r \in Header /\ p \in Header /\ q \in Header  BY DEF Header
<1>2. /\ [r EXCEPT !.name = Append(@, c)] = p
      /\ [r EXCEPT !.value = Append(@, c)] = q
  <2>1. r.name = n /\ r.value = v /\ Append(n, c) \in Seq(Char) /\ Append(v, c) \in Seq(Char)
    OBVIOUS
  <2> HIDE DEF r
  <2> QED  BY <1>1, <2>1, HeaderIs
<1> HIDE DEF r, p, q
<1>3. g \in Seq(Header) /\ Len(g) = m /\ g[m] = r /\ \A k \in 1..Len(hs) : g[k] = hs[k]
  BY <1>1
<1>4. ASSUME NEW z \in Header
      PROVE  [g EXCEPT ![m] = z] = Append(hs, z)
  <2> DEFINE u == [g EXCEPT ![m] = z]
             w == Append(hs, z)
  <2>1. w \in Seq(Header) /\ Len(w) = m /\ w[m] = z /\ \A k \in 1..Len(hs) : w[k] = hs[k]
    OBVIOUS
  <2>2. u \in Seq(Header) /\ Len(u) = m  BY <1>3
  <2>3. \A k \in 1..m : u[k] = IF k = m THEN z ELSE g[k]
    <3>1. DOMAIN g = 1..m  BY <1>3
    <3> HIDE DEF g, m
    <3> QED  BY <3>1
  <2>4. \A k \in 1..m : k = m \/ k \in 1..Len(hs)  OBVIOUS
  <2>5. \A k \in 1..m : u[k] = w[k]  BY <1>3, <2>1, <2>3, <2>4
  <2> HIDE DEF u, w, g, m
  <2>6. u = w  BY <2>1, <2>2, <2>5, SeqEqual
  <2> QED  BY <2>6 DEF u, w
<1>5. AddName(g, c) = [g EXCEPT ![m] = [g[m] EXCEPT !.name = Append(@, c)]]
  <2> HIDE DEF g, m
  <2> QED  BY <1>3 DEF AddName
<1>6. AddValue(g, c) = [g EXCEPT ![m] = [g[m] EXCEPT !.value = Append(@, c)]]
  <2> HIDE DEF g, m
  <2> QED  BY <1>3 DEF AddValue
<1> HIDE DEF g, m
<1>7. AddName(g, c) = Append(hs, p) /\ AddValue(g, c) = Append(hs, q)
  BY <1>1, <1>2, <1>3, <1>4, <1>5, <1>6
<1> QED  BY <1>7 DEF g, r, p, q

(* A byte for a value that is being continued. *)
LEMMA ContinuedGrows ==
  ASSUME NEW hs \in Seq(Header), hs # <<>>, NEW v \in Seq(Char), NEW c \in Char
  PROVE  /\ Continued(hs, <<>>) = hs
         /\ Continued(hs, v) \in Seq(Header) /\ Len(Continued(hs, v)) = Len(hs)
         /\ AddValue(Continued(hs, v), c) = Continued(hs, Append(v, c))
<1> DEFINE m == Len(hs)
           r == hs[m]
           w(x) == [r EXCEPT !.value = @ \o x]
           g == Continued(hs, v)
<1>1. m \in 1..Len(hs) /\ r \in Header  BY EmptySeq
<1>2. r.name \in Seq(Char) /\ r.value \in Seq(Char)  BY <1>1 DEF Header
<1>3. \A x \in Seq(Char) : w(x) = [name |-> r.name, value |-> r.value \o x] /\ w(x) \in Header
  <2> HIDE DEF r
  <2> SUFFICES ASSUME NEW x \in Seq(Char)
               PROVE  w(x) = [name |-> r.name, value |-> r.value \o x] /\ w(x) \in Header
    OBVIOUS
  <2>1. r.value \o x \in Seq(Char)  BY <1>2
  <2>2. w(x) = [name |-> r.name, value |-> r.value \o x]  BY <1>1, <2>1, HeaderIs
  <2> HIDE DEF w
  <2> QED  BY <1>2, <2>1, <2>2 DEF Header
<1>4. \A x : Continued(hs, x) = [hs EXCEPT ![m] = w(x)]  BY DEF Continued
<1>5. <<>> \in Seq(Char) /\ Append(v, c) \in Seq(Char)  OBVIOUS
<1>6. w(<<>>) = r
  <2>1. r.value \o <<>> = r.value  BY <1>2
  <2>2. r = [name |-> r.name, value |-> r.value]  BY <1>1 DEF Header
  <2> HIDE DEF r, w
  <2> QED  BY <1>3, <1>5, <2>1, <2>2
<1>7. [w(v) EXCEPT !.value = Append(@, c)] = w(Append(v, c))
  <2>1. Append(r.value \o v, c) = r.value \o Append(v, c)
    <3> DEFINE o == r.value
    <3>1. o \in Seq(Char) /\ <<c>> \in Seq(Char) /\ o \o v \in Seq(Char)  BY <1>2
    <3> HIDE DEF r, o
    <3>2. Append(o \o v, c) = (o \o v) \o <<c>> /\ Append(v, c) = v \o <<c>>
      BY <3>1, AppendIsConcat
    <3>3. (o \o v) \o <<c>> = o \o (v \o <<c>>)  BY <3>1, ConcatAssociative
    <3> QED  BY <3>2, <3>3 DEF o
  <2> HIDE DEF r, w
  <2>2. w(v) = [name |-> r.name, value |-> r.value \o v]  BY <1>3
  <2>3. w(Append(v, c)) = [name |-> r.name, value |-> r.value \o Append(v, c)]
    BY <1>3, <1>5
  <2> DEFINE z == w(v)
             n == Append(z.value, c)
  <2>4. z \in Header /\ z.name = r.name /\ z.value = r.value \o v
    <3>1. w(v) \in Header  BY <1>3
    <3> HIDE DEF n
    <3> QED  BY <2>2, <3>1
  <2>5. n \in Seq(Char)
    <3> HIDE DEF z
    <3>1. z.value \in Seq(Char)  BY <2>4, HeaderIs
    <3> DEFINE k == z.value
    <3> HIDE DEF k
    <3>2. k \in Seq(Char)  BY <3>1 DEF k
    <3>3. Append(k, c) \in Seq(Char)  BY <3>2
    <3> QED  BY <3>3 DEF k
  <2>6. [z EXCEPT !.value = n] = [name |-> z.name, value |-> n]
    <3> HIDE DEF z, n
    <3> QED  BY <2>4, <2>5, HeaderIs
  <2> HIDE DEF z
  <2>7. [z EXCEPT !.value = Append(@, c)] = w(Append(v, c))
    BY <2>1, <2>3, <2>4, <2>6
  <2> QED  BY <2>7 DEF z
<1> HIDE DEF w, r
<1>8. Continued(hs, <<>>) = hs
  <2>1. [hs EXCEPT ![m] = hs[m]] = hs  BY <1>1
  <2> QED  BY <1>4, <1>6, <2>1 DEF r
<1>9. /\ g \in Seq(Header) /\ Len(g) = m
      /\ g[m] = w(v) /\ \A k \in 1..m : k # m => g[k] = hs[k]
  <2>1. w(v) \in Header  BY <1>3
  <2>2. g = [hs EXCEPT ![m] = w(v)]  BY <1>4
  <2> HIDE DEF g
  <2> QED  BY <1>1, <2>1, <2>2
<1>10. AddValue(g, c) = Continued(hs, Append(v, c))
  <2>1. AddValue(g, c) = [g EXCEPT ![m] = [g[m] EXCEPT !.value = Append(@, c)]]
    <3> HIDE DEF g, m
    <3> QED  BY <1>9 DEF AddValue
  <2>2. AddValue(g, c) = [g EXCEPT ![m] = w(Append(v, c))]  BY <1>7, <1>9, <2>1
  <2>3. w(Append(v, c)) \in Header  BY <1>3, <1>5
  <2>4. g = [hs EXCEPT ![m] = w(v)]  BY <1>4
  <2>5. [g EXCEPT ![m] = w(Append(v, c))] = [hs EXCEPT ![m] = w(Append(v, c))]
    <3> HIDE DEF g, m
    <3> QED  BY <2>4
  <2> HIDE DEF g, m
  <2> QED  BY <1>4, <2>2, <2>5
<1> HIDE DEF g
<1> QED  BY <1>8, <1>9, <1>10 DEF g

-----------------------------------------------------------------------------
(* Where a byte leads from each state, and what it adds.                   *)
LEMMA GotoTable ==
  ASSUME NEW c \in Char, NEW req \in Request
  PROVE
    /\ Goto("method_start", c, req) = IF c \in Token THEN "method" ELSE "bad"
    /\ Goto("method", c, req) =
         IF c = "space" THEN "uri" ELSE IF c \in Token THEN "method" ELSE "bad"
    /\ Goto("uri", c, req) =
         IF c = "space" THEN "http_version_h" ELSE IF c \in UriByte THEN "uri" ELSE "bad"
    /\ Goto("http_version_h", c, req) = IF c = "H" THEN "http_version_t_1" ELSE "bad"
    /\ Goto("http_version_t_1", c, req) = IF c = "T" THEN "http_version_t_2" ELSE "bad"
    /\ Goto("http_version_t_2", c, req) = IF c = "T" THEN "http_version_p" ELSE "bad"
    /\ Goto("http_version_p", c, req) = IF c = "P" THEN "http_version_slash" ELSE "bad"
    /\ Goto("http_version_slash", c, req) =
         IF c = "/" THEN "http_version_major_start" ELSE "bad"
    /\ Goto("http_version_major_start", c, req) =
         IF c \in is_digit THEN "http_version_major" ELSE "bad"
    /\ Goto("http_version_major", c, req) =
         IF c = "." THEN "http_version_minor_start"
         ELSE IF c \in is_digit THEN "http_version_major" ELSE "bad"
    /\ Goto("http_version_minor_start", c, req) =
         IF c \in is_digit THEN "http_version_minor" ELSE "bad"
    /\ Goto("http_version_minor", c, req) =
         IF c = "cr" THEN "expecting_newline_1"
         ELSE IF c \in is_digit THEN "http_version_minor" ELSE "bad"
    /\ Goto("expecting_newline_1", c, req) = IF c = "lf" THEN "header_line_start" ELSE "bad"
    /\ Goto("header_line_start", c, req) =
         IF c = "cr" THEN "expecting_newline_3"
         ELSE IF c \in Blank /\ req.headers # <<>> THEN "header_lws"
         ELSE IF c \in Token THEN "header_name" ELSE "bad"
    /\ Goto("header_lws", c, req) =
         IF c = "cr" THEN "expecting_newline_2"
         ELSE IF c \in Blank THEN "header_lws"
         ELSE IF c \in Visible THEN "header_value" ELSE "bad"
    /\ Goto("header_name", c, req) =
         IF c = ":" THEN "space_before_header_value"
         ELSE IF c \in Token THEN "header_name" ELSE "bad"
    /\ Goto("space_before_header_value", c, req) =
         IF c = "space" THEN "header_value" ELSE "bad"
    /\ Goto("header_value", c, req) =
         IF c = "cr" THEN "expecting_newline_2"
         ELSE IF c \in Visible THEN "header_value" ELSE "bad"
    /\ Goto("expecting_newline_2", c, req) = IF c = "lf" THEN "header_line_start" ELSE "bad"
    /\ Goto("expecting_newline_3", c, req) = IF c = "lf" THEN "good" ELSE "bad"
<1>1. /\ c \notin is_ctl \cup {"space"} <=> c \in UriByte
      /\ c \notin is_ctl <=> c \in Visible
      /\ c \notin is_ctl \cup Blank <=> c \in Visible /\ c \notin Blank
  BY DEF UriByte, Visible
<1>2. /\ "space" \notin Token /\ ":" \notin Token /\ "cr" \notin Token
      /\ "." \notin is_digit /\ "cr" \notin is_digit
      /\ "cr" \notin Blank /\ "cr" \notin Visible /\ "space" \notin UriByte
      /\ c \in Token => c \notin Blank
  BY Kinds DEF is_digit
<1>3. Goto("method_start", c, req) = IF c \in Token THEN "method" ELSE "bad"
  BY DEF Goto
<1>4. Goto("method", c, req) =
        IF c = "space" THEN "uri" ELSE IF c \in Token THEN "method" ELSE "bad"
  BY <1>2 DEF Goto
<1>5. Goto("uri", c, req) =
        IF c = "space" THEN "http_version_h" ELSE IF c \in UriByte THEN "uri" ELSE "bad"
  BY <1>1, <1>2 DEF Goto
<1>6. /\ Goto("http_version_h", c, req) = IF c = "H" THEN "http_version_t_1" ELSE "bad"
      /\ Goto("http_version_t_1", c, req) = IF c = "T" THEN "http_version_t_2" ELSE "bad"
      /\ Goto("http_version_t_2", c, req) = IF c = "T" THEN "http_version_p" ELSE "bad"
  BY DEF Goto
<1>7. /\ Goto("http_version_p", c, req) = IF c = "P" THEN "http_version_slash" ELSE "bad"
      /\ Goto("http_version_slash", c, req) =
           IF c = "/" THEN "http_version_major_start" ELSE "bad"
      /\ Goto("http_version_major_start", c, req) =
           IF c \in is_digit THEN "http_version_major" ELSE "bad"
  BY DEF Goto
<1>8. /\ Goto("http_version_major", c, req) =
           IF c = "." THEN "http_version_minor_start"
           ELSE IF c \in is_digit THEN "http_version_major" ELSE "bad"
      /\ Goto("http_version_minor_start", c, req) =
           IF c \in is_digit THEN "http_version_minor" ELSE "bad"
      /\ Goto("http_version_minor", c, req) =
           IF c = "cr" THEN "expecting_newline_1"
           ELSE IF c \in is_digit THEN "http_version_minor" ELSE "bad"
  BY <1>2 DEF Goto
<1>9. /\ Goto("expecting_newline_1", c, req) = IF c = "lf" THEN "header_line_start" ELSE "bad"
      /\ Goto("expecting_newline_2", c, req) = IF c = "lf" THEN "header_line_start" ELSE "bad"
      /\ Goto("expecting_newline_3", c, req) = IF c = "lf" THEN "good" ELSE "bad"
  BY DEF Goto, End
<1>10. Goto("header_line_start", c, req) =
         IF c = "cr" THEN "expecting_newline_3"
         ELSE IF c \in Blank /\ req.headers # <<>> THEN "header_lws"
         ELSE IF c \in Token THEN "header_name" ELSE "bad"
  BY <1>2 DEF Goto, Continues
<1>11. Goto("header_lws", c, req) =
         IF c = "cr" THEN "expecting_newline_2"
         ELSE IF c \in Blank THEN "header_lws"
         ELSE IF c \in Visible THEN "header_value" ELSE "bad"
  BY <1>1, <1>2 DEF Goto
<1>12. Goto("header_name", c, req) =
         IF c = ":" THEN "space_before_header_value"
         ELSE IF c \in Token THEN "header_name" ELSE "bad"
  BY <1>2 DEF Goto
<1>13. Goto("space_before_header_value", c, req) =
         IF c = "space" THEN "header_value" ELSE "bad"
  BY DEF Goto
<1>14. Goto("header_value", c, req) =
         IF c = "cr" THEN "expecting_newline_2"
         ELSE IF c \in Visible THEN "header_value" ELSE "bad"
  BY <1>1, <1>2 DEF Goto
<1> QED
  BY <1>3, <1>4, <1>5, <1>6, <1>7, <1>8, <1>9, <1>10, <1>11, <1>12, <1>13, <1>14, Zenon

(* What is stored, for each state the parser comes to. *)
LEMMA StoreTable ==
  ASSUME NEW c \in Char, NEW req \in Request
  PROVE
    /\ \A s : Store(req, s, c, "method") = [req EXCEPT !.method = Append(@, c)]
    /\ Store(req, "uri", c, "uri") = [req EXCEPT !.uri = Append(@, c)]
    /\ Store(req, "method", c, "uri") = req
    /\ \A s : Store(req, s, c, "http_version_major") = [req EXCEPT !.major = Append(@, c)]
    /\ \A s : Store(req, s, c, "http_version_minor") = [req EXCEPT !.minor = Append(@, c)]
    /\ Store(req, "header_line_start", c, "header_name") =
         [req EXCEPT !.headers = Append(@, [name |-> <<c>>, value |-> <<>>])]
    /\ Store(req, "header_name", c, "header_name") = AddToName(req, c)
    /\ Store(req, "header_lws", c, "header_value") = AddToValue(req, c)
    /\ Store(req, "header_value", c, "header_value") = AddToValue(req, c)
    /\ Store(req, "space_before_header_value", c, "header_value") = req
    /\ \A s, to : to \notin {"method", "uri", "http_version_major", "http_version_minor",
                             "header_name", "header_value"}
                    => Store(req, s, c, to) = req
<1>1. /\ \A s : Store(req, s, c, "method") = [req EXCEPT !.method = Append(@, c)]
      /\ Store(req, "uri", c, "uri") = [req EXCEPT !.uri = Append(@, c)]
      /\ Store(req, "method", c, "uri") = req
  BY DEF Store
<1>2. /\ \A s : Store(req, s, c, "http_version_major") = [req EXCEPT !.major = Append(@, c)]
      /\ \A s : Store(req, s, c, "http_version_minor") = [req EXCEPT !.minor = Append(@, c)]
  BY DEF Store
<1>3. /\ Store(req, "header_line_start", c, "header_name") =
           [req EXCEPT !.headers = Append(@, [name |-> <<c>>, value |-> <<>>])]
      /\ Store(req, "header_name", c, "header_name") = AddToName(req, c)
  BY DEF Store
<1>4. /\ Store(req, "header_lws", c, "header_value") = AddToValue(req, c)
      /\ Store(req, "header_value", c, "header_value") = AddToValue(req, c)
      /\ Store(req, "space_before_header_value", c, "header_value") = req
  BY DEF Store, IsValue
<1>5. \A s, to : to \notin {"method", "uri", "http_version_major", "http_version_minor",
                            "header_name", "header_value"}
                   => Store(req, s, c, to) = req
  BY DEF Store
<1> QED  BY <1>1, <1>2, <1>3, <1>4, <1>5, Zenon

(* A request is its five fields. *)
LEMMA ReqIs ==
  ASSUME NEW req \in Request, NEW m \in Seq(Char), NEW is \in Seq(Header)
  PROVE  /\ req = Req(req.method, req.uri, req.major, req.minor, req.headers)
         /\ [req EXCEPT !.method = m] = Req(m, req.uri, req.major, req.minor, req.headers)
         /\ [req EXCEPT !.uri = m] = Req(req.method, m, req.major, req.minor, req.headers)
         /\ [req EXCEPT !.major = m] = Req(req.method, req.uri, m, req.minor, req.headers)
         /\ [req EXCEPT !.minor = m] = Req(req.method, req.uri, req.major, m, req.headers)
         /\ [req EXCEPT !.headers = is] = Req(req.method, req.uri, req.major, req.minor, is)
<1>1. \A q \in Request : q = Req(q.method, q.uri, q.major, q.minor, q.headers)
  BY DEF Req, Request
<1>2. [req EXCEPT !.method = m] = Req(m, req.uri, req.major, req.minor, req.headers)
  <2> DEFINE q == [req EXCEPT !.method = m]
  <2>1. q \in Request
    BY DEF Request
  <2>2. /\ q.method = m /\ q.uri = req.uri
        /\ q.major = req.major /\ q.minor = req.minor /\ q.headers = req.headers
    BY DEF Request
  <2> HIDE DEF q
  <2>3. q = Req(m, req.uri, req.major, req.minor, req.headers)  BY <1>1, <2>1, <2>2
  <2> QED  BY <2>3 DEF q
<1>3. [req EXCEPT !.uri = m] = Req(req.method, m, req.major, req.minor, req.headers)
  <2> DEFINE q == [req EXCEPT !.uri = m]
  <2>1. q \in Request
    BY DEF Request
  <2>2. /\ q.method = req.method /\ q.uri = m
        /\ q.major = req.major /\ q.minor = req.minor /\ q.headers = req.headers
    BY DEF Request
  <2> HIDE DEF q
  <2>3. q = Req(req.method, m, req.major, req.minor, req.headers)  BY <1>1, <2>1, <2>2
  <2> QED  BY <2>3 DEF q
<1>4. [req EXCEPT !.major = m] = Req(req.method, req.uri, m, req.minor, req.headers)
  <2> DEFINE q == [req EXCEPT !.major = m]
  <2>1. q \in Request
    BY DEF Request
  <2>2. /\ q.method = req.method /\ q.uri = req.uri
        /\ q.major = m /\ q.minor = req.minor /\ q.headers = req.headers
    BY DEF Request
  <2> HIDE DEF q
  <2>3. q = Req(req.method, req.uri, m, req.minor, req.headers)  BY <1>1, <2>1, <2>2
  <2> QED  BY <2>3 DEF q
<1>5. [req EXCEPT !.minor = m] = Req(req.method, req.uri, req.major, m, req.headers)
  <2> DEFINE q == [req EXCEPT !.minor = m]
  <2>1. q \in Request
    BY DEF Request
  <2>2. /\ q.method = req.method /\ q.uri = req.uri
        /\ q.major = req.major /\ q.minor = m /\ q.headers = req.headers
    BY DEF Request
  <2> HIDE DEF q
  <2>3. q = Req(req.method, req.uri, req.major, m, req.headers)  BY <1>1, <2>1, <2>2
  <2> QED  BY <2>3 DEF q
<1>6. [req EXCEPT !.headers = is] = Req(req.method, req.uri, req.major, req.minor, is)
  <2> DEFINE q == [req EXCEPT !.headers = is]
  <2>1. q \in Request
    BY DEF Request
  <2>2. /\ q.method = req.method /\ q.uri = req.uri
        /\ q.major = req.major /\ q.minor = req.minor /\ q.headers = is
    BY DEF Request
  <2> HIDE DEF q
  <2>3. q = Req(req.method, req.uri, req.major, req.minor, is)  BY <1>1, <2>1, <2>2
  <2> QED  BY <2>3 DEF q
<1> QED  BY <1>1, <1>2, <1>3, <1>4, <1>5, <1>6, Zenon

(* A byte more in a part of the request. *)
LEMMA PartGrows ==
  ASSUME NEW r \in Request, NEW c \in Char
  PROVE  /\ [r EXCEPT !.method = Append(@, c)]
              = Req(Append(r.method, c), r.uri, r.major, r.minor, r.headers)
         /\ [r EXCEPT !.uri = Append(@, c)]
              = Req(r.method, Append(r.uri, c), r.major, r.minor, r.headers)
         /\ [r EXCEPT !.major = Append(@, c)]
              = Req(r.method, r.uri, Append(r.major, c), r.minor, r.headers)
         /\ [r EXCEPT !.minor = Append(@, c)]
              = Req(r.method, r.uri, r.major, Append(r.minor, c), r.headers)
<1>1. /\ r.method \in Seq(Char) /\ r.uri \in Seq(Char) /\ r.major \in Seq(Char)
      /\ r.minor \in Seq(Char) /\ <<>> \in Seq(Header)
  BY DEF Request
<1>2. [r EXCEPT !.method = Append(@, c)]
       = Req(Append(r.method, c), r.uri, r.major, r.minor, r.headers)
  <2> DEFINE z == Append(r.method, c)
  <2>1. z \in Seq(Char)  BY <1>1
  <2> HIDE DEF z
  <2>2. [r EXCEPT !.method = z]
         = Req(z, r.uri, r.major, r.minor, r.headers)  BY <1>1, <2>1, ReqIs
  <2> QED  BY <2>2 DEF z
<1>3. [r EXCEPT !.uri = Append(@, c)]
       = Req(r.method, Append(r.uri, c), r.major, r.minor, r.headers)
  <2> DEFINE z == Append(r.uri, c)
  <2>1. z \in Seq(Char)  BY <1>1
  <2> HIDE DEF z
  <2>2. [r EXCEPT !.uri = z]
         = Req(r.method, z, r.major, r.minor, r.headers)  BY <1>1, <2>1, ReqIs
  <2> QED  BY <2>2 DEF z
<1>4. [r EXCEPT !.major = Append(@, c)]
       = Req(r.method, r.uri, Append(r.major, c), r.minor, r.headers)
  <2> DEFINE z == Append(r.major, c)
  <2>1. z \in Seq(Char)  BY <1>1
  <2> HIDE DEF z
  <2>2. [r EXCEPT !.major = z]
         = Req(r.method, r.uri, z, r.minor, r.headers)  BY <1>1, <2>1, ReqIs
  <2> QED  BY <2>2 DEF z
<1>5. [r EXCEPT !.minor = Append(@, c)]
       = Req(r.method, r.uri, r.major, Append(r.minor, c), r.headers)
  <2> DEFINE z == Append(r.minor, c)
  <2>1. z \in Seq(Char)  BY <1>1
  <2> HIDE DEF z
  <2>2. [r EXCEPT !.minor = z]
         = Req(r.method, r.uri, r.major, z, r.headers)  BY <1>1, <2>1, ReqIs
  <2> QED  BY <2>2 DEF z
<1> QED  BY <1>2, <1>3, <1>4, <1>5

(* The fields of a request put together. *)
LEMMA ReqParts ==
  ASSUME NEW m, NEW u, NEW x, NEW y, NEW hs
  PROVE  /\ Req(m, u, x, y, hs).method = m /\ Req(m, u, x, y, hs).uri = u
         /\ Req(m, u, x, y, hs).major = x /\ Req(m, u, x, y, hs).minor = y
         /\ Req(m, u, x, y, hs).headers = hs
BY DEF Req

-----------------------------------------------------------------------------
(* A byte that is not bad takes what was parsed to what is parsed then.    *)
Moves(st, t, c, req) ==
  Goto(st, c, req) # "bad" =>
    Parsed(Goto(st, c, req), Append(t, c), Store(req, st, c, Goto(st, c, req)))

(* The empty text, and the whole one. *)
LEMMA Nothing ==
  /\ <<>> \in Seq(Char) /\ <<>> \in Seq(Header)
  /\ \A t \in Seq(Char) : \A i \in Nat, j \in Int : j < i => SubSeq(t, i, j) = <<>>
  /\ \A t \in Seq(Char) : SubSeq(t, 1, Len(t)) = t
<1>1. \A t \in Seq(Char) : SubSeq(t, 1, Len(t)) = t  BY SubSeqFull
<1>2. \A t \in Seq(Char) : \A i \in Nat, j \in Int : j < i => SubSeq(t, i, j) = <<>>
  BY SubSeqEmpty
<1> QED  BY <1>1, <1>2

(* From each state of the request line, any byte keeps what was parsed true. *)
LEMMA FromStart ==
  ASSUME NEW t \in Seq(Char), NEW c \in Char, NEW req \in Request, AtStart(t, req)
  PROVE  Moves("method_start", t, c, req)
<1> DEFINE y == Append(t, c)
<1> SUFFICES ASSUME c \in Token
             PROVE  Parsed("method", y, Store(req, "method_start", c, "method"))
  BY GotoTable DEF Moves
<1>1. t = <<>> /\ req = Req(<<>>, <<>>, <<>>, <<>>, <<>>)
  BY DEF AtStart, NoRequest, Req
<1>2. Store(req, "method_start", c, "method") = Req(y, <<>>, <<>>, <<>>, <<>>)
  <2>1. /\ req.method = <<>> /\ req.uri = <<>> /\ req.major = <<>> /\ req.minor = <<>>
        /\ req.headers = <<>>
    BY <1>1, ReqParts
  <2>2. Store(req, "method_start", c, "method") = [req EXCEPT !.method = Append(@, c)]
    BY StoreTable
  <2>3. [req EXCEPT !.method = Append(@, c)]
          = Req(Append(req.method, c), req.uri, req.major, req.minor, req.headers)
    BY PartGrows
  <2> QED  BY <1>1, <2>1, <2>2, <2>3
<1>3. Len(y) = 1 /\ y[1] = c /\ y # <<>>  BY <1>1
<1>4. InMethod(y, Req(y, <<>>, <<>>, <<>>, <<>>))
  <2> HIDE DEF y
  <2> QED  BY <1>3 DEF InMethod, Bytes
<1> HIDE DEF y
<1> QED  BY <1>2, <1>4 DEF Parsed, HeaderState

(* In the method: another byte of it, or the space after it. *)
LEMMA FromMethod ==
  ASSUME NEW t \in Seq(Char), NEW c \in Char, NEW req \in Request, InMethod(t, req)
  PROVE  Moves("method", t, c, req)
<1> DEFINE y == Append(t, c)
           n == Len(t)
<1>0. n \in Nat /\ y \in Seq(Char) /\ Len(y) = n + 1 /\ y[n + 1] = c /\ \A k \in 1..n : y[k] = t[k]
  BY Grown
<1>1. t # <<>> /\ Bytes(t, 1, n, Token) /\ req = Req(t, <<>>, <<>>, <<>>, <<>>) /\ n > 0
  BY EmptySeq DEF InMethod
<1>2. Bytes(y, 1, n, Token)  BY <1>0, <1>1 DEF Bytes
<1>3. CASE c = "space"
  <2>1. MethodAt(y, n + 1)
    <3>1. 1 < n + 1 /\ n + 1 - 1 = n  BY <1>1
    <3> HIDE DEF y, n
    <3> QED  BY <1>0, <1>2, <1>3, <3>1 DEF MethodAt
  <2>2. Bytes(y, n + 1 + 1, Len(y), UriByte)  BY <1>0 DEF Bytes
  <2>3. SubSeq(y, 1, n + 1 - 1) = t
    <3>1. Extends(y, t) /\ 1 \in 1..n + 1 /\ n \in 1 - 1..n /\ n + 1 - 1 = n
      BY Grown
    <3>2. SubSeq(y, 1, n) = SubSeq(t, 1, n)
      <4> HIDE DEF y
      <4> QED  BY <1>0, <3>1, SamePart
    <3> QED  BY <3>1, <3>2, Nothing
  <2>4. SubSeq(y, n + 1 + 1, Len(y)) = <<>>
    <3>1. n + 1 + 1 \in Nat /\ Len(y) \in Int /\ Len(y) < n + 1 + 1  BY <1>0
    <3> HIDE DEF y, n
    <3> QED  BY <1>0, <3>1, Nothing
  <2>5. n + 1 \in 1..Len(y)  BY <1>0
  <2>6. InUri(y, req)
    <3> DEFINE a == n + 1
    <3>1. a \in 1..Len(y)  BY <2>5
    <3>2. MethodAt(y, a)  BY <2>1
    <3>3. Bytes(y, a + 1, Len(y), UriByte)  BY <2>2
    <3>4. req = Req(SubSeq(y, 1, a - 1), SubSeq(y, a + 1, Len(y)), <<>>, <<>>, <<>>)
      <4>1. req = Req(SubSeq(y, 1, n + 1 - 1), SubSeq(y, n + 1 + 1, Len(y)), <<>>, <<>>, <<>>)
        BY <1>1, <2>3, <2>4, Zenon
      <4>2. a - 1 = n + 1 - 1 /\ a + 1 = n + 1 + 1  OBVIOUS
      <4> HIDE DEF y, a, n
      <4> QED  BY <4>1, <4>2
    <3> HIDE DEF y, a
    <3> QED  BY <3>1, <3>2, <3>3, <3>4 DEF InUri
  <2>7. Goto("method", c, req) = "uri"  BY <1>3, GotoTable
  <2>8. Store(req, "method", c, "uri") = req  BY DEF Store
  <2> HIDE DEF y
  <2> QED  BY <2>6, <2>7, <2>8 DEF Moves, Parsed, HeaderState, y
<1>4. CASE c \in Token
  <2>1. InMethod(y, Req(y, <<>>, <<>>, <<>>, <<>>))
    <3>1. \A k \in 1..n + 1 : k \in 1..n \/ k = n + 1  OBVIOUS
    <3> HIDE DEF y
    <3>2. Bytes(y, 1, Len(y), Token)  BY <1>0, <1>2, <1>4, <3>1 DEF Bytes
    <3>3. y # <<>>  BY <1>0, EmptySeq
    <3> QED  BY <3>2, <3>3 DEF InMethod
  <2>2. [req EXCEPT !.method = Append(@, c)] = Req(y, <<>>, <<>>, <<>>, <<>>)
    <3>1. /\ req.method = t /\ req.uri = <<>> /\ req.major = <<>> /\ req.minor = <<>>
          /\ req.headers = <<>>
      BY <1>1, ReqParts
    <3>2. [req EXCEPT !.method = Append(@, c)]
            = Req(Append(req.method, c), req.uri, req.major, req.minor, req.headers)
      BY PartGrows
    <3> QED  BY <3>1, <3>2
  <2>3. Goto("method", c, req) = "method"  BY <1>4, Kinds, GotoTable
  <2>4. Store(req, "method", c, "method") = Req(y, <<>>, <<>>, <<>>, <<>>)
    <3>1. Store(req, "method", c, "method") = [req EXCEPT !.method = Append(@, c)]
      BY DEF Store
    <3> QED  BY <2>2, <3>1
  <2> HIDE DEF y
  <2> QED  BY <2>1, <2>3, <2>4 DEF Moves, Parsed, HeaderState, y
<1>5. CASE c # "space" /\ c \notin Token
  BY <1>5, GotoTable DEF Moves
<1> QED  BY <1>3, <1>4, <1>5

(* In the uri: another byte of it, or the space after it. *)
LEMMA FromUri ==
  ASSUME NEW t \in Seq(Char), NEW c \in Char, NEW req \in Request, InUri(t, req)
  PROVE  Moves("uri", t, c, req)
<1> DEFINE y == Append(t, c)
           n == Len(t)
<1>0. n \in Nat /\ y \in Seq(Char) /\ Len(y) = n + 1 /\ y[n + 1] = c /\ Extends(y, t)
      /\ \A k \in 1..n : y[k] = t[k]
  BY Grown
<1>1. PICK a \in 1..n :
        /\ MethodAt(t, a) /\ Bytes(t, a + 1, n, UriByte)
        /\ req = Req(SubSeq(t, 1, a - 1), SubSeq(t, a + 1, n), <<>>, <<>>, <<>>)
  BY DEF InUri
<1> DEFINE m == SubSeq(t, 1, a - 1)
           u == SubSeq(t, a + 1, n)
<1>2. /\ 1 \in 1..n + 1 /\ a - 1 \in 1 - 1..n /\ a + 1 \in 1..n + 1 /\ n \in (a + 1) - 1..n
  OBVIOUS
<1>3. SubSeq(y, 1, a - 1) = m /\ SubSeq(y, a + 1, n) = u
      /\ SubSeq(y, a + 1, n + 1) = Append(u, c) /\ m \in Seq(Char) /\ u \in Seq(Char)
  <2>1. SubSeq(y, 1, a - 1) = m
    <3> HIDE DEF y
    <3> QED  BY <1>0, <1>2, SamePart
  <2>2. SubSeq(y, a + 1, n) = u
    <3> HIDE DEF y
    <3> QED  BY <1>0, <1>2, SamePart
  <2>3. SubSeq(y, a + 1, n + 1) = Append(u, c)  BY <1>2, LongerPart
  <2>4. m \in Seq(Char)  BY <1>2, Part
  <2>5. u \in Seq(Char)  BY <1>2, Part
  <2> QED  BY <2>1, <2>2, <2>3, <2>4, <2>5
<1>4. MethodAt(y, a) /\ a \in 1..n + 1
  <2> HIDE DEF y
  <2> QED  BY <1>0, <1>1, SameMethod
<1>5. Bytes(y, a + 1, n, UriByte)
  <2>1. \A k \in a + 1..n : k \in 1..n  OBVIOUS
  <2> QED  BY <1>0, <1>1, <2>1 DEF Bytes
<1>6. CASE c = "space"
  <2>1. UriAt(y, a, n + 1)
    <3>1. n + 1 - 1 = n /\ a < n + 1  OBVIOUS
    <3> HIDE DEF y, n
    <3> QED  BY <1>0, <1>4, <1>5, <1>6, <3>1 DEF UriAt
  <2>2. NameAt(y, n + 1, 0)  BY DEF NameAt
  <2>3. n + 1 \in 1..n + 1 /\ n + 1 = n + 1 + 0 /\ n + 1 - 1 = n  OBVIOUS
  <2>4. InName(y, req, 0)
    <3>1. req = Req(SubSeq(y, 1, a - 1), SubSeq(y, a + 1, n + 1 - 1), <<>>, <<>>, <<>>)
      BY <1>1, <1>3, <2>3
    <3> DEFINE b == n + 1
    <3>2. /\ a \in 1..Len(y) /\ b \in 1..Len(y) /\ UriAt(y, a, b) /\ Len(y) = b + 0
          /\ NameAt(y, b, 0)
          /\ req = Req(SubSeq(y, 1, a - 1), SubSeq(y, a + 1, b - 1), <<>>, <<>>, <<>>)
      BY <1>0, <1>4, <2>1, <2>2, <2>3, <3>1
    <3> HIDE DEF y, b
    <3> QED  BY <3>2 DEF InName
  <2>5. Goto("uri", c, req) = "http_version_h"  BY <1>6, GotoTable
  <2>6. Store(req, "uri", c, "http_version_h") = req  BY DEF Store
  <2> HIDE DEF y
  <2> QED  BY <2>4, <2>5, <2>6 DEF Moves, Parsed, HeaderState, y
<1>7. CASE c \in UriByte
  <2>1. Bytes(y, a + 1, n + 1, UriByte)
    <3>1. \A k \in a + 1..n + 1 : k \in a + 1..n \/ k = n + 1  OBVIOUS
    <3> HIDE DEF y
    <3> QED  BY <1>0, <1>5, <1>7, <3>1 DEF Bytes
  <2>2. [req EXCEPT !.uri = Append(@, c)] = Req(m, Append(u, c), <<>>, <<>>, <<>>)
    <3>1. /\ req.method = m /\ req.uri = u /\ req.major = <<>> /\ req.minor = <<>>
          /\ req.headers = <<>>
      <4> HIDE DEF m, u
      <4>1. req = Req(m, u, <<>>, <<>>, <<>>)  BY <1>1 DEF m, u
      <4> QED  BY <4>1, ReqParts
    <3>2. [req EXCEPT !.uri = Append(@, c)]
            = Req(req.method, Append(req.uri, c), req.major, req.minor, req.headers)
      BY PartGrows
    <3> HIDE DEF m, u
    <3> QED  BY <3>1, <3>2
  <2>3. InUri(y, Req(m, Append(u, c), <<>>, <<>>, <<>>))
    <3> HIDE DEF y, m, u
    <3> QED  BY <1>0, <1>3, <1>4, <2>1 DEF InUri
  <2>4. Goto("uri", c, req) = "uri"  BY <1>7, GotoTable DEF UriByte
  <2>5. Store(req, "uri", c, "uri") = Req(m, Append(u, c), <<>>, <<>>, <<>>)
    BY <2>2, StoreTable
  <2> HIDE DEF y, m, u
  <2> QED  BY <2>3, <2>4, <2>5 DEF Moves, Parsed, HeaderState, y
<1>8. CASE c # "space" /\ c \notin UriByte
  BY <1>8, GotoTable DEF Moves
<1> QED  BY <1>6, <1>7, <1>8

(* The bytes of "HTTP/". *)
LEMMA NameMoves ==
  ASSUME NEW t \in Seq(Char), NEW c \in Char, NEW req, NEW k \in 0..4, InName(t, req, k),
         k = 0 => c = "H", k = 1 => c = "T", k = 2 => c = "T", k = 3 => c = "P", k = 4 => c = "/"
  PROVE  InName(Append(t, c), req, k + 1)
<1> DEFINE y == Append(t, c)
           n == Len(t)
<1>0. n \in Nat /\ y \in Seq(Char) /\ Len(y) = n + 1 /\ y[n + 1] = c /\ Extends(y, t)
  BY Grown
<1>1. PICK a, b \in 1..n :
        /\ UriAt(t, a, b) /\ n = b + k /\ NameAt(t, b, k)
        /\ req = Req(SubSeq(t, 1, a - 1), SubSeq(t, a + 1, b - 1), <<>>, <<>>, <<>>)
  BY DEF InName
<1> HIDE DEF y
<1>2. UriAt(y, a, b)  BY <1>0, <1>1, SameUri
<1>3. NameAt(y, b, k)
  <2>1. k \in 0..5 /\ b + k <= Len(t)  BY <1>1
  <2> QED  BY <1>0, <1>1, <2>1, SameName
<1>4. NameAt(y, b, k + 1)
  <2>1. y[b + k + 1] = c  BY <1>0, <1>1
  <2>2. k = 0 \/ k = 1 \/ k = 2 \/ k = 3 \/ k = 4  OBVIOUS
  <2> QED  BY <1>3, <2>1, <2>2 DEF NameAt
<1>5. SubSeq(y, 1, a - 1) = SubSeq(t, 1, a - 1)
  <2>1. 1 \in 1..Len(t) + 1 /\ a - 1 \in 1 - 1..Len(t)  OBVIOUS
  <2> QED  BY <1>0, <2>1, SamePart
<1>6. SubSeq(y, a + 1, b - 1) = SubSeq(t, a + 1, b - 1)
  <2>1. a < b  BY <1>1 DEF UriAt
  <2>2. a + 1 \in 1..Len(t) + 1 /\ b - 1 \in (a + 1) - 1..Len(t)  BY <2>1
  <2> QED  BY <1>0, <2>2, SamePart
<1>7. Len(y) = b + (k + 1) /\ a \in 1..Len(y) /\ b \in 1..Len(y)  BY <1>0, <1>1
<1> QED  BY <1>1, <1>2, <1>4, <1>5, <1>6, <1>7 DEF InName, y

(* In the five bytes in front of a version: the next of them. *)
LEMMA FromName ==
  ASSUME NEW t \in Seq(Char), NEW c \in Char, NEW req \in Request
  PROVE  /\ InName(t, req, 0) => Moves("http_version_h", t, c, req)
         /\ InName(t, req, 1) => Moves("http_version_t_1", t, c, req)
         /\ InName(t, req, 2) => Moves("http_version_t_2", t, c, req)
         /\ InName(t, req, 3) => Moves("http_version_p", t, c, req)
         /\ InName(t, req, 4) => Moves("http_version_slash", t, c, req)
<1> DEFINE y == Append(t, c)
<1>1. ASSUME InName(t, req, 0) PROVE Moves("http_version_h", t, c, req)
  <2>1. Goto("http_version_h", c, req) = IF c = "H" THEN "http_version_t_1" ELSE "bad"
    BY GotoTable
  <2>2. Store(req, "http_version_h", c, "http_version_t_1") = req  BY DEF Store
  <2>3. CASE c = "H"
    <3>1. InName(y, req, 0 + 1)  BY <1>1, <2>3, NameMoves
    <3> HIDE DEF y
    <3>2. Parsed("http_version_t_1", y, req)  BY <3>1 DEF Parsed, HeaderState
    <3> QED  BY <2>1, <2>2, <2>3, <3>2 DEF Moves, y
  <2> QED  BY <2>1, <2>3 DEF Moves
<1>2. ASSUME InName(t, req, 1) PROVE Moves("http_version_t_1", t, c, req)
  <2>1. Goto("http_version_t_1", c, req) = IF c = "T" THEN "http_version_t_2" ELSE "bad"
    BY GotoTable
  <2>2. Store(req, "http_version_t_1", c, "http_version_t_2") = req  BY DEF Store
  <2>3. CASE c = "T"
    <3>1. InName(y, req, 1 + 1)  BY <1>2, <2>3, NameMoves
    <3> HIDE DEF y
    <3>2. Parsed("http_version_t_2", y, req)  BY <3>1 DEF Parsed, HeaderState
    <3> QED  BY <2>1, <2>2, <2>3, <3>2 DEF Moves, y
  <2> QED  BY <2>1, <2>3 DEF Moves
<1>3. ASSUME InName(t, req, 2) PROVE Moves("http_version_t_2", t, c, req)
  <2>1. Goto("http_version_t_2", c, req) = IF c = "T" THEN "http_version_p" ELSE "bad"
    BY GotoTable
  <2>2. Store(req, "http_version_t_2", c, "http_version_p") = req  BY DEF Store
  <2>3. CASE c = "T"
    <3>1. InName(y, req, 2 + 1)  BY <1>3, <2>3, NameMoves
    <3> HIDE DEF y
    <3>2. Parsed("http_version_p", y, req)  BY <3>1 DEF Parsed, HeaderState
    <3> QED  BY <2>1, <2>2, <2>3, <3>2 DEF Moves, y
  <2> QED  BY <2>1, <2>3 DEF Moves
<1>4. ASSUME InName(t, req, 3) PROVE Moves("http_version_p", t, c, req)
  <2>1. Goto("http_version_p", c, req) = IF c = "P" THEN "http_version_slash" ELSE "bad"
    BY GotoTable
  <2>2. Store(req, "http_version_p", c, "http_version_slash") = req  BY DEF Store
  <2>3. CASE c = "P"
    <3>1. InName(y, req, 3 + 1)  BY <1>4, <2>3, NameMoves
    <3> HIDE DEF y
    <3>2. Parsed("http_version_slash", y, req)  BY <3>1 DEF Parsed, HeaderState
    <3> QED  BY <2>1, <2>2, <2>3, <3>2 DEF Moves, y
  <2> QED  BY <2>1, <2>3 DEF Moves
<1>5. ASSUME InName(t, req, 4) PROVE Moves("http_version_slash", t, c, req)
  <2>1. Goto("http_version_slash", c, req) = IF c = "/" THEN "http_version_major_start" ELSE "bad"
    BY GotoTable
  <2>2. Store(req, "http_version_slash", c, "http_version_major_start") = req  BY DEF Store
  <2>3. CASE c = "/"
    <3>1. InName(y, req, 4 + 1)  BY <1>5, <2>3, NameMoves
    <3> HIDE DEF y
    <3>2. Parsed("http_version_major_start", y, req)  BY <3>1 DEF Parsed, HeaderState
    <3> QED  BY <2>1, <2>2, <2>3, <3>2 DEF Moves, y
  <2> QED  BY <2>1, <2>3 DEF Moves
<1> QED  BY <1>1, <1>2, <1>3, <1>4, <1>5

(* The parts before the version, and before the point, stay what they are. *)
LEMMA SameUriParts ==
  ASSUME NEW t \in Seq(Char), NEW x \in Seq(Char), Extends(x, t),
         NEW a \in 1..Len(t), NEW b \in 1..Len(t), UriAt(t, a, b)
  PROVE  /\ UriAt(x, a, b)
         /\ SubSeq(x, 1, a - 1) = SubSeq(t, 1, a - 1)
         /\ SubSeq(x, a + 1, b - 1) = SubSeq(t, a + 1, b - 1)
         /\ a \in 1..Len(x) /\ b \in 1..Len(x)
<1>1. UriAt(x, a, b)  BY SameUri
<1>2. SubSeq(x, 1, a - 1) = SubSeq(t, 1, a - 1)
  <2>1. 1 \in 1..Len(t) + 1 /\ a - 1 \in 1 - 1..Len(t)  OBVIOUS
  <2> QED  BY <2>1, SamePart
<1>3. SubSeq(x, a + 1, b - 1) = SubSeq(t, a + 1, b - 1)
  <2>1. a < b  BY DEF UriAt
  <2>2. a + 1 \in 1..Len(t) + 1 /\ b - 1 \in (a + 1) - 1..Len(t)  BY <2>1
  <2> QED  BY <2>2, SamePart
<1> QED  BY <1>1, <1>2, <1>3 DEF Extends

(* What a longer text keeps of a version up to its point. *)
LEMMA SameMajorParts ==
  ASSUME NEW t \in Seq(Char), NEW x \in Seq(Char), Extends(x, t),
         NEW a \in 1..Len(t), NEW b \in 1..Len(t), NEW d \in 1..Len(t), MajorAt(t, a, b, d)
  PROVE  /\ MajorAt(x, a, b, d)
         /\ SubSeq(x, 1, a - 1) = SubSeq(t, 1, a - 1)
         /\ SubSeq(x, a + 1, b - 1) = SubSeq(t, a + 1, b - 1)
         /\ SubSeq(x, b + 6, d - 1) = SubSeq(t, b + 6, d - 1)
         /\ a \in 1..Len(x) /\ b \in 1..Len(x) /\ d \in 1..Len(x)
<1>1. MajorAt(x, a, b, d)  BY SameMajor
<1>2. UriAt(t, a, b) /\ b + 6 < d  BY DEF MajorAt
<1>3. /\ SubSeq(x, 1, a - 1) = SubSeq(t, 1, a - 1)
      /\ SubSeq(x, a + 1, b - 1) = SubSeq(t, a + 1, b - 1)
  BY <1>2, SameUriParts
<1>4. SubSeq(x, b + 6, d - 1) = SubSeq(t, b + 6, d - 1)
  <2>1. b + 6 \in 1..Len(t) + 1 /\ d - 1 \in (b + 6) - 1..Len(t)  BY <1>2
  <2> QED  BY <2>1, SamePart
<1> QED  BY <1>1, <1>3, <1>4 DEF Extends

(* Bytes of a kind, and one more of it. *)
LEMMA MoreBytes ==
  ASSUME NEW t \in Seq(Char), NEW c \in Char, NEW i \in Nat, i >= 1, NEW S,
         Bytes(t, i, Len(t), S)
  PROVE  /\ Bytes(Append(t, c), i, Len(t), S)
         /\ c \in S => Bytes(Append(t, c), i, Len(t) + 1, S)
<1> DEFINE y == Append(t, c)
           n == Len(t)
<1>1. y[n + 1] = c /\ \A k \in 1..n : y[k] = t[k]  BY Grown
<1>2. n \in Nat /\ \A k \in i..n : k \in 1..n  OBVIOUS
<1>3. \A k \in i..n + 1 : k \in i..n \/ k = n + 1  OBVIOUS
<1> HIDE DEF y
<1>4. Bytes(y, i, n, S)  BY <1>1, <1>2 DEF Bytes
<1>5. c \in S => Bytes(y, i, n + 1, S)  BY <1>1, <1>3, <1>4 DEF Bytes
<1> QED  BY <1>4, <1>5 DEF y

(* Before the major number: its first digit. *)
LEMMA FromMajorStart ==
  ASSUME NEW t \in Seq(Char), NEW c \in Char, NEW req \in Request, InName(t, req, 5)
  PROVE  Moves("http_version_major_start", t, c, req)
<1> DEFINE y == Append(t, c)
           n == Len(t)
<1>0. n \in Nat /\ y \in Seq(Char) /\ Len(y) = n + 1 /\ y[n + 1] = c /\ Extends(y, t)
  BY Grown
<1>1. PICK a, b \in 1..n :
        /\ UriAt(t, a, b) /\ n = b + 5 /\ NameAt(t, b, 5)
        /\ req = Req(SubSeq(t, 1, a - 1), SubSeq(t, a + 1, b - 1), <<>>, <<>>, <<>>)
  BY DEF InName
<1> DEFINE m == SubSeq(t, 1, a - 1)
           u == SubSeq(t, a + 1, b - 1)
           e == b + 6
<1>2. e = n + 1 /\ e \in 1..n + 1 /\ e \in Nat /\ e >= 1 /\ b + 6 <= n + 1  BY <1>1
<1>3. Goto("http_version_major_start", c, req) =
        IF c \in is_digit THEN "http_version_major" ELSE "bad"
  BY GotoTable
<1>4. CASE c \in is_digit
  <2>1. UriAt(y, a, b) /\ SubSeq(y, 1, a - 1) = m /\ SubSeq(y, a + 1, b - 1) = u
        /\ a \in 1..Len(y) /\ b \in 1..Len(y)
    <3> HIDE DEF y
    <3> QED  BY <1>0, <1>1, SameUriParts
  <2>2. NameAt(y, b, 5)
    <3> HIDE DEF y
    <3>1. 5 \in 0..5 /\ b + 5 <= Len(t)  BY <1>1
    <3> QED  BY <1>0, <1>1, <3>1, SameName
  <2>3. Bytes(y, e, Len(y), is_digit)
    <3> HIDE DEF y, e
    <3> QED  BY <1>0, <1>2, <1>4 DEF Bytes
  <2>4. SubSeq(y, e, n + 1) = Append(<<>>, c)
    <3> HIDE DEF e
    <3>1. SubSeq(y, e, n + 1) = Append(SubSeq(t, e, n), c)  BY <1>2, LongerPart
    <3>2. SubSeq(t, e, n) = <<>>
      <4>1. n < e /\ n \in Int  BY <1>2
      <4> QED  BY <1>2, <4>1, Nothing
    <3> QED  BY <3>1, <3>2
  <2> DEFINE v == Append(<<>>, c)
  <2>5. Store(req, "http_version_major_start", c, "http_version_major")
          = Req(m, u, v, <<>>, <<>>)
    <3>1. Store(req, "http_version_major_start", c, "http_version_major")
            = [req EXCEPT !.major = Append(@, c)]
      BY DEF Store
    <3>2. /\ req.method = m /\ req.uri = u /\ req.major = <<>> /\ req.minor = <<>>
          /\ req.headers = <<>>
      <4> HIDE DEF m, u
      <4>1. req = Req(m, u, <<>>, <<>>, <<>>)  BY <1>1 DEF m, u
      <4> QED  BY <4>1, ReqParts
    <3>3. [req EXCEPT !.major = Append(@, c)]
            = Req(req.method, req.uri, Append(req.major, c), req.minor, req.headers)
      BY PartGrows
    <3> HIDE DEF m, u
    <3> QED  BY <3>1, <3>2, <3>3
  <2>6. InMajor(y, Req(m, u, v, <<>>, <<>>))
    <3> HIDE DEF y, m, u, v
    <3> QED  BY <1>0, <1>2, <2>1, <2>2, <2>3, <2>4 DEF InMajor, v
  <2> HIDE DEF y, m, u, v
  <2>7. Parsed("http_version_major", y, Req(m, u, v, <<>>, <<>>))
    BY <2>6 DEF Parsed, HeaderState
  <2> QED  BY <1>3, <1>4, <2>5, <2>7 DEF Moves, y
<1> QED  BY <1>3, <1>4 DEF Moves

(* In the major number: another digit, or the point. *)
LEMMA FromMajor ==
  ASSUME NEW t \in Seq(Char), NEW c \in Char, NEW req \in Request, InMajor(t, req)
  PROVE  Moves("http_version_major", t, c, req)
<1> DEFINE y == Append(t, c)
           n == Len(t)
           e == n + 1
<1>0. n \in Nat /\ y \in Seq(Char) /\ Len(y) = e /\ y[e] = c /\ Extends(y, t)
      /\ e - 1 = n /\ e \in 1..Len(y)
  BY Grown
<1>1. PICK a, b \in 1..n :
        /\ UriAt(t, a, b) /\ NameAt(t, b, 5)
        /\ b + 6 <= n /\ Bytes(t, b + 6, n, is_digit)
        /\ req = Req(SubSeq(t, 1, a - 1), SubSeq(t, a + 1, b - 1),
                     SubSeq(t, b + 6, n), <<>>, <<>>)
  BY DEF InMajor
<1> DEFINE m == SubSeq(t, 1, a - 1)
           u == SubSeq(t, a + 1, b - 1)
           i == b + 6
           v == SubSeq(t, i, n)
<1>2. i \in 1..n + 1 /\ i \in Nat /\ i >= 1 /\ i < e /\ n \in i - 1..n /\ i <= e  BY <1>1
<1>3. Goto("http_version_major", c, req) =
        IF c = "." THEN "http_version_minor_start"
        ELSE IF c \in is_digit THEN "http_version_major" ELSE "bad"
  BY GotoTable
<1>4. UriAt(y, a, b) /\ SubSeq(y, 1, a - 1) = m /\ SubSeq(y, a + 1, b - 1) = u
      /\ a \in 1..Len(y) /\ b \in 1..Len(y)
  <2> HIDE DEF y
  <2> QED  BY <1>0, <1>1, SameUriParts
<1>5. NameAt(y, b, 5)
  <2> HIDE DEF y
  <2>1. 5 \in 0..5 /\ b + 5 <= Len(t)  BY <1>1
  <2> QED  BY <1>0, <1>1, <2>1, SameName
<1>6. Bytes(y, i, n, is_digit) /\ (c \in is_digit => Bytes(y, i, e, is_digit))
  <2> HIDE DEF i
  <2>1. Bytes(t, i, n, is_digit)  BY <1>1 DEF i
  <2> QED  BY <1>2, <2>1, MoreBytes
<1>7. SubSeq(y, i, n) = v /\ SubSeq(y, i, e) = Append(v, c)
  <2>1. SubSeq(y, i, n) = v
    <3> HIDE DEF y, i
    <3> QED  BY <1>0, <1>2, SamePart
  <2>2. SubSeq(y, i, n + 1) = Append(SubSeq(t, i, n), c)
    <3> HIDE DEF i
    <3> QED  BY <1>2, LongerPart
  <2> QED  BY <2>1, <2>2
<1> HIDE DEF e
<1>8. CASE c = "."
  <2>1. MajorAt(y, a, b, e)
    <3> HIDE DEF y, n
    <3> QED  BY <1>0, <1>2, <1>4, <1>5, <1>6, <1>8 DEF MajorAt, i
  <2>2. AtPoint(y, req)
    <3>1. req = Req(SubSeq(y, 1, a - 1), SubSeq(y, a + 1, b - 1), SubSeq(y, b + 6, Len(y) - 1),
                    <<>>, <<>>)
      <4>1. Len(y) - 1 = n  BY <1>0
      <4>2. req = Req(m, u, v, <<>>, <<>>) /\ SubSeq(y, b + 6, n) = v  BY <1>1, <1>7
      <4> HIDE DEF y, n, m, u, v
      <4> QED  BY <1>4, <4>1, <4>2
    <3> HIDE DEF y, n
    <3>2. MajorAt(y, a, b, Len(y))  BY <1>0, <2>1
    <3> QED  BY <1>4, <3>1, <3>2 DEF AtPoint
  <2>3. Store(req, "http_version_major", c, "http_version_minor_start") = req  BY DEF Store
  <2> HIDE DEF y
  <2>4. Parsed("http_version_minor_start", y, req)  BY <2>2 DEF Parsed, HeaderState
  <2> QED  BY <1>3, <1>8, <2>3, <2>4 DEF Moves, y
<1>9. CASE c \in is_digit
  <2> DEFINE w == Append(v, c)
  <2>1. Store(req, "http_version_major", c, "http_version_major") = Req(m, u, w, <<>>, <<>>)
    <3>1. Store(req, "http_version_major", c, "http_version_major")
            = [req EXCEPT !.major = Append(@, c)]
      BY DEF Store
    <3>2. /\ req.method = m /\ req.uri = u /\ req.major = v /\ req.minor = <<>>
          /\ req.headers = <<>>
      <4>1. req = Req(m, u, v, <<>>, <<>>)  BY <1>1
      <4> HIDE DEF m, u, v
      <4> QED  BY <4>1, ReqParts
    <3>3. [req EXCEPT !.major = Append(@, c)]
            = Req(req.method, req.uri, Append(req.major, c), req.minor, req.headers)
      BY PartGrows
    <3> HIDE DEF m, u, v
    <3> QED  BY <3>1, <3>2, <3>3
  <2>2. InMajor(y, Req(m, u, w, <<>>, <<>>))
    <3>1. SubSeq(y, b + 6, Len(y)) = w /\ b + 6 <= Len(y) /\ Bytes(y, b + 6, Len(y), is_digit)
      BY <1>0, <1>2, <1>6, <1>7, <1>9
    <3> HIDE DEF y, m, u, w
    <3> QED  BY <1>4, <1>5, <3>1 DEF InMajor
  <2> HIDE DEF y, m, u, w
  <2>3. Parsed("http_version_major", y, Req(m, u, w, <<>>, <<>>))
    BY <2>2 DEF Parsed, HeaderState
  <2>4. c # "."  BY <1>9, Kinds
  <2> QED  BY <1>3, <1>9, <2>1, <2>3, <2>4 DEF Moves, y
<1> QED  BY <1>3, <1>8, <1>9 DEF Moves

(* After the point: the first digit of the minor number. *)
LEMMA FromPoint ==
  ASSUME NEW t \in Seq(Char), NEW c \in Char, NEW req \in Request, AtPoint(t, req)
  PROVE  Moves("http_version_minor_start", t, c, req)
<1> DEFINE y == Append(t, c)
           n == Len(t)
           i == n + 1
<1>0. n \in Nat /\ y \in Seq(Char) /\ Len(y) = i /\ y[i] = c /\ Extends(y, t)
      /\ n < i /\ i \in Nat /\ i \in 1..n + 1
  BY Grown
<1>1. PICK a, b \in 1..n :
        /\ MajorAt(t, a, b, n)
        /\ req = Req(SubSeq(t, 1, a - 1), SubSeq(t, a + 1, b - 1),
                     SubSeq(t, b + 6, n - 1), <<>>, <<>>)
  BY DEF AtPoint
<1> DEFINE m == SubSeq(t, 1, a - 1)
           u == SubSeq(t, a + 1, b - 1)
           v == SubSeq(t, b + 6, n - 1)
           w == Append(<<>>, c)
<1>2. n \in 1..n  BY <1>0
<1>3. Goto("http_version_minor_start", c, req) =
        IF c \in is_digit THEN "http_version_minor" ELSE "bad"
  BY GotoTable
<1>4. MajorAt(y, a, b, n) /\ SubSeq(y, 1, a - 1) = m /\ SubSeq(y, a + 1, b - 1) = u
      /\ SubSeq(y, b + 6, n - 1) = v
      /\ a \in 1..Len(y) /\ b \in 1..Len(y) /\ n \in 1..Len(y)
  <2> HIDE DEF y
  <2> QED  BY <1>0, <1>1, <1>2, SameMajorParts
<1>5. SubSeq(y, i, Len(y)) = w
  <2>1. SubSeq(y, i, n + 1) = Append(SubSeq(t, i, n), c)
    <3> HIDE DEF i
    <3> QED  BY <1>0, LongerPart
  <2>2. SubSeq(t, i, n) = <<>>
    <3> HIDE DEF i
    <3>1. n < i /\ n \in Int  BY <1>0
    <3> QED  BY <1>0, <3>1, Nothing
  <2> QED  BY <1>0, <2>1, <2>2
<1>6. CASE c \in is_digit
  <2>1. Bytes(y, i, Len(y), is_digit)
    <3> HIDE DEF y, i
    <3> QED  BY <1>0, <1>6 DEF Bytes
  <2>2. Store(req, "http_version_minor_start", c, "http_version_minor") = Req(m, u, v, w, <<>>)
    <3>1. Store(req, "http_version_minor_start", c, "http_version_minor")
            = [req EXCEPT !.minor = Append(@, c)]
      BY DEF Store
    <3>2. /\ req.method = m /\ req.uri = u /\ req.major = v /\ req.minor = <<>>
          /\ req.headers = <<>>
      <4>1. req = Req(m, u, v, <<>>, <<>>)  BY <1>1
      <4> HIDE DEF m, u, v
      <4> QED  BY <4>1, ReqParts
    <3>3. [req EXCEPT !.minor = Append(@, c)]
            = Req(req.method, req.uri, req.major, Append(req.minor, c), req.headers)
      BY PartGrows
    <3> HIDE DEF m, u, v
    <3> QED  BY <3>1, <3>2, <3>3
  <2>3. InMinor(y, Req(m, u, v, w, <<>>))
    <3>1. SubSeq(y, n + 1, Len(y)) = w /\ n < Len(y) /\ Bytes(y, n + 1, Len(y), is_digit)
      BY <1>0, <1>5, <2>1
    <3> HIDE DEF y, m, u, v, w, n
    <3> QED  BY <1>4, <3>1 DEF InMinor
  <2> HIDE DEF y, m, u, v, w
  <2>4. Parsed("http_version_minor", y, Req(m, u, v, w, <<>>))
    BY <2>3 DEF Parsed, HeaderState
  <2> QED  BY <1>3, <1>6, <2>2, <2>4 DEF Moves, y
<1> QED  BY <1>3, <1>6 DEF Moves

(* In the minor number: another digit, or the end of the line. *)
LEMMA FromMinor ==
  ASSUME NEW t \in Seq(Char), NEW c \in Char, NEW req \in Request, InMinor(t, req)
  PROVE  Moves("http_version_minor", t, c, req)
<1> DEFINE y == Append(t, c)
           n == Len(t)
           e == n + 1
<1>0. n \in Nat /\ y \in Seq(Char) /\ Len(y) = e /\ y[e] = c /\ Extends(y, t)
      /\ e - 1 = n /\ e \in 1..Len(y)
  BY Grown
<1>1. PICK a, b, d \in 1..n :
        /\ MajorAt(t, a, b, d) /\ d < n /\ Bytes(t, d + 1, n, is_digit)
        /\ req = Req(SubSeq(t, 1, a - 1), SubSeq(t, a + 1, b - 1),
                     SubSeq(t, b + 6, d - 1), SubSeq(t, d + 1, n), <<>>)
  BY DEF InMinor
<1> DEFINE m == SubSeq(t, 1, a - 1)
           u == SubSeq(t, a + 1, b - 1)
           v == SubSeq(t, b + 6, d - 1)
           i == d + 1
           z == SubSeq(t, i, n)
<1>2. i \in 1..n + 1 /\ i \in Nat /\ i >= 1 /\ i < e /\ n \in i - 1..n /\ i <= e /\ d < e
  BY <1>1
<1>3. Goto("http_version_minor", c, req) =
        IF c = "cr" THEN "expecting_newline_1"
        ELSE IF c \in is_digit THEN "http_version_minor" ELSE "bad"
  BY GotoTable
<1>4. MajorAt(y, a, b, d) /\ SubSeq(y, 1, a - 1) = m /\ SubSeq(y, a + 1, b - 1) = u
      /\ SubSeq(y, b + 6, d - 1) = v
      /\ a \in 1..Len(y) /\ b \in 1..Len(y) /\ d \in 1..Len(y)
  <2>1. MajorAt(t, a, b, d) /\ y \in Seq(Char) /\ Extends(y, t)  BY <1>0, <1>1
  <2> HIDE DEF y, e
  <2> QED  BY <2>1, SameMajorParts
<1>6. Bytes(y, i, n, is_digit) /\ (c \in is_digit => Bytes(y, i, e, is_digit))
  <2> HIDE DEF i
  <2>1. Bytes(t, i, n, is_digit)  BY <1>1 DEF i
  <2> QED  BY <1>2, <2>1, MoreBytes
<1>7. SubSeq(y, i, n) = z /\ SubSeq(y, i, e) = Append(z, c)
  <2>1. SubSeq(y, i, n) = z
    <3> HIDE DEF y, i
    <3> QED  BY <1>0, <1>2, SamePart
  <2>2. SubSeq(y, i, n + 1) = Append(SubSeq(t, i, n), c)
    <3> HIDE DEF i
    <3> QED  BY <1>2, LongerPart
  <2> QED  BY <2>1, <2>2
<1> HIDE DEF e
<1>8. CASE c = "cr"
  <2>1. RequestAt(y, a, b, d, e)
    <3> HIDE DEF y, n
    <3> QED  BY <1>0, <1>2, <1>4, <1>6, <1>8 DEF RequestAt, i
  <2>2. LineRead(y, req)
    <3>1. req = RequestOf(y, a, b, d, e, <<>>)
      <4>1. req = Req(m, u, v, z, <<>>) /\ SubSeq(y, d + 1, n) = z  BY <1>1, <1>7
      <4> HIDE DEF y, n, m, u, v, z
      <4> QED  BY <1>0, <1>4, <4>1 DEF RequestOf
    <3> HIDE DEF y, n
    <3> QED  BY <1>0, <1>4, <2>1, <3>1 DEF LineRead
  <2>3. Store(req, "http_version_minor", c, "expecting_newline_1") = req  BY DEF Store
  <2> HIDE DEF y
  <2>4. Parsed("expecting_newline_1", y, req)  BY <2>2 DEF Parsed, HeaderState
  <2> QED  BY <1>3, <1>8, <2>3, <2>4 DEF Moves, y
<1>9. CASE c \in is_digit
  <2> DEFINE w == Append(z, c)
  <2>1. Store(req, "http_version_minor", c, "http_version_minor") = Req(m, u, v, w, <<>>)
    <3>1. Store(req, "http_version_minor", c, "http_version_minor")
            = [req EXCEPT !.minor = Append(@, c)]
      BY DEF Store
    <3>2. /\ req.method = m /\ req.uri = u /\ req.major = v /\ req.minor = z
          /\ req.headers = <<>>
      <4>1. req = Req(m, u, v, z, <<>>)  BY <1>1
      <4> HIDE DEF m, u, v, z
      <4> QED  BY <4>1, ReqParts
    <3>3. [req EXCEPT !.minor = Append(@, c)]
            = Req(req.method, req.uri, req.major, Append(req.minor, c), req.headers)
      BY PartGrows
    <3> HIDE DEF m, u, v, z
    <3> QED  BY <3>1, <3>2, <3>3
  <2>2. InMinor(y, Req(m, u, v, w, <<>>))
    <3>1. SubSeq(y, d + 1, Len(y)) = w /\ d < Len(y) /\ Bytes(y, d + 1, Len(y), is_digit)
      BY <1>0, <1>2, <1>6, <1>7, <1>9
    <3> HIDE DEF y, m, u, v, w
    <3> QED  BY <1>4, <3>1 DEF InMinor
  <2> HIDE DEF y, m, u, v, w
  <2>3. Parsed("http_version_minor", y, Req(m, u, v, w, <<>>))
    BY <2>2 DEF Parsed, HeaderState
  <2>4. c # "cr"  BY <1>9 DEF is_digit
  <2> QED  BY <1>3, <1>9, <2>1, <2>3, <2>4 DEF Moves, y
<1> QED  BY <1>3, <1>8, <1>9 DEF Moves

-----------------------------------------------------------------------------
(* While a line goes on, all before it stays what it is.                   *)
LEMMA LastOfRequest ==
  ASSUME NEW req \in Request, NEW c \in Char
  PROVE  /\ AddToName(req, c) = [req EXCEPT !.headers = AddName(req.headers, c)]
         /\ AddToValue(req, c) = [req EXCEPT !.headers = AddValue(req.headers, c)]
BY DEF AddToName, AddToValue, AddName, AddValue

(* A byte of a header line keeps the lines before it as they are. *)
LEMMA IntoLine ==
  ASSUME NEW t \in Seq(Char), NEW c \in Char, NEW req \in Request,
         NEW a \in 1..Len(t), NEW b \in 1..Len(t), NEW d \in 1..Len(t), NEW f \in 1..Len(t),
         NEW s \in 1..Len(t) + 1, NEW h, NEW is, HeadersAt(t, req, a, b, d, f, s, h, is),
         NEW to \in HeaderState, NEW ls \in Seq(Header),
         LineSoFar(to, Append(t, c), s, h[s - 1], ls)
  PROVE  Parsed(to, Append(t, c), [req EXCEPT !.headers = ls])
<1> DEFINE y == Append(t, c)
           q == [req EXCEPT !.headers = ls]
<1>0. y \in Seq(Char) /\ Len(y) = Len(t) + 1 /\ Extends(y, t)  BY Grown
<1>1. /\ h \in [0..s - 1 -> Seq(Header)] /\ is \in Seq(Header)
      /\ RequestAt(t, a, b, d, f) /\ Whole(t, f, s, h)
      /\ req = RequestOf(t, a, b, d, f, is)
  BY DEF HeadersAt
<1> HIDE DEF y, q
<1>2. RequestAt(y, a, b, d, f)  BY <1>0, <1>1, SameRequest
<1>3. Whole(y, f, s, h)  BY <1>0, <1>1, SameLines
<1>4. \A x : RequestOf(y, a, b, d, f, x) = RequestOf(t, a, b, d, f, x)
  <2> SUFFICES ASSUME NEW x
               PROVE  RequestOf(y, a, b, d, f, x) = RequestOf(t, a, b, d, f, x)
    OBVIOUS
  <2> QED  BY <1>0, <1>1, SameRequestOf
<1>6. q = RequestOf(y, a, b, d, f, ls)
  <2>1. q = Req(req.method, req.uri, req.major, req.minor, ls)
    <3>1. <<>> \in Seq(Char)  OBVIOUS
    <3> QED  BY <3>1, ReqIs DEF q
  <2>2. Req(req.method, req.uri, req.major, req.minor, ls) = RequestOf(t, a, b, d, f, ls)
    BY <1>1 DEF RequestOf, Req
  <2> QED  BY <1>4, <2>1, <2>2
<1>7. HeadersAt(y, q, a, b, d, f, s, h, ls)
  BY <1>1, <1>2, <1>3, <1>6 DEF HeadersAt
<1>8. InHeaders(to, y, q)
  <2>1. LineSoFar(to, y, s, h[s - 1], ls)  BY DEF y
  <2>2. a \in 1..Len(y) /\ b \in 1..Len(y) /\ d \in 1..Len(y) /\ f \in 1..Len(y)
        /\ s \in 1..Len(y) + 1
    BY <1>0
  <2> QED  BY <1>7, <2>1, <2>2 DEF InHeaders
<1>9. Parsed(to, y, q)  BY <1>8 DEF Parsed, HeaderState
<1> QED  BY <1>9 DEF y, q

(* The same when the byte adds nothing to the headers. *)
LEMMA IntoLineSame ==
  ASSUME NEW t \in Seq(Char), NEW c \in Char, NEW req \in Request,
         NEW a \in 1..Len(t), NEW b \in 1..Len(t), NEW d \in 1..Len(t), NEW f \in 1..Len(t),
         NEW s \in 1..Len(t) + 1, NEW h, NEW is, HeadersAt(t, req, a, b, d, f, s, h, is),
         NEW to \in HeaderState, LineSoFar(to, Append(t, c), s, h[s - 1], is)
  PROVE  Parsed(to, Append(t, c), req)
<1> DEFINE ls == is
<1>1. ls \in Seq(Header) /\ ls = is  BY DEF HeadersAt
<1>2. LineSoFar(to, Append(t, c), s, h[s - 1], ls)  OBVIOUS
<1> HIDE DEF ls
<1>3. Parsed(to, Append(t, c), [req EXCEPT !.headers = ls])  BY <1>1, <1>2, IntoLine
<1>4. req.headers = ls  BY <1>1 DEF HeadersAt, RequestOf, Req
<1>5. [req EXCEPT !.headers = ls] = req
  <2>1. req = Req(req.method, req.uri, req.major, req.minor, req.headers)
    BY DEF Req, Request
  <2>2. [req EXCEPT !.headers = ls] = Req(req.method, req.uri, req.major, req.minor, ls)
    BY <1>1, ReqIs, Nothing
  <2> QED  BY <1>4, <2>1, <2>2
<1> QED  BY <1>3, <1>5

(* What a byte makes of the line it is in.                                 *)
LEMMA LineBegins ==
  ASSUME NEW t \in Seq(Char), NEW c \in Char, NEW s \in 1..Len(t) + 1,
         NEW hs \in Seq(Header), NEW is, InLine(t, s, hs, is)
  PROVE  LET y == Append(t, c) IN
         /\ c = "cr" => AtLastLine(y, s, hs, is)
         /\ c \in Blank /\ is # <<>> => InBlanks(y, s, hs, is)
         /\ c \in Token =>
              LET ls == Append(is, [name |-> <<c>>, value |-> <<>>]) IN
              ls \in Seq(Header) /\ InFieldName(y, s, hs, ls)
<1> DEFINE y == Append(t, c)
           n == Len(t)
<1>0. n \in Nat /\ y \in Seq(Char) /\ Len(y) = n + 1 /\ y[n + 1] = c  BY Grown
<1>1. s = n + 1 /\ is = hs /\ s = Len(y) /\ y[s] = c  BY <1>0 DEF InLine
<1>2. c = "cr" => AtLastLine(y, s, hs, is)
  <2> HIDE DEF y
  <2> QED  BY <1>1 DEF AtLastLine
<1>3. c \in Blank /\ is # <<>> => InBlanks(y, s, hs, is)
  <2> HIDE DEF y, n
  <2> QED  BY <1>0, <1>1 DEF InBlanks, Bytes
<1>4. ASSUME c \in Token
      PROVE  LET ls == Append(is, [name |-> <<c>>, value |-> <<>>]) IN
             ls \in Seq(Header) /\ InFieldName(y, s, hs, ls)
  <2> DEFINE r == [name |-> <<c>>, value |-> <<>>]
  <2>1. r \in Header  BY DEF Header
  <2>2. SubSeq(y, s, Len(y)) = <<c>>
    <3>1. s \in 1..n + 1 /\ SubSeq(y, s, n + 1) = Append(SubSeq(t, s, n), c)
      BY LongerPart
    <3>2. SubSeq(t, s, n) = <<>>
      <4>1. n < s /\ n \in Int /\ s \in Nat  BY <1>0, <1>1
      <4> HIDE DEF n
      <4> QED  BY <4>1, Nothing
    <3> QED  BY <1>0, <3>1, <3>2
  <2>3. Bytes(y, s, Len(y), Token) /\ s <= Len(y)
    <3> HIDE DEF y, n
    <3> QED  BY <1>0, <1>1, <1>4 DEF Bytes
  <2>4. Append(is, r) \in Seq(Header)  BY <1>1, <2>1
  <2>5. InFieldName(y, s, hs, Append(is, r))
    <3> HIDE DEF y
    <3> QED  BY <1>1, <2>2, <2>3 DEF InFieldName
  <2> QED  BY <2>4, <2>5
<1> QED  BY <1>2, <1>3, <1>4

(* In the blanks of a folded line: another, its value, or its end. *)
LEMMA BlanksGoOn ==
  ASSUME NEW t \in Seq(Char), NEW c \in Char, NEW s \in 1..Len(t) + 1,
         NEW hs \in Seq(Header), NEW is, InBlanks(t, s, hs, is)
  PROVE  LET y == Append(t, c) IN
         /\ c = "cr" => AtEndOfLine(y, s, hs, is)
         /\ c \in Blank => InBlanks(y, s, hs, is)
         /\ c \in Visible \ Blank =>
              AddValue(is, c) \in Seq(Header) /\ InValue(y, s, hs, AddValue(is, c))
<1> DEFINE y == Append(t, c)
           n == Len(t)
           u == n + 1
<1>0. n \in Nat /\ y \in Seq(Char) /\ Len(y) = u /\ y[u] = c /\ u \in 1..Len(y) /\ u \in 1..n + 1
      /\ u - 1 = n /\ n < u
  BY Grown
<1>1. s <= n /\ Bytes(t, s, n, Blank) /\ hs # <<>> /\ is = hs /\ s < u  BY DEF InBlanks
<1>2. Bytes(y, s, n, Blank) /\ (c \in Blank => Bytes(y, s, u, Blank))
  <2>1. s \in Nat /\ s >= 1  OBVIOUS
  <2> QED  BY <1>1, <2>1, MoreBytes
<1>3. Continued(hs, <<>>) = hs  BY <1>1, ContinuedGrows, Nothing
<1>4. ASSUME c = "cr" PROVE AtEndOfLine(y, s, hs, is)
  <2>1. FoldAt(y, s, u, u)
    <3>1. c \notin Blank  BY <1>4, Kinds
    <3>2. Bytes(y, u, u - 1, Visible)
      <4> HIDE DEF y, u, n
      <4> QED  BY <1>0 DEF Bytes
    <3> HIDE DEF y, u, n
    <3> QED  BY <1>0, <1>1, <1>2, <1>4, <3>1, <3>2 DEF FoldAt
  <2>2. SubSeq(y, u, u - 1) = <<>>
    <3>1. u \in Nat /\ u - 1 \in Int /\ u - 1 < u  BY <1>0
    <3> HIDE DEF y, u, n
    <3> QED  BY <1>0, <3>1, Nothing
  <2>3. is = Continued(hs, SubSeq(y, u, u - 1))  BY <1>1, <1>3, <2>2
  <2> HIDE DEF y, u, n
  <2>4. LineSays(y, s, u, hs, is)  BY <1>0, <1>1, <2>1, <2>3 DEF LineSays
  <2> QED  BY <1>0, <1>1, <2>4 DEF AtEndOfLine
<1>5. ASSUME c \in Blank PROVE InBlanks(y, s, hs, is)
  <2>1. s <= Len(y) /\ Bytes(y, s, Len(y), Blank)  BY <1>0, <1>1, <1>2, <1>5
  <2> HIDE DEF y
  <2> QED  BY <1>1, <2>1 DEF InBlanks
<1>6. ASSUME c \in Visible \ Blank
      PROVE  AddValue(is, c) \in Seq(Header) /\ InValue(y, s, hs, AddValue(is, c))
  <2> DEFINE e == Append(<<>>, c)
  <2>1. e \in Seq(Char)  OBVIOUS
  <2>2. AddValue(is, c) = Continued(hs, e)
    <3> DEFINE o == <<>>
    <3>1. o \in Seq(Char)  OBVIOUS
    <3> HIDE DEF o
    <3>2. AddValue(Continued(hs, o), c) = Continued(hs, Append(o, c))
      BY <1>1, <3>1, ContinuedGrows
    <3> QED  BY <1>1, <1>3, <3>2 DEF o
  <2>3. Continued(hs, e) \in Seq(Header)
    <3> HIDE DEF e
    <3> QED  BY <1>1, <2>1, ContinuedGrows
  <2>4. SubSeq(y, u, Len(y)) = e
    <3>1. SubSeq(y, u, n + 1) = Append(SubSeq(t, u, n), c)
      <4> HIDE DEF u
      <4> QED  BY <1>0, LongerPart
    <3>2. SubSeq(t, u, n) = <<>>
      <4>1. n < u /\ n \in Int /\ u \in Nat  BY <1>0
      <4> HIDE DEF n, u
      <4> QED  BY <4>1, Nothing
    <3> QED  BY <1>0, <3>1, <3>2
  <2>5. Bytes(y, u, Len(y), Visible)
    <3> HIDE DEF y, n, u
    <3> QED  BY <1>0, <1>6 DEF Bytes
  <2>6. InValue(y, s, hs, Continued(hs, e))
    <3>1. u \in 1..Len(y) /\ s < u /\ Bytes(y, s, u - 1, Blank) /\ y[u] \notin Blank
      BY <1>0, <1>1, <1>2, <1>6
    <3> HIDE DEF y, n, u, e
    <3> QED  BY <1>1, <2>4, <2>5, <3>1 DEF InValue
  <2> QED  BY <2>2, <2>3, <2>6
<1> QED  BY <1>4, <1>5, <1>6

(* In a header's name: another byte of it, or the colon. *)
LEMMA NameGoesOn ==
  ASSUME NEW t \in Seq(Char), NEW c \in Char, NEW s \in 1..Len(t) + 1,
         NEW hs \in Seq(Header), NEW is, InFieldName(t, s, hs, is)
  PROVE  LET y == Append(t, c) IN
         /\ c = ":" => AtColon(y, s, hs, is)
         /\ c \in Token =>
              AddName(is, c) \in Seq(Header) /\ InFieldName(y, s, hs, AddName(is, c))
<1> DEFINE y == Append(t, c)
           n == Len(t)
           u == n + 1
           p == SubSeq(t, s, n)
<1>0. n \in Nat /\ y \in Seq(Char) /\ Len(y) = u /\ y[u] = c /\ u \in 1..Len(y) /\ u \in 1..n + 1
      /\ u - 1 = n /\ n < u /\ Extends(y, t)
  BY Grown
<1>1. s <= n /\ Bytes(t, s, n, Token) /\ s < u
      /\ is = Append(hs, [name |-> p, value |-> <<>>])
  BY DEF InFieldName
<1>2. Bytes(y, s, n, Token) /\ (c \in Token => Bytes(y, s, u, Token))
  <2>1. s \in Nat /\ s >= 1  OBVIOUS
  <2> QED  BY <1>1, <2>1, MoreBytes
<1>3. p \in Seq(Char) /\ SubSeq(y, s, n) = p /\ SubSeq(y, s, u) = Append(p, c)
  <2>1. s \in 1..n + 1 /\ n \in s - 1..n  BY <1>1
  <2>2. p \in Seq(Char)  BY <2>1, Part
  <2>3. SubSeq(y, s, n) = p
    <3> HIDE DEF y
    <3> QED  BY <1>0, <2>1, SamePart
  <2>4. SubSeq(y, s, u) = Append(p, c)  BY <2>1, LongerPart
  <2> QED  BY <2>2, <2>3, <2>4
<1>4. ASSUME c = ":" PROVE AtColon(y, s, hs, is)
  <2>1. Len(y) - 1 = n  BY <1>0
  <2> HIDE DEF y, n, p, u
  <2> QED  BY <1>0, <1>1, <1>2, <1>3, <1>4, <2>1 DEF AtColon
<1>5. ASSUME c \in Token
      PROVE  AddName(is, c) \in Seq(Header) /\ InFieldName(y, s, hs, AddName(is, c))
  <2> HIDE DEF y, n, p, u
  <2>1. AddName(is, c) = Append(hs, [name |-> Append(p, c), value |-> <<>>])
    <3> DEFINE o == <<>>
    <3>1. o \in Seq(Char) /\ p \in Seq(Char) /\ is = Append(hs, [name |-> p, value |-> o])
      BY <1>1, <1>3
    <3>2. AddName(is, c) = Append(hs, [name |-> Append(p, c), value |-> o])
      <4> HIDE DEF o
      <4> QED  BY <3>1, LastGrows
    <3> QED  BY <3>2 DEF o
  <2>2. [name |-> Append(p, c), value |-> <<>>] \in Header  BY <1>3 DEF Header
  <2>3. AddName(is, c) \in Seq(Header)  BY <2>1, <2>2
  <2>4. s <= Len(y) /\ Bytes(y, s, Len(y), Token) /\ SubSeq(y, s, Len(y)) = Append(p, c)
    BY <1>0, <1>1, <1>2, <1>3, <1>5
  <2>5. InFieldName(y, s, hs, Append(hs, [name |-> Append(p, c), value |-> <<>>]))
    BY <2>4 DEF InFieldName
  <2> QED  BY <2>1, <2>3, <2>5
<1> QED  BY <1>4, <1>5

(* After the colon: the space. *)
LEMMA ColonGoesOn ==
  ASSUME NEW t \in Seq(Char), NEW c \in Char, NEW s \in 1..Len(t) + 1,
         NEW hs \in Seq(Header), NEW is, AtColon(t, s, hs, is), c = "space"
  PROVE  InValue(Append(t, c), s, hs, is)
<1> DEFINE y == Append(t, c)
           n == Len(t)
           p == SubSeq(t, s, n - 1)
<1>0. n \in Nat /\ y \in Seq(Char) /\ Len(y) = n + 1 /\ y[n + 1] = c /\ Extends(y, t)
      /\ \A k \in 1..n : y[k] = t[k]
  BY Grown
<1>1. s < n /\ Bytes(t, s, n - 1, Token) /\ t[n] = ":"
      /\ is = Append(hs, [name |-> p, value |-> <<>>])
  BY DEF AtColon
<1>2. n \in 1..n /\ n \in 1..Len(y)  BY <1>0, <1>1
<1>3. Bytes(y, s, n - 1, Token)
  <2>1. \A k \in s..n - 1 : k \in 1..n  OBVIOUS
  <2> QED  BY <1>0, <1>1, <2>1 DEF Bytes
<1>4. SubSeq(y, s, n - 1) = p
  <2>1. s \in 1..n + 1 /\ n - 1 \in s - 1..n  BY <1>1
  <2> HIDE DEF y
  <2> QED  BY <1>0, <2>1, SamePart
<1> DEFINE j == Len(y) + 1
<1>5. SubSeq(y, n + 2, j - 1) = <<>>
  <2> DEFINE i == n + 2
             k == j - 1
  <2>1. i \in Nat /\ k \in Int /\ k < i  BY <1>0
  <2> HIDE DEF y, i, k
  <2>2. SubSeq(y, i, k) = <<>>  BY <1>0, <2>1, Nothing
  <2> QED  BY <2>2 DEF i, k
<1>6. Bytes(y, n + 2, Len(y), Visible)
  <2> HIDE DEF y, n
  <2> QED  BY <1>0 DEF Bytes
<1>7. y[n] = ":" /\ y[n + 1] = "space" /\ n < Len(y)  BY <1>0, <1>1, <1>2
<1> HIDE DEF y, n, p, j
<1>8. is = Append(hs, Field(y, s, n, Len(y) + 1))
  <2>1. Field(y, s, n, j) = [name |-> p, value |-> <<>>]
    BY <1>4, <1>5, Zenon DEF Field
  <2> QED  BY <1>1, <2>1 DEF j
<1> QED  BY <1>1, <1>2, <1>3, <1>6, <1>7, <1>8 DEF InValue, y

(* In a header's value: another byte of it, or its end. *)
LEMMA FieldValueGoesOn ==
  ASSUME NEW t \in Seq(Char), NEW c \in Char, NEW s \in 1..Len(t) + 1,
         NEW hs \in Seq(Header), NEW is, NEW e \in 1..Len(t),
         s < e, e < Len(t), Bytes(t, s, e - 1, Token), t[e] = ":", t[e + 1] = "space",
         Bytes(t, e + 2, Len(t), Visible), is = Append(hs, Field(t, s, e, Len(t) + 1))
  PROVE  LET y == Append(t, c) IN
         /\ c = "cr" => AtEndOfLine(y, s, hs, is)
         /\ c \in Visible =>
              AddValue(is, c) \in Seq(Header) /\ InValue(y, s, hs, AddValue(is, c))
<1> DEFINE y == Append(t, c)
           n == Len(t)
           u == n + 1
           i == e + 2
           p == SubSeq(t, s, e - 1)
           v == SubSeq(t, i, n)
<1>0. /\ n \in Nat /\ y \in Seq(Char) /\ Len(y) = u /\ y[u] = c /\ u - 1 = n
      /\ Extends(y, t) /\ \A k \in 1..n : y[k] = t[k]
  BY Grown
<1>1. /\ e \in 1..Len(y) /\ e < Len(y) /\ s < Len(y) /\ e + 1 < u /\ u \in 1..Len(y)
      /\ i \in 1..n + 1 /\ n \in i - 1..n /\ i \in Nat /\ i >= 1
      /\ s \in 1..n + 1 /\ e - 1 \in s - 1..n /\ e \in Nat /\ s \in Nat
  BY <1>0
<1>2. y[e] = ":" /\ y[e + 1] = "space"
  <2>1. e \in 1..n /\ e + 1 \in 1..n  OBVIOUS
  <2> QED  BY <1>0, <2>1
<1>3. Bytes(y, s, e - 1, Token)
  <2>1. \A k \in s..e - 1 : k \in 1..n  OBVIOUS
  <2> QED  BY <1>0, <2>1 DEF Bytes
<1>4. Bytes(y, i, n, Visible) /\ (c \in Visible => Bytes(y, i, u, Visible))
  <2>1. Bytes(t, i, n, Visible)  OBVIOUS
  <2> HIDE DEF i
  <2> QED  BY <1>1, <2>1, MoreBytes
<1>5. p \in Seq(Char) /\ v \in Seq(Char) /\ SubSeq(y, s, e - 1) = p
      /\ SubSeq(y, i, n) = v /\ SubSeq(y, i, u) = Append(v, c)
  <2>1. p \in Seq(Char)  BY <1>1, Part
  <2>2. v \in Seq(Char)
    <3> HIDE DEF i
    <3> QED  BY <1>1, Part
  <2>3. SubSeq(y, s, e - 1) = p
    <3> HIDE DEF y
    <3> QED  BY <1>0, <1>1, SamePart
  <2>4. SubSeq(y, i, n) = v
    <3> HIDE DEF y, i
    <3> QED  BY <1>0, <1>1, SamePart
  <2>5. SubSeq(y, i, n + 1) = Append(SubSeq(t, i, n), c)
    <3> HIDE DEF i
    <3> QED  BY <1>1, LongerPart
  <2> QED  BY <2>1, <2>2, <2>3, <2>4, <2>5
<1>6. is = Append(hs, [name |-> p, value |-> v])
  <2>1. Field(t, s, e, u) = [name |-> SubSeq(t, s, e - 1), value |-> SubSeq(t, e + 2, u - 1)]
    BY DEF Field
  <2>2. SubSeq(t, e + 2, u - 1) = v  BY <1>0
  <2> QED  BY <2>1, <2>2
<1>7. ASSUME c = "cr" PROVE AtEndOfLine(y, s, hs, is)
  <2>1. FieldAt(y, s, e, u)
    <3>1. Bytes(y, e + 2, u - 1, Visible)  BY <1>0, <1>4
    <3> HIDE DEF y, u, n
    <3> QED  BY <1>0, <1>1, <1>2, <1>3, <1>7, <3>1 DEF FieldAt
  <2>2. Field(y, s, e, u) = [name |-> p, value |-> v]
    <3>1. Field(y, s, e, u) = [name |-> SubSeq(y, s, e - 1), value |-> SubSeq(y, e + 2, u - 1)]
      BY DEF Field
    <3>2. SubSeq(y, e + 2, u - 1) = v  BY <1>0, <1>5
    <3> HIDE DEF y, u, v, p
    <3> QED  BY <1>5, <3>1, <3>2
  <2>3. is = Append(hs, Field(y, s, e, u))  BY <1>6, <2>2
  <2> HIDE DEF y, u, v, p, n
  <2>4. LineSays(y, s, u, hs, is)  BY <1>1, <2>1, <2>3 DEF LineSays
  <2> QED  BY <1>0, <1>1, <2>4 DEF AtEndOfLine
<1>8. ASSUME c \in Visible
      PROVE  AddValue(is, c) \in Seq(Header) /\ InValue(y, s, hs, AddValue(is, c))
  <2> DEFINE w == Append(v, c)
             j == u + 1
  <2>1. AddValue(is, c) = Append(hs, [name |-> p, value |-> w])
    <3>1. p \in Seq(Char) /\ v \in Seq(Char)  BY <1>5
    <3> HIDE DEF p, v
    <3>2. AddValue(Append(hs, [name |-> p, value |-> v]), c)
            = Append(hs, [name |-> p, value |-> Append(v, c)])
      BY <3>1, LastGrows
    <3> QED  BY <1>6, <3>2
  <2>2. [name |-> p, value |-> w] \in Header
    <3>1. w \in Seq(Char)  BY <1>5
    <3> HIDE DEF w, p
    <3> QED  BY <1>5, <3>1 DEF Header
  <2>3. AddValue(is, c) \in Seq(Header)
    <3> DEFINE r == [name |-> p, value |-> w]
    <3>1. r \in Header  BY <2>2
    <3>2. AddValue(is, c) = Append(hs, r)  BY <2>1
    <3> HIDE DEF r
    <3>3. Append(hs, r) \in Seq(Header)  BY <3>1, MoreHeaders
    <3> QED  BY <3>2, <3>3, Zenon
  <2>4. Field(y, s, e, j) = [name |-> p, value |-> w]
    <3>1. Field(y, s, e, j) = [name |-> SubSeq(y, s, e - 1), value |-> SubSeq(y, e + 2, j - 1)]
      BY DEF Field
    <3>2. SubSeq(y, e + 2, j - 1) = w
      <4>1. j - 1 = u  BY <1>0
      <4> QED  BY <1>5, <4>1
    <3> HIDE DEF y, j, w, p
    <3> QED  BY <1>5, <3>1, <3>2
  <2>5. Bytes(y, e + 2, Len(y), Visible)  BY <1>0, <1>4, <1>8
  <2>6. InValue(y, s, hs, Append(hs, [name |-> p, value |-> w]))
    <3>1. Len(y) + 1 = j  BY <1>0
    <3> HIDE DEF y, j, w, p
    <3> QED  BY <1>1, <1>2, <1>3, <2>4, <2>5, <3>1 DEF InValue
  <2> QED  BY <2>1, <2>3, <2>6
<1> QED  BY <1>7, <1>8

(* In more of a value: another byte of it, or its end. *)
LEMMA FoldValueGoesOn ==
  ASSUME NEW t \in Seq(Char), NEW c \in Char, NEW s \in 1..Len(t) + 1,
         NEW hs \in Seq(Header), NEW is, NEW e \in 1..Len(t),
         s < e, Bytes(t, s, e - 1, Blank), t[e] \notin Blank,
         Bytes(t, e, Len(t), Visible), hs # <<>>, is = Continued(hs, SubSeq(t, e, Len(t)))
  PROVE  LET y == Append(t, c) IN
         /\ c = "cr" => AtEndOfLine(y, s, hs, is)
         /\ c \in Visible =>
              AddValue(is, c) \in Seq(Header) /\ InValue(y, s, hs, AddValue(is, c))
<1> DEFINE y == Append(t, c)
           n == Len(t)
           u == n + 1
           v == SubSeq(t, e, n)
<1>0. /\ n \in Nat /\ y \in Seq(Char) /\ Len(y) = u /\ y[u] = c /\ u - 1 = n
      /\ Extends(y, t) /\ \A k \in 1..n : y[k] = t[k]
  BY Grown
<1>1. /\ e \in 1..Len(y) /\ e <= u /\ s < Len(y) /\ u \in 1..Len(y)
      /\ e \in 1..n + 1 /\ n \in e - 1..n /\ e \in Nat /\ e >= 1
      /\ s \in 1..n + 1 /\ s \in Nat
  BY <1>0
<1>2. y[e] \notin Blank  BY <1>0
<1>3. Bytes(y, s, e - 1, Blank)
  <2>1. \A k \in s..e - 1 : k \in 1..n  OBVIOUS
  <2> QED  BY <1>0, <2>1 DEF Bytes
<1>4. Bytes(y, e, n, Visible) /\ (c \in Visible => Bytes(y, e, u, Visible))
  BY <1>1, MoreBytes
<1>5. v \in Seq(Char) /\ SubSeq(y, e, n) = v /\ SubSeq(y, e, u) = Append(v, c)
  <2>2. v \in Seq(Char)  BY <1>1, Part
  <2>4. SubSeq(y, e, n) = v
    <3> HIDE DEF y
    <3> QED  BY <1>0, <1>1, SamePart
  <2>5. SubSeq(y, e, n + 1) = Append(SubSeq(t, e, n), c)  BY <1>1, LongerPart
  <2> QED  BY <2>2, <2>4, <2>5
<1>6. is = Continued(hs, v)  OBVIOUS
<1>7. ASSUME c = "cr" PROVE AtEndOfLine(y, s, hs, is)
  <2>1. FoldAt(y, s, e, u)
    <3>1. Bytes(y, e, u - 1, Visible)  BY <1>0, <1>4
    <3> HIDE DEF y, u, n
    <3> QED  BY <1>0, <1>1, <1>2, <1>3, <1>7, <3>1 DEF FoldAt
  <2>2. is = Continued(hs, SubSeq(y, e, u - 1))  BY <1>0, <1>5, <1>6
  <2> HIDE DEF y, u, v, n
  <2>4. LineSays(y, s, u, hs, is)  BY <1>1, <2>1, <2>2 DEF LineSays
  <2> QED  BY <1>0, <1>1, <2>4 DEF AtEndOfLine
<1>8. ASSUME c \in Visible
      PROVE  AddValue(is, c) \in Seq(Header) /\ InValue(y, s, hs, AddValue(is, c))
  <2> DEFINE w == Append(v, c)
  <2>1. AddValue(is, c) = Continued(hs, w)
    <3> HIDE DEF v
    <3> QED  BY <1>5, <1>6, ContinuedGrows
  <2>2. w \in Seq(Char)  BY <1>5
  <2>3. Continued(hs, w) \in Seq(Header)
    <3> HIDE DEF w
    <3> QED  BY <2>2, ContinuedGrows
  <2>4. SubSeq(y, e, Len(y)) = w /\ Bytes(y, e, Len(y), Visible)
    BY <1>0, <1>4, <1>5, <1>8
  <2>5. InValue(y, s, hs, Continued(hs, w))
    <3> HIDE DEF y, w, n, u
    <3> QED  BY <1>1, <1>2, <1>3, <2>4 DEF InValue
  <2> QED  BY <2>1, <2>3, <2>5
<1> QED  BY <1>7, <1>8

(* In either kind of value. *)
LEMMA ValueGoesOn ==
  ASSUME NEW t \in Seq(Char), NEW c \in Char, NEW s \in 1..Len(t) + 1,
         NEW hs \in Seq(Header), NEW is, InValue(t, s, hs, is)
  PROVE  LET y == Append(t, c) IN
         /\ c = "cr" => AtEndOfLine(y, s, hs, is)
         /\ c \in Visible =>
              AddValue(is, c) \in Seq(Header) /\ InValue(y, s, hs, AddValue(is, c))
<1> DEFINE y == Append(t, c)
           G == /\ c = "cr" => AtEndOfLine(y, s, hs, is)
                /\ c \in Visible =>
                     AddValue(is, c) \in Seq(Header) /\ InValue(y, s, hs, AddValue(is, c))
<1>1. CASE \E e \in 1..Len(t) :
              /\ s < e /\ e < Len(t) /\ Bytes(t, s, e - 1, Token)
              /\ t[e] = ":" /\ t[e + 1] = "space" /\ Bytes(t, e + 2, Len(t), Visible)
              /\ is = Append(hs, Field(t, s, e, Len(t) + 1))
  <2>1. PICK e \in 1..Len(t) :
              /\ s < e /\ e < Len(t) /\ Bytes(t, s, e - 1, Token)
              /\ t[e] = ":" /\ t[e + 1] = "space" /\ Bytes(t, e + 2, Len(t), Visible)
              /\ is = Append(hs, Field(t, s, e, Len(t) + 1))
    BY <1>1
  <2>2. G  BY <2>1, FieldValueGoesOn
  <2> HIDE DEF G
  <2> QED  BY <2>2 DEF G
<1>2. CASE \E e \in 1..Len(t) :
              /\ s < e /\ Bytes(t, s, e - 1, Blank) /\ t[e] \notin Blank
              /\ Bytes(t, e, Len(t), Visible)
              /\ hs # <<>> /\ is = Continued(hs, SubSeq(t, e, Len(t)))
  <2>1. PICK e \in 1..Len(t) :
              /\ s < e /\ Bytes(t, s, e - 1, Blank) /\ t[e] \notin Blank
              /\ Bytes(t, e, Len(t), Visible)
              /\ hs # <<>> /\ is = Continued(hs, SubSeq(t, e, Len(t)))
    BY <1>2
  <2>2. G  BY <2>1, FoldValueGoesOn
  <2> HIDE DEF G
  <2> QED  BY <2>2 DEF G
<1> QED  BY <1>1, <1>2 DEF InValue

(* The end of a line, and the beginning of the next.                       *)
LEMMA LineEnds ==
  ASSUME NEW t \in Seq(Char),
         NEW f \in 1..Len(t), NEW s \in 1..Len(t) + 1, NEW h, NEW is \in Seq(Header),
         h \in [0..s - 1 -> Seq(Header)], Whole(t, f, s, h),
         AtEndOfLine(t, s, h[s - 1], is)
  PROVE  \E g \in [0..Len(t) + 1 -> Seq(Header)] :
           g[Len(t) + 1] = is /\ Whole(Append(t, "lf"), f, Len(t) + 2, g)
<1> DEFINE y == Append(t, "lf")
           n == Len(t)
           g == [i \in 0..n + 1 |-> IF i < s THEN h[i] ELSE is]
<1>0. /\ n \in Nat /\ y \in Seq(Char) /\ Len(y) = n + 1 /\ y[n + 1] = "lf"
      /\ Extends(y, t) /\ \A k \in 1..n : y[k] = t[k]
  <2>1. "lf" \in Char  BY DEF Char
  <2> QED  BY <2>1, Grown
<1>1. s < n /\ s \in 1..n /\ n \in 1..n /\ LineSays(t, s, n, h[s - 1], is)
  BY <1>0 DEF AtEndOfLine
<1>2. t[n] = "cr" /\ \A k \in s..n - 1 : t[k] \notin {"cr", "lf"}
  <2>1. s \in Nat /\ n \in Nat  BY <1>0
  <2> QED  BY <1>1, <2>1, LineBytes
<1>3. /\ f + 2 <= s /\ t[s - 1] = "lf"
      /\ \A i \in 1..s - 2 : t[i] = "cr" <=> t[i + 1] = "lf"
      /\ \A i \in f + 2..s - 1 :
           IF t[i - 1] = "lf"
           THEN \E j \in i + 1..s - 2 : LineSays(t, i, j, h[i - 1], h[i])
           ELSE h[i] = h[i - 1]
      /\ \A i \in 0..f + 1 : h[i] = <<>>
      /\ \A i \in f + 2..s - 1 : h[i] # <<>>
  BY DEF Whole
<1>4. g \in [0..n + 1 -> Seq(Header)]
  <2>1. \A i \in 0..n + 1 : i < s => i \in 0..s - 1  OBVIOUS
  <2> QED  BY <2>1
<1>5. \A i \in 0..n + 1 : (i < s => g[i] = h[i]) /\ (i >= s => g[i] = is)
  <2>1. s \in Int /\ \A i \in 0..n + 1 : i \in Int  BY <1>0
  <2>2. \A i \in 0..n + 1 : g[i] = IF i < s THEN h[i] ELSE is  BY Zenon
  <2> HIDE DEF g, n
  <2> QED  BY <2>1, <2>2
<1>6. LineSays(y, s, n, h[s - 1], is)
  <2> HIDE DEF y
  <2> QED  BY <1>0, <1>1, SameLine
<1> HIDE DEF g
<1>7. \A i \in 1..(n + 2) - 2 : y[i] = "cr" <=> y[i + 1] = "lf"
  <2> SUFFICES ASSUME NEW i \in 1..n PROVE y[i] = "cr" <=> y[i + 1] = "lf"
    OBVIOUS
  <2>1. CASE i \in 1..s - 2
    <3>1. i \in 1..n /\ i + 1 \in 1..n  BY <1>1, <2>1
    <3> HIDE DEF y
    <3> QED  BY <1>0, <1>3, <2>1, <3>1
  <2>2. CASE i = s - 1
    <3>1. i + 1 = s /\ s \in s..n - 1  BY <1>1, <2>2
    <3>2. y[i] = "lf" /\ y[i + 1] # "lf"  BY <1>0, <1>1, <1>2, <1>3, <2>2, <3>1
    <3> QED  BY <3>2
  <2>3. CASE i \in s..n - 1
    <3>1. i + 1 = n \/ i + 1 \in s..n - 1  BY <2>3
    <3>2. i + 1 \in 1..n  BY <2>3
    <3>3. t[i + 1] # "lf"  BY <1>2, <3>1
    <3> HIDE DEF y
    <3> QED  BY <1>0, <1>2, <2>3, <3>2, <3>3
  <2>4. CASE i = n
    BY <1>0, <1>2, <2>4
  <2>5. i \in 1..s - 2 \/ i = s - 1 \/ i \in s..n - 1 \/ i = n  OBVIOUS
  <2> QED  BY <2>1, <2>2, <2>3, <2>4, <2>5
<1>8. ASSUME NEW i \in f + 2..(n + 2) - 1
      PROVE  IF y[i - 1] = "lf"
             THEN \E j \in i + 1..(n + 2) - 2 : LineSays(y, i, j, g[i - 1], g[i])
             ELSE g[i] = g[i - 1]
  <2>0. i \in f + 2..n + 1 /\ i \in 0..n + 1 /\ i - 1 \in 0..n + 1 /\ i - 1 \in 1..n
    OBVIOUS
  <2>1. CASE i < s
    <3>1. g[i] = h[i] /\ g[i - 1] = h[i - 1] /\ i \in f + 2..s - 1 /\ i \in 1..n
      <4>1. s \in Int /\ i \in Int /\ f \in Int /\ f >= 1 /\ n \in Nat /\ s <= n
        BY <1>0, <1>1
      <4> HIDE DEF n
      <4>2. i - 1 < s /\ i \in f + 2..s - 1 /\ i \in 1..n  BY <2>0, <2>1, <4>1
      <4> QED  BY <1>5, <2>0, <2>1, <4>2
    <3>2. y[i - 1] = t[i - 1]  BY <1>0, <2>0
    <3>3. CASE t[i - 1] = "lf"
      <4>1. PICK j \in i + 1..s - 2 : LineSays(t, i, j, h[i - 1], h[i])
        BY <1>3, <3>1, <3>3
      <4>2. j \in 1..n /\ j \in i + 1..(n + 2) - 2  BY <1>1, <2>0
      <4>3. LineSays(y, i, j, h[i - 1], h[i])
        <5> HIDE DEF y
        <5> QED  BY <1>0, <3>1, <4>1, <4>2, SameLine
      <4> HIDE DEF y
      <4> QED  BY <3>1, <3>2, <3>3, <4>2, <4>3
    <3>4. CASE t[i - 1] # "lf"
      <4> HIDE DEF y
      <4> QED  BY <1>3, <3>1, <3>2, <3>4
    <3> QED  BY <3>3, <3>4
  <2>2. CASE i = s
    <3>1. g[i] = is /\ g[i - 1] = h[s - 1]  BY <1>5, <2>0, <2>2
    <3>2. n \in i + 1..(n + 2) - 2  BY <1>1, <2>2
    <3>3. LineSays(y, i, n, g[i - 1], g[i])  BY <1>6, <2>2, <3>1
    <3>4. y[i - 1] = "lf"  BY <1>0, <1>3, <2>0, <2>2
    <3> HIDE DEF y
    <3> QED  BY <3>2, <3>3, <3>4
  <2>3. CASE i > s
    <3>0. s \in Int /\ i \in Int /\ n \in Nat /\ i - 1 >= s /\ i >= s  BY <1>0, <2>3
    <3>1. g[i] = is /\ g[i - 1] = is
      <4> HIDE DEF n
      <4> QED  BY <1>5, <2>0, <3>0
    <3>2. y[i - 1] # "lf"
      <4>1. i - 1 = n \/ i - 1 \in s..n - 1
        <5> HIDE DEF n
        <5> QED  BY <2>0, <3>0
      <4> QED  BY <1>0, <1>2, <2>0, <4>1
    <3> HIDE DEF y
    <3> QED  BY <3>1, <3>2
  <2>4. i < s \/ i = s \/ i > s  OBVIOUS
  <2> QED  BY <2>1, <2>2, <2>3, <2>4
<1>9. \A i \in 0..f + 1 : g[i] = <<>>
  <2>1. \A i \in 0..f + 1 : i \in 0..n + 1 /\ i < s  BY <1>3
  <2> QED  BY <1>3, <1>5, <2>1
<1>10. \A i \in f + 2..(n + 2) - 1 : g[i] # <<>>
  <2>1. is # <<>>
    <3>1. CASE \E c \in 1..n : FieldAt(t, s, c, n) /\ is = Append(h[s - 1], Field(t, s, c, n))
      <4> DEFINE o == h[s - 1]
      <4>1. o \in Seq(Header)  OBVIOUS
      <4>2. PICK c \in 1..n : FieldAt(t, s, c, n) /\ is = Append(o, Field(t, s, c, n))
        BY <3>1
      <4> DEFINE r == Field(t, s, c, n)
                 p == SubSeq(t, s, c - 1)
                 v == SubSeq(t, c + 2, n - 1)
      <4>3. r \in Header
        <5>1. s < c /\ c + 1 < n  BY <4>2 DEF FieldAt
        <5>2. p \in Seq(Char)
          <6>1. c - 1 \in s - 1..Len(t)  BY <5>1
          <6> QED  BY <6>1, Part
        <5>3. v \in Seq(Char)
          <6>1. c + 2 \in 1..Len(t) + 1 /\ n - 1 \in (c + 2) - 1..Len(t)  BY <5>1
          <6> QED  BY <6>1, Part
        <5>4. r = [name |-> p, value |-> v]  BY DEF Field
        <5> HIDE DEF r, p, v
        <5> QED  BY <5>2, <5>3, <5>4 DEF Header
      <4> HIDE DEF o, r
      <4>4. Append(o, r) # <<>>
        <5>1. Append(o, r) \in Seq(Header) /\ Len(Append(o, r)) = Len(o) + 1  BY <4>1, <4>3
        <5> DEFINE z == Append(o, r)
        <5>2. z \in Seq(Header) /\ Len(z) # 0  BY <4>1, <5>1
        <5> HIDE DEF z
        <5>3. z # <<>>  BY <5>2, EmptySeq
        <5> QED  BY <5>3 DEF z
      <4> QED  BY <4>2, <4>4 DEF r
    <3>2. CASE /\ h[s - 1] # <<>>
               /\ \E v \in 1..n : /\ is = Continued(h[s - 1], SubSeq(t, v, n - 1)) 
                                  /\ s < v /\ v <= n
      <4>1. PICK v \in 1..n : is = Continued(h[s - 1], SubSeq(t, v, n - 1)) /\ v <= n
        BY <3>2
      <4> DEFINE o == h[s - 1]
                 q == SubSeq(t, v, n - 1)
      <4>2. o \in Seq(Header) /\ o # <<>>  BY <3>2
      <4>3. q \in Seq(Char)
        <5>1. v \in 1..Len(t) + 1 /\ n - 1 \in v - 1..Len(t)  BY <4>1
        <5> QED  BY <5>1, Part
      <4> HIDE DEF o, q
      <4>4. "lf" \in Char  BY DEF Char
      <4>5. Continued(o, q) \in Seq(Header) /\ Len(Continued(o, q)) = Len(o)
        BY <4>2, <4>3, <4>4, ContinuedGrows
      <4>6. Len(o) # 0  BY <4>2, EmptySeq
      <4>7. Continued(o, q) # <<>>  BY <4>5, <4>6, EmptySeq
      <4> QED  BY <4>1, <4>7 DEF o, q
    <3> QED  BY <1>1, <3>1, <3>2 DEF LineSays, FoldAt
  <2> SUFFICES ASSUME NEW i \in f + 2..(n + 2) - 1 PROVE g[i] # <<>>
    OBVIOUS
  <2>2. i \in 0..n + 1 /\ (i < s => i \in f + 2..s - 1) /\ (i < s \/ i >= s)
    BY <1>0
  <2> HIDE DEF n
  <2> QED  BY <1>3, <1>5, <2>1, <2>2
<1>11. f + 2 <= n + 2 /\ n + 2 <= Len(y) + 1 /\ y[(n + 2) - 1] = "lf"
  <2>1. (n + 2) - 1 = n + 1  OBVIOUS
  <2> QED  BY <1>0, <2>1
<1>12. Whole(y, f, n + 2, g)
  <2> DEFINE z == n + 2
  <2> HIDE DEF y, z
  <2> QED  BY <1>7, <1>8, <1>9, <1>10, <1>11 DEF Whole, z
<1>13. g[n + 1] = is
  <2>1. n + 1 \in 0..n + 1 /\ n + 1 >= s  BY <1>0, <1>1
  <2> HIDE DEF n
  <2> QED  BY <1>5, <2>1
<1> HIDE DEF y
<1> QED  BY <1>4, <1>12, <1>13 DEF y

-----------------------------------------------------------------------------
(* What a byte leads to from the end of the request line, and in headers.  *)
LEMMA FromNewline1 ==
  ASSUME NEW t \in Seq(Char), NEW c \in Char, NEW req \in Request, LineRead(t, req)
  PROVE  Moves("expecting_newline_1", t, c, req)
<1> DEFINE y == Append(t, c)
           n == Len(t)
           s == n + 2
           h == [i \in 0..n + 1 |-> <<>>]
<1>0. /\ n \in Nat /\ y \in Seq(Char) /\ Len(y) = n + 1 /\ y[n + 1] = c
      /\ Extends(y, t) /\ \A k \in 1..n : y[k] = t[k]
  BY Grown
<1>1. PICK a \in 1..n, b \in 1..n, d \in 1..n :
        RequestAt(t, a, b, d, n) /\ req = RequestOf(t, a, b, d, n, <<>>)
  BY DEF LineRead
<1>2. n \in 1..n  BY <1>0
<1>3. RequestAt(y, a, b, d, n)
  <2> HIDE DEF y
  <2> QED  BY <1>0, <1>1, <1>2, SameRequest
<1>4. req = RequestOf(y, a, b, d, n, <<>>)
  <2> DEFINE o == <<>>
  <2> HIDE DEF y, o
  <2>1. RequestOf(y, a, b, d, n, o) = RequestOf(t, a, b, d, n, o)
    BY <1>0, <1>1, <1>2, SameRequestOf
  <2> QED  BY <1>1, <2>1 DEF o
<1>5. t[n] = "cr" /\ \A k \in 1..n - 1 : t[k] \notin {"cr", "lf"}
  <2>1. MajorAt(t, a, b, d) /\ Bytes(t, d + 1, n - 1, is_digit) /\ t[n] = "cr"
    BY <1>1 DEF RequestAt
  <2>2. \A k \in 1..n - 1 : t[k] \notin {"cr", "lf"}
    <3> HIDE DEF n
    <3> QED  BY <1>0, <2>1, RequestBytes DEF n
  <2> QED  BY <2>1, <2>2
<1>6. Goto("expecting_newline_1", c, req) = IF c = "lf" THEN "header_line_start" ELSE "bad"
  BY GotoTable
<1>7. Store(req, "expecting_newline_1", c, "header_line_start") = req  BY DEF Store
<1>8. ASSUME c = "lf" PROVE Parsed("header_line_start", y, req)
  <2>1. h \in [0..s - 1 -> Seq(Header)]
    <3>1. s - 1 = n + 1 /\ <<>> \in Seq(Header)  BY <1>0
    <3> QED  BY <3>1
  <2>2. \A i \in 0..n + 1 : h[i] = <<>>  OBVIOUS
  <2>3. \A i \in 1..s - 2 : y[i] = "cr" <=> y[i + 1] = "lf"
    <3> SUFFICES ASSUME NEW i \in 1..n PROVE y[i] = "cr" <=> y[i + 1] = "lf"
      BY <1>0
    <3>1. CASE i = n  BY <1>0, <1>2, <1>5, <1>8, <3>1
    <3>2. CASE i # n
      <4>1. i \in 1..n - 1 /\ i + 1 \in 1..n /\ (i + 1 = n \/ i + 1 \in 1..n - 1)
        BY <1>0, <3>2
      <4>2. y[i] = t[i] /\ y[i + 1] = t[i + 1]  BY <1>0, <4>1
      <4>3. t[i] # "cr" /\ t[i + 1] # "lf"  BY <1>5, <4>1
      <4> QED  BY <4>2, <4>3
    <3> QED  BY <3>1, <3>2
  <2>4. s = Len(y) + 1 /\ y[s - 1] = "lf" /\ s - 1 = n + 1 /\ s \in 1..Len(y) + 1
    BY <1>0, <1>8
  <2>5. \A i \in n + 2..s - 1 : FALSE  BY <1>0
  <2> HIDE DEF y, h
  <2>6. Whole(y, n, s, h)
    <3>1. n + 2 <= s /\ s <= Len(y) + 1  BY <1>0
    <3> HIDE DEF s, n
    <3> QED  BY <2>2, <2>3, <2>4, <2>5, <3>1 DEF Whole
  <2>7. h[s - 1] = <<>>
    <3>1. n + 1 \in 0..n + 1  BY <1>0
    <3> HIDE DEF s
    <3> QED  BY <2>2, <2>4, <3>1
  <2> HIDE DEF s
  <2>8. HeadersAt(y, req, a, b, d, n, s, h, <<>>)
    <3>1. <<>> \in Seq(Header)  OBVIOUS
    <3> QED  BY <1>3, <1>4, <2>1, <2>6, <3>1 DEF HeadersAt
  <2>9. LineSoFar("header_line_start", y, s, h[s - 1], <<>>)
    BY <2>4, <2>7 DEF LineSoFar, InLine
  <2>10. a \in 1..Len(y) /\ b \in 1..Len(y) /\ d \in 1..Len(y) /\ n \in 1..Len(y)
    BY <1>0, <1>2
  <2>11. InHeaders("header_line_start", y, req)
    BY <2>4, <2>8, <2>9, <2>10 DEF InHeaders
  <2> QED  BY <2>11 DEF Parsed, HeaderState
<1> HIDE DEF y
<1> QED  BY <1>6, <1>7, <1>8 DEF Moves, y

(* From each state of the header lines: at the start of a line, *)
LEMMA FromLineStart ==
  ASSUME NEW t \in Seq(Char), NEW c \in Char, NEW req \in Request,
         InHeaders("header_line_start", t, req)
  PROVE  Moves("header_line_start", t, c, req)
<1> DEFINE y == Append(t, c)
<1>0. PICK a \in 1..Len(t), b \in 1..Len(t), d \in 1..Len(t), f \in 1..Len(t),
           s \in 1..Len(t) + 1 : \E h, is :
        /\ HeadersAt(t, req, a, b, d, f, s, h, is)
        /\ LineSoFar("header_line_start", t, s, h[s - 1], is)
  BY DEF InHeaders
<1>1. PICK h, is :
        /\ HeadersAt(t, req, a, b, d, f, s, h, is)
        /\ LineSoFar("header_line_start", t, s, h[s - 1], is)
  BY <1>0
<1> DEFINE hs == h[s - 1]
           ls == Append(is, [name |-> <<c>>, value |-> <<>>])
<1>2. hs \in Seq(Header) /\ is \in Seq(Header) /\ req.headers = is
  <2>1. s - 1 \in 0..s - 1  OBVIOUS
  <2> QED  BY <1>1, <2>1 DEF HeadersAt, RequestOf, Req
<1>3. InLine(t, s, hs, is)  BY <1>1 DEF LineSoFar
<1> HIDE DEF hs
<1>4. /\ c = "cr" => AtLastLine(y, s, hs, is)
      /\ c \in Blank /\ is # <<>> => InBlanks(y, s, hs, is)
      /\ c \in Token => ls \in Seq(Header) /\ InFieldName(y, s, hs, ls)
  BY <1>2, <1>3, LineBegins
<1>5. Goto("header_line_start", c, req) =
         IF c = "cr" THEN "expecting_newline_3"
         ELSE IF c \in Blank /\ req.headers # <<>> THEN "header_lws"
         ELSE IF c \in Token THEN "header_name" ELSE "bad"
  BY GotoTable
<1>6. /\ Store(req, "header_line_start", c, "expecting_newline_3") = req
      /\ Store(req, "header_line_start", c, "header_lws") = req
  BY DEF Store
<1>7. Store(req, "header_line_start", c, "header_name") = [req EXCEPT !.headers = ls]
  <2>1. Store(req, "header_line_start", c, "header_name") =
          [req EXCEPT !.headers = Append(@, [name |-> <<c>>, value |-> <<>>])]
    BY DEF Store
  <2> QED  BY <1>2, <2>1
<1> HIDE DEF ls
<1>8. ASSUME c = "cr" PROVE Parsed("expecting_newline_3", y, req)
  <2>1. LineSoFar("expecting_newline_3", y, s, hs, is)  BY <1>4, <1>8 DEF LineSoFar
  <2> QED  BY <1>1, <2>1, IntoLineSame DEF HeaderState, hs
<1>9. ASSUME c \in Blank, is # <<>> PROVE Parsed("header_lws", y, req)
  <2>1. LineSoFar("header_lws", y, s, hs, is)  BY <1>4, <1>9 DEF LineSoFar
  <2> QED  BY <1>1, <2>1, IntoLineSame DEF HeaderState, hs
<1>10. ASSUME c \in Token PROVE Parsed("header_name", y, [req EXCEPT !.headers = ls])
  <2>1. LineSoFar("header_name", y, s, hs, ls) /\ ls \in Seq(Header)
    BY <1>4, <1>10 DEF LineSoFar
  <2> QED  BY <1>1, <2>1, IntoLine DEF HeaderState, hs
<1> HIDE DEF y
<1> QED  BY <1>2, <1>5, <1>6, <1>7, <1>8, <1>9, <1>10 DEF Moves, y

(* in the blanks of a folded one, *)
LEMMA FromBlanks ==
  ASSUME NEW t \in Seq(Char), NEW c \in Char, NEW req \in Request,
         InHeaders("header_lws", t, req)
  PROVE  Moves("header_lws", t, c, req)
<1> DEFINE y == Append(t, c)
<1>0. PICK a \in 1..Len(t), b \in 1..Len(t), d \in 1..Len(t), f \in 1..Len(t),
           s \in 1..Len(t) + 1 : \E h, is :
        HeadersAt(t, req, a, b, d, f, s, h, is) /\ LineSoFar("header_lws", t, s, h[s - 1], is)
  BY DEF InHeaders
<1>1. PICK h, is :
        HeadersAt(t, req, a, b, d, f, s, h, is) /\ LineSoFar("header_lws", t, s, h[s - 1], is)
  BY <1>0
<1> DEFINE hs == h[s - 1]
           ls == AddValue(is, c)
<1>2. hs \in Seq(Header) /\ is \in Seq(Header) /\ req.headers = is
  <2>1. s - 1 \in 0..s - 1  OBVIOUS
  <2> QED  BY <1>1, <2>1 DEF HeadersAt, RequestOf, Req
<1>3. InBlanks(t, s, hs, is)  BY <1>1 DEF LineSoFar
<1> HIDE DEF hs
<1>4. /\ c = "cr" => AtEndOfLine(y, s, hs, is)
      /\ c \in Blank => InBlanks(y, s, hs, is)
      /\ c \in Visible \ Blank => ls \in Seq(Header) /\ InValue(y, s, hs, ls)
  BY <1>2, <1>3, BlanksGoOn
<1>5. Goto("header_lws", c, req) =
         IF c = "cr" THEN "expecting_newline_2"
         ELSE IF c \in Blank THEN "header_lws"
         ELSE IF c \in Visible THEN "header_value" ELSE "bad"
  BY GotoTable
<1>6. /\ Store(req, "header_lws", c, "expecting_newline_2") = req
      /\ Store(req, "header_lws", c, "header_lws") = req
  BY DEF Store
<1>7. Store(req, "header_lws", c, "header_value") = [req EXCEPT !.headers = ls]
  <2>1. Store(req, "header_lws", c, "header_value") = AddToValue(req, c)  BY StoreTable
  <2> QED  BY <1>2, <2>1, LastOfRequest
<1> HIDE DEF ls
<1>8. ASSUME c = "cr" PROVE Parsed("expecting_newline_2", y, req)
  <2>1. LineSoFar("expecting_newline_2", y, s, hs, is)  BY <1>4, <1>8 DEF LineSoFar
  <2> QED  BY <1>1, <2>1, IntoLineSame DEF HeaderState, hs
<1>9. ASSUME c \in Blank PROVE Parsed("header_lws", y, req)
  <2>1. LineSoFar("header_lws", y, s, hs, is)  BY <1>4, <1>9 DEF LineSoFar
  <2> QED  BY <1>1, <2>1, IntoLineSame DEF HeaderState, hs
<1>10. ASSUME c \in Visible \ Blank
       PROVE  Parsed("header_value", y, [req EXCEPT !.headers = ls])
  <2>1. LineSoFar("header_value", y, s, hs, ls) /\ ls \in Seq(Header)
    BY <1>4, <1>10 DEF LineSoFar
  <2> QED  BY <1>1, <2>1, IntoLine DEF HeaderState, hs
<1> HIDE DEF y
<1> QED  BY <1>5, <1>6, <1>7, <1>8, <1>9, <1>10 DEF Moves, y

(* in a name, *)
LEMMA FromFieldName ==
  ASSUME NEW t \in Seq(Char), NEW c \in Char, NEW req \in Request,
         InHeaders("header_name", t, req)
  PROVE  Moves("header_name", t, c, req)
<1> DEFINE y == Append(t, c)
<1>0. PICK a \in 1..Len(t), b \in 1..Len(t), d \in 1..Len(t), f \in 1..Len(t),
           s \in 1..Len(t) + 1 : \E h, is :
        HeadersAt(t, req, a, b, d, f, s, h, is) /\ LineSoFar("header_name", t, s, h[s - 1], is)
  BY DEF InHeaders
<1>1. PICK h, is :
        HeadersAt(t, req, a, b, d, f, s, h, is) /\ LineSoFar("header_name", t, s, h[s - 1], is)
  BY <1>0
<1> DEFINE hs == h[s - 1]
           ls == AddName(is, c)
<1>2. hs \in Seq(Header) /\ is \in Seq(Header) /\ req.headers = is
  <2>1. s - 1 \in 0..s - 1  OBVIOUS
  <2> QED  BY <1>1, <2>1 DEF HeadersAt, RequestOf, Req
<1>3. InFieldName(t, s, hs, is)  BY <1>1 DEF LineSoFar
<1> HIDE DEF hs
<1>4. /\ c = ":" => AtColon(y, s, hs, is)
      /\ c \in Token => ls \in Seq(Header) /\ InFieldName(y, s, hs, ls)
  BY <1>2, <1>3, NameGoesOn
<1>5. Goto("header_name", c, req) =
         IF c = ":" THEN "space_before_header_value"
         ELSE IF c \in Token THEN "header_name" ELSE "bad"
  BY GotoTable
<1>6. Store(req, "header_name", c, "space_before_header_value") = req
  BY DEF Store
<1>7. Store(req, "header_name", c, "header_name") = [req EXCEPT !.headers = ls]
  <2>1. Store(req, "header_name", c, "header_name") = AddToName(req, c)  BY StoreTable
  <2> QED  BY <1>2, <2>1, LastOfRequest
<1> HIDE DEF ls
<1>8. ASSUME c = ":" PROVE Parsed("space_before_header_value", y, req)
  <2>1. LineSoFar("space_before_header_value", y, s, hs, is)  BY <1>4, <1>8 DEF LineSoFar
  <2> QED  BY <1>1, <2>1, IntoLineSame DEF HeaderState, hs
<1>10. ASSUME c \in Token PROVE Parsed("header_name", y, [req EXCEPT !.headers = ls])
  <2>1. LineSoFar("header_name", y, s, hs, ls) /\ ls \in Seq(Header)
    BY <1>4, <1>10 DEF LineSoFar
  <2> QED  BY <1>1, <2>1, IntoLine DEF HeaderState, hs
<1> HIDE DEF y
<1> QED  BY <1>5, <1>6, <1>7, <1>8, <1>10 DEF Moves, y

(* after the colon, *)
LEMMA FromColon ==
  ASSUME NEW t \in Seq(Char), NEW c \in Char, NEW req \in Request,
         InHeaders("space_before_header_value", t, req)
  PROVE  Moves("space_before_header_value", t, c, req)
<1> DEFINE y == Append(t, c)
<1>0. PICK a \in 1..Len(t), b \in 1..Len(t), d \in 1..Len(t), f \in 1..Len(t),
           s \in 1..Len(t) + 1 : \E h, is :
        /\ HeadersAt(t, req, a, b, d, f, s, h, is)
        /\ LineSoFar("space_before_header_value", t, s, h[s - 1], is)
  BY DEF InHeaders
<1>1. PICK h, is :
        /\ HeadersAt(t, req, a, b, d, f, s, h, is)
        /\ LineSoFar("space_before_header_value", t, s, h[s - 1], is)
  BY <1>0
<1> DEFINE hs == h[s - 1]
<1>2. hs \in Seq(Header) /\ is \in Seq(Header)
  <2>1. s - 1 \in 0..s - 1  OBVIOUS
  <2> QED  BY <1>1, <2>1 DEF HeadersAt
<1>3. AtColon(t, s, hs, is)  BY <1>1 DEF LineSoFar
<1> HIDE DEF hs
<1>4. c = "space" => InValue(y, s, hs, is)  BY <1>2, <1>3, ColonGoesOn
<1>5. Goto("space_before_header_value", c, req) =
         IF c = "space" THEN "header_value" ELSE "bad"
  BY GotoTable
<1>6. Store(req, "space_before_header_value", c, "header_value") = req  BY StoreTable
<1>8. ASSUME c = "space" PROVE Parsed("header_value", y, req)
  <2>1. LineSoFar("header_value", y, s, hs, is)  BY <1>4, <1>8 DEF LineSoFar
  <2> QED  BY <1>1, <2>1, IntoLineSame DEF HeaderState, hs
<1> HIDE DEF y
<1> QED  BY <1>5, <1>6, <1>8 DEF Moves, y

(* in a value, *)
LEMMA FromValue ==
  ASSUME NEW t \in Seq(Char), NEW c \in Char, NEW req \in Request,
         InHeaders("header_value", t, req)
  PROVE  Moves("header_value", t, c, req)
<1> DEFINE y == Append(t, c)
<1>0. PICK a \in 1..Len(t), b \in 1..Len(t), d \in 1..Len(t), f \in 1..Len(t),
           s \in 1..Len(t) + 1 : \E h, is :
        HeadersAt(t, req, a, b, d, f, s, h, is) /\ LineSoFar("header_value", t, s, h[s - 1], is)
  BY DEF InHeaders
<1>1. PICK h, is :
        HeadersAt(t, req, a, b, d, f, s, h, is) /\ LineSoFar("header_value", t, s, h[s - 1], is)
  BY <1>0
<1> DEFINE hs == h[s - 1]
           ls == AddValue(is, c)
<1>2. hs \in Seq(Header) /\ is \in Seq(Header) /\ req.headers = is
  <2>1. s - 1 \in 0..s - 1  OBVIOUS
  <2> QED  BY <1>1, <2>1 DEF HeadersAt, RequestOf, Req
<1>3. InValue(t, s, hs, is)  BY <1>1 DEF LineSoFar
<1> HIDE DEF hs
<1>4. /\ c = "cr" => AtEndOfLine(y, s, hs, is)
      /\ c \in Visible => ls \in Seq(Header) /\ InValue(y, s, hs, ls)
  BY <1>2, <1>3, ValueGoesOn
<1>5. Goto("header_value", c, req) =
         IF c = "cr" THEN "expecting_newline_2"
         ELSE IF c \in Visible THEN "header_value" ELSE "bad"
  BY GotoTable
<1>6. Store(req, "header_value", c, "expecting_newline_2") = req  BY DEF Store
<1>7. Store(req, "header_value", c, "header_value") = [req EXCEPT !.headers = ls]
  <2>1. Store(req, "header_value", c, "header_value") = AddToValue(req, c)  BY StoreTable
  <2> QED  BY <1>2, <2>1, LastOfRequest
<1> HIDE DEF ls
<1>8. ASSUME c = "cr" PROVE Parsed("expecting_newline_2", y, req)
  <2>1. LineSoFar("expecting_newline_2", y, s, hs, is)  BY <1>4, <1>8 DEF LineSoFar
  <2> QED  BY <1>1, <2>1, IntoLineSame DEF HeaderState, hs
<1>10. ASSUME c \in Visible PROVE Parsed("header_value", y, [req EXCEPT !.headers = ls])
  <2>1. LineSoFar("header_value", y, s, hs, ls) /\ ls \in Seq(Header)
    BY <1>4, <1>10 DEF LineSoFar
  <2> QED  BY <1>1, <2>1, IntoLine DEF HeaderState, hs
<1> HIDE DEF y
<1> QED  BY <1>5, <1>6, <1>7, <1>8, <1>10 DEF Moves, y

(* at the end of the line, *)
LEMMA FromNewline2 ==
  ASSUME NEW t \in Seq(Char), NEW c \in Char, NEW req \in Request,
         InHeaders("expecting_newline_2", t, req)
  PROVE  Moves("expecting_newline_2", t, c, req)
<1> DEFINE y == Append(t, "lf")
           n == Len(t)
           z == n + 2
<1>0. PICK a \in 1..Len(t), b \in 1..Len(t), d \in 1..Len(t), f \in 1..Len(t),
           s \in 1..Len(t) + 1 : \E h, is :
        /\ HeadersAt(t, req, a, b, d, f, s, h, is)
        /\ LineSoFar("expecting_newline_2", t, s, h[s - 1], is)
  BY DEF InHeaders
<1>1. PICK h, is :
        /\ HeadersAt(t, req, a, b, d, f, s, h, is)
        /\ LineSoFar("expecting_newline_2", t, s, h[s - 1], is)
  BY <1>0
<1>2. /\ h \in [0..s - 1 -> Seq(Header)] /\ is \in Seq(Header)
      /\ RequestAt(t, a, b, d, f) /\ Whole(t, f, s, h)
      /\ req = RequestOf(t, a, b, d, f, is)
  BY <1>1 DEF HeadersAt
<1>3. AtEndOfLine(t, s, h[s - 1], is)  BY <1>1 DEF LineSoFar
<1>4. PICK g \in [0..Len(t) + 1 -> Seq(Header)] :
        g[Len(t) + 1] = is /\ Whole(y, f, Len(t) + 2, g)
  BY <1>2, <1>3, LineEnds
<1>5. Goto("expecting_newline_2", c, req) = IF c = "lf" THEN "header_line_start" ELSE "bad"
  BY GotoTable
<1>6. Store(req, "expecting_newline_2", c, "header_line_start") = req  BY DEF Store
<1>7. y \in Seq(Char) /\ Len(y) = n + 1 /\ Extends(y, t) /\ n \in Nat
  <2>1. "lf" \in Char  BY DEF Char
  <2> QED  BY <2>1, Grown
<1> HIDE DEF y
<1>8. RequestAt(y, a, b, d, f)  BY <1>2, <1>7, SameRequest
<1>9. req = RequestOf(y, a, b, d, f, is)  BY <1>2, <1>7, SameRequestOf
<1>10. z - 1 = n + 1 /\ z = Len(y) + 1 /\ z \in 1..Len(y) + 1  BY <1>7
<1>11. HeadersAt(y, req, a, b, d, f, z, g, is)
  <2>1. g \in [0..z - 1 -> Seq(Header)] /\ Whole(y, f, z, g)  BY <1>4, <1>10
  <2> HIDE DEF z
  <2> QED  BY <1>2, <1>8, <1>9, <2>1 DEF HeadersAt
<1>12. LineSoFar("header_line_start", y, z, g[z - 1], is)
  <2>1. g[z - 1] = is  BY <1>4, <1>10
  <2> HIDE DEF z
  <2> QED  BY <1>10, <2>1 DEF LineSoFar, InLine
<1>13. Parsed("header_line_start", y, req)
  <2>1. a \in 1..Len(y) /\ b \in 1..Len(y) /\ d \in 1..Len(y) /\ f \in 1..Len(y)  BY <1>7
  <2> HIDE DEF z
  <2>2. InHeaders("header_line_start", y, req)
    BY <1>10, <1>11, <1>12, <2>1 DEF InHeaders
  <2> QED  BY <2>2 DEF Parsed, HeaderState
<1> QED  BY <1>5, <1>6, <1>13 DEF Moves, y

(* and at the end of the empty line, which is the end of the request. *)
LEMMA FromNewline3 ==
  ASSUME NEW t \in Seq(Char), NEW c \in Char, NEW req \in Request,
         InHeaders("expecting_newline_3", t, req)
  PROVE  Moves("expecting_newline_3", t, c, req)
<1> DEFINE y == Append(t, c)
<1>0. PICK a \in 1..Len(t), b \in 1..Len(t), d \in 1..Len(t), f \in 1..Len(t),
           s \in 1..Len(t) + 1 : \E h, is :
        /\ HeadersAt(t, req, a, b, d, f, s, h, is)
        /\ LineSoFar("expecting_newline_3", t, s, h[s - 1], is)
  BY DEF InHeaders
<1>1. PICK h, is :
        /\ HeadersAt(t, req, a, b, d, f, s, h, is)
        /\ LineSoFar("expecting_newline_3", t, s, h[s - 1], is)
  BY <1>0
<1> DEFINE hs == h[s - 1]
<1>2. is \in Seq(Header)  BY <1>1 DEF HeadersAt
<1>3. s = Len(t) /\ t[s] = "cr" /\ is = hs  BY <1>1 DEF LineSoFar, AtLastLine
<1> HIDE DEF hs
<1>4. Goto("expecting_newline_3", c, req) = IF c = "lf" THEN "good" ELSE "bad"
  BY GotoTable
<1>5. Store(req, "expecting_newline_3", c, "good") = req  BY DEF Store
<1>6. ASSUME c = "lf" PROVE Parsed("good", y, req)
  <2>1. Len(y) = Len(t) + 1 /\ y[Len(t) + 1] = c /\ \A k \in 1..Len(t) : y[k] = t[k]
    BY Grown
  <2>2. s \in 1..Len(t)  BY <1>3
  <2>3. AtTheEnd(y, s, hs, is)
    <3> HIDE DEF y
    <3> QED  BY <1>3, <1>6, <2>1, <2>2 DEF AtTheEnd
  <2>4. LineSoFar("good", y, s, hs, is)  BY <2>3 DEF LineSoFar
  <2> QED  BY <1>1, <2>4, IntoLineSame DEF HeaderState, hs
<1> HIDE DEF y
<1> QED  BY <1>4, <1>5, <1>6 DEF Moves, y

(* Every byte keeps what is parsed in step with the text.                  *)
LEMMA ByteIsParsed ==
  ASSUME NEW st \in State \ Result, NEW t \in Seq(Char), NEW c \in Char, NEW req \in Request,
         Parsed(st, t, req)
  PROVE  Moves(st, t, c, req)
<1>1. CASE st = "method_start"  BY <1>1, FromStart DEF Parsed
<1>2. CASE st = "method"  BY <1>2, FromMethod DEF Parsed
<1>3. CASE st = "uri"  BY <1>3, FromUri DEF Parsed
<1>4. CASE st = "http_version_h"  BY <1>4, FromName DEF Parsed
<1>5. CASE st = "http_version_t_1"  BY <1>5, FromName DEF Parsed
<1>6. CASE st = "http_version_t_2"  BY <1>6, FromName DEF Parsed
<1>7. CASE st = "http_version_p"  BY <1>7, FromName DEF Parsed
<1>8. CASE st = "http_version_slash"  BY <1>8, FromName DEF Parsed
<1>9. CASE st = "http_version_major_start"  BY <1>9, FromMajorStart DEF Parsed
<1>10. CASE st = "http_version_major"  BY <1>10, FromMajor DEF Parsed
<1>11. CASE st = "http_version_minor_start"  BY <1>11, FromPoint DEF Parsed
<1>12. CASE st = "http_version_minor"  BY <1>12, FromMinor DEF Parsed
<1>13. CASE st = "expecting_newline_1"  BY <1>13, FromNewline1 DEF Parsed
<1>14. CASE st = "header_line_start"  BY <1>14, FromLineStart DEF Parsed, HeaderState
<1>15. CASE st = "header_lws"  BY <1>15, FromBlanks DEF Parsed, HeaderState
<1>16. CASE st = "header_name"  BY <1>16, FromFieldName DEF Parsed, HeaderState
<1>17. CASE st = "space_before_header_value"  BY <1>17, FromColon DEF Parsed, HeaderState
<1>18. CASE st = "header_value"  BY <1>18, FromValue DEF Parsed, HeaderState
<1>19. CASE st = "expecting_newline_2"  BY <1>19, FromNewline2 DEF Parsed, HeaderState
<1>20. CASE st = "expecting_newline_3"  BY <1>20, FromNewline3 DEF Parsed, HeaderState
<1> QED
  BY <1>1, <1>2, <1>3, <1>4, <1>5, <1>6, <1>7, <1>8, <1>9, <1>10, <1>11, <1>12, <1>13,
     <1>14, <1>15, <1>16, <1>17, <1>18, <1>19, <1>20, Zenon DEF State, Result

-----------------------------------------------------------------------------
(* A text has its places in one way only.                                  *)
LEMMA OneUri ==
  ASSUME NEW x \in Seq(Char), NEW a \in 1..Len(x), NEW b \in 1..Len(x),
         NEW e \in 1..Len(x), MethodAt(x, e)
  PROVE  /\ MethodAt(x, a) => a = e
         /\ \A g \in 1..Len(x) : UriAt(x, a, b) /\ UriAt(x, e, g) => a = e /\ b = g
<1>0. /\ \A c \in Token : c # "space"
      /\ \A c \in UriByte : c # "space"
  BY Kinds DEF UriByte
<1>1. ASSUME MethodAt(x, a) PROVE a = e
  <2>1. /\ Bytes(x, 1, a - 1, Token) /\ x[a] = "space"
        /\ Bytes(x, 1, e - 1, Token) /\ x[e] = "space"
    BY <1>1 DEF MethodAt
  <2>2. ~(a \in 1..e - 1) /\ ~(e \in 1..a - 1)  BY <1>0, <2>1 DEF Bytes
  <2> QED  BY <2>2
<1>2. ASSUME NEW g \in 1..Len(x), UriAt(x, a, b), UriAt(x, e, g) PROVE a = e /\ b = g
  <2>1. a = e  BY <1>1, <1>2 DEF UriAt
  <2>2. /\ a < b /\ Bytes(x, a + 1, b - 1, UriByte) /\ x[b] = "space"
        /\ a < g /\ Bytes(x, a + 1, g - 1, UriByte) /\ x[g] = "space"
    BY <1>2, <2>1 DEF UriAt
  <2>3. ~(b \in a + 1..g - 1) /\ ~(g \in a + 1..b - 1)  BY <1>0, <2>2 DEF Bytes
  <2> QED  BY <2>1, <2>2, <2>3
<1> QED  BY <1>1, <1>2

(* A version's point has one place, *)
LEMMA OneMajor ==
  ASSUME NEW x \in Seq(Char), NEW a \in 1..Len(x), NEW b \in 1..Len(x), NEW d \in 1..Len(x),
         NEW e \in 1..Len(x), NEW g \in 1..Len(x), NEW k \in 1..Len(x),
         MajorAt(x, a, b, d), MajorAt(x, e, g, k)
  PROVE  a = e /\ b = g /\ d = k
<1>1. UriAt(x, a, b) /\ UriAt(x, e, g) /\ MethodAt(x, e)  BY DEF MajorAt, UriAt
<1>2. a = e /\ b = g  BY <1>1, OneUri
<1>3. /\ b + 6 < d /\ Bytes(x, b + 6, d - 1, is_digit) /\ x[d] = "."
      /\ b + 6 < k /\ Bytes(x, b + 6, k - 1, is_digit) /\ x[k] = "."
  BY <1>2 DEF MajorAt
<1>4. ~(d \in b + 6..k - 1) /\ ~(k \in b + 6..d - 1)  BY <1>3, Kinds DEF Bytes
<1> QED  BY <1>2, <1>3, <1>4

(* so have the ends of a request line, *)
LEMMA OneRequest ==
  ASSUME NEW x \in Seq(Char), NEW a \in 1..Len(x), NEW b \in 1..Len(x), NEW d \in 1..Len(x),
         NEW f \in 1..Len(x),
         NEW e \in 1..Len(x), NEW g \in 1..Len(x), NEW k \in 1..Len(x), NEW l \in 1..Len(x),
         RequestAt(x, a, b, d, f), RequestAt(x, e, g, k, l)
  PROVE  a = e /\ b = g /\ d = k /\ f = l
<1>1. MajorAt(x, a, b, d) /\ MajorAt(x, e, g, k)  BY DEF RequestAt
<1>2. a = e /\ b = g /\ d = k  BY <1>1, OneMajor
<1>3. /\ d + 1 < f /\ Bytes(x, d + 1, f - 1, is_digit) /\ x[f] = "cr"
      /\ d + 1 < l /\ Bytes(x, d + 1, l - 1, is_digit) /\ x[l] = "cr"
  BY <1>2 DEF RequestAt
<1>4. "cr" \notin is_digit  BY Kinds
<1>5. ~(f \in d + 1..l - 1) /\ ~(l \in d + 1..f - 1)  BY <1>3, <1>4 DEF Bytes
<1> QED  BY <1>2, <1>3, <1>5

(* the colon of a header line, *)
LEMMA OneColon ==
  ASSUME NEW x \in Seq(Char), NEW s \in 1..Len(x), NEW c \in 1..Len(x), NEW e \in 1..Len(x),
         s < c, Bytes(x, s, c - 1, Token), x[c] = ":",
         s < e, Bytes(x, s, e - 1, Token), x[e] = ":"
  PROVE  c = e
<1>1. ~(c \in s..e - 1) /\ ~(e \in s..c - 1)  BY Kinds DEF Bytes
<1> QED  BY <1>1

(* and the end of its blanks. *)
LEMMA OneUnfold ==
  ASSUME NEW x \in Seq(Char), NEW s \in 1..Len(x), NEW u \in 1..Len(x), NEW v \in 1..Len(x),
         s < u, Bytes(x, s, u - 1, Blank), x[u] \notin Blank,
         s < v, Bytes(x, s, v - 1, Blank), x[v] \notin Blank
  PROVE  u = v
<1>1. ~(u \in s..v - 1) /\ ~(v \in s..u - 1)  BY DEF Bytes
<1> QED  BY <1>1

-----------------------------------------------------------------------------
(* In a request that goes on from here there is one more byte, and it is   *)
(* not a bad one.                                                          *)
Ready(st, t, req, x) ==
  Len(t) < Len(x) /\ Goto(st, x[Len(t) + 1], req) # "bad"

(* A cr is not the last byte, and lf is the next. *)
LEMMA AfterCr ==
  ASSUME NEW x \in Seq(Char), InLines(x), NEW i \in 1..Len(x), x[i] = "cr"
  PROVE  i < Len(x) /\ x[i + 1] = "lf"
<1> DEFINE n == Len(x)
<1>0. n \in Nat /\ n > 4  BY DEF InLines
<1>1. x[n] = "lf"
  <2>1. EndsAt(x, n - 1)  BY DEF InLines
  <2>2. n - 1 + 1 = n  BY <1>0
  <2> QED  BY <2>1, <2>2 DEF EndsAt
<1>2. i # n  BY <1>1
<1>3. i \in 1..n - 1  BY <1>0, <1>2
<1> QED  BY <1>3 DEF InLines

(* A text that goes on to a uri has a byte the first states take. *)
LEMMA ReadyForMethod ==
  ASSUME NEW t \in Seq(Char), NEW req \in Request, NEW x \in Seq(Char), Extends(x, t),
         NEW a \in 1..Len(x), NEW b \in 1..Len(x), UriAt(x, a, b)
  PROVE  /\ AtStart(t, req) => Ready("method_start", t, req, x)
         /\ InMethod(t, req) => Ready("method", t, req, x)
         /\ InUri(t, req) => Ready("uri", t, req, x)
<1> DEFINE n == Len(t)
           c == x[n + 1]
<1>0. /\ n \in Nat /\ Len(x) \in Nat /\ n <= Len(x) /\ \A k \in 1..n : x[k] = t[k]
      /\ \A k \in 1..Len(x) : x[k] \in Char
  BY DEF Extends
<1>1. /\ 1 < a /\ Bytes(x, 1, a - 1, Token) /\ x[a] = "space"
      /\ a < b /\ Bytes(x, a + 1, b - 1, UriByte) /\ x[b] = "space"
  BY DEF UriAt, MethodAt
<1>2. ASSUME AtStart(t, req) PROVE Ready("method_start", t, req, x)
  <2>1. n = 0  BY <1>2 DEF AtStart
  <2>2. n < Len(x) /\ c \in Char /\ c \in Token  BY <1>0, <1>1, <2>1 DEF Bytes
  <2> HIDE DEF c
  <2>3. Goto("method_start", c, req) = IF c \in Token THEN "method" ELSE "bad"
    BY <2>2, GotoTable
  <2> QED  BY <2>2, <2>3 DEF Ready, c
<1>3. ASSUME InMethod(t, req) PROVE Ready("method", t, req, x)
  <2>1. Bytes(t, 1, n, Token)  BY <1>3 DEF InMethod
  <2>2. \A k \in 1..n : x[k] # "space"  BY <1>0, <2>1, Kinds DEF Bytes
  <2>3. n < a
    <3> HIDE DEF n
    <3> QED  BY <1>0, <1>1, <2>2
  <2>4. n < Len(x) /\ c \in Char /\ (c \in Token \/ c = "space")
    <3>1. n + 1 = a \/ n + 1 \in 1..a - 1  BY <1>0, <2>3
    <3>2. n < Len(x) /\ n + 1 \in 1..Len(x)  BY <1>0, <2>3
    <3> HIDE DEF n
    <3> QED  BY <1>0, <1>1, <3>1, <3>2 DEF Bytes
  <2> HIDE DEF c
  <2>5. Goto("method", c, req) =
          IF c = "space" THEN "uri" ELSE IF c \in Token THEN "method" ELSE "bad"
    BY <2>4, GotoTable
  <2> QED  BY <2>4, <2>5 DEF Ready, c
<1>4. ASSUME InUri(t, req) PROVE Ready("uri", t, req, x)
  <2>1. PICK e \in 1..n : MethodAt(t, e) /\ Bytes(t, e + 1, n, UriByte)
    BY <1>4 DEF InUri
  <2>2. MethodAt(x, e)  BY <2>1, SameMethod
  <2>3. e \in 1..Len(x) /\ MethodAt(x, a)  BY <1>0 DEF UriAt
  <2>4. a = e  BY <2>2, <2>3, OneUri
  <2>5. \A k \in a + 1..n : x[k] # "space"  BY <1>0, <2>1, <2>4, Kinds DEF Bytes
  <2>6. n < b /\ a <= n
    <3> HIDE DEF n
    <3> QED  BY <1>0, <1>1, <2>1, <2>4, <2>5
  <2>7. n < Len(x) /\ c \in Char /\ (c \in UriByte \/ c = "space")
    <3>1. n + 1 = b \/ n + 1 \in a + 1..b - 1  BY <1>0, <2>6
    <3>2. n < Len(x) /\ n + 1 \in 1..Len(x)  BY <1>0, <2>6
    <3> HIDE DEF n
    <3> QED  BY <1>0, <1>1, <3>1, <3>2 DEF Bytes
  <2> HIDE DEF c
  <2>8. Goto("uri", c, req) =
         IF c = "space" THEN "http_version_h" ELSE IF c \in UriByte THEN "uri" ELSE "bad"
    BY <2>7, GotoTable
  <2> QED  BY <2>7, <2>8 DEF Ready, c
<1> QED  BY <1>2, <1>3, <1>4

(* One that goes on to a version has a byte for each of its states. *)
LEMMA ReadyForName ==
  ASSUME NEW t \in Seq(Char), NEW req \in Request, NEW x \in Seq(Char), Extends(x, t),
         NEW a \in 1..Len(x), NEW b \in 1..Len(x), NEW d \in 1..Len(x), MajorAt(x, a, b, d)
  PROVE  /\ InName(t, req, 0) => Ready("http_version_h", t, req, x)
         /\ InName(t, req, 1) => Ready("http_version_t_1", t, req, x)
         /\ InName(t, req, 2) => Ready("http_version_t_2", t, req, x)
         /\ InName(t, req, 3) => Ready("http_version_p", t, req, x)
         /\ InName(t, req, 4) => Ready("http_version_slash", t, req, x)
         /\ InName(t, req, 5) => Ready("http_version_major_start", t, req, x)
<1> DEFINE n == Len(t)
           c == x[n + 1]
<1>0. /\ n \in Nat /\ Len(x) \in Nat /\ n <= Len(x) /\ \A k \in 1..Len(x) : x[k] \in Char
  BY DEF Extends
<1>1. UriAt(x, a, b) /\ b + 6 < d /\ x[b + 6] \in is_digit
  BY DEF MajorAt, Bytes
<1>2. /\ x[b + 1] = "H" /\ x[b + 2] = "T" /\ x[b + 3] = "T" /\ x[b + 4] = "P"
      /\ x[b + 5] = "/"
  BY DEF MajorAt, NameAt
<1>3. ASSUME NEW k \in 0..5, InName(t, req, k)
      PROVE  n = b + k /\ n < Len(x) /\ c \in Char /\ c = x[b + k + 1]
  <2>1. PICK e \in 1..n, g \in 1..n : UriAt(t, e, g) /\ n = g + k
    BY <1>3 DEF InName
  <2>2. UriAt(x, e, g)  BY <2>1, SameUri
  <2>3. b = g
    <3>1. MethodAt(x, e) /\ e \in 1..Len(x) /\ g \in 1..Len(x)  BY <1>0, <2>2 DEF UriAt
    <3> QED  BY <1>1, <2>2, <3>1, OneUri
  <2>4. n = b + k  BY <2>1, <2>3
  <2>5. n < Len(x) /\ n + 1 \in 1..Len(x) /\ n + 1 = b + k + 1
    <3> HIDE DEF n
    <3> QED  BY <1>0, <1>1, <2>4
  <2> QED  BY <1>0, <2>4, <2>5
<1> HIDE DEF c
<1>4. ASSUME InName(t, req, 0) PROVE Ready("http_version_h", t, req, x)
  <2>1. n < Len(x) /\ c \in Char /\ c = "H"  BY <1>2, <1>3, <1>4
  <2>2. Goto("http_version_h", c, req) = IF c = "H" THEN "http_version_t_1" ELSE "bad"
    BY <2>1, GotoTable
  <2> QED  BY <2>1, <2>2 DEF Ready, c
<1>5. ASSUME InName(t, req, 1) PROVE Ready("http_version_t_1", t, req, x)
  <2>1. n < Len(x) /\ c \in Char /\ c = "T"  BY <1>2, <1>3, <1>5
  <2>2. Goto("http_version_t_1", c, req) = IF c = "T" THEN "http_version_t_2" ELSE "bad"
    BY <2>1, GotoTable
  <2> QED  BY <2>1, <2>2 DEF Ready, c
<1>6. ASSUME InName(t, req, 2) PROVE Ready("http_version_t_2", t, req, x)
  <2>1. n < Len(x) /\ c \in Char /\ c = "T"  BY <1>2, <1>3, <1>6
  <2>2. Goto("http_version_t_2", c, req) = IF c = "T" THEN "http_version_p" ELSE "bad"
    BY <2>1, GotoTable
  <2> QED  BY <2>1, <2>2 DEF Ready, c
<1>7. ASSUME InName(t, req, 3) PROVE Ready("http_version_p", t, req, x)
  <2>1. n < Len(x) /\ c \in Char /\ c = "P"  BY <1>2, <1>3, <1>7
  <2>2. Goto("http_version_p", c, req) = IF c = "P" THEN "http_version_slash" ELSE "bad"
    BY <2>1, GotoTable
  <2> QED  BY <2>1, <2>2 DEF Ready, c
<1>8. ASSUME InName(t, req, 4) PROVE Ready("http_version_slash", t, req, x)
  <2>1. n < Len(x) /\ c \in Char /\ c = "/"  BY <1>2, <1>3, <1>8
  <2>2. Goto("http_version_slash", c, req) =
         IF c = "/" THEN "http_version_major_start" ELSE "bad"
    BY <2>1, GotoTable
  <2> QED  BY <2>1, <2>2 DEF Ready, c
<1>9. ASSUME InName(t, req, 5) PROVE Ready("http_version_major_start", t, req, x)
  <2>1. n < Len(x) /\ c \in Char /\ c = x[b + 5 + 1]  BY <1>3, <1>9
  <2>2. b + 5 + 1 = b + 6  OBVIOUS
  <2>3. c \in is_digit  BY <1>1, <2>1, <2>2
  <2>4. Goto("http_version_major_start", c, req) =
         IF c \in is_digit THEN "http_version_major" ELSE "bad"
    BY <2>1, GotoTable
  <2> QED  BY <2>1, <2>3, <2>4 DEF Ready, c
<1> QED  BY <1>4, <1>5, <1>6, <1>7, <1>8, <1>9

(* One that goes on to a request line has a byte for its numbers. *)
LEMMA ReadyForNumbers ==
  ASSUME NEW t \in Seq(Char), NEW req \in Request, NEW x \in Seq(Char), Extends(x, t),
         NEW a \in 1..Len(x), NEW b \in 1..Len(x), NEW d \in 1..Len(x), NEW f \in 1..Len(x),
         RequestAt(x, a, b, d, f)
  PROVE  /\ InMajor(t, req) => Ready("http_version_major", t, req, x)
         /\ AtPoint(t, req) => Ready("http_version_minor_start", t, req, x)
         /\ InMinor(t, req) => Ready("http_version_minor", t, req, x)
<1> DEFINE n == Len(t)
           c == x[n + 1]
<1>0. /\ n \in Nat /\ Len(x) \in Nat /\ n <= Len(x) /\ \A k \in 1..n : x[k] = t[k]
      /\ \A k \in 1..Len(x) : x[k] \in Char
  BY DEF Extends
<1>1. /\ MajorAt(x, a, b, d) /\ UriAt(x, a, b)
      /\ b + 6 < d /\ Bytes(x, b + 6, d - 1, is_digit) /\ x[d] = "."
      /\ d + 1 < f /\ Bytes(x, d + 1, f - 1, is_digit) /\ x[f] = "cr"
  BY DEF RequestAt, MajorAt
<1>2. "." \notin is_digit /\ "cr" \notin is_digit  BY Kinds
<1>3. ASSUME InMajor(t, req) PROVE Ready("http_version_major", t, req, x)
  <2>1. PICK e \in 1..n, g \in 1..n :
          UriAt(t, e, g) /\ g + 6 <= n /\ Bytes(t, g + 6, n, is_digit)
    BY <1>3 DEF InMajor
  <2>2. UriAt(x, e, g)  BY <2>1, SameUri
  <2>3. b = g
    <3>1. MethodAt(x, e) /\ e \in 1..Len(x) /\ g \in 1..Len(x)  BY <1>0, <2>2 DEF UriAt
    <3> QED  BY <1>1, <2>2, <3>1, OneUri
  <2>4. \A k \in b + 6..n : x[k] # "."  BY <1>0, <1>2, <2>1, <2>3 DEF Bytes
  <2>5. n < d /\ b + 6 <= n
    <3> HIDE DEF n
    <3> QED  BY <1>0, <1>1, <2>1, <2>3, <2>4
  <2>6. n < Len(x) /\ c \in Char /\ (c \in is_digit \/ c = ".")
    <3>0. n \in Nat  BY <1>0
    <3>1. n + 1 = d \/ n + 1 \in b + 6..d - 1
      <4> HIDE DEF n
      <4> QED  BY <2>5, <3>0
    <3>2. n < Len(x) /\ n + 1 \in 1..Len(x)  BY <1>0, <2>5
    <3> HIDE DEF n
    <3> QED  BY <1>0, <1>1, <3>1, <3>2 DEF Bytes
  <2> HIDE DEF c
  <2>7. Goto("http_version_major", c, req) =
         IF c = "." THEN "http_version_minor_start"
         ELSE IF c \in is_digit THEN "http_version_major" ELSE "bad"
    BY <2>6, GotoTable
  <2> QED  BY <2>6, <2>7 DEF Ready, c
<1>4. ASSUME AtPoint(t, req) PROVE Ready("http_version_minor_start", t, req, x)
  <2>1. PICK e \in 1..n, g \in 1..n : MajorAt(t, e, g, n)  BY <1>4 DEF AtPoint
  <2>2. n \in 1..n  BY <1>0, <2>1
  <2>3. MajorAt(x, e, g, n)  BY <2>1, <2>2, SameMajor
  <2>4. d = n
    <3>1. e \in 1..Len(x) /\ g \in 1..Len(x) /\ n \in 1..Len(x)  BY <1>0, <2>2
    <3> HIDE DEF n
    <3> QED  BY <1>1, <2>3, <3>1, OneMajor
  <2>5. n < Len(x) /\ c \in Char /\ c \in is_digit
    <3>1. n + 1 \in d + 1..f - 1 /\ n < Len(x) /\ n + 1 \in 1..Len(x)
      <4> HIDE DEF n
      <4> QED  BY <1>0, <1>1, <2>4
    <3> QED  BY <1>0, <1>1, <3>1 DEF Bytes
  <2> HIDE DEF c
  <2>6. Goto("http_version_minor_start", c, req) =
         IF c \in is_digit THEN "http_version_minor" ELSE "bad"
    BY <2>5, GotoTable
  <2> QED  BY <2>5, <2>6 DEF Ready, c
<1>5. ASSUME InMinor(t, req) PROVE Ready("http_version_minor", t, req, x)
  <2>1. PICK e \in 1..n, g \in 1..n, k \in 1..n :
          MajorAt(t, e, g, k) /\ k < n /\ Bytes(t, k + 1, n, is_digit)
    BY <1>5 DEF InMinor
  <2>2. MajorAt(x, e, g, k)  BY <2>1, SameMajor
  <2>3. d = k
    <3>1. e \in 1..Len(x) /\ g \in 1..Len(x) /\ k \in 1..Len(x)  BY <1>0
    <3> QED  BY <1>1, <2>2, <3>1, OneMajor
  <2>4. \A i \in d + 1..n : x[i] # "cr"  BY <1>0, <1>2, <2>1, <2>3 DEF Bytes
  <2>5. n < f /\ d < n
    <3> HIDE DEF n
    <3> QED  BY <1>0, <1>1, <2>1, <2>3, <2>4
  <2>6. n < Len(x) /\ c \in Char /\ (c \in is_digit \/ c = "cr")
    <3>0. n \in Nat  BY <1>0
    <3>1. n + 1 = f \/ n + 1 \in d + 1..f - 1
      <4> HIDE DEF n
      <4> QED  BY <2>5, <3>0
    <3>2. n < Len(x) /\ n + 1 \in 1..Len(x)  BY <1>0, <2>5
    <3> HIDE DEF n
    <3> QED  BY <1>0, <1>1, <3>1, <3>2 DEF Bytes
  <2> HIDE DEF c
  <2>7. Goto("http_version_minor", c, req) =
         IF c = "cr" THEN "expecting_newline_1"
         ELSE IF c \in is_digit THEN "http_version_minor" ELSE "bad"
    BY <2>6, GotoTable
  <2> QED  BY <2>6, <2>7 DEF Ready, c
<1> QED  BY <1>3, <1>4, <1>5

(* In a text in lines, a line that begins is the last one or a header's.   *)
LEMMA LineHere ==
  ASSUME NEW x \in Seq(Char), InLines(x), NEW f \in 1..Len(x), LinesAt(x, f),
         x[f] = "cr", x[f - 1] # "lf",
         NEW s \in 1..Len(x) + 1, NEW h, Whole(x, f, s, h)
  PROVE  /\ s <= Len(x)
         /\ x[s] = "cr" \/ \E j \in s + 1..Len(x) - 3 : LineAt(x, s, j, f)
<1> DEFINE n == Len(x)
<1>0. n \in Nat /\ n > 4 /\ s \in Nat /\ f \in Nat /\ s <= n + 1  BY DEF InLines
<1>1. x[n - 3] = "cr" /\ x[n - 2] = "lf" /\ x[n - 1] = "cr" /\ x[n] = "lf"
  <2>1. EndsAt(x, n - 3) /\ EndsAt(x, n - 1)  BY DEF InLines
  <2>2. n - 3 + 1 = n - 2 /\ n - 1 + 1 = n  BY <1>0
  <2> QED  BY <2>1, <2>2 DEF EndsAt
<1>2. /\ f + 2 <= s /\ x[s - 1] = "lf"
      /\ \A i \in f + 2..s - 1 :
           IF x[i - 1] = "lf"
           THEN \E j \in i + 1..s - 2 : LineSays(x, i, j, h[i - 1], h[i])
           ELSE h[i] = h[i - 1]
  BY DEF Whole
<1>3. \A i \in f + 2..n - 3 :
        x[i - 1] = "lf" => \E j \in i + 1..n - 3 : LineAt(x, i, j, f)
  BY DEF LinesAt
<1> HIDE DEF n
<1>4. CASE s <= n - 3
  <2>1. s \in f + 2..n - 3  BY <1>0, <1>2, <1>4
  <2>2. \E j \in s + 1..n - 3 : LineAt(x, s, j, f)  BY <1>2, <1>3, <2>1
  <2> QED  BY <1>0, <1>4, <2>2 DEF n
<1>5. CASE s = n + 1
  <2>1. f # n /\ f # n - 1 /\ f # n - 2
    <3>1. f = n - 1 => f - 1 = n - 2  BY <1>0
    <3> QED  BY <1>1, <3>1
  <2>2. f <= n - 3  BY <1>0, <1>2, <1>5, <2>1
  <2> DEFINE i == n - 1
  <2>3. i \in f + 2..s - 1 /\ i - 1 = n - 2  BY <1>0, <1>5, <2>2
  <2>4. x[i - 1] = "lf"  BY <1>1, <2>3
  <2>5. i + 1 > s - 2  BY <1>0, <1>5
  <2>6. \E j \in i + 1..s - 2 : LineSays(x, i, j, h[i - 1], h[i])
    <3> HIDE DEF i
    <3> QED  BY <1>2, <2>3, <2>4
  <2>7. i + 1..s - 2 = {}  BY <1>0, <1>5
  <2> QED  BY <2>6, <2>7
<1>6. CASE s \in {n - 2, n - 1, n}
  <2>1. s # n - 2 /\ s # n
    <3>1. (s = n - 2 => s - 1 = n - 3) /\ (s = n => s - 1 = n - 1)  BY <1>0
    <3> QED  BY <1>1, <1>2, <3>1
  <2>2. s = n - 1 /\ s <= n /\ x[s] = "cr"  BY <1>0, <1>1, <1>6, <2>1
  <2> QED  BY <2>2 DEF n
<1>7. s <= n - 3 \/ s = n + 1 \/ s \in {n - 2, n - 1, n}  BY <1>0
<1> QED  BY <1>4, <1>5, <1>6, <1>7

(* What comes next in a header line.                                       *)
LEMMA ReadyForLine ==
  ASSUME NEW t \in Seq(Char), NEW req \in Request, NEW x \in Seq(Char), Extends(x, t),
         NEW f \in 1..Len(t), NEW s \in 1..Len(t) + 1, NEW hs, NEW is, req.headers = is,
         s # f + 2 => hs # <<>>, s <= Len(x),
         x[s] = "cr" \/ \E j \in s + 1..Len(x) - 3 : LineAt(x, s, j, f)
  PROVE  /\ InLine(t, s, hs, is) => Ready("header_line_start", t, req, x)
         /\ InBlanks(t, s, hs, is) => Ready("header_lws", t, req, x)
         /\ InFieldName(t, s, hs, is) => Ready("header_name", t, req, x)
         /\ AtColon(t, s, hs, is) => Ready("space_before_header_value", t, req, x)
<1> DEFINE n == Len(t)
           m == Len(x)
           c == x[n + 1]
<1>0. /\ n \in Nat /\ m \in Nat /\ n <= m /\ s \in Nat /\ s <= n + 1 /\ s >= 1 /\ f \in Nat
      /\ \A k \in 1..n : x[k] = t[k]
      /\ \A k \in 1..m : x[k] \in Char
  BY DEF Extends
<1>1. x[s] = "cr" \/ \E j \in s + 1..m - 3 :
        \/ \E e \in 1..m : FieldAt(x, s, e, j)
        \/ s # f + 2 /\ \E u \in 1..m : FoldAt(x, s, u, j)
  BY DEF LineAt
<1>2. \A j \in s + 1..m - 3 : \A e \in 1..m : FieldAt(x, s, e, j) =>
        /\ s < e /\ \A k \in s..e - 1 : x[k] \in Token /\ x[k] \notin Blank
        /\ x[s] \in Token /\ x[e] = ":" /\ x[e + 1] = "space"
  <2> SUFFICES ASSUME NEW j \in s + 1..m - 3, NEW e \in 1..m, FieldAt(x, s, e, j)
               PROVE  /\ s < e /\ \A k \in s..e - 1 : x[k] \in Token /\ x[k] \notin Blank
                      /\ x[s] \in Token /\ x[e] = ":" /\ x[e + 1] = "space"
    OBVIOUS
  <2>1. s < e /\ Bytes(x, s, e - 1, Token) /\ x[e] = ":" /\ x[e + 1] = "space"
    BY DEF FieldAt
  <2>2. s \in s..e - 1  BY <1>0, <2>1
  <2> QED  BY <2>1, <2>2, Kinds DEF Bytes
<1>3. \A j \in s + 1..m - 3 : \A u \in 1..m : FoldAt(x, s, u, j) =>
        /\ s < u /\ u <= j /\ \A k \in s..u - 1 : x[k] \in Blank /\ x[k] \notin Token
        /\ x[s] \in Blank /\ (x[u] = "cr" \/ x[u] \in Visible \ Blank)
  <2> SUFFICES ASSUME NEW j \in s + 1..m - 3, NEW u \in 1..m, FoldAt(x, s, u, j)
               PROVE  /\ s < u /\ u <= j
                      /\ \A k \in s..u - 1 : x[k] \in Blank /\ x[k] \notin Token
                      /\ x[s] \in Blank /\ (x[u] = "cr" \/ x[u] \in Visible \ Blank)
    OBVIOUS
  <2>1. /\ s < u /\ u <= j /\ Bytes(x, s, u - 1, Blank) /\ x[u] \notin Blank
        /\ Bytes(x, u, j - 1, Visible) /\ x[j] = "cr"
    BY DEF FoldAt
  <2>2. s \in s..u - 1 /\ (u = j \/ u \in u..j - 1)  BY <1>0, <2>1
  <2> QED  BY <2>1, <2>2, Kinds DEF Bytes
<1>4. "cr" \notin Blank /\ "cr" \notin Token /\ ":" \notin Token
      /\ \A k \in Token : k \notin Blank /\ k # ":"
  BY Kinds
<1>5. ASSUME InLine(t, s, hs, is) PROVE Ready("header_line_start", t, req, x)
  <2>1. s = n + 1 /\ is = hs  BY <1>5 DEF InLine
  <2>2. n < m /\ c = x[s] /\ c \in Char
    <3>1. s \in 1..m  BY <1>0
    <3> QED  BY <1>0, <2>1, <3>1
  <2> HIDE DEF c
  <2>3. c = "cr" \/ c \in Token \/ (c \in Blank /\ req.headers # <<>>)
    <3>1. CASE x[s] = "cr"  BY <2>2, <3>1
    <3>2. CASE \E j \in s + 1..m - 3 : \E e \in 1..m : FieldAt(x, s, e, j)
      BY <1>2, <2>2, <3>2
    <3>3. CASE s # f + 2 /\ \E j \in s + 1..m - 3 : \E u \in 1..m : FoldAt(x, s, u, j)
      <4>1. c \in Blank  BY <1>3, <2>2, <3>3
      <4>2. req.headers # <<>>  BY <2>1, <3>3
      <4> QED  BY <4>1, <4>2
    <3> QED  BY <1>1, <3>1, <3>2, <3>3
  <2>4. Goto("header_line_start", c, req) =
         IF c = "cr" THEN "expecting_newline_3"
         ELSE IF c \in Blank /\ req.headers # <<>> THEN "header_lws"
         ELSE IF c \in Token THEN "header_name" ELSE "bad"
    BY <2>2, GotoTable
  <2> QED  BY <2>2, <2>3, <2>4 DEF Ready, c
<1>6. ASSUME InBlanks(t, s, hs, is) PROVE Ready("header_lws", t, req, x)
  <2>1. s <= n /\ \A k \in s..n : x[k] \in Blank
    <3>1. s <= n /\ Bytes(t, s, n, Blank)  BY <1>6 DEF InBlanks
    <3>2. \A k \in s..n : k \in 1..n  BY <1>0
    <3> QED  BY <1>0, <3>1, <3>2 DEF Bytes
  <2>2. x[s] \in Blank
    <3>1. s \in s..n  BY <1>0, <2>1
    <3> QED  BY <2>1, <3>1
  <2>3. x[s] # "cr" /\ x[s] \notin Token  BY <1>4, <2>2
  <2>4. PICK j \in s + 1..m - 3, u \in 1..m : FoldAt(x, s, u, j)
    BY <1>1, <1>2, <2>3
  <2>5. /\ s < u /\ u <= j /\ \A k \in s..u - 1 : x[k] \in Blank
        /\ x[u] = "cr" \/ x[u] \in Visible \ Blank
    BY <1>3, <2>4
  <2>6. n < u
    <3>1. x[u] \notin Blank  BY <1>4, <2>5
    <3> HIDE DEF n, m
    <3> QED  BY <1>0, <2>1, <2>5, <3>1
  <2>7. n < m /\ c \in Char /\ (c \in Blank \/ c = "cr" \/ c \in Visible)
    <3>1. n + 1 = u \/ n + 1 \in s..u - 1
      <4> HIDE DEF n, m
      <4> QED  BY <1>0, <2>1, <2>6
    <3>2. n < m /\ n + 1 \in 1..m  BY <1>0, <2>6
    <3> HIDE DEF n, m
    <3> QED  BY <1>0, <2>5, <3>1, <3>2
  <2> HIDE DEF c
  <2>8. Goto("header_lws", c, req) =
         IF c = "cr" THEN "expecting_newline_2"
         ELSE IF c \in Blank THEN "header_lws"
         ELSE IF c \in Visible THEN "header_value" ELSE "bad"
    BY <2>7, GotoTable
  <2> QED  BY <2>7, <2>8 DEF Ready, c
<1>7. ASSUME s <= n, t[s] \in Token
      PROVE  \E j \in s + 1..m - 3, e \in 1..m : FieldAt(x, s, e, j)
  <2>1. x[s] = t[s]
    <3>1. s \in 1..n  BY <1>0, <1>7
    <3> QED  BY <1>0, <3>1
  <2>2. x[s] # "cr" /\ x[s] \notin Blank  BY <1>4, <1>7, <2>1
  <2> QED  BY <1>1, <1>3, <2>2
<1>8. ASSUME InFieldName(t, s, hs, is) PROVE Ready("header_name", t, req, x)
  <2>1. s <= n /\ Bytes(t, s, n, Token)  BY <1>8 DEF InFieldName
  <2>2. \A k \in s..n : x[k] # ":"
    <3>2. \A k \in s..n : k \in 1..n  BY <1>0
    <3> QED  BY <1>0, <1>4, <2>1, <3>2 DEF Bytes
  <2>3. t[s] \in Token
    <3>1. s \in s..n  BY <1>0, <2>1
    <3> QED  BY <2>1, <3>1 DEF Bytes
  <2>4. PICK j \in s + 1..m - 3, e \in 1..m : FieldAt(x, s, e, j)  BY <1>7, <2>1, <2>3
  <2>5. s < e /\ x[e] = ":" /\ \A k \in s..e - 1 : x[k] \in Token  BY <1>2, <2>4
  <2>6. n < e
    <3> HIDE DEF n, m
    <3> QED  BY <1>0, <2>2, <2>5
  <2>7. n < m /\ c \in Char /\ (c = ":" \/ c \in Token)
    <3>1. n + 1 = e \/ n + 1 \in s..e - 1
      <4> HIDE DEF n, m
      <4> QED  BY <1>0, <2>1, <2>6
    <3>2. n < m /\ n + 1 \in 1..m  BY <1>0, <2>6
    <3> HIDE DEF n, m
    <3> QED  BY <1>0, <2>5, <3>1, <3>2
  <2> HIDE DEF c
  <2>8. Goto("header_name", c, req) =
         IF c = ":" THEN "space_before_header_value"
         ELSE IF c \in Token THEN "header_name" ELSE "bad"
    BY <2>7, GotoTable
  <2> QED  BY <2>7, <2>8 DEF Ready, c
<1>9. ASSUME AtColon(t, s, hs, is) PROVE Ready("space_before_header_value", t, req, x)
  <2>1. s < n /\ Bytes(t, s, n - 1, Token) /\ t[n] = ":"  BY <1>9 DEF AtColon
  <2>2. t[s] \in Token
    <3>1. s \in s..n - 1  BY <1>0, <2>1
    <3> QED  BY <2>1, <3>1 DEF Bytes
  <2>3. s <= n  BY <1>0, <2>1
  <2>4. PICK j \in s + 1..m - 3, e \in 1..m : FieldAt(x, s, e, j)  BY <1>7, <2>2, <2>3
  <2>5. s < e /\ x[e] = ":" /\ x[e + 1] = "space" /\ \A k \in s..e - 1 : x[k] \in Token
        /\ e + 1 < j
    BY <1>2, <2>4 DEF FieldAt
  <2>6. e = n
    <3>1. x[n] = ":" /\ \A k \in s..n - 1 : x[k] \in Token
      <4>1. n \in 1..n /\ \A k \in s..n - 1 : k \in 1..n  BY <1>0, <2>1
      <4> HIDE DEF n
      <4> QED  BY <1>0, <2>1, <4>1 DEF Bytes
    <3>2. ~(e \in s..n - 1) /\ ~(n \in s..e - 1)  BY <1>4, <2>5, <3>1
    <3> HIDE DEF n, m
    <3> QED  BY <1>0, <2>1, <2>5, <3>2
  <2>7. n < m /\ c \in Char /\ c = "space"
    <3>1. n + 1 \in 1..m  BY <1>0, <2>5, <2>6
    <3> HIDE DEF n, m
    <3> QED  BY <1>0, <2>5, <2>6, <3>1
  <2> HIDE DEF c
  <2>8. Goto("space_before_header_value", c, req) =
         IF c = "space" THEN "header_value" ELSE "bad"
    BY <2>7, GotoTable
  <2> QED  BY <2>7, <2>8 DEF Ready, c
<1> QED  BY <1>5, <1>6, <1>8, <1>9

(* One whose line goes on has a byte for its value. *)
LEMMA ReadyForValue ==
  ASSUME NEW t \in Seq(Char), NEW req \in Request, NEW x \in Seq(Char), Extends(x, t),
         NEW f \in 1..Len(t), NEW s \in 1..Len(t) + 1, NEW hs, NEW is, InValue(t, s, hs, is),
         x[s] = "cr" \/ \E j \in s + 1..Len(x) - 3 : LineAt(x, s, j, f)
  PROVE  Ready("header_value", t, req, x)
<1> DEFINE n == Len(t)
           m == Len(x)
           c == x[n + 1]
<1>0. /\ n \in Nat /\ m \in Nat /\ n <= m /\ s \in Nat /\ s <= n + 1 /\ s >= 1 /\ f \in Nat
      /\ \A k \in 1..n : x[k] = t[k]
      /\ \A k \in 1..m : x[k] \in Char
  BY DEF Extends
<1>1. x[s] = "cr" \/ \E j \in s + 1..m - 3 :
        \/ \E e \in 1..m : FieldAt(x, s, e, j)
        \/ \E u \in 1..m : FoldAt(x, s, u, j)
  BY DEF LineAt
<1>2. "cr" \notin Blank /\ "cr" \notin Token /\ "cr" \notin Visible
      /\ \A k \in Token : k \notin Blank
  BY Kinds
<1>3. \A i \in s..n : \A S : Bytes(t, i, n, S) => \A k \in i..n : x[k] \in S
  <2>1. \A i \in s..n : \A k \in i..n : k \in 1..n  BY <1>0
  <2> QED  BY <1>0, <2>1 DEF Bytes
<1>4. ASSUME NEW i \in s..n + 1, NEW j \in i..m, \A k \in i..n : x[k] \in Visible,
             Bytes(x, i, j - 1, Visible), x[j] = "cr"
      PROVE  Ready("header_value", t, req, x)
  <2>1. n < j
    <3> HIDE DEF n, m
    <3> QED  BY <1>0, <1>2, <1>4
  <2>2. n < m /\ n + 1 \in 1..m /\ (n + 1 = j \/ n + 1 \in i..j - 1)
    <3> HIDE DEF n, m
    <3> QED  BY <1>0, <2>1
  <2>3. c \in Char /\ (c = "cr" \/ c \in Visible)
    <3> HIDE DEF n, m
    <3> QED  BY <1>0, <1>4, <2>2 DEF Bytes
  <2> HIDE DEF c
  <2>4. Goto("header_value", c, req) =
         IF c = "cr" THEN "expecting_newline_2"
         ELSE IF c \in Visible THEN "header_value" ELSE "bad"
    BY <2>3, GotoTable
  <2> QED  BY <2>2, <2>3, <2>4 DEF Ready, c
<1>5. CASE \E e \in 1..n :
             /\ s < e /\ e < n /\ Bytes(t, s, e - 1, Token)
             /\ t[e] = ":" /\ t[e + 1] = "space" /\ Bytes(t, e + 2, n, Visible)
  <2>1. PICK e \in 1..n : /\ s < e /\ e < n /\ Bytes(t, s, e - 1, Token)
                          /\ t[e] = ":" /\ t[e + 1] = "space" /\ Bytes(t, e + 2, n, Visible)
    BY <1>5
  <2>2. Bytes(x, s, e - 1, Token) /\ x[e] = ":" /\ x[s] \in Token
        /\ \A k \in e + 2..n : x[k] \in Visible
    <3>1. /\ \A k \in s..e - 1 : k \in 1..n
          /\ \A k \in e + 2..n : k \in 1..n
          /\ s \in s..e - 1
      BY <1>0, <2>1
    <3>2. Bytes(x, s, e - 1, Token)  BY <1>0, <2>1, <3>1 DEF Bytes
    <3>3. \A k \in e + 2..n : x[k] \in Visible  BY <1>0, <2>1, <3>1 DEF Bytes
    <3> QED  BY <1>0, <2>1, <3>1, <3>2, <3>3 DEF Bytes
  <2>3. PICK j \in s + 1..m - 3, g \in 1..m : FieldAt(x, s, g, j)
    <3>1. x[s] # "cr"  BY <1>2, <2>2
    <3>2. ASSUME NEW j \in s + 1..m - 3, NEW u \in 1..m, FoldAt(x, s, u, j) PROVE FALSE
      <4>1. s < u /\ Bytes(x, s, u - 1, Blank)  BY <3>2 DEF FoldAt
      <4>2. s \in s..u - 1  BY <1>0, <4>1
      <4> QED  BY <1>2, <2>2, <4>1, <4>2 DEF Bytes
    <3> QED  BY <1>1, <3>1, <3>2
  <2>4. /\ s < g /\ Bytes(x, s, g - 1, Token) /\ x[g] = ":"
        /\ g + 1 < j /\ Bytes(x, g + 2, j - 1, Visible) /\ x[j] = "cr"
    BY <2>3 DEF FieldAt
  <2>5. g = e
    <3>1. s \in 1..m /\ e \in 1..m  BY <1>0, <2>1
    <3> QED  BY <2>1, <2>2, <2>4, <3>1, OneColon
  <2>6. e + 2 \in s..n + 1 /\ j \in e + 2..m
    <3> HIDE DEF n, m
    <3> QED  BY <1>0, <2>1, <2>3, <2>4, <2>5
  <2> QED  BY <1>4, <2>2, <2>4, <2>5, <2>6
<1>6. CASE \E u \in 1..n :
             /\ s < u /\ Bytes(t, s, u - 1, Blank) /\ t[u] \notin Blank
             /\ Bytes(t, u, n, Visible)
  <2>1. PICK u \in 1..n : /\ s < u /\ Bytes(t, s, u - 1, Blank) /\ t[u] \notin Blank
                          /\ Bytes(t, u, n, Visible)
    BY <1>6
  <2>2. Bytes(x, s, u - 1, Blank) /\ x[u] \notin Blank /\ x[s] \in Blank
        /\ \A k \in u..n : x[k] \in Visible
    <3>1. /\ \A k \in s..u - 1 : k \in 1..n
          /\ \A k \in u..n : k \in 1..n
          /\ s \in s..u - 1
      BY <1>0, <2>1
    <3>2. Bytes(x, s, u - 1, Blank)  BY <1>0, <2>1, <3>1 DEF Bytes
    <3>3. \A k \in u..n : x[k] \in Visible  BY <1>0, <2>1, <3>1 DEF Bytes
    <3> QED  BY <1>0, <2>1, <3>1, <3>2, <3>3 DEF Bytes
  <2>3. PICK j \in s + 1..m - 3, v \in 1..m : FoldAt(x, s, v, j)
    <3>1. x[s] # "cr"  BY <1>2, <2>2
    <3>2. ASSUME NEW j \in s + 1..m - 3, NEW e \in 1..m, FieldAt(x, s, e, j) PROVE FALSE
      <4>1. s < e /\ Bytes(x, s, e - 1, Token)  BY <3>2 DEF FieldAt
      <4>2. s \in s..e - 1  BY <1>0, <4>1
      <4> QED  BY <1>2, <2>2, <4>1, <4>2 DEF Bytes
    <3> QED  BY <1>1, <3>1, <3>2
  <2>4. /\ s < v /\ Bytes(x, s, v - 1, Blank) /\ x[v] \notin Blank
        /\ v <= j /\ Bytes(x, v, j - 1, Visible) /\ x[j] = "cr"
    BY <2>3 DEF FoldAt
  <2>5. v = u
    <3>1. s \in 1..m /\ u \in 1..m  BY <1>0, <2>1
    <3> QED  BY <2>1, <2>2, <2>4, <3>1, OneUnfold
  <2>6. u \in s..n + 1 /\ j \in u..m
    <3> HIDE DEF n, m
    <3> QED  BY <1>0, <2>1, <2>3, <2>4, <2>5
  <2> QED  BY <1>4, <2>2, <2>4, <2>5, <2>6
<1> QED  BY <1>5, <1>6 DEF InValue

(* Where there is a cr, the byte is a lf. *)
LEMMA ReadyForNewline ==
  ASSUME NEW t \in Seq(Char), NEW req \in Request, NEW x \in Seq(Char), Extends(x, t),
         InLines(x), t # <<>>, t[Len(t)] = "cr"
  PROVE  /\ Ready("expecting_newline_1", t, req, x)
         /\ Ready("expecting_newline_2", t, req, x)
         /\ Ready("expecting_newline_3", t, req, x)
<1> DEFINE n == Len(t)
           c == x[n + 1]
<1>1. n \in 1..n /\ n \in 1..Len(x) /\ x[n] = "cr"
  <2>1. n \in Nat /\ n # 0  BY EmptySeq
  <2> QED  BY <2>1 DEF Extends
<1>2. n < Len(x) /\ c = "lf"  BY <1>1, AfterCr
<1>3. c \in Char  BY <1>2 DEF Char
<1> HIDE DEF c
<1>4. /\ Goto("expecting_newline_1", c, req)
           = IF c = "lf" THEN "header_line_start" ELSE "bad"
      /\ Goto("expecting_newline_2", c, req)
           = IF c = "lf" THEN "header_line_start" ELSE "bad"
      /\ Goto("expecting_newline_3", c, req) = IF c = "lf" THEN "good" ELSE "bad"
  BY <1>3, GotoTable
<1> QED  BY <1>2, <1>4 DEF Ready, c

(* A text that goes on to a request has a byte for each state of its *)
(* headers.                                                          *)
LEMMA ReadyForHeaders ==
  ASSUME NEW t \in Seq(Char), NEW req \in Request, NEW x \in Seq(Char), Extends(x, t),
         Laid(x), NEW st \in HeaderState \ {"good"}, InHeaders(st, t, req)
  PROVE  Ready(st, t, req, x)
<1>0. PICK a \in 1..Len(t), b \in 1..Len(t), d \in 1..Len(t), f \in 1..Len(t),
           s \in 1..Len(t) + 1 : \E h, is :
        HeadersAt(t, req, a, b, d, f, s, h, is) /\ LineSoFar(st, t, s, h[s - 1], is)
  BY DEF InHeaders
<1>1. PICK h, is :
        HeadersAt(t, req, a, b, d, f, s, h, is) /\ LineSoFar(st, t, s, h[s - 1], is)
  BY <1>0
<1>2. /\ RequestAt(t, a, b, d, f) /\ Whole(t, f, s, h) /\ req.headers = is
  BY <1>1 DEF HeadersAt, RequestOf, Req
<1>3. RequestAt(x, a, b, d, f) /\ Whole(x, f, s, h)
  <2>1. RequestAt(x, a, b, d, f)  BY <1>2, SameRequest
  <2>2. Whole(x, f, s, h)  BY <1>2, SameLines
  <2> QED  BY <2>1, <2>2
<1>4. /\ a \in 1..Len(x) /\ b \in 1..Len(x) /\ d \in 1..Len(x) /\ f \in 1..Len(x)
      /\ s \in 1..Len(x) + 1
  BY DEF Extends
<1>5. PICK e \in 1..Len(x), g \in 1..Len(x), k \in 1..Len(x), l \in 1..Len(x) :
        RequestAt(x, e, g, k, l) /\ LinesAt(x, l)
  BY DEF Laid
<1>6. LinesAt(x, f)
  <2>1. f = l  BY <1>3, <1>4, <1>5, OneRequest
  <2> QED  BY <1>5, <2>1
<1>7. InLines(x)  BY DEF Laid
<1>8. x[f] = "cr" /\ x[f - 1] # "lf"
  <2>1. MajorAt(x, a, b, d) /\ d + 1 < f /\ Bytes(x, d + 1, f - 1, is_digit) /\ x[f] = "cr"
    BY <1>3 DEF RequestAt
  <2>2. f - 1 \in d + 1..f - 1  BY <2>1
  <2>3. x[f - 1] \in is_digit  BY <2>1, <2>2 DEF Bytes
  <2>4. "lf" \notin is_digit  BY DEF is_digit
  <2> QED  BY <2>1, <2>3, <2>4
<1> DEFINE hs == h[s - 1]
<1>9. s <= Len(x) /\ (x[s] = "cr" \/ \E j \in s + 1..Len(x) - 3 : LineAt(x, s, j, f))
  BY <1>3, <1>4, <1>6, <1>7, <1>8, LineHere
<1>10. s # f + 2 => hs # <<>>
  <2>1. f + 2 <= s /\ \A i \in f + 2..s - 1 : h[i] # <<>>  BY <1>2 DEF Whole
  <2>2. s # f + 2 => s - 1 \in f + 2..s - 1  BY <2>1
  <2> QED  BY <2>1, <2>2
<1>11. LineSoFar(st, t, s, hs, is)  BY <1>1
<1> HIDE DEF hs
<1>12. /\ InLine(t, s, hs, is) => Ready("header_line_start", t, req, x)
       /\ InBlanks(t, s, hs, is) => Ready("header_lws", t, req, x)
       /\ InFieldName(t, s, hs, is) => Ready("header_name", t, req, x)
       /\ AtColon(t, s, hs, is) => Ready("space_before_header_value", t, req, x)
  BY <1>2, <1>9, <1>10, ReadyForLine
<1>13. InValue(t, s, hs, is) => Ready("header_value", t, req, x)
  BY <1>9, ReadyForValue
<1>14. AtEndOfLine(t, s, hs, is) \/ AtLastLine(t, s, hs, is) => t # <<>> /\ t[Len(t)] = "cr"
  <2>1. AtEndOfLine(t, s, hs, is) => t[Len(t)] = "cr"
    <3>1. s \in Nat /\ Len(t) \in Nat  OBVIOUS
    <3> QED  BY <3>1, LineBytes DEF AtEndOfLine
  <2>2. AtLastLine(t, s, hs, is) => t[Len(t)] = "cr"  BY DEF AtLastLine
  <2>3. t # <<>>  BY EmptySeq
  <2> QED  BY <2>1, <2>2, <2>3
<1>15. CASE st = "header_line_start"  BY <1>11, <1>12, <1>15 DEF LineSoFar
<1>16. CASE st = "header_lws"  BY <1>11, <1>12, <1>16 DEF LineSoFar
<1>17. CASE st = "header_name"  BY <1>11, <1>12, <1>17 DEF LineSoFar
<1>18. CASE st = "space_before_header_value"  BY <1>11, <1>12, <1>18 DEF LineSoFar
<1>19. CASE st = "header_value"  BY <1>11, <1>13, <1>19 DEF LineSoFar
<1>20. CASE st = "expecting_newline_2"
  BY <1>7, <1>11, <1>14, <1>20, ReadyForNewline DEF LineSoFar
<1>21. CASE st = "expecting_newline_3"
  BY <1>7, <1>11, <1>14, <1>21, ReadyForNewline DEF LineSoFar
<1> QED
  BY <1>15, <1>16, <1>17, <1>18, <1>19, <1>20, <1>21 DEF HeaderState

(* So it has in every state: the parser refuses no beginning of a request. *)
LEMMA ReadyForMore ==
  ASSUME NEW st \in State \ Result, NEW t \in Seq(Char), NEW req \in Request,
         Parsed(st, t, req), NEW x \in Seq(Char), Extends(x, t), Laid(x)
  PROVE  Ready(st, t, req, x)
<1>1. PICK a \in 1..Len(x), b \in 1..Len(x), d \in 1..Len(x), f \in 1..Len(x) :
        RequestAt(x, a, b, d, f)
  BY DEF Laid
<1>2. MajorAt(x, a, b, d) /\ UriAt(x, a, b)  BY <1>1 DEF RequestAt, MajorAt
<1>3. CASE st = "method_start"  BY <1>2, <1>3, ReadyForMethod DEF Parsed
<1>4. CASE st = "method"  BY <1>2, <1>4, ReadyForMethod DEF Parsed
<1>5. CASE st = "uri"  BY <1>2, <1>5, ReadyForMethod DEF Parsed
<1>6. CASE st = "http_version_h"  BY <1>2, <1>6, ReadyForName DEF Parsed
<1>7. CASE st = "http_version_t_1"  BY <1>2, <1>7, ReadyForName DEF Parsed
<1>8. CASE st = "http_version_t_2"  BY <1>2, <1>8, ReadyForName DEF Parsed
<1>9. CASE st = "http_version_p"  BY <1>2, <1>9, ReadyForName DEF Parsed
<1>10. CASE st = "http_version_slash"  BY <1>2, <1>10, ReadyForName DEF Parsed
<1>11. CASE st = "http_version_major_start"  BY <1>2, <1>11, ReadyForName DEF Parsed
<1>12. CASE st = "http_version_major"  BY <1>1, <1>12, ReadyForNumbers DEF Parsed
<1>13. CASE st = "http_version_minor_start"  BY <1>1, <1>13, ReadyForNumbers DEF Parsed
<1>14. CASE st = "http_version_minor"  BY <1>1, <1>14, ReadyForNumbers DEF Parsed
<1>15. CASE st = "expecting_newline_1"
  <2>1. LineRead(t, req)  BY <1>15 DEF Parsed
  <2>2. t # <<>> /\ t[Len(t)] = "cr"
    <3>1. PICK e \in 1..Len(t), g \in 1..Len(t), k \in 1..Len(t) :
            RequestAt(t, e, g, k, Len(t))
      BY <2>1 DEF LineRead
    <3> QED  BY <3>1, EmptySeq DEF RequestAt
  <2>3. InLines(x)  BY DEF Laid
  <2> QED  BY <1>15, <2>2, <2>3, ReadyForNewline
<1>16. CASE st \in HeaderState
  <2>1. st \in HeaderState \ {"good"} /\ InHeaders(st, t, req)  BY <1>16 DEF Parsed, Result
  <2> QED  BY <2>1, ReadyForHeaders
<1> QED
  BY <1>3, <1>4, <1>5, <1>6, <1>7, <1>8, <1>9, <1>10, <1>11, <1>12, <1>13, <1>14, <1>15,
     <1>16, Zenon DEF State, Result, HeaderState

(* Nothing that begins so is a request. *)
Hopeless(t) == \A x \in Seq(Char) : Extends(x, t) => ~Laid(x)

(* What the parser refuses begins no request. *)
LEMMA BadEndsHope ==
  ASSUME NEW st \in State \ Result, NEW t \in Seq(Char), NEW req \in Request,
         Parsed(st, t, req), NEW c \in Char, Goto(st, c, req) = "bad"
  PROVE  Hopeless(Append(t, c))
<1> DEFINE y == Append(t, c)
<1>1. Len(y) = Len(t) + 1 /\ y[Len(t) + 1] = c /\ \A k \in 1..Len(t) : y[k] = t[k]  BY Grown
<1> HIDE DEF y
<1> SUFFICES ASSUME NEW x \in Seq(Char), Extends(x, y), Laid(x) PROVE FALSE
  BY DEF Hopeless, y
<1>2. Extends(x, t) /\ x[Len(t) + 1] = c  BY <1>1 DEF Extends
<1>3. Goto(st, x[Len(t) + 1], req) # "bad"  BY <1>2, ReadyForMore DEF Ready
<1> QED  BY <1>2, <1>3

(* What it asks more for is no request yet. *)
LEMMA MoreIsNoRequest ==
  ASSUME NEW st \in State \ Result, NEW t \in Seq(Char), NEW req \in Request,
         Parsed(st, t, req)
  PROVE  ~IsRequest(t)
<1> SUFFICES ASSUME Laid(t) PROVE FALSE  BY RequestIsLaid
<1>1. Extends(t, t)  BY DEF Extends
<1>2. Len(t) < Len(t)  BY <1>1, ReadyForMore DEF Ready
<1> QED  BY <1>2

(* The endings the grammar tries. *)
LEMMA TheEndings ==
  /\ Shortest \in Seq(Char) /\ Len(Shortest) = 15
  /\ OneHeader \in Seq(Char) /\ Len(OneHeader) = 7
  /\ Endings \subseteq Seq(Char)
  /\ \A i \in 1..16 : SubSeq(Shortest, i, 15) \in Endings
  /\ \A i \in 1..8 : SubSeq(OneHeader, i, 7) \in Endings
<1>1. Shortest \in Seq(Char) /\ Len(Shortest) = 15  BY DEF Shortest, Char
<1>2. OneHeader \in Seq(Char) /\ Len(OneHeader) = 7  BY DEF OneHeader, Char
<1>3. ASSUME NEW r \in {Shortest, OneHeader}, NEW i \in 1..Len(r) + 1
      PROVE  SubSeq(r, i, Len(r)) \in Seq(Char)
  <2>1. r \in Seq(Char) /\ Len(r) \in i - 1..Len(r)  BY <1>1, <1>2
  <2> QED  BY <2>1, Part
<1> DEFINE E(r) == {SubSeq(r, i, Len(r)) : i \in 1..Len(r) + 1}
<1>4. ASSUME NEW r \in {Shortest, OneHeader}, NEW i \in 1..Len(r) + 1
      PROVE  SubSeq(r, i, Len(r)) \in Endings
  <2>1. SubSeq(r, i, Len(r)) \in E(r)  OBVIOUS
  <2>2. E(r) \in {E(x) : x \in {Shortest, OneHeader}}  OBVIOUS
  <2>3. Endings = UNION {E(x) : x \in {Shortest, OneHeader}}  BY DEF Endings
  <2> HIDE DEF E
  <2> QED  BY <2>1, <2>2, <2>3
<1>5. Endings \subseteq Seq(Char)
  <2>1. \A r \in {Shortest, OneHeader} : E(r) \subseteq Seq(Char)  BY <1>3
  <2>2. Endings = UNION {E(x) : x \in {Shortest, OneHeader}}  BY DEF Endings
  <2> HIDE DEF E
  <2> QED  BY <2>1, <2>2
<1>6. ASSUME NEW i \in 1..16 PROVE SubSeq(Shortest, i, 15) \in Endings
  <2>1. i \in 1..Len(Shortest) + 1  BY <1>1
  <2> QED  BY <1>1, <1>4, <2>1
<1>7. ASSUME NEW i \in 1..8 PROVE SubSeq(OneHeader, i, 7) \in Endings
  <2>1. i \in 1..Len(OneHeader) + 1  BY <1>2
  <2> QED  BY <1>2, <1>4, <2>1
<1> QED  BY <1>1, <1>2, <1>5, <1>6, <1>7

(* No ending makes a request of what is hopeless. *)
LEMMA HopelessEnds ==
  ASSUME NEW t \in Seq(Char), Hopeless(t)
  PROVE  ~IsRequest(t) /\ ~Viable(t)
<1>1. ASSUME NEW e \in Seq(Char) PROVE ~IsRequest(t \o e)
  <2>1. t \o e \in Seq(Char) /\ Extends(t \o e, t)  BY DEF Extends
  <2>2. ~Laid(t \o e)  BY <2>1 DEF Hopeless
  <2> QED  BY <2>1, <2>2, RequestIsLaid
<1>2. ~IsRequest(t)
  <2>1. Extends(t, t)  BY DEF Extends
  <2> QED  BY <2>1, RequestIsLaid DEF Hopeless
<1>3. Endings \subseteq Seq(Char)  BY TheEndings
<1> QED  BY <1>1, <1>2, <1>3 DEF Viable

-----------------------------------------------------------------------------
(* From every state but "bad" there is an end that makes a request.        *)
GoodEnd(st, r, i) ==
  \A t \in Seq(Char), q \in Request :
    Parsed(st, t, q) /\ HasHeader(q, st) => IsRequest(t \o SubSeq(r, i, Len(r)))

(* What the parser calls good is a request, and says what was stored. *)
LEMMA GoodIsComplete ==
  ASSUME NEW t \in Seq(Char), NEW q \in Request, Parsed("good", t, q)
  PROVE  IsRequest(t) /\ q = TheRequest(t)
<1>0. PICK a \in 1..Len(t), b \in 1..Len(t), d \in 1..Len(t), f \in 1..Len(t),
           s \in 1..Len(t) + 1 : \E h, is :
        HeadersAt(t, q, a, b, d, f, s, h, is) /\ LineSoFar("good", t, s, h[s - 1], is)
  BY DEF Parsed, HeaderState, InHeaders
<1>1. PICK h, is :
        HeadersAt(t, q, a, b, d, f, s, h, is) /\ LineSoFar("good", t, s, h[s - 1], is)
  BY <1>0
<1>2. AtTheEnd(t, s, h[s - 1], is)  BY <1>1 DEF LineSoFar
<1>3. Laid(t) /\ TheRequest(t) = q  BY <1>1, <1>2, EndIs
<1> QED  BY <1>3, LaidIsRequest

(* The bytes of two texts put together. *)
LEMMA Concatenated ==
  ASSUME NEW p \in Seq(Char), NEW q \in Seq(Char)
  PROVE  /\ p \o q \in Seq(Char) /\ Len(p \o q) = Len(p) + Len(q)
         /\ \A k \in 1..Len(p) + Len(q) :
              (p \o q)[k] = IF k <= Len(p) THEN p[k] ELSE q[k - Len(p)]
BY ConcatProperties

(* A byte of the ending can be taken from it and added to the text. *)
LEMMA OneByteMore ==
  ASSUME NEW t \in Seq(Char), NEW r \in Seq(Char), NEW i \in 1..Len(r)
  PROVE  t \o SubSeq(r, i, Len(r)) = Append(t, r[i]) \o SubSeq(r, i + 1, Len(r))
<1> DEFINE n == Len(r)
           m == Len(t)
           u == SubSeq(r, i, n)
           v == SubSeq(r, i + 1, n)
           y == Append(t, r[i])
<1>0. n \in Nat /\ m \in Nat /\ r[i] \in Char  OBVIOUS
<1>1. u \in Seq(Char) /\ Len(u) = n - i + 1 /\ \A k \in 1..n - i + 1 : u[k] = r[i + k - 1]
  <2>1. i \in 1..n + 1 /\ n \in i - 1..n  BY <1>0
  <2> QED  BY <2>1, Part
<1>2. v \in Seq(Char) /\ Len(v) = n - i /\ \A k \in 1..n - i : v[k] = r[i + k]
  <2> DEFINE j == i + 1
  <2>1. j \in 1..n + 1 /\ n \in j - 1..n  BY <1>0
  <2>2. n - j + 1 = n - i /\ \A k \in 1..n - i : j + k - 1 = i + k  BY <1>0
  <2> HIDE DEF j
  <2>3. SubSeq(r, j, n) \in Seq(Char) /\ Len(SubSeq(r, j, n)) = n - j + 1
        /\ \A k \in 1..n - j + 1 : SubSeq(r, j, n)[k] = r[j + k - 1]
    BY <2>1, Part
  <2> QED  BY <2>2, <2>3 DEF j
<1>3. /\ y \in Seq(Char) /\ Len(y) = m + 1 /\ y[m + 1] = r[i]
      /\ \A k \in 1..m : y[k] = t[k]
  BY <1>0, Grown
<1> HIDE DEF u, v, y, n, m
<1> DEFINE z == t \o u
           w == y \o v
<1>4. /\ z \in Seq(Char) /\ Len(z) = m + (n - i + 1)
      /\ \A k \in 1..m + (n - i + 1) : z[k] = IF k <= m THEN t[k] ELSE u[k - m]
  <2>1. /\ t \o u \in Seq(Char) /\ Len(t \o u) = Len(t) + Len(u)
        /\ \A k \in 1..Len(t) + Len(u) :
              (t \o u)[k] = IF k <= Len(t) THEN t[k] ELSE u[k - Len(t)]
    BY <1>1, Concatenated
  <2> QED  BY <1>1, <2>1 DEF m
<1>5. /\ w \in Seq(Char) /\ Len(w) = m + 1 + (n - i)
      /\ \A k \in 1..m + 1 + (n - i) : w[k] = IF k <= m + 1 THEN y[k] ELSE v[k - (m + 1)]
  <2>1. /\ y \o v \in Seq(Char) /\ Len(y \o v) = Len(y) + Len(v)
        /\ \A k \in 1..Len(y) + Len(v) :
              (y \o v)[k] = IF k <= Len(y) THEN y[k] ELSE v[k - Len(y)]
    BY <1>2, <1>3, Concatenated
  <2> QED  BY <1>2, <1>3, <2>1
<1> HIDE DEF z, w
<1>6. ASSUME NEW k \in 1..Len(z) PROVE z[k] = w[k]
  <2>0. k \in Nat /\ k >= 1 /\ k <= m + (n - i + 1)  BY <1>0, <1>4
  <2>1. z[k] = IF k <= m THEN t[k] ELSE u[k - m]  BY <1>4
  <2>2. w[k] = IF k <= m + 1 THEN y[k] ELSE v[k - (m + 1)]
    <3>1. k \in 1..m + 1 + (n - i)  BY <1>0, <2>0
    <3> QED  BY <1>5, <3>1
  <2>3. CASE k <= m
    <3>1. k \in 1..m /\ k <= m + 1  BY <1>0, <2>0, <2>3
    <3> QED  BY <1>3, <2>1, <2>2, <2>3, <3>1
  <2>4. CASE k = m + 1
    <3>1. ~(k <= m) /\ k - m = 1 /\ 1 \in 1..n - i + 1 /\ i + 1 - 1 = i
      BY <1>0, <2>0, <2>4
    <3>2. u[1] = r[i]  BY <1>1, <3>1
    <3> QED  BY <1>3, <2>1, <2>2, <2>4, <3>1, <3>2
  <2>5. CASE k > m + 1
    <3>1. /\ ~(k <= m) /\ ~(k <= m + 1) /\ k - m \in 1..n - i + 1
          /\ k - (m + 1) \in 1..n - i /\ i + (k - m) - 1 = i + (k - (m + 1))
      BY <1>0, <2>0, <2>5
    <3>2. u[k - m] = r[i + (k - m) - 1] /\ v[k - (m + 1)] = r[i + (k - (m + 1))]
      BY <1>1, <1>2, <3>1
    <3> QED  BY <2>1, <2>2, <3>1, <3>2
  <2> QED  BY <1>0, <2>0, <2>3, <2>4, <2>5
<1>7. Len(z) = Len(w)  BY <1>0, <1>4, <1>5
<1>8. z = w  BY <1>4, <1>5, <1>6, <1>7, SeqEqual
<1> QED  BY <1>8 DEF z, w, u, v, y, n

(* A state has a good ending when its next byte leads to one that has. *)
LEMMA Onward ==
  ASSUME NEW r \in Seq(Char), NEW i \in 1..Len(r), NEW st \in State \ Result,
         NEW to \in State \ {"bad"}, \A q \in Request : Goto(st, r[i], q) = to,
         GoodEnd(to, r, i + 1)
  PROVE  GoodEnd(st, r, i)
<1> SUFFICES ASSUME NEW t \in Seq(Char), NEW q \in Request, Parsed(st, t, q), HasHeader(q, st)
             PROVE  IsRequest(t \o SubSeq(r, i, Len(r)))
  BY DEF GoodEnd
<1> DEFINE c == r[i]
           y == Append(t, c)
           p == Store(q, st, c, to)
<1>1. c \in Char /\ y \in Seq(Char) /\ Goto(st, c, q) = to  OBVIOUS
<1>2. Parsed(to, y, p)
  <2>1. Moves(st, t, c, q)
    <3> HIDE DEF c
    <3> QED  BY <1>1, ByteIsParsed
  <2> QED  BY <1>1, <2>1 DEF Moves
<1>3. p \in Request /\ HasHeader(p, to)
  <2> HIDE DEF c
  <2>1. Leads(q, st, to)  BY <1>1, IntoHeader
  <2> QED  BY <1>1, <2>1, StoreTyped
<1> HIDE DEF c, y, p
<1>4. IsRequest(y \o SubSeq(r, i + 1, Len(r)))  BY <1>1, <1>2, <1>3 DEF GoodEnd
<1> QED  BY <1>4, OneByteMore DEF y, c

(* How Shortest goes on from the states of the request line, and OneHeader  *)
(* from those of a header.                                                 *)
LEMMA EndsOfShortest ==
  LET r == Shortest IN
  /\ GoodEnd("good", r, 16) /\ GoodEnd("expecting_newline_3", r, 15)
  /\ GoodEnd("header_line_start", r, 14) /\ GoodEnd("expecting_newline_1", r, 13)
  /\ GoodEnd("http_version_minor", r, 12) /\ GoodEnd("http_version_minor_start", r, 11)
  /\ GoodEnd("http_version_major", r, 10) /\ GoodEnd("http_version_major_start", r, 9)
  /\ GoodEnd("http_version_slash", r, 8) /\ GoodEnd("http_version_p", r, 7)
  /\ GoodEnd("http_version_t_2", r, 6) /\ GoodEnd("http_version_t_1", r, 5)
  /\ GoodEnd("http_version_h", r, 4) /\ GoodEnd("uri", r, 3)
  /\ GoodEnd("method", r, 2) /\ GoodEnd("method_start", r, 1)
<1> DEFINE r == Shortest
<1>0. r \in Seq(Char) /\ Len(r) = 15  BY TheEndings
<1>1. /\ r[1] = "H" /\ r[2] = "space" /\ r[3] = "space" /\ r[4] = "H" /\ r[5] = "T"
      /\ r[6] = "T" /\ r[7] = "P" /\ r[8] = "/" /\ r[9] = "0" /\ r[10] = "."
      /\ r[11] = "0" /\ r[12] = "cr" /\ r[13] = "lf" /\ r[14] = "cr" /\ r[15] = "lf"
  BY DEF Shortest
<1> HIDE DEF r
<1>2. GoodEnd("good", r, 16)
  <2> SUFFICES ASSUME NEW t \in Seq(Char), NEW q \in Request, Parsed("good", t, q)
               PROVE  IsRequest(t \o SubSeq(r, 16, Len(r)))
    BY DEF GoodEnd
  <2>1. SubSeq(r, 16, Len(r)) = <<>>  BY <1>0, Nothing
  <2>2. t \o <<>> = t  OBVIOUS
  <2> QED  BY <2>1, <2>2, GoodIsComplete
<1>3. ASSUME NEW i \in 1..15, NEW st \in State \ Result, NEW to \in State \ {"bad"},
             \A q \in Request : Goto(st, r[i], q) = to, GoodEnd(to, r, i + 1)
      PROVE  GoodEnd(st, r, i)
  BY <1>0, <1>3, Onward
<1>4. "H" \in Token /\ "0" \in is_digit /\ \A i \in 1..15 : r[i] \in Char
  <2>1. "H" \in Token /\ "0" \in is_digit
    BY DEF Token, is_char, is_ctl, is_tspecial, is_digit, Char
  <2>2. \A i \in 1..15 : r[i] \in Char  BY <1>0, ElementOfSeq
  <2> QED  BY <2>1, <2>2
<1>5. GoodEnd("expecting_newline_3", r, 15)
  <2>1. \A q \in Request : Goto("expecting_newline_3", r[15], q) = "good"
    BY <1>1, <1>4, GotoTable
  <2>2. GoodEnd("good", r, 15 + 1)  BY <1>2
  <2> QED  BY <1>3, <2>1, <2>2 DEF State, Result
<1>6. GoodEnd("header_line_start", r, 14)
  <2>1. \A q \in Request : Goto("header_line_start", r[14], q) = "expecting_newline_3"
    BY <1>1, <1>4, GotoTable
  <2>2. GoodEnd("expecting_newline_3", r, 14 + 1)  BY <1>5
  <2> QED  BY <1>3, <2>1, <2>2 DEF State, Result
<1>7. GoodEnd("expecting_newline_1", r, 13)
  <2>1. \A q \in Request : Goto("expecting_newline_1", r[13], q) = "header_line_start"
    BY <1>1, <1>4, GotoTable
  <2>2. GoodEnd("header_line_start", r, 13 + 1)  BY <1>6
  <2> QED  BY <1>3, <2>1, <2>2 DEF State, Result
<1>8. GoodEnd("http_version_minor", r, 12)
  <2>1. \A q \in Request : Goto("http_version_minor", r[12], q) = "expecting_newline_1"
    BY <1>1, <1>4, GotoTable
  <2>2. GoodEnd("expecting_newline_1", r, 12 + 1)  BY <1>7
  <2> QED  BY <1>3, <2>1, <2>2 DEF State, Result
<1>9. GoodEnd("http_version_minor_start", r, 11)
  <2>1. \A q \in Request : Goto("http_version_minor_start", r[11], q) = "http_version_minor"
    BY <1>1, <1>4, GotoTable
  <2>2. GoodEnd("http_version_minor", r, 11 + 1)  BY <1>8
  <2> QED  BY <1>3, <2>1, <2>2 DEF State, Result
<1>10. GoodEnd("http_version_major", r, 10)
  <2>1. \A q \in Request : Goto("http_version_major", r[10], q) = "http_version_minor_start"
    BY <1>1, <1>4, GotoTable
  <2>2. GoodEnd("http_version_minor_start", r, 10 + 1)  BY <1>9
  <2> QED  BY <1>3, <2>1, <2>2 DEF State, Result
<1>11. GoodEnd("http_version_major_start", r, 9)
  <2>1. \A q \in Request : Goto("http_version_major_start", r[9], q) = "http_version_major"
    BY <1>1, <1>4, GotoTable
  <2>2. GoodEnd("http_version_major", r, 9 + 1)  BY <1>10
  <2> QED  BY <1>3, <2>1, <2>2 DEF State, Result
<1>12. GoodEnd("http_version_slash", r, 8)
  <2>1. \A q \in Request : Goto("http_version_slash", r[8], q) = "http_version_major_start"
    BY <1>1, <1>4, GotoTable
  <2>2. GoodEnd("http_version_major_start", r, 8 + 1)  BY <1>11
  <2> QED  BY <1>3, <2>1, <2>2 DEF State, Result
<1>13. GoodEnd("http_version_p", r, 7)
  <2>1. \A q \in Request : Goto("http_version_p", r[7], q) = "http_version_slash"
    BY <1>1, <1>4, GotoTable
  <2>2. GoodEnd("http_version_slash", r, 7 + 1)  BY <1>12
  <2> QED  BY <1>3, <2>1, <2>2 DEF State, Result
<1>14. GoodEnd("http_version_t_2", r, 6)
  <2>1. \A q \in Request : Goto("http_version_t_2", r[6], q) = "http_version_p"
    BY <1>1, <1>4, GotoTable
  <2>2. GoodEnd("http_version_p", r, 6 + 1)  BY <1>13
  <2> QED  BY <1>3, <2>1, <2>2 DEF State, Result
<1>15. GoodEnd("http_version_t_1", r, 5)
  <2>1. \A q \in Request : Goto("http_version_t_1", r[5], q) = "http_version_t_2"
    BY <1>1, <1>4, GotoTable
  <2>2. GoodEnd("http_version_t_2", r, 5 + 1)  BY <1>14
  <2> QED  BY <1>3, <2>1, <2>2 DEF State, Result
<1>16. GoodEnd("http_version_h", r, 4)
  <2>1. \A q \in Request : Goto("http_version_h", r[4], q) = "http_version_t_1"
    BY <1>1, <1>4, GotoTable
  <2>2. GoodEnd("http_version_t_1", r, 4 + 1)  BY <1>15
  <2> QED  BY <1>3, <2>1, <2>2 DEF State, Result
<1>17. GoodEnd("uri", r, 3)
  <2>1. \A q \in Request : Goto("uri", r[3], q) = "http_version_h"
    BY <1>1, <1>4, GotoTable
  <2>2. GoodEnd("http_version_h", r, 3 + 1)  BY <1>16
  <2> QED  BY <1>3, <2>1, <2>2 DEF State, Result
<1>18. GoodEnd("method", r, 2)
  <2>1. \A q \in Request : Goto("method", r[2], q) = "uri"
    BY <1>1, <1>4, GotoTable
  <2>2. GoodEnd("uri", r, 2 + 1)  BY <1>17
  <2> QED  BY <1>3, <2>1, <2>2 DEF State, Result
<1>19. GoodEnd("method_start", r, 1)
  <2>1. \A q \in Request : Goto("method_start", r[1], q) = "method"
    BY <1>1, <1>4, GotoTable
  <2>2. GoodEnd("method", r, 1 + 1)  BY <1>18
  <2> QED  BY <1>3, <2>1, <2>2 DEF State, Result
<1> QED
  BY <1>2, <1>5, <1>6, <1>7, <1>8, <1>9, <1>10, <1>11,
     <1>12, <1>13, <1>14, <1>15, <1>16, <1>17, <1>18, <1>19 DEF r

(* The endings in a header line are good, from each of its states. *)
LEMMA EndsOfOneHeader ==
  LET r == OneHeader IN
  /\ GoodEnd("header_name", r, 2) /\ GoodEnd("space_before_header_value", r, 3)
  /\ GoodEnd("header_value", r, 4) /\ GoodEnd("header_lws", r, 4)
  /\ GoodEnd("expecting_newline_2", r, 5)
<1> DEFINE r == OneHeader
<1>0. r \in Seq(Char) /\ Len(r) = 7  BY TheEndings
<1>1. /\ r[1] = "H" /\ r[2] = ":" /\ r[3] = "space" /\ r[4] = "cr" /\ r[5] = "lf"
      /\ r[6] = "cr" /\ r[7] = "lf"
  BY DEF OneHeader
<1> HIDE DEF r
<1>2. GoodEnd("good", r, 8)
  <2> SUFFICES ASSUME NEW t \in Seq(Char), NEW q \in Request, Parsed("good", t, q)
               PROVE  IsRequest(t \o SubSeq(r, 8, Len(r)))
    BY DEF GoodEnd
  <2>1. SubSeq(r, 8, Len(r)) = <<>>  BY <1>0, Nothing
  <2>2. t \o <<>> = t  OBVIOUS
  <2> QED  BY <2>1, <2>2, GoodIsComplete
<1>3. ASSUME NEW i \in 1..7, NEW st \in State \ Result, NEW to \in State \ {"bad"},
             \A q \in Request : Goto(st, r[i], q) = to, GoodEnd(to, r, i + 1)
      PROVE  GoodEnd(st, r, i)
  BY <1>0, <1>3, Onward
<1>4. \A i \in 1..7 : r[i] \in Char  BY <1>0, ElementOfSeq
<1>5. GoodEnd("expecting_newline_3", r, 7)
  <2>1. \A q \in Request : Goto("expecting_newline_3", r[7], q) = "good"
    BY <1>1, <1>4, GotoTable
  <2>2. GoodEnd("good", r, 7 + 1)  BY <1>2
  <2> QED  BY <1>3, <2>1, <2>2 DEF State, Result
<1>6. GoodEnd("header_line_start", r, 6)
  <2>1. \A q \in Request : Goto("header_line_start", r[6], q) = "expecting_newline_3"
    BY <1>1, <1>4, GotoTable
  <2>2. GoodEnd("expecting_newline_3", r, 6 + 1)  BY <1>5
  <2> QED  BY <1>3, <2>1, <2>2 DEF State, Result
<1>7. GoodEnd("expecting_newline_2", r, 5)
  <2>1. \A q \in Request : Goto("expecting_newline_2", r[5], q) = "header_line_start"
    BY <1>1, <1>4, GotoTable
  <2>2. GoodEnd("header_line_start", r, 5 + 1)  BY <1>6
  <2> QED  BY <1>3, <2>1, <2>2 DEF State, Result
<1>8. GoodEnd("header_lws", r, 4)
  <2>1. \A q \in Request : Goto("header_lws", r[4], q) = "expecting_newline_2"
    BY <1>1, <1>4, GotoTable
  <2>2. GoodEnd("expecting_newline_2", r, 4 + 1)  BY <1>7
  <2> QED  BY <1>3, <2>1, <2>2 DEF State, Result
<1>9. GoodEnd("header_value", r, 4)
  <2>1. \A q \in Request : Goto("header_value", r[4], q) = "expecting_newline_2"
    BY <1>1, <1>4, GotoTable
  <2>2. GoodEnd("expecting_newline_2", r, 4 + 1)  BY <1>7
  <2> QED  BY <1>3, <2>1, <2>2 DEF State, Result
<1>10. GoodEnd("space_before_header_value", r, 3)
  <2>1. \A q \in Request : Goto("space_before_header_value", r[3], q) = "header_value"
    BY <1>1, <1>4, GotoTable
  <2>2. GoodEnd("header_value", r, 3 + 1)  BY <1>9
  <2> QED  BY <1>3, <2>1, <2>2 DEF State, Result
<1>11. GoodEnd("header_name", r, 2)
  <2>1. \A q \in Request : Goto("header_name", r[2], q) = "space_before_header_value"
    BY <1>1, <1>4, GotoTable
  <2>2. GoodEnd("space_before_header_value", r, 2 + 1)  BY <1>10
  <2> QED  BY <1>3, <2>1, <2>2 DEF State, Result
<1> QED
  BY <1>5, <1>6, <1>7, <1>8, <1>9, <1>10, <1>11 DEF r

(* So in every state but bad there is an ending that makes a request. *)
LEMMA MoreIsViable ==
  ASSUME NEW st \in State \ {"bad"}, NEW t \in Seq(Char), NEW q \in Request,
         Parsed(st, t, q), HasHeader(q, st)
  PROVE  Viable(t)
<1>1. ASSUME NEW i \in 1..16, GoodEnd(st, Shortest, i) PROVE Viable(t)
  <2> DEFINE e == SubSeq(Shortest, i, 15)
  <2>1. e \in Endings /\ Len(Shortest) = 15  BY TheEndings
  <2>2. IsRequest(t \o e)  BY <1>1, <2>1 DEF GoodEnd
  <2> HIDE DEF e
  <2> QED  BY <2>1, <2>2 DEF Viable
<1>2. ASSUME NEW i \in 1..8, GoodEnd(st, OneHeader, i) PROVE Viable(t)
  <2> DEFINE e == SubSeq(OneHeader, i, 7)
  <2>1. e \in Endings /\ Len(OneHeader) = 7  BY TheEndings
  <2>2. IsRequest(t \o e)  BY <1>2, <2>1 DEF GoodEnd
  <2> HIDE DEF e
  <2> QED  BY <2>1, <2>2 DEF Viable
<1>3. CASE st \in {"header_name", "space_before_header_value", "header_value", "header_lws",
                   "expecting_newline_2"}
  <2>1. \E i \in 1..8 : GoodEnd(st, OneHeader, i)  BY <1>3, EndsOfOneHeader
  <2> QED  BY <1>2, <2>1
<1>4. CASE st \notin {"header_name", "space_before_header_value", "header_value", "header_lws",
                      "expecting_newline_2"}
  <2>1. \E i \in 1..16 : GoodEnd(st, Shortest, i)
    <3>1. \A i \in {1, 2, 3, 4, 5, 6, 7, 8, 9, 10, 11, 12, 13, 14, 15, 16} : i \in 1..16
      OBVIOUS
    <3> QED  BY <1>4, <3>1, EndsOfShortest DEF State, Result
  <2> QED  BY <1>1, <2>1
<1> QED  BY <1>3, <1>4

-----------------------------------------------------------------------------
(* The inductive invariant: what the state says was parsed is the text, or *)
(* the text is hopeless; and only a result is answered.                    *)
Understood ==
  /\ Parsed(state_, text, request_)
  /\ state_ = "bad" => Hopeless(text)
Answered ==
  /\ reply_ # "none" => state_ \in Result
  /\ reply_ = "ok" => state_ = "good"
GrammarInv == Inv /\ Understood /\ Answered

LEMMA NothingIsParsed ==
  Parsed("method_start", <<>>, NoRequest)
BY DEF Parsed, AtStart, HeaderState

LEMMA GrammarInit == Init => GrammarInv
BY InvInit, NothingIsParsed DEF Init, GrammarInv, Understood, Answered

LEMMA GrammarNext == GrammarInv /\ [Next]_vars => GrammarInv'
<1> SUFFICES ASSUME GrammarInv, [Next]_vars PROVE Understood' /\ Answered'
  BY InvNext DEF GrammarInv
<1>1. TypeOK /\ Understood /\ Answered  BY DEF GrammarInv, Inv
<1>2. CASE \E n \in 1..BufferSize : Receive(n)
  BY <1>1, <1>2 DEF Receive, Understood, Answered
<1>3. ASSUME NEW c \in Char, Consume(c) PROVE Understood' /\ Answered'
  <2>1. /\ state_ \notin Result
        /\ state_' = Goto(state_, c, request_)
        /\ request_' = Store(request_, state_, c, state_')
        /\ text' = Append(text, c) /\ UNCHANGED reply_
    BY <1>3 DEF Consume
  <2>2. state_ \in State \ Result /\ text \in Seq(Char) /\ request_ \in Request
    BY <1>1, <2>1 DEF TypeOK
  <2>3. Parsed(state_, text, request_)  BY <1>1 DEF Understood
  <2>4. Moves(state_, text, c, request_)  BY <2>2, <2>3, ByteIsParsed
  <2>5. state_' = "bad" => Hopeless(text')
    BY <2>1, <2>2, <2>3, BadEndsHope
  <2>6. Parsed(state_', text', request_')
    <3>1. CASE state_' = "bad"  BY <3>1 DEF Parsed, HeaderState
    <3>2. CASE state_' # "bad"  BY <2>1, <2>4, <3>2 DEF Moves
    <3> QED  BY <3>1, <3>2
  <2>7. reply_ = "none"  BY <1>1, <2>1 DEF Answered
  <2> QED  BY <2>1, <2>5, <2>6, <2>7 DEF Understood, Answered
<1>4. CASE ReadFails \/ Written
  <2>1. /\ state_' = "method_start" /\ request_' = NoRequest /\ reply_' = "none"
        /\ text' = <<>>
    BY <1>4 DEF ReadFails, Written, Destroy
  <2> QED  BY <2>1, NothingIsParsed DEF Understood, Answered
<1>5. CASE Finish
  <2>1. UNCHANGED <<state_, request_, text>>  BY <1>5 DEF Finish
  <2>2. Understood'  BY <1>1, <2>1 DEF Understood
  <2>3. Answered'  BY <1>1, <1>5, <2>1 DEF Finish, WantsMore, Answered
  <2> QED  BY <2>2, <2>3
<1>6. CASE UNCHANGED vars
  BY <1>1, <1>6 DEF vars, Understood, Answered
<1> QED  BY <1>2, <1>3, <1>4, <1>5, <1>6 DEF Next, Closed

LEMMA GrammarIsKept == Spec => []GrammarInv
BY GrammarInit, GrammarNext, PTL DEF Spec

(* What the invariant says of a text, by the parser's state. *)
LEMMA StateTells ==
  ASSUME GrammarInv
  PROVE  /\ state_ = "good" => IsRequest(text) /\ request_ = TheRequest(text)
         /\ state_ = "bad" => ~IsRequest(text) /\ ~Viable(text)
         /\ state_ \notin Result => ~IsRequest(text)
         /\ state_ # "bad" => Viable(text)
<1>1. /\ text \in Seq(Char) /\ request_ \in Request /\ state_ \in State
      /\ Parsed(state_, text, request_) /\ HasHeader(request_, state_)
      /\ state_ = "bad" => Hopeless(text)
  BY DEF GrammarInv, Inv, TypeOK, BackIsDefined, Understood, HasHeader, InHeader
<1>2. state_ = "good" => IsRequest(text) /\ request_ = TheRequest(text)
  BY <1>1, GoodIsComplete
<1>3. state_ = "bad" => ~IsRequest(text) /\ ~Viable(text)
  BY <1>1, HopelessEnds
<1>4. state_ \notin Result => ~IsRequest(text)
  BY <1>1, MoreIsNoRequest
<1>5. state_ # "bad" => Viable(text)
  BY <1>1, MoreIsViable
<1> QED  BY <1>2, <1>3, <1>4, <1>5

(* However a client's bytes come in chunks, consume (request_parser.cpp:23)  *)
(* says good after a text exactly when the text is a request, line by line.  *)
THEOREM GoodIsRight == Spec => []GoodIsARequest
<1>1. GrammarInv => GoodIsARequest  BY StateTells DEF GoodIsARequest, Result
<1> QED  BY <1>1, GrammarIsKept, PTL

(* It says bad at the first byte after which nothing could make the text a   *)
(* request, and not before: as long as two endings fit, it asks for more.    *)
THEOREM BadIsRight == Spec => []BadIsHopeless
<1>1. GrammarInv => BadIsHopeless  BY StateTells DEF BadIsHopeless
<1> QED  BY <1>1, GrammarIsKept, PTL

(* What a good text makes of the request is what its lines say, and the      *)
(* connection (connection.cpp:39) answers only what is complete or hopeless. *)
THEOREM AnswersAreRight == Spec => []AnswersWhatWasSaid
<1>1. GrammarInv => AnswersWhatWasSaid
  <2> SUFFICES ASSUME GrammarInv PROVE AnswersWhatWasSaid
    OBVIOUS
  <2>1. Answered  BY DEF GrammarInv
  <2> QED  BY <2>1, StateTells DEF AnswersWhatWasSaid, Answered, Result
<1> QED  BY <1>1, GrammarIsKept, PTL

-----------------------------------------------------------------------------
(* The texts of responses, byte for byte. *)

TextByte == Statuses \cup {"h", "cr", "lf", "x"}

(* Where the content begins, less one. *)
Lead(n) == 3 * n + 5

LaidOut(t, n, status) ==
  /\ t \in Seq(TextByte) /\ n \in Nat /\ status \in Statuses
  /\ Len(t) >= Lead(n)
  /\ t[1] = status /\ t[2] = "cr" /\ t[3] = "lf"
  /\ \A j \in 0..n - 1 :
       t[3 * j + 4] = "h" /\ t[3 * j + 5] = "cr" /\ t[3 * j + 6] = "lf"
  /\ t[3 * n + 4] = "cr" /\ t[3 * n + 5] = "lf"

(* Two texts one behind the other, byte for byte. *)
IsJoined(w, s, u, k, m) ==
  /\ w \in Seq(TextByte) /\ Len(w) = k + m
  /\ \A i \in 1..k : w[i] = s[i]
  /\ \A i \in 1..m : w[k + i] = u[i]

LEMMA Joined ==
  \A s, u \in Seq(TextByte) : \A k, m \in Nat :
    Len(s) = k /\ Len(u) = m => IsJoined(s \o u, s, u, k, m)
<1> SUFFICES ASSUME NEW s \in Seq(TextByte), NEW u \in Seq(TextByte),
                    NEW k \in Nat, NEW m \in Nat, Len(s) = k, Len(u) = m
             PROVE  IsJoined(s \o u, s, u, k, m)
  OBVIOUS
<1>1. /\ s \o u \in Seq(TextByte) /\ Len(s \o u) = k + m
      /\ \A i \in 1..k + m :
           (s \o u)[i] = IF i <= k THEN s[i] ELSE u[i - k]
  BY ConcatProperties
<1>2. ASSUME NEW i \in 1..k PROVE (s \o u)[i] = s[i]
  <2>1. i \in 1..k + m /\ i <= k  OBVIOUS
  <2> QED  BY <1>1, <2>1
<1>3. ASSUME NEW i \in 1..m PROVE (s \o u)[k + i] = u[i]
  <2>1. k + i \in 1..k + m /\ ~(k + i <= k) /\ (k + i) - k = i
    OBVIOUS
  <2> QED  BY <1>1, <2>1
<1> QED  BY <1>1, <1>2, <1>3 DEF IsJoined

LEMMA HeaderTextLaidOut ==
  ASSUME NEW n \in Nat
  PROVE  /\ HeaderText(n) \in Seq(TextByte) /\ Len(HeaderText(n)) = 3 * n
         /\ \A j \in 0..n - 1 :
              /\ HeaderText(n)[3 * j + 1] = "h"
              /\ HeaderText(n)[3 * j + 2] = "cr"
              /\ HeaderText(n)[3 * j + 3] = "lf"
<1> DEFINE m == 3 * n
           byte == <<"lf", "h", "cr">>
           text_ == [i \in 1..m |-> byte[(i % 3) + 1]]
<1>0. m \in Nat  OBVIOUS
<1>1. byte[1] = "lf" /\ byte[2] = "h" /\ byte[3] = "cr"  OBVIOUS
<1>2. \A i \in 1..m : byte[(i % 3) + 1] \in TextByte
  <2> TAKE i \in 1..m
  <2>1. (i % 3) + 1 = 1 \/ (i % 3) + 1 = 2 \/ (i % 3) + 1 = 3
    BY <1>0
  <2> QED  BY <1>1, <2>1 DEF TextByte
<1>3. HeaderText(n) = text_  BY DEF HeaderText
<1>4. text_ \in Seq(TextByte) /\ Len(text_) = m
  <2>1. text_ \in [1..m -> TextByte]  BY <1>2
  <2>2. text_ \in Seq(TextByte)  BY <1>0, <2>1, SeqDef
  <2> HIDE DEF m, byte
  <2>3. Len(text_) = m  BY <1>0
  <2> QED  BY <2>2, <2>3
<1>5. ASSUME NEW j \in 0..n - 1
      PROVE  /\ text_[3 * j + 1] = "h" /\ text_[3 * j + 2] = "cr"
             /\ text_[3 * j + 3] = "lf"
  <2>1. /\ 3 * j + 1 \in 1..m /\ 3 * j + 2 \in 1..m /\ 3 * j + 3 \in 1..m
        /\ ((3 * j + 1) % 3) + 1 = 2 /\ ((3 * j + 2) % 3) + 1 = 3
        /\ ((3 * j + 3) % 3) + 1 = 1
    OBVIOUS
  <2> HIDE DEF m, byte
  <2> QED  BY <1>1, <2>1
<1> QED  BY <1>3, <1>4, <1>5

(* Where everything is in a response: the status line, n header lines, the   *)
(* blank line and the content.                                               *)
LEMMA TextLaidOut ==
  ASSUME NEW r \in Responses
  PROVE  LaidOut(Text(r), r.headers, r.status) /\ Len(Before(r)) = Lead(r.headers)
<1> DEFINE n == r.headers
           head == HeaderText(n)
           a == <<r.status>> \o Crlf
           b == a \o head
           d == b \o Crlf
<1>1. n \in Nat /\ r.status \in Statuses /\ r.content \in Seq(TextByte)
  <2>1. n \in Nat /\ r.status \in Statuses /\ r.content \in Contents
    BY ConstantsAssumption DEF Responses
  <2>2. PICK k \in 0..MaxContent : r.content \in [1..k -> ContentByte]
    BY <2>1 DEF Contents
  <2>3. k \in Nat  BY ConstantsAssumption
  <2>4. r.content \in Seq(ContentByte)  BY <2>2, <2>3, SeqDef
  <2>5. ContentByte \subseteq TextByte  BY DEF ContentByte, TextByte
  <2> QED  BY <2>1, <2>4, <2>5, SeqMonotonic
<1>2. /\ head \in Seq(TextByte) /\ Len(head) = 3 * n
      /\ \A j \in 0..n - 1 :
           head[3 * j + 1] = "h" /\ head[3 * j + 2] = "cr" /\ head[3 * j + 3] = "lf"
  BY <1>1, HeaderTextLaidOut
<1>3. /\ Crlf \in Seq(TextByte) /\ Len(Crlf) = 2 /\ Crlf[1] = "cr" /\ Crlf[2] = "lf"
      /\ <<r.status>> \in Seq(TextByte) /\ Len(<<r.status>>) = 1
      /\ <<r.status>>[1] = r.status
  BY <1>1 DEF Crlf, TextByte
<1>4. Text(r) = d \o r.content /\ Before(r) = d
  BY DEF Text, Before
<1> HIDE DEF n, head
<1>5. a \in Seq(TextByte) /\ Len(a) = 3 /\ a[1] = r.status /\ a[2] = "cr" /\ a[3] = "lf"
  BY <1>1 DEF Crlf, TextByte
<1> HIDE DEF a
<1> DEFINE l == 3 * n
<1>6. l \in Nat /\ 3 + l \in Nat /\ (3 + l) + 2 \in Nat  BY <1>1
<1> HIDE DEF l
<1>7. /\ b \in Seq(TextByte) /\ Len(b) = 3 + l
      /\ \A i \in 1..3 : b[i] = a[i]
      /\ \A i \in 1..l : b[3 + i] = head[i]
  <2>1. Len(head) = l  BY <1>2 DEF l
  <2>2. IsJoined(a \o head, a, head, 3, l)
    BY <1>2, <1>5, <1>6, <2>1, Joined, Zenon
  <2> QED  BY <2>2 DEF IsJoined, b
<1> HIDE DEF b
<1>8. /\ d \in Seq(TextByte) /\ Len(d) = (3 + l) + 2
      /\ \A i \in 1..3 + l : d[i] = b[i]
      /\ \A i \in 1..2 : d[(3 + l) + i] = Crlf[i]
  <2>1. IsJoined(b \o Crlf, b, Crlf, 3 + l, 2)
    BY <1>3, <1>6, <1>7, Joined, Zenon
  <2> QED  BY <2>1 DEF IsJoined, d
<1> HIDE DEF d
<1> DEFINE t == d \o r.content
<1>9. /\ t \in Seq(TextByte) /\ Len(t) = ((3 + l) + 2) + Len(r.content)
      /\ Len(r.content) \in Nat
      /\ \A i \in 1..(3 + l) + 2 : t[i] = d[i]
  <2>1. Len(r.content) \in Nat  BY <1>1, LenProperties
  <2>2. IsJoined(d \o r.content, d, r.content, (3 + l) + 2, Len(r.content))
    BY <1>1, <1>6, <1>8, <2>1, Joined, Zenon
  <2> QED  BY <2>1, <2>2 DEF IsJoined, t
<1> HIDE DEF t
<1>10. \A i \in 1..3 + l : t[i] = b[i]
  <2>1. \A i \in 1..3 + l : i \in 1..(3 + l) + 2  BY <1>6
  <2> QED  BY <1>8, <1>9, <2>1
<1>11. t[1] = r.status /\ t[2] = "cr" /\ t[3] = "lf"
  <2>1. \A i \in 1..3 : i \in 1..3 + l  BY <1>6
  <2> QED  BY <1>5, <1>7, <1>10, <2>1
<1>12. ASSUME NEW j \in 0..n - 1
       PROVE  t[3 * j + 4] = "h" /\ t[3 * j + 5] = "cr" /\ t[3 * j + 6] = "lf"
  <2>1. \A i \in {1, 2, 3} : /\ 3 * j + i \in 1..l
                             /\ 3 + (3 * j + i) \in 1..3 + l
    BY <1>1 DEF l
  <2>2. \A i \in {1, 2, 3} : t[3 + (3 * j + i)] = head[3 * j + i]
    BY <1>7, <1>10, <2>1
  <2>3. /\ 3 + (3 * j + 1) = 3 * j + 4 /\ 3 + (3 * j + 2) = 3 * j + 5
        /\ 3 + (3 * j + 3) = 3 * j + 6
    BY <1>1
  <2> QED  BY <1>2, <2>2, <2>3
<1>13. t[3 * n + 4] = "cr" /\ t[3 * n + 5] = "lf"
  <2>1. \A i \in 1..2 : (3 + l) + i \in 1..(3 + l) + 2  BY <1>6
  <2>2. t[(3 + l) + 1] = "cr" /\ t[(3 + l) + 2] = "lf"
    BY <1>3, <1>8, <1>9, <2>1
  <2>3. (3 + l) + 1 = 3 * n + 4 /\ (3 + l) + 2 = 3 * n + 5  BY <1>1 DEF l
  <2> QED  BY <2>2, <2>3
<1>14. \A k \in Nat : /\ ((3 + l) + 2) + k >= 3 * n + 5
                       /\ (3 + l) + 2 = 3 * n + 5
  BY <1>1 DEF l
<1>15. Len(t) >= Lead(n) /\ Len(d) = Lead(n)
  BY <1>8, <1>9, <1>14, Zenon DEF Lead
<1>16. LaidOut(t, n, r.status)
  BY <1>1, <1>9, <1>11, <1>12, <1>13, <1>15 DEF LaidOut, n
<1> QED  BY <1>4, <1>15, <1>16, Zenon DEF t, n

-----------------------------------------------------------------------------
(* Buffers: what is kept of a text, and where something is first found. *)

(* w is what has come of t, up to its byte g, from its byte k on. *)
Keeps(w, t, k, g) ==
  /\ t \in Seq(TextByte) /\ k \in Nat \ {0} /\ g \in Nat
  /\ k <= g + 1 /\ g <= Len(t)
  /\ w = SubSeq(t, k, g)

LEMMA KeptBytes ==
  ASSUME NEW w, NEW t, NEW k, NEW g, Keeps(w, t, k, g)
  PROVE  /\ w \in Seq(TextByte) /\ Len(w) = g + 1 - k
         /\ \A i \in 1..g + 1 - k : w[i] = t[k + i - 1]
<1>0. /\ t \in Seq(TextByte) /\ k \in Nat \ {0} /\ g \in Nat
      /\ k <= g + 1 /\ g <= Len(t) /\ w = SubSeq(t, k, g)
  BY DEF Keeps
<1>1. \A i \in k..g : t[i] \in TextByte
  <2>1. Len(t) \in Nat /\ \A i \in 1..Len(t) : t[i] \in TextByte
    BY <1>0, ElementOfSeq, LenProperties
  <2>2. \A i \in k..g : i \in 1..Len(t)  BY <1>0, <2>1
  <2> QED  BY <2>1, <2>2
<1>2. /\ w \in Seq(TextByte) /\ Len(w) = IF k <= g THEN g - k + 1 ELSE 0
      /\ \A i \in 1..g - k + 1 : w[i] = t[k + i - 1]
  BY <1>0, <1>1, SubSeqProperties
<1>3. g + 1 - k = g - k + 1 /\ (~(k <= g) => g - k + 1 = 0)
  BY <1>0
<1> QED  BY <1>2, <1>3

LEMMA RestOfKept ==
  ASSUME NEW w, NEW t, NEW k, NEW g, Keeps(w, t, k, g), NEW a \in 1..g + 2 - k
  PROVE  Keeps(SubSeq(w, a, Len(w)), t, k + a - 1, g)
<1> DEFINE b == k + a - 1
           v == SubSeq(w, a, Len(w))
           u == SubSeq(t, b, g)
<1>0. k \in Nat \ {0} /\ g \in Nat /\ k <= g + 1 /\ t \in Seq(TextByte) /\ g <= Len(t)
  BY DEF Keeps
<1>1. /\ w \in Seq(TextByte) /\ Len(w) = g + 1 - k
      /\ \A i \in 1..g + 1 - k : w[i] = t[k + i - 1]
  BY KeptBytes
<1>2. b \in Nat \ {0} /\ b <= g + 1 /\ a \in Nat \ {0} /\ a <= (g + 1 - k) + 1
  BY <1>0
<1>3. \A i \in 1..g + 1 - b :
        a + i - 1 \in 1..g + 1 - k /\ k + (a + i - 1) - 1 = b + i - 1
  BY <1>0
<1>4. g + 1 - b = (g + 1 - k) + 1 - a /\ g + 1 - k \in Nat
  BY <1>0
<1> HIDE DEF b
<1>5. Keeps(u, t, b, g)
  BY <1>0, <1>2, Zenon DEF Keeps
<1>6. Keeps(v, w, a, g + 1 - k)
  BY <1>1, <1>2, <1>4 DEF Keeps
<1> HIDE DEF u, v
<1>7. /\ u \in Seq(TextByte) /\ Len(u) = g + 1 - b
      /\ \A i \in 1..g + 1 - b : u[i] = t[b + i - 1]
  BY <1>5, KeptBytes
<1>8. /\ v \in Seq(TextByte) /\ Len(v) = g + 1 - b
      /\ \A i \in 1..g + 1 - b : v[i] = w[a + i - 1]
  <2> DEFINE h == g + 1 - k
  <2>0. Keeps(v, w, a, h) /\ g + 1 - b = h + 1 - a  BY <1>4, <1>6
  <2> HIDE DEF h
  <2>1. /\ v \in Seq(TextByte) /\ Len(v) = h + 1 - a
        /\ \A i \in 1..h + 1 - a : v[i] = w[a + i - 1]
    BY <2>0, KeptBytes
  <2> QED  BY <2>0, <2>1
<1>9. \A i \in 1..g + 1 - b : v[i] = u[i]
  <2> TAKE i \in 1..g + 1 - b
  <2>1. v[i] = w[a + i - 1] /\ u[i] = t[b + i - 1]  BY <1>7, <1>8
  <2>2. w[a + i - 1] = t[k + (a + i - 1) - 1]  BY <1>1, <1>3
  <2> QED  BY <1>3, <2>1, <2>2
<1>10. v = u
  BY <1>7, <1>8, <1>9, SeqEqual
<1> QED  BY <1>5, <1>10 DEF v, b

(* A text is at i of another when its bytes are. *)
LEMMA IsAt ==
  ASSUME NEW w \in Seq(TextByte), NEW d \in Seq(TextByte),
         NEW i \in 1..Len(w) + 1 - Len(d)
  PROVE  SubSeq(w, i, i + Len(d) - 1) = d
           <=> \A m \in 1..Len(d) : w[i + m - 1] = d[m]
<1> DEFINE v == SubSeq(w, i, i + Len(d) - 1)
<1>1. Len(w) \in Nat /\ Len(d) \in Nat  BY LenProperties
<1>2. Keeps(v, w, i, i + Len(d) - 1)
  BY <1>1 DEF Keeps
<1>3. /\ v \in Seq(TextByte) /\ Len(v) = Len(d)
      /\ \A m \in 1..Len(d) : v[m] = w[i + m - 1]
  <2>1. (i + Len(d) - 1) + 1 - i = Len(d)  BY <1>1
  <2> QED  BY <1>2, <2>1, KeptBytes
<1> HIDE DEF v
<1>4. v = d <=> \A m \in 1..Len(d) : v[m] = d[m]
  BY <1>3, SeqEqual
<1> QED  BY <1>3, <1>4 DEF v

LEMMA FindIs ==
  ASSUME NEW w, NEW d, NEW p \in 1..Len(w) + 1 - Len(d),
         Len(w) \in Nat, Len(d) \in Nat,
         SubSeq(w, p, p + Len(d) - 1) = d,
         \A i \in 1..p - 1 : SubSeq(w, i, i + Len(d) - 1) # d
  PROVE  Find(w, d) = p
<1> DEFINE at == {i \in 1..Len(w) + 1 - Len(d) : SubSeq(w, i, i + Len(d) - 1) = d}
<1>1. p \in at  OBVIOUS
<1>2. \A j \in at : p <= j
  <2>1. \A j \in 1..Len(w) + 1 - Len(d) : ~(p <= j) => j \in 1..p - 1
    OBVIOUS
  <2> QED  BY <2>1
<1>3. at \subseteq Int  OBVIOUS
<1>4. Find(w, d) = CHOOSE i \in at : \A j \in at : i <= j
  BY <1>1 DEF Find
<1> HIDE DEF at
<1>5. \A i \in at : (\A j \in at : i <= j) => i = p
  BY <1>1, <1>2, <1>3
<1> QED  BY <1>1, <1>2, <1>4, <1>5

LEMMA FindSome ==
  ASSUME NEW w, NEW d, Find(w, d) # 0
  PROVE  \E i \in 1..Len(w) + 1 - Len(d) : SubSeq(w, i, i + Len(d) - 1) = d
BY DEF Find

(* The first line of what is kept ends where its first "lf" is, if that has  *)
(* come.                                                                     *)
LEMMA FirstLine ==
  ASSUME NEW w, NEW t, NEW k, NEW g, Keeps(w, t, k, g),
         NEW p \in Nat, k <= p, t[p] = "lf", \A q \in k..p - 1 : t[q] # "lf"
  PROVE  /\ Find(w, <<"lf">>) = 0 => g < p
         /\ Find(w, <<"lf">>) # 0
              => p <= g /\ Keeps(RestOfLine(w), t, p + 1, g)
<1> DEFINE Lf == <<"lf">>
<1>0. k \in Nat \ {0} /\ g \in Nat /\ k <= g + 1
  BY DEF Keeps
<1>1. /\ w \in Seq(TextByte) /\ Len(w) = g + 1 - k
      /\ \A i \in 1..g + 1 - k : w[i] = t[k + i - 1]
  BY KeptBytes
<1>2. Lf \in Seq(TextByte) /\ Len(Lf) = 1 /\ Lf[1] = "lf"
  BY DEF TextByte
<1> HIDE DEF Lf
<1>3. \A i \in 1..g + 1 - k :
        SubSeq(w, i, i + Len(Lf) - 1) = Lf <=> t[k + i - 1] = "lf"
  <2> TAKE i \in 1..g + 1 - k
  <2>1. i \in 1..Len(w) + 1 - Len(Lf)  BY <1>0, <1>1, <1>2
  <2>2. SubSeq(w, i, i + Len(Lf) - 1) = Lf
          <=> \A m \in 1..Len(Lf) : w[i + m - 1] = Lf[m]
    BY <1>1, <1>2, <2>1, IsAt
  <2>3. (\A m \in 1..Len(Lf) : w[i + m - 1] = Lf[m]) <=> w[i] = "lf"
    BY <1>2
  <2> QED  BY <1>1, <2>2, <2>3
<1>4. ASSUME p <= g
      PROVE  Find(w, Lf) = p + 1 - k
  <2>1. p + 1 - k \in 1..g + 1 - k /\ k + (p + 1 - k) - 1 = p
    BY <1>0, <1>4
  <2>2. SubSeq(w, p + 1 - k, (p + 1 - k) + Len(Lf) - 1) = Lf
    BY <1>3, <2>1
  <2>3. \A i \in 1..(p + 1 - k) - 1 :
          i \in 1..g + 1 - k /\ k + i - 1 \in k..p - 1
    BY <1>0, <1>4
  <2>4. \A i \in 1..(p + 1 - k) - 1 : SubSeq(w, i, i + Len(Lf) - 1) # Lf
    BY <1>3, <2>3
  <2>5. p + 1 - k \in 1..Len(w) + 1 - Len(Lf) /\ Len(w) \in Nat /\ Len(Lf) \in Nat
    BY <1>0, <1>1, <1>2, <2>1
  <2> QED  BY <2>2, <2>4, <2>5, FindIs
<1>5. ASSUME Find(w, Lf) # 0
      PROVE  p <= g
  <2>1. PICK i \in 1..Len(w) + 1 - Len(Lf) : SubSeq(w, i, i + Len(Lf) - 1) = Lf
    BY <1>5, FindSome
  <2>2. i \in 1..g + 1 - k  BY <1>0, <1>1, <1>2, <2>1
  <2>3. t[k + i - 1] = "lf" /\ k + i - 1 \in Nat /\ k + i - 1 <= g /\ k <= k + i - 1
    BY <1>0, <1>3, <2>1, <2>2
  <2>4. ~(k + i - 1 \in k..p - 1)  BY <2>3
  <2> QED  BY <1>0, <2>3, <2>4
<1>6. ASSUME Find(w, Lf) # 0
      PROVE  Keeps(RestOfLine(w), t, p + 1, g)
  <2>1. Find(w, Lf) = p + 1 - k /\ p <= g  BY <1>4, <1>5, <1>6
  <2>2. (p + 1 - k) + 1 \in 1..g + 2 - k /\ k + ((p + 1 - k) + 1) - 1 = p + 1
    BY <1>0, <2>1
  <2>3. Keeps(SubSeq(w, (p + 1 - k) + 1, Len(w)), t, k + ((p + 1 - k) + 1) - 1, g)
    BY <2>2, RestOfKept
  <2> QED  BY <2>1, <2>2, <2>3, Zenon DEF RestOfLine, Lf
<1>7. Find(w, Lf) = 0 => g < p
  <2>1. p <= g => p + 1 - k # 0  BY <1>0
  <2> QED  BY <1>0, <1>4, <2>1
<1> QED  BY <1>5, <1>6, <1>7 DEF Lf

-----------------------------------------------------------------------------
(* The lines of a response: what reading one, or all, leaves of it. *)

(* Its status line ends at byte 3. *)
LEMMA StatusIsRead ==
  ASSUME NEW t, NEW n, NEW status, LaidOut(t, n, status),
         NEW w, NEW g, Keeps(w, t, 1, g)
  PROVE  /\ Find(w, <<"lf">>) = 0 => g < 3
         /\ Find(w, <<"lf">>) # 0 => 3 <= g /\ Keeps(RestOfLine(w), t, 4, g)
<1>1. /\ t[3] = "lf" /\ t[1] \in Statuses /\ t[2] = "cr"
  BY DEF LaidOut
<1>2. \A q \in 1..3 - 1 : t[q] # "lf"
  <2>1. \A q \in 1..3 - 1 : q = 1 \/ q = 2  OBVIOUS
  <2> QED  BY <1>1, <2>1 DEF Statuses
<1>3. /\ Find(w, <<"lf">>) = 0 => g < 3
      /\ Find(w, <<"lf">>) # 0 => 3 <= g /\ Keeps(RestOfLine(w), t, 3 + 1, g)
  BY <1>1, <1>2, FirstLine
<1> QED  BY <1>3

(* A status line that has its crlf has its "lf". *)
LEMMA StatusHasCome ==
  ASSUME NEW t, NEW n, NEW status, LaidOut(t, n, status),
         NEW w, NEW g, Keeps(w, t, 1, g), Find(w, Crlf) # 0
  PROVE  Find(w, <<"lf">>) # 0
<1>0. g \in Nat  BY DEF Keeps
<1>1. /\ w \in Seq(TextByte) /\ Len(w) = g + 1 - 1
      /\ \A i \in 1..g + 1 - 1 : w[i] = t[1 + i - 1]
  BY KeptBytes
<1>2. Crlf \in Seq(TextByte) /\ Len(Crlf) = 2
  BY DEF Crlf, TextByte
<1>3. PICK i \in 1..Len(w) + 1 - Len(Crlf) : SubSeq(w, i, i + Len(Crlf) - 1) = Crlf
  BY FindSome
<1>4. i \in Nat \ {0} /\ i <= g - 1  BY <1>0, <1>1, <1>2
<1>5. \A m \in 1..Len(Crlf) : w[i + m - 1] = Crlf[m]
  BY <1>1, <1>2, <1>3, IsAt
<1>6. w[i] = "cr"
  <2>1. i + 1 - 1 = i /\ 1 \in 1..2 /\ Crlf[1] = "cr"  BY <1>4 DEF Crlf
  <2> QED  BY <1>2, <1>5, <2>1
<1>7. t[i] = "cr"
  <2>1. 1 + i - 1 = i /\ i \in 1..g + 1 - 1  BY <1>0, <1>4
  <2> QED  BY <1>1, <1>6, <2>1
<1>8. i # 1
  BY <1>7 DEF LaidOut, Statuses
<1> QED  BY <1>0, <1>4, <1>8, StatusIsRead

(* After j header lines the next ends at byte 3 * j + 6, and the blank line  *)
(* at the last before the content.                                           *)
LEMMA HeaderIsRead ==
  ASSUME NEW t, NEW n, NEW status, LaidOut(t, n, status),
         NEW j \in 0..n, NEW w, NEW g, Keeps(w, t, 3 * j + 4, g)
  PROVE  /\ Find(w, <<"lf">>) = 0 => g < Lead(n)
         /\ Find(w, <<"lf">>) # 0 =>
              \/ /\ SubSeq(w, 1, 2) = Crlf
                 /\ Lead(n) <= g
                 /\ Keeps(RestOfLine(w), t, Lead(n) + 1, g)
              \/ /\ SubSeq(w, 1, 2) # Crlf
                 /\ j + 1 \in 0..n
                 /\ 3 * (j + 1) + 3 <= g
                 /\ Keeps(RestOfLine(w), t, 3 * (j + 1) + 4, g)
<1> DEFINE k == 3 * j + 4
<1>0. n \in Nat /\ j \in Nat /\ j <= n /\ g \in Nat /\ k <= g + 1
  BY DEF LaidOut, Keeps
<1>1. k \in Nat /\ k + 1 \in Nat /\ k + 2 \in Nat /\ k + 1 = 3 * j + 5 /\ k + 2 = 3 * j + 6
  BY <1>0
<1>2. /\ w \in Seq(TextByte) /\ Len(w) = g + 1 - k
      /\ \A i \in 1..g + 1 - k : w[i] = t[k + i - 1]
  BY KeptBytes
<1>3. Crlf \in Seq(TextByte) /\ Len(Crlf) = 2 /\ Crlf[1] = "cr" /\ Crlf[2] = "lf"
  BY DEF Crlf, TextByte
<1>4. ASSUME k + 1 <= g
      PROVE  SubSeq(w, 1, 2) = Crlf <=> t[k] = "cr" /\ t[k + 1] = "lf"
  <2>1. 1 \in 1..Len(w) + 1 - Len(Crlf) /\ 1 + Len(Crlf) - 1 = 2
    BY <1>0, <1>2, <1>3, <1>4
  <2>2. SubSeq(w, 1, 2) = Crlf <=> \A m \in 1..Len(Crlf) : w[1 + m - 1] = Crlf[m]
    BY <1>2, <1>3, <2>1, IsAt
  <2>3. (\A m \in 1..Len(Crlf) : w[1 + m - 1] = Crlf[m]) <=> w[1] = "cr" /\ w[2] = "lf"
    BY <1>3
  <2>4. w[1] = t[k] /\ w[2] = t[k + 1]
    <3>1. 1 \in 1..g + 1 - k /\ 2 \in 1..g + 1 - k /\ k + 1 - 1 = k /\ k + 2 - 1 = k + 1
      BY <1>0, <1>1, <1>4
    <3> QED  BY <1>2, <3>1
  <2> QED  BY <2>2, <2>3, <2>4
<1>5. CASE j < n
  <2>1. t[k] = "h" /\ t[k + 1] = "cr" /\ t[k + 2] = "lf"
    <3>1. j \in 0..n - 1  BY <1>0, <1>5
    <3> QED  BY <1>1, <3>1 DEF LaidOut
  <2>2. k <= k + 2 /\ \A q \in k..(k + 2) - 1 : q = k \/ q = k + 1
    BY <1>1
  <2>3. Keeps(w, t, k, g)  OBVIOUS
  <2> HIDE DEF k
  <2>4. /\ Find(w, <<"lf">>) = 0 => g < k + 2
        /\ Find(w, <<"lf">>) # 0
             => k + 2 <= g /\ Keeps(RestOfLine(w), t, (k + 2) + 1, g)
    <3>1. \A q \in k..(k + 2) - 1 : t[q] # "lf"  BY <2>1, <2>2
    <3> QED  BY <1>1, <2>1, <2>2, <2>3, <3>1, FirstLine
  <2>5. k + 2 <= Lead(n) /\ (k + 2) + 1 = 3 * (j + 1) + 4 /\ k + 2 = 3 * (j + 1) + 3
        /\ j + 1 \in 0..n
    BY <1>0, <1>5 DEF Lead, k
  <2>6. k + 2 <= g => SubSeq(w, 1, 2) # Crlf
    BY <1>0, <1>1, <1>4, <2>1
  <2>7. g < k + 2 => g < Lead(n)
    BY <1>0, <1>1, <2>5 DEF Lead
  <2> QED  BY <2>4, <2>5, <2>6, <2>7
<1>6. CASE j = n
  <2>1. t[k] = "cr" /\ t[k + 1] = "lf"
    BY <1>1, <1>6 DEF LaidOut
  <2>2. k <= k + 1 /\ \A q \in k..(k + 1) - 1 : q = k
    BY <1>1
  <2>3. Keeps(w, t, k, g)  OBVIOUS
  <2> HIDE DEF k
  <2>4. /\ Find(w, <<"lf">>) = 0 => g < k + 1
        /\ Find(w, <<"lf">>) # 0
             => k + 1 <= g /\ Keeps(RestOfLine(w), t, (k + 1) + 1, g)
    <3>1. \A q \in k..(k + 1) - 1 : t[q] # "lf"  BY <2>1, <2>2
    <3> QED  BY <1>1, <2>1, <2>2, <2>3, <3>1, FirstLine
  <2>5. k + 1 = Lead(n)  BY <1>0, <1>6 DEF Lead, k
  <2> QED  BY <1>4, <2>1, <2>4, <2>5
<1> QED  BY <1>0, <1>5, <1>6

(* Two ends of line, one behind the other. *)
LEMMA BlankLine ==
  /\ Crlf \o Crlf \in Seq(TextByte) /\ Len(Crlf \o Crlf) = 4
  /\ (Crlf \o Crlf)[1] = "cr" /\ (Crlf \o Crlf)[2] = "lf"
  /\ (Crlf \o Crlf)[3] = "cr" /\ (Crlf \o Crlf)[4] = "lf"
BY DEF Crlf, TextByte

(* From its first header line on, a response has them first where the last   *)
(* header line and the blank line end; a response without headers has only   *)
(* the latter, where its kept text begins.                                   *)
LEMMA HeadersAreRead ==
  ASSUME NEW t, NEW n, NEW status, LaidOut(t, n, status),
         NEW w, NEW g, Keeps(w, t, 4, g), Find(w, Crlf \o Crlf) # 0
  PROVE  Lead(n) <= g /\ Keeps(AfterBlankLine(w), t, Lead(n) + 1, g)
<1> DEFINE TwoEnds == Crlf \o Crlf
<1>0. n \in Nat /\ g \in Nat /\ 4 <= g + 1  BY DEF LaidOut, Keeps
<1>1. /\ w \in Seq(TextByte) /\ Len(w) = g + 1 - 4
      /\ \A i \in 1..g + 1 - 4 : w[i] = t[4 + i - 1]
  BY KeptBytes
<1>2. /\ TwoEnds \in Seq(TextByte) /\ Len(TwoEnds) = 4
      /\ TwoEnds[1] = "cr" /\ TwoEnds[2] = "lf" /\ TwoEnds[3] = "cr" /\ TwoEnds[4] = "lf"
  BY BlankLine
<1> HIDE DEF TwoEnds
<1>3. Len(w) \in Nat /\ \A i \in Nat : i \in 1..Len(w) + 1 - Len(TwoEnds) <=> 1 <= i /\ i + 6 <= g
  BY <1>0, <1>1, <1>2
<1>4. ASSUME NEW i \in Nat, 1 <= i, i + 6 <= g
      PROVE  SubSeq(w, i, i + Len(TwoEnds) - 1) = TwoEnds
               <=> /\ t[i + 3] = "cr" /\ t[i + 4] = "lf"
                   /\ t[i + 5] = "cr" /\ t[i + 6] = "lf"
  <2>1. SubSeq(w, i, i + Len(TwoEnds) - 1) = TwoEnds
          <=> \A m \in 1..Len(TwoEnds) : w[i + m - 1] = TwoEnds[m]
    BY <1>1, <1>2, <1>3, <1>4, IsAt
  <2>2. \A m \in 1..4 : w[i + m - 1] = t[i + m + 2]
    <3> TAKE m \in 1..4
    <3>1. i + m - 1 \in 1..g + 1 - 4 /\ 4 + (i + m - 1) - 1 = i + m + 2
      BY <1>0, <1>4
    <3> QED  BY <1>1, <3>1
  <2>3. (\A m \in 1..4 : w[i + m - 1] = TwoEnds[m])
          <=> (\A m \in 1..4 : t[i + m + 2] = TwoEnds[m])
    BY <2>2
  <2>4. /\ i + 1 + 2 = i + 3 /\ i + 2 + 2 = i + 4 /\ i + 3 + 2 = i + 5
        /\ i + 4 + 2 = i + 6
    OBVIOUS
  <2>5. \A m \in 1..4 : m = 1 \/ m = 2 \/ m = 3 \/ m = 4  OBVIOUS
  <2>6. (\A m \in 1..4 : t[i + m + 2] = TwoEnds[m])
          <=> /\ t[i + 3] = "cr" /\ t[i + 4] = "lf"
              /\ t[i + 5] = "cr" /\ t[i + 6] = "lf"
    BY <1>2, <2>4, <2>5
  <2> QED  BY <1>2, <2>1, <2>3, <2>6
<1>5. PICK i \in Nat : /\ 1 <= i /\ i + 6 <= g
                       /\ SubSeq(w, i, i + Len(TwoEnds) - 1) = TwoEnds
  <2>1. PICK i \in 1..Len(w) + 1 - Len(TwoEnds) :
          SubSeq(w, i, i + Len(TwoEnds) - 1) = TwoEnds
    <3>1. Find(w, TwoEnds) # 0  BY DEF TwoEnds
    <3> QED  BY <3>1, FindSome
  <2>2. i \in Nat /\ 1 <= i /\ i + 6 <= g
    <3>1. i \in Nat  BY <1>2, <1>3, <2>1
    <3> QED  BY <1>3, <3>1
  <2> QED  BY <2>1, <2>2
<1>6. CASE n = 0
  <2>1. t[4] = "cr" /\ t[5] = "lf" /\ Lead(n) = 5
    BY <1>6 DEF LaidOut, Lead
  <2>2. SubSeq(w, 1, 2) = Crlf
    <3>1. 0 \in 0..n /\ 3 * 0 + 4 = 4  BY <1>6
    <3>2. w[1] = "cr" /\ w[2] = "lf"
      <4>1. 1 \in 1..g + 1 - 4 /\ 2 \in 1..g + 1 - 4 /\ 4 + 1 - 1 = 4 /\ 4 + 2 - 1 = 5
        BY <1>0, <1>5
      <4> QED  BY <1>1, <2>1, <4>1
    <3>3. /\ Crlf \in Seq(TextByte) /\ Len(Crlf) = 2
          /\ Crlf[1] = "cr" /\ Crlf[2] = "lf"
      BY DEF Crlf, TextByte
    <3>4. 1 \in 1..Len(w) + 1 - Len(Crlf) /\ 1 + Len(Crlf) - 1 = 2
      BY <1>0, <1>1, <1>5, <3>3
    <3>5. \A m \in 1..Len(Crlf) : w[1 + m - 1] = Crlf[m]
      BY <3>2, <3>3
    <3> QED  BY <1>1, <3>3, <3>4, <3>5, IsAt
  <2>3. 3 \in 1..g + 2 - 4 /\ 4 + 3 - 1 = 6 /\ Lead(n) <= g /\ Lead(n) + 1 = 6
    BY <1>0, <1>5, <2>1
  <2>4. Keeps(SubSeq(w, 3, Len(w)), t, 4 + 3 - 1, g)
    BY <2>3, RestOfKept
  <2> QED  BY <2>2, <2>3, <2>4 DEF AfterBlankLine
<1>7. CASE n # 0
  <2> DEFINE p == 3 * n - 1
  <2>0. n - 1 \in 0..n - 1 /\ p \in Nat /\ 1 <= p  BY <1>0, <1>7
  <2>1. \A m \in Nat : t[m] = "cr" /\ 4 <= m /\ m <= 3 * n + 1
          => \E j \in 0..n - 2 : m = 3 * j + 5
    <3> SUFFICES ASSUME NEW m \in Nat, t[m] = "cr", 4 <= m, m <= 3 * n + 1
                 PROVE  \E j \in 0..n - 2 : m = 3 * j + 5
      OBVIOUS
    <3>1. PICK j \in Nat : m = 3 * j + 4 \/ m = 3 * j + 5 \/ m = 3 * j + 6
      <4> DEFINE j == (m - 4) \div 3
      <4>1. j \in Nat /\ (m = 3 * j + 4 \/ m = 3 * j + 5 \/ m = 3 * j + 6)
        OBVIOUS
      <4> QED  BY <4>1
    <3>2. j \in 0..n - 1  BY <1>0, <3>1
    <3>3. t[3 * j + 4] = "h" /\ t[3 * j + 6] = "lf"
      BY <3>2 DEF LaidOut
    <3>4. m = 3 * j + 5  BY <3>1, <3>3
    <3>5. j \in 0..n - 2  BY <1>0, <3>2, <3>4
    <3> QED  BY <3>4, <3>5
  <2>2. \A q \in Nat : 1 <= q /\ q + 3 <= 3 * n + 1 /\ t[q + 3] = "cr" => t[q + 5] = "h"
    <3> SUFFICES ASSUME NEW q \in Nat, 1 <= q, q + 3 <= 3 * n + 1, t[q + 3] = "cr"
                 PROVE  t[q + 5] = "h"
      OBVIOUS
    <3>1. PICK j \in 0..n - 2 : q + 3 = 3 * j + 5
      BY <2>1
    <3>2. j + 1 \in 0..n - 1 /\ q + 5 = 3 * (j + 1) + 4  BY <1>0, <3>1
    <3> QED  BY <3>2 DEF LaidOut
  <2>3. /\ t[p + 3] = "cr" /\ t[p + 4] = "lf" /\ t[p + 5] = "cr" /\ t[p + 6] = "lf"
    <3>1. /\ p + 3 = 3 * (n - 1) + 5 /\ p + 4 = 3 * (n - 1) + 6
          /\ p + 5 = 3 * n + 4 /\ p + 6 = 3 * n + 5
      BY <1>0
    <3> QED  BY <2>0, <3>1 DEF LaidOut
  <2>4. p + 6 = Lead(n) /\ \A m \in Nat : m < p => m + 3 <= 3 * n + 1
    BY <1>0 DEF Lead
  <2> HIDE DEF p
  <2>5. p <= i
    <3>1. t[i + 3] = "cr" /\ t[i + 5] = "cr"  BY <1>4, <1>5
    <3>2. ~(i + 3 <= 3 * n + 1)  BY <1>5, <2>2, <3>1
    <3> QED  BY <1>5, <2>0, <2>4, <3>2
  <2>6. p + 6 <= g  BY <1>0, <1>5, <2>0, <2>5
  <2>7. Find(w, TwoEnds) = p
    <3>1. p \in 1..Len(w) + 1 - Len(TwoEnds)  BY <1>3, <2>0, <2>6
    <3>2. SubSeq(w, p, p + Len(TwoEnds) - 1) = TwoEnds  BY <1>4, <2>0, <2>3, <2>6
    <3>3. \A q \in 1..p - 1 : SubSeq(w, q, q + Len(TwoEnds) - 1) # TwoEnds
      <4> TAKE q \in 1..p - 1
      <4>1. q \in Nat /\ 1 <= q /\ q < p /\ q + 6 <= g  BY <1>0, <2>0, <2>6
      <4>2. q + 3 <= 3 * n + 1  BY <2>4, <4>1
      <4>3. ~(t[q + 3] = "cr" /\ t[q + 5] = "cr")  BY <2>2, <4>1, <4>2
      <4> QED  BY <1>4, <4>1, <4>3
    <3>4. Len(TwoEnds) \in Nat  BY <1>2
    <3> QED  BY <1>3, <3>1, <3>2, <3>3, <3>4, FindIs
  <2>8. SubSeq(w, 1, 2) # Crlf
    <3>1. t[4] = "h"
      <4>1. 0 \in 0..n - 1 /\ 3 * 0 + 4 = 4  BY <1>0, <1>7
      <4> QED  BY <4>1 DEF LaidOut
    <3>2. w[1] = "h"
      <4>1. 1 \in 1..g + 1 - 4 /\ 4 + 1 - 1 = 4  BY <1>0, <1>5
      <4> QED  BY <1>1, <3>1, <4>1
    <3>3. SubSeq(w, 1, 2)[1] = w[1]
      <4>1. 1 \in 1..Len(w) /\ 2 \in 1..Len(w)  BY <1>0, <1>1, <1>5
      <4>2. Keeps(SubSeq(w, 1, 2), w, 1, 2)  BY <1>1, <1>3, <4>1 DEF Keeps
      <4>3. \A m \in 1..2 + 1 - 1 : SubSeq(w, 1, 2)[m] = w[1 + m - 1]
        BY <4>2, KeptBytes
      <4> QED  BY <4>3
    <3>4. Crlf[1] = "cr"  BY DEF Crlf
    <3> QED  BY <3>2, <3>3, <3>4
  <2>9. p + 4 \in 1..g + 2 - 4 /\ 4 + (p + 4) - 1 = Lead(n) + 1 /\ Lead(n) <= g
    BY <1>0, <2>0, <2>4, <2>6
  <2>10. Keeps(SubSeq(w, p + 4, Len(w)), t, 4 + (p + 4) - 1, g)
    BY <2>9, RestOfKept
  <2> QED  BY <2>7, <2>8, <2>9, <2>10 DEF AfterBlankLine, TwoEnds
<1> QED  BY <1>6, <1>7

-----------------------------------------------------------------------------
(* The clients' inductive invariant: before its content, a response is kept  *)
(* from where one of its lines begins, and nothing of it is shown; cout has  *)
(* not failed.                                                               *)

Early == {"resolve", "connect", "write", "status"}

CountsOK ==
  /\ stage \in Early \cup {"headers", "content"} \cup Ended
  /\ sends \in Responses /\ muted = FALSE
  /\ got \in Nat /\ closes \in Nat
  /\ got <= closes /\ closes <= Len(Text(sends))

(* s is the response from its byte k to the last that was read. *)
IsFrom(s, k) == Keeps(s, Text(sends), k, got)

NothingIsShown == stage \in Early \cup {"headers"} => shown = <<>>

ContentIsShown ==
  /\ stage \in Early => IsFrom(response_, 1)
  /\ stage = "content"
       => Lead(sends.headers) <= got /\ IsFrom(shown, Lead(sends.headers) + 1)
  /\ stage = "done"
       => shown = SubSeq(Text(sends), Lead(sends.headers) + 1, got)

Common == CountsOK /\ NothingIsShown /\ ContentIsShown

(* j header lines were read. *)
HeadersFrom(j) ==
  /\ j \in 0..sends.headers /\ 3 * j + 3 <= got
  /\ IsFrom(response_, 3 * j + 4)

(* One client reads all headers at once, the other line by line. *)
ClientInv == Common /\ (stage = "headers" => HeadersFrom(0))
StreamInv ==
  Common /\ (stage = "headers" => \E j \in 0..sends.headers : HeadersFrom(j))

LEMMA LaidOutIs ==
  ASSUME CountsOK
  PROVE  /\ LaidOut(Text(sends), sends.headers, sends.status)
         /\ Len(Before(sends)) = Lead(sends.headers)
         /\ Text(sends) \in Seq(TextByte) /\ Len(Text(sends)) \in Nat
         /\ sends.headers \in Nat /\ Lead(sends.headers) \in Nat
<1>1. LaidOut(Text(sends), sends.headers, sends.status)
      /\ Len(Before(sends)) = Lead(sends.headers)
  BY TextLaidOut DEF CountsOK
<1>2. Text(sends) \in Seq(TextByte) /\ sends.headers \in Nat
  BY <1>1 DEF LaidOut
<1> QED  BY <1>1, <1>2, LenProperties DEF Lead

LEMMA Shown ==
  ASSUME Common
  PROVE  ShownIsWhatCame
<1>1. Len(Before(sends)) = Lead(sends.headers)
  BY LaidOutIs DEF Common
<1>2. stage \in {"content", "done"}
        => shown = SubSeq(Text(sends), Lead(sends.headers) + 1, got)
  BY DEF Common, ContentIsShown, IsFrom, Keeps
<1> QED  BY <1>1, <1>2 DEF ShownIsWhatCame

LEMMA Begins ==
  ASSUME ClientInit
  PROVE  Common /\ stage # "headers"
<1>1. sends \in Responses /\ got = 0 /\ closes \in 0..Len(Text(sends))
      /\ stage = "resolve" /\ muted = FALSE /\ shown = <<>> /\ response_ = <<>>
  BY DEF ClientInit
<1>2. Text(sends) \in Seq(TextByte) /\ Len(Text(sends)) \in Nat
  BY <1>1, TextLaidOut, LenProperties DEF LaidOut
<1>3. CountsOK
  BY <1>1, <1>2 DEF CountsOK, Early
<1>4. IsFrom(response_, 1)
  <2>1. SubSeq(Text(sends), 1, 0) = <<>>  BY SubSeqEmpty
  <2> QED  BY <1>1, <1>2, <2>1 DEF IsFrom, Keeps
<1> QED  BY <1>1, <1>3, <1>4 DEF Common, NothingIsShown, ContentIsShown, Early

(* What was kept and the piece behind it. *)
LEMMA MoreIsKept ==
  ASSUME NEW w, NEW t, NEW k, NEW g, Keeps(w, t, k, g),
         NEW n \in Nat, g + n <= Len(t)
  PROVE  Keeps(w \o SubSeq(t, g + 1, g + n), t, k, g + n)
<1>0. /\ t \in Seq(TextByte) /\ k \in Nat \ {0} /\ g \in Nat
      /\ k <= g + 1 /\ g <= Len(t) /\ w = SubSeq(t, k, g) /\ Len(t) \in Nat
  BY LenProperties DEF Keeps
<1>1. SubSeq(t, k, g) \o SubSeq(t, g + 1, g + n) = SubSeq(t, k, g + n)
  <2>1. k \in 1..Len(t) + 1 /\ g \in k - 1..Len(t) /\ g + n \in g..Len(t)
    BY <1>0
  <2> QED  BY <1>0, <2>1, ConcatAdjacentSubSeq
<1>2. k <= (g + n) + 1 /\ g + n \in Nat  BY <1>0
<1> QED  BY <1>0, <1>1, <1>2 DEF Keeps

(* A piece that has come is not empty. *)
LEMMA PieceIsSome ==
  ASSUME NEW t \in Seq(TextByte), NEW g \in Nat, NEW n \in Nat \ {0}, g + n <= Len(t)
  PROVE  SubSeq(t, g + 1, g + n) # <<>>
<1>1. Keeps(SubSeq(t, g + 1, g + n), t, g + 1, g + n)
  <2>1. g + 1 \in Nat \ {0} /\ g + n \in Nat /\ g + 1 <= (g + n) + 1  OBVIOUS
  <2> QED  BY <2>1 DEF Keeps
<1>2. Len(SubSeq(t, g + 1, g + n)) = (g + n) + 1 - (g + 1)  BY <1>1, KeptBytes
<1>3. (g + n) + 1 - (g + 1) # 0  OBVIOUS
<1> QED  BY <1>2, <1>3

-----------------------------------------------------------------------------
(* The steps that both programs take. *)

(* The operation changes, and nothing else. *)
LEMMA GoesOn ==
  ASSUME Common, stage' \in Early \cup Ended,
         UNCHANGED <<response_, shown, muted, sends, got, closes>>,
         stage' \in Early => stage \in Early,
         stage' = "done"
           => shown = SubSeq(Text(sends), Lead(sends.headers) + 1, got)
  PROVE  Common' /\ stage' # "headers"
<1>1. CountsOK'
  BY DEF Common, CountsOK, Ended
<1>2. NothingIsShown'
  BY DEF Common, NothingIsShown, Early, Ended
<1>3. ContentIsShown'
  BY DEF Common, ContentIsShown, IsFrom, Early, Ended
<1> QED  BY <1>1, <1>2, <1>3 DEF Common, Early, Ended

LEMMA TakeStep ==
  ASSUME Common, stage \in Reading, NEW n \in 1..MaxPiece, Take(n)
  PROVE  /\ Common' /\ stage' = stage /\ sends' = sends
         /\ \A j : stage = "headers" /\ HeadersFrom(j) => HeadersFrom(j)'
<1> DEFINE piece == SubSeq(Text(sends), got + 1, got + n)
<1>0. /\ CountsOK /\ NothingIsShown /\ ContentIsShown
      /\ n \in Nat \ {0}
  BY ConstantsAssumption DEF Common
<1>1. /\ stage' = stage /\ sends' = sends /\ closes' = closes
      /\ got' = got + n /\ got' <= closes
  BY DEF Take, HasCome
<1>2. /\ Text(sends) \in Seq(TextByte) /\ Len(Text(sends)) \in Nat
      /\ got + n <= Len(Text(sends)) /\ got \in Nat
  <2>1. Text(sends) \in Seq(TextByte) /\ Len(Text(sends)) \in Nat
    BY <1>0, LaidOutIs
  <2>2. /\ got \in Nat /\ closes \in Nat /\ closes <= Len(Text(sends))
        /\ got + n <= closes
    BY <1>0, <1>1 DEF CountsOK
  <2>3. \A l \in Nat : closes <= l => got + n <= l
    BY <1>0, <2>2
  <2> QED  BY <2>1, <2>2, <2>3
<1>3. \A s, k : IsFrom(s, k) => Keeps(s \o piece, Text(sends), k, got + n)
  BY <1>0, <1>2, MoreIsKept DEF IsFrom
<1>4. piece # <<>>
  BY <1>0, <1>2, PieceIsSome
<1> HIDE DEF piece
<1>5. CASE stage = "content"
  <2>1. shown' = shown \o piece /\ muted' = FALSE
    <3>1. Write(piece) /\ muted = FALSE
      BY <1>0, <1>5 DEF Take, CountsOK, piece
    <3> QED  BY <1>4, <3>1 DEF Write
  <2>2. CountsOK'
    BY <1>0, <1>1, <1>2, <2>1 DEF CountsOK
  <2>3. IsFrom(shown, Lead(sends.headers) + 1)' /\ (Lead(sends.headers) <= got)'
    <3>1. IsFrom(shown, Lead(sends.headers) + 1) /\ Lead(sends.headers) <= got
      BY <1>0, <1>5 DEF ContentIsShown
    <3>2. Lead(sends.headers) \in Nat  BY <1>0, LaidOutIs
    <3>3. Lead(sends.headers) <= got + n  BY <1>0, <1>2, <3>1, <3>2
    <3> QED  BY <1>1, <1>3, <2>1, <3>1, <3>3 DEF IsFrom
  <2> QED
    BY <1>1, <1>5, <2>2, <2>3 DEF Common, NothingIsShown, ContentIsShown, Early
<1>6. CASE stage # "content"
  <2>1. response_' = response_ \o piece /\ shown' = shown /\ muted' = muted
    BY <1>6 DEF Take, piece
  <2>2. CountsOK'
    BY <1>0, <1>1, <1>2, <2>1 DEF CountsOK
  <2>3. \A k : IsFrom(response_, k) => IsFrom(response_, k)'
    BY <1>1, <1>3, <2>1 DEF IsFrom
  <2>4. NothingIsShown' /\ ContentIsShown'
    BY <1>0, <1>1, <1>6, <2>1, <2>3
    DEF NothingIsShown, ContentIsShown, Reading, Early
  <2>5. \A j : HeadersFrom(j) => HeadersFrom(j)'
    <3> TAKE j
    <3>1. j \in 0..sends.headers /\ 3 * j + 3 <= got => 3 * j + 3 <= got + n
      BY <1>0, <1>2
    <3> QED  BY <1>1, <2>3, <3>1 DEF HeadersFrom
  <2> QED  BY <1>1, <2>2, <2>4, <2>5 DEF Common
<1> QED  BY <1>5, <1>6

(* The status line is read, by either program. *)
LEMMA StatusStep ==
  ASSUME Common, stage = "status", Find(response_, <<"lf">>) # 0,
         stage' \in {"headers", "refused"}, response_' = RestOfLine(response_),
         UNCHANGED <<shown, muted, sends, got, closes>>
  PROVE  Common' /\ HeadersFrom(0)'
<1>0. CountsOK /\ NothingIsShown /\ ContentIsShown  BY DEF Common
<1>1. LaidOut(Text(sends), sends.headers, sends.status) /\ sends.headers \in Nat
  BY <1>0, LaidOutIs
<1>2. Keeps(response_, Text(sends), 1, got)
  BY <1>0 DEF ContentIsShown, IsFrom, Early
<1>3. 3 <= got /\ Keeps(RestOfLine(response_), Text(sends), 4, got)
  BY <1>1, <1>2, StatusIsRead
<1>4. HeadersFrom(0)'
  <2>1. 0 \in 0..sends.headers /\ 3 * 0 + 3 = 3 /\ 3 * 0 + 4 = 4  BY <1>1
  <2> QED  BY <1>3, <2>1 DEF HeadersFrom, IsFrom
<1>5. Common'
  BY <1>0 DEF Common, CountsOK, NothingIsShown, ContentIsShown, Early, Ended
<1> QED  BY <1>4, <1>5

(* Its headers are behind it: what is left is shown, if there is any. *)
LEMMA ContentStep ==
  ASSUME Common, NEW rest, shown' = rest, muted' = FALSE, stage' = "content",
         Lead(sends.headers) <= got, IsFrom(rest, Lead(sends.headers) + 1),
         UNCHANGED <<sends, got, closes>>
  PROVE  Common'
<1>1. CountsOK'  BY DEF Common, CountsOK
<1>2. NothingIsShown' /\ ContentIsShown'
  BY DEF NothingIsShown, ContentIsShown, IsFrom, Early
<1> QED  BY <1>1, <1>2 DEF Common

-----------------------------------------------------------------------------
(* http_client.cc. *)

LEMMA ReadHeadersStep ==
  ASSUME ClientInv, HandleReadHeaders
  PROVE  Common'
<1> DEFINE rest == AfterBlankLine(response_)
<1>0. CountsOK /\ NothingIsShown /\ ContentIsShown /\ stage = "headers" /\ HeadersFrom(0)
  BY DEF ClientInv, Common, HandleReadHeaders
<1>1. LaidOut(Text(sends), sends.headers, sends.status)
  BY <1>0, LaidOutIs
<1>2. Keeps(response_, Text(sends), 4, got)
  BY <1>0 DEF HeadersFrom, IsFrom
<1>3. Find(response_, Crlf \o Crlf) # 0
  BY <1>0 DEF HandleReadHeaders, Found, Until
<1>4. Lead(sends.headers) <= got /\ IsFrom(rest, Lead(sends.headers) + 1)
  BY <1>1, <1>2, <1>3, HeadersAreRead DEF IsFrom
<1>5. shown' = rest /\ muted' = FALSE
  <2>1. shown = <<>> /\ muted = FALSE
    BY <1>0 DEF NothingIsShown, CountsOK, Early
  <2>2. IF rest # <<>> THEN Write(rest) ELSE UNCHANGED <<shown, muted>>
    BY DEF HandleReadHeaders, NotEmpty
  <2>3. rest \in Seq(TextByte)
    BY <1>4, KeptBytes DEF IsFrom
  <2> HIDE DEF rest
  <2>4. <<>> \o rest = rest  BY <2>3
  <2> QED  BY <2>1, <2>2, <2>4 DEF Write
<1> HIDE DEF rest
<1> QED  BY <1>4, <1>5, ContentStep DEF ClientInv, HandleReadHeaders

LEMMA ClientInvStep ==
  ASSUME ClientInv, [ClientNext]_clientVars
  PROVE  ClientInv'
<1>0. Common /\ CountsOK /\ ContentIsShown /\ (stage = "headers" => HeadersFrom(0))
  BY DEF ClientInv, Common
<1>1. CASE HandleResolve \/ HandleConnect \/ HandleWriteRequest
  <2>1. /\ stage \in Early /\ stage' \in Early \cup {"failed"}
        /\ UNCHANGED <<response_, shown, muted, sends, got, closes>>
    BY <1>1 DEF HandleResolve, HandleConnect, HandleWriteRequest, Goes, Early
  <2> QED  BY <1>0, <2>1, GoesOn DEF ClientInv, Ended, Early
<1>2. CASE HandleReadStatusLine
  <2>1. Find(response_, <<"lf">>) # 0
    <3>1. Find(response_, Crlf) # 0
      BY <1>2 DEF HandleReadStatusLine, Found, Until
    <3>2. Keeps(response_, Text(sends), 1, got)
      BY <1>0, <1>2 DEF HandleReadStatusLine, ContentIsShown, IsFrom, Early
    <3> QED  BY <1>0, <3>1, <3>2, LaidOutIs, StatusHasCome
  <2>2. stage' \in {"headers", "refused"}
    BY <1>2 DEF HandleReadStatusLine
  <2> QED
    BY <1>0, <1>2, <2>1, <2>2, StatusStep DEF HandleReadStatusLine, ClientInv
<1>3. CASE HandleReadHeaders
  <2>1. stage' = "content"  BY <1>3 DEF HandleReadHeaders
  <2> QED  BY <1>3, <2>1, ReadHeadersStep DEF ClientInv
<1>4. ASSUME NEW n \in 1..MaxPiece, ReceivePiece(n) PROVE ClientInv'
  BY <1>0, <1>4, TakeStep DEF ReceivePiece, ClientInv
<1>5. CASE ReadEof \/ ReadBreaks
  <2>1. /\ stage' \in {"done", "failed"} /\ (stage' = "done" => stage = "content")
        /\ UNCHANGED <<response_, shown, muted, sends, got, closes>>
    BY <1>5 DEF ReadEof, ReadBreaks, AtEof
  <2>2. stage = "content"
          => shown = SubSeq(Text(sends), Lead(sends.headers) + 1, got)
    BY <1>0 DEF ContentIsShown, IsFrom, Keeps
  <2> QED  BY <1>0, <2>1, <2>2, GoesOn DEF ClientInv, Ended, Early
<1>6. CASE UNCHANGED clientVars
  BY <1>6
  DEF ClientInv, Common, CountsOK, NothingIsShown, ContentIsShown, HeadersFrom,
      IsFrom, clientVars
<1> QED
  BY <1>1, <1>2, <1>3, <1>4, <1>5, <1>6 DEF ClientNext, Progress

(* Once the headers are read, what the asynchronous client has shown is the *)
(* content that came, byte for byte.                                        *)
THEOREM ClientShowsWhatCame == ClientSpec => []ShownIsWhatCame
<1>1. ClientInit => ClientInv  BY Begins DEF ClientInv
<1>2. ClientInv /\ [ClientNext]_clientVars => ClientInv'  BY ClientInvStep
<1>3. ClientInv => ShownIsWhatCame  BY Shown DEF ClientInv
<1> QED  BY <1>1, <1>2, <1>3, PTL DEF ClientSpec

-----------------------------------------------------------------------------
(* http.cc. *)

LEMMA HeaderLineStep ==
  ASSUME StreamInv, HeaderLine
  PROVE  StreamInv'
<1>0. /\ Common /\ CountsOK /\ NothingIsShown /\ ContentIsShown
      /\ stage = "headers" /\ Find(response_, <<"lf">>) # 0
      /\ UNCHANGED <<muted, sends, got, closes>> /\ muted' = FALSE
  BY DEF StreamInv, Common, CountsOK, HeaderLine, NoLine
<1>1. PICK j \in 0..sends.headers : HeadersFrom(j)
  BY <1>0 DEF StreamInv
<1>2. LaidOut(Text(sends), sends.headers, sends.status)
  BY <1>0, LaidOutIs
<1>3. Keeps(response_, Text(sends), 3 * j + 4, got)
  BY <1>1 DEF HeadersFrom, IsFrom
<1>4. CASE SubSeq(response_, 1, 2) = Crlf
  <2>1. stage' = "content" /\ shown' = RestOfLine(response_)
    BY <1>4 DEF HeaderLine
  <2>2. /\ Lead(sends.headers) <= got
        /\ IsFrom(RestOfLine(response_), Lead(sends.headers) + 1)
    BY <1>0, <1>2, <1>3, <1>4, HeaderIsRead DEF IsFrom
  <2> QED  BY <1>0, <2>1, <2>2, ContentStep DEF StreamInv
<1>5. CASE SubSeq(response_, 1, 2) # Crlf
  <2>1. stage' = stage /\ shown' = shown /\ response_' = RestOfLine(response_)
    BY <1>5 DEF HeaderLine
  <2>2. /\ j + 1 \in 0..sends.headers /\ 3 * (j + 1) + 3 <= got
        /\ Keeps(RestOfLine(response_), Text(sends), 3 * (j + 1) + 4, got)
    BY <1>0, <1>2, <1>3, <1>5, HeaderIsRead
  <2>3. HeadersFrom(j + 1)'
    BY <1>0, <2>1, <2>2 DEF HeadersFrom, IsFrom
  <2>4. Common'
    BY <1>0, <2>1 DEF Common, CountsOK, NothingIsShown, ContentIsShown, Early
  <2> QED  BY <1>0, <2>2, <2>3, <2>4 DEF StreamInv
<1> QED  BY <1>4, <1>5

(* A line that has not come whole is before the content. *)
LEMMA EndsBeforeContent ==
  ASSUME StreamInv, Blocked, stage # "content"
  PROVE  SubSeq(Text(sends), Lead(sends.headers) + 1, got) = <<>> /\ shown = <<>>
<1>0. /\ CountsOK /\ NothingIsShown /\ ContentIsShown
      /\ stage \in {"status", "headers"} /\ Find(response_, <<"lf">>) = 0
  BY DEF StreamInv, Common, Blocked, NoLine
<1>1. /\ LaidOut(Text(sends), sends.headers, sends.status)
      /\ sends.headers \in Nat /\ Lead(sends.headers) \in Nat /\ got \in Nat
  BY <1>0, LaidOutIs DEF CountsOK
<1>2. got < Lead(sends.headers)
  <2>1. CASE stage = "status"
    <3>1. Keeps(response_, Text(sends), 1, got)
      BY <1>0, <2>1 DEF ContentIsShown, IsFrom, Early
    <3>2. got < 3  BY <1>0, <1>1, <3>1, StatusIsRead
    <3> QED  BY <1>1, <3>2 DEF Lead
  <2>2. CASE stage = "headers"
    <3>1. PICK j \in 0..sends.headers : HeadersFrom(j)
      BY <2>2 DEF StreamInv
    <3> QED  BY <1>0, <1>1, <3>1, HeaderIsRead DEF HeadersFrom, IsFrom
  <2> QED  BY <1>0, <2>1, <2>2
<1>3. SubSeq(Text(sends), Lead(sends.headers) + 1, got) = <<>>
  BY <1>1, <1>2, SubSeqEmpty
<1> QED  BY <1>0, <1>3 DEF NothingIsShown, Early

LEMMA StreamInvStep ==
  ASSUME StreamInv, [StreamNext]_clientVars
  PROVE  StreamInv'
<1>0. /\ Common /\ CountsOK /\ ContentIsShown
      /\ stage = "headers" => \E j \in 0..sends.headers : HeadersFrom(j)
  BY DEF StreamInv, Common
<1>1. CASE Connect
  <2>1. /\ stage \in Early /\ stage' \in Early \cup {"failed"}
        /\ UNCHANGED <<response_, shown, muted, sends, got, closes>>
    BY <1>1 DEF Connect, Early
  <2> QED  BY <1>0, <2>1, GoesOn DEF StreamInv, Ended, Early
<1>2. CASE StatusLine
  <2>1. stage' \in {"headers", "refused"} /\ Find(response_, <<"lf">>) # 0
    BY <1>2 DEF StatusLine, NoLine
  <2>2. Common' /\ HeadersFrom(0)'
    BY <1>0, <1>2, <2>1, StatusStep DEF StatusLine
  <2>3. 0 \in 0..sends'.headers
    BY <2>2 DEF HeadersFrom
  <2> QED  BY <2>2, <2>3 DEF StreamInv
<1>3. CASE HeaderLine
  BY <1>3, HeaderLineStep
<1>4. CASE StreamEnds
  <2>1. /\ stage' \in {"done", "refused"}
        /\ UNCHANGED <<response_, shown, muted, sends, got, closes>>
    BY <1>4 DEF StreamEnds, AtEnd
  <2>2. shown = SubSeq(Text(sends), Lead(sends.headers) + 1, got)
    <3>1. CASE stage = "content"
      BY <1>0, <3>1 DEF ContentIsShown, IsFrom, Keeps
    <3>2. CASE stage # "content"
      BY <1>4, <3>2, EndsBeforeContent DEF StreamEnds
    <3> QED  BY <3>1, <3>2
  <2> QED  BY <1>0, <2>1, <2>2, GoesOn DEF StreamInv, Ended, Early
<1>5. ASSUME NEW n \in 1..MaxPiece, Underflow(n) PROVE StreamInv'
  <2>1. stage \in Reading /\ Take(n)
    BY <1>5 DEF Underflow, Blocked, Reading
  <2>2. /\ Common' /\ stage' = stage /\ sends' = sends
        /\ \A j : stage = "headers" /\ HeadersFrom(j) => HeadersFrom(j)'
    BY <1>0, <2>1, TakeStep
  <2> QED  BY <1>0, <2>2 DEF StreamInv
<1>6. CASE UNCHANGED clientVars
  BY <1>6
  DEF StreamInv, Common, CountsOK, NothingIsShown, ContentIsShown, HeadersFrom,
      IsFrom, clientVars
<1> QED
  BY <1>1, <1>2, <1>3, <1>4, <1>5, <1>6 DEF StreamNext, StreamRuns

(* So it is with the client on an iostream, which may also end before the   *)
(* content has come, and then has shown nothing.                            *)
THEOREM StreamShowsWhatCame == StreamSpec => []ShownIsWhatCame
<1>1. ClientInit => StreamInv  BY Begins DEF StreamInv
<1>2. StreamInv /\ [StreamNext]_clientVars => StreamInv'  BY StreamInvStep
<1>3. StreamInv => ShownIsWhatCame  BY Shown DEF StreamInv
<1> QED  BY <1>1, <1>2, <1>3, PTL DEF StreamSpec
=============================================================================
