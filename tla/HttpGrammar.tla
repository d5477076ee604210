----------------------------- MODULE HttpGrammar -----------------------------
(***************************************************************************)
(* The requests the parser is to accept, said of whole texts by lines and  *)
(* not of bytes, and what the parser makes of a text compared with them.   *)
(***************************************************************************)
EXTENDS HttpConnection

(* The bytes of t from i up to but without j. *)
Cut(t, i, j) == SubSeq(t, i, j - 1)

(* Where s first holds an x, or one after its end. *)
First(s, x) == CHOOSE i \in 1..Len(s) + 1 :
                 /\ i = Len(s) + 1 \/ s[i] = x
                 /\ \A j \in 1..i - 1 : s[j] # x
UpTo(s, x) == Cut(s, 1, First(s, x))
Past(s, x) == SubSeq(s, First(s, x) + 1, Len(s))

(* A text is in lines when cr and lf come together, it ends with an empty  *)
(* line, and has no other.  Starts are where its lines begin but this one. *)
EndsAt(t, i) == t[i] = "cr" /\ t[i + 1] = "lf"
InLines(t) ==
  LET n == Len(t) IN
  /\ n > 4 /\ EndsAt(t, n - 3) /\ EndsAt(t, n - 1)
  /\ \A i \in 1..n - 1 : t[i] = "cr" <=> t[i + 1] = "lf"
  /\ \A i \in 1..n - 4 : ~(EndsAt(t, i) /\ EndsAt(t, i + 2))
Starts(t) == {1} \cup {i \in 2..Len(t) - 3 : t[i - 1] = "lf"}
Line(t, i) == UpTo(SubSeq(t, i, Len(t)), "cr")

All(s, S) == \A i \in DOMAIN s : s[i] \in S
Number(s) == s # <<>> /\ All(s, is_digit)
Version(s) ==
  /\ Len(s) > 5 /\ SubSeq(s, 1, 5) = <<"H", "T", "T", "P", "/">>
  /\ LET n == SubSeq(s, 6, Len(s)) IN Number(UpTo(n, ".")) /\ Number(Past(n, "."))

(* method, uri and version, with a space between; the uri may be empty. *)
RequestLine(l) ==
  LET m == UpTo(l, "space")
      u == UpTo(Past(l, "space"), "space")
  IN  /\ m # <<>> /\ All(m, Token)
      /\ All(u, Char \ is_ctl)
      /\ Version(Past(Past(l, "space"), "space"))

Folded(l) == l[1] \in Blank
Unfold(l) == IF \E i \in DOMAIN l : l[i] \notin Blank
             THEN SubSeq(l, CHOOSE i \in DOMAIN l : /\ l[i] \notin Blank
                                                    /\ All(Cut(l, 1, i), Blank),
                         Len(l))
             ELSE <<>>

(* name, colon, space, value; or blanks and more of the value before. *)
FieldLine(l) ==
  /\ UpTo(l, ":") # <<>> /\ All(UpTo(l, ":"), Token)
  /\ Past(l, ":") # <<>> /\ Head(Past(l, ":")) = "space"
  /\ All(Past(l, ":"), Char \ is_ctl)
FoldedLine(l) == Folded(l) /\ All(Unfold(l), Char \ is_ctl)

(* The first header line is not folded. *)
IsRequest(t) ==
  /\ InLines(t)
  /\ RequestLine(Line(t, 1))
  /\ \A i \in Starts(t) \ {1} :
       \/ FieldLine(Line(t, i))
       \/ FoldedLine(Line(t, i)) /\ First(t, "lf") + 1 # i

(* The ends of two requests that between them finish whatever can be one. *)
Shortest == <<"H", "space", "space", "H", "T", "T", "P", "/", "0", ".", "0",
              "cr", "lf", "cr", "lf">>
OneHeader == <<"H", ":", "space", "cr", "lf", "cr", "lf">>
Endings == UNION {{SubSeq(r, i, Len(r)) : i \in 1..Len(r) + 1}
                    : r \in {Shortest, OneHeader}}
Viable(t) == \E e \in Endings : IsRequest(t \o e)

(* The request a text makes, its header lines unfolded. *)
WithLine(hs, l) ==
  IF Folded(l)
  THEN [hs EXCEPT ![Len(hs)].value = @ \o Unfold(l)]
  ELSE Append(hs, [name  |-> UpTo(l, ":"), value |-> Tail(Past(l, ":"))])
TheHeaders(t) ==
  LET hs[i \in 0..Len(t)] ==
        IF i = 0 THEN <<>>
        ELSE IF i \in Starts(t) \ {1} THEN WithLine(hs[i - 1], Line(t, i))
        ELSE hs[i - 1]
  IN  hs[Len(t)]
TheRequest(t) ==
  LET l == Line(t, 1)
      n == Past(Past(l, "space"), "space")
  IN  [method |-> UpTo(l, "space"), uri |-> UpTo(Past(l, "space"), "space"),
       major |-> UpTo(SubSeq(n, 6, Len(n)), "."), minor |-> Past(n, "."),
       headers |-> TheHeaders(t)]

-----------------------------------------------------------------------------
(* "good when a complete request has been parsed" (request_parser.hpp:28):  *)
(* however the bytes came in chunks, the parser says good when and only     *)
(* when what it took is a request.                                          *)
GoodIsARequest == state_ = "good" <=> IsRequest(text)

(* "bad if the data is invalid, indeterminate when more data is required":  *)
(* it says bad at once, and only, when nothing more could make it one.      *)
BadIsHopeless == state_ = "bad" <=> ~Viable(text)

(* A good request is what the client said: method, uri, and the headers in  *)
(* their order with continued values put together.  The connection answers  *)
(* only what is complete or hopeless, and gives a file only for a request: a *)
(* chunk that ends in the middle of one is no answer yet.                   *)
AnswersWhatWasSaid ==
  /\ state_ = "good" => request_ = TheRequest(text)
  /\ reply_ # "none" => IsRequest(text) \/ ~Viable(text)
  /\ reply_ = "ok" => IsRequest(text)
=============================================================================
