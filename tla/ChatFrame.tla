----------------------------- MODULE ChatFrame -----------------------------
(***************************************************************************)
(* How a chat message travels: four bytes that say in decimal how long the *)
(* body is, and the body.  One end of a connection writes messages, the    *)
(* other reads a header, decodes it, and reads as many bytes as it says.   *)
(* The same class and the same two reads are in the server and the client, *)
(* and the server sends on what it read with the header it came with.      *)
(*                                                                         *)
(* What is in a body does not matter; how long it is does, and whether the *)
(* four bytes the reader takes for a header are one.                       *)
(***************************************************************************)
EXTENDS Integers, Sequences, SequencesExt

CONSTANTS
  LineLength,  (* how long the lines are that a user types               *)
  OtherByte,   (* what another program than the client puts in a header  *)
  MaxFrames    (* bound: how many messages are written                   *)

ASSUME ConstantsAssumption ==
  LineLength \subseteq Nat /\ MaxFrames \in Nat

VARIABLES
  peer,         (* who writes: a "client", or any "other" program          *)
  typing,       (* the writer goes on                                      *)
  frames,       (* history: the messages written                           *)
  reader,       (* the outstanding read, or "closed"                       *)
  body_length,  (* read_msg_.body_length_                                  *)
  at,           (* how many bytes were read                                *)
  read          (* history: the lengths of the bodies read                 *)

frameVars == <<peer, typing, frames, reader, body_length, at, read>>

-----------------------------------------------------------------------------
(* The class chat_message. *)

header_length == 4
max_body_length == 512

Digits == <<"0", "1", "2", "3", "4", "5", "6", "7", "8", "9">>
Digit == Range(Digits)
ValueOf(c) == CHOOSE d \in 0..9 : Digits[d + 1] = c

(* sprintf of "%4d". *)
Encode(n) ==
  [i \in 1..header_length |->
     LET place == <<1000, 100, 10, 1>>[i]
     IN  IF n < place /\ i < header_length THEN "blank"
         ELSE Digits[((n \div place) % 10) + 1]]

(* Of a text, the longest beginning that is made of C, and what follows it. *)
Span(s, C) ==
  SubSeq(s, 1, Max({n \in 0..Len(s) : \A i \in 1..n : s[i] \in C}))
After(s, C) == SubSeq(s, Len(Span(s, C)) + 1, Len(s))

(* What digits stand for. *)
Number(ds) ==
  LET value[n \in 0..Len(ds)] ==
        IF n = 0 THEN 0 ELSE 10 * value[n - 1] + ValueOf(ds[n])
  IN  value[Len(ds)]

(* atoi: blanks, a sign, and digits as far as there are any. *)
Atoi(s) ==
  LET t == After(s, {"blank"})
      signed == t # <<>> /\ Head(t) \in {"+", "-"}
      n == Number(Span(IF signed THEN Tail(t) ELSE t, Digit))
  IN  IF signed /\ Head(t) = "-" THEN -n ELSE n

(* Mutant: the length stays signed. *)
Signed(n) == n

(* An int as a std::size_t.  Four bytes hold no number below -999, so a     *)
(* word of 16 bits tells as much as one of 64.                              *)
AsSize(n) == n % 65536

(* What atoi makes of the header, as far as its first zero. *)
Decoded(h) ==
  AsSize(Atoi(Span(h, (OtherByte \cup Digit \cup {"blank"}) \ {"nul"})))

(* Mutant: the header's own bytes are not counted. *)
BodyOnly(n) == n

(* length(), of a message with a body of n bytes. *)
Length(n) == header_length + n

(* body_length(new_length). *)
Limited(n) == IF n > max_body_length THEN max_body_length ELSE n

-----------------------------------------------------------------------------
(* Where the next message will begin, and where the k-th does. *)
Written ==
  IF frames = <<>> THEN 0 ELSE Last(frames).from + Last(frames).length
StartOf(k) == IF k \in DOMAIN frames THEN frames[k].from ELSE Written

Headers == [1..header_length -> OtherByte]

FrameInit ==
  /\ peer \in {"client", "other"}
  /\ typing = TRUE
  /\ frames = <<>>
  /\ reader = "header"
  /\ body_length = 0
  /\ at = 0
  /\ read = <<>>

(* main of the client: a line that getline has no room for ends the input, *)
(* any other becomes a message.                                             *)
SendLine(n) ==
  /\ peer = "client" /\ typing
  /\ Len(frames) < MaxFrames
  /\ \/ /\ n <= max_body_length
        /\ frames' = Append(frames, [header |-> Encode(Limited(n)),
                                     from   |-> Written,
                                     length |-> Length(Limited(n)),
                                     line   |-> n])
        /\ UNCHANGED typing
     \/ /\ n > max_body_length
        /\ typing' = FALSE
        /\ UNCHANGED frames
  /\ UNCHANGED <<peer, reader, body_length, at, read>>

(* Another program sends four bytes of its own, and then enough. *)
SendOther(h) ==
  /\ peer = "other" /\ typing
  /\ frames' = Append(frames, [header |-> h,
                               from   |-> Written,
                               length |-> Length(max_body_length)])
  /\ typing' = FALSE
  /\ UNCHANGED <<peer, reader, body_length, at, read>>

(* do_read_header and decode_header: a length above the limit is refused, *)
(* and the reader leaves.                                                 *)
ReadHeader ==
  /\ reader = "header"
  /\ at + header_length <= Written
  /\ \E k \in 1..Len(frames) :
       /\ StartOf(k) = at
       /\ LET n == Decoded(frames[k].header)
          IN  \/ n > max_body_length /\ body_length' = 0 /\ reader' = "closed"
              \/ n <= max_body_length /\ body_length' = n /\ reader' = "body"
  /\ at' = at + header_length
  /\ UNCHANGED <<peer, typing, frames, read>>

(* do_read_body, and on to the next header. *)
ReadBody ==
  /\ reader = "body"
  /\ at + body_length <= Written
  /\ at' = at + body_length
  /\ read' = Append(read, body_length)
  /\ reader' = "header"
  /\ UNCHANGED <<peer, typing, frames, body_length>>

FrameNext ==
  \/ \E n \in LineLength : SendLine(n)
  \/ \E h \in Headers : SendOther(h)
  \/ ReadHeader
  \/ ReadBody

FrameSpec == FrameInit /\ [][FrameNext]_frameVars

-----------------------------------------------------------------------------
(* Whatever four bytes come for a header - blanks, signs, zeros, numbers     *)
(* below nought, anything - the length decode_header leaves is one for which *)
(* data_ has room, and a length it refuses leaves nothing to read.           *)
FitsBuffer ==
  /\ body_length \in 0..max_body_length
  /\ reader = "closed" => body_length = 0

(* What a client types is read as it was typed: the reader never refuses a   *)
(* client's header, never takes anything else for one, and is never left     *)
(* waiting for bytes the client does not send.                               *)
InStep ==
  peer = "client" =>
    /\ read = [i \in 1..Len(read) |-> frames[i].line]
    /\ at = StartOf(Len(read) + 1) + IF reader = "body" THEN header_length ELSE 0
    /\ reader # "closed"
    /\ reader = "body" => at + body_length = StartOf(Len(read) + 2)
=============================================================================
