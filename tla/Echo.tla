-------------------------------- MODULE Echo --------------------------------
(***************************************************************************)
(* The echo server with its clients.  The server runs its handlers on one  *)
(* thread; a client is a program of its own that asks for a line, writes   *)
(* the whole of it and then reads until as many bytes have come back,      *)
(* blocking in each.                                                       *)
(*                                                                         *)
(* A connection holds some bytes each way that were written and not yet    *)
(* read.  A client that has not begun to read can be waited for by the     *)
(* server that it waits for.                                               *)
(***************************************************************************)
EXTENDS Naturals, Sequences

CONSTANTS
  Client,      (* the clients                                             *)
  LineLengths, (* bound: how many bytes a line has that is not empty      *)
  BufferSize,  (* BUFF_SIZE                                               *)
  UpWindow,    (* how many bytes a connection takes before they are read,   *)
  DownWindow   (* to the session and to the client                        *)

ASSUME WindowAssumption ==
  /\ {UpWindow, DownWindow, BufferSize} \subseteq Nat \ {0}
  /\ LineLengths \subseteq Nat \ {0}

VARIABLES
  accepting,  (* async_accept is outstanding                              *)
  client,     (* where each client is                                     *)
  request_length,
  sent,       (* how many bytes of its request it has written             *)
  shown,      (* what it has written to cout                              *)
  session,    (* what each client's session waits for                     *)
  buffer,     (* what of _buffer is still to be written back              *)
  up, down    (* what is on the way to the session, and to the client     *)

line == <<client, request_length>>
vars == <<accepting, line, sent, shown, session, buffer, up, down>>

(* The bytes of a request are told apart by their places in it, from 1. *)
Init ==
  /\ accepting = TRUE
  /\ client = [c \in Client |-> "start"]
  /\ sent = [c \in Client |-> 0] /\ request_length = sent
  /\ session = [c \in Client |-> "none"]
  /\ shown = [c \in Client |-> <<>>]
  /\ buffer = shown /\ up = shown /\ down = shown

First(s, n) == SubSeq(s, 1, n)
Without(s, n) == SubSeq(s, n + 1, Len(s))

-----------------------------------------------------------------------------
(* A client. *)

(* connect: a connection is there before the server has accepted it. *)
Connect(c) ==
  /\ client[c] = "start"
  /\ client' = [client EXCEPT ![c] = "asking"]
  /\ session' = [session EXCEPT ![c] = "pending"]
  /\ UNCHANGED <<accepting, request_length, sent, shown, buffer, up, down>>

(* The loop around getline, until a line is not empty: if one is ever typed. *)
Types(c, n) ==
  /\ client[c] = "asking"
  /\ client' = [client EXCEPT ![c] = "writing"]
  /\ request_length' = [request_length EXCEPT ![c] = n]
  /\ UNCHANGED <<accepting, sent, shown, session, buffer, up, down>>

(* Behind the end of its input every getline fails and leaves request empty: *)
(* the loop never ends, and the connection stays as it is.                   *)
EndOfInput(c) ==
  /\ client[c] = "asking"
  /\ client' = [client EXCEPT ![c] = "spinning"]
  /\ UNCHANGED <<accepting, request_length, sent, shown, session, buffer, up, down>>

(* Mutant: the zero behind the line is written as well. *)
WithItsZero(n, length) == n = length + 1

(* buffer(request, request_length) *)
WholeLine(n, length) == n = length

(* write, a byte of it. *)
ClientWrite(c) ==
  /\ client[c] = "writing" /\ session[c] # "closed"
  /\ Len(up[c]) < UpWindow
  /\ sent' = [sent EXCEPT ![c] = @ + 1]
  /\ up' = [up EXCEPT ![c] = Append(@, sent'[c])]
  /\ client' = [client EXCEPT
                  ![c] = IF WholeLine(sent'[c], request_length[c])
                         THEN "reading" ELSE @]
  /\ UNCHANGED <<accepting, request_length, shown, session, buffer, down>>

(* read_some, and done if all came back. *)
ClientRead(c, n) ==
  /\ client[c] = "reading"
  /\ n <= Len(down[c])
  /\ shown' = [shown EXCEPT ![c] = @ \o First(down[c], n)]
  /\ down' = [down EXCEPT ![c] = Without(@, n)]
  /\ client' = [client EXCEPT
                  ![c] = IF Len(shown'[c]) = request_length[c] THEN "done" ELSE @]
  /\ UNCHANGED <<accepting, request_length, sent, session, buffer, up>>

(* connect, write or read_some throws: the server does not answer, or the    *)
(* session was closed.                                                       *)
ClientFails(c) ==
  /\ client[c] = "start" \/ session[c] = "closed"
  /\ client[c] \in {"start", "writing", "reading"}
  /\ client' = [client EXCEPT ![c] = "failed"]
  /\ UNCHANGED <<accepting, request_length, sent, shown, session, buffer, up, down>>

(* The connection breaks, or the program is ended. *)
ClientBreaks(c) ==
  /\ client[c] \in {"asking", "spinning", "writing", "reading"}
  /\ client' = [client EXCEPT ![c] = "failed"]
  /\ UNCHANGED <<accepting, request_length, sent, shown, session, buffer, up, down>>

-----------------------------------------------------------------------------
(* The server. *)

(* Mutant: the acceptor accepts once. *)
AcceptNoMore == accepting' = FALSE

(* The handler of async_accept calls accept again, whatever came. *)
AcceptAgain == accepting' = TRUE

(* A session is made and starts to read; or the connection was lost. *)
Accepted(c) ==
  /\ accepting
  /\ session[c] = "pending"
  /\ session' \in {[session EXCEPT ![c] = s] : s \in {"reading", "closed"}}
  /\ UNCHANGED <<line, sent, shown, buffer, up, down>>

Accept(c) == Accepted(c) /\ AcceptAgain

(* The handler of async_read_some: write back what was read. *)
SessionRead(c, n) ==
  /\ session[c] = "reading"
  /\ n <= Len(up[c])
  /\ buffer' = [buffer EXCEPT ![c] = First(up[c], n)]
  /\ up' = [up EXCEPT ![c] = Without(@, n)]
  /\ session' = [session EXCEPT ![c] = "writing"]
  /\ UNCHANGED <<accepting, line, sent, shown, down>>

(* Mutant: one write_some for a whole write. *)
NothingLeft(b, n) == <<>>

(* What async_write has still to write once n bytes more are written. *)
Left(b, n) == Without(b, n)

(* async_write writes n bytes; with the last its handler reads again. *)
SessionWrite(c, n) ==
  /\ session[c] = "writing"
  /\ n <= Len(buffer[c])
  /\ Len(down[c]) + n <= DownWindow
  /\ down' = [down EXCEPT ![c] = @ \o First(buffer[c], n)]
  /\ buffer' = [buffer EXCEPT ![c] = Left(@, n)]
  /\ session' = [session EXCEPT
                   ![c] = IF buffer'[c] = <<>> THEN "reading" ELSE @]
  /\ UNCHANGED <<accepting, line, sent, shown, up>>

(* A read at the end of the stream, a write to a client that is gone. *)
Gone(c) ==
  /\ client[c] \in {"done", "failed"}
  /\ session[c] = "reading" => up[c] = <<>>

Close(c) ==
  /\ session[c] \in {"reading", "writing"}
  /\ session' = [session EXCEPT ![c] = "closed"]
  /\ UNCHANGED <<accepting, line, sent, shown, buffer, up, down>>

(* An operation ends with an error, starts no other, and the last reference  *)
(* to the session is gone: because the client is, or for another reason.     *)
SessionEnds(c) == Gone(c) /\ Close(c)
SessionFails(c) == ~Gone(c) /\ Close(c)

-----------------------------------------------------------------------------
Server(c) ==
  \/ SessionEnds(c)
  \/ \E n \in 1..BufferSize : SessionRead(c, n) \/ SessionWrite(c, n)

Person(c) ==
  \/ Connect(c) \/ EndOfInput(c)
  \/ \E n \in LineLengths : Types(c, n)

Program(c) ==
  \/ ClientWrite(c) \/ ClientFails(c)
  \/ \E n \in 1..BufferSize : ClientRead(c, n)

Next == \E c \in Client :
  \/ Person(c) \/ Program(c) \/ ClientBreaks(c)
  \/ Accept(c) \/ Server(c) \/ SessionFails(c)

(* Clients that have a line and the server's handlers run; a connection that *)
(* waits is accepted.  Nobody need ever type.                                *)
Fairness == \A c \in Client :
  /\ WF_vars(client[c] # "start" /\ Program(c))
  /\ WF_vars(Accepted(c) /\ accepting' \in BOOLEAN)
  /\ WF_vars(Server(c))

Spec == Init /\ [][Next]_vars /\ Fairness

-----------------------------------------------------------------------------
TypeOK ==
  /\ accepting \in BOOLEAN
  /\ client \in [Client -> {"start", "asking", "spinning", "writing", "reading",
                            "done", "failed"}]
  /\ session \in [Client -> {"none", "pending", "reading", "writing", "closed"}]
  /\ sent \in [Client -> Nat] /\ request_length \in [Client -> Nat]
  /\ {shown, buffer, up, down} \subseteq [Client -> Seq(Nat)]

Numbers(n) == [k \in 1..n |-> k]

(* While its session lives, each byte a client has written is in one place,  *)
(* and they are in order: shown, on its way back, in the session's one       *)
(* buffer or on its way there.  What a client shows is never anything else   *)
(* than what it wrote.                                                       *)
EchoIsExact ==
  \A c \in Client :
    /\ shown[c] = Numbers(Len(shown[c]))
    /\ session[c] # "closed"
         => shown[c] \o down[c] \o buffer[c] \o up[c] = Numbers(sent[c])

(* Each waits for the other to read, and neither ever will (echo_client.cc   *)
(* writes at 130 and reads from 141, the session reads when it has written). *)
Stuck(c) ==
  /\ client[c] = "writing" /\ Len(up[c]) = UpWindow
  /\ session[c] = "writing" /\ Len(down[c]) = DownWindow

(* It takes both directions full and a byte in the session: a request that   *)
(* is no longer never stops the two, however it is cut.                      *)
OnlyLongLinesStick ==
  \A c \in Client : Stuck(c) => request_length[c] > UpWindow + 1 + DownWindow

(* A client that has its line, or is gone, ends with its session unless the  *)
(* two are stuck; and no client waits for the acceptor for ever, whatever    *)
(* the others do, though one that has no line holds its session for ever.    *)
Idle(c) == client[c] \in {"asking", "spinning"}
Ended(c) == client[c] \in {"done", "failed"} /\ session[c] = "closed"
BothEnd ==
  \A c \in Client :
    /\ session[c] # "none" /\ ~Idle(c) ~> Ended(c) \/ Stuck(c)
    /\ session[c] = "pending" ~> session[c] # "pending"
=============================================================================
