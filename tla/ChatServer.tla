----------------------------- MODULE ChatServer -----------------------------
(***************************************************************************)
(* The chat server: chat_server accepts connections, every connection gets *)
(* a chat_session, and all sessions meet in one chat_room.                 *)
(*                                                                         *)
(* One thread runs the io_context, so every completion handler runs alone  *)
(* and to its end: an action is a handler with everything it calls.  What  *)
(* interleaves is the order in which the operations on the sockets         *)
(* complete, and with which outcome.  After it has been started, an        *)
(* asynchronous operation is a token: reading[s] for the async_read of a   *)
(* session, inflight[s] for the buffers handed to async_write and not yet  *)
(* completed, accepting for the async_accept.                              *)
(*                                                                         *)
(* Variables bear the names of the members they model, without the         *)
(* trailing underscore.  log, base and sent are history: no action tests   *)
(* them, but for the bound MaxLog on the length of a behaviour.            *)
(***************************************************************************)
EXTENDS Naturals, Sequences

CONSTANTS
  Session,    (* the connections that can ever be made               *)
  Body,       (* the possible message bodies                         *)
  MaxRecent,  (* max_recent_msgs: 100 in the code                    *)
  MaxLog      (* bound: how many messages are posted in a behaviour  *)

ASSUME MaxRecentAssumption == MaxRecent \in Nat
ASSUME MaxLogAssumption == MaxLog \in Nat

VARIABLES
  accepting,    (* an async_accept is outstanding                          *)
  backlog,      (* connections made by clients, not yet accepted           *)
  sessions,     (* connections for which a chat_session was made           *)
  participants, (* chat_room::participants_                                *)
  recent_msgs,  (* chat_room::recent_msgs_                                 *)
  reading,      (* reading[s]: the outstanding async_read of s, or "none"  *)
  write_msgs,   (* write_msgs[s]: chat_session::write_msgs_                *)
  inflight,     (* inflight[s]: buffers of the outstanding async_writes    *)
  log,          (* history: every message given to chat_room::deliver      *)
  base,         (* history: length of the log before s's first message     *)
  sent          (* history: sent[s], the messages written out to s         *)

room == <<participants, recent_msgs>>
history == <<log, base, sent>>
vars == <<accepting, backlog, sessions, room, reading, write_msgs, inflight,
          history>>

Read == {"none", "header", "body"}

TypeOK ==
  /\ accepting \in BOOLEAN
  /\ backlog \subseteq Session
  /\ sessions \subseteq Session
  /\ participants \subseteq sessions
  /\ recent_msgs \in Seq(Body)
  /\ reading \in [Session -> Read]
  /\ write_msgs \in [Session -> Seq(Body)]
  /\ inflight \in [Session -> Seq(Body)]
  /\ log \in Seq(Body)
  /\ base \in [Session -> Nat]
  /\ sent \in [Session -> Seq(Body)]

Init ==
  /\ accepting = TRUE
  /\ backlog = {}
  /\ sessions = {}
  /\ participants = {}
  /\ recent_msgs = <<>>
  /\ reading = [s \in Session |-> "none"]
  /\ write_msgs = [s \in Session |-> <<>>]
  /\ inflight = [s \in Session |-> <<>>]
  /\ log = <<>>
  /\ base = [s \in Session |-> 0]
  /\ sent = [s \in Session |-> <<>>]

-----------------------------------------------------------------------------
(* Mutants: pushing at the front, and writing while a write is in progress. *)
QueuedInFront(q, msgs) == msgs \o q
WritingAtOnce(q, f, msgs) == IF msgs # <<>> THEN Append(f, Head(msgs)) ELSE f

(* chat_session::deliver, called once for each of msgs in turn on a session  *)
(* whose queue is q and whose outstanding writes are f: the messages are     *)
(* queued, and do_write is called if no write was in progress.               *)
Queued(q, msgs) == q \o msgs
Writing(q, f, msgs) ==
  IF q = <<>> /\ msgs # <<>> THEN Append(f, Head(msgs)) ELSE f

(* Mutant: an off-by-one in the limit. *)
RecentOneShort(b) ==
  IF Len(recent_msgs) + 1 >= MaxRecent /\ recent_msgs # <<>>
  THEN Append(Tail(recent_msgs), b) ELSE Append(recent_msgs, b)

(* recent_msgs_ after chat_room::deliver: at most MaxRecent, oldest dropped. *)
Recent(b) ==
  LET all == Append(recent_msgs, b)
      excess == IF Len(all) > MaxRecent THEN Len(all) - MaxRecent ELSE 0
  IN  SubSeq(all, excess + 1, Len(all))

(* chat_room::join: a participant that has the recent messages delivered. *)
Join(s) ==
  /\ participants' = participants \cup {s}
  /\ write_msgs' = [write_msgs EXCEPT ![s] = Queued(@, recent_msgs)]
  /\ inflight' = [inflight EXCEPT
                    ![s] = Writing(write_msgs[s], @, recent_msgs)]

(* chat_room::deliver: the recent messages, and every participant. *)
Deliver(b) ==
  /\ recent_msgs' = Recent(b)
  /\ write_msgs' = [p \in Session |->
       IF p \in participants THEN Queued(write_msgs[p], <<b>>)
       ELSE write_msgs[p]]
  /\ inflight' = [p \in Session |->
       IF p \in participants THEN Writing(write_msgs[p], inflight[p], <<b>>)
       ELSE inflight[p]]

(* Mutant: leaving is forgotten. *)
LeaveNot(s) == participants' = participants

(* chat_room::leave *)
Leave(s) == participants' = participants \ {s}

-----------------------------------------------------------------------------
(* A client connects: the connection waits in the backlog of the acceptor. *)
Connect(s) ==
  /\ s \in Session \ (backlog \cup sessions)
  /\ backlog' = backlog \cup {s}
  /\ UNCHANGED <<accepting, sessions, room, reading, write_msgs, inflight,
                 history>>

(* The accept handler: make the session and start it, which joins the room,  *)
(* has the recent messages delivered to it and starts to read; then accept   *)
(* again.                                                                    *)
Accept(s) ==
  /\ accepting
  /\ s \in backlog
  /\ backlog' = backlog \ {s}
  /\ sessions' = sessions \cup {s}
  /\ Join(s)
  /\ reading' = [reading EXCEPT ![s] = "header"]
  /\ accepting' = TRUE
  /\ base' = [base EXCEPT ![s] = Len(log) - Len(recent_msgs)]
  /\ UNCHANGED <<recent_msgs, log, sent>>

(* Mutant: a failed accept is the last. *)
AcceptErrorStops ==
  /\ accepting
  /\ accepting' = FALSE
  /\ UNCHANGED <<backlog, sessions, room, reading, write_msgs, inflight,
                 history>>

(* The accept handler with an error: the connection stays in the backlog,  *)
(* and the server accepts again.                                           *)
AcceptError ==
  /\ accepting
  /\ accepting' = TRUE
  /\ UNCHANGED <<backlog, sessions, room, reading, write_msgs, inflight,
                 history>>

(* A header has been read and decode_header accepts it: read the body. *)
ReadHeader(s) ==
  /\ reading[s] = "header"
  /\ reading' = [reading EXCEPT ![s] = "body"]
  /\ UNCHANGED <<accepting, backlog, sessions, room, write_msgs, inflight,
                 history>>

(* The body has been read: deliver the message to the room, read on.  *)
(* Nothing asks whether s is still a participant.                     *)
ReadBody(s, b) ==
  /\ reading[s] = "body"
  /\ Len(log) < MaxLog
  /\ Deliver(b)
  /\ reading' = [reading EXCEPT ![s] = "header"]
  /\ log' = Append(log, b)
  /\ UNCHANGED <<accepting, backlog, sessions, participants, base, sent>>

(* The async_read of a header or a body fails, or decode_header rejects the  *)
(* header: leave the room and do not read again.                             *)
ReadError(s) ==
  /\ reading[s] # "none"
  /\ Leave(s)
  /\ reading' = [reading EXCEPT ![s] = "none"]
  /\ UNCHANGED <<accepting, backlog, sessions, recent_msgs, write_msgs,
                 inflight, history>>

(* Mutant: the rest of the queue is not written. *)
WriteDoneStops(s) ==
  /\ inflight[s] # <<>>
  /\ sent' = [sent EXCEPT ![s] = Append(@, Head(inflight[s]))]
  /\ write_msgs' = [write_msgs EXCEPT ![s] = Tail(@)]
  /\ inflight' = [inflight EXCEPT ![s] = Tail(@)]
  /\ UNCHANGED <<accepting, backlog, sessions, room, reading, log, base>>

(* An async_write has written its whole buffer: drop the front of the queue, *)
(* and write the next message if there is one.                               *)
WriteDone(s) ==
  /\ inflight[s] # <<>>
  /\ sent' = [sent EXCEPT ![s] = Append(@, Head(inflight[s]))]
  /\ LET rest == Tail(write_msgs[s])
         others == Tail(inflight[s])
     IN  /\ write_msgs' = [write_msgs EXCEPT ![s] = rest]
         /\ inflight' = [inflight EXCEPT
              ![s] = IF rest # <<>> THEN Append(others, Head(rest))
                     ELSE others]
  /\ UNCHANGED <<accepting, backlog, sessions, room, reading, log, base>>

(* Mutant: the session stays in the room. *)
WriteErrorStays(s) ==
  /\ inflight[s] # <<>>
  /\ inflight' = [inflight EXCEPT ![s] = Tail(@)]
  /\ UNCHANGED <<accepting, backlog, sessions, room, reading, write_msgs,
                 history>>

(* An async_write fails: leave the room.  The queue keeps what it has, and  *)
(* an outstanding read stays outstanding.                                   *)
WriteError(s) ==
  /\ inflight[s] # <<>>
  /\ Leave(s)
  /\ inflight' = [inflight EXCEPT ![s] = Tail(@)]
  /\ UNCHANGED <<accepting, backlog, sessions, recent_msgs, reading,
                 write_msgs, history>>

Next ==
  \/ AcceptError
  \/ \E s \in Session :
       \/ Connect(s) \/ Accept(s)
       \/ ReadHeader(s) \/ ReadError(s)
       \/ \E b \in Body : ReadBody(s, b)
       \/ WriteDone(s) \/ WriteError(s)

(* The io_context never stops running handlers, accept does not fail for    *)
(* ever, and an outstanding write ends one way or the other: the peer reads *)
(* or its connection fails.  Nothing makes a client connect, send or close. *)
Fairness ==
  \A s \in Session :
    /\ WF_vars(Accept(s))
    /\ WF_vars(WriteDone(s) \/ WriteError(s))

SafetySpec == Init /\ [][Next]_vars
Spec == SafetySpec /\ Fairness

-----------------------------------------------------------------------------
(* A write of s failed: its queue is not empty and nothing writes it. *)
Broken(s) == write_msgs[s] # <<>> /\ inflight[s] = <<>>

(* How far into the log s has been queued messages. *)
Promised(s) == base[s] + Len(sent[s]) + Len(write_msgs[s])

(* At most one async_write is outstanding on a socket, as async_write        *)
(* requires, and the buffer it writes from is the front of the queue, which  *)
(* nobody has popped: a buffer in use is never freed.                        *)
OneWriteFromFront ==
  \A s \in Session :
    inflight[s] # <<>> =>
      /\ write_msgs[s] # <<>>
      /\ inflight[s] = <<Head(write_msgs[s])>>

(* Who is in the room is being served: a read of it is outstanding, so that  *)
(* its disconnection will be noticed, and if it has messages queued a write  *)
(* of it is outstanding, so that they will go out.                           *)
ParticipantsServed ==
  \A s \in participants :
    /\ reading[s] # "none"
    /\ write_msgs[s] # <<>> => inflight[s] # <<>>

(* recent_msgs_ is the end of the log, as long as its limit lets it be. *)
RecentIsEndOfLog ==
  /\ Len(recent_msgs) = IF Len(log) > MaxRecent THEN MaxRecent ELSE Len(log)
  /\ \A i \in 1..Len(recent_msgs) :
       recent_msgs[i] = log[Len(log) - Len(recent_msgs) + i]

(* Every session is sent one unbroken piece of the log in log order: what    *)
(* was written out, then what is queued, with no message missing, repeated   *)
(* or out of place between them, and for a participant up to the very last.  *)
PieceOfLog ==
  \A s \in sessions :
    /\ Promised(s) <= Len(log)
    /\ \A i \in 1..Len(sent[s]) : sent[s][i] = log[base[s] + i]
    /\ \A i \in 1..Len(write_msgs[s]) :
         write_msgs[s][i] = log[base[s] + Len(sent[s]) + i]
    /\ s \in participants => Promised(s) = Len(log)

(* A session whose write failed is never written to again, and never comes  *)
(* back into the room.                                                      *)
BrokenForGood ==
  [][\A s \in Session : s \in sessions /\ Broken(s) =>
       /\ Broken(s)'
       /\ sent'[s] = sent[s]
       /\ s \notin participants']_vars

(* Every client that connects gets its session, whatever other clients do   *)
(* and however accepting fails in between.                                  *)
Served == \A s \in Session : s \in backlog ~> s \in sessions

(* The server implements the broadcast it promises. *)
Broadcast == INSTANCE ChatBroadcast WITH
  joined <- sessions,
  members <- participants,
  broken <- {s \in sessions : Broken(s)},
  promised <- [s \in Session |-> Promised(s)],
  seen <- sent

ImplementsBroadcast == Broadcast!Spec
=============================================================================
