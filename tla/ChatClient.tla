----------------------------- MODULE ChatClient -----------------------------
(***************************************************************************)
(* The chat client: two threads and one io_context.                        *)
(*                                                                         *)
(* The main thread reads lines and posts a handler for each; at the end of *)
(* the input it posts a handler that closes the socket and joins the other *)
(* thread.  That thread is in io_context::run(): it takes handlers from a  *)
(* queue, first in first out, and returns for ever from the moment there   *)
(* is neither a handler nor an outstanding operation.                      *)
(*                                                                         *)
(* An operation on the socket completes before its handler runs, and what  *)
(* was already in the queue runs in between.  So an operation is two       *)
(* things here: outstanding (the socket is "connecting", reading, writing) *)
(* until an action of the network puts its handler, with the outcome, at   *)
(* the end of the queue ready.                                             *)
(***************************************************************************)
EXTENDS Naturals, Sequences, FiniteSets

CONSTANTS
  Line,       (* the lines a user types                            *)
  Endpoints,  (* how many endpoints the host name resolves to      *)
  MaxTyped,   (* bound: how many lines are typed                   *)
  MaxRead     (* bound: how many messages arrive from the server   *)

ASSUME EndpointsAssumption == Endpoints \in Nat \ {0}
ASSUME BoundsAssumption == MaxTyped \in Nat /\ MaxRead \in Nat

VARIABLES
  main,       (* the main thread: reading lines, joining, or done            *)
  ready,      (* handlers that can run, in the order they will               *)
  stopped,    (* run() has returned                                          *)
  socket,     (* socket_                                                     *)
  endpoint,   (* the endpoint async_connect has got to                       *)
  reading,    (* the outstanding async_read: "header", "body" or "none"      *)
  writing,    (* the message of each outstanding async_write                 *)
  write_msgs, (* chat_client::write_msgs_                                    *)
  typed,      (* history: the lines typed                                    *)
  wire,       (* history: the messages wholly written to the connection      *)
  printed     (* history: how many messages were printed                     *)

user == <<main, typed>>
vars == <<user, ready, stopped, socket, endpoint, reading, writing,
          write_msgs, wire, printed>>

(* A socket that could not connect stays open, and "refused": what is       *)
(* written to it fails.                                                     *)
Socket == {"connecting", "connected", "refused", "closed"}

(* The handlers: of post in write() and close(), and of the operations. *)
Handler ==
  [do : {"write"}, line : Line]
    \cup [do : {"close"}]
    \cup [do : {"connect", "written"}, ok : BOOLEAN]
    \cup [do : {"read"}, what : {"header", "body"}, ok : BOOLEAN]

TypeOK ==
  /\ main \in {"reading", "joining", "done"}
  /\ ready \in Seq(Handler)
  /\ stopped \in BOOLEAN
  /\ socket \in Socket
  /\ endpoint \in 1..Endpoints
  /\ reading \in {"none", "header", "body"}
  /\ writing \in Seq(Line)
  /\ write_msgs \in Seq(Line)
  /\ typed \in Seq(Line)
  /\ wire \in Seq(Line)
  /\ printed \in Nat

(* The constructor has called async_connect. *)
Init ==
  /\ main = "reading"
  /\ ready = <<>>
  /\ stopped = FALSE
  /\ socket = "connecting"
  /\ endpoint = 1
  /\ reading = "none"
  /\ writing = <<>>
  /\ write_msgs = <<>>
  /\ typed = <<>>
  /\ wire = <<>>
  /\ printed = 0

-----------------------------------------------------------------------------
(* The main thread.  What it posts once run() has returned never runs. *)

TypeLine(l) ==
  /\ main = "reading"
  /\ Len(typed) < MaxTyped
  /\ typed' = Append(typed, l)
  /\ ready' = Append(ready, [do |-> "write", line |-> l])
  /\ UNCHANGED <<main, stopped, socket, endpoint, reading, writing,
                 write_msgs, wire, printed>>

(* Mutant: the socket is not closed when the input ends. *)
EndInputOnly ==
  /\ main = "reading"
  /\ main' = "joining"
  /\ UNCHANGED <<typed, ready, stopped, socket, endpoint, reading, writing,
                 write_msgs, wire, printed>>

(* The input ends, or getline fails because a line is too long. *)
EndInput ==
  /\ main = "reading"
  /\ main' = "joining"
  /\ ready' = Append(ready, [do |-> "close"])
  /\ UNCHANGED <<typed, stopped, socket, endpoint, reading, writing,
                 write_msgs, wire, printed>>

Join ==
  /\ main = "joining"
  /\ stopped
  /\ main' = "done"
  /\ UNCHANGED <<typed, ready, stopped, socket, endpoint, reading, writing,
                 write_msgs, wire, printed>>

-----------------------------------------------------------------------------
(* The network: an outstanding operation completes. *)

(* A write that was started meanwhile fails with the attempt to connect. *)
ConnectCompletes(ok) ==
  /\ socket = "connecting"
  /\ socket' = IF ok THEN "connected" ELSE "refused"
  /\ LET done == Append(ready, [do |-> "connect", ok |-> ok])
     IN  IF ok \/ writing = <<>>
         THEN ready' = done /\ writing' = writing
         ELSE /\ ready' = Append(done, [do |-> "written", ok |-> FALSE])
              /\ writing' = <<>>
  /\ UNCHANGED <<user, stopped, endpoint, reading, write_msgs, wire, printed>>

ReadCompletes(ok) ==
  /\ reading # "none"
  /\ ok => printed < MaxRead
  /\ ready' = Append(ready, [do |-> "read", what |-> reading, ok |-> ok])
  /\ reading' = "none"
  /\ UNCHANGED <<user, stopped, socket, endpoint, writing, write_msgs, wire,
                 printed>>

WriteCompletes(ok) ==
  /\ writing # <<>>
  /\ socket = "connected" \/ (socket = "refused" /\ ~ok)
  /\ ready' = Append(ready, [do |-> "written", ok |-> ok])
  /\ wire' = IF ok THEN Append(wire, Head(writing)) ELSE wire
  /\ writing' = Tail(writing)
  /\ UNCHANGED <<user, stopped, socket, endpoint, reading, write_msgs,
                 printed>>

-----------------------------------------------------------------------------
(* What handlers do, given the handlers left to run after this one. *)

(* async_read and async_write; on a closed socket they fail at once. *)
StartRead(what, rest) ==
  IF socket = "closed"
  THEN /\ ready' = Append(rest, [do |-> "read", what |-> what, ok |-> FALSE])
       /\ reading' = reading
  ELSE ready' = rest /\ reading' = what

StartWrite(l, rest) ==
  IF socket = "closed"
  THEN /\ ready' = Append(rest, [do |-> "written", ok |-> FALSE])
       /\ writing' = writing
  ELSE ready' = rest /\ writing' = Append(writing, l)

(* The handlers of the operations that closing the socket aborts. *)
Aborted ==
  (IF reading # "none"
   THEN <<[do |-> "read", what |-> reading, ok |-> FALSE]>> ELSE <<>>)
  \o (IF socket = "connecting"
      THEN <<[do |-> "connect", ok |-> FALSE]>> ELSE <<>>)
  \o [i \in 1..Len(writing) |-> [do |-> "written", ok |-> FALSE]]

(* socket_.close() *)
Close(rest) ==
  /\ socket' = "closed"
  /\ ready' = rest \o Aborted
  /\ reading' = "none"
  /\ writing' = <<>>

-----------------------------------------------------------------------------
(* The io thread: run the first handler. *)

IsNext(do) == ready # <<>> /\ ~stopped /\ Head(ready).do = do

(* Mutants: a line is written while another is, or jumps the queue. *)
NeverBusy == FALSE
PushedFront(l) == <<l>> \o write_msgs

(* write_in_progress, and the queue with a line pushed to it. *)
Busy == write_msgs # <<>>
Pushed(l) == Append(write_msgs, l)

(* The handler write() posts. *)
HandleWrite ==
  /\ IsNext("write")
  /\ LET l == Head(ready).line
     IN  /\ write_msgs' = Pushed(l)
         /\ IF Busy THEN ready' = Tail(ready) /\ UNCHANGED writing
            ELSE StartWrite(Head(Pushed(l)), Tail(ready))
  /\ UNCHANGED <<user, stopped, socket, endpoint, reading, wire, printed>>

(* The handler close() posts. *)
HandleClose ==
  /\ IsNext("close")
  /\ Close(Tail(ready))
  /\ UNCHANGED <<user, stopped, endpoint, write_msgs, wire, printed>>

(* Mutant: going on after a close. *)
AlwaysOpen == TRUE

(* async_connect goes on only while the socket is open, and has endpoints. *)
StillOpen == socket # "closed"
Another == endpoint < Endpoints

(* The completion of an attempt to connect.  Unless the socket was closed    *)
(* meanwhile, a success starts to read, and a failure goes on to the next    *)
(* endpoint if there is one, on a socket closed and opened again.            *)
HandleConnect ==
  /\ IsNext("connect")
  /\ LET h == Head(ready)
     IN  \/ /\ StillOpen /\ h.ok
            /\ StartRead("header", Tail(ready))
            /\ UNCHANGED <<socket, endpoint, writing>>
         \/ /\ StillOpen /\ ~h.ok /\ Another
            /\ endpoint' = endpoint + 1
            /\ socket' = "connecting"
            /\ ready' = Tail(ready) \o Aborted
            /\ writing' = <<>>
            /\ UNCHANGED reading
         \/ /\ ~StillOpen \/ (~h.ok /\ ~Another)
            /\ ready' = Tail(ready)
            /\ UNCHANGED <<socket, endpoint, reading, writing>>
  /\ UNCHANGED <<user, stopped, write_msgs, wire, printed>>

(* do_read_header, do_read_body: a header may be one decode_header rejects. *)
HandleRead ==
  /\ IsNext("read")
  /\ LET h == Head(ready)
     IN  \/ /\ h.ok /\ h.what = "header"
            /\ StartRead("body", Tail(ready))
            /\ UNCHANGED <<socket, writing, printed>>
         \/ /\ h.ok /\ h.what = "body"
            /\ printed' = printed + 1
            /\ StartRead("header", Tail(ready))
            /\ UNCHANGED <<socket, writing>>
         \/ /\ ~h.ok \/ h.what = "header"
            /\ Close(Tail(ready))
            /\ UNCHANGED printed
  /\ UNCHANGED <<user, stopped, endpoint, write_msgs, wire>>

(* Mutants: giving up the rest of the queue, and ignoring an error. *)
NoneLeft == FALSE
GoOn(rest) == ready' = rest /\ UNCHANGED <<socket, reading, writing>>

(* The queue is not empty once its front is popped; and what do_write does   *)
(* about an error.                                                           *)
SomeLeft == Len(write_msgs) > 1
GiveUp(rest) == Close(rest)

(* do_write: on with the queue, or close the socket after an error. *)
HandleWritten ==
  /\ IsNext("written")
  /\ \/ /\ Head(ready).ok
        /\ write_msgs' = Tail(write_msgs)
        /\ IF SomeLeft THEN StartWrite(write_msgs[2], Tail(ready))
           ELSE ready' = Tail(ready) /\ UNCHANGED writing
        /\ UNCHANGED <<socket, reading>>
     \/ /\ ~Head(ready).ok
        /\ GiveUp(Tail(ready))
        /\ UNCHANGED write_msgs
  /\ UNCHANGED <<user, stopped, endpoint, wire, printed>>

(* Nothing to run and nothing to wait for: run() returns. *)
Return ==
  /\ ~stopped
  /\ ready = <<>>
  /\ socket # "connecting" /\ reading = "none" /\ writing = <<>>
  /\ stopped' = TRUE
  /\ UNCHANGED <<user, ready, socket, endpoint, reading, writing, write_msgs,
                 wire, printed>>

RunOne ==
  \/ HandleWrite \/ HandleClose \/ HandleConnect \/ HandleRead
  \/ HandleWritten \/ Return

Next ==
  \/ (\E l \in Line : TypeLine(l)) \/ EndInput \/ Join
  \/ \E ok \in BOOLEAN :
       ConnectCompletes(ok) \/ ReadCompletes(ok) \/ WriteCompletes(ok)
  \/ RunOne

(* Both threads run; an attempt to connect and a write end one way or the *)
(* other.  Neither a line nor a message from the server need ever come.   *)
Fairness ==
  /\ WF_vars(Join)
  /\ WF_vars(RunOne)
  /\ WF_vars(\E ok \in BOOLEAN : ConnectCompletes(ok))
  /\ WF_vars(\E ok \in BOOLEAN : WriteCompletes(ok))

SafetySpec == Init /\ [][Next]_vars
Spec == SafetySpec /\ Fairness

-----------------------------------------------------------------------------
Handlers(do) == {i \in 1..Len(ready) : ready[i].do = do}

Writes(handlers) == {i \in 1..Len(handlers) : handlers[i].do = "write"}

(* The handlers of write() among these carry these lines, in this order. *)
Carry(handlers, lines) ==
  \E place \in [Writes(handlers) -> 1..Len(lines)] :
    /\ \A i \in Writes(handlers) : handlers[i].line = lines[place[i]]
    /\ \A i, j \in Writes(handlers) : i < j => place[i] < place[j]
    /\ \A n \in 1..Len(lines) : \E i \in Writes(handlers) : place[i] = n

(* No line is lost, doubled or overtaken on its way from the keyboard to the *)
(* connection: what was typed is what was written, then the queue, then what *)
(* the handlers that write() posted carry - whatever failed, and before and  *)
(* after run().                                                              *)
EveryLineInItsPlace ==
  LET popped == \E i \in Handlers("written") : ready[i].ok
      queue == IF popped THEN Tail(write_msgs) ELSE write_msgs
      posted == SubSeq(typed, Len(wire) + Len(queue) + 1, Len(typed))
  IN  typed = wire \o queue \o posted /\ Carry(ready, posted)

(* One async_write at a time, of the front of the queue, and one chain of    *)
(* connect and read: write_msgs_.front() and read_msg_ are in use by one     *)
(* operation each.                                                           *)
OneOfEach ==
  /\ Len(writing) + Cardinality(Handlers("written")) <= 1
  /\ writing # <<>> => write_msgs # <<>> /\ Head(writing) = Head(write_msgs)
  /\ Cardinality(Handlers("read")) + Cardinality(Handlers("connect"))
       + (IF reading # "none" THEN 1 ELSE 0)
       + (IF socket = "connecting" THEN 1 ELSE 0) <= 1

(* Once closed, by either thread's wish or by an error, the socket is never  *)
(* opened again and nothing more is written, though attempts to connect and  *)
(* lines may still be on their way.                                          *)
ClosedForGood ==
  [][socket = "closed" => socket' = "closed" /\ wire' = wire]_vars

(* At the end of the input the program ends: nothing that is outstanding on  *)
(* the socket keeps run(), and with it join(), from returning.               *)
JoinReturns == main = "joining" ~> main = "done"

(* A line that is typed goes out, unless the socket is closed or run() has   *)
(* returned because no endpoint could be reached.                            *)
LinesGoOut ==
  \A n \in 1..MaxTyped :
    Len(typed) >= n ~> Len(wire) >= n \/ socket = "closed" \/ stopped
=============================================================================
