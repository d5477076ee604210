----------------------------- MODULE HttpServer -----------------------------
(***************************************************************************)
(* The http server: main waits for a pool of threads that all run one      *)
(* io_context, with the acceptor, the signals and every connection on it.  *)
(*                                                                         *)
(* There is no strand and no lock.  Each of the three is a chain: one      *)
(* operation, then its handler, which starts the next.  An operation that  *)
(* completes puts its handler at the end of the queue ready; a thread that *)
(* is free takes the first, so handlers run on several threads at a time.  *)
(* A handler starts the next operation before it returns: the handler of   *)
(* that one can run, and end, on another thread while the first still has  *)
(* to return.                                                              *)
(* What a connection reads is HttpConnection's; here it is more, or enough *)
(* to answer.                                                              *)
(***************************************************************************)
EXTENDS Naturals, Sequences, FiniteSets

CONSTANTS
  Thread,  (* the threads of the pool *)
  Peer     (* the clients' connections *)

ASSUME ThreadAssumption == Thread # {} /\ IsFiniteSet(Thread)
ASSUME PeerAssumption == Peer \cap {"acceptor", "signals", "nobody"} = {}

VARIABLES
  main,        (* run(): "spawning", "joining" or "done"                    *)
  thread,      (* "unborn", "free", "busy" or "gone"                        *)
  running,     (* the handler that each thread runs                         *)
  todo,        (* what that handler still does before it returns            *)
  ready,       (* handlers that can run                                     *)
  outstanding, (* operations under way                                      *)
  connection,  (* where each connection is                                  *)
  stopped,     (* ioc_ was stopped                                          *)
  failures     (* history: an accept failed                                 *)

pool == <<main, thread, running, todo>>
vars == <<pool, ready, outstanding, connection, stopped, failures>>

(* An operation and who started it; a handler has the outcome with it. *)
Operation(do, of) == [do |-> do, of |-> of]
Outcome(o, ok) == [do |-> o.do, of |-> o.of, ok |-> ok]
Nothing == Outcome(Operation("nothing", "nobody"), TRUE)

Wait == Operation("wait", "signals")
Accept == Operation("accept", "acceptor")

Operations ==
  {Wait, Accept} \cup {Operation(do, c) : do \in {"read", "write"}, c \in Peer}
Outcomes == {Outcome(o, ok) : o \in Operations, ok \in BOOLEAN}

TypeOK ==
  /\ main \in {"spawning", "joining", "done"}
  /\ thread \in [Thread -> {"unborn", "free", "busy", "gone"}]
  /\ running \in [Thread -> Outcomes \cup {Nothing}]
  /\ todo \in [Thread -> {<<>>, <<"use">>, <<"start">>, <<"use", "start">>}]
  /\ ready \in Seq(Outcomes)
  /\ outstanding \subseteq Operations
  /\ connection \in [Peer -> {"none", "backlog", "accepted", "open", "closed"}]
  /\ stopped \in BOOLEAN /\ failures \in BOOLEAN

(* After the constructor: do_await_stop, and do_accept. *)
Init ==
  /\ main = "spawning"
  /\ thread = [t \in Thread |-> "unborn"]
  /\ running = [t \in Thread |-> Nothing]
  /\ todo = [t \in Thread |-> <<>>]
  /\ ready = <<>>
  /\ outstanding = {Wait, Accept}
  /\ connection = [c \in Peer |-> "none"]
  /\ stopped = FALSE /\ failures = FALSE

-----------------------------------------------------------------------------
(* The network and the user. *)
Connect(c) ==
  /\ connection[c] = "none"
  /\ connection' = [connection EXCEPT ![c] = "backlog"]
  /\ UNCHANGED <<pool, ready, outstanding, stopped, failures>>

Complete(o, ok) ==
  /\ o \in outstanding /\ ~stopped
  /\ outstanding' = outstanding \ {o}
  /\ ready' = Append(ready, Outcome(o, ok))
  /\ UNCHANGED <<pool, stopped>>

SignalComes == Complete(Wait, TRUE) /\ UNCHANGED <<connection, failures>>

Accepts(c) ==
  /\ connection[c] = "backlog"
  /\ Complete(Accept, TRUE)
  /\ connection' = [connection EXCEPT ![c] = "accepted"]
  /\ UNCHANGED failures

AcceptFails ==
  /\ Complete(Accept, FALSE)
  /\ failures' = TRUE
  /\ UNCHANGED connection

(* A read, or a whole write, of a connection ends. *)
Transferred(c) ==
  /\ \E do \in {"read", "write"}, ok \in BOOLEAN : Complete(Operation(do, c), ok)
  /\ UNCHANGED <<connection, failures>>

-----------------------------------------------------------------------------
(* The handlers.  One first uses what it is called for: the buffer, the      *)
(* request and the reply of its connection, the new socket, ioc_; then       *)
(* starts the next operation.  After that it only returns.                   *)

(* Mutant: the read is started again before what was read is parsed. *)
StartFirst(h) ==
  IF ~h.ok THEN <<>>
  ELSE IF h.do = "read" THEN <<"start", "use">>
  ELSE IF h.do = "accept" THEN <<"use", "start">> ELSE <<"use">>

Does(h) ==
  IF ~h.ok THEN <<>>
  ELSE IF h.do \in {"read", "accept"} THEN <<"use", "start">> ELSE <<"use">>

(* make_shared<connection>, and its start(). *)
MakeConnection ==
  \E c \in Peer :
    /\ connection[c] = "accepted"
    /\ connection' = [connection EXCEPT ![c] = "open"]
    /\ outstanding' = outstanding \cup {Operation("read", c)}

(* Mutant: the handler closes the acceptor and leaves the rest to end. *)
CloseAcceptor == outstanding' = outstanding \ {Accept} /\ UNCHANGED stopped

(* ioc_.stop(). *)
Stop == stopped' = TRUE /\ UNCHANGED outstanding

(* Mutant: the acceptor accepts once. *)
NotAgain == {}
(* do_accept, in the handler of an accept that did not fail. *)
Again == {Accept}

(* A request that is good or bad is answered; for any other read on. *)
Answer(c, answers) ==
  {Operation(IF answers THEN "write" ELSE "read", c)}

-----------------------------------------------------------------------------
(* The pool. *)

(* main makes its threads, then waits for them. *)
Spawn(t) ==
  /\ main = "spawning" /\ thread[t] = "unborn"
  /\ thread' = [thread EXCEPT ![t] = "free"]
  /\ main' = IF \E u \in Thread : thread'[u] = "unborn" THEN "spawning" ELSE "joining"
  /\ UNCHANGED <<running, todo, ready, outstanding, connection, stopped, failures>>

(* ioc_.run(): take the first handler, *)
Take(t) ==
  /\ thread[t] = "free" /\ ~stopped
  /\ ready # <<>>
  /\ thread' = [thread EXCEPT ![t] = "busy"]
  /\ running' = [running EXCEPT ![t] = Head(ready)]
  /\ todo' = [todo EXCEPT ![t] = Does(Head(ready))]
  /\ ready' = Tail(ready)
  /\ UNCHANGED <<main, outstanding, connection, stopped, failures>>

(* run it, *)
Do(t, step) ==
  /\ todo[t] # <<>> /\ Head(todo[t]) = step
  /\ todo' = [todo EXCEPT ![t] = Tail(@)]
  /\ UNCHANGED <<main, thread, running, ready, failures>>

Use(t) ==
  /\ Do(t, "use")
  /\ \/ running[t].do = "wait" /\ Stop /\ UNCHANGED connection
     \/ running[t].do = "accept" /\ MakeConnection /\ UNCHANGED stopped
     \/ (* parse, handle_request; or shutdown *)
        /\ running[t].do \in {"read", "write"}
        /\ UNCHANGED <<outstanding, connection, stopped>>

Start(t) ==
  /\ Do(t, "start")
  /\ \/ running[t].do = "accept" /\ outstanding' = outstanding \cup Again
     \/ /\ running[t].do = "read"
        /\ \E answers \in BOOLEAN :
             outstanding' = outstanding \cup Answer(running[t].of, answers)
  /\ UNCHANGED <<connection, stopped>>

(* and be done with it.  With the last handler goes the last reference to its *)
(* connection, which closes the socket.                                       *)
Held(t, c) ==
  \/ \E o \in outstanding : o.of = c
  \/ \E i \in 1..Len(ready) : ready[i].of = c
  \/ \E u \in Thread \ {t} : running[u].of = c

Leave(t) ==
  /\ thread[t] = "busy" /\ todo[t] = <<>>
  /\ thread' = [thread EXCEPT ![t] = "free"]
  /\ running' = [running EXCEPT ![t] = Nothing]
  /\ connection' = [c \in Peer |-> IF c = running[t].of /\ ~Held(t, c)
                                   THEN "closed" ELSE connection[c]]
  /\ UNCHANGED <<main, todo, ready, outstanding, stopped, failures>>

(* It returns when the context is stopped: its work never ends, for the wait *)
(* for a signal is part of it.                                               *)
Return(t) ==
  /\ thread[t] = "free" /\ stopped
  /\ thread' = [thread EXCEPT ![t] = "gone"]
  /\ UNCHANGED <<main, running, todo, ready, outstanding, connection, stopped, failures>>

Join ==
  /\ main = "joining"
  /\ \A t \in Thread : thread[t] = "gone"
  /\ main' = "done"
  /\ UNCHANGED <<thread, running, todo, ready, outstanding, connection, stopped, failures>>

-----------------------------------------------------------------------------
Next ==
  \/ SignalComes \/ AcceptFails \/ Join
  \/ \E c \in Peer : Connect(c) \/ Accepts(c) \/ Transferred(c)
  \/ \E t \in Thread : Spawn(t) \/ Take(t) \/ Use(t) \/ Start(t) \/ Leave(t) \/ Return(t)

(* Handlers end, and some thread of those that are free takes the next: with *)
(* a concurrency hint of 1 the context does not wake a second one for it.    *)
(* But stop wakes all.                                                       *)
Fairness ==
  /\ WF_vars(Join) /\ WF_vars(\E t \in Thread : Spawn(t))
  /\ WF_vars(\E t \in Thread : Take(t))
  /\ \A t \in Thread : WF_vars(Use(t) \/ Start(t) \/ Leave(t)) /\ WF_vars(Return(t))
  /\ \A c \in Peer : WF_vars(Accepts(c))

Spec == Init /\ [][Next]_vars /\ Fairness

-----------------------------------------------------------------------------
(* Whoever may touch a connection, or the acceptor, is alone: an operation    *)
(* under way, a handler that waits, or one that is still to use it or to start *)
(* the next operation, on any thread.  The operation a handler starts can be   *)
(* complete and handled elsewhere before that handler has returned; so nothing *)
(* of the connection may be used after the start, and do_read, do_write and    *)
(* do_accept need neither a lock nor a strand only because they come last.     *)
OneAtATime ==
  \A x \in Peer \cup {"acceptor"} :
    LET Own(h) == h.of = x
    IN  Cardinality({o \in outstanding : Own(o)})
          + Cardinality({i \in 1..Len(ready) : Own(ready[i])})
          + Cardinality({t \in Thread : Own(running[t]) /\ todo[t] # <<>>}) <= 1

(* A connection that waits is accepted, unless the server is told to stop or *)
(* an accept has failed: after that nobody is accepted any more (do_accept).  *)
Served ==
  \A c \in Peer :
    connection[c] = "backlog"
      ~> connection[c] # "backlog" \/ failures \/ Wait \notin outstanding

(* A signal ends the program, whatever its threads are at and however many   *)
(* connections are open: every thread returns and main has joined them       *)
(* (do_await_stop, run).                                                      *)
SignalEnds == (Wait \notin outstanding) ~> (main = "done")
=============================================================================
