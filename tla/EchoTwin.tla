------------------------------- MODULE EchoTwin -------------------------------
(***************************************************************************)
(* The tracking twin of the echo server (examples/server.cc) with the same *)
(* clients.  Its sessions read and write as those of Echo; what they keep  *)
(* of a write under way comes from a block of memory in the session, when  *)
(* that is free and large enough.  It accepts one connection: when that    *)
(* one's session has ended, run() returns and the program exits.           *)
(***************************************************************************)
EXTENDS Echo

CONSTANTS
  OperationSizes,  (* how large an operation's memory can be *)
  StorageSize      (* sizeof(storage_)                       *)

ASSUME SizesAssumption == OperationSizes \subseteq Nat /\ StorageSize \in Nat

VARIABLES
  memory,  (* per session: in_use_, and where its write's memory came from  *)
           (* and how large it is                                           *)
  exited   (* main has returned                                             *)

twinVars == <<vars, memory, exited>>

Nowhere == [from |-> "nowhere", size |-> 0]

TwinInit ==
  /\ Init
  /\ memory = [c \in Client |-> [in_use |-> FALSE, held |-> Nowhere]]
  /\ exited = FALSE

-----------------------------------------------------------------------------
allocate(m, size) ==
  LET fits == ~m.in_use /\ size < StorageSize
  IN  [in_use |-> m.in_use \/ fits,
       held |-> [from |-> IF fits THEN "storage" ELSE "heap", size |-> size]]

(* Mutant: in_use_ is not reset. *)
KeepsInUse(m) == [m EXCEPT !.held = Nowhere]

deallocate(m) ==
  [in_use |-> m.in_use /\ m.held.from # "storage", held |-> Nowhere]

(* Of the write_somes of an async_write each has an operation of its own;   *)
(* its memory is given back before its handler runs, and so before the      *)
(* handler allocates for the next.                                          *)
Wrote(m, more, size) ==
  IF more THEN allocate(deallocate(m), size) ELSE deallocate(m)

-----------------------------------------------------------------------------
Remember(c, m) == memory' = [memory EXCEPT ![c] = m]

(* The handler of async_accept does not accept again. *)
TwinAccept(c) ==
  /\ Accepted(c)
  /\ accepting' = FALSE
  /\ UNCHANGED <<memory, exited>>

(* do_write allocates; the handler of a read, which has no allocator bound. *)
TwinRead(c, n) ==
  /\ SessionRead(c, n)
  /\ \E size \in OperationSizes : Remember(c, allocate(memory[c], size))
  /\ UNCHANGED exited

TwinWrite(c, n) ==
  /\ SessionWrite(c, n)
  /\ \E size \in OperationSizes :
       Remember(c, Wrote(memory[c], session'[c] = "writing", size))
  /\ UNCHANGED exited

(* An operation fails, and its handler starts no other. *)
TwinClose(c) ==
  /\ Close(c)
  /\ Remember(c, IF session[c] = "writing" THEN deallocate(memory[c])
                 ELSE memory[c])
  /\ UNCHANGED exited

(* Nothing is under way: run() returns, and the connections that nobody     *)
(* accepted are closed with the acceptor.                                   *)
Exit ==
  /\ ~exited /\ ~accepting
  /\ \A c \in Client : session[c] \notin {"reading", "writing"}
  /\ exited' = TRUE
  /\ session' = [c \in Client |-> IF session[c] = "pending" THEN "closed"
                                  ELSE session[c]]
  /\ UNCHANGED <<accepting, line, sent, shown, buffer, up, down, memory>>

-----------------------------------------------------------------------------
Clients(c) ==
  /\ \/ Person(c) /\ (client[c] = "start" => ~exited)
     \/ Program(c) \/ ClientBreaks(c)
  /\ UNCHANGED <<memory, exited>>

TwinSession(c) ==
  \/ TwinAccept(c) \/ TwinClose(c)
  \/ \E n \in 1..BufferSize : TwinRead(c, n) \/ TwinWrite(c, n)

TwinNext == Exit \/ \E c \in Client : Clients(c) \/ TwinSession(c)

(* Fair as the sessions of Echo, whose steps its own are, and it exits. *)
TwinFairness == Fairness /\ WF_twinVars(Exit)

TwinSpec == TwinInit /\ [][TwinNext]_twinVars /\ TwinFairness

-----------------------------------------------------------------------------
Held == [from : {"nowhere", "storage", "heap"}, size : Nat]

TwinTypeOK ==
  /\ TypeOK
  /\ memory \in [Client -> [in_use : BOOLEAN, held : Held]]
  /\ exited \in BOOLEAN

(* The block is in use exactly while a write's memory is in it, which never  *)
(* comes from the heap but for its size, and is given back with the write:   *)
(* a session that has ended leaves nothing (handler_memory, do_write).       *)
MemoryIsReturned ==
  \A c \in Client :
    LET held == memory[c].held
    IN  /\ held # Nowhere => session[c] = "writing"
        /\ memory[c].in_use <=> held.from = "storage"
        /\ held.from = "heap" => held.size >= StorageSize

(* A client with a line, or gone, ends with its session here too, and so do  *)
(* those that nobody accepted, with the program: unless it waits for ever    *)
(* for the one it accepted, which has no line or is stuck.                   *)
TwinBothEnd ==
  \A c \in Client :
    session[c] # "none" /\ ~Idle(c) ~>
      \/ Ended(c)
      \/ \E d \in Client : session[d] # "pending" /\ [](Idle(d) \/ Stuck(d))
=============================================================================
