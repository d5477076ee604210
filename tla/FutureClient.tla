---------------------------- MODULE FutureClient ----------------------------
(***************************************************************************)
(* The daytime client with futures.  main starts one operation after the   *)
(* other and waits for the future of each, while a second thread runs the  *)
(* io_context and completes them.  Between two operations there is nothing *)
(* to run: a work guard keeps the second thread from returning.            *)
(***************************************************************************)
EXTENDS Naturals

VARIABLES
  caller,   (* main: what it waits for, or does                            *)
  promise,  (* of the operation main waits for                             *)
  worker,   (* the thread that runs the io_context                         *)
  halted,   (* io_context.stop() was called                                *)
  datagram  (* the request or the reply: "none", "sent", "answer", "lost"  *)

futureVars == <<caller, promise, worker, halted, datagram>>

FutureInit ==
  /\ caller = "resolving" /\ promise = "pending"
  /\ worker = "running" /\ halted = FALSE
  /\ datagram = "none"

-----------------------------------------------------------------------------
(* get_daytime: what comes after what it waits for. *)
After == [resolving |-> "sending", sending |-> "receiving", receiving |-> "stopping"]

Waits == caller \in DOMAIN After

(* get() returns a value, and the next operation is started. *)
GetReturns ==
  /\ Waits /\ promise = "kept"
  /\ caller' = After[caller]
  /\ promise' = IF caller = "receiving" THEN "none" ELSE "pending"
  /\ datagram' = IF caller = "sending" THEN "sent" ELSE datagram
  /\ UNCHANGED <<worker, halted>>

(* get() throws what the operation failed with; or the socket cannot be made *)
(* while the name is still being resolved.                                   *)
GetThrows ==
  /\ Waits
  /\ promise = "broken" \/ caller = "resolving"
  /\ caller' = "stopping"
  /\ UNCHANGED <<promise, worker, halted, datagram>>

Halt ==
  /\ caller = "stopping"
  /\ halted' = TRUE
  /\ caller' = "joining"
  /\ UNCHANGED <<promise, worker, datagram>>

JoinWorker ==
  /\ caller = "joining" /\ worker = "returned"
  /\ caller' = "done"
  /\ UNCHANGED <<promise, worker, halted, datagram>>

-----------------------------------------------------------------------------
(* io_context.run(). *)

(* Mutant: there is no work guard. *)
NoGuard == 0
Guard == 1

Work == Guard + IF promise = "pending" THEN 1 ELSE 0

(* An operation completes; a receive, with what was sent back. *)
Keeps ==
  /\ worker = "running" /\ ~halted /\ promise = "pending"
  /\ caller = "receiving" => datagram = "answer"
  /\ promise' = "kept"
  /\ UNCHANGED <<caller, worker, halted, datagram>>

Breaks ==
  /\ worker = "running" /\ ~halted /\ promise = "pending"
  /\ promise' = "broken"
  /\ UNCHANGED <<caller, worker, halted, datagram>>

WorkerReturns ==
  /\ worker = "running"
  /\ halted \/ Work = 0
  /\ worker' = "returned"
  /\ UNCHANGED <<caller, promise, halted, datagram>>

(* The service answers, or a datagram is lost either way. *)
Service ==
  /\ datagram = "sent"
  /\ datagram' \in {"answer", "lost"}
  /\ UNCHANGED <<caller, promise, worker, halted>>

-----------------------------------------------------------------------------
Main == GetReturns \/ GetThrows \/ Halt \/ JoinWorker

FutureNext == Main \/ Keeps \/ Breaks \/ WorkerReturns \/ Service

FutureFairness ==
  /\ WF_futureVars(Main) /\ WF_futureVars(Keeps)
  /\ WF_futureVars(WorkerReturns) /\ WF_futureVars(Service)

FutureSpec == FutureInit /\ [][FutureNext]_futureVars /\ FutureFairness

-----------------------------------------------------------------------------
(* The program ends, whatever operation fails and however late the other     *)
(* thread is, unless a datagram is lost: then get() waits for ever and       *)
(* io_context.stop is not reached (get_daytime, main).                       *)
DaytimeEnds == <>(caller = "done" \/ datagram = "lost")
=============================================================================
