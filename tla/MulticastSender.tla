--------------------------- MODULE MulticastSender ---------------------------
(***************************************************************************)
(* The multicast sender: sqrt(n) threads that all run one io_context, each *)
(* with a sender of its own on its stack.  The senders number their        *)
(* messages from one shared counter, taken under a lock; whether to go on  *)
(* is decided by looking at the counter without it.                        *)
(*                                                                         *)
(* Any thread in run() runs any sender's handler.  A handler is one action *)
(* here: the lock makes do_send atomic, and the rest touches nothing that  *)
(* another handler uses, but for the counter read without the lock.        *)
(***************************************************************************)
EXTENDS Naturals, FiniteSets

CONSTANTS
  N,          (* n, the second argument of the program *)
  thread_num  (* its square root, rounded down         *)

ASSUME SqrtAssumption ==
  /\ N \in Nat \ {0}
  /\ thread_num \in Nat
  /\ thread_num * thread_num <= N
  /\ N < (thread_num + 1) * (thread_num + 1)

(* The limit that main computes. *)
total_cnt == N - thread_num + 1
Thread == 1..thread_num

VARIABLES
  created,  (* how many threads main has made                               *)
  joined,   (* how many of them main has joined                             *)
  thread,   (* thread[t]: "new", "made", "running" in run(), or "ended"     *)
  op,       (* op[t]: what t's sender waits for: "send", "timer" or "none"  *)
  msg_cnt,  (* sender::msg_cnt_                                             *)
  stopped,  (* the io_context ran out of work, and runs nothing any more    *)
  last,     (* history: last[t], the last number t's sender took, or 0      *)
  failed    (* history: a send or a timer has failed                        *)

vars == <<created, joined, thread, op, msg_cnt, stopped, last, failed>>

TypeOK ==
  /\ created \in 0..thread_num
  /\ joined \in 0..thread_num
  /\ thread \in [Thread -> {"new", "made", "running", "ended"}]
  /\ op \in [Thread -> {"none", "send", "timer"}]
  /\ msg_cnt \in Nat \ {0}
  /\ stopped \in BOOLEAN
  /\ last \in [Thread -> Nat]
  /\ failed \in BOOLEAN

Init ==
  /\ created = 0
  /\ joined = 0
  /\ thread = [t \in Thread |-> "new"]
  /\ op = [t \in Thread |-> "none"]
  /\ msg_cnt = 1
  /\ stopped = FALSE
  /\ last = [t \in Thread |-> 0]
  /\ failed = FALSE

-----------------------------------------------------------------------------
(* do_send, under the lock: take a number and start to send. *)
DoSend(t) ==
  /\ op' = [op EXCEPT ![t] = "send"]
  /\ last' = [last EXCEPT ![t] = msg_cnt]
  /\ msg_cnt' = msg_cnt + 1

(* Mutant: something keeps the context in work. *)
FinishInWork(t) ==
  /\ op' = [op EXCEPT ![t] = "none"]
  /\ stopped' = stopped

(* A sender waits for nothing more: with the last one the context stops. *)
Finish(t) ==
  /\ op' = [op EXCEPT ![t] = "none"]
  /\ stopped' = (\A u \in Thread \ {t} : op[u] = "none")

(* What a look at the counter without the lock can see: not less than what  *)
(* the sender itself left there, not more than what is there now.           *)
Seen(t) == (last[t] + 1)..msg_cnt

(* Mutants: the limit of the original count, and stopping one too soon. *)
GoesOnToN(v) == v <= N
GoesOnShort(v) == v < total_cnt

GoesOn(v) == v <= total_cnt

-----------------------------------------------------------------------------
(* main makes a thread. *)
Create ==
  /\ created < thread_num
  /\ created' = created + 1
  /\ thread' = [thread EXCEPT ![created + 1] = "made"]
  /\ UNCHANGED <<joined, op, msg_cnt, stopped, last, failed>>

(* The thread makes its sender, which sends, and goes into run(). *)
Start(t) ==
  /\ thread[t] = "made"
  /\ thread' = [thread EXCEPT ![t] = "running"]
  /\ DoSend(t)
  /\ UNCHANGED <<created, joined, stopped, failed>>

(* Some thread is there to run a handler. *)
Runs == ~stopped /\ \E u \in Thread : thread[u] = "running"

(* The handler of a send that succeeded: wait, or stop here. *)
Sent(t) ==
  /\ Runs
  /\ op[t] = "send"
  /\ \E v \in Seen(t) :
       \/ /\ GoesOn(v)
          /\ op' = [op EXCEPT ![t] = "timer"]
          /\ UNCHANGED stopped
       \/ /\ ~GoesOn(v)
          /\ Finish(t)
  /\ UNCHANGED <<created, joined, thread, msg_cnt, last, failed>>

(* The handler of the timer. *)
Timeout(t) ==
  /\ Runs
  /\ op[t] = "timer"
  /\ DoSend(t)
  /\ UNCHANGED <<created, joined, thread, stopped, failed>>

(* Either handler with an error: the sender stops. *)
Fail(t) ==
  /\ Runs
  /\ op[t] # "none"
  /\ Finish(t)
  /\ failed' = TRUE
  /\ UNCHANGED <<created, joined, thread, msg_cnt, last>>

(* run() returns, and the thread ends with its sender destroyed.  A thread   *)
(* that comes late finds the context stopped and returns at once: its one    *)
(* message is sent, and its handler never runs.                              *)
Return(t) ==
  /\ thread[t] = "running"
  /\ stopped
  /\ thread' = [thread EXCEPT ![t] = "ended"]
  /\ UNCHANGED <<created, joined, op, msg_cnt, stopped, last, failed>>

(* main joins the threads in the order it made them. *)
Join ==
  /\ created = thread_num
  /\ joined < thread_num
  /\ thread[joined + 1] = "ended"
  /\ joined' = joined + 1
  /\ UNCHANGED <<created, thread, op, msg_cnt, stopped, last, failed>>

Next ==
  \/ Create \/ Join
  \/ \E t \in Thread :
       Start(t) \/ Sent(t) \/ Timeout(t) \/ Fail(t) \/ Return(t)

(* The threads run, sends complete and timers expire. *)
Fairness ==
  /\ WF_vars(Create) /\ WF_vars(Join)
  /\ \A t \in Thread :
       /\ WF_vars(Start(t)) /\ WF_vars(Return(t))
       /\ WF_vars(Sent(t) \/ Timeout(t))

SafetySpec == Init /\ [][Next]_vars
Spec == SafetySpec /\ Fairness

-----------------------------------------------------------------------------
(* However late each thread sees the counter, no more than N messages are    *)
(* sent: total_cnt leaves just enough room for each to overrun it once.      *)
AtMostN == msg_cnt - 1 <= N

(* A sender overruns the limit at most once: having taken a number at or     *)
(* above it, it does not wait to take another.                               *)
OverrunsOnce == \A t \in Thread : last[t] >= total_cnt => op[t] # "timer"

(* The program ends with the messages sent, if no send failed. *)
EnoughSent == joined = thread_num /\ ~failed => msg_cnt - 1 >= total_cnt

(* The program ends. *)
Ends == <>(joined = thread_num)
=============================================================================
