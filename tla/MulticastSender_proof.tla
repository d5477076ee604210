------------------------ MODULE MulticastSender_proof ------------------------
(***************************************************************************)
(* For every n: the senders together send no more than n messages, however *)
(* late each of them sees the shared counter.                              *)
(*                                                                         *)
(* The argument: a sender whose number is at or above total_cnt has seen a *)
(* counter above it, and does not go on.  So the numbers from total_cnt on *)
(* are taken by senders that are all different, and of those there are     *)
(* thread_num: the last number is at most total_cnt + thread_num - 1 = n.  *)
(***************************************************************************)
EXTENDS MulticastSender, FiniteSetTheorems, TLAPS

Over == {t \in Thread : last[t] >= total_cnt}

(* The counter is ahead of every sender by its own number at least; a sender *)
(* that has not started has no number, and one that waits for its timer is   *)
(* below the limit; above it, the counter counts the senders that are over.  *)
IInv ==
  /\ TypeOK
  /\ \A t \in Thread : last[t] < msg_cnt
  /\ \A t \in Thread : t > created => thread[t] = "new"
  /\ \A t \in Thread : thread[t] \in {"new", "made"} =>
                         last[t] = 0 /\ op[t] = "none"
  /\ OverrunsOnce
  /\ msg_cnt >= total_cnt => msg_cnt = total_cnt + Cardinality(Over)

LEMMA ConstantFacts ==
  /\ thread_num \in Nat /\ N \in Nat /\ thread_num <= N
  /\ total_cnt \in Nat \ {0}
  /\ total_cnt + thread_num = N + 1
<1>1. thread_num \in Nat /\ N \in Nat /\ thread_num * thread_num <= N
  BY SqrtAssumption
<1>2. thread_num = 0 \/ thread_num >= 1
  BY <1>1
<1>3. thread_num <= thread_num * thread_num
  BY <1>1, <1>2
<1>. QED
  BY <1>1, <1>3 DEF total_cnt

LEMMA OverFinite ==
  /\ IsFiniteSet(Over)
  /\ Cardinality(Over) \in Nat
  /\ Cardinality(Over) <= thread_num
<1>1. IsFiniteSet(Thread) /\ Cardinality(Thread) = thread_num
  <2>1. /\ IsFiniteSet(1..thread_num)
        /\ Cardinality(1..thread_num)
             = IF 1 > thread_num THEN 0 ELSE thread_num - 1 + 1
    BY ConstantFacts, FS_Interval
  <2>. QED
    BY <2>1, ConstantFacts DEF Thread
<1>2. Over \subseteq Thread
  BY DEF Over
<1>. QED
  BY <1>1, <1>2, FS_Subset, FS_CardinalityType

LEMMA InitIInv == Init => IInv
<1>. SUFFICES ASSUME Init PROVE IInv
  OBVIOUS
<1>1. TypeOK
  <2>1. 0 \in 0..thread_num /\ 1 \in Nat \ {0}
    BY ConstantFacts
  <2>. QED
    BY <2>1 DEF Init, TypeOK
<1>2. Over = {}
  BY ConstantFacts DEF Init, Over
<1>3. Cardinality(Over) = 0
  BY <1>2, FS_EmptySet
<1>4. 1 >= total_cnt => 1 = total_cnt + 0
  BY ConstantFacts
<1>5. OverrunsOnce /\ \A t \in Thread : last[t] < msg_cnt
  BY DEF Init, OverrunsOnce
<1>6. msg_cnt >= total_cnt => msg_cnt = total_cnt + Cardinality(Over)
  BY <1>3, <1>4 DEF Init
<1>. QED
  BY <1>1, <1>5, <1>6 DEF Init, IInv

(* A sender below the limit takes a number. *)
LEMMA DoSendCounts ==
  ASSUME IInv, NEW t \in Thread, last[t] < total_cnt, DoSend(t)
  PROVE  /\ \A u \in Thread : last'[u] < msg_cnt'
         /\ OverrunsOnce'
         /\ msg_cnt' >= total_cnt => msg_cnt' = total_cnt + Cardinality(Over')
<1>. USE DEF IInv, TypeOK
<1>1. /\ last' = [last EXCEPT ![t] = msg_cnt]
      /\ msg_cnt' = msg_cnt + 1
      /\ op' = [op EXCEPT ![t] = "send"]
  BY DEF DoSend
<1>2. \A u \in Thread : last'[u] = IF u = t THEN msg_cnt ELSE last[u]
  BY <1>1
<1>3. msg_cnt \in Nat /\ \A u \in Thread : last[u] \in Nat
  OBVIOUS
<1>4. \A u \in Thread : last'[u] < msg_cnt'
  BY <1>1, <1>2, <1>3
<1>5. OverrunsOnce'
  BY <1>1, <1>2 DEF OverrunsOnce
<1>6. ASSUME msg_cnt >= total_cnt
      PROVE  msg_cnt' = total_cnt + Cardinality(Over')
  <2>1. t \notin Over /\ Over' = Over \cup {t}
    <3>1. t \notin Over
      BY <1>3, ConstantFacts DEF Over
    <3>2. last'[t] >= total_cnt
      BY <1>2, <1>6
    <3>3. \A u \in Thread \ {t} : last'[u] = last[u]
      BY <1>2
    <3>. QED
      BY <3>1, <3>2, <3>3 DEF Over
  <2>2. Cardinality(Over') = Cardinality(Over) + 1
    BY <2>1, OverFinite, FS_AddElement
  <2>. QED
    BY <1>1, <1>3, <1>6, <2>2, OverFinite, ConstantFacts
<1>7. ASSUME msg_cnt + 1 = total_cnt
      PROVE  msg_cnt' = total_cnt + Cardinality(Over')
  <2>1. Over' = {}
    BY <1>2, <1>3, <1>7, ConstantFacts DEF Over
  <2>. QED
    BY <1>1, <1>7, <2>1, FS_EmptySet, ConstantFacts
<1>8. msg_cnt' >= total_cnt => msg_cnt >= total_cnt \/ msg_cnt + 1 = total_cnt
  BY <1>1, <1>3, ConstantFacts
<1>. QED
  BY <1>4, <1>5, <1>6, <1>7, <1>8

LEMMA TypeStep == IInv /\ [Next]_vars => TypeOK'
<1>. SUFFICES ASSUME IInv, [Next]_vars PROVE TypeOK'
  OBVIOUS
<1>. USE ConstantFacts DEF IInv, TypeOK
<1>1. CASE Create
  <2>1. created + 1 \in 0..thread_num
    BY <1>1 DEF Create
  <2>2. thread' \in [Thread -> {"new", "made", "running", "ended"}]
    BY <1>1 DEF Create
  <2>. QED
    BY <1>1, <2>1, <2>2 DEF Create
<1>2. CASE Join
  BY <1>2 DEF Join
<1>3. ASSUME NEW t \in Thread, Start(t) PROVE TypeOK'
  BY <1>3 DEF Start, DoSend
<1>4. ASSUME NEW t \in Thread, Sent(t) PROVE TypeOK'
  BY <1>4 DEF Sent, Finish
<1>5. ASSUME NEW t \in Thread, Timeout(t) PROVE TypeOK'
  BY <1>5 DEF Timeout, DoSend
<1>6. ASSUME NEW t \in Thread, Fail(t) PROVE TypeOK'
  BY <1>6 DEF Fail, Finish
<1>7. ASSUME NEW t \in Thread, Return(t) PROVE TypeOK'
  BY <1>7 DEF Return
<1>8. CASE UNCHANGED vars
  BY <1>8 DEF vars
<1>. QED
  BY <1>1, <1>2, <1>3, <1>4, <1>5, <1>6, <1>7, <1>8 DEF Next

(* What is left of IInv when TypeOK is taken out. *)
Counts ==
  /\ \A t \in Thread : last[t] < msg_cnt
  /\ \A t \in Thread : t > created => thread[t] = "new"
  /\ \A t \in Thread : thread[t] \in {"new", "made"} =>
                         last[t] = 0 /\ op[t] = "none"
  /\ OverrunsOnce
  /\ msg_cnt >= total_cnt => msg_cnt = total_cnt + Cardinality(Over)

LEMMA CountsStep == IInv /\ [Next]_vars => Counts'
<1>. SUFFICES ASSUME IInv, [Next]_vars PROVE Counts'
  OBVIOUS
<1>0. TypeOK /\ Counts
  BY DEF IInv, Counts
<1>. USE DEF TypeOK
<1>1. ASSUME UNCHANGED <<msg_cnt, last>>,
             \A t \in Thread : t > created' => thread'[t] = "new",
             \A t \in Thread : thread'[t] \in {"new", "made"} =>
                                 last'[t] = 0 /\ op'[t] = "none",
             \A t \in Thread : op'[t] = "timer" =>
                                 op[t] = "timer" \/ last[t] < total_cnt
      PROVE  Counts'
  <2>1. Over' = Over
    BY <1>1 DEF Over
  <2>2. OverrunsOnce'
    <3>1. \A t \in Thread : last[t] \in Nat
      BY <1>0
    <3>. QED
      BY <1>0, <1>1, <3>1, ConstantFacts DEF Counts, OverrunsOnce
  <2>. QED
    BY <1>0, <1>1, <2>1, <2>2 DEF Counts
<1>2. CASE Create
  <2>1. created \in Nat /\ created + 1 \in Thread /\ Thread \subseteq Nat
    BY <1>0, <1>2, ConstantFacts DEF Create, Thread
  <2>2. /\ created' = created + 1
        /\ thread' = [thread EXCEPT ![created + 1] = "made"]
        /\ UNCHANGED <<op, msg_cnt, last>>
    BY <1>2 DEF Create
  <2>3. thread[created + 1] = "new"
    BY <1>0, <2>1 DEF Counts
  <2>4. \A t \in Thread : t > created' => thread'[t] = "new"
    BY <1>0, <2>1, <2>2 DEF Counts
  <2>5. \A t \in Thread : thread'[t] \in {"new", "made"} =>
                            thread[t] \in {"new", "made"}
    BY <1>0, <2>1, <2>2, <2>3
  <2>. QED
    BY <1>0, <1>1, <2>2, <2>4, <2>5 DEF Counts
<1>3. CASE Join
  BY <1>0, <1>1, <1>3 DEF Join, Counts
<1>4. ASSUME NEW t \in Thread, Start(t) PROVE Counts'
  <2>1. last[t] < total_cnt
    BY <1>0, <1>4, ConstantFacts DEF Start, Counts
  <2>2. \A u \in Thread : thread'[u] \in {"new", "made"} =>
                            last'[u] = 0 /\ op'[u] = "none"
    BY <1>0, <1>4 DEF Start, DoSend, Counts
  <2>3. \A u \in Thread : u > created' => thread'[u] = "new"
    BY <1>0, <1>4 DEF Start, DoSend, Counts
  <2>. QED
    BY <1>4, <2>1, <2>2, <2>3, DoSendCounts DEF Start, Counts
<1>5. ASSUME NEW t \in Thread, Sent(t) PROVE Counts'
  <2>1. op'[t] = "timer" => last[t] < total_cnt
    <3>1. PICK v \in Seen(t) :
            \/ GoesOn(v)
            \/ Finish(t)
      BY <1>5 DEF Sent
    <3>2. CASE GoesOn(v)
      <4>1. last[t] \in Nat /\ msg_cnt \in Nat
        BY <1>0
      <4>. QED
        BY <3>2, <4>1, ConstantFacts DEF Seen, GoesOn
    <3>3. CASE Finish(t)
      BY <1>0, <3>3 DEF Finish
    <3>. QED
      BY <3>1, <3>2, <3>3
  <2>2. \A u \in Thread \ {t} : op'[u] = op[u]
    BY <1>0, <1>5 DEF Sent, Finish
  <2>3. thread[t] \notin {"new", "made"}
    BY <1>0, <1>5 DEF Sent, Counts
  <2>4. UNCHANGED <<created, thread, msg_cnt, last>>
    BY <1>5 DEF Sent
  <2>. QED
    BY <1>0, <1>1, <2>1, <2>2, <2>3, <2>4 DEF Counts
<1>6. ASSUME NEW t \in Thread, Timeout(t) PROVE Counts'
  <2>1. last[t] < total_cnt
    <3>1. last[t] \in Nat
      BY <1>0
    <3>. QED
      BY <1>0, <1>6, <3>1, ConstantFacts DEF Timeout, Counts, OverrunsOnce
  <2>2. \A u \in Thread : thread'[u] \in {"new", "made"} =>
                            last'[u] = 0 /\ op'[u] = "none"
    BY <1>0, <1>6 DEF Timeout, DoSend, Counts
  <2>3. \A u \in Thread : u > created' => thread'[u] = "new"
    BY <1>0, <1>6 DEF Timeout, DoSend, Counts
  <2>. QED
    BY <1>6, <2>1, <2>2, <2>3, DoSendCounts DEF Timeout, Counts
<1>7. ASSUME NEW t \in Thread, Fail(t) PROVE Counts'
  BY <1>0, <1>1, <1>7 DEF Fail, Finish, Counts
<1>8. ASSUME NEW t \in Thread, Return(t) PROVE Counts'
  BY <1>0, <1>1, <1>8 DEF Return, Counts
<1>9. CASE UNCHANGED vars
  BY <1>0, <1>1, <1>9 DEF vars, Counts
<1>. QED
  BY <1>2, <1>3, <1>4, <1>5, <1>6, <1>7, <1>8, <1>9 DEF Next

LEMMA Invariance == SafetySpec => []IInv
<1>1. IInv /\ [Next]_vars => IInv'
  BY TypeStep, CountsStep DEF IInv, Counts
<1>. QED
  BY <1>1, InitIInv, PTL DEF SafetySpec

-----------------------------------------------------------------------------
(* A sender that has taken a number at or above the limit is not waiting to  *)
(* take another (the test in the handler of async_send_to).                  *)
THEOREM SendersOverrunOnce == SafetySpec => []OverrunsOnce
<1>1. IInv => OverrunsOnce
  BY DEF IInv
<1>. QED
  BY <1>1, Invariance, PTL

(* No more than n messages are sent, though the test reads the counter       *)
(* without the lock and every thread may read it late.                       *)
THEOREM NoMoreThanN == SafetySpec => []AtMostN
<1>1. IInv => AtMostN
  <2>. SUFFICES ASSUME IInv PROVE AtMostN
    OBVIOUS
  <2>1. msg_cnt \in Nat /\ (msg_cnt >= total_cnt => msg_cnt <= N + 1)
    BY OverFinite, ConstantFacts DEF IInv, TypeOK
  <2>. QED
    BY <2>1, ConstantFacts DEF AtMostN
<1>. QED
  BY <1>1, Invariance, PTL

-----------------------------------------------------------------------------
(* When the context stops, and what that says of the messages sent. *)
StopInv ==
  /\ stopped /\ ~failed => msg_cnt > total_cnt
  /\ \A t \in Thread : thread[t] = "ended" => stopped
  /\ joined > 0 => stopped

LEMMA StopStep == TypeOK /\ StopInv /\ [Next]_vars => StopInv'
<1>. SUFFICES ASSUME TypeOK, StopInv, [Next]_vars PROVE StopInv'
  OBVIOUS
<1>. USE DEF TypeOK, StopInv
<1>1. CASE Create
  <2>1. \A t \in Thread : thread'[t] = "ended" => thread[t] = "ended"
    BY <1>1 DEF Create
  <2>. QED
    BY <1>1, <2>1 DEF Create
<1>2. CASE Join
  <2>1. stopped
    <3>1. joined + 1 \in Thread
      BY <1>2, ConstantFacts DEF Join, Thread
    <3>. QED
      BY <1>2, <3>1 DEF Join
  <2>. QED
    BY <1>2, <2>1 DEF Join
<1>3. ASSUME NEW t \in Thread, Start(t) PROVE StopInv'
  <2>1. msg_cnt' > total_cnt \/ ~(msg_cnt > total_cnt)
    BY <1>3, ConstantFacts DEF Start, DoSend
  <2>2. \A u \in Thread : thread'[u] = "ended" => thread[u] = "ended"
    BY <1>3 DEF Start
  <2>. QED
    BY <1>3, <2>1, <2>2 DEF Start
<1>4. ASSUME NEW t \in Thread, Sent(t) PROVE StopInv'
  <2>1. PICK v \in Seen(t) : (GoesOn(v) /\ UNCHANGED stopped) \/ ~GoesOn(v)
    BY <1>4 DEF Sent
  <2>2. ~stopped /\ UNCHANGED <<thread, joined, msg_cnt, failed>>
    BY <1>4 DEF Sent, Runs
  <2>3. stopped' => msg_cnt > total_cnt
    <3>1. last[t] \in Nat /\ msg_cnt \in Nat
      OBVIOUS
    <3>2. ~GoesOn(v) => msg_cnt > total_cnt
      BY <3>1, ConstantFacts DEF Seen, GoesOn
    <3>. QED
      BY <2>1, <2>2, <3>2
  <2>. QED
    BY <2>2, <2>3
<1>5. ASSUME NEW t \in Thread, Timeout(t) PROVE StopInv'
  BY <1>5 DEF Timeout, Runs
<1>6. ASSUME NEW t \in Thread, Fail(t) PROVE StopInv'
  BY <1>6 DEF Fail, Runs
<1>7. ASSUME NEW t \in Thread, Return(t) PROVE StopInv'
  <2>1. stopped /\ UNCHANGED <<stopped, joined, msg_cnt, failed>>
    BY <1>7 DEF Return
  <2>. QED
    BY <2>1
<1>8. CASE UNCHANGED vars
  BY <1>8 DEF vars
<1>. QED
  BY <1>1, <1>2, <1>3, <1>4, <1>5, <1>6, <1>7, <1>8 DEF Next

LEMMA StopInvariance == SafetySpec => []StopInv
<1>1. Init => StopInv
  BY DEF Init, StopInv
<1>2. IInv => TypeOK
  BY DEF IInv
<1>. QED
  BY <1>1, <1>2, StopStep, Invariance, PTL DEF SafetySpec

(* If no send and no timer failed, the program does not end before total_cnt *)
(* messages are sent: the last sender to stop has seen the counter above it. *)
THEOREM NoFewerThanTotal == SafetySpec => []EnoughSent
<1>1. StopInv /\ TypeOK => EnoughSent
  <2>. SUFFICES ASSUME StopInv, TypeOK, joined = thread_num, ~failed
                PROVE  msg_cnt - 1 >= total_cnt
    BY DEF EnoughSent
  <2>1. thread_num > 0
    BY SqrtAssumption
  <2>2. msg_cnt \in Nat /\ msg_cnt > total_cnt
    BY <2>1 DEF StopInv, TypeOK
  <2>. QED
    BY <2>2, ConstantFacts
<1>2. IInv => TypeOK
  BY DEF IInv
<1>. QED
  BY <1>1, <1>2, Invariance, StopInvariance, PTL
=============================================================================
