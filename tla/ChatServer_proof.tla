--------------------------- MODULE ChatServer_proof ---------------------------
(***************************************************************************)
(* What is proved of ChatServer for any number of sessions, any bodies and *)
(* any MaxRecent: its invariants, and that each of its steps is a step of  *)
(* ChatBroadcast or leaves it alone.                                       *)
(***************************************************************************)
EXTENDS ChatServer, SequenceTheorems, TLAPS

-----------------------------------------------------------------------------
(* What Queued, Recent and the other sequence operations do, pointwise. *)

LEMMA PushBack ==
  ASSUME NEW S, NEW q \in Seq(S), NEW e \in S
  PROVE  /\ Append(q, e) \in Seq(S)
         /\ Len(Append(q, e)) = Len(q) + 1
         /\ Append(q, e) # <<>>
         /\ \A i \in 1..Len(q) : Append(q, e)[i] = q[i]
         /\ Append(q, e)[Len(q) + 1] = e
         /\ q # <<>> => Head(Append(q, e)) = Head(q)
<1>1. /\ Append(q, e) \in Seq(S)
      /\ Len(Append(q, e)) = Len(q) + 1
      /\ \A i \in 1..Len(q) : Append(q, e)[i] = q[i]
      /\ Append(q, e)[Len(q) + 1] = e
  OBVIOUS
<1>2. Append(q, e) # <<>>
  BY <1>1, EmptySeq
<1>3. ASSUME q # <<>> PROVE Head(Append(q, e)) = Head(q)
  <2>1. Len(q) \in Nat \ {0}
    BY <1>3, EmptySeq
  <2>2. Head(q) = q[1] /\ Head(Append(q, e)) = Append(q, e)[1]
    BY <1>1, <1>2, <1>3
  <2>. QED
    BY <2>1, <2>2, <1>1
<1>. QED
  BY <1>1, <1>2, <1>3

LEMMA PopFront ==
  ASSUME NEW S, NEW q \in Seq(S), q # <<>>
  PROVE  /\ Len(q) \in Nat \ {0}
         /\ Head(q) \in S
         /\ Head(q) = q[1]
         /\ Tail(q) \in Seq(S)
         /\ Len(Tail(q)) = Len(q) - 1
         /\ \A i \in 1..Len(Tail(q)) : Tail(q)[i] = q[i + 1]
BY HeadTailProperties

LEMMA OneElement ==
  ASSUME NEW e
  PROVE  <<e>> # <<>> /\ Head(<<e>>) = e /\ Tail(<<e>>) = <<>>
<1>1. <<e>> \in Seq({e}) /\ Len(<<e>>) = 1 /\ <<e>>[1] = e
  OBVIOUS
<1>2. <<e>> # <<>>
  BY <1>1, EmptySeq
<1>3. Tail(<<e>>) \in Seq({e}) /\ Len(Tail(<<e>>)) = 0
  BY <1>1, <1>2, HeadTailProperties
<1>4. Head(<<e>>) = e
  BY <1>1, <1>2, PopFront
<1>. QED
  BY <1>2, <1>3, <1>4, EmptySeq

LEMMA QueuedOne ==
  ASSUME NEW S, NEW q \in Seq(S), NEW e \in S
  PROVE  Queued(q, <<e>>) = Append(q, e)
<1>1. <<e>> \in Seq(S) /\ Len(<<e>>) = 1 /\ <<e>>[1] = e
  OBVIOUS
<1>2. /\ q \o <<e>> \in Seq(S)
      /\ Len(q \o <<e>>) = Len(q) + 1
      /\ \A i \in 1..Len(q) + 1 :
           (q \o <<e>>)[i] = IF i <= Len(q) THEN q[i] ELSE <<e>>[i - Len(q)]
  BY <1>1, ConcatProperties
<1>3. \A i \in 1..Len(q) + 1 : (q \o <<e>>)[i] = Append(q, e)[i]
  BY <1>1, <1>2, LenProperties
<1>. QED
  BY <1>2, <1>3, PushBack, SeqEqual DEF Queued

LEMMA QueuedOnEmpty ==
  ASSUME NEW S, NEW msgs \in Seq(S)
  PROVE  Queued(<<>>, msgs) = msgs
BY ConcatEmptySeq DEF Queued

LEMMA RecentProperties ==
  ASSUME recent_msgs \in Seq(Body), Len(recent_msgs) <= MaxRecent,
         NEW b \in Body
  PROVE  LET r == Recent(b)
             n == Len(recent_msgs)
         IN  /\ r \in Seq(Body)
             /\ Len(r) = IF n < MaxRecent THEN n + 1 ELSE MaxRecent
             /\ \A i \in 1..Len(r) :
                  r[i] = Append(recent_msgs, b)[n + 1 - Len(r) + i]
<1>. DEFINE all == Append(recent_msgs, b)
            n == Len(recent_msgs)
            excess == IF Len(all) > MaxRecent THEN Len(all) - MaxRecent ELSE 0
<1>1. n \in Nat /\ all \in Seq(Body) /\ Len(all) = n + 1
  BY PushBack
<1>2. excess = IF n < MaxRecent THEN 0 ELSE 1
  BY <1>1, MaxRecentAssumption
<1>3. \A i \in excess + 1 .. n + 1 : all[i] \in Body
  BY <1>1, <1>2
<1>4. excess + 1 \in Int /\ n + 1 \in Int
  BY <1>1, <1>2
<1>. HIDE DEF all, excess
<1>5. Recent(b) = SubSeq(all, excess + 1, n + 1)
  BY <1>1 DEF Recent, all, excess
<1>6. /\ Recent(b) \in Seq(Body)
      /\ Len(Recent(b)) = n + 1 - excess
      /\ \A i \in 1 .. n + 1 - excess : Recent(b)[i] = all[excess + i]
  <2>. DEFINE m == excess + 1
              k == n + 1
  <2>1. m \in Int /\ k \in Int /\ \A i \in m .. k : all[i] \in Body
    BY <1>3, <1>4
  <2>. HIDE DEF m, k
  <2>2. /\ SubSeq(all, m, k) \in Seq(Body)
        /\ Len(SubSeq(all, m, k)) = IF m <= k THEN k - m + 1 ELSE 0
        /\ \A i \in 1 .. k - m + 1 : SubSeq(all, m, k)[i] = all[m + i - 1]
    BY <2>1, SubSeqProperties
  <2>3. m = excess + 1 /\ k = n + 1 /\ Recent(b) = SubSeq(all, m, k)
    BY <1>5 DEF m, k
  <2>4. k - m + 1 = n + 1 - excess /\ m <= k + 1
    BY <1>1, <1>2, <2>3
  <2>5. \A i \in 1 .. n + 1 - excess : m + i - 1 = excess + i
    BY <1>1, <1>2, <2>3
  <2>6. Len(SubSeq(all, m, k)) = k - m + 1
    BY <2>1, <2>2, <2>4
  <2>. QED
    BY <2>2, <2>3, <2>4, <2>5, <2>6
<1>7. Len(Recent(b)) = IF n < MaxRecent THEN n + 1 ELSE MaxRecent
  BY <1>1, <1>2, <1>6, MaxRecentAssumption
<1>8. \A i \in 1..Len(Recent(b)) :
        Recent(b)[i] = all[n + 1 - Len(Recent(b)) + i]
  BY <1>1, <1>2, <1>6
<1>. QED
  BY <1>6, <1>7, <1>8 DEF all

-----------------------------------------------------------------------------
(* The inductive invariant. *)

(* A connection that was not accepted has no operation and no message. *)
Untouched ==
  \A s \in Session \ sessions :
    /\ reading[s] = "none"
    /\ write_msgs[s] = <<>>
    /\ inflight[s] = <<>>
    /\ sent[s] = <<>>

BacklogIsNew == backlog \cap sessions = {}

IInv ==
  /\ TypeOK
  /\ Untouched
  /\ BacklogIsNew
  /\ OneWriteFromFront
  /\ ParticipantsServed
  /\ RecentIsEndOfLog
  /\ PieceOfLog

LEMMA InitIInv == Init => IInv
<1>. SUFFICES ASSUME Init PROVE IInv
  OBVIOUS
<1>0. <<>> \in Seq(Body) /\ Len(<<>>) = 0
  BY EmptySeq
<1>1. TypeOK
  BY <1>0 DEF Init, TypeOK, Read
<1>2. Untouched /\ BacklogIsNew /\ OneWriteFromFront /\ ParticipantsServed
  BY DEF Init, Untouched, BacklogIsNew, OneWriteFromFront, ParticipantsServed
<1>3. RecentIsEndOfLog
  BY <1>0, MaxRecentAssumption DEF Init, RecentIsEndOfLog
<1>4. PieceOfLog
  BY DEF Init, PieceOfLog
<1>. QED
  BY <1>1, <1>2, <1>3, <1>4 DEF IInv

LEMMA TypeStep == IInv /\ [Next]_vars => TypeOK'
<1>. SUFFICES ASSUME IInv, [Next]_vars PROVE TypeOK'
  OBVIOUS
<1>. USE DEF TypeOK, Read, room, history
<1>0. TypeOK
  BY DEF IInv
<1>1. CASE AcceptError
  BY <1>0, <1>1 DEF AcceptError
<1>2. ASSUME NEW s \in Session, Connect(s) PROVE TypeOK'
  BY <1>0, <1>2 DEF Connect
<1>3. ASSUME NEW s \in Session, Accept(s) PROVE TypeOK'
  <2>1. Queued(write_msgs[s], recent_msgs) \in Seq(Body)
    BY <1>0, ConcatProperties DEF Queued
  <2>2. Writing(write_msgs[s], inflight[s], recent_msgs) \in Seq(Body)
    BY <1>0, PushBack, PopFront DEF Writing
  <2>3. Len(log) \in Nat /\ Len(recent_msgs) \in Nat
    BY <1>0
  <2>4. Len(recent_msgs) <= Len(log)
    BY <2>3, MaxRecentAssumption DEF IInv, RecentIsEndOfLog
  <2>. QED
    BY <1>0, <1>3, <2>1, <2>2, <2>3, <2>4 DEF Accept, Join
<1>4. ASSUME NEW s \in Session, ReadHeader(s) PROVE TypeOK'
  BY <1>0, <1>4 DEF ReadHeader
<1>5. ASSUME NEW s \in Session, ReadError(s) PROVE TypeOK'
  BY <1>0, <1>5 DEF ReadError, Leave
<1>6. ASSUME NEW s \in Session, NEW b \in Body, ReadBody(s, b) PROVE TypeOK'
  <2>1. Recent(b) \in Seq(Body)
    <3>1. Len(recent_msgs) <= MaxRecent
      BY <1>0, MaxRecentAssumption DEF IInv, RecentIsEndOfLog
    <3>. QED
      BY <1>0, <3>1, RecentProperties
  <2>2. ASSUME NEW p \in Session
        PROVE  Queued(write_msgs[p], <<b>>) \in Seq(Body)
    <3>1. write_msgs[p] \in Seq(Body)
      BY <1>0
    <3>2. Queued(write_msgs[p], <<b>>) = Append(write_msgs[p], b)
      BY <3>1, QueuedOne
    <3>. QED
      BY <3>1, <3>2, PushBack
  <2>3. \A p \in Session :
          Writing(write_msgs[p], inflight[p], <<b>>) \in Seq(Body)
    BY <1>0, PushBack DEF Writing
  <2>4. Append(log, b) \in Seq(Body)
    BY <1>0, PushBack
  <2>. QED
    BY <1>0, <1>6, <2>1, <2>2, <2>3, <2>4 DEF ReadBody, Deliver
<1>7. ASSUME NEW s \in Session, WriteDone(s) PROVE TypeOK'
  <2>1. inflight[s] # <<>> /\ write_msgs[s] # <<>>
    BY <1>7 DEF WriteDone, IInv, OneWriteFromFront
  <2>2. /\ Head(inflight[s]) \in Body
        /\ Tail(inflight[s]) \in Seq(Body)
        /\ Tail(write_msgs[s]) \in Seq(Body)
    BY <1>0, <2>1, PopFront
  <2>3. Tail(write_msgs[s]) # <<>> =>
          Append(Tail(inflight[s]), Head(Tail(write_msgs[s]))) \in Seq(Body)
    BY <2>2, PopFront, PushBack
  <2>4. Append(sent[s], Head(inflight[s])) \in Seq(Body)
    BY <1>0, <2>2, PushBack
  <2>. QED
    BY <1>0, <1>7, <2>2, <2>3, <2>4 DEF WriteDone
<1>8. ASSUME NEW s \in Session, WriteError(s) PROVE TypeOK'
  <2>1. Tail(inflight[s]) \in Seq(Body)
    BY <1>0, <1>8, PopFront DEF WriteError
  <2>. QED
    BY <1>0, <1>8, <2>1 DEF WriteError, Leave
<1>9. CASE UNCHANGED vars
  BY <1>0, <1>9 DEF vars
<1>. QED
  BY <1>1, <1>2, <1>3, <1>4, <1>5, <1>6, <1>7, <1>8, <1>9 DEF Next

LEMMA UntouchedStep ==
  IInv /\ [Next]_vars => Untouched' /\ BacklogIsNew'
<1>. SUFFICES ASSUME IInv, [Next]_vars PROVE Untouched' /\ BacklogIsNew'
  OBVIOUS
<1>. USE DEF TypeOK, Untouched, BacklogIsNew, room, history
<1>0. TypeOK /\ Untouched /\ BacklogIsNew
  BY DEF IInv
<1>1. CASE AcceptError
  BY <1>0, <1>1 DEF AcceptError
<1>2. ASSUME NEW s \in Session, Connect(s) PROVE Untouched' /\ BacklogIsNew'
  BY <1>0, <1>2 DEF Connect
<1>3. ASSUME NEW s \in Session, Accept(s) PROVE Untouched' /\ BacklogIsNew'
  BY <1>0, <1>3 DEF Accept, Join
<1>4. ASSUME NEW s \in Session, ReadHeader(s)
      PROVE  Untouched' /\ BacklogIsNew'
  BY <1>0, <1>4 DEF ReadHeader
<1>5. ASSUME NEW s \in Session, ReadError(s)
      PROVE  Untouched' /\ BacklogIsNew'
  BY <1>0, <1>5 DEF ReadError
<1>6. ASSUME NEW s \in Session, NEW b \in Body, ReadBody(s, b)
      PROVE  Untouched' /\ BacklogIsNew'
  BY <1>0, <1>6 DEF ReadBody, Deliver
<1>7. ASSUME NEW s \in Session, WriteDone(s)
      PROVE  Untouched' /\ BacklogIsNew'
  BY <1>0, <1>7 DEF WriteDone
<1>8. ASSUME NEW s \in Session, WriteError(s)
      PROVE  Untouched' /\ BacklogIsNew'
  BY <1>0, <1>8 DEF WriteError
<1>9. CASE UNCHANGED vars
  BY <1>0, <1>9 DEF vars
<1>. QED
  BY <1>1, <1>2, <1>3, <1>4, <1>5, <1>6, <1>7, <1>8, <1>9 DEF Next

LEMMA OneWrite ==
  ASSUME OneWriteFromFront, NEW s \in Session, inflight[s] # <<>>
  PROVE  /\ write_msgs[s] # <<>>
         /\ Head(inflight[s]) = Head(write_msgs[s])
         /\ Tail(inflight[s]) = <<>>
BY OneElement DEF OneWriteFromFront

(* What a delivery does to a queue and its outstanding writes. *)
LEMMA DeliverOne ==
  ASSUME NEW q \in Seq(Body), NEW f \in Seq(Body), NEW b \in Body,
         f # <<>> => q # <<>> /\ f = <<Head(q)>>
  PROVE  /\ Queued(q, <<b>>) # <<>>
         /\ Writing(q, f, <<b>>) # <<>> =>
              Writing(q, f, <<b>>) = <<Head(Queued(q, <<b>>))>>
         /\ (q # <<>> => f # <<>>) => Writing(q, f, <<b>>) # <<>>
         /\ q # <<>> => Writing(q, f, <<b>>) = f
<1>1. Queued(q, <<b>>) = Append(q, b)
  BY QueuedOne
<1>2. CASE q = <<>>
  <2>1. f = <<>>
    BY <1>2
  <2>2. <<b>> # <<>> /\ Head(<<b>>) = b
    OBVIOUS
  <2>3. Append(q, b) = <<b>> /\ Append(f, b) = <<b>>
    BY <1>2, <2>1
  <2>. QED
    BY <1>1, <1>2, <2>1, <2>2, <2>3 DEF Writing
<1>3. CASE q # <<>>
  BY <1>1, <1>3, PushBack DEF Writing
<1>. QED
  BY <1>2, <1>3

LEMMA OneWriteStep == IInv /\ [Next]_vars => OneWriteFromFront'
<1>. SUFFICES ASSUME IInv, [Next]_vars PROVE OneWriteFromFront'
  OBVIOUS
<1>. USE DEF TypeOK, OneWriteFromFront, room, history
<1>0. TypeOK /\ OneWriteFromFront
  BY DEF IInv
<1>1. CASE AcceptError
  BY <1>0, <1>1 DEF AcceptError
<1>2. ASSUME NEW s \in Session, Connect(s) PROVE OneWriteFromFront'
  BY <1>0, <1>2 DEF Connect
<1>3. ASSUME NEW s \in Session, Accept(s) PROVE OneWriteFromFront'
  <2>1. write_msgs[s] = <<>> /\ inflight[s] = <<>>
    BY <1>0, <1>3 DEF Accept, Join, IInv, Untouched, BacklogIsNew
  <2>2. write_msgs'[s] = recent_msgs
    BY <1>0, <1>3, <2>1, QueuedOnEmpty DEF Accept, Join
  <2>3. inflight'[s] = IF recent_msgs = <<>> THEN <<>> ELSE <<Head(recent_msgs)>>
    BY <1>0, <1>3, <2>1 DEF Accept, Join, Writing
  <2>4. \A t \in Session \ {s} :
          write_msgs'[t] = write_msgs[t] /\ inflight'[t] = inflight[t]
    BY <1>0, <1>3 DEF Accept, Join
  <2>. QED
    BY <1>0, <2>2, <2>3, <2>4
<1>4. ASSUME NEW s \in Session, ReadHeader(s) PROVE OneWriteFromFront'
  BY <1>0, <1>4 DEF ReadHeader
<1>5. ASSUME NEW s \in Session, ReadError(s) PROVE OneWriteFromFront'
  BY <1>0, <1>5 DEF ReadError
<1>6. ASSUME NEW s \in Session, NEW b \in Body, ReadBody(s, b)
      PROVE  OneWriteFromFront'
  <2>. SUFFICES ASSUME NEW t \in Session, inflight'[t] # <<>>
                PROVE  /\ write_msgs'[t] # <<>>
                       /\ inflight'[t] = <<Head(write_msgs'[t])>>
    OBVIOUS
  <2>1. CASE t \in participants
    <3>1. /\ write_msgs'[t] = Queued(write_msgs[t], <<b>>)
          /\ inflight'[t] = Writing(write_msgs[t], inflight[t], <<b>>)
      BY <1>6, <2>1 DEF ReadBody, Deliver
    <3>2. write_msgs[t] \in Seq(Body) /\ inflight[t] \in Seq(Body)
      BY <1>0
    <3>3. inflight[t] # <<>> =>
            write_msgs[t] # <<>> /\ inflight[t] = <<Head(write_msgs[t])>>
      BY <1>0
    <3>. QED
      BY <3>1, <3>2, <3>3, DeliverOne
  <2>2. CASE t \notin participants
    BY <1>0, <1>6, <2>2 DEF ReadBody, Deliver
  <2>. QED
    BY <2>1, <2>2
<1>7. ASSUME NEW s \in Session, WriteDone(s) PROVE OneWriteFromFront'
  <2>1. Tail(inflight[s]) = <<>>
    BY <1>0, <1>7, OneWrite DEF WriteDone
  <2>2. write_msgs'[s] = Tail(write_msgs[s])
    BY <1>0, <1>7 DEF WriteDone
  <2>3. inflight'[s] = IF Tail(write_msgs[s]) # <<>>
                       THEN <<Head(Tail(write_msgs[s]))>> ELSE <<>>
    <3>1. \A e : Append(<<>>, e) = <<e>>
      OBVIOUS
    <3>2. inflight'[s] = IF Tail(write_msgs[s]) # <<>>
                         THEN Append(<<>>, Head(Tail(write_msgs[s]))) ELSE <<>>
      BY <1>0, <1>7, <2>1 DEF WriteDone
    <3>. QED
      BY <3>1, <3>2
  <2>4. \A t \in Session \ {s} :
          write_msgs'[t] = write_msgs[t] /\ inflight'[t] = inflight[t]
    BY <1>0, <1>7 DEF WriteDone
  <2>. QED
    BY <1>0, <2>2, <2>3, <2>4
<1>8. ASSUME NEW s \in Session, WriteError(s) PROVE OneWriteFromFront'
  <2>1. Tail(inflight[s]) = <<>>
    BY <1>0, <1>8, OneWrite DEF WriteError
  <2>. QED
    BY <1>0, <1>8, <2>1 DEF WriteError
<1>9. CASE UNCHANGED vars
  BY <1>0, <1>9 DEF vars
<1>. QED
  BY <1>1, <1>2, <1>3, <1>4, <1>5, <1>6, <1>7, <1>8, <1>9 DEF Next

LEMMA ServedStep == IInv /\ [Next]_vars => ParticipantsServed'
<1>. SUFFICES ASSUME IInv, [Next]_vars PROVE ParticipantsServed'
  OBVIOUS
<1>. USE DEF TypeOK, ParticipantsServed, room, history
<1>0. TypeOK /\ ParticipantsServed
  BY DEF IInv
<1>1. CASE AcceptError
  BY <1>0, <1>1 DEF AcceptError
<1>2. ASSUME NEW s \in Session, Connect(s) PROVE ParticipantsServed'
  BY <1>0, <1>2 DEF Connect
<1>3. ASSUME NEW s \in Session, Accept(s) PROVE ParticipantsServed'
  <2>1. write_msgs[s] = <<>> /\ inflight[s] = <<>>
    BY <1>0, <1>3 DEF Accept, Join, IInv, Untouched, BacklogIsNew
  <2>2. write_msgs'[s] = recent_msgs
    BY <1>0, <1>3, <2>1, QueuedOnEmpty DEF Accept, Join
  <2>3. recent_msgs # <<>> => inflight'[s] # <<>>
    BY <1>0, <1>3, <2>1, OneElement DEF Accept, Join, Writing
  <2>4. \A t \in Session \ {s} :
          /\ write_msgs'[t] = write_msgs[t]
          /\ inflight'[t] = inflight[t]
          /\ reading'[t] = reading[t]
          /\ t \in participants' => t \in participants
    BY <1>0, <1>3 DEF Accept, Join
  <2>5. reading'[s] = "header"
    BY <1>0, <1>3 DEF Accept, Join
  <2>6. participants' \subseteq Session
    BY <1>0, <1>3 DEF Accept, Join
  <2>. QED
    BY <1>0, <2>2, <2>3, <2>4, <2>5, <2>6
<1>4. ASSUME NEW s \in Session, ReadHeader(s) PROVE ParticipantsServed'
  BY <1>0, <1>4 DEF ReadHeader
<1>5. ASSUME NEW s \in Session, ReadError(s) PROVE ParticipantsServed'
  BY <1>0, <1>5 DEF ReadError, Leave
<1>6. ASSUME NEW s \in Session, NEW b \in Body, ReadBody(s, b)
      PROVE  ParticipantsServed'
  <2>. SUFFICES ASSUME NEW t \in participants
                PROVE  /\ reading'[t] # "none"
                       /\ inflight'[t] # <<>>
    BY <1>6 DEF ReadBody, Deliver
  <2>1. t \in Session /\ write_msgs[t] \in Seq(Body) /\ inflight[t] \in Seq(Body)
    BY <1>0
  <2>2. inflight'[t] = Writing(write_msgs[t], inflight[t], <<b>>)
    BY <1>6, <2>1 DEF ReadBody, Deliver
  <2>3. inflight[t] # <<>> =>
          write_msgs[t] # <<>> /\ inflight[t] = <<Head(write_msgs[t])>>
    BY <2>1 DEF IInv, OneWriteFromFront
  <2>4. inflight'[t] # <<>>
    <3>1. write_msgs[t] # <<>> => inflight[t] # <<>>
      BY <1>0
    <3>. QED
      BY <2>1, <2>2, <2>3, <3>1, DeliverOne
  <2>5. reading'[t] # "none"
    BY <1>0, <1>6, <2>1 DEF ReadBody, Deliver
  <2>. QED
    BY <2>4, <2>5
<1>7. ASSUME NEW s \in Session, WriteDone(s) PROVE ParticipantsServed'
  <2>1. write_msgs'[s] # <<>> => inflight'[s] # <<>>
    <3>1. Tail(inflight[s]) = <<>> /\ write_msgs[s] # <<>>
      BY <1>7, OneWrite DEF WriteDone, IInv
    <3>2. Tail(write_msgs[s]) # <<>> =>
            inflight'[s] = Append(<<>>, Head(Tail(write_msgs[s])))
      BY <1>0, <1>7, <3>1 DEF WriteDone
    <3>3. write_msgs'[s] = Tail(write_msgs[s])
      BY <1>0, <1>7 DEF WriteDone
    <3>4. \A e : Append(<<>>, e) # <<>>
      OBVIOUS
    <3>. QED
      BY <3>2, <3>3, <3>4
  <2>2. \A t \in Session \ {s} :
          write_msgs'[t] = write_msgs[t] /\ inflight'[t] = inflight[t]
    BY <1>0, <1>7 DEF WriteDone
  <2>3. UNCHANGED <<participants, reading>>
    BY <1>7 DEF WriteDone
  <2>. QED
    BY <1>0, <2>1, <2>2, <2>3
<1>8. ASSUME NEW s \in Session, WriteError(s) PROVE ParticipantsServed'
  BY <1>0, <1>8 DEF WriteError, Leave
<1>9. CASE UNCHANGED vars
  BY <1>0, <1>9 DEF vars
<1>. QED
  BY <1>1, <1>2, <1>3, <1>4, <1>5, <1>6, <1>7, <1>8, <1>9 DEF Next

-----------------------------------------------------------------------------
(* The messages themselves. *)

LEMMA RecentStep == IInv /\ [Next]_vars => RecentIsEndOfLog'
<1>. SUFFICES ASSUME IInv, [Next]_vars PROVE RecentIsEndOfLog'
  OBVIOUS
<1>. USE DEF TypeOK, room, history
<1>0. TypeOK /\ RecentIsEndOfLog
  BY DEF IInv
<1>1. ASSUME UNCHANGED <<recent_msgs, log>> PROVE RecentIsEndOfLog'
  BY <1>0, <1>1 DEF RecentIsEndOfLog
<1>2. ASSUME NEW s \in Session, NEW b \in Body, ReadBody(s, b)
      PROVE  RecentIsEndOfLog'
  <2>. DEFINE n == Len(recent_msgs)
              m == Len(log)
              r == Recent(b)
              k == Len(r)
  <2>1. n \in Nat /\ m \in Nat /\ n <= MaxRecent /\ n <= m
    BY <1>0, MaxRecentAssumption DEF RecentIsEndOfLog
  <2>2. /\ r \in Seq(Body)
        /\ k = IF n < MaxRecent THEN n + 1 ELSE MaxRecent
        /\ \A i \in 1..k : r[i] = Append(recent_msgs, b)[n + 1 - k + i]
    BY <1>0, <2>1, RecentProperties
  <2>3. recent_msgs' = r /\ log' = Append(log, b) /\ Len(log') = m + 1
    BY <1>0, <1>2, PushBack DEF ReadBody, Deliver
  <2>4. k = IF m + 1 > MaxRecent THEN MaxRecent ELSE m + 1
    BY <1>0, <2>1, <2>2, MaxRecentAssumption DEF RecentIsEndOfLog
  <2>5. ASSUME NEW i \in 1..k
        PROVE  r[i] = log'[m + 1 - k + i]
    <3>. DEFINE j == n + 1 - k + i
    <3>1. k \in Nat /\ j \in 1..n + 1 /\ m + 1 - k + i = m - n + j
      BY <2>1, <2>2, MaxRecentAssumption
    <3>2. r[i] = Append(recent_msgs, b)[j]
      BY <2>2
    <3>3. CASE j = n + 1
      <4>1. r[i] = b
        BY <1>0, <3>2, <3>3, PushBack
      <4>2. log'[m + 1] = b
        BY <1>0, <2>3, PushBack
      <4>3. m + 1 - k + i = m + 1
        BY <2>1, <3>1, <3>3
      <4>. QED
        BY <4>1, <4>2, <4>3
    <3>4. CASE j \in 1..n
      <4>1. Append(recent_msgs, b)[j] = recent_msgs[j]
        BY <1>0, <3>4, PushBack
      <4>2. recent_msgs[j] = log[m - n + j]
        BY <1>0, <3>4 DEF RecentIsEndOfLog
      <4>3. m - n + j \in 1..m
        BY <2>1, <3>4
      <4>4. log'[m - n + j] = log[m - n + j]
        BY <1>0, <2>3, <4>3, PushBack
      <4>. QED
        BY <3>1, <3>2, <4>1, <4>2, <4>4
    <3>. QED
      BY <2>1, <3>1, <3>3, <3>4
  <2>6. Len(recent_msgs') = k /\ Len(log') = m + 1 /\ k \in Nat /\ m \in Nat
    BY <2>1, <2>2, <2>3
  <2>. HIDE DEF n, m, r, k
  <2>7. Len(recent_msgs') = IF Len(log') > MaxRecent THEN MaxRecent
                            ELSE Len(log')
    BY <2>3, <2>4, <2>6
  <2>8. \A i \in 1..Len(recent_msgs') :
          recent_msgs'[i] = log'[Len(log') - Len(recent_msgs') + i]
    <3>1. \A i \in 1..k : recent_msgs'[i] = log'[m + 1 - k + i]
      BY <2>3, <2>5
    <3>. QED
      BY <2>6, <3>1
  <2>. QED
    BY <2>7, <2>8 DEF RecentIsEndOfLog
<1>3. \A s \in Session :
        \/ Connect(s) \/ Accept(s) \/ ReadHeader(s) \/ ReadError(s)
        \/ WriteDone(s) \/ WriteError(s) \/ AcceptError
        => UNCHANGED <<recent_msgs, log>>
  BY DEF Connect, Accept, Join, ReadHeader, ReadError, WriteDone, WriteError,
         AcceptError
<1>4. UNCHANGED vars => UNCHANGED <<recent_msgs, log>>
  BY DEF vars
<1>5. AcceptError => UNCHANGED <<recent_msgs, log>>
  BY DEF AcceptError
<1>. QED
  BY <1>1, <1>2, <1>3, <1>4, <1>5 DEF Next

(* What PieceOfLog says of one session. *)
Piece(s) ==
  /\ Promised(s) <= Len(log)
  /\ \A i \in 1..Len(sent[s]) : sent[s][i] = log[base[s] + i]
  /\ \A i \in 1..Len(write_msgs[s]) :
       write_msgs[s][i] = log[base[s] + Len(sent[s]) + i]
  /\ s \in participants => Promised(s) = Len(log)

LEMMA PieceUnchanged ==
  ASSUME NEW s \in Session, Piece(s),
         log' = log, base'[s] = base[s], sent'[s] = sent[s],
         write_msgs'[s] = write_msgs[s],
         s \in participants' => s \in participants
  PROVE  Piece(s)'
BY DEF Piece, Promised

LEMMA PieceOfNewSession ==
  ASSUME IInv, NEW s \in Session, Accept(s)
  PROVE  Piece(s)'
<1>. USE DEF TypeOK, room, history
<1>0. TypeOK /\ RecentIsEndOfLog
  BY DEF IInv
<1>. DEFINE m == Len(log)
            n == Len(recent_msgs)
<1>1. m \in Nat /\ n \in Nat /\ n <= m
  BY <1>0, MaxRecentAssumption DEF RecentIsEndOfLog
<1>2. write_msgs[s] = <<>> /\ sent[s] = <<>>
  BY <1>0 DEF Accept, Join, IInv, Untouched, BacklogIsNew
<1>3. write_msgs'[s] = recent_msgs
  BY <1>0, <1>2, QueuedOnEmpty DEF Accept, Join
<1>4. sent'[s] = <<>> /\ base'[s] = m - n /\ log' = log
  BY <1>0, <1>2 DEF Accept, Join
<1>5. Len(sent'[s]) = 0 /\ Len(write_msgs'[s]) = n
  BY <1>3, <1>4, EmptySeq
<1>6. \A i \in 1..n : recent_msgs[i] = log[m - n + 0 + i]
  BY <1>0, <1>1 DEF RecentIsEndOfLog
<1>. HIDE DEF m, n
<1>7. Promised(s)' = m
  BY <1>1, <1>4, <1>5 DEF Promised
<1>8. Len(log') = m
  BY <1>4 DEF m
<1>9. \A i \in 1..Len(write_msgs'[s]) :
        write_msgs'[s][i] = log'[base'[s] + Len(sent'[s]) + i]
  BY <1>1, <1>3, <1>4, <1>5, <1>6
<1>. QED
  BY <1>1, <1>5, <1>7, <1>8, <1>9 DEF Piece

LEMMA PieceAfterPost ==
  ASSUME IInv, NEW s \in Session, NEW b \in Body, ReadBody(s, b),
         NEW t \in sessions, Piece(t)
  PROVE  Piece(t)'
<1>. USE DEF TypeOK, room, history
<1>0. TypeOK /\ t \in Session
  BY DEF IInv
<1>. DEFINE m == Len(log)
            w == write_msgs[t]
            n == Len(w)
            k == Len(sent[t])
            c == base[t]
<1>1. m \in Nat /\ n \in Nat /\ k \in Nat /\ c \in Nat /\ w \in Seq(Body)
  BY <1>0
<1>2. sent'[t] = sent[t] /\ base'[t] = c /\ Len(sent'[t]) = k
  BY DEF ReadBody, Deliver
<1>3. /\ log' = Append(log, b)
      /\ Len(log') = m + 1
      /\ \A i \in 1..m : log'[i] = log[i]
      /\ log'[m + 1] = b
  BY <1>0, PushBack DEF ReadBody, Deliver
<1>4. participants' = participants
  BY DEF ReadBody, Deliver
<1>5. /\ c + k + n <= m
      /\ \A i \in 1..k : sent[t][i] = log[c + i]
      /\ \A i \in 1..n : w[i] = log[c + k + i]
      /\ t \in participants => c + k + n = m
  BY DEF Piece, Promised
<1>6. CASE t \in participants
  <2>1. write_msgs'[t] = Append(w, b)
    BY <1>0, <1>1, <1>6, QueuedOne DEF ReadBody, Deliver
  <2>2. /\ Len(write_msgs'[t]) = n + 1
        /\ \A i \in 1..n : write_msgs'[t][i] = w[i]
        /\ write_msgs'[t][n + 1] = b
    BY <1>1, <2>1, PushBack
  <2>. HIDE DEF m, w, n, k, c
  <2>3. Promised(t)' = m + 1
    BY <1>1, <1>2, <1>5, <1>6, <2>2 DEF Promised
  <2>4. \A i \in 1..k : sent'[t][i] = log'[c + i]
    BY <1>1, <1>2, <1>3, <1>5
  <2>5. \A i \in 1..n + 1 : write_msgs'[t][i] = log'[c + k + i]
    BY <1>1, <1>3, <1>5, <1>6, <2>2
  <2>6. Promised(t)' = Len(log') /\ Promised(t)' <= Len(log')
    BY <1>1, <1>3, <2>3
  <2>7. \A i \in 1..Len(sent'[t]) : sent'[t][i] = log'[base'[t] + i]
    BY <1>2, <2>4
  <2>8. \A i \in 1..Len(write_msgs'[t]) :
          write_msgs'[t][i] = log'[base'[t] + Len(sent'[t]) + i]
    BY <1>1, <1>2, <2>2, <2>5
  <2>. QED
    BY <1>1, <1>3, <2>6, <2>7, <2>8 DEF Piece
<1>7. CASE t \notin participants
  <2>1. write_msgs'[t] = w /\ Len(write_msgs'[t]) = n
    BY <1>0, <1>7 DEF ReadBody, Deliver
  <2>. HIDE DEF m, w, n, k, c
  <2>2. Promised(t)' = c + k + n
    BY <1>1, <1>2, <2>1 DEF Promised
  <2>3. \A i \in 1..k : sent'[t][i] = log'[c + i]
    BY <1>1, <1>2, <1>3, <1>5
  <2>4. \A i \in 1..n : write_msgs'[t][i] = log'[c + k + i]
    BY <1>1, <1>3, <1>5, <2>1
  <2>5. Promised(t)' <= Len(log')
    BY <1>1, <1>3, <1>5, <2>2
  <2>6. t \notin participants'
    BY <1>4, <1>7
  <2>7. \A i \in 1..Len(sent'[t]) : sent'[t][i] = log'[base'[t] + i]
    BY <1>2, <2>3
  <2>8. \A i \in 1..Len(write_msgs'[t]) :
          write_msgs'[t][i] = log'[base'[t] + Len(sent'[t]) + i]
    BY <1>1, <1>2, <2>1, <2>4
  <2>. QED
    BY <2>5, <2>6, <2>7, <2>8 DEF Piece
<1>. QED
  BY <1>6, <1>7

LEMMA PieceAfterWrite ==
  ASSUME IInv, NEW s \in Session, WriteDone(s), Piece(s)
  PROVE  Piece(s)'
<1>. USE DEF TypeOK, room, history
<1>0. TypeOK /\ OneWriteFromFront
  BY DEF IInv
<1>. DEFINE w == write_msgs[s]
            n == Len(w)
            k == Len(sent[s])
            c == base[s]
<1>1. w # <<>> /\ Head(inflight[s]) = Head(w)
  BY <1>0, OneWrite DEF WriteDone
<1>2. /\ n \in Nat \ {0} /\ Head(w) \in Body /\ Head(w) = w[1]
      /\ Len(Tail(w)) = n - 1
      /\ \A i \in 1..n - 1 : Tail(w)[i] = w[i + 1]
  <2>1. w \in Seq(Body)
    BY <1>0
  <2>. QED
    BY <1>1, <2>1, PopFront
<1>3. k \in Nat /\ c \in Nat /\ sent[s] \in Seq(Body)
  BY <1>0
<1>4. write_msgs'[s] = Tail(w) /\ sent'[s] = Append(sent[s], Head(w))
  BY <1>0, <1>1 DEF WriteDone
<1>5. /\ Len(sent'[s]) = k + 1
      /\ \A i \in 1..k : sent'[s][i] = sent[s][i]
      /\ sent'[s][k + 1] = w[1]
  BY <1>2, <1>3, <1>4, PushBack
<1>6. log' = log /\ base'[s] = c /\ participants' = participants
  BY DEF WriteDone
<1>7. /\ Promised(s) = c + k + n
      /\ \A i \in 1..k : sent[s][i] = log[c + i]
      /\ \A i \in 1..n : w[i] = log[c + k + i]
  BY DEF Piece, Promised
<1>. HIDE DEF w, n, k, c
<1>8. Promised(s)' = Promised(s)
  <2>1. Len(write_msgs'[s]) = n - 1
    BY <1>2, <1>4
  <2>2. Promised(s)' = c + (k + 1) + (n - 1)
    BY <1>5, <1>6, <2>1 DEF Promised
  <2>. QED
    BY <1>2, <1>3, <1>7, <2>2
<1>9. \A i \in 1..k + 1 : sent'[s][i] = log'[c + i]
  <2>1. \A i \in 1..k : sent'[s][i] = log'[c + i]
    BY <1>3, <1>5, <1>6, <1>7
  <2>2. w[1] = log[c + k + 1]
    BY <1>2, <1>7
  <2>3. sent'[s][k + 1] = log'[c + (k + 1)]
    BY <1>3, <1>5, <1>6, <2>2
  <2>. QED
    BY <1>3, <2>1, <2>3
<1>10. \A i \in 1..n - 1 : Tail(w)[i] = log'[c + (k + 1) + i]
  BY <1>2, <1>3, <1>6, <1>7
<1>. QED
  BY <1>2, <1>3, <1>4, <1>5, <1>6, <1>8, <1>9, <1>10 DEF Piece

LEMMA PieceStep == IInv /\ [Next]_vars => PieceOfLog'
<1>. SUFFICES ASSUME IInv, [Next]_vars, NEW t \in sessions' PROVE Piece(t)'
  BY DEF PieceOfLog, Piece
<1>. USE DEF TypeOK, room, history
<1>0. TypeOK /\ \A s \in sessions : Piece(s)
  BY DEF IInv, PieceOfLog, Piece
<1>1. CASE UNCHANGED <<sessions, log, base, sent, write_msgs>>
            /\ participants' \subseteq participants
  <2>1. t \in Session /\ Piece(t)
    BY <1>0, <1>1
  <2>. QED
    BY <1>1, <2>1, PieceUnchanged
<1>2. AcceptError => UNCHANGED <<sessions, log, base, sent, write_msgs>>
                     /\ participants' \subseteq participants
  BY DEF AcceptError
<1>3. \A s \in Session :
        Connect(s) \/ ReadHeader(s) \/ ReadError(s) \/ WriteError(s)
        => UNCHANGED <<sessions, log, base, sent, write_msgs>>
           /\ participants' \subseteq participants
  BY DEF Connect, ReadHeader, ReadError, WriteError, Leave
<1>4. UNCHANGED vars => UNCHANGED <<sessions, log, base, sent, write_msgs>>
                        /\ participants' \subseteq participants
  BY DEF vars
<1>5. ASSUME NEW s \in Session, Accept(s) PROVE Piece(t)'
  <2>1. CASE t = s
    BY <1>5, <2>1, PieceOfNewSession
  <2>2. CASE t # s
    <3>1. t \in sessions /\ t \in Session
      BY <1>0, <1>5, <2>2 DEF Accept, Join
    <3>2. /\ log' = log
          /\ base'[t] = base[t]
          /\ sent'[t] = sent[t]
          /\ write_msgs'[t] = write_msgs[t]
          /\ t \in participants' => t \in participants
      BY <1>0, <1>5, <2>2, <3>1 DEF Accept, Join
    <3>. QED
      BY <1>0, <3>1, <3>2, PieceUnchanged
  <2>. QED
    BY <2>1, <2>2
<1>6. ASSUME NEW s \in Session, NEW b \in Body, ReadBody(s, b)
      PROVE  Piece(t)'
  <2>1. t \in sessions
    BY <1>6 DEF ReadBody, Deliver
  <2>. QED
    BY <1>0, <1>6, <2>1, PieceAfterPost
<1>7. ASSUME NEW s \in Session, WriteDone(s) PROVE Piece(t)'
  <2>1. t \in sessions /\ t \in Session
    BY <1>0, <1>7 DEF WriteDone
  <2>2. CASE t = s
    BY <1>0, <1>7, <2>1, <2>2, PieceAfterWrite
  <2>3. CASE t # s
    <3>1. /\ log' = log
          /\ base'[t] = base[t]
          /\ sent'[t] = sent[t]
          /\ write_msgs'[t] = write_msgs[t]
          /\ t \in participants' => t \in participants
      BY <1>0, <1>7, <2>1, <2>3 DEF WriteDone
    <3>. QED
      BY <1>0, <2>1, <3>1, PieceUnchanged
  <2>. QED
    BY <2>2, <2>3
<1>. QED
  BY <1>1, <1>2, <1>3, <1>4, <1>5, <1>6, <1>7 DEF Next

LEMMA StepIInv == IInv /\ [Next]_vars => IInv'
<1>. SUFFICES ASSUME IInv, [Next]_vars PROVE IInv'
  OBVIOUS
<1>. QED
  BY TypeStep, UntouchedStep, OneWriteStep, ServedStep, RecentStep, PieceStep
     DEF IInv

LEMMA Invariance == SafetySpec => []IInv
BY InitIInv, StepIInv, PTL DEF SafetySpec

-----------------------------------------------------------------------------
(* Every variable keeps its type: in particular only a session that was      *)
(* started is ever in the room, and nothing is popped from an empty queue.   *)
THEOREM TypeCorrect == SafetySpec => []TypeOK
<1>1. IInv => TypeOK
  BY DEF IInv
<1>. QED
  BY <1>1, Invariance, PTL

(* However many sessions there are and in whatever order their operations    *)
(* complete, each socket has at most one async_write outstanding, and it     *)
(* writes from the front of the queue (chat_session::deliver and do_write).  *)
THEOREM NoOverlappingWrites == SafetySpec => []OneWriteFromFront
<1>1. IInv => OneWriteFromFront
  BY DEF IInv
<1>. QED
  BY <1>1, Invariance, PTL

(* Whoever is in the room has a read outstanding, and a write as well if     *)
(* anything is queued for it: no participant is ever forgotten.              *)
THEOREM NobodyForgotten == SafetySpec => []ParticipantsServed
<1>1. IInv => ParticipantsServed
  BY DEF IInv
<1>. QED
  BY <1>1, Invariance, PTL

(* recent_msgs_ is the end of the log, and never longer than its limit. *)
THEOREM RecentCorrect == SafetySpec => []RecentIsEndOfLog
<1>1. IInv => RecentIsEndOfLog
  BY DEF IInv
<1>. QED
  BY <1>1, Invariance, PTL

(* Every session is sent an unbroken piece of the log, in log order, and a   *)
(* participant is never behind the log by more than its own queue.           *)
THEOREM UnbrokenPieces == SafetySpec => []PieceOfLog
<1>1. IInv => PieceOfLog
  BY DEF IInv
<1>. QED
  BY <1>1, Invariance, PTL

-----------------------------------------------------------------------------
(* What a step may never do, and the refinement of ChatBroadcast. *)

LEMMA BrokenIsOut ==
  ASSUME IInv, NEW s \in sessions, Broken(s)
  PROVE  s \in Session /\ s \notin participants /\ s \notin backlog
BY DEF IInv, TypeOK, ParticipantsServed, BacklogIsNew, Broken

(* A session whose write failed is never written to again and never comes    *)
(* back into the room: its queue is frozen as the failure left it.           *)
THEOREM BrokenStaysBroken == SafetySpec => BrokenForGood
<1>. DEFINE Frozen == \A s \in Session : s \in sessions /\ Broken(s) =>
                        /\ Broken(s)'
                        /\ sent'[s] = sent[s]
                        /\ s \notin participants'
<1>1. IInv /\ [Next]_vars => Frozen
  <2>. SUFFICES ASSUME IInv, [Next]_vars,
                       NEW s \in Session, s \in sessions, Broken(s)
                PROVE  /\ write_msgs'[s] = write_msgs[s]
                       /\ inflight'[s] = inflight[s]
                       /\ sent'[s] = sent[s]
                       /\ s \notin participants'
    BY DEF Broken
  <2>. DEFINE Same == /\ write_msgs'[s] = write_msgs[s]
                      /\ inflight'[s] = inflight[s]
                      /\ sent'[s] = sent[s]
                      /\ s \notin participants'
  <2>. USE DEF TypeOK, room, history
  <2>0. /\ TypeOK
        /\ s \notin participants /\ s \notin backlog
        /\ inflight[s] = <<>>
    BY BrokenIsOut DEF IInv, Broken
  <2>1. CASE AcceptError
    BY <2>0, <2>1 DEF AcceptError
  <2>2. ASSUME NEW t \in Session, Connect(t) PROVE Same
    BY <2>0, <2>2 DEF Connect
  <2>3. ASSUME NEW t \in Session, Accept(t) PROVE Same
    BY <2>0, <2>3 DEF Accept, Join
  <2>4. ASSUME NEW t \in Session, ReadHeader(t) PROVE Same
    BY <2>0, <2>4 DEF ReadHeader
  <2>5. ASSUME NEW t \in Session, ReadError(t) PROVE Same
    BY <2>0, <2>5 DEF ReadError, Leave
  <2>6. ASSUME NEW t \in Session, NEW b \in Body, ReadBody(t, b) PROVE Same
    BY <2>0, <2>6 DEF ReadBody, Deliver
  <2>7. ASSUME NEW t \in Session, WriteDone(t) PROVE Same
    BY <2>0, <2>7 DEF WriteDone
  <2>8. ASSUME NEW t \in Session, WriteError(t) PROVE Same
    BY <2>0, <2>8 DEF WriteError, Leave
  <2>9. CASE UNCHANGED vars
    BY <2>0, <2>9 DEF vars
  <2>. QED
    BY <2>1, <2>2, <2>3, <2>4, <2>5, <2>6, <2>7, <2>8, <2>9 DEF Next
<1>2. IInv /\ [Next]_vars => [Frozen]_vars
  BY <1>1
<1>3. SafetySpec => [][Frozen]_vars
  BY <1>2, Invariance, PTL DEF SafetySpec
<1>. QED
  BY <1>3 DEF BrokenForGood

BrokenSet == {s \in sessions : Broken(s)}
PromisedFn == [s \in Session |-> Promised(s)]
bvars == <<log, sessions, participants, BrokenSet, base, PromisedFn, sent>>

LEMMA RefinedInit == Init => Broadcast!Init
<1>. SUFFICES ASSUME Init PROVE Broadcast!Init
  OBVIOUS
<1>1. PromisedFn = [s \in Session |-> 0]
  BY EmptySeq DEF Init, PromisedFn, Promised
<1>. QED
  BY <1>1 DEF Init, Broadcast!Init, Broken, PromisedFn

(* Nothing the broadcast knows of has changed. *)
LEMMA Unnoticed ==
  ASSUME UNCHANGED <<log, sessions, participants, write_msgs, inflight, base,
                     sent>>
  PROVE  UNCHANGED bvars
BY DEF bvars, BrokenSet, PromisedFn, Broken, Promised

LEMMA AcceptIsJoin ==
  ASSUME IInv, NEW s \in Session, Accept(s)
  PROVE  Broadcast!Join(s)
<1>. USE DEF TypeOK, room, history
<1>0. TypeOK /\ s \notin sessions /\ RecentIsEndOfLog
  BY DEF IInv, Accept, Join, BacklogIsNew
<1>1. write_msgs[s] = <<>> /\ sent[s] = <<>> /\ inflight[s] = <<>>
  BY <1>0 DEF IInv, Untouched
<1>2. Len(log) \in Nat /\ Len(recent_msgs) \in Nat
  BY <1>0
<1>3. Len(log) - Len(recent_msgs)
        = IF Len(log) > MaxRecent THEN Len(log) - MaxRecent ELSE 0
  BY <1>0, <1>2, MaxRecentAssumption DEF RecentIsEndOfLog
<1>4. base' = [base EXCEPT ![s] = IF Len(log) > MaxRecent
                                  THEN Len(log) - MaxRecent ELSE 0]
  BY <1>3 DEF Accept, Join
<1>5. write_msgs'[s] = recent_msgs
  BY <1>0, <1>1, QueuedOnEmpty DEF Accept, Join
<1>6. recent_msgs # <<>> => inflight'[s] # <<>>
  BY <1>0, <1>1, OneElement DEF Accept, Join, Writing
<1>7. \A t \in Session \ {s} :
        /\ write_msgs'[t] = write_msgs[t]
        /\ inflight'[t] = inflight[t]
        /\ base'[t] = base[t]
  BY <1>0 DEF Accept, Join
<1>8. UNCHANGED <<log, sent>> /\ sessions' = sessions \cup {s}
      /\ participants' = participants \cup {s}
  BY DEF Accept, Join
<1>9. BrokenSet' = BrokenSet
  <2>1. ~Broken(s)'
    BY <1>5, <1>6 DEF Broken
  <2>2. \A t \in sessions : Broken(t)' <=> Broken(t)
    BY <1>0, <1>7 DEF Broken
  <2>. QED
    BY <1>0, <1>8, <2>1, <2>2 DEF BrokenSet
<1>10. PromisedFn' = [PromisedFn EXCEPT ![s] = Len(log)]
  <2>1. Promised(s)' = Len(log)
    <3>1. base'[s] = Len(log) - Len(recent_msgs)
      BY <1>0 DEF Accept, Join
    <3>2. Len(sent'[s]) = 0
      BY <1>1, <1>8, EmptySeq
    <3>. QED
      BY <1>2, <1>5, <3>1, <3>2 DEF Promised
  <2>2. \A t \in Session \ {s} : Promised(t)' = Promised(t)
    BY <1>7, <1>8 DEF Promised
  <2>. QED
    BY <2>1, <2>2 DEF PromisedFn
<1>. QED
  BY <1>0, <1>4, <1>8, <1>9, <1>10 DEF Broadcast!Join, BrokenSet, PromisedFn

LEMMA ReadBodyIsPost ==
  ASSUME IInv, NEW s \in Session, NEW b \in Body, ReadBody(s, b)
  PROVE  Broadcast!Post(b)
<1>. USE DEF TypeOK, room, history
<1>0. TypeOK /\ OneWriteFromFront /\ ParticipantsServed
  BY DEF IInv
<1>1. /\ Len(log) < MaxLog
      /\ log' = Append(log, b)
      /\ UNCHANGED <<sessions, participants, base, sent>>
  BY DEF ReadBody, Deliver
<1>2. ASSUME NEW t \in participants
      PROVE  /\ t \in Session
             /\ Len(write_msgs'[t]) = Len(write_msgs[t]) + 1
             /\ write_msgs[t] # <<>> => inflight[t] # <<>>
             /\ inflight'[t] # <<>>
  <2>1. t \in Session /\ write_msgs[t] \in Seq(Body) /\ inflight[t] \in Seq(Body)
    BY <1>0
  <2>2. /\ write_msgs'[t] = Queued(write_msgs[t], <<b>>)
        /\ inflight'[t] = Writing(write_msgs[t], inflight[t], <<b>>)
    BY <2>1 DEF ReadBody, Deliver
  <2>3. Len(write_msgs'[t]) = Len(write_msgs[t]) + 1
    BY <2>1, <2>2, QueuedOne, PushBack
  <2>4. inflight[t] # <<>> =>
          write_msgs[t] # <<>> /\ inflight[t] = <<Head(write_msgs[t])>>
    BY <1>0, <2>1 DEF OneWriteFromFront
  <2>5. write_msgs[t] # <<>> => inflight[t] # <<>>
    BY <1>0 DEF ParticipantsServed
  <2>6. inflight'[t] # <<>>
    BY <2>1, <2>2, <2>4, <2>5, DeliverOne
  <2>. QED
    BY <2>1, <2>3, <2>5, <2>6
<1>3. \A t \in Session \ participants :
        write_msgs'[t] = write_msgs[t] /\ inflight'[t] = inflight[t]
  BY <1>0 DEF ReadBody, Deliver
<1>4. BrokenSet' = BrokenSet
  <2>1. \A t \in sessions : Broken(t)' <=> Broken(t)
    BY <1>0, <1>2, <1>3 DEF Broken
  <2>. QED
    BY <1>1, <2>1 DEF BrokenSet
<1>5. PromisedFn' = [t \in Session |->
         IF t \in participants THEN PromisedFn[t] + 1 ELSE PromisedFn[t]]
  <2>1. \A t \in participants : Promised(t)' = Promised(t) + 1
    <3>. SUFFICES ASSUME NEW t \in participants
                  PROVE  Promised(t)' = Promised(t) + 1
      OBVIOUS
    <3>1. /\ base[t] \in Nat /\ Len(sent[t]) \in Nat
          /\ Len(write_msgs[t]) \in Nat
      BY <1>0
    <3>2. Promised(t)' = base[t] + Len(sent[t]) + (Len(write_msgs[t]) + 1)
      BY <1>1, <1>2 DEF Promised
    <3>3. Promised(t) = base[t] + Len(sent[t]) + Len(write_msgs[t])
      BY DEF Promised
    <3>4. base[t] + Len(sent[t]) + (Len(write_msgs[t]) + 1)
            = (base[t] + Len(sent[t]) + Len(write_msgs[t])) + 1
      BY <3>1
    <3>. QED
      BY <3>2, <3>3, <3>4
  <2>2. \A t \in Session \ participants : Promised(t)' = Promised(t)
    BY <1>1, <1>3 DEF Promised
  <2>. QED
    BY <1>0, <2>1, <2>2 DEF PromisedFn
<1>. QED
  BY <1>1, <1>4, <1>5 DEF Broadcast!Post, BrokenSet, PromisedFn

LEMMA WriteDoneIsSee ==
  ASSUME IInv, NEW s \in Session, WriteDone(s)
  PROVE  Broadcast!See(s)
<1>. USE DEF TypeOK, room, history
<1>0. TypeOK /\ OneWriteFromFront
  BY DEF IInv
<1>1. s \in sessions
  BY <1>0 DEF WriteDone, IInv, Untouched
<1>2. /\ inflight[s] # <<>> /\ write_msgs[s] # <<>>
      /\ Head(inflight[s]) = Head(write_msgs[s])
      /\ Tail(inflight[s]) = <<>>
  BY <1>0, OneWrite DEF WriteDone
<1>3. /\ base[s] \in Nat /\ Len(sent[s]) \in Nat
      /\ Len(write_msgs[s]) \in Nat \ {0}
      /\ Len(Tail(write_msgs[s])) = Len(write_msgs[s]) - 1
      /\ Head(write_msgs[s]) = write_msgs[s][1]
      /\ Head(write_msgs[s]) \in Body
  BY <1>0, <1>2, PopFront
<1>4. Head(inflight[s]) = log[base[s] + Len(sent[s]) + 1]
  BY <1>1, <1>2, <1>3 DEF IInv, PieceOfLog
<1>5. sent' = [sent EXCEPT ![s] = Append(@, log[base[s] + Len(sent[s]) + 1])]
  BY <1>4 DEF WriteDone
<1>6. UNCHANGED <<log, sessions, participants, base>>
  BY DEF WriteDone
<1>7. write_msgs'[s] = Tail(write_msgs[s])
  BY <1>0 DEF WriteDone
<1>8. Tail(write_msgs[s]) # <<>> => inflight'[s] # <<>>
  <2>1. Tail(write_msgs[s]) # <<>> =>
          inflight'[s] = Append(<<>>, Head(Tail(write_msgs[s])))
    BY <1>0, <1>2 DEF WriteDone
  <2>2. \A e : Append(<<>>, e) # <<>>
    OBVIOUS
  <2>. QED
    BY <2>1, <2>2
<1>9. \A t \in Session \ {s} :
        /\ write_msgs'[t] = write_msgs[t]
        /\ inflight'[t] = inflight[t]
        /\ sent'[t] = sent[t]
  BY <1>0 DEF WriteDone
<1>10. BrokenSet' = BrokenSet /\ s \notin BrokenSet
  <2>1. ~Broken(s) /\ ~Broken(s)'
    BY <1>2, <1>7, <1>8 DEF Broken
  <2>2. \A t \in sessions \ {s} : Broken(t)' <=> Broken(t)
    BY <1>0, <1>9 DEF Broken
  <2>. QED
    BY <1>6, <2>1, <2>2 DEF BrokenSet
<1>11. PromisedFn' = PromisedFn
  <2>1. Promised(s)' = Promised(s)
    <3>1. Len(sent'[s]) = Len(sent[s]) + 1
      BY <1>0, <1>2, <1>3, PushBack DEF WriteDone
    <3>2. Promised(s)' = base[s] + (Len(sent[s]) + 1) + (Len(write_msgs[s]) - 1)
      BY <1>3, <1>6, <1>7, <3>1 DEF Promised
    <3>3. Promised(s) = base[s] + Len(sent[s]) + Len(write_msgs[s])
      BY DEF Promised
    <3>. QED
      BY <1>3, <3>2, <3>3
  <2>2. \A t \in Session \ {s} : Promised(t)' = Promised(t)
    BY <1>6, <1>9 DEF Promised
  <2>. QED
    BY <2>1, <2>2 DEF PromisedFn
<1>12. base[s] + Len(sent[s]) < PromisedFn[s]
  BY <1>3 DEF PromisedFn, Promised
<1>. QED
  BY <1>1, <1>5, <1>6, <1>10, <1>11, <1>12
     DEF Broadcast!See, Broadcast!Pending, BrokenSet, PromisedFn

LEMMA WriteErrorIsBreak ==
  ASSUME IInv, NEW s \in Session, WriteError(s)
  PROVE  Broadcast!Break(s)
<1>. USE DEF TypeOK, room, history
<1>0. TypeOK /\ OneWriteFromFront
  BY DEF IInv
<1>1. s \in sessions
  BY <1>0 DEF WriteError, IInv, Untouched
<1>2. /\ inflight[s] # <<>> /\ write_msgs[s] # <<>>
      /\ Tail(inflight[s]) = <<>>
  BY <1>0, OneWrite DEF WriteError
<1>3. /\ base[s] \in Nat /\ Len(sent[s]) \in Nat
      /\ Len(write_msgs[s]) \in Nat \ {0}
  BY <1>0, <1>2, PopFront
<1>4. /\ UNCHANGED <<log, sessions, base, sent, write_msgs>>
      /\ participants' = participants \ {s}
  BY DEF WriteError, Leave
<1>5. /\ inflight'[s] = <<>>
      /\ \A t \in Session \ {s} : inflight'[t] = inflight[t]
  BY <1>0, <1>2 DEF WriteError
<1>6. BrokenSet' = BrokenSet \cup {s} /\ s \notin BrokenSet
  <2>1. ~Broken(s) /\ Broken(s)'
    BY <1>2, <1>4, <1>5 DEF Broken
  <2>2. \A t \in sessions \ {s} : Broken(t)' <=> Broken(t)
    BY <1>0, <1>4, <1>5 DEF Broken
  <2>. QED
    BY <1>1, <1>4, <2>1, <2>2 DEF BrokenSet
<1>7. PromisedFn' = PromisedFn
  BY <1>4 DEF PromisedFn, Promised
<1>8. base[s] + Len(sent[s]) < PromisedFn[s]
  BY <1>3 DEF PromisedFn, Promised
<1>. QED
  BY <1>1, <1>4, <1>6, <1>7, <1>8
     DEF Broadcast!Break, Broadcast!Pending, BrokenSet, PromisedFn

LEMMA RefinedStep == IInv /\ [Next]_vars => Broadcast!Next \/ UNCHANGED bvars
<1>. SUFFICES ASSUME IInv, [Next]_vars
              PROVE  Broadcast!Next \/ UNCHANGED bvars
  OBVIOUS
<1>. USE DEF room, history
<1>1. CASE AcceptError
  BY <1>1, Unnoticed DEF AcceptError
<1>2. ASSUME NEW s \in Session, Connect(s) PROVE UNCHANGED bvars
  BY <1>2, Unnoticed DEF Connect
<1>3. ASSUME NEW s \in Session, Accept(s) PROVE Broadcast!Next
  BY <1>3, AcceptIsJoin DEF Broadcast!Next
<1>4. ASSUME NEW s \in Session, ReadHeader(s) PROVE UNCHANGED bvars
  BY <1>4, Unnoticed DEF ReadHeader
<1>5. ASSUME NEW s \in Session, ReadError(s)
      PROVE  Broadcast!Next \/ UNCHANGED bvars
  <2>1. CASE s \in participants
    <3>1. UNCHANGED <<BrokenSet, PromisedFn>>
      BY <1>5 DEF ReadError, BrokenSet, PromisedFn, Broken, Promised
    <3>2. Broadcast!Leave(s)
      BY <1>5, <2>1, <3>1
         DEF ReadError, Leave, Broadcast!Leave, BrokenSet, PromisedFn
    <3>. QED
      BY <3>2 DEF Broadcast!Next
  <2>2. CASE s \notin participants
    <3>1. participants' = participants
      BY <1>5, <2>2 DEF ReadError, Leave
    <3>. QED
      BY <1>5, <3>1, Unnoticed DEF ReadError
  <2>. QED
    BY <2>1, <2>2
<1>6. ASSUME NEW s \in Session, NEW b \in Body, ReadBody(s, b)
      PROVE  Broadcast!Next
  BY <1>6, ReadBodyIsPost DEF Broadcast!Next
<1>7. ASSUME NEW s \in Session, WriteDone(s) PROVE Broadcast!Next
  BY <1>7, WriteDoneIsSee DEF Broadcast!Next
<1>8. ASSUME NEW s \in Session, WriteError(s) PROVE Broadcast!Next
  BY <1>8, WriteErrorIsBreak DEF Broadcast!Next
<1>9. CASE UNCHANGED vars
  BY <1>9, Unnoticed DEF vars
<1>. QED
  BY <1>1, <1>2, <1>3, <1>4, <1>5, <1>6, <1>7, <1>8, <1>9 DEF Next

(* The safety part of ImplementsBroadcast: whatever the server does, a room  *)
(* that is one growing log could have done.  (That everything promised is    *)
(* delivered rests on fairness, and is left to the model checker.)           *)
THEOREM Refinement == SafetySpec => Broadcast!SafetySpec
<1>1. Init => Broadcast!Init
  BY RefinedInit
<1>2. IInv /\ [Next]_vars => [Broadcast!Next]_Broadcast!vars
  BY RefinedStep DEF bvars, Broadcast!vars, BrokenSet, PromisedFn
<1>. QED
  BY <1>1, <1>2, Invariance, PTL DEF SafetySpec, Broadcast!SafetySpec
=============================================================================
