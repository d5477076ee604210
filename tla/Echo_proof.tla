------------------------------ MODULE Echo_proof ------------------------------
(***************************************************************************)
(* Proofs about the echo servers with their clients: echoes are exact, of  *)
(* the server and of its tracking twin, whose writes return their memory,  *)
(* and what a client shows by udp is its own line or a stranger's.         *)
(***************************************************************************)
EXTENDS EchoTwin, UdpEcho, SequenceTheorems, TLAPS

(* A part of a sequence and what is behind it are the sequence. *)
LEMMA Parted ==
  ASSUME NEW s \in Seq(Nat), NEW n \in Nat, n <= Len(s)
  PROVE  /\ First(s, n) \in Seq(Nat) /\ Len(First(s, n)) = n
         /\ Without(s, n) \in Seq(Nat) /\ Len(Without(s, n)) = Len(s) - n
         /\ First(s, n) \o Without(s, n) = s
<1>1. Len(s) \in Nat /\ \A i \in 1..Len(s) : s[i] \in Nat
  BY LenProperties, ElementOfSeq
<1>2. First(s, n) \in Seq(Nat) /\ Len(First(s, n)) = n
  <2>1. \A i \in 1..n : s[i] \in Nat  BY <1>1
  <2> QED  BY <2>1, SubSeqProperties DEF First
<1>3. Without(s, n) \in Seq(Nat) /\ Len(Without(s, n)) = Len(s) - n
  <2>1. \A i \in n + 1..Len(s) : s[i] \in Nat  BY <1>1
  <2> QED  BY <2>1, <1>1, SubSeqProperties DEF Without
<1>4. First(s, n) \o Without(s, n) = s
  <2>1. /\ 1 \in 1..Len(s) + 1 /\ n \in 1 - 1..Len(s)
        /\ Len(s) \in n..Len(s)
    BY <1>1
  <2>2. SubSeq(s, 1, n) \o SubSeq(s, n + 1, Len(s)) = SubSeq(s, 1, Len(s))
    BY <2>1, ConcatAdjacentSubSeq
  <2> QED  BY <2>2, SubSeqFull, Zenon DEF First, Without
<1> QED  BY <1>2, <1>3, <1>4

LEMMA Associative ==
  \A s, t, u \in Seq(Nat) : (s \o t) \o u = s \o (t \o u)
BY ConcatAssociative

(* The front of one sequence moved behind another. *)
LEMMA Moved ==
  ASSUME NEW a \in Seq(Nat), NEW s \in Seq(Nat), NEW n \in Nat, n <= Len(s)
  PROVE  /\ a \o First(s, n) \in Seq(Nat)
         /\ (a \o First(s, n)) \o Without(s, n) = a \o s
<1>1. /\ First(s, n) \in Seq(Nat) /\ Without(s, n) \in Seq(Nat)
      /\ First(s, n) \o Without(s, n) = s
  BY Parted
<1>2. a \o First(s, n) \in Seq(Nat)  BY <1>1, ConcatProperties
<1>3. (a \o First(s, n)) \o Without(s, n) = a \o (First(s, n) \o Without(s, n))
  BY <1>1, Associative, Zenon
<1> QED  BY <1>1, <1>2, <1>3, Zenon

LEMMA NumbersAreASequence ==
  ASSUME NEW n \in Nat
  PROVE  /\ Numbers(n) \in Seq(Nat) /\ Len(Numbers(n)) = n
         /\ \A i \in 1..n : Numbers(n)[i] = i
<1>1. Numbers(n) \in [1..n -> Nat]  BY DEF Numbers
<1>2. Numbers(n) \in Seq(Nat)  BY <1>1, SeqDef
<1>3. Len(Numbers(n)) = n
  <2> DEFINE l == Len(Numbers(n))
  <2>1. l \in Nat /\ DOMAIN Numbers(n) = 1..l  BY <1>2, LenProperties
  <2>2. 1..l = 1..n  BY <2>1 DEF Numbers
  <2>3. l \in 1..l => l \in 1..n  BY <2>2
  <2>4. n \in 1..n => n \in 1..l  BY <2>2
  <2>5. l \in Nat  BY <2>1
  <2>6. l = n
    <3> HIDE DEF l
    <3> QED  BY <2>3, <2>4, <2>5
  <2> QED  BY <2>6
<1> QED  BY <1>2, <1>3 DEF Numbers

LEMMA NextNumber ==
  ASSUME NEW n \in Nat
  PROVE  Append(Numbers(n), n + 1) = Numbers(n + 1)
<1>1. /\ Numbers(n) \in Seq(Nat) /\ Len(Numbers(n)) = n
      /\ \A i \in 1..n : Numbers(n)[i] = i
  BY NumbersAreASequence
<1>2. /\ Numbers(n + 1) \in Seq(Nat) /\ Len(Numbers(n + 1)) = n + 1
      /\ \A i \in 1..n + 1 : Numbers(n + 1)[i] = i
  BY NumbersAreASequence
<1>3. /\ Append(Numbers(n), n + 1) \in Seq(Nat)
      /\ Len(Append(Numbers(n), n + 1)) = n + 1
      /\ \A i \in 1..n : Append(Numbers(n), n + 1)[i] = Numbers(n)[i]
      /\ Append(Numbers(n), n + 1)[n + 1] = n + 1
  BY <1>1, AppendProperties
<1>4. \A i \in 1..n + 1 :
        Append(Numbers(n), n + 1)[i] = Numbers(n + 1)[i]
  <2> TAKE i \in 1..n + 1
  <2>1. CASE i = n + 1  BY <2>1, <1>2, <1>3
  <2>2. CASE i # n + 1
    <3>1. i \in 1..n  BY <2>2
    <3> QED  BY <3>1, <1>1, <1>2, <1>3
  <2> QED  BY <2>1, <2>2
<1> QED  BY <1>2, <1>3, <1>4, SeqEqual

(* The beginning of the first numbers is the first numbers. *)
LEMMA BeginningOfNumbers ==
  ASSUME NEW a \in Seq(Nat), NEW b \in Seq(Nat), NEW n \in Nat,
         a \o b = Numbers(n)
  PROVE  a = Numbers(Len(a))
<1>1. /\ Len(a) \in Nat /\ Len(b) \in Nat
      /\ Len(a \o b) = Len(a) + Len(b)
      /\ \A i \in 1..Len(a) + Len(b) :
           (a \o b)[i] = IF i <= Len(a) THEN a[i] ELSE b[i - Len(a)]
  BY ConcatProperties, LenProperties
<1>2. Len(Numbers(n)) = n /\ \A i \in 1..n : Numbers(n)[i] = i
  BY NumbersAreASequence
<1>3. /\ Numbers(Len(a)) \in Seq(Nat) /\ Len(Numbers(Len(a))) = Len(a)
      /\ \A i \in 1..Len(a) : Numbers(Len(a))[i] = i
  BY <1>1, NumbersAreASequence
<1>4. \A i \in 1..Len(a) : a[i] = Numbers(Len(a))[i]
  <2> TAKE i \in 1..Len(a)
  <2>1. i \in 1..n /\ i \in 1..Len(a) + Len(b) /\ i <= Len(a)
    BY <1>1, <1>2
  <2>2. (a \o b)[i] = a[i]  BY <2>1, <1>1
  <2>3. (a \o b)[i] = i  BY <2>1, <1>2
  <2> QED  BY <2>2, <2>3, <1>3
<1> QED  BY <1>3, <1>4, SeqEqual

-----------------------------------------------------------------------------
(* What has left the session for the client. *)
Coming(c) == shown[c] \o down[c]

(* It is in order, after the session was closed too. *)
ComesInOrder(c) == \E k \in Nat : Coming(c) = Numbers(k)

NothingIsLost(c) ==
  session[c] # "closed" => Coming(c) \o buffer[c] \o up[c] = Numbers(sent[c])

(* A read finds the buffer written back. *)
BufferIsFree(c) ==
  session[c] \in {"none", "pending", "reading"} => buffer[c] = <<>>

NoSessionYet(c) == client[c] = "start" => session[c] = "none"

(* A client shows nothing before it has written its line, and writes no more *)
(* than that; a session that writes has something to write.                  *)
LineFirst(c) ==
  /\ client[c] \in {"start", "asking", "spinning", "writing"} => shown[c] = <<>>
  /\ client[c] \in {"start", "asking", "spinning"} => sent[c] = 0
  /\ client[c] = "writing" => sent[c] < request_length[c]
  /\ session[c] = "writing" => buffer[c] # <<>>

Exact(c) ==
  /\ ComesInOrder(c) /\ NothingIsLost(c) /\ BufferIsFree(c) /\ NoSessionYet(c)
  /\ LineFirst(c)

IInv == TypeOK /\ \A c \in Client : Exact(c)

LEMMA TypesOf ==
  ASSUME TypeOK, NEW c \in Client
  PROVE  /\ shown[c] \in Seq(Nat) /\ buffer[c] \in Seq(Nat)
         /\ up[c] \in Seq(Nat) /\ down[c] \in Seq(Nat)
         /\ Coming(c) \in Seq(Nat) /\ sent[c] \in Nat /\ request_length[c] \in Nat
<1>1. /\ shown \in [Client -> Seq(Nat)] /\ buffer \in [Client -> Seq(Nat)]
      /\ up \in [Client -> Seq(Nat)] /\ down \in [Client -> Seq(Nat)]
      /\ sent \in [Client -> Nat] /\ request_length \in [Client -> Nat]
  BY DEF TypeOK
<1>2. /\ shown[c] \in Seq(Nat) /\ buffer[c] \in Seq(Nat)
      /\ up[c] \in Seq(Nat) /\ down[c] \in Seq(Nat) /\ sent[c] \in Nat
      /\ request_length[c] \in Nat
  BY <1>1
<1> QED  BY <1>2, ConcatProperties DEF Coming

(* A step of one client or its session, and what the others see of it. *)
Rest(d) ==
  UNCHANGED <<client[d], request_length[d], sent[d], shown[d], session[d],
              buffer[d], up[d], down[d]>>

LEMMA Rests ==
  ASSUME NEW d \in Client, Exact(d), Rest(d)
  PROVE  Exact(d)'
BY DEF Exact, Rest, ComesInOrder, NothingIsLost, BufferIsFree, NoSessionYet,
       LineFirst, Coming

OneStep(c) == TypeOK' /\ Exact(c)' /\ \A d \in Client : d # c => Rest(d)

LEMMA OnlyOneMoves ==
  ASSUME IInv, NEW c \in Client, OneStep(c)
  PROVE  IInv'
<1> SUFFICES ASSUME NEW d \in Client PROVE Exact(d)'
  BY DEF IInv, OneStep
<1>1. CASE d = c  BY <1>1 DEF OneStep
<1>2. CASE d # c  BY <1>2, Rests DEF IInv, OneStep
<1> QED  BY <1>1, <1>2

-----------------------------------------------------------------------------
(* The clients' steps. *)

LEMMA ConnectStep ==
  ASSUME IInv, NEW c \in Client, Connect(c)
  PROVE  OneStep(c)
<1>1. TypeOK'
  BY DEF IInv, TypeOK, Connect
<1>2. /\ client'[c] = "asking" /\ session'[c] = "pending"
      /\ UNCHANGED <<sent, shown, buffer, up, down>>
  BY DEF IInv, TypeOK, Connect
<1>3. Exact(c)'
  <2>1. Exact(c) /\ client[c] = "start"  BY DEF IInv, Connect
  <2>2. session[c] = "none"  BY <2>1 DEF Exact, NoSessionYet
  <2> QED
    BY <1>2, <2>1, <2>2
    DEF Exact, ComesInOrder, NothingIsLost, BufferIsFree, NoSessionYet, LineFirst, Coming
<1>4. \A d \in Client : d # c => Rest(d)
  BY DEF IInv, TypeOK, Connect, Rest
<1> QED  BY <1>1, <1>3, <1>4 DEF OneStep

(* A line is typed, or none ever will be. *)
LEMMA AskingStep ==
  ASSUME IInv, NEW c \in Client,
         EndOfInput(c) \/ \E n \in LineLengths : Types(c, n)
  PROVE  OneStep(c)
<1>0. TypeOK /\ Exact(c) /\ client[c] = "asking"
  BY DEF IInv, EndOfInput, Types
<1>1. \/ /\ client' = [client EXCEPT ![c] = "spinning"]
         /\ request_length' = request_length
      \/ \E n \in Nat \ {0} :
           /\ client' = [client EXCEPT ![c] = "writing"]
           /\ request_length' = [request_length EXCEPT ![c] = n]
  BY WindowAssumption DEF EndOfInput, Types
<1>2. UNCHANGED <<accepting, sent, shown, session, buffer, up, down>>
  BY DEF EndOfInput, Types
<1>3. TypeOK'  BY <1>0, <1>1, <1>2 DEF TypeOK
<1>4. /\ client'[c] \in {"spinning", "writing"}
      /\ client'[c] = "writing" => 0 < request_length'[c]
  BY <1>0, <1>1 DEF TypeOK
<1>5. Exact(c)'
  BY <1>0, <1>2, <1>4
  DEF Exact, ComesInOrder, NothingIsLost, BufferIsFree, NoSessionYet, LineFirst, Coming
<1>6. \A d \in Client : d # c => Rest(d)
  BY <1>0, <1>1, <1>2 DEF TypeOK, Rest
<1> QED  BY <1>3, <1>5, <1>6 DEF OneStep

LEMMA PersonStep ==
  ASSUME IInv, NEW c \in Client, Person(c)
  PROVE  OneStep(c)
BY ConnectStep, AskingStep DEF Person

LEMMA AppendBehind ==
  \A s, t \in Seq(Nat), e \in Nat : s \o Append(t, e) = Append(s \o t, e)
<1> TAKE s \in Seq(Nat), t \in Seq(Nat), e \in Nat
<1>1. /\ <<e>> \in Seq(Nat) /\ s \o t \in Seq(Nat)
  BY ConcatProperties
<1>2. Append(t, e) = t \o <<e>> /\ Append(s \o t, e) = (s \o t) \o <<e>>
  BY <1>1, AppendIsConcat
<1> QED  BY <1>1, <1>2, Associative

LEMMA ClientWriteStep ==
  ASSUME IInv, NEW c \in Client, ClientWrite(c)
  PROVE  OneStep(c)
<1>0. TypeOK /\ Exact(c)  BY DEF IInv
<1>1. /\ shown[c] \in Seq(Nat) /\ buffer[c] \in Seq(Nat)
      /\ up[c] \in Seq(Nat) /\ down[c] \in Seq(Nat)
      /\ Coming(c) \in Seq(Nat) /\ sent[c] \in Nat /\ request_length[c] \in Nat
  BY <1>0, TypesOf
<1>2. /\ sent'[c] = sent[c] + 1 /\ up'[c] = Append(up[c], sent[c] + 1)
      /\ client[c] = "writing" /\ client'[c] \in {"writing", "reading"}
      /\ client'[c] = "writing" => sent[c] + 1 # request_length[c]
      /\ session[c] # "closed"
      /\ UNCHANGED <<request_length, shown, session, buffer, down>>
  BY <1>0 DEF TypeOK, ClientWrite, WholeLine
<1>3. TypeOK'
  <2>1. up'[c] \in Seq(Nat)  BY <1>1, <1>2, AppendProperties
  <2>2. up' \in [Client -> Seq(Nat)]
    <3>1. up' = [up EXCEPT ![c] = up'[c]] /\ up \in [Client -> Seq(Nat)]
      BY <1>0 DEF TypeOK, ClientWrite
    <3> QED  BY <2>1, <3>1
  <2>3. sent' \in [Client -> Nat]
    BY <1>0, <1>1, <1>2 DEF TypeOK, ClientWrite
  <2> QED  BY <1>0, <2>2, <2>3 DEF TypeOK, ClientWrite
<1>4. Exact(c)'
  <2>1. Coming(c)' = Coming(c)  BY <1>2 DEF Coming
  <2>2. NothingIsLost(c)'
    <3>1. Coming(c) \o buffer[c] \in Seq(Nat)
      BY <1>1, ConcatProperties
    <3>2. Coming(c) \o buffer[c] \o up[c] = Numbers(sent[c])
      BY <1>0, <1>2 DEF Exact, NothingIsLost
    <3>3. Coming(c) \o buffer[c] \o Append(up[c], sent[c] + 1)
            = Append(Coming(c) \o buffer[c] \o up[c], sent[c] + 1)
      <4>1. sent[c] + 1 \in Nat  BY <1>1
      <4> QED  BY <1>1, <3>1, <4>1, AppendBehind, Zenon
    <3>4. Append(Numbers(sent[c]), sent[c] + 1) = Numbers(sent[c] + 1)
      BY <1>1, NextNumber
    <3> QED
      BY <1>2, <2>1, <3>2, <3>3, <3>4, Zenon DEF NothingIsLost
  <2>3. LineFirst(c)'
    <3>1. LineFirst(c)  BY <1>0 DEF Exact
    <3>2. client'[c] = "writing" => sent[c] + 1 < request_length[c]
      BY <1>1, <1>2, <3>1 DEF LineFirst
    <3> QED  BY <1>2, <3>1, <3>2 DEF LineFirst
  <2> QED
    BY <1>0, <1>2, <2>1, <2>2, <2>3
    DEF Exact, ComesInOrder, BufferIsFree, NoSessionYet
<1>5. \A d \in Client : d # c => Rest(d)
  BY <1>0 DEF TypeOK, ClientWrite, Rest
<1> QED  BY <1>3, <1>4, <1>5 DEF OneStep

LEMMA ClientReadStep ==
  ASSUME IInv, NEW c \in Client, NEW n \in Nat, ClientRead(c, n)
  PROVE  OneStep(c)
<1>0. TypeOK /\ Exact(c)  BY DEF IInv
<1>1. /\ shown[c] \in Seq(Nat) /\ down[c] \in Seq(Nat) /\ n <= Len(down[c])
  BY <1>0, TypesOf DEF ClientRead
<1>2. /\ shown'[c] = shown[c] \o First(down[c], n)
      /\ down'[c] = Without(down[c], n)
      /\ client'[c] \in {"reading", "done"}
      /\ UNCHANGED <<sent, session, buffer, up>>
  BY <1>0 DEF TypeOK, ClientRead
<1>3. shown'[c] \in Seq(Nat) /\ down'[c] \in Seq(Nat)
  <2>1. shown[c] \o First(down[c], n) \in Seq(Nat)  BY <1>1, Moved
  <2>2. Without(down[c], n) \in Seq(Nat)  BY <1>1, Parted
  <2> QED  BY <1>2, <2>1, <2>2, Zenon
<1>4. TypeOK'
  <2>1. /\ shown' = [shown EXCEPT ![c] = shown'[c]]
        /\ down' = [down EXCEPT ![c] = down'[c]]
        /\ shown \in [Client -> Seq(Nat)] /\ down \in [Client -> Seq(Nat)]
    BY <1>0, <1>2 DEF TypeOK, ClientRead
  <2>2. shown' \in [Client -> Seq(Nat)] /\ down' \in [Client -> Seq(Nat)]
    BY <1>3, <2>1
  <2> QED  BY <1>0, <2>2 DEF TypeOK, ClientRead
<1>5. Exact(c)'
  <2>1. (shown[c] \o First(down[c], n)) \o Without(down[c], n)
          = shown[c] \o down[c]
    BY <1>1, Moved
  <2>2. Coming(c)' = Coming(c)  BY <1>2, <2>1, Zenon DEF Coming
  <2> QED
    BY <1>0, <1>2, <2>2
    DEF Exact, ComesInOrder, NothingIsLost, BufferIsFree, NoSessionYet, LineFirst
<1>6. \A d \in Client : d # c => Rest(d)
  BY <1>0 DEF TypeOK, ClientRead, Rest
<1> QED  BY <1>4, <1>5, <1>6 DEF OneStep

(* A client that fails leaves everything else as it is. *)
LEMMA ClientEndsStep ==
  ASSUME IInv, NEW c \in Client, ClientFails(c) \/ ClientBreaks(c)
  PROVE  OneStep(c)
<1>0. TypeOK /\ Exact(c)  BY DEF IInv
<1>a. /\ client' = [client EXCEPT ![c] = "failed"]
      /\ UNCHANGED <<request_length, sent, shown, session, buffer, up, down, accepting>>
  BY DEF ClientFails, ClientBreaks
<1>1. TypeOK'
  BY <1>0, <1>a DEF TypeOK
<1>2. /\ client'[c] = "failed"
      /\ UNCHANGED <<sent, shown, session, buffer, up, down>>
  BY <1>0, <1>a DEF TypeOK
<1>3. Exact(c)'
  BY <1>0, <1>2
  DEF Exact, ComesInOrder, NothingIsLost, BufferIsFree, NoSessionYet, LineFirst, Coming
<1>4. \A d \in Client : d # c => Rest(d)
  BY <1>0, <1>a DEF TypeOK, Rest
<1> QED  BY <1>1, <1>3, <1>4 DEF OneStep

-----------------------------------------------------------------------------
(* The server's steps. *)

LEMMA AcceptedStep ==
  ASSUME IInv, NEW c \in Client, Accepted(c), accepting' \in BOOLEAN
  PROVE  OneStep(c)
<1>0. TypeOK /\ Exact(c)  BY DEF IInv
<1>1. PICK s \in {"reading", "closed"} : session' = [session EXCEPT ![c] = s]
  BY DEF Accepted
<1>2. TypeOK'
  BY <1>0, <1>1 DEF TypeOK, Accepted, line
<1>3. /\ session[c] = "pending" /\ session'[c] = s
      /\ UNCHANGED <<client, request_length, sent, shown, buffer, up, down>>
  BY <1>0, <1>1 DEF TypeOK, Accepted, line
<1>4. Exact(c)'
  BY <1>0, <1>3
  DEF Exact, ComesInOrder, NothingIsLost, BufferIsFree, NoSessionYet, LineFirst, Coming
<1>5. \A d \in Client : d # c => Rest(d)
  BY <1>0, <1>1 DEF TypeOK, Accepted, line, Rest
<1> QED  BY <1>2, <1>4, <1>5 DEF OneStep

LEMMA CloseStep ==
  ASSUME IInv, NEW c \in Client, Close(c)
  PROVE  OneStep(c)
<1>0. TypeOK /\ Exact(c)  BY DEF IInv
<1>1. TypeOK'
  BY <1>0 DEF TypeOK, Close, line
<1>2. /\ session[c] \in {"reading", "writing"} /\ session'[c] = "closed"
      /\ UNCHANGED <<client, request_length, sent, shown, buffer, up, down>>
  BY <1>0 DEF TypeOK, Close, line
<1>3. Exact(c)'
  BY <1>0, <1>2
  DEF Exact, ComesInOrder, NothingIsLost, BufferIsFree, NoSessionYet, LineFirst, Coming
<1>4. \A d \in Client : d # c => Rest(d)
  BY <1>0 DEF TypeOK, Close, line, Rest
<1> QED  BY <1>1, <1>3, <1>4 DEF OneStep

LEMMA SessionReadStep ==
  ASSUME IInv, NEW c \in Client, NEW n \in Nat \ {0}, SessionRead(c, n)
  PROVE  OneStep(c)
<1>0. TypeOK /\ Exact(c)  BY DEF IInv
<1>1. /\ up[c] \in Seq(Nat) /\ Coming(c) \in Seq(Nat) /\ n <= Len(up[c])
  BY <1>0, TypesOf DEF SessionRead
<1>2. /\ buffer'[c] = First(up[c], n) /\ up'[c] = Without(up[c], n)
      /\ session[c] = "reading" /\ session'[c] = "writing"
      /\ UNCHANGED <<client, request_length, sent, shown, down>>
  BY <1>0 DEF TypeOK, SessionRead, line
<1>3. buffer'[c] \in Seq(Nat) /\ up'[c] \in Seq(Nat)
  BY <1>1, <1>2, Parted
<1>4. TypeOK'
  <2>1. /\ buffer' = [buffer EXCEPT ![c] = buffer'[c]]
        /\ up' = [up EXCEPT ![c] = up'[c]]
        /\ buffer \in [Client -> Seq(Nat)] /\ up \in [Client -> Seq(Nat)]
    BY <1>0, <1>2 DEF TypeOK, SessionRead, line
  <2>2. buffer' \in [Client -> Seq(Nat)] /\ up' \in [Client -> Seq(Nat)]
    BY <1>3, <2>1
  <2> QED  BY <1>0, <2>2 DEF TypeOK, SessionRead, line
<1>5. Exact(c)'
  <2>1. Coming(c)' = Coming(c)  BY <1>2 DEF Coming
  <2>2. NothingIsLost(c)'
    <3>1. buffer[c] = <<>>  BY <1>0, <1>2 DEF Exact, BufferIsFree
    <3>2. Coming(c) \o buffer[c] = Coming(c)
      BY <1>1, <3>1, ConcatEmptySeq
    <3>3. (Coming(c) \o First(up[c], n)) \o Without(up[c], n)
            = Coming(c) \o up[c]
      BY <1>1, Moved
    <3>4. Coming(c) \o up[c] = Numbers(sent[c])
      BY <1>0, <1>2, <3>2 DEF Exact, NothingIsLost
    <3> QED
      BY <1>2, <2>1, <3>3, <3>4, Zenon DEF NothingIsLost
  <2>3. LineFirst(c)'
    <3>1. buffer'[c] # <<>>
      <4>1. Len(buffer'[c]) = n  BY <1>1, <1>2, Parted
      <4> QED  BY <4>1, EmptySeq
    <3>2. LineFirst(c)  BY <1>0 DEF Exact
    <3> QED  BY <1>2, <3>1, <3>2 DEF LineFirst
  <2> QED
    BY <1>0, <1>2, <2>1, <2>2, <2>3
    DEF Exact, ComesInOrder, BufferIsFree, NoSessionYet
<1>6. \A d \in Client : d # c => Rest(d)
  BY <1>0 DEF TypeOK, SessionRead, line, Rest
<1> QED  BY <1>4, <1>5, <1>6 DEF OneStep

LEMMA SessionWriteStep ==
  ASSUME IInv, NEW c \in Client, NEW n \in Nat, SessionWrite(c, n)
  PROVE  OneStep(c)
<1>0. TypeOK /\ Exact(c)  BY DEF IInv
<1>1. /\ shown[c] \in Seq(Nat) /\ buffer[c] \in Seq(Nat)
      /\ up[c] \in Seq(Nat) /\ down[c] \in Seq(Nat)
      /\ Coming(c) \in Seq(Nat) /\ sent[c] \in Nat /\ n <= Len(buffer[c])
  BY <1>0, TypesOf DEF SessionWrite
<1>2. /\ down'[c] = down[c] \o First(buffer[c], n)
      /\ buffer'[c] = Without(buffer[c], n)
      /\ session[c] = "writing"
      /\ session'[c] \in {"reading", "writing"}
      /\ session'[c] = "reading" <=> buffer'[c] = <<>>
      /\ UNCHANGED <<client, request_length, sent, shown, up>>
  BY <1>0 DEF TypeOK, SessionWrite, line, Left
<1>3. /\ First(buffer[c], n) \in Seq(Nat)
      /\ buffer'[c] \in Seq(Nat) /\ down'[c] \in Seq(Nat)
  BY <1>1, <1>2, Parted, Moved
<1>4. TypeOK'
  <2>1. /\ buffer' = [buffer EXCEPT ![c] = buffer'[c]]
        /\ down' = [down EXCEPT ![c] = down'[c]]
        /\ buffer \in [Client -> Seq(Nat)] /\ down \in [Client -> Seq(Nat)]
    BY <1>0, <1>2 DEF TypeOK, SessionWrite, line, Left
  <2>2. buffer' \in [Client -> Seq(Nat)] /\ down' \in [Client -> Seq(Nat)]
    BY <1>3, <2>1
  <2>3. session' \in [Client -> {"none", "pending", "reading", "writing",
                                 "closed"}]
    BY <1>0 DEF TypeOK, SessionWrite, line
  <2> QED  BY <1>0, <2>2, <2>3 DEF TypeOK, SessionWrite, line
<1>5. Exact(c)'
  <2>1. Coming(c)' = Coming(c) \o First(buffer[c], n)
    <3>1. shown[c] \o (down[c] \o First(buffer[c], n))
            = (shown[c] \o down[c]) \o First(buffer[c], n)
      <4>1. /\ shown[c] \in Seq(Nat) /\ down[c] \in Seq(Nat)
            /\ First(buffer[c], n) \in Seq(Nat)
        BY <1>1, <1>3
      <4> QED  BY <4>1, Associative
    <3> QED  BY <1>2, <3>1, Zenon DEF Coming
  <2>2. (Coming(c) \o First(buffer[c], n)) \o Without(buffer[c], n)
          = Coming(c) \o buffer[c]
    BY <1>1, Moved
  <2>3. Coming(c)' \o buffer'[c] \o up[c] = Numbers(sent[c])
    <3>1. Coming(c) \o buffer[c] \o up[c] = Numbers(sent[c])
      BY <1>0, <1>2 DEF Exact, NothingIsLost
    <3> QED  BY <1>2, <2>1, <2>2, <3>1, Zenon
  <2>4. NothingIsLost(c)'  BY <1>2, <2>3, Zenon DEF NothingIsLost
  <2>5. ComesInOrder(c)'
    <3>1. Coming(c)' \in Seq(Nat)
      BY <1>1, <2>1, Moved
    <3>2. Coming(c)' \o (buffer'[c] \o up[c]) = Numbers(sent[c])
      BY <1>1, <1>3, <2>3, <3>1, Associative, Zenon
    <3>3. buffer'[c] \o up[c] \in Seq(Nat)  BY <1>1, <1>3, ConcatProperties
    <3>4. Coming(c)' = Numbers(Len(Coming(c)'))
      BY <1>1, <3>1, <3>2, <3>3, BeginningOfNumbers
    <3>5. Len(Coming(c)') \in Nat  BY <3>1, LenProperties
    <3> QED  BY <3>4, <3>5, Zenon DEF ComesInOrder
  <2> QED
    BY <1>0, <1>2, <2>4, <2>5 DEF Exact, BufferIsFree, NoSessionYet, LineFirst
<1>6. \A d \in Client : d # c => Rest(d)
  BY <1>0 DEF TypeOK, SessionWrite, line, Rest
<1> QED  BY <1>4, <1>5, <1>6 DEF OneStep

-----------------------------------------------------------------------------
(* The whole of each server. *)

LEMMA Begins ==
  ASSUME Init
  PROVE  IInv
<1>1. <<>> \in Seq(Nat)  BY EmptySeq
<1>2. TypeOK  BY <1>1 DEF Init, TypeOK
<1>3. ASSUME NEW c \in Client PROVE Exact(c)
  <2>1. /\ shown[c] = <<>> /\ down[c] = <<>> /\ buffer[c] = <<>>
        /\ up[c] = <<>> /\ sent[c] = 0 /\ session[c] = "none"
        /\ client[c] = "start"
    BY DEF Init
  <2>2. <<>> \o <<>> = <<>>  BY <1>1, ConcatEmptySeq
  <2>3. Numbers(0) = <<>>
    BY NumbersAreASequence, EmptySeq
  <2>4. Coming(c) = Numbers(0)  BY <2>1, <2>2, <2>3 DEF Coming
  <2>5. NothingIsLost(c)  BY <2>1, <2>2, <2>3, <2>4 DEF NothingIsLost
  <2> QED
    BY <2>1, <2>4, <2>5 DEF Exact, ComesInOrder, BufferIsFree, NoSessionYet, LineFirst
<1> QED  BY <1>2, <1>3 DEF IInv

LEMMA Stutters ==
  ASSUME IInv, UNCHANGED vars
  PROVE  IInv'
BY DEF IInv, TypeOK, vars, line, Exact, ComesInOrder, NothingIsLost, BufferIsFree,
       NoSessionYet, LineFirst, Coming

LEMMA ProgramStep ==
  ASSUME IInv, NEW c \in Client, Program(c)
  PROVE  OneStep(c)
<1>1. CASE ClientWrite(c)  BY <1>1, ClientWriteStep
<1>2. CASE ClientFails(c)  BY <1>2, ClientEndsStep
<1>3. ASSUME NEW n \in 1..BufferSize, ClientRead(c, n) PROVE OneStep(c)
  BY <1>3, ClientReadStep, WindowAssumption
<1> QED  BY <1>1, <1>2, <1>3 DEF Program

LEMMA Steps ==
  ASSUME IInv, [Next]_vars
  PROVE  IInv'
<1>1. ASSUME NEW c \in Client, Person(c) PROVE OneStep(c)
  BY <1>1, PersonStep
<1>2. ASSUME NEW c \in Client, Program(c) PROVE OneStep(c)
  BY <1>2, ProgramStep
<1>3. ASSUME NEW c \in Client, ClientBreaks(c) PROVE OneStep(c)
  BY <1>3, ClientEndsStep
<1>4. ASSUME NEW c \in Client, Accept(c) PROVE OneStep(c)
  <2>1. Accepted(c) /\ accepting' \in BOOLEAN
    BY <1>4 DEF Accept, AcceptAgain
  <2> QED  BY <2>1, AcceptedStep
<1>5. ASSUME NEW c \in Client, Server(c) PROVE OneStep(c)
  <2>1. CASE SessionEnds(c)  BY <2>1, CloseStep DEF SessionEnds
  <2>2. ASSUME NEW n \in 1..BufferSize, SessionRead(c, n) PROVE OneStep(c)
    BY <2>2, SessionReadStep, WindowAssumption
  <2>3. ASSUME NEW n \in 1..BufferSize, SessionWrite(c, n) PROVE OneStep(c)
    BY <2>3, SessionWriteStep, WindowAssumption
  <2> QED  BY <1>5, <2>1, <2>2, <2>3 DEF Server
<1>6. ASSUME NEW c \in Client, SessionFails(c) PROVE OneStep(c)
  BY <1>6, CloseStep DEF SessionFails
<1>7. CASE UNCHANGED vars  BY <1>7, Stutters
<1> QED
  BY <1>1, <1>2, <1>3, <1>4, <1>5, <1>6, <1>7, OnlyOneMoves DEF Next

LEMMA EchoHolds == IInv => EchoIsExact
<1> SUFFICES ASSUME IInv, NEW c \in Client
             PROVE  /\ shown[c] = Numbers(Len(shown[c]))
                    /\ session[c] # "closed"
                         => shown[c] \o down[c] \o buffer[c] \o up[c]
                              = Numbers(sent[c])
  BY Zenon DEF EchoIsExact
<1>1. TypeOK /\ Exact(c)  BY DEF IInv
<1>2. shown[c] \in Seq(Nat) /\ down[c] \in Seq(Nat)  BY <1>1, TypesOf
<1>3. PICK k \in Nat : Coming(c) = Numbers(k)
  BY <1>1 DEF Exact, ComesInOrder
<1>4. shown[c] \o down[c] = Numbers(k)  BY <1>3 DEF Coming
<1>5. shown[c] = Numbers(Len(shown[c]))
  BY <1>2, <1>4, BeginningOfNumbers
<1> QED  BY <1>1, <1>5 DEF Exact, NothingIsLost, Coming

LEMMA LongLines == IInv => OnlyLongLinesStick
<1> SUFFICES ASSUME IInv, NEW c \in Client, Stuck(c)
             PROVE  request_length[c] > UpWindow + 1 + DownWindow
  BY DEF OnlyLongLinesStick
<1>1. TypeOK /\ Exact(c)  BY DEF IInv
<1>2. /\ buffer[c] \in Seq(Nat) /\ up[c] \in Seq(Nat) /\ down[c] \in Seq(Nat)
      /\ sent[c] \in Nat /\ request_length[c] \in Nat
  BY <1>1, TypesOf
<1>3. /\ shown[c] = <<>> /\ buffer[c] # <<>> /\ sent[c] < request_length[c]
      /\ Len(up[c]) = UpWindow /\ Len(down[c]) = DownWindow
      /\ Coming(c) \o buffer[c] \o up[c] = Numbers(sent[c])
  BY <1>1 DEF Exact, LineFirst, NothingIsLost, Stuck
<1>4. Coming(c) = down[c]  BY <1>2, <1>3, ConcatEmptySeq DEF Coming
<1>5. Len(down[c] \o buffer[c] \o up[c]) = Len(down[c]) + Len(buffer[c]) + Len(up[c])
  <2>1. /\ down[c] \o buffer[c] \in Seq(Nat)
        /\ Len(down[c] \o buffer[c]) = Len(down[c]) + Len(buffer[c])
    BY <1>2, ConcatProperties
  <2> QED  BY <1>2, <2>1, ConcatProperties
<1>6. sent[c] = Len(down[c]) + Len(buffer[c]) + Len(up[c])
  BY <1>2, <1>3, <1>4, <1>5, NumbersAreASequence
<1>7. Len(buffer[c]) \in Nat \ {0}  BY <1>2, <1>3, EmptySeq, LenProperties
<1> QED  BY <1>2, <1>3, <1>6, <1>7, WindowAssumption

(* The variables of an echo server and its clients keep their types.         *)
THEOREM TypeCorrect == Spec => []TypeOK
<1>1. IInv => TypeOK  BY DEF IInv
<1> QED  BY <1>1, Begins, Steps, PTL DEF Spec

(* However the writes and the reads of clients and sessions are cut and      *)
(* interleaved, and whenever connections break: no byte is lost, doubled or  *)
(* overtaken, and what a client shows is the beginning of what it wrote.     *)
THEOREM EchoesAreExact == Spec => []EchoIsExact
BY Begins, Steps, EchoHolds, PTL DEF Spec

(* Whatever a connection takes each way, and however writes and reads are    *)
(* cut: a client and its session never wait for each other for a line that   *)
(* both directions and a byte in the session can hold.                       *)
THEOREM OnlyLongLinesDeadlock == Spec => []OnlyLongLinesStick
BY Begins, Steps, LongLines, PTL DEF Spec

-----------------------------------------------------------------------------
(* The tracking twin. *)

Returned(c) ==
  /\ memory[c].held # Nowhere => session[c] = "writing"
  /\ memory[c].in_use <=> memory[c].held.from = "storage"
  /\ memory[c].held.from = "heap" => memory[c].held.size >= StorageSize

TwinIInv == IInv /\ TwinTypeOK /\ MemoryIsReturned

LEMMA ReturnedEach == MemoryIsReturned <=> \A c \in Client : Returned(c)
BY DEF MemoryIsReturned, Returned

Memories == [in_use : BOOLEAN, held : Held]

(* What a write allocates goes into the block if that is free, and else to  *)
(* the heap for its size.                                                    *)
LEMMA Allocated ==
  ASSUME NEW m \in Memories, ~m.in_use, NEW size \in OperationSizes
  PROVE  LET a == allocate(m, size)
         IN  /\ a \in Memories
             /\ a.in_use <=> a.held.from = "storage"
             /\ a.held.from = "heap" => a.held.size >= StorageSize
<1>1. size \in Nat /\ StorageSize \in Nat  BY SizesAssumption
<1>2. CASE size < StorageSize
  <2>1. allocate(m, size)
          = [in_use |-> TRUE, held |-> [from |-> "storage", size |-> size]]
    BY <1>2 DEF allocate, Memories
  <2> QED  BY <1>1, <2>1 DEF Memories, Held
<1>3. CASE ~(size < StorageSize)
  <2>1. allocate(m, size)
          = [in_use |-> FALSE, held |-> [from |-> "heap", size |-> size]]
    BY <1>3 DEF allocate, Memories
  <2> QED  BY <1>1, <1>3, <2>1 DEF Memories, Held
<1> QED  BY <1>2, <1>3

LEMMA Deallocated ==
  ASSUME NEW m \in Memories, m.in_use <=> m.held.from = "storage"
  PROVE  /\ deallocate(m) \in Memories
         /\ ~deallocate(m).in_use /\ deallocate(m).held = Nowhere
BY DEF deallocate, Memories, Held, Nowhere

(* What a session's step does to its memory, and what the others see of it. *)
Holds(c, m) ==
  /\ m \in Memories
  /\ m.held # Nowhere => session'[c] = "writing"
  /\ m.in_use <=> m.held.from = "storage"
  /\ m.held.from = "heap" => m.held.size >= StorageSize

LEMMA Remembered ==
  ASSUME TwinIInv, NEW c \in Client, OneStep(c), NEW m, Holds(c, m),
         Remember(c, m), exited' = exited
  PROVE  TwinIInv'
<1>1. IInv'  BY OnlyOneMoves DEF TwinIInv
<1>2. memory \in [Client -> Memories] /\ m \in Memories
  BY DEF TwinIInv, TwinTypeOK, Holds, Memories
<1>3. memory' = [memory EXCEPT ![c] = m]  BY DEF Remember
<1>4. TwinTypeOK'
  BY <1>1, <1>2, <1>3 DEF TwinIInv, TwinTypeOK, IInv, Memories
<1>5. ASSUME NEW d \in Client PROVE Returned(d)'
  <2>1. CASE d = c
    BY <1>2, <1>3, <2>1 DEF Returned, Holds
  <2>2. CASE d # c
    <3>1. memory'[d] = memory[d] /\ session'[d] = session[d]
      BY <1>2, <1>3, <2>2 DEF OneStep, Rest
    <3>2. Returned(d)  BY ReturnedEach DEF TwinIInv
    <3> QED  BY <3>1, <3>2 DEF Returned
  <2> QED  BY <2>1, <2>2
<1>6. MemoryIsReturned'  BY <1>5 DEF MemoryIsReturned, Returned
<1> QED  BY <1>1, <1>4, <1>6 DEF TwinIInv

LEMMA KeptMemory ==
  ASSUME TwinIInv, NEW c \in Client
  PROVE  memory[c] \in Memories /\ Returned(c)
BY ReturnedEach DEF TwinIInv, TwinTypeOK, Memories

(* A step that leaves the memory and does not end a write. *)
LEMMA Undisturbed ==
  ASSUME TwinIInv, NEW c \in Client, OneStep(c), UNCHANGED <<memory, exited>>,
         memory[c].held # Nowhere => session'[c] = "writing"
  PROVE  TwinIInv'
<1>1. memory[c] \in Memories /\ Returned(c)  BY KeptMemory
<1>2. Holds(c, memory[c])  BY <1>1 DEF Holds, Returned
<1>3. Remember(c, memory[c])
  <2>1. memory \in [Client -> Memories]
    BY DEF TwinIInv, TwinTypeOK, Memories
  <2> QED  BY <2>1 DEF Remember
<1> QED  BY <1>2, <1>3, Remembered

LEMMA ClientsStep ==
  ASSUME TwinIInv, NEW c \in Client, Clients(c)
  PROVE  TwinIInv'
<1>0. IInv /\ TypeOK /\ Exact(c)  BY DEF TwinIInv, IInv
<1>1. Returned(c) /\ UNCHANGED <<memory, exited>>
  BY KeptMemory DEF Clients
<1>2. CASE Person(c)
  <2>1. OneStep(c)  BY <1>0, <1>2, PersonStep
  <2>2. session[c] = "writing" => session'[c] = "writing"
    BY <1>0, <1>2 DEF Exact, NoSessionYet, Person, Connect, EndOfInput, Types
  <2> QED  BY <1>1, <2>1, <2>2, Undisturbed DEF Returned
<1>3. CASE Program(c) \/ ClientBreaks(c)
  <2>1. session' = session
    BY <1>3 DEF Program, ClientWrite, ClientFails, ClientRead, ClientBreaks
  <2>2. OneStep(c)  BY <1>0, <1>3, ProgramStep, ClientEndsStep
  <2> QED  BY <1>1, <2>1, <2>2, Undisturbed DEF Returned
<1> QED  BY <1>2, <1>3 DEF Clients

LEMMA TwinAcceptStep ==
  ASSUME TwinIInv, NEW c \in Client, TwinAccept(c)
  PROVE  TwinIInv'
<1>1. OneStep(c)  BY AcceptedStep DEF TwinIInv, TwinAccept
<1>2. session[c] = "pending"  BY DEF TwinAccept, Accepted
<1> QED
  BY <1>1, <1>2, KeptMemory, Undisturbed DEF Returned, TwinAccept

LEMMA TwinCloseStep ==
  ASSUME TwinIInv, NEW c \in Client, TwinClose(c)
  PROVE  TwinIInv'
<1>0. memory[c] \in Memories /\ Returned(c)  BY KeptMemory
<1>1. OneStep(c)  BY CloseStep DEF TwinIInv, TwinClose
<1>2. CASE session[c] = "writing"
  <2>1. Remember(c, deallocate(memory[c])) /\ exited' = exited
    BY <1>2 DEF TwinClose
  <2>2. Holds(c, deallocate(memory[c]))
    BY <1>0, Deallocated DEF Holds, Returned, Nowhere
  <2> QED  BY <1>1, <2>1, <2>2, Remembered
<1>3. CASE session[c] # "writing"
  <2>1. Remember(c, memory[c]) /\ exited' = exited
    BY <1>3 DEF TwinClose
  <2>2. Holds(c, memory[c])
    BY <1>0, <1>3 DEF Holds, Returned
  <2> QED  BY <1>1, <2>1, <2>2, Remembered
<1> QED  BY <1>2, <1>3

LEMMA TwinReadStep ==
  ASSUME TwinIInv, NEW c \in Client, NEW n \in Nat \ {0}, TwinRead(c, n)
  PROVE  TwinIInv'
<1>0. memory[c] \in Memories /\ Returned(c)  BY KeptMemory
<1>1. OneStep(c)  BY SessionReadStep DEF TwinIInv, TwinRead
<1>2. session[c] = "reading" /\ session'[c] = "writing"
  BY DEF TwinRead, SessionRead, line, TwinIInv, IInv, TypeOK
<1>3. PICK size \in OperationSizes : Remember(c, allocate(memory[c], size))
  BY DEF TwinRead
<1>4. ~memory[c].in_use
  BY <1>0, <1>2 DEF Returned, Nowhere
<1>5. Holds(c, allocate(memory[c], size))
  BY <1>0, <1>2, <1>4, Allocated DEF Holds
<1> QED  BY <1>1, <1>3, <1>5, Remembered DEF TwinRead

LEMMA TwinWriteStep ==
  ASSUME TwinIInv, NEW c \in Client, NEW n \in Nat, TwinWrite(c, n)
  PROVE  TwinIInv'
<1>0. memory[c] \in Memories /\ Returned(c)  BY KeptMemory
<1>1. OneStep(c)  BY SessionWriteStep DEF TwinIInv, TwinWrite
<1>2. PICK size \in OperationSizes :
        Remember(c, Wrote(memory[c], session'[c] = "writing", size))
  BY DEF TwinWrite
<1>3. /\ deallocate(memory[c]) \in Memories
      /\ ~deallocate(memory[c]).in_use
      /\ deallocate(memory[c]).held = Nowhere
  BY <1>0, Deallocated DEF Returned
<1>4. CASE session'[c] = "writing"
  <2>1. Holds(c, allocate(deallocate(memory[c]), size))
    BY <1>3, <1>4, Allocated DEF Holds
  <2>2. Remember(c, allocate(deallocate(memory[c]), size))
    BY <1>2, <1>4 DEF Wrote
  <2> QED  BY <1>1, <2>1, <2>2, Remembered DEF TwinWrite
<1>5. CASE session'[c] # "writing"
  <2>1. Holds(c, deallocate(memory[c]))
    BY <1>3 DEF Holds, Nowhere
  <2>2. Remember(c, deallocate(memory[c]))
    BY <1>2, <1>5 DEF Wrote
  <2> QED  BY <1>1, <2>1, <2>2, Remembered DEF TwinWrite
<1> QED  BY <1>4, <1>5

(* The exit closes the sessions that nobody accepted. *)
LEMMA ExitStep ==
  ASSUME TwinIInv, Exit
  PROVE  TwinIInv'
<1>1. TypeOK'
  BY DEF TwinIInv, IInv, TypeOK, Exit, line
<1>2. ASSUME NEW c \in Client PROVE Exact(c)' /\ Returned(c)'
  <2>1. Exact(c) /\ Returned(c)
    BY KeptMemory DEF TwinIInv, IInv
  <2>2. /\ session'[c] = IF session[c] = "pending" THEN "closed"
                         ELSE session[c]
        /\ session'[c] = "writing" => session[c] = "writing"
        /\ UNCHANGED <<client, request_length, sent, shown, buffer, up, down, memory>>
    BY DEF Exit, line
  <2>3. Exact(c)'
    BY <2>1, <2>2
    DEF Exact, ComesInOrder, NothingIsLost, BufferIsFree, NoSessionYet, LineFirst, Coming
  <2> QED  BY <2>1, <2>2, <2>3 DEF Returned
<1>3. IInv'  BY <1>1, <1>2 DEF IInv
<1>4. MemoryIsReturned'  BY <1>2 DEF MemoryIsReturned, Returned
<1>5. TwinTypeOK'  BY <1>1 DEF TwinIInv, TwinTypeOK, Exit
<1> QED  BY <1>3, <1>4, <1>5 DEF TwinIInv

LEMMA TwinSteps ==
  ASSUME TwinIInv, [TwinNext]_twinVars
  PROVE  TwinIInv'
<1>1. CASE Exit  BY <1>1, ExitStep
<1>2. ASSUME NEW c \in Client, Clients(c) PROVE TwinIInv'
  BY <1>2, ClientsStep
<1>3. ASSUME NEW c \in Client, TwinSession(c) PROVE TwinIInv'
  <2>1. CASE TwinAccept(c)  BY <2>1, TwinAcceptStep
  <2>2. CASE TwinClose(c)  BY <2>2, TwinCloseStep
  <2>3. ASSUME NEW n \in 1..BufferSize, TwinRead(c, n) PROVE TwinIInv'
    BY <2>3, TwinReadStep, WindowAssumption
  <2>4. ASSUME NEW n \in 1..BufferSize, TwinWrite(c, n) PROVE TwinIInv'
    BY <2>4, TwinWriteStep, WindowAssumption
  <2> QED  BY <1>3, <2>1, <2>2, <2>3, <2>4 DEF TwinSession
<1>4. CASE UNCHANGED twinVars
  <2>1. IInv'  BY <1>4, Stutters DEF twinVars, TwinIInv
  <2>2. MemoryIsReturned'
    BY <1>4 DEF TwinIInv, MemoryIsReturned, twinVars, vars
  <2>3. TwinTypeOK'
    BY <1>4, <2>1 DEF TwinIInv, TwinTypeOK, twinVars, IInv
  <2> QED  BY <2>1, <2>2, <2>3 DEF TwinIInv
<1> QED  BY <1>1, <1>2, <1>3, <1>4 DEF TwinNext

LEMMA TwinBegins ==
  ASSUME TwinInit
  PROVE  TwinIInv
<1>1. IInv  BY Begins DEF TwinInit
<1>2. TwinTypeOK
  BY <1>1 DEF TwinInit, TwinTypeOK, IInv, Held, Nowhere
<1>3. MemoryIsReturned  BY DEF TwinInit, MemoryIsReturned, Nowhere
<1> QED  BY <1>1, <1>2, <1>3 DEF TwinIInv

(* The twin's variables keep their types. *)
THEOREM TwinTypeCorrect == TwinSpec => []TwinTypeOK
<1>1. TwinIInv => TwinTypeOK  BY DEF TwinIInv
<1> QED  BY <1>1, TwinBegins, TwinSteps, PTL DEF TwinSpec

(* The twin's echoes are as exact: its exit, and an acceptor that accepts    *)
(* once, take nothing from a session that lives.                             *)
THEOREM TwinEchoesAreExact == TwinSpec => []EchoIsExact
<1>1. TwinIInv => EchoIsExact  BY EchoHolds DEF TwinIInv
<1> QED  BY <1>1, TwinBegins, TwinSteps, PTL DEF TwinSpec

(* No two writes share the block of a session, what came from the block is   *)
(* never given to the heap nor the other way round, and a session that has   *)
(* ended, in whatever way, has given back what its write held.               *)
THEOREM EveryWriteReturnsItsMemory == TwinSpec => []MemoryIsReturned
<1>1. TwinIInv => MemoryIsReturned  BY DEF TwinIInv
<1> QED  BY <1>1, TwinBegins, TwinSteps, PTL DEF TwinSpec

-----------------------------------------------------------------------------
(* Echoes by udp. *)

(* A beginning of what a client has written. *)
Own(c, text) ==
  text.by = c /\ text.length <= request[c] /\ stage[c] # "start"

(* To the server comes only what a client sends, from that client; and to a  *)
(* client only what it wrote itself, or a stranger.                          *)
Honest(d) ==
  \/ d.to = TheServer /\ d.from \in UdpClient /\ Own(d.from, d.text)
  \/ d.to \in UdpClient /\ (d.text.by = Stranger \/ Own(d.to, d.text))

UdpIInv == UdpTypeOK /\ ReplyIsAnEcho /\ \A d \in net : Honest(d)

LEMMA CutText ==
  ASSUME NEW text \in Texts, NEW size \in Nat
  PROVE  /\ Cut(text, size) \in Texts /\ Cut(text, size).by = text.by
         /\ Cut(text, size).length <= text.length
BY DEF Cut, Texts

(* What a client wrote stays its own. *)
LEMMA StaysHonest ==
  ASSUME NEW d, Honest(d), UNCHANGED <<stage, request>>
  PROVE  Honest(d)'
BY DEF Honest, Own

LEMMA NetworkStep ==
  ASSUME UdpIInv,
         \/ \E d \in net : Lose(d)
         \/ \E c \in UdpClient : Stray(c)
  PROVE  UdpIInv'
<1>1. UNCHANGED <<stage, request, reply>>  BY DEF Lose, Stray
<1>2. ReplyIsAnEcho'  BY <1>1 DEF UdpIInv, ReplyIsAnEcho
<1>3. ASSUME NEW d \in net, Lose(d) PROVE UdpTypeOK' /\ \A e \in net' : Honest(e)'
  <2>1. UdpTypeOK'
    BY <1>3 DEF UdpIInv, UdpTypeOK, Lose, Missed
  <2> QED  BY <1>3, <1>1, <2>1, StaysHonest DEF UdpIInv, Lose
<1>4. ASSUME NEW c \in UdpClient, Stray(c)
      PROVE  UdpTypeOK' /\ \A e \in net' : Honest(e)'
  <2> DEFINE stray == Datagram(Stranger, c, Text(Stranger, 1))
  <2>1. /\ stray \in Datagrams /\ Honest(stray)
    BY DEF Datagram, Datagrams, Text, Texts, Honest
  <2>2. net' = net \cup {stray} /\ UNCHANGED <<serving, missing>>
    BY <1>4 DEF Stray
  <2> HIDE DEF stray
  <2>3. UdpTypeOK'  BY <1>1, <2>1, <2>2 DEF UdpIInv, UdpTypeOK
  <2> QED  BY <1>1, <2>1, <2>2, <2>3, StaysHonest DEF UdpIInv
<1> QED  BY <1>2, <1>3, <1>4 DEF UdpIInv

LEMMA SendRequestStep ==
  ASSUME UdpIInv, NEW c \in UdpClient, NEW length \in 0..max_length - 1,
         SendRequest(c, length)
  PROVE  UdpIInv'
<1> DEFINE sending == Datagram(c, TheServer, Text(c, length))
<1>1. length \in Nat  BY MaxLengthAssumption
<1>2. /\ stage[c] = "start" /\ stage'[c] = "waiting" /\ request'[c] = length
      /\ \A e \in UdpClient : e # c =>
           stage'[e] = stage[e] /\ request'[e] = request[e]
      /\ net' = net \cup {sending} /\ UNCHANGED <<reply, serving, missing>>
  BY DEF UdpIInv, UdpTypeOK, SendRequest
<1>3. sending \in Datagrams /\ Honest(sending)'
  BY <1>1, <1>2 DEF Datagram, Datagrams, Text, Texts, Honest, Own
<1> HIDE DEF sending
<1>4. UdpTypeOK'
  BY <1>1, <1>2, <1>3 DEF UdpIInv, UdpTypeOK, SendRequest
<1>5. ASSUME NEW d \in net PROVE Honest(d)'
  <2>1. Honest(d)  BY DEF UdpIInv
  <2>2. \A e \in UdpClient : Own(e, d.text) => Own(e, d.text)'
    BY <1>2 DEF Own
  <2> QED  BY <2>1, <2>2 DEF Honest
<1>6. ReplyIsAnEcho'
  BY <1>2 DEF UdpIInv, ReplyIsAnEcho
<1> QED  BY <1>2, <1>3, <1>4, <1>5, <1>6 DEF UdpIInv

LEMMA ThrowsStep ==
  ASSUME UdpIInv, NEW c \in UdpClient, SendThrows(c) \/ ReceiveThrows(c)
  PROVE  UdpIInv'
<1>1. /\ stage'[c] = "failed"
      /\ \A e \in UdpClient : e # c => stage'[e] = stage[e]
      /\ UNCHANGED <<request, reply, net, serving, missing>>
  BY DEF UdpIInv, UdpTypeOK, SendThrows, ReceiveThrows
<1>2. UdpTypeOK'  BY <1>1 DEF UdpIInv, UdpTypeOK, SendThrows, ReceiveThrows
<1>3. ReplyIsAnEcho'  BY <1>1 DEF UdpIInv, ReplyIsAnEcho
<1>4. ASSUME NEW d \in net PROVE Honest(d)'
  <2>1. Honest(d)  BY DEF UdpIInv
  <2>2. \A e \in UdpClient : Own(e, d.text) => Own(e, d.text)'
    BY <1>1 DEF Own
  <2> QED  BY <2>1, <2>2 DEF Honest
<1> QED  BY <1>1, <1>2, <1>3, <1>4 DEF UdpIInv

LEMMA ReceiveReplyStep ==
  ASSUME UdpIInv, NEW c \in UdpClient, NEW d \in net, ReceiveReply(c, d)
  PROVE  UdpIInv'
<1>0. UdpTypeOK /\ ReplyIsAnEcho /\ Honest(d) /\ d \in Datagrams
  BY DEF UdpIInv, UdpTypeOK
<1>1. PICK garbage \in 0..max_length :
        reply' = [reply EXCEPT ![c] = Cut(d.text, garbage)]
  BY DEF ReceiveReply
<1> DEFINE showing == Cut(d.text, garbage)
<1>2. d.text \in Texts /\ d.to = c /\ stage[c] = "waiting"
  BY <1>0 DEF Datagrams, ReceiveReply
<1>3. garbage \in Nat  BY MaxLengthAssumption
<1>4. /\ showing \in Texts /\ showing.by = d.text.by
      /\ showing.length <= d.text.length
  BY <1>2, <1>3, CutText
<1>5. d.text.by = Stranger \/ Own(c, d.text)
  BY <1>0, <1>2, EndpointAssumption DEF Honest
<1>6. /\ reply' = [reply EXCEPT ![c] = showing]
      /\ stage' = [stage EXCEPT ![c] = "done"]
      /\ net' \subseteq net /\ UNCHANGED <<request, serving, missing>>
  BY <1>1 DEF ReceiveReply, Read
<1> HIDE DEF showing
<1>7. UdpTypeOK'
  BY <1>0, <1>4, <1>6 DEF UdpTypeOK
<1>8. ReplyIsAnEcho'
  <2> SUFFICES ASSUME NEW e \in UdpClient, stage'[e] = "done"
               PROVE  \/ reply'[e].by = Stranger
                      \/ reply'[e].by = e /\ reply'[e].length <= request'[e]
    BY DEF ReplyIsAnEcho
  <2>1. CASE e = c
    <3>1. reply'[e] = showing /\ request'[e] = request[c]
      BY <1>0, <1>6, <2>1 DEF UdpTypeOK
    <3>2. CASE d.text.by = Stranger  BY <1>4, <3>1, <3>2
    <3>3. CASE Own(c, d.text)
      <4>1. /\ showing.length \in Nat /\ d.text.length \in Nat
            /\ request[c] \in Nat
        BY <1>0, <1>2, <1>4 DEF Texts, UdpTypeOK
      <4> QED  BY <1>4, <2>1, <3>1, <3>3, <4>1 DEF Own
    <3> QED  BY <1>5, <3>2, <3>3
  <2>2. CASE e # c
    <3>1. reply'[e] = reply[e] /\ stage'[e] = stage[e]
      BY <1>0, <1>6, <2>2 DEF UdpTypeOK
    <3> QED  BY <1>0, <1>6, <3>1 DEF ReplyIsAnEcho
  <2> QED  BY <2>1, <2>2
<1>9. ASSUME NEW e \in net PROVE Honest(e)'
  <2>1. Honest(e)  BY DEF UdpIInv
  <2>2. \A x \in UdpClient : Own(x, e.text) => Own(x, e.text)'
    BY <1>0, <1>6 DEF Own, UdpTypeOK
  <2> QED  BY <2>1, <2>2 DEF Honest
<1> QED  BY <1>6, <1>7, <1>8, <1>9 DEF UdpIInv

LEMMA ServeStep ==
  ASSUME UdpIInv, NEW d \in net, Serve(d)
  PROVE  UdpIInv'
<1>0. UdpTypeOK /\ ReplyIsAnEcho /\ Honest(d) /\ d \in Datagrams
  BY DEF UdpIInv, UdpTypeOK
<1> DEFINE answer == Datagram(TheServer, d.from, Cut(d.text, max_length))
<1>1. /\ net' \subseteq net \cup {answer}
      /\ UNCHANGED <<stage, request, reply, serving, missing>>
  BY DEF Serve, Answered, Read
<1>2. d.from \in UdpClient /\ Own(d.from, d.text) /\ d.text \in Texts
  BY <1>0, EndpointAssumption DEF Honest, Serve, Datagrams
<1>3. /\ Cut(d.text, max_length) \in Texts
      /\ Cut(d.text, max_length).by = d.text.by
      /\ Cut(d.text, max_length).length <= d.text.length
  BY <1>2, CutText, MaxLengthAssumption
<1>4. answer \in Datagrams  BY <1>2, <1>3 DEF Datagram, Datagrams
<1>5. Honest(answer)
  <2>1. answer.to = d.from /\ answer.text = Cut(d.text, max_length)
    BY DEF Datagram
  <2>2. Own(d.from, Cut(d.text, max_length))
    <3>1. /\ Cut(d.text, max_length).length \in Nat /\ d.text.length \in Nat
          /\ request[d.from] \in Nat
      BY <1>0, <1>2, <1>3 DEF Texts, UdpTypeOK
    <3> QED  BY <1>2, <1>3, <3>1 DEF Own
  <2> HIDE DEF answer
  <2> QED  BY <1>2, <2>1, <2>2 DEF Honest
<1> HIDE DEF answer
<1>6. UdpTypeOK'  BY <1>0, <1>1, <1>4 DEF UdpTypeOK
<1>7. ReplyIsAnEcho'  BY <1>0, <1>1 DEF ReplyIsAnEcho
<1> QED  BY <1>1, <1>5, <1>6, <1>7, StaysHonest DEF UdpIInv

LEMMA UdpSteps ==
  ASSUME UdpIInv, [UdpNext]_udpVars
  PROVE  UdpIInv'
<1>1. CASE ServerThrows
  BY <1>1, StaysHonest
  DEF UdpIInv, UdpTypeOK, ServerThrows, ReplyIsAnEcho
<1>2. CASE UNCHANGED udpVars
  BY <1>2, StaysHonest DEF UdpIInv, UdpTypeOK, udpVars, ReplyIsAnEcho
<1> QED
  BY <1>1, <1>2, NetworkStep, SendRequestStep, ThrowsStep,
     ReceiveReplyStep, ServeStep
  DEF UdpNext

LEMMA UdpBegins ==
  ASSUME UdpInit
  PROVE  UdpIInv
BY DEF UdpInit, UdpIInv, UdpTypeOK, ReplyIsAnEcho, NoText, Text, Texts

(* The variables of the udp echo keep their types. *)
THEOREM UdpTypeCorrect == UdpSpec => []UdpTypeOK
<1>1. UdpIInv => UdpTypeOK  BY DEF UdpIInv
<1> QED  BY <1>1, UdpBegins, UdpSteps, PTL DEF UdpSpec

(* Whatever the network loses, doubles or lets overtake: a client shows the  *)
(* beginning of its own line and nobody else's, unless a stranger sent it.   *)
THEOREM RepliesAreEchoes == UdpSpec => []ReplyIsAnEcho
<1>1. UdpIInv => ReplyIsAnEcho  BY DEF UdpIInv
<1> QED  BY <1>1, UdpBegins, UdpSteps, PTL DEF UdpSpec
=============================================================================
