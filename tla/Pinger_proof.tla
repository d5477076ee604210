----------------------------- MODULE Pinger_proof -----------------------------
(* Proofs about Pinger, for every value of its constants. *)
EXTENDS Pinger, TLAPS

(* A wait that was cancelled is the wait for a reply that came: the wait for *)
(* the next request is armed either after a reply, and then no later one     *)
(* cancels it, or after the whole Timeout, and then Gap is long past.        *)
CancelledByReply == waits = "handle_timeout" /\ cancelled => num_replies > 0
PatientUnlessLate ==
  waits = "start_send" /\ (num_replies = 0 \/ cancelled) => since >= Timeout
ExpiryOfWait == expires = IF waits = "start_send" THEN Gap ELSE Timeout

(* Replies to earlier requests aside, all have the number that is expected;  *)
(* an answer to the request was counted.                                    *)
NewRepliesExpected == \A r \in net : ~r.old => r.seq = sequence_number
AnswersCount == answered => num_replies > 0

(* The first reply ended the wait for one. *)
ReplyInterrupts == waits = "handle_timeout" /\ num_replies > 0 => cancelled

Inv ==
  /\ CancelledByReply
  /\ PatientUnlessLate
  /\ ExpiryOfWait
  /\ ReplyInterrupts
Answers == NewRepliesExpected /\ AnswersCount

(* The age of a reply tells how many requests, k, were sent after the one it *)
(* answers: they were Gap apart, so k is too small for the numbers to have   *)
(* come round.                                                               *)
Behind(r, k) ==
  /\ r.seq + k = sequence_number \/ r.seq + k = sequence_number + SeqMod
  /\ r.age >= k * Gap + since
  /\ r.old <=> k > 0
AgesTell == \A r \in net : \E k \in 0..SeqMod - 1 : Behind(r, k)

LEMMA Times ==
  /\ Timeout \in Nat /\ Gap \in Nat /\ SeqMod \in Nat /\ SeqMod > 0
  /\ Life \in Nat /\ Cap \in Nat /\ Gap < Timeout /\ Timeout < Cap
  /\ SeqMod <= 65536
  BY TimesAssumption

LEMMA NextNumberType == \A n \in Nat : NextNumber(n) \in 0..SeqMod - 1
  BY Times DEF NextNumber

(* Growing older, or answering an earlier request, a reply stays a reply. *)
LEMMA OlderReplies ==
  ASSUME NEW N, N \subseteq Reply
  PROVE  {[r EXCEPT !.age = @ + 1] : r \in {q \in N : q.age < Life}} \subseteq Reply
<1> SUFFICES ASSUME NEW r \in N, r.age < Life
             PROVE  [r EXCEPT !.age = @ + 1] \in Reply
  OBVIOUS
<1>1. r \in Reply
  OBVIOUS
<1>2. r.age \in 0..Life /\ r.age + 1 \in 0..Life
  BY <1>1, Times DEF Reply
<1> QED  BY <1>1, <1>2 DEF Reply

LEMMA EarlierReplies ==
  ASSUME NEW N, N \subseteq Reply, NEW n \in 0..SeqMod - 1, NEW f \in Forms
  PROVE  {[r EXCEPT !.old = TRUE] : r \in N} \cup {NewReply(n, f)}
           \subseteq Reply
<1>1. \A r \in N : [r EXCEPT !.old = TRUE] \in Reply
  BY DEF Reply
<1>2. NewReply(n, f) \in Reply
  BY Times DEF Reply, NewReply
<1> QED  BY <1>1, <1>2

-----------------------------------------------------------------------------
(* Two bytes make the number they were made from. *)
LEMMA TwoBytes ==
  ASSUME NEW n \in Short
  PROVE  /\ n \div 256 \in Byte /\ n % 256 \in Byte
         /\ ((n \div 256) * 256) + (n % 256) = n
         /\ n % 65536 = n
  BY DEF Short, Byte, Below

LEMMA FieldTypes ==
  ASSUME NEW f \in Fields
  PROVE  /\ f.version \in Below(16) /\ f.words \in 5..15 /\ f.tos \in Byte
         /\ f.length \in Short /\ f.id \in Short /\ f.offset \in Below(8192)
         /\ f.df \in BOOLEAN /\ f.mf \in BOOLEAN
         /\ f.ttl \in Byte /\ f.protocol \in Byte /\ f.checksum \in Short
         /\ f.source = <<f.source[1], f.source[2], f.source[3], f.source[4]>>
         /\ f.destination = <<f.destination[1], f.destination[2],
                              f.destination[3], f.destination[4]>>
<1>1. /\ f.version \in Below(16) /\ f.words \in 5..15 /\ f.tos \in Byte
      /\ f.length \in Short /\ f.id \in Short /\ f.offset \in Below(8192)
      /\ f.df \in BOOLEAN /\ f.mf \in BOOLEAN
      /\ f.ttl \in Byte /\ f.protocol \in Byte /\ f.checksum \in Short
      /\ f.source \in Address /\ f.destination \in Address
  BY DEF Fields
<1>2. \A a \in Address : a = <<a[1], a[2], a[3], a[4]>>
  BY DEF Address
<1> QED  BY <1>1, <1>2

LEMMA FragmentBits ==
  ASSUME NEW n \in Below(8192), NEW d \in BOOLEAN, NEW m \in BOOLEAN,
         NEW w, w = Bit(d, 16384) + Bit(m, 8192) + n
  PROVE  /\ w \in Short
         /\ ((w \div 256) \div 64) % 2 = (IF d THEN 1 ELSE 0)
         /\ ((w \div 256) \div 32) % 2 = (IF m THEN 1 ELSE 0)
         /\ w % 8192 = n
  BY DEF Bit, Below, Short

(* The accessors say of a header what was laid out in it, whatever the fields *)
(* (ipv4.hpp:55-77, and the layout of 19-49).                               *)
THEOREM FieldsAsLaidOut ==
  ASSUME NEW f \in Fields, NEW rep, \A i \in 0..19 : rep[i] = Wire(f)[i + 1]
  PROVE  /\ version(rep) = f.version
         /\ header_length(rep) = f.words * 4
         /\ type_of_service(rep) = f.tos
         /\ total_length(rep) = f.length
         /\ identification(rep) = f.id
         /\ dont_fragment(rep) = f.df
         /\ more_fragments(rep) = f.mf
         /\ fragment_offset(rep) = f.offset
         /\ time_to_live(rep) = f.ttl
         /\ protocol(rep) = f.protocol
         /\ header_checksum(rep) = f.checksum
         /\ source_address(rep) = f.source
         /\ destination_address(rep) = f.destination
<1> USE FieldTypes
<1>1. /\ rep[0] = f.version * 16 + f.words /\ rep[1] = f.tos
      /\ rep[2] = f.length \div 256 /\ rep[3] = f.length % 256
      /\ rep[4] = f.id \div 256 /\ rep[5] = f.id % 256
      /\ rep[6] = Fragments(f) \div 256 /\ rep[7] = Fragments(f) % 256
      /\ rep[8] = f.ttl /\ rep[9] = f.protocol
      /\ rep[10] = f.checksum \div 256 /\ rep[11] = f.checksum % 256
      /\ rep[12] = f.source[1] /\ rep[13] = f.source[2]
      /\ rep[14] = f.source[3] /\ rep[15] = f.source[4]
      /\ rep[16] = f.destination[1] /\ rep[17] = f.destination[2]
      /\ rep[18] = f.destination[3] /\ rep[19] = f.destination[4]
  BY DEF Wire
<1>2. version(rep) = f.version /\ header_length(rep) = f.words * 4
  BY <1>1 DEF version, header_length, Below
<1>3. /\ total_length(rep) = f.length /\ identification(rep) = f.id
      /\ header_checksum(rep) = f.checksum
  BY <1>1, TwoBytes DEF total_length, identification, header_checksum, decode
<1>4. /\ Fragments(f) \in Short
      /\ ((Fragments(f) \div 256) \div 64) % 2 = (IF f.df THEN 1 ELSE 0)
      /\ ((Fragments(f) \div 256) \div 32) % 2 = (IF f.mf THEN 1 ELSE 0)
      /\ Fragments(f) % 8192 = f.offset
  BY FragmentBits DEF Fragments
<1>5. dont_fragment(rep) = f.df /\ more_fragments(rep) = f.mf
  BY <1>1, <1>4 DEF dont_fragment, more_fragments
<1>6. fragment_offset(rep) = f.offset
  BY <1>1, <1>4, TwoBytes DEF fragment_offset, decode
<1>7. source_address(rep) = f.source /\ destination_address(rep) = f.destination
  BY <1>1 DEF source_address, destination_address
<1> QED  BY <1>1, <1>2, <1>3, <1>5, <1>6, <1>7
          DEF type_of_service, time_to_live, protocol

LEMMA FormTypes ==
  ASSUME NEW f \in Forms
  PROVE  /\ f.fields \in Fields /\ f.fields.version = 4
         /\ f.fields.words \in 5..15
         /\ f.type \in Byte /\ f.identifier \in Short /\ f.icmp \in Nat
  BY FormsAssumption, FieldTypes DEF Short, Below

(* However many options are in it, the header of a packet is as its host     *)
(* wrote it, and what is behind is the ICMP packet (ipv4.hpp:79-89).         *)
LEMMA PacketLayout ==
  ASSUME NEW r \in Reply
  PROVE  LET p == Packet(r)
             start == r.form.fields.words * 4
         IN  /\ Len(p) = start + r.form.icmp
             /\ Good(p) /\ RestLength(p) = r.form.icmp
             /\ \A i \in 0..19 : Header(p)[i] = Wire(r.form.fields)[i + 1]
             /\ \A i \in Nat : 1 <= i /\ i <= r.form.icmp
                                 => RestByte(p, i) = IcmpByte(r, i)
<1> DEFINE p == Packet(r)
           f == r.form.fields
           start == 20 + (f.words - 5) * 4
           size == r.form.icmp
<1>1. f \in Fields /\ f.version = 4 /\ f.words \in 5..15 /\ size \in Nat
  BY FormTypes DEF Reply
<1>2. start \in 20..60 /\ start = f.words * 4
  BY <1>1
<1>3. p = [i \in 1..start + size |->
             IF i <= 20 THEN Wire(f)[i]
             ELSE IF i <= start THEN 0 ELSE IcmpByte(r, i - start)]
  BY DEF Packet, IcmpStart
<1>4. start \in Nat /\ size \in Nat /\ start + size \in Nat
  BY <1>1, <1>2
<1> HIDE DEF p, f, start, size
<1>5. Len(p) = start + size
  BY <1>3, <1>4
<1>6. \A n \in 20..60 : \A i \in 0..19 : Rep(p, n)[i] = Wire(f)[i + 1]
  <2> SUFFICES ASSUME NEW n \in 20..60, NEW i \in 0..19
               PROVE  Rep(p, n)[i] = Wire(f)[i + 1]
    OBVIOUS
  <2>1. i + 1 \in 1..start + size /\ i < start + size /\ i + 1 <= 20
    BY <1>2, <1>4
  <2>2. i \in 0..59 /\ i < n /\ i < Len(p)
    BY <1>5, <2>1
  <2>3. Rep(p, n)[i] = p[i + 1]
    BY <2>2, Zenon DEF Rep
  <2> QED  BY <1>3, <2>1, <2>3
<1>7. version(Fixed(p)) = 4 /\ header_length(Fixed(p)) = start
  <2>1. \A i \in 0..19 : Fixed(p)[i] = Wire(f)[i + 1]
    BY <1>6 DEF Fixed
  <2> QED  BY <1>1, <1>2, <2>1, FieldsAsLaidOut
<1>8. OptionsLength(p) = start - 20
  BY <1>2, <1>7 DEF OptionsLength
<1>9. FixedIsGood(p) /\ Good(p) /\ RestLength(p) = size
  <2>1. /\ start + size >= 20 /\ start - 20 \in 0..40
        /\ start + size >= 20 + (start - 20)
    BY <1>2, <1>4
  <2>2. \A a, b \in Nat : (a + b) - 20 - (a - 20) = b
    OBVIOUS
  <2>3. (start + size) - 20 - (start - 20) = size
    BY <1>4, <2>2, Zenon
  <2> QED  BY <2>1, <2>3, <1>5, <1>7, <1>8, Zenon DEF Good, FixedIsGood, RestLength
<1>10. \A i \in 0..19 : Header(p)[i] = Wire(f)[i + 1]
  <2>1. 20 + OptionsLength(p) \in 20..60
    BY <1>2, <1>8
  <2> QED  BY <1>6, <1>9, <2>1, Zenon DEF Header
<1>11. \A i \in Nat : 1 <= i /\ i <= size => RestByte(p, i) = IcmpByte(r, i)
  <2> SUFFICES ASSUME NEW i \in Nat, 1 <= i, i <= size
               PROVE  RestByte(p, i) = IcmpByte(r, i)
    OBVIOUS
  <2> DEFINE k == start + i
  <2>1. /\ k \in 1..start + size /\ k - start = i
        /\ ~(k <= 20) /\ ~(k <= start) /\ 20 + (start - 20) + i = k
    BY <1>2, <1>4
  <2> HIDE DEF k
  <2>2. RestByte(p, i) = p[k]
    BY <1>8, <2>1 DEF RestByte
  <2>3. p[k] = IcmpByte(r, k - start)
    BY <1>3, <2>1, Zenon
  <2> QED  BY <2>1, <2>2, <2>3, Zenon
<1> QED  BY <1>2, <1>5, <1>9, <1>10, <1>11 DEF p, f, size

(* The packet of a reply with a whole ICMP header is read as it is, and no   *)
(* other for a reply.                                                        *)
LEMMA PacketIsHeard ==
  ASSUME NEW r \in Reply
  PROVE  /\ HasIcmp(Packet(r)) <=> r.form.icmp >= 8
         /\ HasIcmp(Packet(r)) =>
              /\ IcmpType(Packet(r)) = r.form.type
              /\ IcmpIdentifier(Packet(r)) = r.form.identifier
              /\ IcmpNumber(Packet(r)) = r.seq
<1>1. HasIcmp(Packet(r)) <=> r.form.icmp >= 8
  BY PacketLayout DEF HasIcmp
<1>2. r.form.icmp \in Nat /\ r.form.identifier \in Short /\ r.seq \in Short
  BY FormTypes, Times DEF Reply, Short, Below
<1> SUFFICES ASSUME r.form.icmp >= 8
             PROVE  /\ IcmpType(Packet(r)) = r.form.type
                    /\ IcmpIdentifier(Packet(r)) = r.form.identifier
                    /\ IcmpNumber(Packet(r)) = r.seq
  BY <1>1
<1>3. \A i \in 1..8 : RestByte(Packet(r), i) = IcmpByte(r, i)
  <2>1. \A i \in 1..8 : i \in Nat /\ 1 <= i /\ i <= r.form.icmp  BY <1>2
  <2> QED  BY <2>1, PacketLayout
<1>4. /\ IcmpType(Packet(r)) = r.form.type
      /\ IcmpIdentifier(Packet(r)) = ((r.form.identifier \div 256) * 256)
                                       + (r.form.identifier % 256)
      /\ IcmpNumber(Packet(r)) = ((r.seq \div 256) * 256) + (r.seq % 256)
  BY <1>3 DEF IcmpByte, IcmpType, IcmpIdentifier, IcmpNumber
<1> QED  BY <1>2, <1>4, TwoBytes

(* What is printed about an expected packet is true (ping.cpp:103-111).      *)
LEMMA PrintedIsTrue ==
  ASSUME NEW r \in Reply, HasIcmp(Packet(r))
  PROVE  Printed(Packet(r)) = Truth(r)
<1> DEFINE h == Header(Packet(r))
           f == r.form.fields
<1>1. /\ \A i \in 0..19 : h[i] = Wire(f)[i + 1]
      /\ Len(Packet(r)) = f.words * 4 + r.form.icmp
  BY PacketLayout
<1>2. f \in Fields /\ f.words \in 5..15 /\ r.form.icmp \in Nat
  BY FormTypes DEF Reply
<1> HIDE DEF h
<1>3. /\ header_length(h) = f.words * 4 /\ source_address(h) = f.source
      /\ time_to_live(h) = f.ttl
  BY <1>1, <1>2, FieldsAsLaidOut
<1>4. Len(Packet(r)) - header_length(h) = r.form.icmp
  <2>1. \A a, b \in Nat : (a + b) - a = b
    OBVIOUS
  <2>2. f.words * 4 \in Nat
    BY <1>2
  <2>3. (f.words * 4 + r.form.icmp) - f.words * 4 = r.form.icmp
    BY <1>2, <2>1, <2>2, Zenon
  <2> QED  BY <1>1, <1>3, <2>3, Zenon
<1>5. IcmpNumber(Packet(r)) = r.seq  BY PacketIsHeard
<1> QED  BY <1>3, <1>4, <1>5, Zenon DEF Printed, Truth, h

-----------------------------------------------------------------------------
LEMMA Initially == Init => TypeOK /\ Inv /\ Answers
<1> SUFFICES ASSUME Init PROVE TypeOK /\ Inv /\ Answers
  OBVIOUS
<1>1. 1 % SeqMod \in 0..SeqMod - 1
  BY Times
<1>2. PICK f \in Forms : net = {NewReply(1 % SeqMod, f)}
  BY DEF Init
<1>3. NewReply(1 % SeqMod, f) \in Reply
  BY <1>1, Times DEF Reply, NewReply
<1>4. /\ num_replies \in 0..2 /\ since \in 0..Cap
      /\ sequence_number \in 0..SeqMod - 1
  BY <1>1, Times DEF Init
<1>5. TypeOK
  BY <1>2, <1>3, <1>4, Zenon DEF Init, TypeOK
<1>6. Answers
  BY <1>2 DEF Init, Answers, NewRepliesExpected, AnswersCount, NewReply
<1> QED  BY <1>5, <1>6 DEF Init, Inv, CancelledByReply, PatientUnlessLate,
              ExpiryOfWait, ReplyInterrupts

(* What a packet does, whatever it is. *)
LEMMA Handling ==
  ASSUME TypeOK, NEW packet, NEW isTrue \in BOOLEAN, Handle(packet, isTrue)
  PROVE  /\ since' = since /\ waits' = waits /\ expires' = expires
         /\ UNCHANGED <<sequence_number, running, timedout>>
         /\ num_replies' \in 0..2 /\ cancelled' \in BOOLEAN
         /\ mistaken' \in BOOLEAN
         /\ num_replies' = 0 => num_replies = 0
         /\ Expected(packet) => num_replies' > 0
         /\ \/ UNCHANGED <<num_replies, cancelled>>
            \/ num_replies = 0 /\ num_replies' > 0 /\ cancelled' = TRUE
            \/ num_replies > 0 /\ num_replies' > 0 /\ cancelled' = cancelled
<1> USE DEF TypeOK
<1>1. CASE Expected(packet)
  <2>1. /\ num_replies' = IF num_replies < 2 THEN num_replies + 1 ELSE 2
        /\ cancelled' = (cancelled \/ num_replies = 0)
        /\ mistaken' = ~isTrue
        /\ UNCHANGED <<sequence_number, since, waits, expires, running,
                       timedout>>
    BY <1>1 DEF Handle, Interrupts
  <2>2. num_replies = 0 => cancelled' = TRUE
    BY <2>1, Zenon
  <2>3. num_replies # 0 => cancelled' = cancelled
    BY <2>1, Zenon
  <2>4. mistaken' \in BOOLEAN
    BY <2>1
  <2> QED  BY <2>1, <2>2, <2>3, <2>4
<1>2. CASE ~Expected(packet)
  BY <1>2 DEF Handle
<1> QED  BY <1>1, <1>2

LEMMA Receiving ==
  ASSUME TypeOK, NEW r \in net, HandleReceive(r)
  PROVE  /\ r \in Reply /\ net' \subseteq net
         /\ answered' = (answered \/ IsAnswer(r)) /\ answered' \in BOOLEAN
         /\ \E isTrue \in BOOLEAN : Handle(Packet(r), isTrue)
<1>1. r \in Reply
  BY DEF TypeOK
<1>2. IsAnswer(r) \in BOOLEAN
  BY <1>1 DEF IsAnswer, Reply
<1>3. (~r.old /\ Printed(Packet(r)) = Truth(r)) \in BOOLEAN
  BY <1>1 DEF Reply
<1> QED  BY <1>1, <1>2, <1>3 DEF HandleReceive, TypeOK

LEMMA TypeNext == TypeOK /\ [Next]_vars => TypeOK'
<1> SUFFICES ASSUME TypeOK, [Next]_vars PROVE TypeOK'
  OBVIOUS
<1>1. CASE Tick
  <2>1. net' \subseteq Reply /\ since' \in 0..Cap
    BY <1>1, OlderReplies, Times DEF Tick, TypeOK
  <2> QED  BY <1>1, <2>1 DEF Tick, timer, TypeOK
<1>2. CASE StartSend
  <2>1. sequence_number' \in 0..SeqMod - 1
    BY <1>2, NextNumberType DEF StartSend, TypeOK
  <2>2. net' \subseteq Reply
    BY <1>2, <2>1, EarlierReplies DEF StartSend, TypeOK
  <2>3. since' \in 0..Cap /\ num_replies' \in 0..2
    BY <1>2, Times DEF StartSend
  <2>4. /\ waits' = "handle_timeout" /\ expires' = Timeout
        /\ cancelled' = FALSE /\ timedout' = FALSE /\ answered' = FALSE
        /\ UNCHANGED <<running, mistaken>>
    BY <1>2 DEF StartSend, Arm
  <2> QED  BY <2>1, <2>2, <2>3, <2>4 DEF TypeOK
<1>3. CASE SendThrows
  BY <1>3 DEF SendThrows, timer, TypeOK
<1>4. CASE HandleTimeout
  <2>1. timedout' \in BOOLEAN
    BY <1>4 DEF HandleTimeout
  <2> QED  BY <1>4, <2>1 DEF HandleTimeout, Arm, TypeOK
<1>5. CASE \E r \in net : Lose(r)
  BY <1>5 DEF Lose, timer, TypeOK
<1>6. CASE \E r \in net : HandleReceive(r)
  BY <1>6, Receiving, Handling DEF TypeOK
<1>7. CASE ReceiveFails
  BY <1>7, Handling DEF ReceiveFails, TypeOK
<1>8. CASE UNCHANGED vars
  BY <1>8 DEF vars, timer, TypeOK
<1> QED  BY <1>1, <1>2, <1>3, <1>4, <1>5, <1>6, <1>7, <1>8 DEF Next

LEMMA InvHandle ==
  ASSUME TypeOK, Inv, NEW packet, NEW isTrue \in BOOLEAN,
         Handle(packet, isTrue)
  PROVE  Inv'
<1>1. /\ since' = since /\ waits' = waits /\ expires' = expires
      /\ \/ UNCHANGED <<num_replies, cancelled>>
         \/ num_replies = 0 /\ num_replies' > 0 /\ cancelled' = TRUE
         \/ num_replies > 0 /\ num_replies' > 0 /\ cancelled' = cancelled
  BY Handling
<1>2. num_replies \in 0..2 /\ num_replies' \in 0..2
  BY Handling DEF TypeOK
<1> USE DEF Inv, CancelledByReply, PatientUnlessLate, ExpiryOfWait,
            ReplyInterrupts
<1>3. CASE UNCHANGED <<num_replies, cancelled>>
  BY <1>1, <1>2, <1>3
<1>4. CASE num_replies = 0 /\ num_replies' > 0 /\ cancelled' = TRUE
  BY <1>1, <1>2, <1>4
<1>5. CASE num_replies > 0 /\ num_replies' > 0 /\ cancelled' = cancelled
  BY <1>1, <1>2, <1>5
<1> QED  BY <1>1, <1>3, <1>4, <1>5

LEMMA InvNext == TypeOK /\ Inv /\ [Next]_vars => Inv'
<1> SUFFICES ASSUME TypeOK, Inv, [Next]_vars PROVE Inv'
  OBVIOUS
<1>1. CASE \E r \in net : HandleReceive(r)
  BY <1>1, Receiving, InvHandle
<1>2. CASE ReceiveFails
  BY <1>2, InvHandle DEF ReceiveFails
<1> USE Times DEF Inv, CancelledByReply, PatientUnlessLate,
                  ExpiryOfWait, ReplyInterrupts
<1>3. CASE Tick
  <2>1. since >= Timeout => since' >= Timeout
    BY <1>3 DEF Tick, TypeOK
  <2> QED  BY <1>3, <2>1 DEF Tick, timer
<1>4. CASE StartSend
  BY <1>4 DEF StartSend, Arm
<1>5. CASE HandleTimeout
  BY <1>5 DEF HandleTimeout, Arm, Due
<1>6. CASE SendThrows \/ (\E r \in net : Lose(r)) \/ UNCHANGED vars
  BY <1>6 DEF SendThrows, Lose, vars, timer
<1> QED  BY <1>1, <1>2, <1>3, <1>4, <1>5, <1>6 DEF Next

LEMMA AnswersNext == TypeOK /\ Answers /\ [Next]_vars => Answers'
<1> SUFFICES ASSUME TypeOK, Answers, [Next]_vars PROVE Answers'
  OBVIOUS
<1> USE DEF Answers, NewRepliesExpected, AnswersCount
<1>1. CASE Tick
  <2>1. net' = {[r EXCEPT !.age = @ + 1] : r \in {q \in net : q.age < Life}}
    BY <1>1 DEF Tick
  <2>2. \A r \in net : r \in Reply
    BY DEF TypeOK
  <2> QED  BY <1>1, <2>1, <2>2 DEF Tick, Reply
<1>2. CASE StartSend
  <2>1. PICK f \in Forms :
          net' = {[r EXCEPT !.old = TRUE] : r \in net}
                   \cup {NewReply(sequence_number', f)}
    BY <1>2 DEF StartSend
  <2>2. \A r \in net : r \in Reply
    BY DEF TypeOK
  <2> QED  BY <1>2, <2>1, <2>2 DEF StartSend, NewReply, Reply
<1>3. CASE \E r \in net : HandleReceive(r)
  <2> PICK r \in net : HandleReceive(r)
    BY <1>3
  <2>1. /\ r \in Reply /\ net' \subseteq net
        /\ answered' = (answered \/ IsAnswer(r))
    BY Receiving
  <2>2. PICK isTrue \in BOOLEAN : Handle(Packet(r), isTrue)
    BY Receiving
  <2>3. IsAnswer(r) => Expected(Packet(r))
    BY <2>1, PacketIsHeard DEF IsAnswer, Expected
  <2>4. /\ sequence_number' = sequence_number
        /\ num_replies' \in 0..2 /\ num_replies \in 0..2
        /\ num_replies' = 0 => num_replies = 0
        /\ Expected(Packet(r)) => num_replies' > 0
    BY <2>2, Handling DEF TypeOK
  <2>5. answered' => answered \/ Expected(Packet(r))
    BY <2>1, <2>3, Zenon
  <2>6. answered => num_replies' > 0
    BY <2>4
  <2>7. answered' => num_replies' > 0
    BY <2>4, <2>5, <2>6, Zenon
  <2> QED  BY <2>1, <2>4, <2>7
<1>4. CASE ReceiveFails
  BY <1>4, Handling DEF ReceiveFails, TypeOK
<1>5. CASE SendThrows \/ HandleTimeout \/ (\E r \in net : Lose(r))
  BY <1>5 DEF SendThrows, HandleTimeout, Lose
<1>6. CASE UNCHANGED vars
  BY <1>6 DEF vars
<1> QED  BY <1>1, <1>2, <1>3, <1>4, <1>5, <1>6 DEF Next

(* The handler that sends the next request runs no sooner than Gap after the *)
(* last.                                                                     *)
LEMMA GapIsPast == TypeOK /\ Inv /\ StartSend => since >= Gap
<1> SUFFICES ASSUME TypeOK, Inv, StartSend PROVE since >= Gap
  OBVIOUS
<1>1. waits = "start_send" /\ (cancelled \/ since >= expires)
  BY DEF StartSend, Due
<1> QED  BY <1>1, Times DEF Inv, TypeOK, PatientUnlessLate, ExpiryOfWait

(* One request more, and the numbers still have not come round.              *)
LEMMA OneMoreBehind ==
  ASSUME NEW k \in 0..SeqMod - 1, NEW age \in 0..Life, age >= k * Gap + Gap
  PROVE  k + 1 \in 0..SeqMod - 1 /\ age >= (k + 1) * Gap
<1>1. /\ k \in Nat /\ Gap \in Nat /\ SeqMod \in Nat /\ age \in Nat
      /\ Life \in Nat /\ age <= Life
  BY Times
<1>2. (k + 1) * Gap = k * Gap + Gap
  BY <1>1
<1>3. (k + 1) * Gap < SeqMod * Gap
  <2>1. k * Gap \in Nat /\ SeqMod * Gap \in Nat  BY <1>1
  <2>2. Life < SeqMod * Gap  BY TimesAssumption
  <2> QED  BY <1>1, <1>2, <2>1, <2>2
<1>4. k + 1 < SeqMod
  <2>1. \A m \in Nat : m >= SeqMod => m * Gap >= SeqMod * Gap
    BY <1>1
  <2>2. k + 1 \in Nat /\ (k + 1) * Gap \in Nat /\ SeqMod * Gap \in Nat
    BY <1>1
  <2>3. k + 1 >= SeqMod => (k + 1) * Gap >= SeqMod * Gap
    BY <2>1, <2>2, Zenon
  <2> HIDE <1>2
  <2> QED  BY <1>1, <1>3, <2>2, <2>3
<1> QED  BY <1>1, <1>2, <1>4

LEMMA AgesNext ==
  ASSUME TypeOK, Inv, AgesTell, [Next]_vars
  PROVE  AgesTell'
<1>0. /\ \A r \in net : r \in Reply /\ \E k \in 0..SeqMod - 1 : Behind(r, k)
      /\ sequence_number \in 0..SeqMod - 1 /\ since \in Nat
  BY Times DEF TypeOK, AgesTell
<1>1. CASE Tick
  <2> SUFFICES ASSUME NEW r \in net, r.age < Life
               PROVE  \E k \in 0..SeqMod - 1 :
                        Behind([r EXCEPT !.age = @ + 1], k)'
    BY <1>1 DEF Tick, AgesTell
  <2>1. PICK k \in 0..SeqMod - 1 : Behind(r, k)
    BY <1>0
  <2> DEFINE q == [r EXCEPT !.age = @ + 1]
  <2>2. r \in Reply /\ q.seq = r.seq /\ q.old = r.old /\ q.age = r.age + 1
    BY <1>0 DEF Reply
  <2>3. since' <= since + 1 /\ since' \in Nat /\ sequence_number' = sequence_number
    BY <1>0, <1>1, Times DEF Tick, TypeOK
  <2> HIDE DEF q
  <2>4. r.age \in Nat /\ k * Gap \in Nat
    BY <2>2, Times DEF Reply
  <2>5. Behind(q, k)'
    BY <1>0, <2>1, <2>2, <2>3, <2>4 DEF Behind
  <2> QED  BY <2>5 DEF q
<1>2. CASE StartSend
  <2>1. PICK f \in Forms :
          net' = {[r EXCEPT !.old = TRUE] : r \in net}
                   \cup {NewReply(sequence_number', f)}
    BY <1>2 DEF StartSend
  <2>2. /\ since' = 0 /\ since >= Gap
        /\ sequence_number' = NextNumber(sequence_number)
        /\ sequence_number' \in 0..SeqMod - 1
    BY <1>0, <1>2, GapIsPast, NextNumberType DEF StartSend
  <2>3. sequence_number' = IF sequence_number + 1 = SeqMod THEN 0
                           ELSE sequence_number + 1
    BY <1>0, <2>2, Times DEF NextNumber
  <2>4. ASSUME NEW r \in net
        PROVE  \E k \in 0..SeqMod - 1 : Behind([r EXCEPT !.old = TRUE], k)'
    <3>1. PICK k \in 0..SeqMod - 1 : Behind(r, k)
      BY <1>0
    <3> DEFINE q == [r EXCEPT !.old = TRUE]
    <3>2. /\ r \in Reply /\ q.seq = r.seq /\ q.old = TRUE /\ q.age = r.age
      BY <1>0 DEF Reply
    <3>3. r.age \in 0..Life /\ r.seq \in 0..SeqMod - 1 /\ k * Gap \in Nat
      BY <3>2, Times DEF Reply
    <3> HIDE DEF q
    <3>4. r.age >= k * Gap + Gap
      BY <1>0, <2>2, <3>1, <3>3, Times DEF Behind
    <3>5. k + 1 \in 0..SeqMod - 1 /\ r.age >= (k + 1) * Gap
      BY <3>3, <3>4, OneMoreBehind
    <3>6. (k + 1) * Gap \in Nat  BY <3>5, Times
    <3>7. q.age >= (k + 1) * Gap + since'
      BY <2>2, <3>2, <3>3, <3>5, <3>6
    <3>8. \/ q.seq + (k + 1) = sequence_number'
          \/ q.seq + (k + 1) = sequence_number' + SeqMod
      <4>1. r.seq + k = sequence_number \/ r.seq + k = sequence_number + SeqMod
        BY <3>1 DEF Behind
      <4> QED  BY <1>0, <2>3, <3>2, <3>3, <3>5, <4>1, Times
    <3>9. Behind(q, k + 1)'
      <4>1. q.old <=> k + 1 > 0  BY <3>2, <3>5
      <4> QED  BY <3>7, <3>8, <4>1, Zenon DEF Behind
    <3> QED  BY <3>5, <3>9 DEF q
  <2>5. \E k \in 0..SeqMod - 1 : Behind(NewReply(sequence_number, f), k)'
    <3>1. 0 \in 0..SeqMod - 1 /\ 0 * Gap = 0  BY Times
    <3>2. Behind(NewReply(sequence_number, f), 0)'
      BY <2>2, <3>1, Times DEF Behind, NewReply
    <3> QED  BY <3>1, <3>2
  <2> QED  BY <2>1, <2>4, <2>5 DEF AgesTell
<1>3. CASE SendThrows \/ HandleTimeout \/ (\E r \in net : Lose(r))
  BY <1>3 DEF SendThrows, HandleTimeout, Lose, AgesTell, Behind
<1>4. CASE \E r \in net : HandleReceive(r)
  <2> PICK r \in net : HandleReceive(r)
    BY <1>4
  <2>1. net' \subseteq net /\ UNCHANGED <<sequence_number, since>>
    BY Receiving DEF Handle
  <2> QED  BY <2>1 DEF AgesTell, Behind
<1>5. CASE ReceiveFails
  BY <1>5 DEF ReceiveFails, Handle, AgesTell, Behind
<1>6. CASE UNCHANGED vars
  BY <1>6 DEF vars, AgesTell, Behind
<1> QED  BY <1>1, <1>2, <1>3, <1>4, <1>5, <1>6 DEF Next

LEMMA AgesBegin == Init => AgesTell
<1> SUFFICES ASSUME Init PROVE AgesTell
  OBVIOUS
<1>1. PICK f \in Forms : net = {NewReply(1 % SeqMod, f)}
  BY DEF Init
<1>2. 0 \in 0..SeqMod - 1 /\ 0 * Gap = 0  BY Times
<1>3. Behind(NewReply(1 % SeqMod, f), 0)
  <2>1. 1 % SeqMod \in Nat  BY Times
  <2> QED  BY <1>2, <2>1 DEF Behind, NewReply, Init
<1> QED  BY <1>1, <1>2, <1>3 DEF AgesTell

(* A reply that has the expected number answers the last request, and is     *)
(* printed as it came.                                                       *)
LEMMA MistakenNext ==
  ASSUME TypeOK, AgesTell, NotMistaken, [Next]_vars
  PROVE  NotMistaken'
<1>1. CASE \E r \in net : HandleReceive(r)
  <2> PICK r \in net : HandleReceive(r)
    BY <1>1
  <2>1. r \in Reply  BY DEF TypeOK
  <2>2. CASE Expected(Packet(r))
    <3>1. HasIcmp(Packet(r)) /\ r.seq = sequence_number
      BY <2>1, <2>2, PacketIsHeard DEF Expected
    <3>2. PICK k \in 0..SeqMod - 1 : Behind(r, k)
      BY DEF AgesTell
    <3>3. k = 0
      BY <3>1, <3>2, Times DEF Behind, TypeOK
    <3>4. ~r.old  BY <3>2, <3>3 DEF Behind
    <3>5. Printed(Packet(r)) = Truth(r)  BY <2>1, <3>1, PrintedIsTrue
    <3>6. mistaken' = ~(~r.old /\ Printed(Packet(r)) = Truth(r))
      BY <2>2 DEF HandleReceive, Handle
    <3> QED  BY <3>4, <3>5, <3>6, Zenon DEF NotMistaken
  <2>3. CASE ~Expected(Packet(r))
    BY <2>3 DEF HandleReceive, Handle, NotMistaken
  <2> QED  BY <2>2, <2>3
<1>2. CASE ReceiveFails
  <2>1. ~Expected(<<>>)
    BY DEF Expected, HasIcmp, Good, FixedIsGood
  <2> QED  BY <1>2, <2>1 DEF ReceiveFails, Handle, NotMistaken
<1>3. CASE ~(\E r \in net : HandleReceive(r)) /\ ~ReceiveFails
  <2>1. mistaken' = mistaken
    BY <1>3 DEF Next, Tick, StartSend, SendThrows, HandleTimeout, Lose, vars
  <2> QED  BY <2>1 DEF NotMistaken
<1> QED  BY <1>1, <1>2, <1>3

LEMMA InvHolds == Spec => [](TypeOK /\ Inv /\ Answers)
  BY Initially, TypeNext, InvNext, AnswersNext, PTL DEF Spec

-----------------------------------------------------------------------------
(* The types hold, and the first reply has cancelled the wait for it         *)
(* (handle_receive, ping.cpp:99-101).                                        *)
THEOREM FirstReplyInterrupts == Spec => [](TypeOK /\ ReplyInterrupts)
<1>1. TypeOK /\ Inv => TypeOK /\ ReplyInterrupts
  BY DEF Inv
<1> QED  BY <1>1, InvHolds, PTL

(* Requests are sent no less than Gap apart (ping.cpp:67), whatever replies  *)
(* come and however late: only start_send counts the number on, and its wait *)
(* ends either at its expiry or cancelled, and then it was armed late.       *)
THEOREM RequestsKeepTheirDistance == Spec => NoLessThanGapApart
<1>1. TypeOK /\ Inv /\ Answers /\ [Next]_vars
        => [sequence_number' # sequence_number => since >= Gap]_vars
  <2> SUFFICES ASSUME TypeOK, Inv, [Next]_vars, sequence_number' # sequence_number
               PROVE  since >= Gap
    OBVIOUS
  <2>1. StartSend
    BY DEF Next, Tick, SendThrows, HandleTimeout, Lose, HandleReceive,
           ReceiveFails, Handle, vars
  <2> QED  BY <2>1, GapIsPast
<1> QED  BY <1>1, InvHolds, PTL DEF Spec, NoLessThanGapApart

(* "Request timed out" (ping.cpp:64-65) is printed only after Timeout without *)
(* a reply: a wait that was cut short was cut short by a reply that counts.   *)
THEOREM TimeoutsAreReal == Spec => TimedOutRightly
<1>1. TypeOK /\ Inv /\ Answers /\ [Next]_vars
        => [~timedout /\ timedout' => since >= Timeout /\ ~answered]_vars
  <2> SUFFICES ASSUME TypeOK, Inv, Answers, [Next]_vars, ~timedout, timedout'
               PROVE  since >= Timeout /\ ~answered
    OBVIOUS
  <2>1. HandleTimeout
    BY DEF Next, Tick, SendThrows, StartSend, Lose, HandleReceive,
           ReceiveFails, Handle, vars
  <2>2. /\ waits = "handle_timeout" /\ (cancelled \/ since >= expires)
        /\ num_replies = 0
    BY <2>1 DEF HandleTimeout, Due
  <2> QED  BY <2>2, Times DEF Inv, TypeOK, CancelledByReply, ExpiryOfWait,
                                   Answers, AnswersCount
<1> QED  BY <1>1, InvHolds, PTL DEF Spec, TimedOutRightly

(* What is printed as a reply is one to the request the pinger waits on, as  *)
(* it came (ping.cpp:93-111): whatever the network delays, doubles or cuts   *)
(* and whatever is in the headers, as long as no reply is still under way    *)
(* when SeqMod requests have followed the one it answers.                    *)
THEOREM NoReplyIsMistaken == Spec => []NotMistaken
<1>1. Init => AgesTell /\ NotMistaken
  BY AgesBegin DEF Init, NotMistaken
<1>2. TypeOK /\ Inv /\ Answers /\ AgesTell /\ NotMistaken /\ [Next]_vars
        => AgesTell' /\ NotMistaken'
  BY AgesNext, MistakenNext
<1>3. TypeOK /\ Inv /\ Answers /\ [Next]_vars => TypeOK' /\ Inv' /\ Answers'
  BY TypeNext, InvNext, AnswersNext
<1> QED  BY <1>1, <1>2, <1>3, Initially, PTL DEF Spec
=============================================================================
