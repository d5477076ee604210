--------------------------- MODULE ChatClient_proof ---------------------------
(***************************************************************************)
(* What is proved of ChatClient for any lines, any number of endpoints and *)
(* any bounds: its types, its two invariants, and that closing is final.   *)
(* And of ChatFrame, for lines of any length and any bytes in a header:    *)
(* what a length is when it was decoded, and that a reader keeps step with *)
(* a client.                                                               *)
(*                                                                         *)
(* Every step leaves in the queue ready what was there, or all of it but   *)
(* the first handler, with some handlers behind.  So what the invariants   *)
(* say of ready is said by four operators on sequences of handlers, and a  *)
(* lemma says what each becomes when the first is taken and when more are  *)
(* put behind.                                                             *)
(*                                                                         *)
(* What the reader keeps step by is that a length decodes to what was      *)
(* encoded.  Decoding is a recursion over digits, of which first its       *)
(* existence is to be proved.                                              *)
(***************************************************************************)
EXTENDS ChatClient, ChatFrame, SequenceTheorems, FiniteSetTheorems,
        WellFoundedInduction, TLAPS

(* No handler of these kinds in a sequence, and not two. *)
None(q, D) == \A i \in 1..Len(q) : q[i].do \notin D
OneAtMost(q, D) ==
  \A i, j \in 1..Len(q) : q[i].do \in D /\ q[j].do \in D => i = j

(* A write has succeeded and its handler is still to run. *)
Popped(q) == \E i \in 1..Len(q) : q[i].do = "written" /\ q[i].ok

-----------------------------------------------------------------------------
(* The inductive invariant. *)

(* One write is outstanding, of the queue's front, or one handler of a write *)
(* is in ready: and then the queue is not empty.                             *)
OneWrite ==
  /\ OneAtMost(ready, {"written"})
  /\ writing # <<>> => /\ None(ready, {"written"})
                       /\ write_msgs # <<>>
                       /\ writing = <<Head(write_msgs)>>
  /\ ~None(ready, {"written"}) => write_msgs # <<>>

(* An attempt to connect, a read, or the handler of one of them. *)
Chain == {"connect", "read"}

OneChain ==
  /\ OneAtMost(ready, Chain)
  /\ reading # "none" => None(ready, Chain) /\ socket # "connecting"
  /\ socket = "connecting" => None(ready, Chain)

(* What of the queue is not yet on the wire. *)
Unwritten == IF Popped(ready) THEN Tail(write_msgs) ELSE write_msgs

InPlace ==
  \E posted \in Seq(Line) :
    typed = wire \o Unwritten \o posted /\ Carry(ready, posted)

IInv == TypeOK /\ OneWrite /\ OneChain /\ InPlace
-----------------------------------------------------------------------------
(* Handlers, and sequences of them. *)

LEMMA Handled ==
  ASSUME NEW h \in Handler
  PROVE  /\ h.do = "write" => h.line \in Line
         /\ h.do \in {"connect", "written", "read"} => h.ok \in BOOLEAN
         /\ h.do = "read" => h.what \in {"header", "body"}
BY DEF Handler

LEMMA Made ==
  /\ \A l \in Line : [do |-> "write", line |-> l] \in Handler
  /\ [do |-> "close"] \in Handler
  /\ \A ok \in BOOLEAN : /\ [do |-> "connect", ok |-> ok] \in Handler
                         /\ [do |-> "written", ok |-> ok] \in Handler
  /\ \A ok \in BOOLEAN, what \in {"header", "body"} :
       [do |-> "read", what |-> what, ok |-> ok] \in Handler
BY DEF Handler

LEMMA One ==
  ASSUME NEW S, NEW h \in S
  PROVE  <<h>> \in Seq(S) /\ Len(<<h>>) = 1 /\ <<h>>[1] = h
OBVIOUS

(* What is put behind. *)
LEMMA Behind ==
  ASSUME NEW S, NEW q \in Seq(S), NEW r \in Seq(S)
  PROVE  /\ q \o r \in Seq(S)
         /\ Len(q \o r) = Len(q) + Len(r)
         /\ Len(q) \in Nat /\ Len(r) \in Nat
         /\ \A i \in 1..Len(q) : (q \o r)[i] = q[i]
         /\ \A i \in 1..Len(r) : (q \o r)[Len(q) + i] = r[i]
         /\ \A i \in 1..Len(q) + Len(r) :
              i \in 1..Len(q) \/ i - Len(q) \in 1..Len(r)
<1>1. Len(q) \in Nat /\ Len(r) \in Nat
  BY LenProperties
<1>2. /\ q \o r \in Seq(S)
      /\ Len(q \o r) = Len(q) + Len(r)
      /\ \A i \in 1..Len(q) + Len(r) :
           (q \o r)[i] = IF i <= Len(q) THEN q[i] ELSE r[i - Len(q)]
  BY ConcatProperties
<1>3. \A i \in 1..Len(r) : Len(q) + i \in 1..Len(q) + Len(r)
                           /\ ~(Len(q) + i <= Len(q))
                           /\ Len(q) + i - Len(q) = i
  BY <1>1
<1>. QED
  BY <1>1, <1>2, <1>3

LEMMA Rest ==
  ASSUME NEW S, NEW q \in Seq(S), q # <<>>
  PROVE  /\ Len(q) \in Nat \ {0}
         /\ Head(q) \in S /\ Head(q) = q[1]
         /\ Tail(q) \in Seq(S)
         /\ Len(Tail(q)) = Len(q) - 1
         /\ \A i \in 1..Len(Tail(q)) : Tail(q)[i] = q[i + 1]
BY HeadTailProperties

LEMMA KindBehind ==
  ASSUME NEW q \in Seq(Handler), NEW r \in Seq(Handler), NEW D
  PROVE  /\ None(q \o r, D) <=> None(q, D) /\ None(r, D)
         /\ \/ OneAtMost(q, D) /\ None(r, D)
            \/ None(q, D) /\ OneAtMost(r, D)
            => OneAtMost(q \o r, D)
         /\ Popped(q \o r) <=> Popped(q) \/ Popped(r)
<1>. DEFINE s == q \o r
<1>1. \A i \in 1..Len(q) : s[i] = q[i] /\ i \in 1..Len(s)
  BY Behind
<1>2. \A i \in 1..Len(r) : s[Len(q) + i] = r[i] /\ Len(q) + i \in 1..Len(s)
  BY Behind
<1>3. \A i \in 1..Len(s) :
        i \in 1..Len(q) \/ \E j \in 1..Len(r) : i = Len(q) + j
  <2>1. \A i \in 1..Len(s) : i - Len(q) \in 1..Len(r) => i = Len(q) + (i - Len(q))
    BY Behind
  <2>2. \A i \in 1..Len(s) : i \in 1..Len(q) \/ i - Len(q) \in 1..Len(r)
    BY Behind
  <2>. QED
    BY <2>1, <2>2
<1>. HIDE DEF s
<1>4. None(s, D) <=> None(q, D) /\ None(r, D)
  BY <1>1, <1>2, <1>3 DEF None
<1>5. OneAtMost(q, D) /\ None(r, D) => OneAtMost(s, D)
  <2>1. ASSUME None(r, D), NEW i \in 1..Len(s), s[i].do \in D
        PROVE  i \in 1..Len(q) /\ q[i].do \in D
    BY <2>1, <1>1, <1>2, <1>3 DEF None
  <2>. QED
    BY <2>1 DEF OneAtMost
<1>6. None(q, D) /\ OneAtMost(r, D) => OneAtMost(s, D)
  <2>1. ASSUME None(q, D), NEW i \in 1..Len(s), s[i].do \in D
        PROVE  \E j \in 1..Len(r) : i = Len(q) + j /\ r[j].do \in D
    BY <2>1, <1>1, <1>2, <1>3 DEF None
  <2>. QED
    BY <2>1 DEF OneAtMost
<1>7. ASSUME Popped(s) PROVE Popped(q) \/ Popped(r)
  <2>1. PICK i \in 1..Len(s) : s[i].do = "written" /\ s[i].ok
    BY <1>7 DEF Popped
  <2>2. CASE i \in 1..Len(q)
    BY <2>1, <2>2, <1>1 DEF Popped
  <2>3. ASSUME NEW j \in 1..Len(r), i = Len(q) + j PROVE Popped(r)
    <3>1. s[i] = r[j]
      BY <2>3, <1>2
    <3>. QED
      BY <2>1, <3>1 DEF Popped
  <2>. QED
    BY <2>2, <2>3, <1>3
<1>8. ASSUME Popped(q) PROVE Popped(s)
  <2>1. PICK i \in 1..Len(q) : q[i].do = "written" /\ q[i].ok
    BY <1>8 DEF Popped
  <2>. QED
    BY <2>1, <1>1 DEF Popped
<1>9. ASSUME Popped(r) PROVE Popped(s)
  <2>1. PICK i \in 1..Len(r) : r[i].do = "written" /\ r[i].ok
    BY <1>9 DEF Popped
  <2>2. Len(q) + i \in 1..Len(s) /\ s[Len(q) + i] = r[i]
    BY <1>2
  <2>. QED
    BY <2>1, <2>2 DEF Popped
<1>. QED
  BY <1>4, <1>5, <1>6, <1>7, <1>8, <1>9 DEF s

LEMMA KindOne ==
  ASSUME NEW h \in Handler, NEW D
  PROVE  /\ OneAtMost(<<h>>, D)
         /\ None(<<h>>, D) <=> h.do \notin D
         /\ Popped(<<h>>) <=> h.do = "written" /\ h.ok
BY One DEF OneAtMost, None, Popped

LEMMA KindNothing ==
  ASSUME NEW D
  PROVE  OneAtMost(<<>>, D) /\ None(<<>>, D) /\ ~Popped(<<>>)
BY DEF OneAtMost, None, Popped

LEMMA KindRest ==
  ASSUME NEW q \in Seq(Handler), q # <<>>, NEW D
  PROVE  /\ None(q, D) => None(Tail(q), D) /\ Head(q).do \notin D
         /\ OneAtMost(q, D) => OneAtMost(Tail(q), D)
         /\ OneAtMost(q, D) /\ Head(q).do \in D => None(Tail(q), D)
         /\ Head(q).do \notin D /\ None(Tail(q), D) => None(q, D)
         /\ Head(q).do # "written" => (Popped(Tail(q)) <=> Popped(q))
         /\ OneAtMost(q, {"written"}) /\ Head(q).do = "written"
              => ~Popped(Tail(q)) /\ (Popped(q) <=> Head(q).ok)
<1>. DEFINE t == Tail(q)
<1>1. 1 \in 1..Len(q) /\ q[1] = Head(q)
  BY Rest
<1>2. \A i \in 1..Len(t) : t[i] = q[i + 1] /\ i + 1 \in 1..Len(q) /\ i + 1 # 1
  BY Rest
<1>3. \A i \in 1..Len(q) : i = 1 \/ \E j \in 1..Len(t) : i = j + 1
  <2>1. \A i \in 1..Len(q) : i = 1 \/ (i - 1 \in 1..Len(t) /\ i = (i - 1) + 1)
    BY Rest
  <2>. QED
    BY <2>1
<1>4. \A i, j \in 1..Len(t) : i + 1 = j + 1 => i = j
  BY Rest
<1>. HIDE DEF t
<1>5. /\ None(q, D) => None(t, D) /\ Head(q).do \notin D
      /\ Head(q).do \notin D /\ None(t, D) => None(q, D)
  BY <1>1, <1>2, <1>3 DEF None
<1>6. OneAtMost(q, D) => OneAtMost(t, D)
  BY <1>2, <1>4 DEF OneAtMost
<1>7. \A E : OneAtMost(q, E) /\ Head(q).do \in E => None(t, E)
  BY <1>1, <1>2 DEF OneAtMost, None
<1>8. Popped(q) <=> Popped(t) \/ (Head(q).do = "written" /\ Head(q).ok)
  <2>1. ASSUME Popped(t) PROVE Popped(q)
    <3>1. PICK i \in 1..Len(t) : t[i].do = "written" /\ t[i].ok
      BY <2>1 DEF Popped
    <3>2. i + 1 \in 1..Len(q) /\ t[i] = q[i + 1]
      BY <1>2
    <3>. QED
      BY <3>1, <3>2 DEF Popped
  <2>2. ASSUME Popped(q), ~Popped(t)
        PROVE  Head(q).do = "written" /\ Head(q).ok
    <3>1. PICK i \in 1..Len(q) : q[i].do = "written" /\ q[i].ok
      BY <2>2 DEF Popped
    <3>2. ASSUME NEW j \in 1..Len(t), i = j + 1 PROVE Popped(t)
      <4>1. t[j] = q[i]
        BY <3>2, <1>2
      <4>. QED
        BY <3>1, <4>1 DEF Popped
    <3>. QED
      BY <3>1, <3>2, <2>2, <1>1, <1>3
  <2>. QED
    BY <2>1, <2>2, <1>1 DEF Popped
<1>9. None(t, {"written"}) => ~Popped(t)
  BY DEF None, Popped
<1>10. OneAtMost(q, {"written"}) /\ Head(q).do = "written" => ~Popped(t)
  BY <1>7, <1>9
<1>. QED
  BY <1>5, <1>6, <1>7, <1>8, <1>10 DEF t
-----------------------------------------------------------------------------
(* What the handlers carry. *)

LEMMA CarryBehind ==
  ASSUME NEW q \in Seq(Handler), NEW r \in Seq(Handler), None(r, {"write"}),
         NEW lines \in Seq(Line), Carry(q, lines)
  PROVE  Carry(q \o r, lines)
<1>. DEFINE s == q \o r
<1>1. \A i \in 1..Len(q) : s[i] = q[i] /\ i \in 1..Len(s)
  BY Behind
<1>2. \A i \in 1..Len(s) : i \in 1..Len(q) \/ s[i].do # "write"
  <2>1. \A i \in 1..Len(s) : /\ i \in 1..Len(q) \/ i - Len(q) \in 1..Len(r)
                            /\ i = Len(q) + (i - Len(q))
    BY Behind
  <2>2. \A i \in 1..Len(r) : s[Len(q) + i].do # "write"
    BY Behind DEF None
  <2>. QED
    BY <2>1, <2>2
<1>. HIDE DEF s
<1>3. Writes(s) = Writes(q)
  BY <1>1, <1>2 DEF Writes
<1>4. \A i \in Writes(q) : s[i] = q[i]
  BY <1>1 DEF Writes
<1>5. Carry(s, lines)
  BY <1>3, <1>4 DEF Carry
<1>. QED
  BY <1>5 DEF s

LEMMA CarryOneMore ==
  ASSUME NEW q \in Seq(Handler), NEW l \in Line,
         NEW lines \in Seq(Line), Carry(q, lines)
  PROVE  Carry(Append(q, [do |-> "write", line |-> l]), Append(lines, l))
<1>. DEFINE h == [do |-> "write", line |-> l]
            s == Append(q, h)
            more == Append(lines, l)
            m == Len(q)
            n == Len(lines)
<1>0. h \in Handler /\ h.do = "write" /\ h.line = l
  BY Made
<1>1. /\ m \in Nat /\ Len(s) = m + 1 /\ s[m + 1] = h
      /\ \A i \in 1..m : s[i] = q[i]
  BY <1>0, AppendProperties
<1>2. /\ n \in Nat /\ Len(more) = n + 1 /\ more[n + 1] = l
      /\ \A i \in 1..n : more[i] = lines[i]
  BY AppendProperties
<1>. HIDE DEF h, s, more, m, n
<1>3. PICK place \in [Writes(q) -> 1..n] :
        /\ \A i \in Writes(q) : q[i].line = lines[place[i]]
        /\ \A i, j \in Writes(q) : i < j => place[i] < place[j]
        /\ \A k \in 1..n : \E i \in Writes(q) : place[i] = k
  BY DEF Carry, n
<1>4. Writes(s) = Writes(q) \cup {m + 1}
  BY <1>0, <1>1 DEF Writes, m
<1>5. \A i \in Writes(q) : i \in 1..m
  BY DEF Writes, m
<1>. DEFINE new == [i \in Writes(s) |-> IF i = m + 1 THEN n + 1 ELSE place[i]]
<1>6. \A i \in Writes(q) : i # m + 1 /\ new[i] = place[i] /\ place[i] \in 1..n
  BY <1>1, <1>3, <1>4, <1>5
<1>7. new[m + 1] = n + 1
  BY <1>4
<1>8. new \in [Writes(s) -> 1..n + 1]
  BY <1>2, <1>4, <1>6, <1>7
<1>. HIDE DEF new
<1>9. \A i \in Writes(s) : s[i].line = more[new[i]]
  BY <1>0, <1>1, <1>2, <1>3, <1>4, <1>5, <1>6, <1>7
<1>10. ASSUME NEW i \in Writes(s), NEW j \in Writes(s), i < j
       PROVE  new[i] < new[j]
  <2>1. i \in Writes(q)
    BY <1>1, <1>4, <1>5, <1>10
  <2>2. CASE j \in Writes(q)
    BY <2>1, <2>2, <1>3, <1>6, <1>10
  <2>3. CASE j = m + 1
    BY <2>1, <2>3, <1>2, <1>6, <1>7
  <2>. QED
    BY <2>2, <2>3, <1>4
<1>11. \A k \in 1..n + 1 : \E i \in Writes(s) : new[i] = k
  <2>1. \A k \in 1..n + 1 : k \in 1..n \/ k = n + 1
    BY <1>2
  <2>. QED
    BY <2>1, <1>3, <1>4, <1>6, <1>7
<1>12. Carry(s, more)
  BY <1>2, <1>8, <1>9, <1>10, <1>11 DEF Carry
<1>. QED
  BY <1>12 DEF s, more, h

LEMMA CarryRest ==
  ASSUME NEW q \in Seq(Handler), q # <<>>, Head(q).do # "write",
         NEW lines \in Seq(Line), Carry(q, lines)
  PROVE  Carry(Tail(q), lines)
<1>. DEFINE t == Tail(q)
            n == Len(lines)
<1>1. \A i \in 1..Len(t) : t[i] = q[i + 1] /\ i + 1 \in 1..Len(q)
  BY Rest
<1>2. \A i \in 1..Len(q) : /\ i = 1 \/ i - 1 \in 1..Len(t)
                          /\ i = (i - 1) + 1 /\ i - 1 \in Int
  BY Rest
<1>3. q[1].do # "write"
  BY Rest
<1>. HIDE DEF t, n
<1>4. PICK place \in [Writes(q) -> 1..n] :
        /\ \A i \in Writes(q) : q[i].line = lines[place[i]]
        /\ \A i, j \in Writes(q) : i < j => place[i] < place[j]
        /\ \A k \in 1..n : \E i \in Writes(q) : place[i] = k
  BY DEF Carry, n
<1>5. \A i \in Writes(t) : i + 1 \in Writes(q) /\ i \in Nat /\ t[i] = q[i + 1]
  BY <1>1 DEF Writes
<1>6. \A i \in Writes(q) : i - 1 \in Writes(t) /\ i = (i - 1) + 1
  BY <1>1, <1>2, <1>3 DEF Writes
<1>. DEFINE new == [i \in Writes(t) |-> place[i + 1]]
<1>7. new \in [Writes(t) -> 1..n] /\ \A i \in Writes(t) : new[i] = place[i + 1]
  BY <1>4, <1>5
<1>. HIDE DEF new
<1>8. \A i \in Writes(t) : t[i].line = lines[new[i]]
  BY <1>4, <1>5, <1>7
<1>9. \A i, j \in Writes(t) : i < j => new[i] < new[j]
  BY <1>4, <1>5, <1>7
<1>10. \A k \in 1..n : \E i \in Writes(t) : new[i] = k
  BY <1>4, <1>6, <1>7
<1>. QED
  BY <1>7, <1>8, <1>9, <1>10 DEF Carry, t, n

LEMMA CarryFirst ==
  ASSUME NEW q \in Seq(Handler), q # <<>>, Head(q).do = "write",
         NEW lines \in Seq(Line), Carry(q, lines)
  PROVE  /\ lines # <<>> /\ Head(lines) = Head(q).line
         /\ Carry(Tail(q), Tail(lines))
<1>. DEFINE t == Tail(q)
            n == Len(lines)
<1>1. \A i \in 1..Len(t) : t[i] = q[i + 1] /\ i + 1 \in 1..Len(q)
  BY Rest
<1>2. \A i \in 1..Len(q) : /\ i = 1 \/ i - 1 \in 1..Len(t)
                          /\ i = (i - 1) + 1 /\ i - 1 \in Int
  BY Rest
<1>3. 1 \in 1..Len(q) /\ q[1] = Head(q)
  BY Rest
<1>. HIDE DEF t
<1>4. PICK place \in [Writes(q) -> 1..n] :
        /\ \A i \in Writes(q) : q[i].line = lines[place[i]]
        /\ \A i, j \in Writes(q) : i < j => place[i] < place[j]
        /\ \A k \in 1..n : \E i \in Writes(q) : place[i] = k
  BY DEF Carry
<1>5. 1 \in Writes(q) /\ \A i \in Writes(q) : i \in Nat /\ ~(i < 1)
  BY <1>3 DEF Writes
<1>6. n \in Nat \ {0} /\ lines # <<>>
  BY <1>4, <1>5, EmptySeq
<1>7. place[1] = 1
  <2>1. PICK i \in Writes(q) : place[i] = 1
    BY <1>4, <1>6
  <2>2. i # 1 => 1 < i
    BY <1>5
  <2>. QED
    BY <2>1, <2>2, <1>4, <1>5
<1>8. Head(lines) = Head(q).line
  BY <1>3, <1>4, <1>5, <1>6, <1>7, Rest
<1>. DEFINE more == Tail(lines)
<1>9. Len(more) = n - 1 /\ \A i \in 1..n - 1 : more[i] = lines[i + 1]
  BY <1>6, Rest
<1>. HIDE DEF more, n
<1>10. \A i \in Writes(t) : i + 1 \in Writes(q) /\ 1 < i + 1 /\ t[i] = q[i + 1]
  BY <1>1 DEF Writes
<1>11. \A i \in Writes(q) : i = 1 \/ (i - 1 \in Writes(t) /\ i = (i - 1) + 1)
  BY <1>1, <1>2 DEF Writes
<1>12. \A i \in Writes(t) : place[i + 1] \in 2..n
  BY <1>4, <1>5, <1>6, <1>7, <1>10
<1>. DEFINE new == [i \in Writes(t) |-> place[i + 1] - 1]
<1>13. /\ new \in [Writes(t) -> 1..n - 1]
       /\ \A i \in Writes(t) : new[i] = place[i + 1] - 1 /\ new[i] \in 1..n - 1
                              /\ place[i + 1] = new[i] + 1
  BY <1>6, <1>12
<1>. HIDE DEF new
<1>14. \A i \in Writes(t) : t[i].line = more[new[i]]
  BY <1>4, <1>9, <1>10, <1>13
<1>15. \A i, j \in Writes(t) : i < j => new[i] < new[j]
  <2>1. \A i, j \in Writes(t) : i < j => i + 1 < j + 1
    BY DEF Writes
  <2>2. \A i, j \in Writes(t) : i < j => place[i + 1] < place[j + 1]
    BY <2>1, <1>4, <1>10
  <2>. QED
    BY <2>2, <1>12, <1>13
<1>16. ASSUME NEW k \in 1..n - 1 PROVE \E i \in Writes(t) : new[i] = k
  <2>1. k + 1 \in 1..n /\ k + 1 # 1
    BY <1>6
  <2>2. PICK i \in Writes(q) : place[i] = k + 1
    BY <2>1, <1>4
  <2>3. i - 1 \in Writes(t) /\ place[(i - 1) + 1] = k + 1
    BY <2>1, <2>2, <1>7, <1>11
  <2>4. new[i - 1] = k
    BY <2>3, <1>13
  <2>. QED
    BY <2>3, <2>4
<1>17. Len(more) = n - 1
  BY <1>9
<1>18. Carry(t, more)
  <2>1. new \in [Writes(t) -> 1..Len(more)]
    BY <1>13, <1>17
  <2>2. \A k \in 1..Len(more) : \E i \in Writes(t) : new[i] = k
    BY <1>16, <1>17
  <2>. QED
    BY <2>1, <2>2, <1>14, <1>15 DEF Carry
<1>. QED
  BY <1>6, <1>8, <1>18 DEF t, more
-----------------------------------------------------------------------------
(* How a front goes from one sequence to the end of another. *)

LEMMA FrontOf ==
  ASSUME NEW S, NEW b \in Seq(S), NEW c \in Seq(S), c # <<>>
  PROVE  Append(b, Head(c)) \o Tail(c) = b \o c
<1>1. /\ Head(c) \in S /\ Head(c) = c[1] /\ Tail(c) \in Seq(S)
      /\ Len(c) \in Nat \ {0}
  BY Rest
<1>2. c = <<Head(c)>> \o Tail(c)
  <2>1. 1 \in 1..Len(c) /\ Len(c) \in 1..Len(c)
    BY <1>1
  <2>2. SubSeq(c, 1, Len(c)) = <<c[1]>> \o SubSeq(c, 1 + 1, Len(c))
    BY <2>1, SubSeqRecursiveFirst
  <2>. QED
    BY <1>1, <2>2, SubSeqFull, TailIsSubSeq
<1>3. Append(b, Head(c)) = b \o <<Head(c)>>
  BY <1>1, AppendIsConcat
<1>4. (b \o <<Head(c)>>) \o Tail(c) = b \o (<<Head(c)>> \o Tail(c))
  BY <1>1, One, ConcatAssociative
<1>. QED
  BY <1>2, <1>3, <1>4

LEMMA LineBehind ==
  \A b, c \in Seq(Line), e \in Line : Append(b \o c, e) = b \o Append(c, e)
<1>. SUFFICES ASSUME NEW b \in Seq(Line), NEW c \in Seq(Line), NEW e \in Line
              PROVE  Append(b \o c, e) = b \o Append(c, e)
  OBVIOUS
<1>1. b \o c \in Seq(Line) /\ <<e>> \in Seq(Line)
  BY ConcatProperties, One
<1>2. Append(b \o c, e) = (b \o c) \o <<e>> /\ Append(c, e) = c \o <<e>>
  BY <1>1, AppendIsConcat
<1>. QED
  BY <1>1, <1>2, ConcatAssociative

-----------------------------------------------------------------------------
(* What the actions put behind what is left of ready. *)

LEMMA OneBehind ==
  ASSUME NEW q \in Seq(Handler), NEW h \in Handler
  PROVE  Append(q, h) = q \o <<h>> /\ <<h>> \in Seq(Handler)
BY AppendIsConcat, One

LEMMA ReadStarted ==
  ASSUME TypeOK, NEW rest \in Seq(Handler), NEW what \in {"header", "body"},
         StartRead(what, rest)
  PROVE  /\ reading' \in {"none", "header", "body"}
         /\ \E new \in Seq(Handler) :
              /\ ready' = rest \o new
              /\ None(new, {"write"}) /\ None(new, {"written"}) /\ ~Popped(new)
              /\ OneAtMost(new, Chain)
              /\ IF socket = "closed" THEN reading' = reading
                 ELSE None(new, Chain) /\ reading' = what
<1>. DEFINE h == [do |-> "read", what |-> what, ok |-> FALSE]
<1>1. h \in Handler /\ h.do = "read"
  BY Made
<1>2. CASE socket = "closed"
  <2>1. ready' = rest \o <<h>> /\ <<h>> \in Seq(Handler) /\ reading' = reading
    BY <1>1, <1>2, OneBehind DEF StartRead
  <2>2. /\ None(<<h>>, {"write"}) /\ None(<<h>>, {"written"})
        /\ OneAtMost(<<h>>, Chain) /\ ~Popped(<<h>>)
    BY <1>1, KindOne
  <2>. QED
    BY <1>2, <2>1, <2>2 DEF TypeOK
<1>3. CASE socket # "closed"
  <2>1. ready' = rest \o <<>> /\ <<>> \in Seq(Handler) /\ reading' = what
    BY <1>3, ConcatEmptySeq, EmptySeq DEF StartRead
  <2>. QED
    BY <1>3, <2>1, KindNothing DEF TypeOK
<1>. QED
  BY <1>2, <1>3

LEMMA WriteStarted ==
  ASSUME TypeOK, NEW rest \in Seq(Handler), NEW l \in Line, StartWrite(l, rest)
  PROVE  /\ writing' \in Seq(Line)
         /\ \E new \in Seq(Handler) :
              /\ ready' = rest \o new
              /\ None(new, {"write"}) /\ None(new, Chain) /\ ~Popped(new)
              /\ OneAtMost(new, {"written"})
              /\ IF socket = "closed" THEN writing' = writing
                 ELSE None(new, {"written"}) /\ writing' = Append(writing, l)
<1>. DEFINE h == [do |-> "written", ok |-> FALSE]
<1>1. h \in Handler /\ h.do = "written" /\ h.ok = FALSE
  BY Made
<1>2. CASE socket = "closed"
  <2>1. ready' = rest \o <<h>> /\ <<h>> \in Seq(Handler) /\ writing' = writing
    BY <1>1, <1>2, OneBehind DEF StartWrite
  <2>2. /\ None(<<h>>, {"write"}) /\ None(<<h>>, Chain)
        /\ OneAtMost(<<h>>, {"written"}) /\ ~Popped(<<h>>)
    BY <1>1, KindOne DEF Chain
  <2>. QED
    BY <1>2, <2>1, <2>2 DEF TypeOK
<1>3. CASE socket # "closed"
  <2>1. ready' = rest \o <<>> /\ <<>> \in Seq(Handler)
    BY <1>3, ConcatEmptySeq, EmptySeq DEF StartWrite
  <2>2. writing' = Append(writing, l) /\ writing' \in Seq(Line)
    <3>1. writing \in Seq(Line) /\ writing' = Append(writing, l)
      BY <1>3 DEF StartWrite, TypeOK
    <3>2. Append(writing, l) \in Seq(Line)
      BY <3>1, AppendProperties
    <3>. QED
      BY <3>1, <3>2
  <2>. QED
    BY <1>3, <2>1, <2>2, KindNothing
<1>. QED
  BY <1>2, <1>3
(* What closing the socket aborts fits its place in the invariant. *)
LEMMA AbortedIs ==
  ASSUME TypeOK, OneWrite, OneChain
  PROVE  /\ Aborted \in Seq(Handler)
         /\ None(Aborted, {"write"}) /\ ~Popped(Aborted)
         /\ OneAtMost(Aborted, {"written"}) /\ OneAtMost(Aborted, Chain)
         /\ writing = <<>> => None(Aborted, {"written"})
         /\ reading = "none" /\ socket # "connecting" => None(Aborted, Chain)
<1>. DEFINE r == [do |-> "read", what |-> reading, ok |-> FALSE]
            c == [do |-> "connect", ok |-> FALSE]
            w == [do |-> "written", ok |-> FALSE]
            A == IF reading # "none" THEN <<r>> ELSE <<>>
            B == IF socket = "connecting" THEN <<c>> ELSE <<>>
            C == [i \in 1..Len(writing) |-> w]
<1>1. /\ A \in Seq(Handler) /\ None(A, {"write"}) /\ None(A, {"written"})
      /\ ~Popped(A) /\ OneAtMost(A, Chain) /\ (reading = "none" => None(A, Chain))
  <2>1. CASE reading # "none"
    <3>1. r \in Handler /\ r.do = "read"
      BY <2>1, Made DEF TypeOK
    <3>2. A = <<r>>
      BY <2>1
    <3>. HIDE DEF r, A
    <3>. QED
      BY <2>1, <3>1, <3>2, OneBehind, KindOne, EmptySeq, One
  <2>2. CASE reading = "none"
    <3>1. A = <<>>
      BY <2>2
    <3>. HIDE DEF A
    <3>. QED
      BY <3>1, KindNothing, EmptySeq
  <2>. QED
    BY <2>1, <2>2
<1>2. /\ B \in Seq(Handler) /\ None(B, {"write"}) /\ None(B, {"written"})
      /\ ~Popped(B) /\ OneAtMost(B, Chain)
      /\ (socket # "connecting" => None(B, Chain))
  <2>1. CASE socket = "connecting"
    <3>1. c \in Handler /\ c.do = "connect"
      BY Made
    <3>2. B = <<c>>
      BY <2>1
    <3>. HIDE DEF c, B
    <3>. QED
      BY <2>1, <3>1, <3>2, KindOne, One
  <2>2. CASE socket # "connecting"
    <3>1. B = <<>>
      BY <2>2
    <3>. HIDE DEF B
    <3>. QED
      BY <3>1, KindNothing, EmptySeq
  <2>. QED
    BY <2>1, <2>2
<1>3. reading # "none" => None(B, Chain)
  BY <1>2 DEF OneChain
<1>4. /\ C \in Seq(Handler) /\ None(C, {"write"}) /\ None(C, Chain)
      /\ ~Popped(C) /\ OneAtMost(C, {"written"})
      /\ (writing = <<>> => None(C, {"written"}))
  <2>1. w \in Handler /\ w.do = "written" /\ w.ok = FALSE
    BY Made
  <2>2. writing \in Seq(Line) /\ Len(writing) \in Nat
    BY LenProperties DEF TypeOK
  <2>3. C \in Seq(Handler) /\ Len(C) = Len(writing)
    BY <2>1, <2>2
  <2>4. \A i \in 1..Len(C) : C[i] = w
    BY <2>3
  <2>5. writing # <<>> => Len(writing) = 1
    BY DEF OneWrite
  <2>6. writing = <<>> => Len(writing) = 0
    BY <2>2, EmptySeq
  <2>. HIDE DEF C, w
  <2>7. \A i, j \in 1..Len(C) : i = j
    BY <2>2, <2>3, <2>5, <2>6
  <2>8. writing = <<>> => 1..Len(C) = {}
    BY <2>3, <2>6
  <2>. QED
    BY <2>1, <2>3, <2>4, <2>7, <2>8 DEF None, OneAtMost, Popped, Chain
<1>5. Aborted = (A \o B) \o C
  BY DEF Aborted
<1>. HIDE DEF A, B, C
<1>6. /\ A \o B \in Seq(Handler) /\ None(A \o B, {"write"})
      /\ None(A \o B, {"written"}) /\ ~Popped(A \o B) /\ OneAtMost(A \o B, Chain)
      /\ (reading = "none" /\ socket # "connecting" => None(A \o B, Chain))
  <2>1. A \o B \in Seq(Handler)
    BY <1>1, <1>2, Behind
  <2>2. OneAtMost(A \o B, Chain)
    BY <1>1, <1>2, <1>3, KindBehind
  <2>. QED
    BY <1>1, <1>2, <2>1, <2>2, KindBehind
<1>7. (A \o B) \o C \in Seq(Handler)
  BY <1>4, <1>6, Behind
<1>. QED
  BY <1>4, <1>5, <1>6, <1>7, KindBehind
-----------------------------------------------------------------------------
LEMMA InitIInv == Init => IInv
<1>. SUFFICES ASSUME Init PROVE IInv
  OBVIOUS
<1>1. TypeOK
  <2>1. \A S : <<>> \in Seq(S)
    BY EmptySeq
  <2>2. 1 \in 1..Endpoints
    BY EndpointsAssumption
  <2>. QED
    BY <2>1, <2>2 DEF Init, TypeOK, Socket
<1>2. OneWrite /\ OneChain
  BY KindNothing DEF Init, OneWrite, OneChain
<1>3. InPlace
  <2>1. <<>> \in Seq(Line) /\ <<>> \o <<>> = <<>> /\ Len(<<>>) = 0
    BY EmptySeq, ConcatEmptySeq
  <2>2. Carry(<<>>, <<>>)
    <3>1. Writes(<<>>) = {}
      BY <2>1 DEF Writes
    <3>2. [i \in {} |-> 1] \in [{} -> 1..Len(<<>>)] /\ 1..Len(<<>>) = {}
      BY <2>1
    <3>. QED
      BY <3>1, <3>2 DEF Carry
  <2>3. Unwritten = <<>>
    BY KindNothing DEF Init, Unwritten
  <2>. QED
    BY <2>1, <2>2, <2>3 DEF Init, InPlace
<1>. QED
  BY <1>1, <1>2, <1>3 DEF IInv

-----------------------------------------------------------------------------
(* The types. *)

LEMMA Next1 ==
  ASSUME TypeOK, NEW do, IsNext(do)
  PROVE  /\ ready \in Seq(Handler) /\ ready # <<>>
         /\ Head(ready) \in Handler /\ Head(ready).do = do
         /\ Tail(ready) \in Seq(Handler)
BY Rest DEF TypeOK, IsNext

LEMMA CloseTyped ==
  ASSUME TypeOK, OneWrite, OneChain, NEW rest \in Seq(Handler), Close(rest)
  PROVE  /\ ready' \in Seq(Handler) /\ socket' \in Socket
         /\ reading' = "none" /\ writing' \in Seq(Line)
<1>1. rest \o Aborted \in Seq(Handler)
  BY AbortedIs, Behind
<1>. QED
  BY <1>1, EmptySeq DEF Close, Socket

LEMMA PushedTyped ==
  ASSUME TypeOK, NEW l \in Line
  PROVE  /\ Pushed(l) \in Seq(Line) /\ Pushed(l) # <<>>
         /\ Head(Pushed(l)) \in Line
<1>1. write_msgs \in Seq(Line)
  BY DEF TypeOK
<1>2. Pushed(l) \in Seq(Line) /\ Pushed(l) # <<>>
  BY <1>1, AppendProperties DEF Pushed
<1>. QED
  BY <1>2, Rest

LEMMA TypeStep == IInv /\ [Next]_vars => TypeOK'
<1>. SUFFICES ASSUME IInv, [Next]_vars PROVE TypeOK'
  OBVIOUS
<1>. USE DEF IInv
<1>1. ASSUME NEW l \in Line, TypeLine(l) PROVE TypeOK'
  <2>1. /\ ready' \in Seq(Handler) /\ typed' \in Seq(Line)
    <3>1. [do |-> "write", line |-> l] \in Handler
      BY Made
    <3>. QED
      BY <1>1, <3>1, AppendProperties DEF TypeLine, TypeOK
  <2>. QED
    BY <1>1, <2>1 DEF TypeLine, TypeOK, user
<1>2. CASE EndInput
  <2>1. ready' \in Seq(Handler)
    BY <1>2, Made, AppendProperties DEF EndInput, TypeOK
  <2>. QED
    BY <1>2, <2>1 DEF EndInput, TypeOK
<1>3. CASE Join
  BY <1>3 DEF Join, TypeOK
<1>4. ASSUME NEW ok \in BOOLEAN, ConnectCompletes(ok) PROVE TypeOK'
  <2>. DEFINE done == Append(ready, [do |-> "connect", ok |-> ok])
  <2>1. done \in Seq(Handler)
    BY Made, AppendProperties DEF TypeOK
  <2>2. Append(done, [do |-> "written", ok |-> FALSE]) \in Seq(Handler)
    BY <2>1, Made, AppendProperties
  <2>3. ready' \in Seq(Handler) /\ writing' \in Seq(Line)
    BY <1>4, <2>1, <2>2, EmptySeq DEF ConnectCompletes, TypeOK
  <2>. QED
    BY <1>4, <2>3 DEF ConnectCompletes, TypeOK, user, Socket
<1>5. ASSUME NEW ok \in BOOLEAN, ReadCompletes(ok) PROVE TypeOK'
  <2>1. [do |-> "read", what |-> reading, ok |-> ok] \in Handler
    BY <1>5, Made DEF ReadCompletes, TypeOK
  <2>2. ready' \in Seq(Handler)
    BY <1>5, <2>1, AppendProperties DEF ReadCompletes, TypeOK
  <2>. QED
    BY <1>5, <2>2 DEF ReadCompletes, TypeOK, user
<1>6. ASSUME NEW ok \in BOOLEAN, WriteCompletes(ok) PROVE TypeOK'
  <2>1. ready' \in Seq(Handler)
    BY <1>6, Made, AppendProperties DEF WriteCompletes, TypeOK
  <2>2. Head(writing) \in Line /\ Tail(writing) \in Seq(Line)
    BY <1>6, Rest DEF WriteCompletes, TypeOK
  <2>3. wire' \in Seq(Line)
    BY <1>6, <2>2, AppendProperties DEF WriteCompletes, TypeOK
  <2>. QED
    BY <1>6, <2>1, <2>2, <2>3 DEF WriteCompletes, TypeOK, user
<1>7. CASE HandleWrite
  <2>. DEFINE l == Head(ready).line
  <2>1. Tail(ready) \in Seq(Handler) /\ l \in Line
    BY <1>7, Next1, Handled DEF HandleWrite
  <2>2. write_msgs' \in Seq(Line)
    BY <1>7, <2>1, PushedTyped DEF HandleWrite
  <2>3. CASE Busy
    <3>1. ready' = Tail(ready) /\ writing' = writing
      BY <1>7, <2>3 DEF HandleWrite
    <3>. QED
      BY <1>7, <2>1, <2>2, <3>1 DEF HandleWrite, TypeOK, user
  <2>4. CASE ~Busy
    <3>1. StartWrite(Head(Pushed(l)), Tail(ready)) /\ Head(Pushed(l)) \in Line
      BY <1>7, <2>1, <2>4, PushedTyped DEF HandleWrite
    <3>2. ready' \in Seq(Handler) /\ writing' \in Seq(Line)
      <4>. HIDE DEF l
      <4>. QED
        BY <2>1, <3>1, WriteStarted, Behind
    <3>. QED
      BY <1>7, <2>2, <3>2 DEF HandleWrite, TypeOK, user
  <2>. QED
    BY <2>3, <2>4
<1>8. CASE HandleClose
  <2>1. Tail(ready) \in Seq(Handler)
    BY <1>8, Next1 DEF HandleClose
  <2>2. /\ ready' \in Seq(Handler) /\ socket' \in Socket
        /\ reading' = "none" /\ writing' \in Seq(Line)
    BY <1>8, <2>1, CloseTyped DEF HandleClose
  <2>. QED
    BY <1>8, <2>2 DEF HandleClose, TypeOK, user
<1>9. CASE HandleConnect
  <2>1. Tail(ready) \in Seq(Handler)
    BY <1>9, Next1 DEF HandleConnect
  <2>2. Tail(ready) \o Aborted \in Seq(Handler)
    BY <2>1, AbortedIs, Behind
  <2>3. /\ ready' \in Seq(Handler) /\ reading' \in {"none", "header", "body"}
        /\ writing' \in Seq(Line) /\ socket' \in Socket /\ endpoint' \in 1..Endpoints
    <3>1. CASE StartRead("header", Tail(ready)) /\ UNCHANGED <<socket, endpoint, writing>>
      <4>1. ready' \in Seq(Handler) /\ reading' \in {"none", "header", "body"}
        BY <2>1, <3>1, ReadStarted, Behind
      <4>. QED
        BY <3>1, <4>1 DEF TypeOK
    <3>2. CASE /\ Another
               /\ endpoint' = endpoint + 1 /\ socket' = "connecting"
               /\ ready' = Tail(ready) \o Aborted /\ writing' = <<>>
               /\ UNCHANGED reading
      BY <2>2, <3>2, EndpointsAssumption, EmptySeq DEF TypeOK, Another, Socket
    <3>3. CASE ready' = Tail(ready) /\ UNCHANGED <<socket, endpoint, reading, writing>>
      BY <2>1, <3>3 DEF TypeOK
    <3>. QED
      BY <1>9, <3>1, <3>2, <3>3 DEF HandleConnect
  <2>. QED
    BY <1>9, <2>3 DEF HandleConnect, TypeOK, user
<1>10. CASE HandleRead
  <2>1. Tail(ready) \in Seq(Handler)
    BY <1>10, Next1 DEF HandleRead
  <2>2. /\ ready' \in Seq(Handler) /\ reading' \in {"none", "header", "body"}
        /\ writing' \in Seq(Line) /\ socket' \in Socket /\ printed' \in Nat
    <3>1. ASSUME NEW what \in {"header", "body"}, StartRead(what, Tail(ready)),
                 UNCHANGED <<socket, writing>>
          PROVE  /\ ready' \in Seq(Handler) /\ reading' \in {"none", "header", "body"}
                 /\ writing' \in Seq(Line) /\ socket' \in Socket
      <4>1. ready' \in Seq(Handler) /\ reading' \in {"none", "header", "body"}
        <5>1. /\ reading' \in {"none", "header", "body"}
              /\ \E new \in Seq(Handler) : ready' = Tail(ready) \o new
          BY <2>1, <3>1, ReadStarted
        <5>. QED
          BY <2>1, <5>1, Behind
      <4>. QED
        BY <3>1, <4>1 DEF TypeOK
    <3>2. printed' \in Nat
      BY <1>10 DEF HandleRead, TypeOK
    <3>3. ASSUME Close(Tail(ready))
          PROVE  /\ ready' \in Seq(Handler) /\ reading' \in {"none", "header", "body"}
                 /\ writing' \in Seq(Line) /\ socket' \in Socket
      BY <2>1, <3>3, CloseTyped
    <3>. QED
      BY <1>10, <3>1, <3>2, <3>3 DEF HandleRead
  <2>. QED
    BY <1>10, <2>2 DEF HandleRead, TypeOK, user
<1>11. CASE HandleWritten
  <2>1. Tail(ready) \in Seq(Handler) /\ ready # <<>>
    BY <1>11, Next1 DEF HandleWritten
  <2>2. write_msgs \in Seq(Line)
    BY DEF TypeOK
  <2>3. CASE /\ write_msgs' = Tail(write_msgs)
             /\ IF SomeLeft THEN StartWrite(write_msgs[2], Tail(ready))
                ELSE ready' = Tail(ready) /\ UNCHANGED writing
             /\ UNCHANGED <<socket, reading>>
             /\ Head(ready).ok
    <3>1. write_msgs # <<>>
      BY <1>11, <2>1, KindRest, Next1 DEF HandleWritten, OneWrite, TypeOK
    <3>2. write_msgs' \in Seq(Line)
      BY <2>2, <2>3, <3>1, Rest
    <3>3. CASE SomeLeft
      <4>1. write_msgs[2] \in Line
        BY <2>2, <3>3 DEF SomeLeft
      <4>2. StartWrite(write_msgs[2], Tail(ready))
        BY <2>3, <3>3
      <4>3. /\ writing' \in Seq(Line)
            /\ \E new \in Seq(Handler) : ready' = Tail(ready) \o new
        BY <2>1, <4>1, <4>2, WriteStarted
      <4>4. ready' \in Seq(Handler)
        BY <2>1, <4>3, Behind
      <4>. QED
        BY <1>11, <2>3, <3>2, <4>3, <4>4 DEF HandleWritten, TypeOK, user
    <3>4. CASE ~SomeLeft
      <4>1. ready' \in Seq(Handler) /\ writing' \in Seq(Line)
        BY <2>1, <2>3, <3>4 DEF TypeOK
      <4>. QED
        BY <1>11, <2>3, <3>2, <4>1 DEF HandleWritten, TypeOK, user
    <3>. QED
      BY <3>3, <3>4
  <2>4. CASE Close(Tail(ready)) /\ UNCHANGED write_msgs
    <3>1. /\ ready' \in Seq(Handler) /\ socket' \in Socket
          /\ reading' = "none" /\ writing' \in Seq(Line)
      BY <2>1, <2>4, CloseTyped
    <3>. QED
      BY <1>11, <2>4, <3>1 DEF HandleWritten, TypeOK, user
  <2>. QED
    BY <1>11, <2>3, <2>4 DEF HandleWritten, GiveUp
<1>12. CASE Return
  BY <1>12 DEF Return, TypeOK, user
<1>13. CASE UNCHANGED vars
  BY <1>13 DEF vars, user, TypeOK
<1>. QED
  BY <1>1, <1>2, <1>3, <1>4, <1>5, <1>6, <1>7, <1>8, <1>9, <1>10, <1>11,
     <1>12, <1>13 DEF Next, RunOne
-----------------------------------------------------------------------------
(* Writes, one at a time. *)

(* What is left of ready: all, or all but the first. *)
IsLeft(q) == q = ready \/ (ready # <<>> /\ q = Tail(ready))

LEMMA LeftIs ==
  ASSUME TypeOK, NEW q, IsLeft(q), NEW D
  PROVE  /\ q \in Seq(Handler)
         /\ None(ready, D) => None(q, D)
         /\ OneAtMost(ready, D) => OneAtMost(q, D)
<1>1. ready \in Seq(Handler)
  BY DEF TypeOK
<1>2. CASE q = ready
  BY <1>1, <1>2
<1>3. CASE ready # <<>> /\ q = Tail(ready)
  BY <1>1, <1>3, KindRest, Rest
<1>. QED
  BY <1>2, <1>3 DEF IsLeft

LEMMA WriteKept ==
  ASSUME IInv, NEW q, IsLeft(q), NEW new \in Seq(Handler), ready' = q \o new,
         None(new, {"written"}), writing' = writing, write_msgs' = write_msgs
  PROVE  OneWrite'
<1>1. /\ q \in Seq(Handler) /\ OneAtMost(q, {"written"})
      /\ None(ready, {"written"}) => None(q, {"written"})
  BY LeftIs DEF IInv, OneWrite
<1>2. /\ OneAtMost(ready', {"written"})
      /\ None(ready, {"written"}) => None(ready', {"written"})
  BY <1>1, KindBehind
<1>. QED
  BY <1>2 DEF OneWrite, IInv

LEMMA WriteAborted ==
  ASSUME IInv, NEW q, IsLeft(q), ready' = q \o Aborted,
         writing' = <<>>, write_msgs' = write_msgs
  PROVE  OneWrite'
<1>1. /\ q \in Seq(Handler) /\ OneAtMost(q, {"written"})
      /\ None(ready, {"written"}) => None(q, {"written"})
  BY LeftIs DEF IInv, OneWrite
<1>2. /\ Aborted \in Seq(Handler) /\ OneAtMost(Aborted, {"written"})
      /\ writing = <<>> => None(Aborted, {"written"})
  BY AbortedIs DEF IInv
<1>3. writing = <<>> \/ None(ready, {"written"})
  BY DEF IInv, OneWrite
<1>4. OneAtMost(ready', {"written"})
  BY <1>1, <1>2, <1>3, KindBehind
<1>5. None(ready', {"written"}) <=> None(q, {"written"}) /\ None(Aborted, {"written"})
  BY <1>1, <1>2, KindBehind
<1>6. ~None(ready', {"written"}) => write_msgs # <<>>
  BY <1>1, <1>2, <1>5 DEF IInv, OneWrite
<1>. QED
  BY <1>4, <1>6 DEF OneWrite

(* A write that was outstanding is one whose handler is to run. *)
LEMMA WriteEnds ==
  ASSUME IInv, NEW q \in Seq(Handler), NEW h \in Handler, h.do = "written",
         None(q, {"written"}), ready' = q \o <<h>>,
         writing # <<>>, writing' = <<>>, write_msgs' = write_msgs
  PROVE  OneWrite'
<1>1. OneAtMost(ready', {"written"})
  BY One, KindOne, KindBehind
<1>. QED
  BY <1>1 DEF OneWrite, IInv

(* The first of a queue that nothing is written of is written. *)
LEMMA WriteBegins ==
  ASSUME IInv, NEW q \in Seq(Handler), None(q, {"written"}),
         writing = <<>>, NEW w \in Seq(Line), w # <<>>, write_msgs' = w,
         StartWrite(Head(w), q)
  PROVE  OneWrite'
<1>1. Head(w) \in Line
  BY Rest
<1>2. PICK new \in Seq(Handler) :
        /\ ready' = q \o new
        /\ OneAtMost(new, {"written"})
        /\ IF socket = "closed" THEN writing' = writing
           ELSE None(new, {"written"}) /\ writing' = Append(writing, Head(w))
  BY <1>1, WriteStarted DEF IInv
<1>3. OneAtMost(ready', {"written"})
  BY <1>2, KindBehind
<1>4. CASE socket = "closed"
  BY <1>2, <1>3, <1>4 DEF OneWrite
<1>5. CASE socket # "closed"
  <2>1. None(ready', {"written"})
    BY <1>2, <1>5, KindBehind
  <2>2. Append(<<>>, Head(w)) = <<Head(w)>>
    <3>1. Append(<<>>, Head(w)) = <<>> \o <<Head(w)>>
      BY <1>1, AppendIsConcat, EmptySeq
    <3>. QED
      BY <3>1, <1>1, One, ConcatEmptySeq
  <2>. QED
    BY <1>2, <1>3, <1>5, <2>1, <2>2 DEF OneWrite
<1>. QED
  BY <1>4, <1>5

LEMMA WriteStep == IInv /\ [Next]_vars => OneWrite'
<1>. SUFFICES ASSUME IInv, [Next]_vars PROVE OneWrite'
  OBVIOUS
<1>0. TypeOK /\ OneWrite /\ ready \in Seq(Handler) /\ IsLeft(ready)
  BY DEF IInv, TypeOK, IsLeft
<1>1. ASSUME NEW l \in Line, TypeLine(l) PROVE OneWrite'
  <2>. DEFINE h == [do |-> "write", line |-> l]
  <2>1. h \in Handler /\ h.do = "write"
    BY Made
  <2>2. ready' = Append(ready, h) /\ writing' = writing /\ write_msgs' = write_msgs
    BY <1>1 DEF TypeLine
  <2>. HIDE DEF h
  <2>. QED
    BY <1>0, <2>1, <2>2, OneBehind, KindOne, WriteKept
<1>2. CASE EndInput
  <2>. DEFINE h == [do |-> "close"]
  <2>1. h \in Handler /\ h.do = "close"
    BY Made
  <2>2. ready' = Append(ready, h) /\ writing' = writing /\ write_msgs' = write_msgs
    BY <1>2 DEF EndInput
  <2>. HIDE DEF h
  <2>. QED
    BY <1>0, <2>1, <2>2, OneBehind, KindOne, WriteKept
<1>3. CASE Join \/ Return \/ UNCHANGED vars
  BY <1>0, <1>3 DEF Join, Return, vars, user, OneWrite
<1>4. ASSUME NEW ok \in BOOLEAN, ConnectCompletes(ok) PROVE OneWrite'
  <2>. DEFINE h == [do |-> "connect", ok |-> ok]
              w == [do |-> "written", ok |-> FALSE]
  <2>1. /\ h \in Handler /\ h.do = "connect"
        /\ w \in Handler /\ w.do = "written"
    BY Made
  <2>2. /\ write_msgs' = write_msgs
        /\ \/ ready' = Append(ready, h) /\ writing' = writing
           \/ /\ writing # <<>> /\ writing' = <<>>
              /\ ready' = Append(Append(ready, h), w)
    BY <1>4 DEF ConnectCompletes
  <2>. HIDE DEF h, w
  <2>3. CASE ready' = Append(ready, h) /\ writing' = writing
    BY <1>0, <2>1, <2>2, <2>3, OneBehind, KindOne, WriteKept
  <2>4. CASE /\ writing # <<>> /\ writing' = <<>>
             /\ ready' = Append(Append(ready, h), w)
    <3>1. Append(ready, h) \in Seq(Handler)
      BY <1>0, <2>1, AppendProperties
    <3>2. None(Append(ready, h), {"written"})
      <4>1. Append(ready, h) = ready \o <<h>> /\ <<h>> \in Seq(Handler)
        BY <1>0, <2>1, OneBehind
      <4>2. None(<<h>>, {"written"}) /\ None(ready, {"written"})
        BY <1>0, <2>1, <2>4, KindOne DEF OneWrite
      <4>3. None(ready \o <<h>>, {"written"})
        BY <1>0, <4>1, <4>2, KindBehind
      <4>. QED
        BY <4>1, <4>3
    <3>. QED
      BY <2>1, <2>2, <2>4, <3>1, <3>2, OneBehind, WriteEnds
  <2>. QED
    BY <2>2, <2>3, <2>4
<1>5. ASSUME NEW ok \in BOOLEAN, ReadCompletes(ok) PROVE OneWrite'
  <2>. DEFINE h == [do |-> "read", what |-> reading, ok |-> ok]
  <2>1. h \in Handler /\ h.do = "read"
    BY <1>0, <1>5, Made DEF ReadCompletes, TypeOK
  <2>2. ready' = Append(ready, h) /\ writing' = writing /\ write_msgs' = write_msgs
    BY <1>5 DEF ReadCompletes
  <2>. HIDE DEF h
  <2>. QED
    BY <1>0, <2>1, <2>2, OneBehind, KindOne, WriteKept
<1>6. ASSUME NEW ok \in BOOLEAN, WriteCompletes(ok) PROVE OneWrite'
  <2>. DEFINE h == [do |-> "written", ok |-> ok]
  <2>1. h \in Handler /\ h.do = "written"
    BY Made
  <2>2. /\ ready' = Append(ready, h) /\ write_msgs' = write_msgs
        /\ writing # <<>> /\ writing' = Tail(writing)
    BY <1>6 DEF WriteCompletes
  <2>. HIDE DEF h
  <2>3. None(ready, {"written"}) /\ writing' = <<>>
    <3>1. None(ready, {"written"}) /\ writing = <<Head(write_msgs)>>
      BY <1>0, <2>2 DEF OneWrite
    <3>2. write_msgs # <<>> /\ write_msgs \in Seq(Line)
      BY <1>0, <2>2 DEF OneWrite, TypeOK
    <3>3. writing \in Seq(Line) /\ Len(writing) = 1
      BY <3>1, <3>2, Rest, One
    <3>4. Len(Tail(writing)) = 0 /\ Tail(writing) \in Seq(Line)
      BY <2>2, <3>3, Rest
    <3>. QED
      BY <2>2, <3>1, <3>4, EmptySeq
  <2>. QED
    BY <1>0, <2>1, <2>2, <2>3, OneBehind, WriteEnds
<1>7. CASE HandleWrite
  <2>. DEFINE l == Head(ready).line
              q == Tail(ready)
  <2>1. /\ ready # <<>> /\ Head(ready).do = "write" /\ q \in Seq(Handler)
        /\ l \in Line /\ IsLeft(q)
    BY <1>0, <1>7, Next1, Handled DEF HandleWrite, IsLeft
  <2>2. /\ Pushed(l) \in Seq(Line) /\ Pushed(l) # <<>>
        /\ write_msgs' = Pushed(l)
    BY <1>0, <1>7, <2>1, PushedTyped DEF HandleWrite
  <2>3. CASE Busy
    <3>1. ready' = q /\ writing' = writing
      BY <1>7, <2>3 DEF HandleWrite
    <3>2. Head(write_msgs') = Head(write_msgs)
      BY <1>0, <2>1, <2>2, <2>3, HeadTailAppend DEF Busy, Pushed, TypeOK
    <3>3. /\ OneAtMost(q, {"written"})
          /\ None(ready, {"written"}) => None(q, {"written"})
      BY <1>0, <2>1, LeftIs DEF OneWrite
    <3>. HIDE DEF q, l
    <3>. QED
      BY <1>0, <2>2, <3>1, <3>2, <3>3 DEF OneWrite
  <2>4. CASE ~Busy
    <3>1. StartWrite(Head(Pushed(l)), q)
      BY <1>7, <2>4 DEF HandleWrite
    <3>2. writing = <<>> /\ None(ready, {"written"})
      BY <1>0, <2>4 DEF OneWrite, Busy
    <3>3. None(q, {"written"})
      BY <1>0, <2>1, <3>2, LeftIs
    <3>. HIDE DEF q, l
    <3>. QED
      BY <2>1, <2>2, <3>1, <3>2, <3>3, WriteBegins
  <2>. QED
    BY <2>3, <2>4
<1>8. ASSUME NEW do, IsNext(do), Close(Tail(ready)), write_msgs' = write_msgs
      PROVE  OneWrite'
  <2>1. IsLeft(Tail(ready))
    BY <1>0, <1>8, Next1 DEF IsLeft
  <2>. QED
    BY <1>8, <2>1, WriteAborted DEF Close
<1>9. ASSUME NEW do, IsNext(do), NEW what \in {"header", "body"},
             StartRead(what, Tail(ready)), UNCHANGED <<writing, write_msgs>>
      PROVE  OneWrite'
  <2>1. IsLeft(Tail(ready)) /\ Tail(ready) \in Seq(Handler)
    BY <1>0, <1>9, Next1 DEF IsLeft
  <2>2. PICK new \in Seq(Handler) : /\ ready' = Tail(ready) \o new
                                    /\ None(new, {"written"})
    BY <1>0, <1>9, <2>1, ReadStarted
  <2>. QED
    BY <1>9, <2>1, <2>2, WriteKept
<1>10. CASE HandleConnect
  <2>1. IsLeft(Tail(ready)) /\ Tail(ready) \in Seq(Handler)
    BY <1>0, <1>10, Next1 DEF IsLeft, HandleConnect
  <2>2. write_msgs' = write_msgs /\ IsNext("connect")
    BY <1>10 DEF HandleConnect
  <2>3. CASE StartRead("header", Tail(ready)) /\ UNCHANGED <<socket, endpoint, writing>>
    BY <1>9, <2>2, <2>3
  <2>4. CASE ready' = Tail(ready) \o Aborted /\ writing' = <<>>
    BY <2>1, <2>2, <2>4, WriteAborted
  <2>5. CASE ready' = Tail(ready) /\ UNCHANGED <<socket, endpoint, reading, writing>>
    <3>1. ready' = Tail(ready) \o <<>> /\ <<>> \in Seq(Handler)
      BY <2>1, <2>5, ConcatEmptySeq, EmptySeq
    <3>. QED
      BY <2>1, <2>2, <2>5, <3>1, KindNothing, WriteKept
  <2>. QED
    BY <1>10, <2>3, <2>4, <2>5 DEF HandleConnect
<1>11. CASE HandleRead
  BY <1>8, <1>9, <1>11 DEF HandleRead
<1>12. CASE HandleWritten
  <2>1. /\ ready # <<>> /\ Head(ready).do = "written"
        /\ Tail(ready) \in Seq(Handler)
    BY <1>0, <1>12, Next1 DEF HandleWritten
  <2>2. /\ ~None(ready, {"written"}) /\ None(Tail(ready), {"written"})
    BY <1>0, <2>1, KindRest DEF OneWrite
  <2>3. /\ writing = <<>> /\ write_msgs # <<>> /\ write_msgs \in Seq(Line)
    BY <1>0, <2>2 DEF OneWrite, TypeOK
  <2>4. CASE /\ write_msgs' = Tail(write_msgs) /\ SomeLeft
             /\ StartWrite(write_msgs[2], Tail(ready))
    <3>1. /\ Tail(write_msgs) \in Seq(Line) /\ Len(Tail(write_msgs)) \in Nat \ {0}
          /\ Tail(write_msgs)[1] = write_msgs[2]
      BY <2>3, <2>4, Rest DEF SomeLeft
    <3>2. Tail(write_msgs) # <<>> /\ Head(Tail(write_msgs)) = write_msgs[2]
      BY <3>1, EmptySeq, Rest
    <3>. QED
      BY <2>1, <2>2, <2>3, <2>4, <3>1, <3>2, WriteBegins
  <2>5. CASE /\ ready' = Tail(ready) /\ writing' = writing
    BY <2>2, <2>3, <2>5, <1>0, <2>1, KindRest DEF OneWrite
  <2>6. CASE Close(Tail(ready)) /\ UNCHANGED write_msgs
    BY <1>8, <1>12, <2>6 DEF HandleWritten
  <2>. QED
    BY <1>12, <2>4, <2>5, <2>6 DEF HandleWritten, GiveUp
<1>13. CASE HandleClose
  BY <1>8, <1>13 DEF HandleClose
<1>. QED
  BY <1>1, <1>2, <1>3, <1>4, <1>5, <1>6, <1>7, <1>10, <1>11, <1>12, <1>13
     DEF Next, RunOne
-----------------------------------------------------------------------------
(* One chain of connect and read. *)

LEMMA ChainKept ==
  ASSUME IInv, NEW q, IsLeft(q), NEW new \in Seq(Handler), ready' = q \o new,
         None(new, Chain), reading' = reading, socket' = socket
  PROVE  OneChain'
<1>1. /\ q \in Seq(Handler) /\ OneAtMost(q, Chain)
      /\ None(ready, Chain) => None(q, Chain)
  BY LeftIs DEF IInv, OneChain
<1>2. /\ OneAtMost(ready', Chain)
      /\ None(ready, Chain) => None(ready', Chain)
  BY <1>1, KindBehind
<1>. QED
  BY <1>2 DEF OneChain, IInv

LEMMA ChainAborted ==
  ASSUME IInv, NEW q, IsLeft(q), Close(q)
  PROVE  OneChain'
<1>1. /\ q \in Seq(Handler) /\ OneAtMost(q, Chain)
      /\ None(ready, Chain) => None(q, Chain)
  BY LeftIs DEF IInv, OneChain
<1>2. /\ Aborted \in Seq(Handler) /\ OneAtMost(Aborted, Chain)
      /\ None(ready, Chain) \/ None(Aborted, Chain)
  BY AbortedIs DEF IInv, OneChain
<1>3. OneAtMost(q \o Aborted, Chain)
  BY <1>1, <1>2, KindBehind
<1>. QED
  BY <1>3 DEF OneChain, Close

(* An operation of the chain ends, and its handler is to run. *)
LEMMA ChainEnds ==
  ASSUME IInv, NEW h \in Handler, h.do \in Chain, None(ready, Chain),
         ready' = Append(ready, h), reading' = "none", socket' # "connecting"
  PROVE  OneChain'
<1>1. ready \in Seq(Handler) /\ OneAtMost(<<h>>, Chain) /\ <<h>> \in Seq(Handler)
  BY KindOne, One DEF IInv, TypeOK
<1>2. OneAtMost(ready', Chain)
  BY <1>1, OneBehind, KindBehind
<1>. QED
  BY <1>2 DEF OneChain

(* The handler of the chain that ran starts to read. *)
LEMMA ChainReads ==
  ASSUME IInv, NEW do \in Chain, IsNext(do), NEW what \in {"header", "body"},
         StartRead(what, Tail(ready)), socket' = socket
  PROVE  OneChain'
<1>1. /\ ready \in Seq(Handler) /\ ready # <<>> /\ Head(ready).do \in Chain
      /\ Tail(ready) \in Seq(Handler)
  BY Next1 DEF IInv
<1>2. None(Tail(ready), Chain) /\ ~None(ready, Chain)
  BY <1>1, KindRest DEF IInv, OneChain
<1>3. reading = "none" /\ socket # "connecting"
  BY <1>2 DEF IInv, OneChain
<1>4. PICK new \in Seq(Handler) :
        /\ ready' = Tail(ready) \o new
        /\ OneAtMost(new, Chain)
        /\ IF socket = "closed" THEN reading' = reading
           ELSE None(new, Chain) /\ reading' = what
  BY <1>1, ReadStarted DEF IInv
<1>5. OneAtMost(ready', Chain) /\ (socket # "closed" => None(ready', Chain))
  BY <1>1, <1>2, <1>4, KindBehind
<1>. QED
  BY <1>3, <1>4, <1>5 DEF OneChain

LEMMA ChainStep == IInv /\ [Next]_vars => OneChain'
<1>. SUFFICES ASSUME IInv, [Next]_vars PROVE OneChain'
  OBVIOUS
<1>0. TypeOK /\ OneChain /\ ready \in Seq(Handler) /\ IsLeft(ready)
  BY DEF IInv, TypeOK, IsLeft
<1>1. ASSUME NEW h \in Handler, h.do \notin Chain, ready' = Append(ready, h),
             reading' = reading, socket' = socket
      PROVE  OneChain'
  BY <1>0, <1>1, OneBehind, KindOne, ChainKept
<1>2. ASSUME NEW l \in Line, TypeLine(l) PROVE OneChain'
  <2>. DEFINE h == [do |-> "write", line |-> l]
  <2>1. h \in Handler /\ h.do \notin Chain
    BY Made DEF Chain
  <2>2. ready' = Append(ready, h) /\ reading' = reading /\ socket' = socket
    BY <1>2 DEF TypeLine
  <2>. HIDE DEF h
  <2>. QED
    BY <1>1, <2>1, <2>2
<1>3. CASE EndInput
  <2>. DEFINE h == [do |-> "close"]
  <2>1. h \in Handler /\ h.do \notin Chain
    BY Made DEF Chain
  <2>2. ready' = Append(ready, h) /\ reading' = reading /\ socket' = socket
    BY <1>3 DEF EndInput
  <2>. HIDE DEF h
  <2>. QED
    BY <1>1, <2>1, <2>2
<1>4. CASE Join \/ Return \/ UNCHANGED vars
  BY <1>0, <1>4 DEF Join, Return, vars, user, OneChain
<1>5. ASSUME NEW ok \in BOOLEAN, ConnectCompletes(ok) PROVE OneChain'
  <2>. DEFINE h == [do |-> "connect", ok |-> ok]
              w == [do |-> "written", ok |-> FALSE]
  <2>1. /\ h \in Handler /\ h.do \in Chain
        /\ w \in Handler /\ w.do \notin Chain
    BY Made DEF Chain
  <2>2. /\ None(ready, Chain) /\ reading' = "none" /\ socket' # "connecting"
        /\ ready' = Append(ready, h) \/ ready' = Append(Append(ready, h), w)
    BY <1>0, <1>5 DEF ConnectCompletes, OneChain
  <2>. HIDE DEF h, w
  <2>3. CASE ready' = Append(ready, h)
    BY <2>1, <2>2, <2>3, ChainEnds
  <2>4. CASE ready' = Append(Append(ready, h), w)
    <3>1. Append(ready, h) \in Seq(Handler)
      BY <1>0, <2>1, AppendProperties
    <3>2. OneAtMost(Append(ready, h), Chain)
      <4>1. Append(ready, h) = ready \o <<h>> /\ <<h>> \in Seq(Handler)
        BY <1>0, <2>1, OneBehind
      <4>2. OneAtMost(<<h>>, Chain)
        BY <2>1, KindOne
      <4>. QED
        BY <1>0, <2>2, <4>1, <4>2, KindBehind
    <3>3. ready' = Append(ready, h) \o <<w>> /\ <<w>> \in Seq(Handler)
      BY <2>1, <2>4, <3>1, OneBehind
    <3>4. None(<<w>>, Chain)
      BY <2>1, KindOne
    <3>5. OneAtMost(ready', Chain)
      BY <3>1, <3>2, <3>3, <3>4, KindBehind
    <3>. QED
      BY <2>2, <3>5 DEF OneChain
  <2>. QED
    BY <2>2, <2>3, <2>4
<1>6. ASSUME NEW ok \in BOOLEAN, ReadCompletes(ok) PROVE OneChain'
  <2>. DEFINE h == [do |-> "read", what |-> reading, ok |-> ok]
  <2>1. h \in Handler /\ h.do \in Chain
    BY <1>0, <1>6, Made DEF ReadCompletes, TypeOK, Chain
  <2>2. /\ ready' = Append(ready, h) /\ reading' = "none"
        /\ None(ready, Chain) /\ socket' # "connecting"
    BY <1>0, <1>6 DEF ReadCompletes, OneChain
  <2>. HIDE DEF h
  <2>. QED
    BY <2>1, <2>2, ChainEnds
<1>7. ASSUME NEW ok \in BOOLEAN, WriteCompletes(ok) PROVE OneChain'
  <2>. DEFINE h == [do |-> "written", ok |-> ok]
  <2>1. h \in Handler /\ h.do \notin Chain
    BY Made DEF Chain
  <2>2. ready' = Append(ready, h) /\ reading' = reading /\ socket' = socket
    BY <1>7 DEF WriteCompletes
  <2>. HIDE DEF h
  <2>. QED
    BY <1>1, <2>1, <2>2
<1>8. ASSUME NEW do, IsNext(do), ready' = Tail(ready),
             reading' = reading, socket' = socket
      PROVE  OneChain'
  <2>1. Tail(ready) \in Seq(Handler) /\ IsLeft(Tail(ready))
    BY <1>0, <1>8, Next1 DEF IsLeft
  <2>2. ready' = Tail(ready) \o <<>> /\ <<>> \in Seq(Handler)
    BY <1>8, <2>1, ConcatEmptySeq, EmptySeq
  <2>. QED
    BY <1>8, <2>1, <2>2, KindNothing, ChainKept
<1>9. ASSUME NEW do, IsNext(do), NEW l \in Line, StartWrite(l, Tail(ready)),
             reading' = reading, socket' = socket
      PROVE  OneChain'
  <2>1. Tail(ready) \in Seq(Handler) /\ IsLeft(Tail(ready))
    BY <1>0, <1>9, Next1 DEF IsLeft
  <2>2. PICK new \in Seq(Handler) : ready' = Tail(ready) \o new /\ None(new, Chain)
    BY <1>0, <1>9, <2>1, WriteStarted
  <2>. QED
    BY <1>9, <2>1, <2>2, ChainKept
<1>10. ASSUME NEW do, IsNext(do), Close(Tail(ready)) PROVE OneChain'
  <2>1. IsLeft(Tail(ready))
    BY <1>0, <1>10, Next1 DEF IsLeft
  <2>. QED
    BY <1>10, <2>1, ChainAborted
<1>11. CASE HandleWrite
  <2>. DEFINE l == Head(ready).line
  <2>1. l \in Line
    BY <1>0, <1>11, Next1, Handled DEF HandleWrite
  <2>2. Head(Pushed(l)) \in Line
    BY <1>0, <2>1, PushedTyped
  <2>3. \/ ready' = Tail(ready)
        \/ StartWrite(Head(Pushed(l)), Tail(ready))
    BY <1>11 DEF HandleWrite
  <2>4. IsNext("write") /\ reading' = reading /\ socket' = socket
    BY <1>11 DEF HandleWrite
  <2>. QED
    BY <1>8, <1>9, <2>2, <2>3, <2>4
<1>12. CASE HandleConnect
  <2>1. IsNext("connect") /\ "connect" \in Chain
    BY <1>12 DEF HandleConnect, Chain
  <2>2. CASE StartRead("header", Tail(ready)) /\ UNCHANGED <<socket, endpoint, writing>>
    BY <2>1, <2>2, ChainReads
  <2>3. CASE /\ socket' = "connecting" /\ UNCHANGED reading
             /\ ready' = Tail(ready) \o Aborted
    <3>1. /\ ready # <<>> /\ Head(ready).do \in Chain
          /\ Tail(ready) \in Seq(Handler)
      BY <1>0, <2>1, Next1
    <3>2. None(Tail(ready), Chain) /\ ~None(ready, Chain)
      BY <1>0, <3>1, KindRest DEF OneChain
    <3>3. reading = "none" /\ socket # "connecting"
      BY <1>0, <3>2 DEF OneChain
    <3>4. Aborted \in Seq(Handler) /\ None(Aborted, Chain) /\ OneAtMost(Aborted, Chain)
      BY <3>3, AbortedIs DEF IInv
    <3>5. None(ready', Chain) /\ OneAtMost(ready', Chain)
      BY <2>3, <3>1, <3>2, <3>4, KindBehind
    <3>. QED
      BY <2>3, <3>3, <3>5 DEF OneChain
  <2>4. CASE ready' = Tail(ready) /\ UNCHANGED <<socket, endpoint, reading, writing>>
    BY <1>8, <2>1, <2>4
  <2>. QED
    BY <1>12, <2>2, <2>3, <2>4 DEF HandleConnect
<1>13. CASE HandleRead
  <2>1. IsNext("read") /\ "read" \in Chain
    BY <1>13 DEF HandleRead, Chain
  <2>2. ASSUME NEW what \in {"header", "body"}, StartRead(what, Tail(ready)),
               UNCHANGED <<socket, writing>>
        PROVE  OneChain'
    BY <2>1, <2>2, ChainReads
  <2>. QED
    BY <1>10, <1>13, <2>1, <2>2 DEF HandleRead
<1>14. CASE HandleWritten
  <2>1. IsNext("written")
    BY <1>14 DEF HandleWritten
  <2>2. CASE /\ SomeLeft /\ StartWrite(write_msgs[2], Tail(ready))
             /\ UNCHANGED <<socket, reading>>
    <3>1. write_msgs[2] \in Line
      BY <1>0, <2>2 DEF SomeLeft, TypeOK
    <3>. QED
      BY <1>9, <2>1, <2>2, <3>1
  <2>3. CASE ready' = Tail(ready) /\ UNCHANGED <<socket, reading>>
    BY <1>8, <2>1, <2>3
  <2>. QED
    BY <1>10, <1>14, <2>1, <2>2, <2>3 DEF HandleWritten, GiveUp
<1>15. CASE HandleClose
  BY <1>10, <1>15 DEF HandleClose
<1>. QED
  BY <1>2, <1>3, <1>4, <1>5, <1>6, <1>7, <1>11, <1>12, <1>13, <1>14, <1>15
     DEF Next, RunOne
-----------------------------------------------------------------------------
(* Every line in its place. *)

LEMMA PlaceKept ==
  ASSUME IInv, NEW q, q = ready \/ (ready # <<>> /\ q = Tail(ready)
                                     /\ Head(ready).do # "write"),
         NEW new \in Seq(Handler), None(new, {"write"}), ready' = q \o new,
         typed' = typed, wire' \o Unwritten' = wire \o Unwritten
  PROVE  InPlace'
<1>1. PICK posted \in Seq(Line) :
        typed = wire \o Unwritten \o posted /\ Carry(ready, posted)
  BY DEF IInv, InPlace
<1>2. ready \in Seq(Handler) /\ q \in Seq(Handler)
  BY Rest DEF IInv, TypeOK
<1>3. Carry(q, posted)
  BY <1>1, <1>2, CarryRest
<1>4. Carry(ready', posted)
  BY <1>2, <1>3, CarryBehind
<1>. QED
  BY <1>1, <1>4 DEF InPlace

LEMMA UnwrittenIs ==
  ASSUME IInv
  PROVE  /\ Unwritten \in Seq(Line) /\ write_msgs \in Seq(Line) /\ wire \in Seq(Line)
         /\ Popped(ready) => write_msgs # <<>>
<1>1. Popped(ready) => ~None(ready, {"written"})
  BY DEF Popped, None
<1>2. Popped(ready) => write_msgs # <<>>
  BY <1>1 DEF IInv, OneWrite
<1>. QED
  BY <1>2, Rest DEF Unwritten, IInv, TypeOK

(* Handlers that are neither a line nor a write that succeeded change nothing. *)
LEMMA PlaceBehind ==
  ASSUME IInv, NEW q, q = ready \/ (ready # <<>> /\ q = Tail(ready)
                                     /\ Head(ready).do # "write"),
         NEW new \in Seq(Handler), None(new, {"write"}), ready' = q \o new,
         ~Popped(new), Popped(q) = Popped(ready),
         UNCHANGED <<typed, wire, write_msgs>>
  PROVE  InPlace'
<1>1. q \in Seq(Handler)
  BY Rest DEF IInv, TypeOK
<1>2. Popped(ready') <=> Popped(q) \/ Popped(new)
  BY <1>1, KindBehind
<1>3. Popped(ready') <=> Popped(ready)
  BY <1>2
<1>4. Unwritten' = Unwritten
  BY <1>3 DEF Unwritten
<1>. QED
  BY <1>4, PlaceKept

LEMMA PlaceStep == IInv /\ [Next]_vars => InPlace'
<1>. SUFFICES ASSUME IInv, [Next]_vars PROVE InPlace'
  OBVIOUS
<1>0. TypeOK /\ OneWrite /\ OneChain /\ InPlace /\ ready \in Seq(Handler)
  BY DEF IInv, TypeOK
<1>1. ASSUME NEW h \in Handler, h.do # "write", ~(h.do = "written" /\ h.ok),
             ready' = Append(ready, h), UNCHANGED <<typed, wire, write_msgs>>
      PROVE  InPlace'
  <2>1. ready' = ready \o <<h>> /\ <<h>> \in Seq(Handler)
    BY <1>0, <1>1, OneBehind
  <2>2. None(<<h>>, {"write"}) /\ ~Popped(<<h>>)
    BY <1>1, KindOne
  <2>. QED
    BY <1>1, <2>1, <2>2, PlaceBehind
<1>2. ASSUME NEW l \in Line, TypeLine(l) PROVE InPlace'
  <2>. DEFINE h == [do |-> "write", line |-> l]
  <2>1. PICK posted \in Seq(Line) :
          typed = wire \o Unwritten \o posted /\ Carry(ready, posted)
    BY <1>0 DEF InPlace
  <2>2. Append(posted, l) \in Seq(Line) /\ Carry(ready', Append(posted, l))
    <3>1. Carry(Append(ready, h), Append(posted, l))
      BY <1>0, <2>1, CarryOneMore
    <3>. QED
      BY <1>2, <2>1, <3>1, AppendProperties DEF TypeLine
  <2>3. Unwritten' = Unwritten /\ wire' = wire
    <3>1. h \in Handler /\ h.do = "write" /\ ready' = Append(ready, h)
      BY <1>2, Made DEF TypeLine
    <3>. HIDE DEF h
    <3>2. ready' = ready \o <<h>> /\ <<h>> \in Seq(Handler) /\ ~Popped(<<h>>)
      BY <1>0, <3>1, OneBehind, KindOne
    <3>3. Popped(ready') <=> Popped(ready) \/ Popped(<<h>>)
      BY <1>0, <3>2, KindBehind
    <3>4. Popped(ready') <=> Popped(ready)
      BY <3>2, <3>3
    <3>. QED
      BY <1>2, <3>4 DEF TypeLine, Unwritten
  <2>4. typed' = wire \o Unwritten \o Append(posted, l)
    <3>. DEFINE before == wire \o Unwritten
    <3>1. before \in Seq(Line) /\ posted \in Seq(Line) /\ l \in Line
      BY <2>1, UnwrittenIs, ConcatProperties
    <3>. HIDE DEF before
    <3>2. Append(before \o posted, l) = before \o Append(posted, l)
      BY <3>1, LineBehind, Zenon
    <3>. USE DEF before
    <3>. QED
      BY <1>2, <2>1, <3>2 DEF TypeLine
  <2>. QED
    BY <2>2, <2>3, <2>4 DEF InPlace
<1>3. CASE EndInput
  <2>. DEFINE h == [do |-> "close"]
  <2>1. h \in Handler /\ h.do = "close"
    BY Made
  <2>2. ready' = Append(ready, h) /\ UNCHANGED <<typed, wire, write_msgs>>
    BY <1>3 DEF EndInput
  <2>. HIDE DEF h
  <2>. QED
    BY <1>1, <2>1, <2>2
<1>4. CASE Join \/ Return \/ UNCHANGED vars
  BY <1>0, <1>4 DEF Join, Return, vars, user, InPlace, Unwritten
<1>5. ASSUME NEW ok \in BOOLEAN, ConnectCompletes(ok) PROVE InPlace'
  <2>. DEFINE h == [do |-> "connect", ok |-> ok]
              w == [do |-> "written", ok |-> FALSE]
  <2>1. /\ h \in Handler /\ h.do = "connect"
        /\ w \in Handler /\ w.do = "written" /\ w.ok = FALSE
    BY Made
  <2>2. /\ UNCHANGED <<typed, wire, write_msgs>>
        /\ ready' = Append(ready, h) \/ ready' = Append(Append(ready, h), w)
    BY <1>5 DEF ConnectCompletes, user
  <2>. HIDE DEF h, w
  <2>3. CASE ready' = Append(ready, h)
    BY <1>1, <2>1, <2>2, <2>3
  <2>4. CASE ready' = Append(Append(ready, h), w)
    <3>1. Append(ready, h) = ready \o <<h>> /\ <<h>> \in Seq(Handler)
      BY <1>0, <2>1, OneBehind
    <3>2. <<w>> \in Seq(Handler) /\ ready' = (ready \o <<h>>) \o <<w>>
      BY <1>0, <2>1, <2>4, <3>1, Behind, OneBehind
    <3>3. ready' = ready \o (<<h>> \o <<w>>) /\ <<h>> \o <<w>> \in Seq(Handler)
      BY <1>0, <3>1, <3>2, ConcatAssociative, Behind
    <3>4. /\ None(<<h>>, {"write"}) /\ ~Popped(<<h>>)
          /\ None(<<w>>, {"write"}) /\ ~Popped(<<w>>) /\ <<w>> \in Seq(Handler)
      BY <2>1, KindOne, OneBehind
    <3>5. None(<<h>> \o <<w>>, {"write"}) /\ ~Popped(<<h>> \o <<w>>)
      BY <3>1, <3>4, KindBehind
    <3>. QED
      BY <2>2, <3>5, <3>3, PlaceBehind
  <2>. QED
    BY <2>2, <2>3, <2>4
<1>6. ASSUME NEW ok \in BOOLEAN, ReadCompletes(ok) PROVE InPlace'
  <2>. DEFINE h == [do |-> "read", what |-> reading, ok |-> ok]
  <2>1. h \in Handler /\ h.do = "read"
    BY <1>0, <1>6, Made DEF ReadCompletes, TypeOK
  <2>2. ready' = Append(ready, h) /\ UNCHANGED <<typed, wire, write_msgs>>
    BY <1>6 DEF ReadCompletes, user
  <2>. HIDE DEF h
  <2>. QED
    BY <1>1, <2>1, <2>2
<1>7. ASSUME NEW ok \in BOOLEAN, WriteCompletes(ok) PROVE InPlace'
  <2>. DEFINE h == [do |-> "written", ok |-> ok]
  <2>1. h \in Handler /\ h.do = "written" /\ h.ok = ok
    BY Made
  <2>2. /\ ready' = Append(ready, h) /\ UNCHANGED <<typed, write_msgs>>
        /\ wire' = IF ok THEN Append(wire, Head(writing)) ELSE wire
        /\ writing # <<>>
    BY <1>7 DEF WriteCompletes, user
  <2>. HIDE DEF h
  <2>3. CASE ~ok
    BY <1>1, <2>1, <2>2, <2>3
  <2>4. CASE ok
    <3>1. /\ None(ready, {"written"}) /\ write_msgs # <<>>
          /\ Head(writing) = Head(write_msgs)
      <4>1. writing = <<Head(write_msgs)>> /\ write_msgs # <<>>
        BY <1>0, <2>2 DEF OneWrite
      <4>2. Head(write_msgs) \in Line
        BY <4>1, UnwrittenIs, Rest
      <4>3. Head(<<Head(write_msgs)>>) = Head(write_msgs)
        BY <4>2, <4>1, <2>2, One, Rest
      <4>. QED
        BY <1>0, <2>2, <4>1, <4>3 DEF OneWrite
    <3>2. ~Popped(ready)
      BY <3>1 DEF None, Popped
    <3>3. ready' = ready \o <<h>> /\ <<h>> \in Seq(Handler)
      BY <1>0, <2>1, <2>2, OneBehind
    <3>4. None(<<h>>, {"write"}) /\ Popped(<<h>>)
      BY <2>1, <2>4, KindOne
    <3>5. Popped(ready')
      BY <1>0, <3>3, <3>4, KindBehind
    <3>6. Unwritten = write_msgs /\ Unwritten' = Tail(write_msgs)
      BY <2>2, <3>2, <3>5 DEF Unwritten
    <3>7. Append(wire, Head(write_msgs)) \o Tail(write_msgs) = wire \o write_msgs
      BY <3>1, UnwrittenIs, FrontOf
    <3>8. wire' \o Unwritten' = wire \o Unwritten
      BY <2>2, <2>4, <3>1, <3>6, <3>7
    <3>. QED
      BY <2>2, <3>3, <3>4, <3>8, PlaceKept
  <2>. QED
    BY <2>3, <2>4
<1>8. ASSUME NEW do, IsNext(do), do \notin {"write", "written"} \/ ~Head(ready).ok,
             do # "write",
             NEW new \in Seq(Handler), None(new, {"write"}), ~Popped(new),
             ready' = Tail(ready) \o new, UNCHANGED <<typed, wire, write_msgs>>
      PROVE  InPlace'
  <2>1. /\ ready # <<>> /\ Head(ready).do = do /\ Tail(ready) \in Seq(Handler)
        /\ Head(ready) \in Handler
    BY <1>0, <1>8, Next1
  <2>2. Popped(Tail(ready)) <=> Popped(ready)
    BY <1>0, <1>8, <2>1, KindRest DEF OneWrite
  <2>3. Popped(Tail(ready)) = Popped(ready)
    BY <2>2 DEF Popped
  <2>. QED
    BY <1>8, <2>1, <2>3, PlaceBehind
<1>9. ASSUME NEW do, IsNext(do), do \notin {"write", "written"} \/ ~Head(ready).ok,
             do # "write", Close(Tail(ready)), UNCHANGED <<typed, wire, write_msgs>>
      PROVE  InPlace'
  <2>1. /\ Aborted \in Seq(Handler) /\ None(Aborted, {"write"}) /\ ~Popped(Aborted)
        /\ ready' = Tail(ready) \o Aborted
    BY <1>0, <1>9, AbortedIs DEF Close
  <2>. QED
    BY <1>8, <1>9, <2>1
<1>10. ASSUME NEW do \in Chain, IsNext(do), NEW what \in {"header", "body"},
              StartRead(what, Tail(ready)), UNCHANGED <<typed, wire, write_msgs>>
       PROVE  InPlace'
  <2>1. Tail(ready) \in Seq(Handler) /\ do \notin {"write", "written"} /\ do # "write"
    BY <1>0, <1>10, Next1 DEF Chain
  <2>2. PICK new \in Seq(Handler) : /\ ready' = Tail(ready) \o new
                                    /\ None(new, {"write"}) /\ ~Popped(new)
    BY <1>0, <1>10, <2>1, ReadStarted
  <2>. QED
    BY <1>8, <1>10, <2>1, <2>2
<1>11. CASE HandleConnect
  <2>1. /\ IsNext("connect") /\ "connect" \in Chain
        /\ UNCHANGED <<typed, wire, write_msgs>>
    BY <1>11 DEF HandleConnect, Chain, user
  <2>2. CASE StartRead("header", Tail(ready))
    BY <1>10, <2>1, <2>2
  <2>3. CASE ready' = Tail(ready) \o Aborted
    BY <1>0, <1>8, <2>1, <2>3, AbortedIs
  <2>4. CASE ready' = Tail(ready)
    <3>1. ready' = Tail(ready) \o <<>> /\ <<>> \in Seq(Handler)
      BY <1>0, <2>1, <2>4, Next1, ConcatEmptySeq, EmptySeq
    <3>. QED
      BY <1>8, <2>1, <3>1, KindNothing
  <2>. QED
    BY <1>11, <2>2, <2>3, <2>4 DEF HandleConnect
<1>12. CASE HandleRead
  <2>1. /\ IsNext("read") /\ "read" \in Chain
        /\ UNCHANGED <<typed, wire, write_msgs>>
    BY <1>12 DEF HandleRead, Chain, user
  <2>. QED
    BY <1>9, <1>10, <1>12, <2>1 DEF HandleRead
<1>13. CASE HandleClose
  <2>1. IsNext("close") /\ UNCHANGED <<typed, wire, write_msgs>>
    BY <1>13 DEF HandleClose, user
  <2>. QED
    BY <1>9, <1>13, <2>1 DEF HandleClose
<1>14. CASE HandleWritten
  <2>1. IsNext("written") /\ UNCHANGED <<typed, wire>>
    BY <1>14 DEF HandleWritten, user
  <2>2. /\ ready # <<>> /\ Head(ready).do = "written"
        /\ Tail(ready) \in Seq(Handler) /\ Head(ready).do # "write"
    BY <1>0, <2>1, Next1
  <2>3. ASSUME Head(ready).ok, write_msgs' = Tail(write_msgs),
               NEW new \in Seq(Handler), None(new, {"write"}), ~Popped(new),
               ready' = Tail(ready) \o new
        PROVE  InPlace'
    <3>1. Popped(ready) /\ ~Popped(Tail(ready))
      BY <1>0, <2>2, <2>3, KindRest DEF OneWrite
    <3>2. ~Popped(ready')
      BY <2>2, <2>3, <3>1, KindBehind
    <3>3. Unwritten' = Tail(write_msgs) /\ Unwritten = Tail(write_msgs)
      BY <2>3, <3>1, <3>2 DEF Unwritten
    <3>4. wire' \o Unwritten' = wire \o Unwritten
      BY <2>1, <3>3
    <3>. QED
      BY <2>1, <2>2, <2>3, <3>4, PlaceKept
  <2>4. CASE /\ Head(ready).ok /\ write_msgs' = Tail(write_msgs)
             /\ SomeLeft /\ StartWrite(write_msgs[2], Tail(ready))
    <3>1. write_msgs[2] \in Line
      BY <1>0, <2>4 DEF SomeLeft, TypeOK
    <3>2. PICK new \in Seq(Handler) : /\ ready' = Tail(ready) \o new
                                      /\ None(new, {"write"}) /\ ~Popped(new)
      BY <1>0, <2>2, <2>4, <3>1, WriteStarted
    <3>. QED
      BY <2>3, <2>4, <3>2
  <2>5. CASE /\ Head(ready).ok /\ write_msgs' = Tail(write_msgs)
             /\ ready' = Tail(ready)
    <3>1. ready' = Tail(ready) \o <<>> /\ <<>> \in Seq(Handler)
      BY <2>2, <2>5, ConcatEmptySeq, EmptySeq
    <3>. QED
      BY <2>3, <2>5, <3>1, KindNothing
  <2>6. CASE ~Head(ready).ok /\ Close(Tail(ready)) /\ UNCHANGED write_msgs
    BY <1>9, <2>1, <2>6
  <2>. QED
    BY <1>14, <2>4, <2>5, <2>6 DEF HandleWritten, GiveUp
<1>15. CASE HandleWrite
  <2>. DEFINE l == Head(ready).line
              q == Tail(ready)
  <2>1. /\ ready # <<>> /\ Head(ready).do = "write"
        /\ q \in Seq(Handler) /\ l \in Line
        /\ UNCHANGED <<typed, wire>> /\ write_msgs' = Append(write_msgs, l)
    BY <1>0, <1>15, Next1, Handled DEF HandleWrite, user, Pushed
  <2>2. \E new \in Seq(Handler) : /\ ready' = q \o new
                                  /\ None(new, {"write"}) /\ ~Popped(new)
    <3>1. CASE Busy
      <4>1. ready' = q \o <<>> /\ <<>> \in Seq(Handler)
        BY <1>15, <2>1, <3>1, ConcatEmptySeq, EmptySeq DEF HandleWrite
      <4>. QED
        BY <4>1, KindNothing
    <3>2. CASE ~Busy
      <4>1. Head(Pushed(l)) \in Line
        BY <1>0, <2>1, PushedTyped
      <4>2. StartWrite(Head(Pushed(l)), q)
        BY <1>15, <3>2 DEF HandleWrite
      <4>. HIDE DEF q, l
      <4>. QED
        BY <1>0, <2>1, <4>1, <4>2, WriteStarted
    <3>. QED
      BY <3>1, <3>2
  <2>3. PICK new \in Seq(Handler) : /\ ready' = q \o new
                                    /\ None(new, {"write"}) /\ ~Popped(new)
    BY <2>2
  <2>4. PICK posted \in Seq(Line) :
          typed = wire \o Unwritten \o posted /\ Carry(ready, posted)
    BY <1>0 DEF InPlace
  <2>5. /\ posted # <<>> /\ Head(posted) = l /\ Carry(q, Tail(posted))
    BY <1>0, <2>1, <2>4, CarryFirst
  <2>6. Tail(posted) \in Seq(Line) /\ Carry(ready', Tail(posted))
    BY <2>1, <2>3, <2>4, <2>5, Rest, CarryBehind
  <2>7. Popped(ready') <=> Popped(ready)
    <3>1. Popped(q) <=> Popped(ready)
      BY <1>0, <2>1, KindRest
    <3>2. Popped(ready') <=> Popped(q) \/ Popped(new)
      BY <2>1, <2>3, KindBehind
    <3>. QED
      BY <2>3, <3>1, <3>2
  <2>8. Unwritten' = Append(Unwritten, l)
    <3>1. write_msgs # <<>> => Tail(Append(write_msgs, l)) = Append(Tail(write_msgs), l)
      BY UnwrittenIs, HeadTailAppend
    <3>. HIDE DEF l
    <3>. QED
      BY <2>1, <2>7, <3>1, UnwrittenIs DEF Unwritten
  <2>9. typed' = wire' \o Unwritten' \o Tail(posted)
    <3>1. wire \o Unwritten \in Seq(Line)
      BY UnwrittenIs, ConcatProperties
    <3>2. Append(wire \o Unwritten, l) \o Tail(posted) = (wire \o Unwritten) \o posted
      BY <2>4, <2>5, <3>1, FrontOf
    <3>3. Append(wire \o Unwritten, l) = wire \o Append(Unwritten, l)
      <4>1. wire \in Seq(Line) /\ Unwritten \in Seq(Line) /\ l \in Line
        BY <2>1, UnwrittenIs
      <4>. HIDE DEF l
      <4>. QED
        BY <4>1, LineBehind, Zenon
    <3>. QED
      BY <2>1, <2>4, <2>8, <3>2, <3>3
  <2>. QED
    BY <2>6, <2>9 DEF InPlace
<1>. QED
  BY <1>2, <1>3, <1>4, <1>5, <1>6, <1>7, <1>11, <1>12, <1>13, <1>14, <1>15
     DEF Next, RunOne

-----------------------------------------------------------------------------
LEMMA Invariance == SafetySpec => []IInv
<1>1. IInv /\ [Next]_vars => IInv'
  BY TypeStep, WriteStep, ChainStep, PlaceStep DEF IInv
<1>. QED
  BY <1>1, InitIInv, PTL DEF SafetySpec

LEMMA AtMostOneElement ==
  ASSUME NEW S, \A x, y \in S : x = y
  PROVE  IsFiniteSet(S) /\ Cardinality(S) \in {0, 1}
                        /\ (S = {} => Cardinality(S) = 0)
<1>1. CASE S = {}
  BY <1>1, FS_EmptySet
<1>2. CASE S # {}
  <2>1. PICK x \in S : S = {x}
    BY <1>2
  <2>. QED
    BY <2>1, FS_Singleton
<1>. QED
  BY <1>1, <1>2

(* Every variable keeps its type: in particular a line written is one typed, *)
(* an operation is started by a handler there is, and async_connect stays    *)
(* within the endpoints that were resolved.                                  *)
THEOREM TypeCorrect == SafetySpec => []TypeOK
<1>1. IInv => TypeOK
  BY DEF IInv
<1>. QED
  BY <1>1, Invariance, PTL

(* One async_write at a time, of the front of write_msgs_, and one chain of  *)
(* connect and read, in do_connect, do_read_header, do_read_body, do_write,  *)
(* write and close, whichever of them runs when.                             *)
THEOREM OneOperationOfEach == SafetySpec => []OneOfEach
<1>1. ASSUME IInv PROVE OneOfEach
  <2>1. TypeOK /\ OneWrite /\ OneChain /\ ready \in Seq(Handler) /\ writing \in Seq(Line)
    BY <1>1 DEF IInv, TypeOK
  <2>2. \A i, j \in Handlers("written") : i = j
    BY <2>1 DEF OneWrite, OneAtMost, Handlers
  <2>3. \A i, j \in Handlers("read") \cup Handlers("connect") : i = j
    BY <2>1 DEF OneChain, OneAtMost, Handlers, Chain
  <2>4. writing # <<>> => /\ Handlers("written") = {} /\ Len(writing) = 1
                          /\ write_msgs # <<>> /\ Head(writing) = Head(write_msgs)
    <3>1. ASSUME writing # <<>> PROVE Handlers("written") = {}
      BY <2>1, <3>1 DEF OneWrite, None, Handlers
    <3>2. ASSUME writing # <<>>
          PROVE  Len(writing) = 1 /\ write_msgs # <<>> /\ Head(writing) = Head(write_msgs)
      <4>1. writing = <<Head(write_msgs)>> /\ write_msgs # <<>>
        BY <2>1, <3>2 DEF OneWrite
      <4>2. Len(<<Head(write_msgs)>>) = 1 /\ <<Head(write_msgs)>>[1] = Head(write_msgs)
        OBVIOUS
      <4>3. Head(writing) = writing[1]
        BY <2>1, <3>2, Rest
      <4>. QED
        BY <4>1, <4>2, <4>3
    <3>. QED
      BY <3>1, <3>2
  <2>5. writing = <<>> => Len(writing) = 0
    BY <2>1, EmptySeq
  <2>6. Len(writing) + Cardinality(Handlers("written")) <= 1
    BY <2>2, <2>4, <2>5, AtMostOneElement
  <2>7. reading # "none" \/ socket = "connecting"
          => Handlers("read") = {} /\ Handlers("connect") = {}
    BY <2>1 DEF OneChain, None, Handlers, Chain
  <2>8. ~(reading # "none" /\ socket = "connecting")
    BY <2>1 DEF OneChain
  <2>9. Handlers("read") = {} \/ Handlers("connect") = {}
    <3>1. ASSUME NEW i \in Handlers("read"), NEW j \in Handlers("connect") PROVE FALSE
      <4>1. i = j
        BY <2>3
      <4>2. ready[i].do = "read" /\ ready[i].do = "connect"
        BY <4>1 DEF Handlers
      <4>. QED
        BY <4>2
    <3>. QED
      BY <3>1
  <2>10. /\ \A i, j \in Handlers("read") : i = j
         /\ \A i, j \in Handlers("connect") : i = j
    BY <2>3
  <2>11. /\ Cardinality(Handlers("read")) \in {0, 1}
         /\ Cardinality(Handlers("connect")) \in {0, 1}
         /\ Handlers("read") = {} => Cardinality(Handlers("read")) = 0
         /\ Handlers("connect") = {} => Cardinality(Handlers("connect")) = 0
    BY <2>10, AtMostOneElement
  <2>12. Cardinality(Handlers("read")) + Cardinality(Handlers("connect"))
           + (IF reading # "none" THEN 1 ELSE 0)
           + (IF socket = "connecting" THEN 1 ELSE 0) <= 1
    BY <2>7, <2>8, <2>9, <2>11
  <2>. QED
    BY <2>4, <2>6, <2>12 DEF OneOfEach
<1>. QED
  BY <1>1, Invariance, PTL

(* No line is lost, doubled or overtaken between getline and the connection, *)
(* in write(), its handler and do_write, whatever fails and whenever the     *)
(* socket is closed.                                                         *)
THEOREM LinesKeepTheirPlaces == SafetySpec => []EveryLineInItsPlace
<1>1. ASSUME IInv PROVE EveryLineInItsPlace
  <2>1. PICK posted \in Seq(Line) :
          typed = wire \o Unwritten \o posted /\ Carry(ready, posted)
    BY <1>1 DEF IInv, InPlace
  <2>2. Unwritten \in Seq(Line) /\ wire \in Seq(Line)
    BY <1>1, UnwrittenIs
  <2>. DEFINE before == wire \o Unwritten
              n == Len(before)
              m == Len(posted)
  <2>3. /\ before \in Seq(Line) /\ n = Len(wire) + Len(Unwritten)
        /\ n \in Nat /\ m \in Nat
    BY <2>1, <2>2, ConcatProperties, LenProperties
  <2>4. typed = before \o posted /\ typed \in Seq(Line) /\ Len(typed) = n + m
    BY <2>1, <2>3, ConcatProperties
  <2>. HIDE DEF before, n
  <2>5. SubSeq(typed, n + 1, Len(typed)) = posted
    <3>1. CASE m = 0
      <4>1. posted = <<>> /\ Len(typed) < n + 1
        BY <2>1, <2>3, <2>4, <3>1, EmptySeq
      <4>. QED
        BY <4>1, <2>3, <2>4, SubSeqEmpty
    <3>2. CASE m # 0
      <4>1. n + 1 \in n + 1 .. n + m /\ n + m \in n + 1 .. n + m
        BY <2>3, <3>2
      <4>2. SubSeq(before \o posted, n + 1, n + m) = SubSeq(posted, n + 1 - n, n + m - n)
        BY <2>1, <2>3, <4>1, SubSeqOfConcat2 DEF n
      <4>3. n + 1 - n = 1 /\ n + m - n = m
        BY <2>3
      <4>. QED
        BY <2>1, <2>4, <4>2, <4>3, SubSeqFull
    <3>. QED
      BY <3>1, <3>2
  <2>6. Popped(ready) <=> \E i \in Handlers("written") : ready[i].ok
    <3>1. ASSUME Popped(ready) PROVE \E i \in Handlers("written") : ready[i].ok
      BY <3>1 DEF Popped, Handlers
    <3>2. ASSUME NEW i \in Handlers("written"), ready[i].ok PROVE Popped(ready)
      BY <3>2 DEF Popped, Handlers
    <3>. QED
      BY <3>1, <3>2
  <2>7. Unwritten = IF \E i \in Handlers("written") : ready[i].ok
                    THEN Tail(write_msgs) ELSE write_msgs
    BY <2>6 DEF Unwritten
  <2>8. typed = wire \o Unwritten \o SubSeq(typed, Len(wire) + Len(Unwritten) + 1, Len(typed))
    BY <2>1, <2>3, <2>5
  <2>9. Carry(ready, SubSeq(typed, Len(wire) + Len(Unwritten) + 1, Len(typed)))
    BY <2>1, <2>3, <2>5
  <2>. HIDE DEF m
  <2>. QED
    BY <2>7, <2>8, <2>9 DEF EveryLineInItsPlace
<1>. QED
  BY <1>1, Invariance, PTL

(* Once the socket is closed nothing opens it again and nothing more reaches *)
(* the connection: not the attempt to connect that was under way, whose      *)
(* handler still runs, nor the lines still queued.                           *)
THEOREM ClosingIsFinal == SafetySpec => ClosedForGood
<1>1. ASSUME socket = "closed", [Next]_vars
      PROVE  socket' = "closed" /\ wire' = wire
  <2>2. CASE HandleConnect
    BY <1>1, <2>2 DEF HandleConnect, StillOpen
  <2>3. CASE HandleRead
    BY <1>1, <2>3 DEF HandleRead, Close
  <2>4. CASE HandleWritten
    BY <1>1, <2>4 DEF HandleWritten, GiveUp, Close
  <2>5. CASE HandleClose
    BY <1>1, <2>5 DEF HandleClose, Close
  <2>6. CASE HandleWrite \/ Return \/ EndInput \/ Join \/ UNCHANGED vars
    BY <1>1, <2>6 DEF HandleWrite, Return, EndInput, Join, vars, user
  <2>7. ASSUME NEW l \in Line, TypeLine(l) PROVE UNCHANGED <<socket, wire>>
    BY <2>7 DEF TypeLine
  <2>8. ASSUME NEW ok \in BOOLEAN,
               ConnectCompletes(ok) \/ ReadCompletes(ok) \/ WriteCompletes(ok)
        PROVE  UNCHANGED <<socket, wire>>
    BY <1>1, <2>8 DEF ConnectCompletes, ReadCompletes, WriteCompletes
  <2>. QED
    BY <1>1, <2>2, <2>3, <2>4, <2>5, <2>6, <2>7, <2>8 DEF Next, RunOne
<1>2. [Next]_vars => [socket = "closed" => socket' = "closed" /\ wire' = wire]_vars
  BY <1>1
<1>. QED
  BY <1>2, PTL DEF SafetySpec, ClosedForGood

-----------------------------------------------------------------------------
(* The codec.  The value of digits is a recursion over them, so what is said *)
(* of it is proved by the least length for which it is not so.               *)

LEMMA Least ==
  ASSUME NEW S, S \subseteq Nat, S # {}
  PROVE  \E m \in S : \A k \in S : m <= k
<1> DEFINE Less == {p \in Nat \X Nat : p[1] < p[2]}
<1>1. IsWellFoundedOn(Less, Nat)
  BY NatLessThanWellFounded DEF OpToRel
<1>2. PICK m \in S : \A k \in S : ~(<<k, m>> \in Less)
  <2> HIDE DEF Less
  <2> QED  BY <1>1, WFMin
<1>3. \A k \in S : ~(<<k, m>> \in Less) => m <= k
  OBVIOUS
<1> QED  BY <1>2, <1>3

LEMMA Greatest ==
  ASSUME NEW n \in Nat, NEW S, S \subseteq 0..n, S # {}
  PROVE  Max(S) \in S /\ \A k \in S : k <= Max(S)
<1> DEFINE T == {n - k : k \in S}
<1>1. T \subseteq Nat /\ T # {}
  <2>1. \A k \in S : n - k \in Nat  OBVIOUS
  <2> QED  BY <2>1
<1> HIDE DEF T
<1>2. PICK l \in T : \A k \in T : l <= k  BY <1>1, Least
<1>3. PICK m \in S : l = n - m  BY DEF T
<1>4. \A k \in S : n - k \in T  BY DEF T
<1>5. \A k \in S : m >= k  BY <1>2, <1>3, <1>4
<1>6. S \subseteq Int  OBVIOUS
<1>7. Max(S) \in S /\ \A k \in S : Max(S) >= k
  BY <1>5 DEF Max
<1> QED  BY <1>6, <1>7

(* The longest beginning made of C is the one that ends before what is not. *)
LEMMA SpanOf ==
  ASSUME NEW X, NEW s \in Seq(X), NEW C
  PROVE  \E m \in 0..Len(s) :
           /\ Span(s, C) = SubSeq(s, 1, m)
           /\ \A k \in 1..m : s[k] \in C
           /\ m < Len(s) => s[m + 1] \notin C
<1> DEFINE S == {m \in 0..Len(s) : \A k \in 1..m : s[k] \in C}
<1>0. Len(s) \in Nat  BY LenProperties
<1>1. 0 \in S /\ S \subseteq 0..Len(s)  BY <1>0
<1>2. \A m \in 0..Len(s) : m \in S <=> \A k \in 1..m : s[k] \in C
  OBVIOUS
<1>3. Span(s, C) = SubSeq(s, 1, Max(S))  BY DEF Span
<1> HIDE DEF S
<1>4. Max(S) \in S /\ \A k \in S : k <= Max(S)
  BY <1>0, <1>1, Greatest
<1> DEFINE m == Max(S)
<1>5. m \in 0..Len(s) /\ \A k \in 1..m : s[k] \in C
  BY <1>1, <1>2, <1>4
<1>6. ASSUME m < Len(s) PROVE s[m + 1] \notin C
  <2>1. m + 1 \in 0..Len(s) /\ ~(m + 1 <= m)  BY <1>0, <1>5, <1>6
  <2>2. m + 1 \notin S  BY <1>4, <2>1
  <2>3. PICK k \in 1..m + 1 : s[k] \notin C  BY <1>2, <2>1, <2>2
  <2>4. k = m + 1 \/ k \in 1..m  BY <1>0, <1>5
  <2> QED  BY <1>5, <2>3, <2>4
<1> QED  BY <1>3, <1>5, <1>6

LEMMA SpanIs ==
  ASSUME NEW X, NEW s \in Seq(X), NEW C, NEW n \in 0..Len(s),
         \A k \in 1..n : s[k] \in C, n < Len(s) => s[n + 1] \notin C
  PROVE  Span(s, C) = SubSeq(s, 1, n)
<1>0. Len(s) \in Nat  BY LenProperties
<1>1. PICK m \in 0..Len(s) :
        /\ Span(s, C) = SubSeq(s, 1, m)
        /\ \A k \in 1..m : s[k] \in C
        /\ m < Len(s) => s[m + 1] \notin C
  BY SpanOf
<1>2. ~(m < n)
  <2>1. m < n => m < Len(s) /\ m + 1 \in 1..n  BY <1>0
  <2> QED  BY <1>1, <2>1
<1>3. ~(n < m)
  <2>1. n < m => n < Len(s) /\ n + 1 \in 1..m  BY <1>0
  <2> QED  BY <1>1, <2>1
<1>4. m = n  BY <1>0, <1>2, <1>3
<1> QED  BY <1>1, <1>4

LEMMA SpanTyped ==
  ASSUME NEW X, NEW s \in Seq(X), NEW C
  PROVE  Span(s, C) \in Seq(C) /\ After(s, C) \in Seq(X)
<1>0. Len(s) \in Nat /\ \A k \in 1..Len(s) : s[k] \in X
  BY LenProperties, ElementOfSeq
<1>1. PICK m \in 0..Len(s) : /\ Span(s, C) = SubSeq(s, 1, m)
                             /\ \A k \in 1..m : s[k] \in C
  BY SpanOf
<1>2. Span(s, C) \in Seq(C) /\ Len(Span(s, C)) = m
  <2>1. /\ SubSeq(s, 1, m) \in Seq(C)
        /\ Len(SubSeq(s, 1, m)) = IF 1 <= m THEN m - 1 + 1 ELSE 0
    BY <1>0, <1>1, SubSeqProperties
  <2>2. (IF 1 <= m THEN m - 1 + 1 ELSE 0) = m  BY <1>0
  <2> QED  BY <1>1, <2>1, <2>2
<1>3. After(s, C) = SubSeq(s, m + 1, Len(s))  BY <1>2 DEF After
<1>4. \A k \in m + 1..Len(s) : s[k] \in X
  <2>1. \A k \in m + 1..Len(s) : k \in 1..Len(s)  BY <1>0
  <2> QED  BY <1>0, <2>1
<1>5. SubSeq(s, m + 1, Len(s)) \in Seq(X)
  <2>1. m + 1 \in Int /\ Len(s) \in Int  BY <1>0
  <2> QED  BY <1>4, <2>1, SubSeqProperties
<1> QED  BY <1>2, <1>3, <1>5

LEMMA ValueOfDigit ==
  /\ \A d \in 0..9 : ValueOf(Digits[d + 1]) = d /\ Digits[d + 1] \in Digit
  /\ \A c \in Digit : ValueOf(c) \in 0..9
<1>1. \A d \in 0..9, e \in 0..9 : Digits[d + 1] = Digits[e + 1] => d = e
  BY DEF Digits
<1>2. DOMAIN Digits = 1..10  BY DEF Digits
<1>3. Digit = {Digits[k] : k \in 1..10}  BY <1>2 DEF Digit, Range
<1>4. \A d \in 0..9 : ValueOf(Digits[d + 1]) = d
  <2> TAKE d \in 0..9
  <2>1. \A e \in 0..9 : Digits[e + 1] = Digits[d + 1] => e = d  BY <1>1
  <2> QED  BY <2>1 DEF ValueOf
<1>5. \A c \in Digit : \E d \in 0..9 : c = Digits[d + 1]
  <2> TAKE c \in Digit
  <2>1. PICK k \in 1..10 : c = Digits[k]  BY <1>3
  <2>2. k - 1 \in 0..9 /\ (k - 1) + 1 = k  OBVIOUS
  <2> QED  BY <2>1, <2>2
<1>6. \A d \in 0..9 : d + 1 \in 1..10  OBVIOUS
<1> QED  BY <1>3, <1>4, <1>5, <1>6

(* The value of the first n digits, for all n up to m. *)
IsValue(f, ds, m) ==
  f = [n \in 0..m |-> IF n = 0 THEN 0 ELSE 10 * f[n - 1] + ValueOf(ds[n])]

LEMMA ValueExists ==
  ASSUME NEW ds, NEW m \in Nat
  PROVE  \E f : IsValue(f, ds, m)
<1> DEFINE S == {n \in Nat : ~\E f : IsValue(f, ds, n)}
<1> SUFFICES ASSUME S # {} PROVE FALSE  OBVIOUS
<1>1. PICK n \in S : \A k \in S : n <= k
  BY Least
<1>2. CASE n = 0
  <2>1. IsValue([k \in 0..0 |-> 0], ds, 0)
    BY DEF IsValue
  <2> QED  BY <1>2, <2>1
<1>3. CASE n # 0
  <2>1. n \in Nat /\ n - 1 \in Nat /\ ~(n <= n - 1)  BY <1>3
  <2>2. n - 1 \notin S  BY <1>1, <2>1
  <2>3. PICK f : IsValue(f, ds, n - 1)  BY <2>1, <2>2
  <2> DEFINE g == [k \in 0..n |-> IF k = n THEN 10 * f[n - 1] + ValueOf(ds[n]) ELSE f[k]]
  <2>4. \A k \in 0..n - 1 : f[k] = IF k = 0 THEN 0 ELSE 10 * f[k - 1] + ValueOf(ds[k])
    BY <2>3 DEF IsValue
  <2>5. \A k \in 0..n :
          g[k] = IF k = 0 THEN 0 ELSE 10 * g[k - 1] + ValueOf(ds[k])
    <3> TAKE k \in 0..n
    <3>1. CASE k = n
      <4>1. g[k] = 10 * f[n - 1] + ValueOf(ds[n])  BY <2>1, <3>1
      <4>2. n - 1 \in 0..n /\ n - 1 # n  BY <2>1
      <4>3. g[n - 1] = f[n - 1]  BY <4>2
      <4> QED  BY <1>3, <3>1, <4>1, <4>3
    <3>2. CASE k # n
      <4>1. k \in 0..n - 1 /\ (k # 0 => k - 1 \in 0..n /\ k - 1 # n)
        BY <2>1, <3>2
      <4>2. g[k] = f[k] /\ (k # 0 => g[k - 1] = f[k - 1])  BY <3>2, <4>1
      <4> QED  BY <2>4, <4>1, <4>2
    <3> QED  BY <3>1, <3>2
  <2>6. IsValue(g, ds, n)
    <3>1. g = [k \in 0..n |-> g[k]]  OBVIOUS
    <3> HIDE DEF g
    <3> QED  BY <2>5, <3>1 DEF IsValue
  <2> HIDE DEF g
  <2> QED  BY <2>6
<1> QED  BY <1>2, <1>3

LEMMA NumberIs ==
  ASSUME NEW ds
  PROVE  Len(ds) \in Nat => \E f : IsValue(f, ds, Len(ds)) /\ Number(ds) = f[Len(ds)]
<1> SUFFICES ASSUME Len(ds) \in Nat
             PROVE  \E f : IsValue(f, ds, Len(ds)) /\ Number(ds) = f[Len(ds)]
  OBVIOUS
<1> DEFINE value == CHOOSE f : IsValue(f, ds, Len(ds))
<1>1. IsValue(value, ds, Len(ds))
  BY ValueExists
<1>2. Number(ds) = value[Len(ds)]
  BY DEF Number, IsValue
<1> QED  BY <1>1, <1>2

LEMMA NumberIsNat ==
  ASSUME NEW ds \in Seq(Digit)
  PROVE  Number(ds) \in Nat
<1>0. Len(ds) \in Nat /\ \A k \in 1..Len(ds) : ds[k] \in Digit
  BY LenProperties, ElementOfSeq
<1>1. PICK f : IsValue(f, ds, Len(ds)) /\ Number(ds) = f[Len(ds)]
  BY <1>0, NumberIs
<1>2. \A n \in 0..Len(ds) :
        f[n] = IF n = 0 THEN 0 ELSE 10 * f[n - 1] + ValueOf(ds[n])
  BY <1>1 DEF IsValue
<1> DEFINE S == {n \in 0..Len(ds) : f[n] \notin Nat}
<1>3. S = {}
  <2> SUFFICES ASSUME S # {} PROVE FALSE  OBVIOUS
  <2>1. S \subseteq Nat  BY <1>0
  <2>2. PICK n \in S : \A k \in S : n <= k
    <3> HIDE DEF S
    <3> QED  BY <2>1, Least
  <2>3. n # 0  BY <1>2, <2>2
  <2>4. n - 1 \in 0..Len(ds) /\ ~(n <= n - 1) /\ n \in 1..Len(ds)
    BY <1>0, <2>1, <2>3
  <2>5. f[n - 1] \in Nat  BY <2>2, <2>4
  <2>6. ValueOf(ds[n]) \in Nat  BY <1>0, <2>4, ValueOfDigit
  <2>7. 10 * f[n - 1] + ValueOf(ds[n]) \in Nat  BY <2>5, <2>6
  <2> QED  BY <1>2, <2>3, <2>4, <2>7
<1> QED  BY <1>0, <1>1, <1>3

LEMMA AtoiIsInt ==
  ASSUME NEW X, NEW s \in Seq(X)
  PROVE  Atoi(s) \in Int
<1> DEFINE t == After(s, {"blank"})
           signed == t # <<>> /\ Head(t) \in {"+", "-"}
           u == IF signed THEN Tail(t) ELSE t
           n == Number(Span(u, Digit))
<1>1. t \in Seq(X)  BY SpanTyped
<1>2. u \in Seq(X)  BY <1>1, HeadTailProperties
<1>3. n \in Nat
  <2> HIDE DEF u
  <2>1. Span(u, Digit) \in Seq(Digit)  BY <1>2, SpanTyped
  <2> QED  BY <2>1, NumberIsNat
<1>4. Atoi(s) = IF signed /\ Head(t) = "-" THEN -n ELSE n
  BY DEF Atoi
<1> HIDE DEF n, signed, t
<1> QED  BY <1>3, <1>4

(* The bytes of a header. *)
HeaderByte == OtherByte \cup Digit \cup {"blank"}

(* Whatever four bytes are: a size. *)
LEMMA DecodedIsSize ==
  ASSUME NEW h \in [1..header_length -> HeaderByte]
  PROVE  Decoded(h) \in Nat
<1> DEFINE s == Span(h, (OtherByte \cup Digit \cup {"blank"}) \ {"nul"})
<1>1. h \in Seq(HeaderByte)
  <2>1. header_length \in Nat  BY DEF header_length
  <2> QED  BY <2>1, SeqDef
<1>2. s \in Seq((OtherByte \cup Digit \cup {"blank"}) \ {"nul"})
  BY <1>1, SpanTyped
<1>3. Decoded(h) = Atoi(s) % 65536  BY DEF Decoded, AsSize
<1> HIDE DEF s
<1>4. Atoi(s) \in Int  BY <1>2, AtoiIsInt
<1>5. \A n \in Int : n % 65536 \in Nat  OBVIOUS
<1> QED  BY <1>3, <1>4, <1>5

(* What sprintf makes of a length: blanks, and then its digits. *)
DigitOf(n) == Digits[n + 1]

LEMMA EncodedIs ==
  ASSUME NEW n \in Nat, n <= max_body_length
  PROVE  /\ Encode(n) \in [1..4 -> Digit \cup {"blank"}]
         /\ Encode(n)[1] = "blank"
         /\ Encode(n)[2] = IF n < 100 THEN "blank" ELSE DigitOf(n \div 100)
         /\ Encode(n)[3] = IF n < 10 THEN "blank" ELSE DigitOf((n \div 10) % 10)
         /\ Encode(n)[4] = DigitOf(n % 10)
<1> DEFINE P == <<1000, 100, 10, 1>>
           e == Encode(n)
<1>0. n <= 512 /\ header_length = 4  BY DEF max_body_length, header_length
<1>1. P[1] = 1000 /\ P[2] = 100 /\ P[3] = 10 /\ P[4] = 1  OBVIOUS
<1>2. e = [i \in 1..4 |-> IF n < P[i] /\ i < 4 THEN "blank"
                          ELSE Digits[((n \div P[i]) % 10) + 1]]
  BY <1>0 DEF Encode
<1> HIDE DEF P, e
<1>3. \A i \in 1..4 : e[i] = IF n < P[i] /\ i < 4 THEN "blank"
                             ELSE Digits[((n \div P[i]) % 10) + 1]
  BY <1>2
<1>4. 1 \in 1..4 /\ 2 \in 1..4 /\ 3 \in 1..4 /\ 4 \in 1..4  OBVIOUS
<1>5. e[1] = "blank"
  <2>1. n < P[1] /\ 1 < 4  BY <1>0, <1>1
  <2> QED  BY <1>3, <1>4, <2>1
<1>6. e[2] = IF n < 100 THEN "blank" ELSE DigitOf(n \div 100)
  <2>1. (n \div 100) % 10 = n \div 100 /\ 2 < 4  BY <1>0
  <2>2. e[2] = IF n < 100 /\ 2 < 4 THEN "blank" ELSE Digits[((n \div 100) % 10) + 1]
    BY <1>1, <1>3, <1>4
  <2> QED  BY <2>1, <2>2 DEF DigitOf
<1>7. e[3] = IF n < 10 THEN "blank" ELSE DigitOf((n \div 10) % 10)
  <2>1. e[3] = IF n < 10 /\ 3 < 4 THEN "blank" ELSE Digits[((n \div 10) % 10) + 1]
    BY <1>1, <1>3, <1>4
  <2> QED  BY <2>1 DEF DigitOf
<1>8. e[4] = DigitOf(n % 10)
  <2>1. e[4] = IF n < 1 /\ 4 < 4 THEN "blank" ELSE Digits[((n \div 1) % 10) + 1]
    BY <1>1, <1>3, <1>4
  <2>2. n \div 1 = n /\ ~(4 < 4)  OBVIOUS
  <2> QED  BY <2>1, <2>2 DEF DigitOf
<1>9. \A m \in 0..9 : DigitOf(m) \in Digit
  BY ValueOfDigit DEF DigitOf
<1>10. \A i \in 1..4 : e[i] \in Digit \cup {"blank"}
  <2>1. /\ n \div 100 \in 0..9 /\ (n \div 10) % 10 \in 0..9 /\ n % 10 \in 0..9
    BY <1>0
  <2>2. e[2] \in Digit \cup {"blank"}  BY <1>6, <1>9, <2>1
  <2>3. e[3] \in Digit \cup {"blank"}  BY <1>7, <1>9, <2>1
  <2>4. e[4] \in Digit \cup {"blank"}  BY <1>8, <1>9, <2>1
  <2>5. \A i \in 1..4 : i = 1 \/ i = 2 \/ i = 3 \/ i = 4  OBVIOUS
  <2> QED  BY <1>5, <2>2, <2>3, <2>4, <2>5
<1>11. e \in [1..4 -> Digit \cup {"blank"}]
  BY <1>2, <1>10
<1> QED  BY <1>5, <1>6, <1>7, <1>8, <1>11 DEF e

(* Up to three digits have the value they are written for. *)
LEMMA NumberOfThree ==
  ASSUME NEW t, NEW l \in 1..3, Len(t) = l, \A k \in 1..l : t[k] \in Digit
  PROVE  Number(t) = IF l = 1 THEN ValueOf(t[1])
                     ELSE IF l = 2 THEN 10 * ValueOf(t[1]) + ValueOf(t[2])
                     ELSE 10 * (10 * ValueOf(t[1]) + ValueOf(t[2])) + ValueOf(t[3])
<1>1. PICK f : IsValue(f, t, l) /\ Number(t) = f[l]
  BY NumberIs
<1>2. \A n \in 0..l : f[n] = IF n = 0 THEN 0 ELSE 10 * f[n - 1] + ValueOf(t[n])
  BY <1>1 DEF IsValue
<1>3. \A k \in 1..l : ValueOf(t[k]) \in Nat  BY ValueOfDigit
<1>4. f[0] = 0
  <2>1. 0 \in 0..l  OBVIOUS
  <2> QED  BY <1>2, <2>1
<1>5. f[1] = ValueOf(t[1])
  <2>1. 1 \in 0..l /\ 1 \in 1..l /\ 1 - 1 = 0 /\ 1 # 0  OBVIOUS
  <2>2. f[1] = 10 * f[0] + ValueOf(t[1])  BY <1>2, <2>1
  <2> QED  BY <1>3, <1>4, <2>1, <2>2
<1>6. l # 1 => f[2] = 10 * ValueOf(t[1]) + ValueOf(t[2])
  <2>1. l # 1 => 2 \in 0..l  OBVIOUS
  <2>2. 2 - 1 = 1 /\ 2 # 0  OBVIOUS
  <2>3. l # 1 => f[2] = 10 * f[1] + ValueOf(t[2])  BY <1>2, <2>1, <2>2
  <2> QED  BY <1>5, <2>3
<1>7. l = 3 => f[3] = 10 * f[2] + ValueOf(t[3])
  <2>1. 3 - 1 = 2 /\ 3 # 0 /\ (l = 3 => 3 \in 0..l)  OBVIOUS
  <2> QED  BY <1>2, <2>1
<1>8. l = 1 \/ l = 2 \/ l = 3  OBVIOUS
<1> QED  BY <1>1, <1>5, <1>6, <1>7, <1>8

LEMMA FourBytes ==
  ASSUME NEW X, NEW h \in [1..4 -> X]
  PROVE  h \in Seq(X) /\ Len(h) = 4
<1>1. h \in Seq(X)
  <2> DEFINE n == 4
  <2>1. n \in Nat /\ h \in [1..n -> X]  OBVIOUS
  <2> HIDE DEF n
  <2> QED  BY <2>1, SeqDef
<1>2. Len(h) = 4
  <2>1. DOMAIN h = 1..Len(h) /\ Len(h) \in Nat  BY <1>1, LenProperties
  <2>2. DOMAIN h = 1..4  OBVIOUS
  <2>3. 4 \in 1..Len(h) /\ 5 \notin 1..Len(h)
    <3>1. 4 \in 1..4 /\ 5 \notin 1..4  OBVIOUS
    <3> QED  BY <2>1, <2>2, <3>1, Zenon
  <2> QED  BY <2>1, <2>3
<1> QED  BY <1>1, <1>2

(* atoi of b blanks and then digits. *)
LEMMA AtoiIs ==
  ASSUME NEW h \in [1..4 -> Digit \cup {"blank"}], NEW b \in 1..3,
         \A k \in 1..b : h[k] = "blank",
         \A k \in b + 1..4 : h[k] \in Digit
  PROVE  Atoi(h) =
           IF b = 3 THEN ValueOf(h[4])
           ELSE IF b = 2 THEN 10 * ValueOf(h[3]) + ValueOf(h[4])
           ELSE 10 * (10 * ValueOf(h[2]) + ValueOf(h[3])) + ValueOf(h[4])
<1> DEFINE X == Digit \cup {"blank"}
           t == After(h, {"blank"})
           l == 4 - b
<1>0. "blank" \notin Digit /\ "+" \notin Digit /\ "-" \notin Digit
  BY DEF Digit, Digits, Range
<1>1. h \in Seq(X) /\ Len(h) = 4  BY FourBytes
<1>2. Span(h, {"blank"}) = SubSeq(h, 1, b)
  <2>1. b \in 0..Len(h) /\ b + 1 \in b + 1..4  BY <1>1
  <2>2. h[b + 1] \notin {"blank"}  BY <1>0, <2>1
  <2>3. \A k \in 1..b : h[k] \in {"blank"}  OBVIOUS
  <2> HIDE DEF X
  <2> QED  BY <1>1, <2>1, <2>2, <2>3, SpanIs
<1>3. Len(Span(h, {"blank"})) = b
  <2>1. \A k \in 1..b : h[k] \in {"blank"}  OBVIOUS
  <2>2. Len(SubSeq(h, 1, b)) = IF 1 <= b THEN b - 1 + 1 ELSE 0
    BY <2>1, SubSeqProperties
  <2>3. 1 <= b /\ b - 1 + 1 = b  OBVIOUS
  <2> QED  BY <1>2, <2>2, <2>3
<1>4. t = SubSeq(h, b + 1, 4)  BY <1>1, <1>3 DEF After
<1>5. t \in Seq(Digit) /\ Len(t) = l /\ \A k \in 1..l : t[k] = h[b + k]
  <2>1. /\ SubSeq(h, b + 1, 4) \in Seq(Digit)
        /\ Len(SubSeq(h, b + 1, 4)) = IF b + 1 <= 4 THEN 4 - (b + 1) + 1 ELSE 0
        /\ \A k \in 1..4 - (b + 1) + 1 : SubSeq(h, b + 1, 4)[k] = h[b + 1 + k - 1]
    BY SubSeqProperties
  <2>2. /\ 4 - (b + 1) + 1 = l /\ b + 1 <= 4
        /\ \A k \in 1..l : b + 1 + k - 1 = b + k
    OBVIOUS
  <2> QED  BY <1>4, <2>1, <2>2
<1> HIDE DEF t
<1>6. l \in 1..3  OBVIOUS
<1>7. t # <<>> /\ Head(t) = t[1] /\ t[1] \in Digit
  <2>1. t # <<>>  BY <1>5, <1>6
  <2>2. 1 \in 1..l  BY <1>6
  <2> QED  BY <1>5, <2>1, <2>2, ElementOfSeq
<1>8. Span(t, Digit) = t
  <2>1. l \in 0..Len(t) /\ \A k \in 1..l : t[k] \in Digit
    BY <1>5, <1>6, ElementOfSeq
  <2>2. ~(l < Len(t))  BY <1>5, <1>6
  <2>3. Span(t, Digit) = SubSeq(t, 1, l)  BY <1>5, <2>1, <2>2, SpanIs
  <2> QED  BY <1>5, <2>3, SubSeqFull
<1>9. Atoi(h) = Number(t)
  BY <1>0, <1>7, <1>8 DEF Atoi, t
<1>10. Number(t) = IF l = 1 THEN ValueOf(t[1])
                   ELSE IF l = 2 THEN 10 * ValueOf(t[1]) + ValueOf(t[2])
                   ELSE 10 * (10 * ValueOf(t[1]) + ValueOf(t[2])) + ValueOf(t[3])
  <2>1. \A k \in 1..l : t[k] \in Digit  BY <1>5, ElementOfSeq
  <2> QED  BY <1>5, <1>6, <2>1, NumberOfThree
<1>11. CASE b = 3
  <2>1. l = 1 /\ 1 \in 1..l /\ b + 1 = 4  BY <1>11
  <2>2. t[1] = h[4]  BY <1>5, <2>1
  <2> QED  BY <1>9, <1>10, <1>11, <2>1, <2>2
<1>12. CASE b = 2
  <2>1. l = 2 /\ 1 \in 1..l /\ 2 \in 1..l /\ b + 1 = 3 /\ b + 2 = 4  BY <1>12
  <2>2. t[1] = h[3] /\ t[2] = h[4]  BY <1>5, <2>1
  <2>3. l # 1 /\ b # 3  BY <1>12
  <2> QED  BY <1>9, <1>10, <1>12, <2>1, <2>2, <2>3
<1>13. CASE b = 1
  <2>1. l = 3 /\ 1 \in 1..l /\ 2 \in 1..l /\ 3 \in 1..l
        /\ b + 1 = 2 /\ b + 2 = 3 /\ b + 3 = 4
    BY <1>13
  <2>2. t[1] = h[2] /\ t[2] = h[3] /\ t[3] = h[4]  BY <1>5, <2>1
  <2>3. l # 1 /\ l # 2 /\ b # 3 /\ b # 2  BY <1>13
  <2> QED  BY <1>9, <1>10, <2>2, <2>3
<1> QED  BY <1>11, <1>12, <1>13

(* What is encoded is decoded to the same. *)
THEOREM DecodedIsEncoded ==
  ASSUME NEW n \in Nat, n <= max_body_length
  PROVE  Decoded(Encode(n)) = n
<1> DEFINE h == Encode(n)
           C == (OtherByte \cup Digit \cup {"blank"}) \ {"nul"}
<1>0. n <= 512  BY DEF max_body_length
<1>1. /\ h \in [1..4 -> Digit \cup {"blank"}]
      /\ h[1] = "blank"
      /\ h[2] = IF n < 100 THEN "blank" ELSE DigitOf(n \div 100)
      /\ h[3] = IF n < 10 THEN "blank" ELSE DigitOf((n \div 10) % 10)
      /\ h[4] = DigitOf(n % 10)
  BY EncodedIs
<1> HIDE DEF h
<1>2. "nul" \notin Digit /\ "nul" # "blank"  BY DEF Digit, Digits, Range
<1>3. h \in Seq(Digit \cup {"blank"}) /\ Len(h) = 4  BY <1>1, FourBytes
<1>4. Span(h, C) = h
  <2>1. \A k \in 1..4 : h[k] \in C  BY <1>1, <1>2
  <2> HIDE DEF C
  <2>2. 4 \in 0..Len(h) /\ ~(4 < Len(h))  BY <1>3
  <2>3. Span(h, C) = SubSeq(h, 1, 4)  BY <1>3, <2>1, <2>2, SpanIs
  <2> QED  BY <1>3, <2>3, SubSeqFull
<1>5. Decoded(h) = Atoi(h) % 65536
  BY <1>4 DEF Decoded, AsSize
<1>6. \A m \in 0..9 : DigitOf(m) \in Digit /\ ValueOf(DigitOf(m)) = m
  BY ValueOfDigit DEF DigitOf
<1>7. /\ n \div 100 \in 0..9 /\ (n \div 10) % 10 \in 0..9 /\ n % 10 \in 0..9
  BY <1>0
<1>8. h[4] \in Digit /\ ValueOf(h[4]) = n % 10  BY <1>1, <1>6, <1>7
<1>9. n >= 10 => h[3] \in Digit /\ ValueOf(h[3]) = (n \div 10) % 10
  BY <1>1, <1>6, <1>7
<1>10. n >= 100 => h[2] \in Digit /\ ValueOf(h[2]) = n \div 100
  BY <1>1, <1>6, <1>7
<1>11. Atoi(h) = n
  <2>1. CASE n < 10
    <3>1. h[2] = "blank" /\ h[3] = "blank"  BY <1>1, <2>1
    <3>2. \A k \in 1..3 : k = 1 \/ k = 2 \/ k = 3  OBVIOUS
    <3>3. \A k \in 3 + 1..4 : k = 4  OBVIOUS
    <3>4. Atoi(h) = ValueOf(h[4])
      <4>1. 3 \in 1..3 /\ \A k \in 1..3 : h[k] = "blank"  BY <1>1, <3>1, <3>2
      <4>2. \A k \in 3 + 1..4 : h[k] \in Digit  BY <1>8, <3>3
      <4> QED  BY <1>1, <4>1, <4>2, AtoiIs
    <3> QED  BY <1>8, <2>1, <3>4
  <2>2. CASE n >= 10 /\ n < 100
    <3>1. h[2] = "blank"  BY <1>1, <2>2
    <3>2. \A k \in 1..2 : k = 1 \/ k = 2  OBVIOUS
    <3>3. \A k \in 2 + 1..4 : k = 3 \/ k = 4  OBVIOUS
    <3>4. Atoi(h) = 10 * ValueOf(h[3]) + ValueOf(h[4])
      <4>1. 2 \in 1..3 /\ 2 # 3 /\ \A k \in 1..2 : h[k] = "blank"  BY <1>1, <3>1, <3>2
      <4>2. \A k \in 2 + 1..4 : h[k] \in Digit  BY <1>8, <1>9, <2>2, <3>3
      <4> QED  BY <1>1, <4>1, <4>2, AtoiIs
    <3>5. 10 * ((n \div 10) % 10) + (n % 10) = n  BY <2>2
    <3> QED  BY <1>8, <1>9, <2>2, <3>4, <3>5
  <2>3. CASE n >= 100
    <3>1. n >= 10  BY <2>3
    <3>2. \A k \in 1..1 : k = 1  OBVIOUS
    <3>3. \A k \in 1 + 1..4 : k = 2 \/ k = 3 \/ k = 4  OBVIOUS
    <3>4. Atoi(h) = 10 * (10 * ValueOf(h[2]) + ValueOf(h[3])) + ValueOf(h[4])
      <4>1. 1 \in 1..3 /\ 1 # 3 /\ 1 # 2 /\ \A k \in 1..1 : h[k] = "blank"  BY <1>1, <3>2
      <4>2. \A k \in 1 + 1..4 : h[k] \in Digit  BY <1>8, <1>9, <1>10, <2>3, <3>1, <3>3
      <4> QED  BY <1>1, <4>1, <4>2, AtoiIs
    <3>5. 10 * (10 * (n \div 100) + ((n \div 10) % 10)) + (n % 10) = n  BY <1>0
    <3> QED  BY <1>8, <1>9, <1>10, <2>3, <3>1, <3>4, <3>5
  <2> QED  BY <2>1, <2>2, <2>3
<1>12. n % 65536 = n  BY <1>0
<1> QED  BY <1>5, <1>11, <1>12 DEF h

-----------------------------------------------------------------------------
(* Writer and reader.  What a client has written lies without gaps, and the  *)
(* reader is at the beginning of a message or behind its header.             *)

Message == [header : [1..4 -> HeaderByte], from : Nat, length : Nat,
            line : 0..max_body_length]
Frame == Message \cup [header : [1..4 -> HeaderByte], from : Nat, length : Nat]

(* What any header leaves is a length data_ has room for. *)
FrameTypeOK ==
  /\ peer \in {"client", "other"} /\ typing \in BOOLEAN
  /\ frames \in Seq(Frame)
  /\ reader \in {"header", "body", "closed"}
  /\ body_length \in 0..max_body_length /\ at \in Nat
  /\ read \in Seq(Nat)
  /\ reader = "closed" => body_length = 0

IsMessage(f) ==
  /\ f \in Message /\ f.header = Encode(f.line) /\ f.length = Length(f.line)

(* One after the other, from the first byte on. *)
WithoutGaps ==
  /\ \A k \in 1..Len(frames) : IsMessage(frames[k])
  /\ \A k \in 1..Len(frames) : k < Len(frames) =>
       frames[k + 1].from = frames[k].from + frames[k].length
  /\ \A j, k \in 1..Len(frames) :
       j < k => frames[j].from + frames[j].length <= frames[k].from

(* Read was what was typed, as far as the reader has got. *)
Reads ==
  /\ Len(read) <= Len(frames)
  /\ \A i \in 1..Len(read) : read[i] = frames[i].line
  /\ reader \in {"header", "body"}
  /\ reader = "header" => at = StartOf(Len(read) + 1)
  /\ reader = "body" =>
       /\ Len(read) + 1 \in 1..Len(frames)
       /\ at = frames[Len(read) + 1].from + header_length
       /\ body_length = frames[Len(read) + 1].line

FrameInv == FrameTypeOK /\ (peer = "client" => WithoutGaps /\ Reads)

LEMMA Limits ==
  /\ header_length = 4 /\ header_length \in Nat
  /\ max_body_length \in Nat
  /\ \A n \in Nat : n \in 0..max_body_length <=> n <= max_body_length
  /\ \A n \in 0..max_body_length : n \in Nat
<1>1. header_length = 4  BY DEF header_length
<1>2. max_body_length \in Nat  BY DEF max_body_length
<1> QED  BY <1>1, <1>2

LEMMA Before ==
  \A n \in Nat : \A k \in 1..n : k # n => k < n /\ k + 1 \in 1..n
OBVIOUS

LEMMA FramesAre ==
  ASSUME FrameTypeOK
  PROVE  /\ Len(frames) \in Nat /\ Len(read) \in Nat
         /\ DOMAIN frames = 1..Len(frames)
         /\ \A k \in 1..Len(frames) : frames[k] \in Frame
         /\ Written \in Nat
         /\ Len(frames) # 0
              => Written = frames[Len(frames)].from + frames[Len(frames)].length
         /\ Len(frames) = 0 => Written = 0
<1>1. /\ Len(frames) \in Nat /\ Len(read) \in Nat
      /\ DOMAIN frames = 1..Len(frames)
      /\ \A k \in 1..Len(frames) : frames[k] \in Frame
  BY LenProperties, ElementOfSeq DEF FrameTypeOK
<1>2. frames = <<>> <=> Len(frames) = 0
  BY EmptySeq DEF FrameTypeOK
<1>3. CASE Len(frames) = 0
  BY <1>1, <1>2, <1>3 DEF Written
<1>4. CASE Len(frames) # 0
  <2>1. Len(frames) \in 1..Len(frames)  BY <1>1, <1>4
  <2>2. frames[Len(frames)].from \in Nat /\ frames[Len(frames)].length \in Nat
    BY <1>1, <2>1 DEF Frame, Message
  <2>3. Written = frames[Len(frames)].from + frames[Len(frames)].length
    BY <1>2, <1>4 DEF Written, Last
  <2> QED  BY <1>1, <1>4, <2>2, <2>3
<1> QED  BY <1>1, <1>3, <1>4

LEMMA FrameBegins == FrameInit => FrameInv
<1> SUFFICES ASSUME FrameInit PROVE FrameInv  OBVIOUS
<1>0. /\ peer \in {"client", "other"} /\ typing = TRUE /\ frames = <<>>
      /\ reader = "header" /\ body_length = 0 /\ at = 0 /\ read = <<>>
  BY DEF FrameInit
<1>1. FrameTypeOK
  BY <1>0 DEF FrameTypeOK, max_body_length
<1>2. Len(frames) = 0 /\ Len(read) = 0 /\ Written = 0 /\ DOMAIN frames = 1..0
  BY <1>0, <1>1, FramesAre
<1>3. WithoutGaps
  BY <1>2 DEF WithoutGaps
<1>4. StartOf(Len(read) + 1) = 0
  <2>1. Len(read) + 1 \notin 1..0  BY <1>2
  <2> QED  BY <1>2, <2>1 DEF StartOf
<1>5. Reads
  BY <1>0, <1>2, <1>4 DEF Reads
<1> QED  BY <1>1, <1>3, <1>5 DEF FrameInv

(* A message more. *)
LEMMA OneMoreFrame ==
  ASSUME FrameTypeOK, NEW f \in Frame, f.from = Written, frames' = Append(frames, f),
         UNCHANGED <<peer, reader, body_length, at, read>>
  PROVE  /\ frames' \in Seq(Frame) /\ Len(frames') = Len(frames) + 1
         /\ \A k \in 1..Len(frames) : frames'[k] = frames[k]
         /\ frames'[Len(frames) + 1] = f
         /\ \A k \in 1..Len(frames) + 1 : StartOf(k)' = StartOf(k)
<1>1. /\ frames' \in Seq(Frame) /\ Len(frames') = Len(frames) + 1
      /\ \A k \in 1..Len(frames) : frames'[k] = frames[k]
      /\ frames'[Len(frames) + 1] = f
  BY AppendProperties DEF FrameTypeOK
<1>2. /\ DOMAIN frames = 1..Len(frames) /\ Len(frames) \in Nat
      /\ DOMAIN frames' = 1..Len(frames) + 1
  BY <1>1, FramesAre, LenProperties
<1>3. ASSUME NEW k \in 1..Len(frames) + 1 PROVE StartOf(k)' = StartOf(k)
  <2>1. StartOf(k)' = frames'[k].from
    BY <1>2, <1>3 DEF StartOf
  <2>2. CASE k \in 1..Len(frames)
    BY <1>1, <1>2, <2>1, <2>2 DEF StartOf
  <2>3. CASE k = Len(frames) + 1
    <3>1. k \notin 1..Len(frames)  BY <1>2, <2>3
    <3>2. StartOf(k) = Written  BY <1>2, <3>1 DEF StartOf
    <3> QED  BY <1>1, <2>1, <2>3, <3>2
  <2> QED  BY <1>2, <2>2, <2>3
<1> QED  BY <1>1, <1>3

LEMMA SendLineStep ==
  ASSUME FrameInv, NEW n \in LineLength, SendLine(n)
  PROVE  FrameInv'
<1>0. /\ FrameTypeOK /\ WithoutGaps /\ Reads /\ peer = "client" /\ n \in Nat
      /\ UNCHANGED <<peer, reader, body_length, at, read>>
  BY ConstantsAssumption DEF FrameInv, SendLine
<1>1. CASE n > max_body_length
  <2>1. frames' = frames /\ typing' = FALSE
    <3>1. ~(n <= max_body_length)  BY <1>0, <1>1, Limits
    <3> QED  BY <1>1, <3>1 DEF SendLine
  <2>2. FrameTypeOK'  BY <1>0, <2>1 DEF FrameTypeOK
  <2>3. WithoutGaps' /\ Reads'
    BY <1>0, <2>1 DEF WithoutGaps, Reads, StartOf, Written
  <2> QED  BY <2>2, <2>3 DEF FrameInv
<1>2. CASE n <= max_body_length
  <2> DEFINE f == [header |-> Encode(n), from |-> Written, length |-> Length(n), line |-> n]
             l == Len(frames)
  <2>1. frames' = Append(frames, f) /\ typing' = typing
    <3>1. ~(n > max_body_length)  BY <1>0, <1>2, Limits
    <3>2. Limited(n) = n  BY <3>1 DEF Limited
    <3> QED  BY <1>2, <3>1, <3>2 DEF SendLine
  <2>2. /\ l \in Nat /\ DOMAIN frames = 1..l /\ Written \in Nat
        /\ l # 0 => Written = frames[l].from + frames[l].length
    BY <1>0, FramesAre
  <2>3. IsMessage(f) /\ f \in Frame /\ f.from = Written
    <3>1. Encode(n) \in [1..4 -> HeaderByte]
      BY <1>0, <1>2, EncodedIs DEF HeaderByte
    <3>2. Length(n) \in Nat /\ n \in 0..max_body_length
      BY <1>0, <1>2 DEF Length, header_length, max_body_length
    <3> QED  BY <2>2, <3>1, <3>2 DEF IsMessage, Frame, Message
  <2> HIDE DEF f
  <2>4. /\ frames' \in Seq(Frame) /\ Len(frames') = l + 1
        /\ \A k \in 1..l : frames'[k] = frames[k]
        /\ frames'[l + 1] = f
        /\ \A k \in 1..l + 1 : StartOf(k)' = StartOf(k)
    BY <1>0, <2>1, <2>3, OneMoreFrame
  <2>5. FrameTypeOK'  BY <1>0, <2>1, <2>4 DEF FrameTypeOK
  <2>6. \A k \in 1..l + 1 : k \in 1..l \/ k = l + 1  BY <2>2
  <2>7. \A k \in 1..l : IsMessage(frames[k]) /\ frames[k].from \in Nat
                        /\ frames[k].length \in Nat
    BY <1>0 DEF WithoutGaps, IsMessage, Message
  <2>8. \A k \in 1..l : frames[k].from + frames[k].length <= Written
    <3> TAKE k \in 1..l
    <3>1. l \in 1..l /\ l # 0  BY <2>2
    <3>2. CASE k = l  BY <2>2, <2>7, <3>1, <3>2
    <3>3. CASE k # l
      <4>1. k < l  BY <2>2, <3>3, Before
      <4>2. frames[k].from + frames[k].length <= frames[l].from
        BY <1>0, <3>1, <4>1 DEF WithoutGaps
      <4> QED  BY <2>2, <2>7, <3>1, <4>2
    <3> QED  BY <3>2, <3>3
  <2>9. WithoutGaps'
    <3>1. \A k \in 1..l + 1 : IsMessage(frames'[k])
      BY <2>3, <2>4, <2>6, <2>7
    <3>2. ASSUME NEW k \in 1..l + 1, k < l + 1
          PROVE  frames'[k + 1].from = frames'[k].from + frames'[k].length
      <4>1. k \in 1..l /\ (k = l \/ (k < l /\ k + 1 \in 1..l)) /\ k \in Nat
        BY <2>2, <3>2
      <4>2. CASE k = l
        <5>1. l # 0  BY <4>1, <4>2
        <5> QED  BY <2>2, <2>3, <2>4, <4>1, <4>2, <5>1
      <4>3. CASE k < l /\ k + 1 \in 1..l
        <5>1. frames[k + 1].from = frames[k].from + frames[k].length
          BY <1>0, <4>1, <4>3 DEF WithoutGaps
        <5> QED  BY <2>4, <4>1, <4>3, <5>1
      <4> QED  BY <4>1, <4>2, <4>3
    <3>3. ASSUME NEW j \in 1..l + 1, NEW k \in 1..l + 1, j < k
          PROVE  frames'[j].from + frames'[j].length <= frames'[k].from
      <4>1. j \in 1..l  BY <2>2, <3>3
      <4>2. CASE k = l + 1
        BY <2>3, <2>4, <2>8, <4>1, <4>2
      <4>3. CASE k \in 1..l
        BY <1>0, <2>4, <3>3, <4>1, <4>3 DEF WithoutGaps
      <4> QED  BY <2>6, <4>2, <4>3
    <3> QED  BY <2>4, <3>1, <3>2, <3>3 DEF WithoutGaps
  <2>10. Reads'
    <3>1. Len(read) \in Nat /\ Len(read) <= l /\ Len(read) + 1 \in 1..l + 1
      <4>1. Len(read) \in Nat /\ Len(read) <= l  BY <1>0, FramesAre DEF Reads
      <4> QED  BY <2>2, <4>1
    <3>2. \A i \in 1..Len(read) : i \in 1..l  BY <2>2, <3>1
    <3>3. \A i \in 1..Len(read) : read'[i] = frames'[i].line
      BY <1>0, <2>4, <3>2 DEF Reads
    <3>4. reader = "header" => at' = StartOf(Len(read) + 1)'
      BY <1>0, <2>4, <3>1 DEF Reads
    <3>5. reader = "body" =>
            /\ Len(read) + 1 \in 1..l + 1
            /\ at' = frames'[Len(read) + 1].from + header_length
            /\ body_length' = frames'[Len(read) + 1].line
      BY <1>0, <2>4, <3>1 DEF Reads
    <3>6. Len(read) <= l + 1  BY <2>2, <3>1
    <3> QED  BY <1>0, <2>4, <3>3, <3>4, <3>5, <3>6 DEF Reads
  <2> QED  BY <2>5, <2>9, <2>10 DEF FrameInv
<1>3. n > max_body_length \/ n <= max_body_length
  BY <1>0 DEF max_body_length
<1> QED  BY <1>1, <1>2, <1>3

LEMMA SendOtherStep ==
  ASSUME FrameInv, NEW h \in Headers, SendOther(h)
  PROVE  FrameInv'
<1> DEFINE f == [header |-> h, from |-> Written, length |-> Length(max_body_length)]
<1>0. /\ FrameTypeOK /\ peer = "other" /\ frames' = Append(frames, f) /\ typing' = FALSE
      /\ UNCHANGED <<peer, reader, body_length, at, read>>
  BY DEF FrameInv, SendOther
<1>1. f \in Frame /\ f.from = Written
  <2>1. Written \in Nat  BY <1>0, FramesAre
  <2>2. h \in [1..4 -> HeaderByte]  BY DEF Headers, HeaderByte, header_length
  <2>3. Length(max_body_length) \in Nat
    BY DEF Length, header_length, max_body_length
  <2> QED  BY <2>1, <2>2, <2>3 DEF Frame
<1> HIDE DEF f
<1>2. frames' \in Seq(Frame)  BY <1>0, <1>1, OneMoreFrame
<1> QED  BY <1>0, <1>2 DEF FrameInv, FrameTypeOK

LEMMA ReadHeaderStep ==
  ASSUME FrameInv, ReadHeader
  PROVE  FrameInv'
<1>0. /\ FrameTypeOK /\ reader = "header" /\ at + header_length <= Written
      /\ at' = at + header_length
      /\ UNCHANGED <<peer, typing, frames, read>>
      /\ Len(frames) \in Nat /\ Len(read) \in Nat /\ DOMAIN frames = 1..Len(frames)
  BY FramesAre DEF FrameInv, ReadHeader
<1>1. PICK k \in 1..Len(frames) :
        /\ StartOf(k) = at
        /\ \/ /\ Decoded(frames[k].header) > max_body_length
              /\ body_length' = 0 /\ reader' = "closed"
           \/ /\ Decoded(frames[k].header) <= max_body_length
              /\ body_length' = Decoded(frames[k].header) /\ reader' = "body"
  BY DEF ReadHeader
<1>2. FrameTypeOK'
  <2>1. frames[k].header \in [1..header_length -> HeaderByte]
    <3>1. frames[k] \in Frame  BY <1>0, FramesAre
    <3> QED  BY <3>1 DEF Frame, Message, header_length
  <2>2. Decoded(frames[k].header) \in Nat  BY <2>1, DecodedIsSize
  <2>3. body_length' \in 0..max_body_length
        /\ reader' \in {"body", "closed"} /\ (reader' = "closed" => body_length' = 0)
    <3> DEFINE d == Decoded(frames[k].header)
    <3>1. d \in Nat  BY <2>2
    <3>2. \/ body_length' = 0 /\ reader' = "closed"
          \/ d <= max_body_length /\ body_length' = d /\ reader' = "body"
      BY <1>1
    <3> HIDE DEF d
    <3>3. 0 \in 0..max_body_length  BY Limits
    <3> QED  BY <3>1, <3>2, <3>3, Limits
  <2>4. at' \in Nat  BY <1>0 DEF FrameTypeOK, header_length
  <2> QED  BY <1>0, <2>3, <2>4 DEF FrameTypeOK
<1>3. ASSUME peer = "client"
      PROVE  WithoutGaps' /\ Reads'
  <2> DEFINE j == Len(read) + 1
  <2>0. WithoutGaps /\ Reads /\ at = StartOf(j) /\ Len(read) <= Len(frames)
    BY <1>0, <1>3 DEF FrameInv, Reads
  <2>1. j \in 1..Len(frames)
    <3>1. j \in 1..Len(frames) \/ j \notin 1..Len(frames)  OBVIOUS
    <3>2. j \notin 1..Len(frames) => at = Written
      BY <1>0, <2>0 DEF StartOf
    <3>3. at \in Nat /\ Written \in Nat /\ header_length = 4
      BY <1>0, FramesAre DEF FrameTypeOK, header_length
    <3>4. at # Written  BY <1>0, <3>3
    <3> QED  BY <3>2, <3>4
  <2>2. at = frames[j].from /\ at = frames[k].from
    BY <1>0, <1>1, <2>0, <2>1 DEF StartOf
  <2>3. k = j
    <3>1. /\ frames[j].from \in Nat /\ frames[j].length \in Nat /\ frames[j].length # 0
          /\ frames[k].from \in Nat /\ frames[k].length \in Nat /\ frames[k].length # 0
      <4>1. IsMessage(frames[j]) /\ IsMessage(frames[k])
        BY <2>0, <2>1 DEF WithoutGaps
      <4>2. \A m \in 0..max_body_length : Length(m) \in Nat /\ Length(m) # 0
        BY DEF Length, header_length, max_body_length
      <4> QED  BY <4>1, <4>2 DEF IsMessage, Message
    <3>2. j < k => frames[j].from + frames[j].length <= frames[k].from
      BY <2>0, <2>1 DEF WithoutGaps
    <3>3. k < j => frames[k].from + frames[k].length <= frames[j].from
      BY <2>0, <2>1 DEF WithoutGaps
    <3>4. ~(j < k) /\ ~(k < j)
      BY <2>2, <3>1, <3>2, <3>3
    <3> QED  BY <1>0, <2>1, <3>4
  <2>4. Decoded(frames[j].header) = frames[j].line
        /\ frames[j].line \in 0..max_body_length
    <3>1. IsMessage(frames[j])  BY <2>0, <2>1 DEF WithoutGaps
    <3>2. frames[j].header = Encode(frames[j].line) /\ frames[j].line \in 0..max_body_length
      BY <3>1 DEF IsMessage, Message
    <3>3. frames[j].line \in Nat /\ frames[j].line <= max_body_length
      BY <3>2, Limits
    <3> QED  BY <3>2, <3>3, DecodedIsEncoded
  <2>5. reader' = "body" /\ body_length' = frames[j].line
    <3>1. ~(frames[j].line > max_body_length)  BY <2>4, Limits
    <3> QED  BY <1>1, <2>3, <2>4, <3>1
  <2>6. WithoutGaps'
    BY <1>0, <2>0 DEF WithoutGaps
  <2>7. Reads'
    BY <1>0, <2>0, <2>1, <2>2, <2>5 DEF Reads
  <2> QED  BY <2>6, <2>7
<1> QED  BY <1>0, <1>2, <1>3 DEF FrameInv

LEMMA ReadBodyStep ==
  ASSUME FrameInv, ReadBody
  PROVE  FrameInv'
<1>0. /\ FrameTypeOK /\ reader = "body" /\ reader' = "header"
      /\ at' = at + body_length /\ read' = Append(read, body_length)
      /\ UNCHANGED <<peer, typing, frames, body_length>>
      /\ body_length \in Nat /\ at \in Nat /\ read \in Seq(Nat)
      /\ Len(frames) \in Nat /\ Len(read) \in Nat /\ DOMAIN frames = 1..Len(frames)
  <2>1. FrameTypeOK  BY DEF FrameInv
  <2>2. body_length \in Nat  BY <2>1, Limits DEF FrameTypeOK
  <2> QED  BY <2>1, <2>2, FramesAre DEF ReadBody, FrameTypeOK
<1>1. /\ read' \in Seq(Nat) /\ Len(read') = Len(read) + 1
      /\ \A i \in 1..Len(read) : read'[i] = read[i]
      /\ read'[Len(read) + 1] = body_length
  BY <1>0, AppendProperties
<1>2. FrameTypeOK'
  BY <1>0, <1>1 DEF FrameTypeOK
<1>3. ASSUME peer = "client"
      PROVE  WithoutGaps' /\ Reads'
  <2> DEFINE j == Len(read) + 1
             l == Len(frames)
  <2>0. /\ WithoutGaps /\ Reads
        /\ j \in 1..l /\ at = frames[j].from + header_length
        /\ body_length = frames[j].line
    BY <1>0, <1>3 DEF FrameInv, Reads
  <2>1. /\ frames[j].from \in Nat /\ frames[j].length = header_length + frames[j].line
        /\ frames[j].line \in Nat
    <3>1. IsMessage(frames[j])  BY <2>0 DEF WithoutGaps
    <3> QED  BY <3>1, Limits DEF IsMessage, Message, Length
  <2>2. at' = frames[j].from + frames[j].length
    <3>1. header_length \in Nat  BY DEF header_length
    <3>2. \A a, b, c \in Nat : (a + b) + c = a + (b + c)  OBVIOUS
    <3>3. at' = (frames[j].from + header_length) + frames[j].line
      BY <1>0, <2>0
    <3> HIDE DEF j
    <3> QED  BY <2>1, <3>1, <3>2, <3>3
  <2>3. StartOf(j + 1) = frames[j].from + frames[j].length
    <3>1. CASE j = l
      <4>1. j + 1 \notin 1..l /\ l # 0  BY <1>0, <3>1
      <4>2. StartOf(j + 1) = Written  BY <1>0, <4>1 DEF StartOf
      <4> QED  BY <1>0, <3>1, <4>1, <4>2, FramesAre
    <3>2. CASE j # l
      <4>1. j < l /\ j + 1 \in 1..l  BY <1>0, <2>0, <3>2, Before
      <4>2. frames[j + 1].from = frames[j].from + frames[j].length
        BY <2>0, <4>1 DEF WithoutGaps
      <4> QED  BY <1>0, <4>1, <4>2 DEF StartOf
    <3> QED  BY <3>1, <3>2
  <2>4. at' = StartOf(Len(read) + 1)'
    <3>1. \A m \in Nat : StartOf(m)' = StartOf(m)
      <4> TAKE m \in Nat
      <4> QED  BY <1>0 DEF StartOf, Written
    <3>2. Len(read') + 1 = j + 1 /\ j + 1 \in Nat  BY <1>0, <1>1
    <3>3. StartOf(Len(read) + 1)' = StartOf(j + 1)
      BY <1>0, <3>2 DEF StartOf, Written
    <3> QED  BY <2>2, <2>3, <3>3
  <2>5. \A i \in 1..Len(read') : read'[i] = frames'[i].line
    <3> TAKE i \in 1..Len(read')
    <3>1. i \in 1..Len(read) \/ i = j  BY <1>0, <1>1
    <3> QED  BY <1>0, <1>1, <2>0, <3>1 DEF Reads
  <2>6. Len(read') <= Len(frames')  BY <1>0, <1>1, <2>0
  <2>7. WithoutGaps'
    BY <1>0, <2>0 DEF WithoutGaps
  <2> QED  BY <1>0, <2>4, <2>5, <2>6, <2>7 DEF Reads
<1> QED  BY <1>0, <1>2, <1>3 DEF FrameInv

LEMMA FrameInvStep == FrameInv /\ [FrameNext]_frameVars => FrameInv'
<1> SUFFICES ASSUME FrameInv, [FrameNext]_frameVars PROVE FrameInv'  OBVIOUS
<1>1. CASE UNCHANGED frameVars
  BY <1>1
  DEF FrameInv, FrameTypeOK, WithoutGaps, Reads, StartOf, Written, frameVars
<1> QED
  BY <1>1, SendLineStep, SendOtherStep, ReadHeaderStep, ReadBodyStep DEF FrameNext

(* Whatever comes for a header, the length that decode_header leaves is one  *)
(* for which data_ has room.                                                 *)
THEOREM EveryHeaderFits == FrameSpec => []FitsBuffer
<1>1. FrameInv => FitsBuffer
  BY DEF FrameInv, FrameTypeOK, FitsBuffer
<1> QED  BY <1>1, FrameBegins, FrameInvStep, PTL DEF FrameSpec

(* Lines of any length and number are read as they were typed: the reader    *)
(* takes for a header what was written as one, and nothing else.             *)
THEOREM ReaderKeepsStep == FrameSpec => []InStep
<1>1. FrameInv => InStep
  <2> SUFFICES ASSUME FrameInv, peer = "client"
               PROVE  /\ read = [i \in 1..Len(read) |-> frames[i].line]
                      /\ at = StartOf(Len(read) + 1)
                               + IF reader = "body" THEN header_length ELSE 0
                      /\ reader # "closed"
                      /\ reader = "body" => at + body_length = StartOf(Len(read) + 2)
    BY DEF InStep
  <2>0. /\ FrameTypeOK /\ WithoutGaps /\ Reads
        /\ Len(frames) \in Nat /\ Len(read) \in Nat /\ DOMAIN frames = 1..Len(frames)
        /\ at \in Nat /\ read \in Seq(Nat)
    BY FramesAre DEF FrameInv, FrameTypeOK
  <2>1. read = [i \in 1..Len(read) |-> frames[i].line]
    <3>1. read = [i \in 1..Len(read) |-> read[i]]  BY <2>0
    <3> QED  BY <2>0, <3>1 DEF Reads
  <2>2. reader \in {"header", "body"}  BY <2>0 DEF Reads
  <2>3. CASE reader = "header"
    <3>1. at = StartOf(Len(read) + 1)  BY <2>0, <2>3 DEF Reads
    <3> QED  BY <2>0, <2>1, <2>3, <3>1
  <2>4. CASE reader = "body"
    <3> DEFINE j == Len(read) + 1
               l == Len(frames)
    <3>1. /\ j \in 1..l /\ at = frames[j].from + header_length
          /\ body_length = frames[j].line
      BY <2>0, <2>4 DEF Reads
    <3>2. StartOf(j) = frames[j].from  BY <2>0, <3>1 DEF StartOf
    <3>3. /\ frames[j].from \in Nat /\ frames[j].length = header_length + frames[j].line
          /\ frames[j].line \in Nat
      <4>1. IsMessage(frames[j])  BY <2>0, <3>1 DEF WithoutGaps
      <4> QED  BY <4>1, Limits DEF IsMessage, Message, Length
    <3>4. StartOf(j + 1) = frames[j].from + frames[j].length
      <4>1. CASE j = l
        <5>1. j + 1 \notin 1..l /\ l # 0  BY <2>0, <4>1
        <5>2. StartOf(j + 1) = Written  BY <2>0, <5>1 DEF StartOf
        <5> QED  BY <2>0, <4>1, <5>1, <5>2, FramesAre
      <4>2. CASE j # l
        <5>1. j < l /\ j + 1 \in 1..l  BY <2>0, <3>1, <4>2, Before
        <5>2. frames[j + 1].from = frames[j].from + frames[j].length
          BY <2>0, <5>1, <3>1 DEF WithoutGaps
        <5> QED  BY <2>0, <5>1, <5>2 DEF StartOf
      <4> QED  BY <4>1, <4>2
    <3>5. at + body_length = StartOf(j + 1) /\ j + 1 = Len(read) + 2
      BY <2>0, <3>1, <3>3, <3>4 DEF header_length
    <3> QED  BY <2>0, <2>1, <2>4, <3>1, <3>2, <3>5
  <2> QED  BY <2>2, <2>3, <2>4
<1> QED  BY <1>1, FrameBegins, FrameInvStep, PTL DEF FrameSpec
=============================================================================
