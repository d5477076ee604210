--------------------------- MODULE HttpServer_proof ---------------------------
(***************************************************************************)
(* What is proved of HttpServer for any pool of threads and any clients:   *)
(* its types, and that nobody touches a connection or the acceptor while   *)
(* another does.                                                           *)
(*                                                                         *)
(* And of FileHandler, for uris, files and buffers of any length: that a   *)
(* uri is decoded to what it encodes, that what is opened is a proper      *)
(* path, that a file is answered whole, and that every reply says what it  *)
(* is.  A uri is its units laid out one behind the other; the handler is   *)
(* always at the end of one.                                               *)
(***************************************************************************)
EXTENDS HttpServer, FileHandler, SequenceTheorems, FiniteSetTheorems,
        WellFoundedInduction, TLAPS

-----------------------------------------------------------------------------
(* The inductive invariant. *)

(* Nothing of x is under way, waits or runs. *)
Idle(x) ==
  /\ \A o \in outstanding : o.of # x
  /\ \A k \in 1..Len(ready) : ready[k].of # x
  /\ \A t \in Thread : running[t].of # x

(* A thread has still to use x, or to start its next operation. *)
Touches(t, x) == running[t].of = x /\ todo[t] # <<>>

(* One thing of x at most does: of each of the three, and of two of them. *)
Single(x) ==
  /\ \A o, p \in outstanding : o.of = x /\ p.of = x => o = p
  /\ \A k, j \in 1..Len(ready) : ready[k].of = x /\ ready[j].of = x => k = j
  /\ \A t, u \in Thread : Touches(t, x) /\ Touches(u, x) => t = u
  /\ \A o \in outstanding, k \in 1..Len(ready) : ~(o.of = x /\ ready[k].of = x)
  /\ \A o \in outstanding, t \in Thread : ~(o.of = x /\ Touches(t, x))
  /\ \A k \in 1..Len(ready), t \in Thread : ~(ready[k].of = x /\ Touches(t, x))

(* A thread that runs no handler has none. *)
Resting ==
  \A t \in Thread : thread[t] # "busy" => running[t] = Nothing /\ todo[t] = <<>>

(* A connection that is not open, yet or any more, has nothing under way. *)
OnlyOpen == \A c \in Peer : connection[c] # "open" => Idle(c)

Owner == Peer \cup {"acceptor"}

IInv == TypeOK /\ Resting /\ OnlyOpen /\ \A x \in Owner : Single(x)
-----------------------------------------------------------------------------
LEMMA OperationIs ==
  ASSUME NEW o \in Operations
  PROVE  /\ o.do \in {"wait", "accept", "read", "write"}
         /\ o.do = "wait" => o.of = "signals"
         /\ o.do = "accept" => o.of = "acceptor"
         /\ o.do \in {"read", "write"} => o.of \in Peer
         /\ o = Operation(o.do, o.of)
BY DEF Operations, Operation, Wait, Accept

LEMMA OutcomeIs ==
  ASSUME NEW h \in Outcomes
  PROVE  /\ h.do \in {"wait", "accept", "read", "write"}
         /\ h.do = "wait" => h.of = "signals"
         /\ h.do = "accept" => h.of = "acceptor"
         /\ h.do \in {"read", "write"} => h.of \in Peer
         /\ h.ok \in BOOLEAN
<1>1. PICK o \in Operations, ok \in BOOLEAN : h = Outcome(o, ok)
  BY DEF Outcomes
<1>. QED
  BY <1>1, OperationIs DEF Outcome

LEMMA OperationMade ==
  /\ Wait \in Operations /\ Accept \in Operations
  /\ Wait.of = "signals" /\ Accept.of = "acceptor"
  /\ \A c \in Peer : /\ Operation("read", c) \in Operations
                     /\ Operation("write", c) \in Operations
                     /\ Operation("read", c).of = c /\ Operation("write", c).of = c
<1>1. /\ Wait \in Operations /\ Accept \in Operations
      /\ Wait.of = "signals" /\ Accept.of = "acceptor"
  BY DEF Operations, Operation, Wait, Accept
<1>2. ASSUME NEW c \in Peer, NEW do \in {"read", "write"}
      PROVE  Operation(do, c) \in Operations /\ Operation(do, c).of = c
  BY DEF Operations, Operation
<1>. QED
  BY <1>1, <1>2

LEMMA NothingIs ==
  /\ Nothing.of = "nobody" /\ Nothing.do = "nothing"
  /\ "nobody" \notin Owner /\ "signals" \notin Owner /\ "acceptor" \notin Peer
BY PeerAssumption DEF Nothing, Outcome, Operation, Owner

(* What a handler still has to do. *)
Rest == {<<>>, <<"use">>, <<"start">>, <<"use", "start">>}

LEMMA TailOfTwo ==
  ASSUME NEW X, NEW a \in X, NEW b \in X
  PROVE  /\ Head(<<a, b>>) = a /\ Tail(<<a, b>>) = <<b>>
         /\ Head(<<b>>) = b /\ Tail(<<b>>) = <<>>
<1>. DEFINE s == <<a, b>>
            t == Tail(s)
<1>1. s \in Seq(X) /\ Len(s) = 2 /\ s # <<>> /\ s[1] = a /\ s[2] = b
  OBVIOUS
<1>2. Head(s) = s[1]
  BY <1>1
<1>. HIDE DEF s
<1>3. t \in Seq(X) /\ Len(t) = 2 - 1 /\ \A k \in 1..Len(t) : t[k] = s[k + 1]
  BY <1>1, HeadTailProperties
<1>. HIDE DEF t
<1>4. Len(t) = 1 /\ t[1] = b
  BY <1>1, <1>3
<1>5. t = <<b>>
  BY <1>3, <1>4
<1>6. Head(<<b>>) = b /\ Tail(<<b>>) = <<>>
  OBVIOUS
<1>. QED
  BY <1>1, <1>2, <1>5, <1>6 DEF s, t

LEMMA RestIs ==
  ASSUME NEW q \in Rest, q # <<>>
  PROVE  Tail(q) \in Rest /\ (Head(q) = "start" => Tail(q) = <<>>)
<1>1. CASE q = <<"use">>
  <2>1. Tail(q) = <<>>
    BY <1>1, TailOfTwo, Zenon
  <2>. QED
    BY <2>1 DEF Rest
<1>2. CASE q = <<"start">>
  <2>1. Tail(q) = <<>>
    BY <1>2, TailOfTwo, Zenon
  <2>. QED
    BY <2>1 DEF Rest
<1>3. CASE q = <<"use", "start">>
  <2>1. "use" # "start"
    OBVIOUS
  <2>. DEFINE X == {"use", "start"}
  <2>2. "use" \in X /\ "start" \in X
    OBVIOUS
  <2>. HIDE DEF X
  <2>3. Tail(<<"use", "start">>) = <<"start">> /\ Head(<<"use", "start">>) = "use"
    BY <2>2, TailOfTwo
  <2>. QED
    BY <1>3, <2>1, <2>3, Zenon DEF Rest
<1>. QED
  BY <1>1, <1>2, <1>3, Zenon DEF Rest

LEMMA QueuedAt ==
  ASSUME NEW S, NEW q \in Seq(S), NEW h \in S
  PROVE  /\ Append(q, h) \in Seq(S)
         /\ \A k \in 1..Len(Append(q, h)) :
              \/ k \in 1..Len(q) /\ Append(q, h)[k] = q[k]
              \/ k = Len(q) + 1 /\ Append(q, h)[k] = h
         /\ Len(q) + 1 \notin 1..Len(q)
BY AppendProperties

LEMMA TakenAt ==
  ASSUME NEW S, NEW q \in Seq(S), q # <<>>
  PROVE  /\ Tail(q) \in Seq(S) /\ Head(q) \in S
         /\ 1 \in 1..Len(q) /\ Head(q) = q[1]
         /\ \A k \in 1..Len(Tail(q)) :
              k + 1 \in 1..Len(q) /\ k + 1 # 1 /\ Tail(q)[k] = q[k + 1]
         /\ \A k, j \in 1..Len(Tail(q)) : k + 1 = j + 1 => k = j
BY HeadTailProperties

-----------------------------------------------------------------------------
LEMMA InitIInv == Init => IInv
<1>. SUFFICES ASSUME Init PROVE IInv
  OBVIOUS
<1>1. ready = <<>> /\ Len(ready) = 0 /\ ready \in Seq(Outcomes)
  BY EmptySeq DEF Init
<1>2. /\ outstanding = {Wait, Accept} /\ running = [t \in Thread |-> Nothing]
      /\ todo = [t \in Thread |-> <<>>]
  BY DEF Init
<1>3. TypeOK
  BY <1>1, OperationMade DEF Init, TypeOK
<1>4. Resting
  BY <1>2 DEF Resting
<1>5. OnlyOpen
  BY <1>1, <1>2, OperationMade, NothingIs, PeerAssumption DEF OnlyOpen, Idle, Owner
<1>6. \A x \in Owner : Single(x)
  BY <1>1, <1>2, OperationMade, NothingIs DEF Single, Touches
<1>. QED
  BY <1>3, <1>4, <1>5, <1>6 DEF IInv

-----------------------------------------------------------------------------
(* What is under way may only change as follows. *)

(* An operation completes: its handler waits in its place. *)
LEMMA CompleteStep ==
  ASSUME IInv, NEW o, NEW ok \in BOOLEAN, Complete(o, ok)
  PROVE  /\ o \in Operations
         /\ ready' \in Seq(Outcomes) /\ outstanding' \subseteq Operations
         /\ ~Idle(o.of)
         /\ \A x : Idle(x) => Idle(x)'
         /\ \A x : Single(x) => Single(x)'
<1>. DEFINE h == Outcome(o, ok)
            n == Len(ready)
<1>1. /\ ready \in Seq(Outcomes) /\ outstanding \subseteq Operations
      /\ o \in outstanding /\ outstanding' = outstanding \ {o}
      /\ ready' = Append(ready, h) /\ running' = running /\ todo' = todo
  BY DEF IInv, TypeOK, Complete, pool
<1>2. o \in Operations /\ h \in Outcomes /\ h.of = o.of
  BY <1>1 DEF Outcomes, Outcome
<1>. HIDE DEF h
<1>3. /\ ready' \in Seq(Outcomes) /\ n + 1 \notin 1..n
      /\ \A k \in 1..Len(ready') :
           \/ k \in 1..n /\ ready'[k] = ready[k]
           \/ k = n + 1 /\ ready'[k] = h
  BY <1>1, <1>2, QueuedAt
<1>. HIDE DEF n
<1>4. \A x : Idle(x) => Idle(x)'
  BY <1>1, <1>2, <1>3 DEF Idle, n
<1>5. ASSUME NEW x, Single(x) PROVE Single(x)'
  <2>0. \A t : Touches(t, x)' <=> Touches(t, x)
    BY <1>1 DEF Touches
  <2>1. \A p, r \in outstanding' : p.of = x /\ r.of = x => p = r
    BY <1>1, <1>5 DEF Single
  <2>2. \A k, j \in 1..Len(ready') : ready'[k].of = x /\ ready'[j].of = x => k = j
    BY <1>1, <1>2, <1>3, <1>5 DEF Single, n
  <2>3. \A t, u \in Thread : Touches(t, x)' /\ Touches(u, x)' => t = u
    BY <1>5, <2>0 DEF Single
  <2>4. \A p \in outstanding', k \in 1..Len(ready') : ~(p.of = x /\ ready'[k].of = x)
    BY <1>1, <1>2, <1>3, <1>5 DEF Single, n
  <2>5. \A p \in outstanding', t \in Thread : ~(p.of = x /\ Touches(t, x)')
    BY <1>1, <1>5, <2>0 DEF Single
  <2>6. \A k \in 1..Len(ready'), t \in Thread : ~(ready'[k].of = x /\ Touches(t, x)')
    BY <1>1, <1>2, <1>3, <1>5, <2>0 DEF Single, n
  <2>. QED
    BY <2>1, <2>2, <2>3, <2>4, <2>5, <2>6 DEF Single
<1>. QED
  BY <1>1, <1>2, <1>3, <1>4, <1>5 DEF Idle

(* A thread that rests takes the first handler. *)
LEMMA TakeStep ==
  ASSUME IInv, NEW t \in Thread, Take(t)
  PROVE  /\ ready' \in Seq(Outcomes) /\ running' \in [Thread -> Outcomes \cup {Nothing}]
         /\ todo' \in [Thread -> Rest]
         /\ \A x : Idle(x) => Idle(x)'
         /\ \A x \in Owner : Single(x)'
<1>1. /\ ready \in Seq(Outcomes) /\ ready # <<>> /\ ready' = Tail(ready)
      /\ running \in [Thread -> Outcomes \cup {Nothing}] /\ todo \in [Thread -> Rest]
      /\ running' = [running EXCEPT ![t] = Head(ready)]
      /\ todo' = [todo EXCEPT ![t] = Does(Head(ready))]
      /\ running[t] = Nothing /\ outstanding' = outstanding
  BY DEF IInv, TypeOK, Take, Resting, Rest
<1>2. /\ ready' \in Seq(Outcomes) /\ Head(ready) \in Outcomes
      /\ 1 \in 1..Len(ready) /\ Head(ready) = ready[1]
      /\ \A k \in 1..Len(ready') :
           k + 1 \in 1..Len(ready) /\ k + 1 # 1 /\ ready'[k] = ready[k + 1]
      /\ \A k, j \in 1..Len(ready') : k + 1 = j + 1 => k = j
  BY <1>1, TakenAt
<1>3. /\ running' \in [Thread -> Outcomes \cup {Nothing}]
      /\ running'[t] = ready[1]
      /\ \A u \in Thread : u # t => running'[u] = running[u] /\ todo'[u] = todo[u]
  BY <1>1, <1>2
<1>4. \A x : Idle(x) => Idle(x)'
  BY <1>1, <1>2, <1>3 DEF Idle
<1>5. ASSUME NEW x \in Owner PROVE Single(x)'
  <2>0. Single(x)
    BY DEF IInv
  <2>t. /\ Touches(t, x)' => ready[1].of = x
        /\ \A u \in Thread : u # t => (Touches(u, x)' <=> Touches(u, x))
    BY <1>3 DEF Touches
  <2>1. \A p, r \in outstanding' : p.of = x /\ r.of = x => p = r
    BY <1>1, <2>0 DEF Single
  <2>2. \A k, j \in 1..Len(ready') : ready'[k].of = x /\ ready'[j].of = x => k = j
    <3> SUFFICES ASSUME NEW k \in 1..Len(ready'), NEW j \in 1..Len(ready'),
                        ready'[k].of = x, ready'[j].of = x
                 PROVE  k = j
      OBVIOUS
    <3>1. /\ k + 1 \in 1..Len(ready) /\ ready[k + 1].of = x
          /\ j + 1 \in 1..Len(ready) /\ ready[j + 1].of = x
      BY <1>2
    <3>2. k + 1 = j + 1  BY <2>0, <3>1 DEF Single
    <3> QED  BY <1>2, <3>2
  <2>3. \A u, v \in Thread : Touches(u, x)' /\ Touches(v, x)' => u = v
    BY <1>2, <2>0, <2>t DEF Single
  <2>4. \A p \in outstanding', k \in 1..Len(ready') : ~(p.of = x /\ ready'[k].of = x)
    BY <1>1, <1>2, <2>0 DEF Single
  <2>5. \A p \in outstanding', u \in Thread : ~(p.of = x /\ Touches(u, x)')
    BY <1>1, <1>2, <2>0, <2>t DEF Single
  <2>6. \A k \in 1..Len(ready'), u \in Thread : ~(ready'[k].of = x /\ Touches(u, x)')
    BY <1>2, <2>0, <2>t DEF Single
  <2>. QED
    BY <2>1, <2>2, <2>3, <2>4, <2>5, <2>6 DEF Single
<1>6. Does(Head(ready)) \in Rest
  BY DEF Does, Rest
<1>. QED
  BY <1>1, <1>2, <1>3, <1>4, <1>5, <1>6

(* A handler does a step and starts these operations: of one that had        *)
(* nothing under way, or with its last step of its own owner.                *)
LEMMA RunStep ==
  ASSUME IInv, NEW t \in Thread, NEW new \in SUBSET Operations, NEW q \in Rest,
         \A o \in new : Idle(o.of) \/ (o.of = running[t].of /\ q = <<>>),
         \A o, p \in new : o.of = p.of => o = p,
         todo[t] # <<>>, todo' = [todo EXCEPT ![t] = q],
         outstanding' = outstanding \cup new, ready' = ready, running' = running
  PROVE  /\ outstanding' \subseteq Operations
         /\ todo' \in [Thread -> Rest]
         /\ \A x : Idle(x) /\ (\A o \in new : o.of # x) => Idle(x)'
         /\ \A x \in Owner : Single(x)'
<1>1. outstanding \subseteq Operations /\ todo \in [Thread -> Rest]
  BY DEF IInv, TypeOK, Rest
<1>2. /\ todo' \in [Thread -> Rest] /\ todo'[t] = q
      /\ \A u \in Thread : u # t => todo'[u] = todo[u]
  BY <1>1
<1>3. \A x : Idle(x) /\ (\A o \in new : o.of # x) => Idle(x)'
  BY DEF Idle
<1>4. ASSUME NEW x \in Owner PROVE Single(x)'
  <2>0. Single(x)
    BY DEF IInv
  <2>t. \A u \in Thread : Touches(u, x)' => Touches(u, x)
    BY <1>2 DEF Touches
  <2>1. CASE \A o \in new : o.of # x
    <3>1. \A o \in outstanding' : o.of = x => o \in outstanding
      BY <2>1
    <3>. QED
      BY <2>0, <2>t, <3>1 DEF Single
  <2>2. ASSUME NEW o \in new, o.of = x PROVE Single(x)'
    <3>1. \/ Idle(x)
          \/ Touches(t, x) /\ q = <<>>
      BY <2>2 DEF Touches
    <3>2. \A p \in outstanding' : p.of = x => p = o
      BY <2>0, <2>2, <3>1 DEF Idle, Single
    <3>3. \A k \in 1..Len(ready') : ready'[k].of # x
      BY <2>0, <3>1 DEF Idle, Single
    <3>4. \A u \in Thread : ~Touches(u, x)'
      <4>1. CASE Idle(x)
        BY <2>t, <4>1 DEF Idle, Touches
      <4>2. CASE Touches(t, x) /\ q = <<>>
        <5>1. ~Touches(t, x)'
          BY <1>2, <4>2 DEF Touches
        <5>2. \A u \in Thread : Touches(u, x) => u = t
          BY <2>0, <4>2 DEF Single
        <5>. QED
          BY <2>t, <5>1, <5>2
      <4>. QED
        BY <3>1, <4>1, <4>2
    <3>. QED
      BY <3>2, <3>3, <3>4 DEF Single
  <2>. QED
    BY <2>1, <2>2
<1>. QED
  BY <1>1, <1>2, <1>3, <1>4

(* A handler returns; the connection of the last one is closed. *)
LEMMA LeaveStep ==
  ASSUME IInv, NEW t \in Thread, Leave(t)
  PROVE  /\ running' \in [Thread -> Outcomes \cup {Nothing}]
         /\ OnlyOpen'
         /\ \A x \in Owner : Single(x)'
<1>1. /\ running \in [Thread -> Outcomes \cup {Nothing}]
      /\ running' = [running EXCEPT ![t] = Nothing]
      /\ outstanding' = outstanding /\ ready' = ready /\ todo' = todo
      /\ connection' = [c \in Peer |-> IF c = running[t].of /\ ~Held(t, c)
                                       THEN "closed" ELSE connection[c]]
      /\ OnlyOpen
  BY DEF IInv, TypeOK, Leave
<1>2. /\ running' \in [Thread -> Outcomes \cup {Nothing}] /\ running'[t] = Nothing
      /\ \A u \in Thread : u # t => running'[u] = running[u]
  BY <1>1
<1>3. \A x \in Owner : running'[t].of # x
  BY <1>2, NothingIs
<1>4. ASSUME NEW c \in Peer, connection'[c] # "open" PROVE Idle(c)'
  <2>0. c \in Owner
    BY DEF Owner
  <2>1. CASE connection[c] # "open"
    BY <1>1, <1>2, <1>3, <2>0, <2>1 DEF OnlyOpen, Idle
  <2>2. CASE ~Held(t, c)
    BY <1>1, <1>2, <1>3, <2>0, <2>2 DEF Held, Idle
  <2>. QED
    BY <1>1, <1>4, <2>1, <2>2
<1>5. ASSUME NEW x \in Owner PROVE Single(x)'
  <2>1. Single(x)
    BY DEF IInv
  <2>2. \A u \in Thread : Touches(u, x)' => Touches(u, x)
    BY <1>1, <1>2, <1>3 DEF Touches
  <2>. QED
    BY <1>1, <2>1, <2>2 DEF Single
<1>. QED
  BY <1>2, <1>4, <1>5 DEF OnlyOpen

-----------------------------------------------------------------------------
LEMMA StepIInv == IInv /\ [Next]_vars => IInv'
<1>. SUFFICES ASSUME IInv, [Next]_vars PROVE IInv'
  OBVIOUS
<1>0. TypeOK /\ Resting /\ OnlyOpen /\ \A x \in Owner : Single(x)
  BY DEF IInv
<1>. DEFINE Places == {"none", "backlog", "accepted", "open", "closed"}
<1>1. ASSUME UNCHANGED <<running, todo, ready, outstanding>>
      PROVE  /\ \A x : Idle(x) => Idle(x)'
             /\ \A x : Single(x) => Single(x)'
  <2>1. \A t, x : Touches(t, x)' <=> Touches(t, x)
    BY <1>1 DEF Touches
  <2>. QED
    BY <1>1, <2>1 DEF Idle, Single
<1>2. ASSUME NEW o, NEW ok \in BOOLEAN, Complete(o, ok),
             connection' \in [Peer -> Places], failures' \in BOOLEAN,
             \A c \in Peer : connection'[c] # "open" => connection[c] # "open"
      PROVE  IInv'
  <2>1. TypeOK'
    BY <1>0, <1>2, CompleteStep DEF TypeOK, Complete, pool
  <2>2. Resting'
    BY <1>0, <1>2 DEF Resting, Complete, pool
  <2>3. OnlyOpen'
    BY <1>0, <1>2, CompleteStep DEF OnlyOpen
  <2>4. \A x \in Owner : Single(x)'
    BY <1>0, <1>2, CompleteStep
  <2>. QED
    BY <2>1, <2>2, <2>3, <2>4 DEF IInv, Owner
<1>3. CASE SignalComes
  BY <1>0, <1>2, <1>3 DEF SignalComes, TypeOK
<1>4. CASE AcceptFails
  BY <1>0, <1>2, <1>4 DEF AcceptFails, TypeOK
<1>5. ASSUME NEW c \in Peer, Accepts(c) PROVE IInv'
  BY <1>0, <1>2, <1>5 DEF Accepts, TypeOK
<1>6. ASSUME NEW c \in Peer, Transferred(c) PROVE IInv'
  BY <1>0, <1>2, <1>6 DEF Transferred, TypeOK
<1>7. ASSUME NEW c \in Peer, Connect(c) PROVE IInv'
  <2>1. UNCHANGED <<running, todo, ready, outstanding>>
    BY <1>7 DEF Connect, pool
  <2>2. TypeOK'
    BY <1>0, <1>7 DEF Connect, TypeOK, pool
  <2>3. Resting'
    BY <1>0, <1>7 DEF Connect, Resting, pool
  <2>4. OnlyOpen'
    BY <1>0, <1>1, <1>7, <2>1 DEF Connect, OnlyOpen, TypeOK
  <2>. QED
    BY <1>0, <1>1, <2>1, <2>2, <2>3, <2>4 DEF IInv, Owner
<1>8. ASSUME UNCHANGED <<running, todo, ready, outstanding, connection>>, TypeOK', Resting'
      PROVE  IInv'
  <2>1. OnlyOpen'
    BY <1>0, <1>1, <1>8 DEF OnlyOpen
  <2>. QED
    BY <1>0, <1>1, <1>8, <2>1 DEF IInv, Owner
<1>9. ASSUME NEW t \in Thread, Spawn(t) PROVE IInv'
  <2>1. TypeOK' /\ Resting'
    BY <1>0, <1>9 DEF Spawn, TypeOK, Resting
  <2>. QED
    BY <1>8, <1>9, <2>1 DEF Spawn
<1>10. ASSUME NEW t \in Thread, Return(t) PROVE IInv'
  <2>1. TypeOK' /\ Resting'
    BY <1>0, <1>10 DEF Return, TypeOK, Resting
  <2>. QED
    BY <1>8, <1>10, <2>1 DEF Return
<1>11. CASE Join \/ UNCHANGED vars
  <2>1. TypeOK' /\ Resting' /\ UNCHANGED <<running, todo, ready, outstanding, connection>>
    BY <1>0, <1>11 DEF Join, TypeOK, Resting, vars, pool
  <2>. QED
    BY <1>8, <2>1
<1>12. ASSUME NEW t \in Thread, Take(t) PROVE IInv'
  <2>1. TypeOK'
    BY <1>0, <1>12, TakeStep DEF Take, TypeOK, Rest
  <2>2. Resting'
    BY <1>0, <1>12 DEF Take, Resting, TypeOK
  <2>3. OnlyOpen'
    BY <1>0, <1>12, TakeStep DEF OnlyOpen, Take
  <2>. QED
    BY <1>12, <2>1, <2>2, <2>3, TakeStep DEF IInv, Owner
<1>13. ASSUME NEW t \in Thread, NEW step, Do(t, step)
       PROVE  /\ todo[t] # <<>> /\ Head(todo[t]) = step /\ Tail(todo[t]) \in Rest
              /\ step = "start" => Tail(todo[t]) = <<>>
              /\ todo' = [todo EXCEPT ![t] = Tail(todo[t])]
              /\ UNCHANGED <<main, thread, running, ready, failures>>
              /\ Resting'
  <2>1. /\ todo[t] # <<>> /\ Head(todo[t]) = step /\ todo[t] \in Rest
        /\ todo' = [todo EXCEPT ![t] = Tail(todo[t])]
        /\ UNCHANGED <<main, thread, running, ready, failures>>
    BY <1>0, <1>13 DEF Do, TypeOK, Rest
  <2>2. Resting'
    BY <1>0, <2>1 DEF Resting, TypeOK
  <2>. QED
    BY <2>1, <2>2, RestIs
<1>14. ASSUME NEW t \in Thread, NEW step, Do(t, step),
              NEW new \in SUBSET Operations, outstanding' = outstanding \cup new,
              \A o \in new : Idle(o.of) \/ (o.of = running[t].of /\ step = "start"),
              \A o, p \in new : o.of = p.of => o = p,
              connection' \in [Peer -> Places], stopped' \in BOOLEAN,
              \A c \in Peer : connection'[c] # "open" => Idle(c) /\ \A o \in new : o.of # c
       PROVE  IInv'
  <2>. DEFINE q == Tail(todo[t])
  <2>1. /\ todo[t] # <<>> /\ q \in Rest /\ (step = "start" => q = <<>>)
        /\ todo' = [todo EXCEPT ![t] = q]
        /\ UNCHANGED <<main, thread, running, ready, failures>>
        /\ Resting'
    BY <1>13, <1>14
  <2>. HIDE DEF q
  <2>2. /\ outstanding' \subseteq Operations
        /\ todo' \in [Thread -> Rest]
        /\ \A x : Idle(x) /\ (\A o \in new : o.of # x) => Idle(x)'
        /\ \A x \in Owner : Single(x)'
    BY <1>14, <2>1, RunStep
  <2>3. TypeOK'
    BY <1>0, <1>14, <2>1, <2>2 DEF TypeOK, Rest
  <2>4. OnlyOpen'
    BY <1>14, <2>2 DEF OnlyOpen
  <2>. QED
    BY <2>1, <2>2, <2>3, <2>4 DEF IInv, Owner
<1>15. ASSUME NEW t \in Thread, running[t].do # "nothing"
       PROVE  /\ running[t].do = "accept" => running[t].of = "acceptor"
              /\ running[t].do \in {"read", "write"} => running[t].of \in Peer
              /\ ~Idle(running[t].of)
  <2>1. running[t] \in Outcomes
    BY <1>0, <1>15, NothingIs DEF TypeOK
  <2>. QED
    BY <2>1, OutcomeIs DEF Idle
<1>16. ASSUME NEW t \in Thread, Use(t) PROVE IInv'
  <2>1. ASSUME outstanding' = outstanding, connection' = connection, stopped' \in BOOLEAN
        PROVE  IInv'
    <3>. DEFINE new == {}
    <3>1. /\ Do(t, "use") /\ new \in SUBSET Operations
          /\ outstanding' = outstanding \cup new
          /\ \A o \in new : Idle(o.of) \/ (o.of = running[t].of /\ "use" = "start")
          /\ \A o, p \in new : o.of = p.of => o = p
          /\ \A c \in Peer : \A o \in new : o.of # c
      BY <1>16, <2>1 DEF Use
    <3>2. /\ connection' \in [Peer -> Places]
          /\ \A c \in Peer : connection'[c] # "open" => Idle(c)
      BY <1>0, <2>1 DEF OnlyOpen, TypeOK
    <3>. HIDE DEF new, Places
    <3>. QED
      BY <1>14, <2>1, <3>1, <3>2
  <2>2. CASE Stop /\ UNCHANGED connection
    BY <2>1, <2>2 DEF Stop
  <2>3. CASE UNCHANGED <<outstanding, connection, stopped>>
    BY <1>0, <2>1, <2>3 DEF TypeOK
  <2>4. CASE MakeConnection /\ UNCHANGED stopped
    <3>1. PICK c \in Peer :
            /\ connection[c] = "accepted"
            /\ connection' = [connection EXCEPT ![c] = "open"]
            /\ outstanding' = outstanding \cup {Operation("read", c)}
      BY <2>4 DEF MakeConnection
    <3>. DEFINE new == {Operation("read", c)}
    <3>2. /\ new \in SUBSET Operations /\ outstanding' = outstanding \cup new
          /\ \A o \in new : o.of = c
          /\ \A o, p \in new : o = p
      BY <3>1, OperationMade
    <3>3. Idle(c)
      BY <1>0, <3>1 DEF OnlyOpen
    <3>4. /\ connection' \in [Peer -> Places] /\ stopped' \in BOOLEAN
          /\ \A d \in Peer : connection'[d] # "open" => Idle(d) /\ d # c
      BY <1>0, <2>4, <3>1 DEF OnlyOpen, TypeOK
    <3>5. Do(t, "use")
      BY <1>16 DEF Use
    <3>. HIDE DEF new, Places
    <3>. QED
      BY <1>14, <3>2, <3>3, <3>4, <3>5
  <2>. QED
    BY <1>16, <2>2, <2>3, <2>4 DEF Use
<1>17. ASSUME NEW t \in Thread, Start(t) PROVE IInv'
  <2>. DEFINE x == running[t].of
  <2>1. PICK new \in SUBSET Operations :
          /\ outstanding' = outstanding \cup new
          /\ \A o \in new : o.of = x
          /\ \A o, p \in new : o = p
    <3>1. CASE running[t].do = "accept" /\ outstanding' = outstanding \cup Again
      <4>1. /\ Again \in SUBSET Operations
            /\ \A o \in Again : o.of = x
            /\ \A o, p \in Again : o = p
        BY <1>15, <3>1, OperationMade DEF Again
      <4>. QED
        BY <3>1, <4>1
    <3>2. CASE /\ running[t].do = "read"
               /\ \E answers \in BOOLEAN : outstanding' = outstanding \cup Answer(x, answers)
      <4>1. PICK answers \in BOOLEAN : outstanding' = outstanding \cup Answer(x, answers)
        BY <3>2
      <4>2. x \in Peer
        BY <1>15, <3>2
      <4>. HIDE DEF x
      <4>3. /\ Answer(x, answers) \in SUBSET Operations
            /\ \A o \in Answer(x, answers) : o.of = x
            /\ \A o, p \in Answer(x, answers) : o = p
        BY <4>2, OperationMade DEF Answer
      <4>. QED
        BY <4>1, <4>3
    <3>. QED
      BY <1>17, <3>1, <3>2 DEF Start
  <2>2. Do(t, "start") /\ running[t].do # "nothing" /\ UNCHANGED <<connection, stopped>>
    BY <1>17 DEF Start
  <2>3. /\ connection' \in [Peer -> Places] /\ stopped' \in BOOLEAN
        /\ \A c \in Peer : connection'[c] # "open" => Idle(c) /\ c # x
    BY <1>0, <1>15, <2>2 DEF OnlyOpen, TypeOK
  <2>. HIDE DEF Places
  <2>. QED
    BY <1>14, <2>1, <2>2, <2>3
<1>18. ASSUME NEW t \in Thread, Leave(t) PROVE IInv'
  <2>1. connection' \in [Peer -> Places]
    BY <1>0, <1>18 DEF Leave, TypeOK
  <2>2. TypeOK'
    BY <1>0, <1>18, <2>1, LeaveStep DEF Leave, TypeOK
  <2>3. Resting'
    BY <1>0, <1>18 DEF Leave, Resting, TypeOK
  <2>. QED
    BY <1>18, <2>2, <2>3, LeaveStep DEF IInv, Owner
<1>. QED
  BY <1>3, <1>4, <1>5, <1>6, <1>7, <1>9, <1>10, <1>11, <1>12, <1>16, <1>17, <1>18
  DEF Next

LEMMA Invariance == Spec => []IInv
BY InitIInv, StepIInv, PTL DEF Spec

LEMMA AtMostOneElement ==
  ASSUME NEW S, \A x, y \in S : x = y
  PROVE  Cardinality(S) = IF S = {} THEN 0 ELSE 1
<1>1. CASE S = {}
  BY <1>1, FS_EmptySet
<1>2. CASE S # {}
  <2>1. PICK x \in S : S = {x}
    BY <1>2
  <2>. QED
    BY <2>1, FS_Singleton
<1>. QED
  BY <1>1, <1>2

-----------------------------------------------------------------------------
(* Every variable keeps its type: no operation is started but for the        *)
(* signals, the acceptor or a connection there is.                           *)
THEOREM TypeCorrect == Spec => []TypeOK
<1>1. IInv => TypeOK
  BY DEF IInv
<1>. QED
  BY <1>1, Invariance, PTL

(* However many threads run the io_context, and though a handler may return   *)
(* only after the next one has run elsewhere, whoever may touch a connection,  *)
(* or the acceptor, is alone: do_read, do_write and do_accept come last in     *)
(* their handlers and need neither a lock nor a strand.                        *)
THEOREM NeverTwoAtATime == Spec => []OneAtATime
<1>1. ASSUME IInv PROVE OneAtATime
  <2>1. SUFFICES ASSUME NEW x \in Peer \cup {"acceptor"}
                 PROVE  Cardinality({o \in outstanding : o.of = x})
                          + Cardinality({k \in 1..Len(ready) : ready[k].of = x})
                          + Cardinality({t \in Thread : running[t].of = x /\ todo[t] # <<>>})
                        <= 1
    BY DEF OneAtATime
  <2>. DEFINE O == {o \in outstanding : o.of = x}
              R == {k \in 1..Len(ready) : ready[k].of = x}
              T == {t \in Thread : running[t].of = x /\ todo[t] # <<>>}
  <2>2. Single(x)
    BY <1>1 DEF IInv, Owner
  <2>3. /\ \A o, p \in O : o = p
        /\ \A k, j \in R : k = j
        /\ \A t, u \in T : t = u
    BY <2>2 DEF Single, Touches
  <2>4. (O = {} \/ R = {}) /\ (O = {} \/ T = {}) /\ (R = {} \/ T = {})
    BY <2>2 DEF Single, Touches
  <2>. HIDE DEF O, R, T
  <2>5. /\ Cardinality(O) = IF O = {} THEN 0 ELSE 1
        /\ Cardinality(R) = IF R = {} THEN 0 ELSE 1
        /\ Cardinality(T) = IF T = {} THEN 0 ELSE 1
    BY <2>3, AtMostOneElement
  <2>6. Cardinality(O) + Cardinality(R) + Cardinality(T) <= 1
    BY <2>4, <2>5
  <2>. QED
    BY <2>6 DEF O, R, T
<1>. QED
  BY <1>1, Invariance, PTL

-----------------------------------------------------------------------------
(* Sequences.  FlattenSeq is a recursion over the sequences it makes one of, *)
(* so what is said of it is proved by the least number of them for which it  *)
(* is not so.                                                                *)

LEMMA Least ==
  ASSUME NEW S, S \subseteq Nat, S # {}
  PROVE  \E m \in S : \A k \in S : m <= k
<1> DEFINE Less == {p \in Nat \X Nat : p[1] < p[2]}
<1>1. IsWellFoundedOn(Less, Nat)
  BY NatLessThanWellFounded DEF OpToRel
<1>2. PICK m \in S : \A k \in S : ~(<<k, m>> \in Less)
  <2> HIDE DEF Less
  <2> QED  BY <1>1, WFMin
<1>3. \A k \in S : ~(<<k, m>> \in Less) => m <= k
  OBVIOUS
<1> QED  BY <1>2, <1>3

LEMMA Greatest ==
  ASSUME NEW n \in Nat, NEW S, S \subseteq 0..n, S # {}
  PROVE  Max(S) \in S /\ \A k \in S : k <= Max(S)
<1> DEFINE T == {n - k : k \in S}
<1>1. T \subseteq Nat /\ T # {}
  <2>1. \A k \in S : n - k \in Nat  OBVIOUS
  <2> QED  BY <2>1
<1> HIDE DEF T
<1>2. PICK l \in T : \A k \in T : l <= k  BY <1>1, Least
<1>3. PICK m \in S : l = n - m  BY DEF T
<1>4. \A k \in S : n - k \in T  BY DEF T
<1>5. \A k \in S : m >= k  BY <1>2, <1>3, <1>4
<1>6. S \subseteq Int  OBVIOUS
<1>7. Max(S) \in S /\ \A k \in S : Max(S) >= k
  BY <1>5 DEF Max
<1> QED  BY <1>6, <1>7

(* What a concatenation is, by its parts. *)
LEMMA Joined ==
  ASSUME NEW X, NEW s \in Seq(X), NEW t \in Seq(X)
  PROVE  /\ Len(s) \in Nat /\ Len(t) \in Nat
         /\ s \o t \in Seq(X) /\ Len(s \o t) = Len(s) + Len(t)
         /\ \A k \in 1..Len(s) : (s \o t)[k] = s[k]
         /\ \A k \in 1..Len(t) : (s \o t)[Len(s) + k] = t[k]
<1>1. Len(s) \in Nat /\ Len(t) \in Nat  BY LenProperties
<1>2. /\ s \o t \in Seq(X) /\ Len(s \o t) = Len(s) + Len(t)
      /\ \A k \in 1..Len(s) + Len(t) :
           (s \o t)[k] = IF k <= Len(s) THEN s[k] ELSE t[k - Len(s)]
  BY ConcatProperties
<1>3. \A m, n \in Nat : /\ \A k \in 1..m : k \in 1..m + n /\ k <= m
                        /\ \A k \in 1..n : /\ m + k \in 1..m + n /\ ~(m + k <= m)
                                           /\ (m + k) - m = k
  OBVIOUS
<1>4. \A k \in 1..Len(s) : k \in 1..Len(s) + Len(t) /\ k <= Len(s)
  BY <1>1, <1>3
<1>5. \A k \in 1..Len(t) :
        /\ Len(s) + k \in 1..Len(s) + Len(t) /\ ~(Len(s) + k <= Len(s))
        /\ (Len(s) + k) - Len(s) = k
  BY <1>1, <1>3
<1> QED  BY <1>1, <1>2, <1>4, <1>5

(* Two elements side by side. *)
LEMMA TwoOf ==
  ASSUME NEW X, NEW s \in Seq(X), NEW m \in Nat,
         m + 1 \in 1..Len(s), m + 2 \in (m + 1)..Len(s)
  PROVE  SubSeq(s, m + 1, m + 2) = <<s[m + 1], s[m + 2]>>
<1> DEFINE t == SubSeq(s, m + 1, m + 2)
<1>1. Len(s) \in Nat /\ \A k \in 1..Len(s) : s[k] \in X
  BY LenProperties, ElementOfSeq
<1>2. \A k \in (m + 1)..(m + 2) : s[k] \in X
  BY <1>1
<1>3. /\ t \in Seq(X)
      /\ Len(t) = IF m + 1 <= m + 2 THEN (m + 2) - (m + 1) + 1 ELSE 0
      /\ \A k \in 1..(m + 2) - (m + 1) + 1 : t[k] = s[(m + 1) + k - 1]
  BY <1>2, SubSeqProperties
<1>4. /\ (IF m + 1 <= m + 2 THEN (m + 2) - (m + 1) + 1 ELSE 0) = 2
      /\ (m + 2) - (m + 1) + 1 = 2 /\ (m + 1) + 1 - 1 = m + 1 /\ (m + 1) + 2 - 1 = m + 2
  OBVIOUS
<1> HIDE DEF t
<1>5. Len(t) = 2 /\ t[1] = s[m + 1] /\ t[2] = s[m + 2]
  <2>1. 1 \in 1..2 /\ 2 \in 1..2  OBVIOUS
  <2> QED  BY <1>3, <1>4, <2>1
<1>6. t = <<s[m + 1], s[m + 2]>>
  BY <1>3, <1>5
<1> QED  BY <1>6 DEF t

(* Short sequences, element by element. *)
LEMMA ThreeOf ==
  ASSUME NEW X, NEW s \in Seq(X), Len(s) = 3
  PROVE  s = <<s[1], s[2], s[3]>>
OBVIOUS

LEMMA SevenOf ==
  ASSUME NEW X, NEW s \in Seq(X), Len(s) = 7
  PROVE  s = <<s[1], s[2], s[3], s[4], s[5], s[6], s[7]>>
OBVIOUS

(* One and two, and one, four and two, as a reply is put together. *)
LEMMA OneAndTwo ==
  ASSUME NEW a, NEW b, NEW c
  PROVE  <<a>> \o <<b, c>> = <<a, b, c>>
<1> DEFINE X == {a, b, c}
           s == <<a>>
           t == <<b, c>>
           v == s \o t
<1>1. s \in Seq(X) /\ t \in Seq(X)  OBVIOUS
<1>2. Len(s) = 1 /\ Len(t) = 2 /\ s[1] = a /\ t[1] = b /\ t[2] = c  OBVIOUS
<1> HIDE DEF X, s, t
<1>3. /\ v \in Seq(X) /\ Len(v) = Len(s) + Len(t)
      /\ \A k \in 1..Len(s) : v[k] = s[k]
      /\ \A k \in 1..Len(t) : v[Len(s) + k] = t[k]
  BY <1>1, Joined
<1> HIDE DEF v
<1>4. 1 \in 1..1 /\ 1 \in 1..2 /\ 2 \in 1..2 /\ 1 + 2 = 3 /\ 1 + 1 = 2  OBVIOUS
<1>5. Len(v) = 3 /\ v[1] = a /\ v[2] = b /\ v[3] = c  BY <1>2, <1>3, <1>4
<1>6. v = <<v[1], v[2], v[3]>>
  <2>1. v \in Seq(X)  BY <1>3
  <2>2. Len(v) = 3  BY <1>5
  <2> QED  BY <2>1, <2>2, ThreeOf
<1> QED  BY <1>5, <1>6 DEF v, s, t

LEMMA OneFourAndTwo ==
  ASSUME NEW a, NEW b, NEW c, NEW d, NEW e, NEW f, NEW g
  PROVE  <<a>> \o <<b, c, d, e>> \o <<f, g>> = <<a, b, c, d, e, f, g>>
<1> DEFINE X == {a, b, c, d, e, f, g}
           s == <<a>>
           t == <<b, c, d, e>>
           u == <<f, g>>
           v == s \o t
           w == v \o u
<1>1. s \in Seq(X) /\ t \in Seq(X) /\ u \in Seq(X)  OBVIOUS
<1>2. /\ Len(s) = 1 /\ Len(t) = 4 /\ Len(u) = 2
      /\ s[1] = a /\ t[1] = b /\ t[2] = c /\ t[3] = d /\ t[4] = e
      /\ u[1] = f /\ u[2] = g
  OBVIOUS
<1> HIDE DEF X, s, t, u
<1>3. /\ v \in Seq(X) /\ Len(v) = Len(s) + Len(t)
      /\ \A k \in 1..Len(s) : v[k] = s[k]
      /\ \A k \in 1..Len(t) : v[Len(s) + k] = t[k]
  BY <1>1, Joined
<1> HIDE DEF v
<1>4. /\ Len(v) = 5 /\ v[1] = a
      /\ v[1 + 1] = b /\ v[1 + 2] = c /\ v[1 + 3] = d /\ v[1 + 4] = e
  BY <1>2, <1>3
<1>5. v[2] = b /\ v[3] = c /\ v[4] = d /\ v[5] = e  BY <1>4
<1>6. v \in Seq(X)  BY <1>3
<1>7. /\ w \in Seq(X) /\ Len(w) = Len(v) + Len(u)
      /\ \A k \in 1..Len(v) : w[k] = v[k]
      /\ \A k \in 1..Len(u) : w[Len(v) + k] = u[k]
  BY <1>1, <1>6, Joined
<1> HIDE DEF w
<1>8. Len(w) = 7 /\ w[5 + 1] = f /\ w[5 + 2] = g  BY <1>2, <1>4, <1>7
<1>9. w[1] = a /\ w[2] = b /\ w[3] = c /\ w[4] = d /\ w[5] = e
  BY <1>4, <1>5, <1>7
<1>10. w[6] = f /\ w[7] = g  BY <1>8
<1>11. w = <<w[1], w[2], w[3], w[4], w[5], w[6], w[7]>>
  <2>1. w \in Seq(X)  BY <1>7
  <2>2. Len(w) = 7  BY <1>8
  <2> QED  BY <2>1, <2>2, SevenOf
<1> QED  BY <1>9, <1>10, <1>11 DEF w, v, s, t, u

(* What FlattenSeq is made of, of the first m sequences. *)
IsFlat(f, ts, m) ==
  f = [n \in 1..m |-> IF n = 1 THEN ts[n] ELSE f[n - 1] \o ts[n]]

LEMMA FlatExists ==
  ASSUME NEW ts, NEW m \in Nat
  PROVE  \E f : IsFlat(f, ts, m)
<1> DEFINE S == {n \in Nat : ~\E f : IsFlat(f, ts, n)}
<1> SUFFICES ASSUME S # {} PROVE FALSE  OBVIOUS
<1>1. PICK n \in S : \A k \in S : n <= k
  BY Least
<1>2. CASE n = 0
  <2>1. \A k \in 1..0 : FALSE  OBVIOUS
  <2>2. IsFlat([k \in 1..0 |-> ts], ts, 0)
    BY <2>1 DEF IsFlat
  <2> QED  BY <1>2, <2>2
<1>3. CASE n # 0
  <2>1. n \in Nat /\ n - 1 \in Nat /\ ~(n <= n - 1)  BY <1>3
  <2>2. n - 1 \notin S  BY <1>1, <2>1
  <2>3. PICK f : IsFlat(f, ts, n - 1)  BY <2>1, <2>2
  <2> DEFINE last == IF n = 1 THEN ts[n] ELSE f[n - 1] \o ts[n]
             g == [k \in 1..n |-> IF k = n THEN last ELSE f[k]]
  <2>4. \A k \in 1..n - 1 : f[k] = IF k = 1 THEN ts[k] ELSE f[k - 1] \o ts[k]
    BY <2>3 DEF IsFlat
  <2>5. \A k \in 1..n : g[k] = IF k = 1 THEN ts[k] ELSE g[k - 1] \o ts[k]
    <3> TAKE k \in 1..n
    <3>1. CASE k = n
      <4>1. g[k] = last  BY <3>1
      <4>2. CASE n = 1  BY <3>1, <4>1, <4>2
      <4>3. CASE n # 1
        <5>1. n - 1 \in 1..n /\ n - 1 # n  BY <2>1, <4>3
        <5>2. g[n - 1] = f[n - 1]  BY <5>1
        <5> QED  BY <3>1, <4>1, <4>3, <5>2
      <4> QED  BY <4>2, <4>3
    <3>2. CASE k # n
      <4>1. k \in 1..n - 1 /\ (k # 1 => k - 1 \in 1..n /\ k - 1 # n)
        BY <2>1, <3>2
      <4>2. g[k] = f[k] /\ (k # 1 => g[k - 1] = f[k - 1])  BY <3>2, <4>1
      <4> QED  BY <2>4, <4>1, <4>2
    <3> QED  BY <3>1, <3>2
  <2>6. IsFlat(g, ts, n)
    <3>1. g = [k \in 1..n |-> g[k]]  OBVIOUS
    <3> HIDE DEF g
    <3> QED  BY <2>5, <3>1 DEF IsFlat
  <2> HIDE DEF g
  <2> QED  BY <2>6
<1> QED  BY <1>2, <1>3

LEMMA FlattenIs ==
  ASSUME NEW ts, Len(ts) \in Nat, Len(ts) # 0
  PROVE  \E f : IsFlat(f, ts, Len(ts)) /\ FlattenSeq(ts) = f[Len(ts)]
<1> DEFINE flatten == CHOOSE f : IsFlat(f, ts, Len(ts))
<1>1. IsFlat(flatten, ts, Len(ts))  BY FlatExists
<1>2. FlattenSeq(ts) = flatten[Len(ts)]  BY DEF FlattenSeq, IsFlat
<1> QED  BY <1>1, <1>2

(* One beginning of a flat sequence in a longer one. *)
Begins(f, n, m) ==
  Len(f[n]) <= Len(f[m]) /\ \A k \in 1..Len(f[n]) : f[m][k] = f[n][k]

LEMMA FlatGrows ==
  ASSUME NEW X, NEW ts \in Seq(Seq(X)), NEW f, IsFlat(f, ts, Len(ts))
  PROVE  \A m \in 1..Len(ts) :
           f[m] \in Seq(X) /\ \A n \in 1..m : Begins(f, n, m)
<1>0. /\ Len(ts) \in Nat
      /\ \A n \in 1..Len(ts) : ts[n] \in Seq(X)
      /\ \A n \in 1..Len(ts) : f[n] = IF n = 1 THEN ts[n] ELSE f[n - 1] \o ts[n]
  BY LenProperties, ElementOfSeq DEF IsFlat
<1> DEFINE Good(m) == f[m] \in Seq(X) /\ \A n \in 1..m : Begins(f, n, m)
           S == {m \in 1..Len(ts) : ~Good(m)}
<1> SUFFICES ASSUME S # {} PROVE FALSE  OBVIOUS
<1>1. PICK m \in S : \A k \in S : m <= k
  <2>1. S \subseteq Nat  BY <1>0
  <2> HIDE DEF S
  <2> QED  BY <2>1, Least
<1>2. m \in 1..Len(ts) /\ m \in Nat /\ ~Good(m)  BY <1>0
<1>3. CASE m = 1
  <2>1. f[1] \in Seq(X)  BY <1>0, <1>2, <1>3
  <2>2. Len(f[1]) \in Nat  BY <2>1, LenProperties
  <2>3. \A n \in 1..1 : Begins(f, n, 1)  BY <2>2 DEF Begins
  <2> QED  BY <1>2, <1>3, <2>1, <2>3
<1>4. CASE m # 1
  <2>1. m - 1 \in 1..Len(ts) /\ ~(m <= m - 1)  BY <1>0, <1>2, <1>4
  <2>2. m - 1 \notin S  BY <1>1, <2>1
  <2>3. f[m - 1] \in Seq(X) /\ \A n \in 1..m - 1 : Begins(f, n, m - 1)
    BY <2>1, <2>2
  <2>4. f[m] = f[m - 1] \o ts[m] /\ ts[m] \in Seq(X)  BY <1>0, <1>2, <1>4
  <2>5. /\ f[m] \in Seq(X) /\ Len(f[m]) = Len(f[m - 1]) + Len(ts[m])
        /\ Len(f[m - 1]) \in Nat /\ Len(ts[m]) \in Nat
        /\ \A k \in 1..Len(f[m - 1]) : f[m][k] = f[m - 1][k]
    <3> DEFINE s == f[m - 1]
               t == ts[m]
    <3>1. s \in Seq(X) /\ t \in Seq(X) /\ f[m] = s \o t  BY <2>3, <2>4
    <3>2. /\ s \o t \in Seq(X) /\ Len(s \o t) = Len(s) + Len(t)
          /\ Len(s) \in Nat /\ Len(t) \in Nat
          /\ \A k \in 1..Len(s) : (s \o t)[k] = s[k]
      <4> HIDE DEF s, t
      <4> QED  BY <3>1, Joined
    <3> QED  BY <3>1, <3>2
  <2>6. \A n \in 1..m : Begins(f, n, m)
    <3> TAKE n \in 1..m
    <3>1. CASE n = m
      <4>1. Len(f[m]) \in Nat  BY <2>5, LenProperties
      <4> QED  BY <3>1, <4>1 DEF Begins
    <3>2. CASE n # m
      <4>1. n \in 1..m - 1 /\ n \in 1..Len(ts)  BY <1>2, <1>0, <3>2
      <4>2. Begins(f, n, m - 1)  BY <2>3, <4>1
      <4>3. n \notin S
        <5>1. ~(m <= n)  BY <1>2, <4>1
        <5> QED  BY <1>1, <5>1
      <4>4. Len(f[n]) \in Nat  BY <4>1, <4>3, LenProperties
      <4>5. \A k \in 1..Len(f[n]) : k \in 1..Len(f[m - 1])
        BY <2>5, <4>2, <4>4 DEF Begins
      <4>6. Len(f[n]) <= Len(f[m])
        <5>1. Len(f[n]) <= Len(f[m - 1])  BY <4>2 DEF Begins
        <5>2. \A a, b, c \in Nat : a <= b => a <= b + c  OBVIOUS
        <5> QED  BY <2>5, <4>4, <5>1, <5>2
      <4>7. \A k \in 1..Len(f[n]) : f[m][k] = f[n][k]
        BY <2>5, <4>2, <4>5 DEF Begins
      <4> QED  BY <4>6, <4>7 DEF Begins
    <3> QED  BY <3>1, <3>2
  <2> QED  BY <1>2, <2>5, <2>6
<1> QED  BY <1>3, <1>4

(* Where each of the sequences ends in the flat one. *)
Ends(e, ts) ==
  /\ e \in [0..Len(ts) -> Nat]
  /\ e[0] = 0
  /\ \A n \in 1..Len(ts) : e[n] = e[n - 1] + Len(ts[n]) /\ e[n] <= e[Len(ts)]

LEMMA Flattened ==
  ASSUME NEW X, NEW ts \in Seq(Seq(X))
  PROVE  /\ FlattenSeq(ts) \in Seq(X)
         /\ \E e : /\ Ends(e, ts)
                   /\ Len(FlattenSeq(ts)) = e[Len(ts)]
                   /\ \A n \in 1..Len(ts), k \in Nat :
                        k \in 1..Len(ts[n]) =>
                          FlattenSeq(ts)[e[n - 1] + k] = ts[n][k]
<1>0. /\ Len(ts) \in Nat
      /\ \A n \in 1..Len(ts) : ts[n] \in Seq(X) /\ Len(ts[n]) \in Nat
  BY LenProperties, ElementOfSeq
<1>1. CASE Len(ts) = 0
  <2>1. ts = <<>> /\ FlattenSeq(ts) = <<>>
    BY <1>1, EmptySeq DEF FlattenSeq
  <2>2. Ends([n \in 0..0 |-> 0], ts)  BY <1>1 DEF Ends
  <2>3. FlattenSeq(ts) \in Seq(X) /\ Len(FlattenSeq(ts)) = 0  BY <2>1, EmptySeq
  <2>4. [n \in 0..0 |-> 0][Len(ts)] = 0  BY <1>1
  <2>5. \A n \in 1..Len(ts) : FALSE  BY <1>1
  <2> QED  BY <2>2, <2>3, <2>4, <2>5
<1>2. CASE Len(ts) # 0
  <2> DEFINE l == Len(ts)
  <2>1. PICK f : IsFlat(f, ts, l) /\ FlattenSeq(ts) = f[l]
    BY <1>0, <1>2, FlattenIs
  <2>2. \A m \in 1..l : f[m] \in Seq(X) /\ \A n \in 1..m : Begins(f, n, m)
    BY <2>1, FlatGrows
  <2> DEFINE e == [n \in 0..l |-> IF n = 0 THEN 0 ELSE Len(f[n])]
  <2>3. l \in 1..l /\ l \in Nat  BY <1>0, <1>2
  <2>4. \A n \in 1..l : Len(f[n]) \in Nat  BY <2>2, LenProperties
  <2>5. e[0] = 0 /\ \A n \in 1..l : e[n] = Len(f[n])  BY <2>3
  <2>6. e \in [0..l -> Nat]  BY <2>3, <2>4
  <2>7. \A n \in 1..l :
          /\ e[n - 1] \in Nat /\ e[n] = e[n - 1] + Len(ts[n])
          /\ \A k \in 1..Len(ts[n]) : f[n][e[n - 1] + k] = ts[n][k]
    <3> TAKE n \in 1..l
    <3>1. f[n] = IF n = 1 THEN ts[n] ELSE f[n - 1] \o ts[n]
      BY <2>1 DEF IsFlat
    <3>2. CASE n = 1
      <4>1. e[n - 1] = 0  BY <2>5, <3>2
      <4>2. f[n] = ts[n]  BY <3>1, <3>2
      <4> HIDE DEF e
      <4> QED  BY <1>0, <2>5, <4>1, <4>2
    <3>3. CASE n # 1
      <4>1. n - 1 \in 1..l  BY <2>3, <3>3
      <4>2. e[n - 1] = Len(f[n - 1]) /\ f[n - 1] \in Seq(X) /\ e[n - 1] \in Nat
        BY <2>2, <2>4, <2>5, <4>1
      <4>3. f[n] = f[n - 1] \o ts[n]  BY <3>1, <3>3
      <4>4. /\ Len(f[n]) = Len(f[n - 1]) + Len(ts[n])
            /\ \A k \in 1..Len(ts[n]) : f[n][Len(f[n - 1]) + k] = ts[n][k]
        <5> DEFINE s == f[n - 1]
                   t == ts[n]
        <5>1. s \in Seq(X) /\ t \in Seq(X) /\ f[n] = s \o t
          BY <1>0, <4>2, <4>3
        <5>2. /\ Len(s \o t) = Len(s) + Len(t)
              /\ \A k \in 1..Len(t) : (s \o t)[Len(s) + k] = t[k]
          <6> HIDE DEF s, t
          <6> QED  BY <5>1, Joined
        <5> QED  BY <5>1, <5>2
      <4> HIDE DEF e
      <4> QED  BY <2>5, <4>2, <4>4
    <3> QED  BY <3>2, <3>3
  <2>8. \A n \in 1..l : /\ e[n] <= e[l]
                        /\ \A k \in 1..Len(f[n]) : f[l][k] = f[n][k]
    BY <2>2, <2>3, <2>5 DEF Begins
  <2> HIDE DEF e
  <2>9. Ends(e, ts)  BY <2>5, <2>6, <2>7, <2>8 DEF Ends
  <2>10. \A n \in 1..l, k \in Nat :
           k \in 1..Len(ts[n]) => FlattenSeq(ts)[e[n - 1] + k] = ts[n][k]
    <3> SUFFICES ASSUME NEW n \in 1..l, NEW k \in 1..Len(ts[n])
                 PROVE  f[l][e[n - 1] + k] = ts[n][k]
      BY <2>1
    <3>1. e[n - 1] + k \in 1..Len(f[n])  BY <1>0, <2>5, <2>7
    <3> QED  BY <2>7, <2>8, <3>1
  <2>11. FlattenSeq(ts) \in Seq(X) /\ Len(FlattenSeq(ts)) = e[l]
    BY <2>1, <2>2, <2>3, <2>5
  <2> QED  BY <2>9, <2>10, <2>11
<1> QED  BY <1>1, <1>2

-----------------------------------------------------------------------------
(* Decoding.  The bytes of uris and paths; a unit is laid out in the uri     *)
(* where its text ends, and the handler is always at the end of one.         *)

Char == {"%", "+", "/", ".", "gif", "htm", "jpg", "png", "0", "2", "e", "f", "b",
         "another", "space", "zero", "index", "html"}

Texts(us) == [k \in 1..Len(us) |-> us[k].text]

LaidOut(us, e) ==
  /\ us \in Seq(Unit) /\ tail \in Tails
  /\ means = [k \in 1..Len(us) |-> us[k].means]
  /\ Ends(e, Texts(us))
  /\ uri \in Seq(Char) /\ Len(uri) = e[Len(us)] + Len(tail)
  /\ \A n \in 1..Len(us), k \in Nat :
       k \in 1..Len(us[n].text) => uri[e[n - 1] + k] = us[n].text[k]
  /\ \A k \in 1..Len(tail) : uri[e[Len(us)] + k] = tail[k]

(* n units were decoded, or a tail that is decoded though it is no unit. *)
At(us, e, n) == i = e[n] + 1 /\ path = [k \in 1..n |-> us[k].means]
Behind == i > Len(uri) /\ tail \notin Broken /\ tail # <<>>

Decoding(us, e) ==
  /\ stage = "decode" => Behind \/ \E n \in 0..Len(us) : At(us, e, n)
  /\ stage \in {"check", "read"} => i > Len(uri)
  /\ stage = "check" => tail \notin Broken /\ (tail = <<>> => path = means)
  /\ stage = "done" /\ i <= Len(uri) => tail \in Broken

HandlerTypeOK ==
  /\ stage \in {"decode", "check", "read", "done"}
  /\ uri \in Seq(Char) /\ path \in Seq(Char)
  /\ i \in Nat \ {0} /\ file \in Nat /\ unread \in Nat

DecodeInv ==
  HandlerTypeOK /\ \E us, e : LaidOut(us, e) /\ Decoding(us, e)

LEMMA UnitIs ==
  ASSUME NEW u \in Unit
  PROVE  /\ u.text \in Seq(Char) /\ u.means \in Char
         /\ \/ Len(u.text) = 1 /\ u.text[1] \notin {"%", "+"} /\ u.means = u.text[1]
            \/ Len(u.text) = 1 /\ u.text[1] = "+" /\ u.means = "space"
            \/ /\ Len(u.text) = 3 /\ u.text[1] = "%" /\ u.text[2] \in {"0", "2"}
               /\ u.means = ByteOf(<<u.text[2], u.text[3]>>)
<1>1. CASE u \in Plain
  <2>1. PICK c \in {"/", ".", "2", "gif", "htm", "jpg", "png"} : u = [text |-> <<c>>, means |-> c]
    BY <1>1 DEF Plain
  <2>2. c \in Char /\ c \notin {"%", "+"}  BY DEF Char
  <2>3. u.text = <<c>> /\ u.means = c  BY <2>1
  <2> QED  BY <2>2, <2>3
<1>2. CASE u \in Encoded
  <2>1. PICK s \in {<<"2", "e">>, <<"2", "f">>, <<"2", "b">>, <<"0", "0">>} :
          u = [text |-> <<"%">> \o s, means |-> ByteOf(s)]
    BY <1>2 DEF Encoded
  <2>2. u.text = <<"%">> \o s /\ u.means = ByteOf(s)  BY <2>1
  <2>3. PICK b \in {"0", "2"}, c \in {"0", "e", "f", "b"} : s = <<b, c>>  OBVIOUS
  <2>4. <<"%">> \in Seq(Char) /\ s \in Seq(Char)  BY <2>3 DEF Char
  <2>5. /\ u.text \in Seq(Char) /\ Len(u.text) = 3
        /\ u.text[1] = "%" /\ u.text[2] = b /\ u.text[3] = c
    BY <2>2, <2>3, <2>4
  <2>6. ByteOf(s) \in Char  BY DEF ByteOf, Char
  <2> QED  BY <2>2, <2>3, <2>5, <2>6
<1>3. CASE u = [text |-> <<"+">>, means |-> "space"]
  BY <1>3 DEF Char
<1> QED  BY <1>1, <1>2, <1>3 DEF Unit

LEMMA TailIs ==
  ASSUME NEW t \in Tails
  PROVE  /\ t \in Seq(Char) /\ Len(t) \in Nat
         /\ t # <<>> => Len(t) >= 1 /\ t[1] = "%"
         /\ t = <<>> => Len(t) = 0 /\ t \notin Broken
         /\ t \notin Broken /\ t # <<>> =>
              Len(t) = 3 /\ t[2] = "2" /\ t[3] = "gif"
         /\ t \in Broken => \/ Len(t) < 3
                            \/ Len(t) = 3 /\ t[2] = "gif"
                            \/ Len(t) = 3 /\ t[2] = "+" /\ t[3] = "gif"
<1>1. CASE t = <<>>
  BY <1>1 DEF Broken
<1>2. CASE t = <<"%">>
  BY <1>2 DEF Broken, Char
<1>3. CASE t = <<"%", "2">>
  BY <1>3 DEF Broken, Char
<1>4. CASE t = <<"%", "gif", "2">>
  BY <1>4 DEF Broken, Char
<1>5. CASE t = <<"%", "+", "gif">>
  BY <1>5 DEF Broken, Char
<1>6. CASE t = <<"%", "2", "gif">>
  BY <1>6 DEF Broken, Char
<1> QED  BY <1>1, <1>2, <1>3, <1>4, <1>5, <1>6 DEF Tails, Broken

LEMMA HandlerBegins == HandlerInit => DecodeInv
<1> SUFFICES ASSUME HandlerInit PROVE DecodeInv  OBVIOUS
<1>1. PICK us \in UNION {[1..n -> Unit] : n \in 0..MaxUnits} :
        /\ means = [k \in 1..Len(us) |-> us[k].means]
        /\ tail \in Tails
        /\ uri = FlattenSeq([k \in 1..Len(us) |-> us[k].text]) \o tail
  BY DEF HandlerInit
<1>2. us \in Seq(Unit) /\ Len(us) \in Nat /\ \A k \in 1..Len(us) : us[k] \in Unit
  <2>1. PICK n \in 0..MaxUnits : us \in [1..n -> Unit]  BY <1>1
  <2>2. n \in Nat  BY BoundsAssumption
  <2>3. us \in Seq(Unit)  BY <2>1, <2>2
  <2> QED  BY <2>3, LenProperties, ElementOfSeq
<1>3. Texts(us) \in Seq(Seq(Char)) /\ Len(Texts(us)) = Len(us)
  <2>1. \A k \in 1..Len(us) : us[k].text \in Seq(Char)  BY <1>2, UnitIs
  <2> QED  BY <1>2, <2>1 DEF Texts
<1> DEFINE flat == FlattenSeq(Texts(us))
<1>4. flat \in Seq(Char)  BY <1>3, Flattened
<1>5. PICK e : /\ Ends(e, Texts(us)) /\ Len(flat) = e[Len(us)]
               /\ \A n \in 1..Len(us), k \in Nat :
                    k \in 1..Len(Texts(us)[n]) =>
                      flat[e[n - 1] + k] = Texts(us)[n][k]
  BY <1>3, Flattened
<1>6. \A n \in 1..Len(us) : Texts(us)[n] = us[n].text  BY DEF Texts
<1>7. uri = flat \o tail  BY <1>1 DEF Texts
<1> HIDE DEF flat
<1>8. tail \in Seq(Char) /\ Len(tail) \in Nat  BY <1>1, TailIs
<1>9. /\ uri \in Seq(Char) /\ Len(uri) = e[Len(us)] + Len(tail)
      /\ \A k \in 1..Len(flat) : uri[k] = flat[k]
      /\ \A k \in 1..Len(tail) : uri[e[Len(us)] + k] = tail[k]
  <2>1. /\ flat \o tail \in Seq(Char) /\ Len(flat \o tail) = Len(flat) + Len(tail)
        /\ \A k \in 1..Len(flat) : (flat \o tail)[k] = flat[k]
        /\ \A k \in 1..Len(tail) : (flat \o tail)[Len(flat) + k] = tail[k]
    BY <1>4, <1>8, Joined
  <2> QED  BY <1>5, <1>7, <2>1
<1>10. ASSUME NEW n \in 1..Len(us), NEW k \in 1..Len(us[n].text)
       PROVE  uri[e[n - 1] + k] = us[n].text[k]
  <2>1. /\ e[n - 1] \in Nat /\ e[n] = e[n - 1] + Len(us[n].text)
        /\ e[n] <= e[Len(us)] /\ e[Len(us)] \in Nat
    <3>1. n - 1 \in 0..Len(us) /\ Len(us) \in 0..Len(us)  BY <1>2
    <3> QED  BY <1>3, <1>5, <1>6, <3>1 DEF Ends
  <2>2. Len(us[n].text) \in Nat  BY <1>2, UnitIs, LenProperties
  <2>3. e[n - 1] + k \in 1..Len(flat)  BY <1>5, <2>1, <2>2
  <2>4. flat[e[n - 1] + k] = us[n].text[k]  BY <1>5, <1>6
  <2> QED  BY <1>9, <2>3, <2>4
<1>11. LaidOut(us, e)
  BY <1>1, <1>2, <1>5, <1>9, <1>10 DEF LaidOut
<1>12. At(us, e, 0) /\ 0 \in 0..Len(us)
  <2>1. e[0] = 0  BY <1>5 DEF Ends
  <2>2. [k \in 1..0 |-> us[k].means] = <<>>  OBVIOUS
  <2> QED  BY <1>2, <2>1, <2>2 DEF At, HandlerInit
<1>13. Decoding(us, e)  BY <1>12 DEF Decoding, HandlerInit
<1>14. HandlerTypeOK  BY <1>9 DEF HandlerTypeOK, HandlerInit
<1> QED  BY <1>11, <1>13, <1>14 DEF DecodeInv

(* Where a unit lies in the uri. *)
LEMMA InUri ==
  ASSUME NEW us, NEW e, LaidOut(us, e), NEW n \in 0..Len(us)
  PROVE  /\ Len(us) \in Nat /\ e[n] \in Nat /\ Len(uri) \in Nat
         /\ n = Len(us) =>
              /\ Len(uri) = e[n] + Len(tail)
              /\ \A k \in 1..Len(tail) : uri[e[n] + k] = tail[k]
         /\ n # Len(us) =>
              /\ n + 1 \in 1..Len(us) /\ us[n + 1] \in Unit
              /\ e[n + 1] = e[n] + Len(us[n + 1].text) /\ e[n + 1] <= Len(uri)
              /\ \A k \in 1..Len(us[n + 1].text) : uri[e[n] + k] = us[n + 1].text[k]
<1>1. /\ us \in Seq(Unit) /\ Len(us) \in Nat /\ Len(uri) \in Nat
      /\ Len(Texts(us)) = Len(us)
      /\ \A m \in 1..Len(us) : us[m] \in Unit /\ Texts(us)[m] = us[m].text
  <2>1. us \in Seq(Unit) /\ uri \in Seq(Char)  BY DEF LaidOut
  <2>2. Len(us) \in Nat /\ Len(uri) \in Nat  BY <2>1, LenProperties
  <2>3. \A m \in 1..Len(us) : us[m] \in Unit  BY <2>1, ElementOfSeq
  <2> QED  BY <2>1, <2>2, <2>3 DEF Texts
<1>2. /\ \A m \in 0..Len(us) : e[m] \in Nat
      /\ \A m \in 1..Len(us) :
           e[m] = e[m - 1] + Len(us[m].text) /\ e[m] <= e[Len(us)]
  BY <1>1 DEF LaidOut, Ends
<1>3. /\ Len(uri) = e[Len(us)] + Len(tail) /\ Len(tail) \in Nat
      /\ \A k \in 1..Len(tail) : uri[e[Len(us)] + k] = tail[k]
  BY TailIs DEF LaidOut
<1>4. ASSUME n # Len(us)
      PROVE  /\ n + 1 \in 1..Len(us) /\ us[n + 1] \in Unit
             /\ e[n + 1] = e[n] + Len(us[n + 1].text) /\ e[n + 1] <= Len(uri)
             /\ \A k \in 1..Len(us[n + 1].text) :
                  uri[e[n] + k] = us[n + 1].text[k]
  <2>1. n + 1 \in 1..Len(us) /\ (n + 1) - 1 = n  BY <1>1, <1>4
  <2>2. e[n + 1] <= e[Len(us)] /\ e[n + 1] \in Nat /\ e[Len(us)] \in Nat
    BY <1>1, <1>2, <2>1
  <2>3. e[n + 1] <= Len(uri)  BY <1>3, <2>2
  <2>4. \A k \in 1..Len(us[n + 1].text) :
          uri[e[(n + 1) - 1] + k] = us[n + 1].text[k]
    BY <2>1 DEF LaidOut
  <2> QED  BY <1>1, <1>2, <2>1, <2>3, <2>4
<1> QED  BY <1>1, <1>2, <1>3, <1>4

(* What is read of the next unit. *)
LEMMA NextUnit ==
  ASSUME DecodeInv, Decode, NEW us, NEW e, LaidOut(us, e),
         NEW n \in 0..Len(us), n # Len(us), At(us, e, n)
  PROVE  /\ path' = Append(path, us[n + 1].means)
         /\ i' = e[n + 1] + 1
         /\ stage' = stage
<1> DEFINE u == us[n + 1]
<1>1. /\ e[n] \in Nat /\ Len(uri) \in Nat /\ u \in Unit
      /\ e[n + 1] = e[n] + Len(u.text) /\ e[n + 1] <= Len(uri)
      /\ \A k \in 1..Len(u.text) : uri[e[n] + k] = u.text[k]
  BY InUri
<1>2. i = e[n] + 1  BY DEF At
<1> HIDE DEF u
<1>3. CASE Len(u.text) = 1
  <2>1. uri[i] = u.text[1] /\ e[n + 1] + 1 = i + 1  BY <1>1, <1>2, <1>3
  <2>2. CASE u.text[1] \notin {"%", "+"} /\ u.means = u.text[1]
    <3>1. uri[i] \notin {"%", "+"} /\ uri[i] = u.means  BY <2>1, <2>2
    <3>2. Add(u.means, 1)  BY <3>1 DEF Decode
    <3> QED  BY <2>1, <3>2 DEF Add, u
  <2>3. CASE u.text[1] = "+" /\ u.means = "space"
    <3>1. Add(u.means, 1)  BY <2>1, <2>3 DEF Decode
    <3> QED  BY <2>1, <3>1 DEF Add, u
  <2>4. \/ u.text[1] \notin {"%", "+"} /\ u.means = u.text[1]
        \/ u.text[1] = "+" /\ u.means = "space"
    <3>1. ~(Len(u.text) = 3)  BY <1>3
    <3> QED  BY <1>1, <3>1, UnitIs
  <2> QED  BY <2>2, <2>3, <2>4
<1>4. CASE Len(u.text) = 3
  <2>1. /\ u.text[1] = "%" /\ u.text[2] \in {"0", "2"}
        /\ u.means = ByteOf(<<u.text[2], u.text[3]>>)
    BY <1>1, <1>4, UnitIs
  <2>2. /\ uri[i] = "%" /\ uri[i + 1] = u.text[2] /\ uri[i + 2] = u.text[3]
        /\ i + 2 <= Len(uri) /\ e[n + 1] + 1 = i + 3 /\ i \in Nat
    <3>1. 1 \in 1..Len(u.text) /\ 2 \in 1..Len(u.text) /\ 3 \in 1..Len(u.text)
      BY <1>4
    <3>2. uri[e[n] + 1] = "%" /\ uri[e[n] + 2] = u.text[2] /\ uri[e[n] + 3] = u.text[3]
      BY <1>1, <2>1, <3>1
    <3>3. /\ i = e[n] + 1 /\ e[n] \in Nat /\ Len(uri) \in Nat
          /\ e[n + 1] = e[n] + 3 /\ e[n + 1] <= Len(uri)
      BY <1>1, <1>2, <1>4
    <3>4. \A m, l \in Nat : m + 3 <= l =>
            /\ (m + 1) + 1 = m + 2 /\ (m + 1) + 2 = m + 3
            /\ (m + 1) + 2 <= l /\ (m + 3) + 1 = (m + 1) + 3 /\ m + 1 \in Nat
      OBVIOUS
    <3>5. /\ i + 1 = e[n] + 2 /\ i + 2 = e[n] + 3
          /\ i + 2 <= Len(uri) /\ e[n + 1] + 1 = i + 3 /\ i \in Nat
      BY <3>3, <3>4
    <3> QED  BY <1>2, <3>2, <3>5
  <2>3. Two = <<u.text[2], u.text[3]>>
    <3>1. Two = SubSeq(uri, i + 1, i + 2)
      <4>1. ~(i + 2 > Len(uri))  BY <1>1, <2>2
      <4> QED  BY <4>1 DEF Two
    <3>2. uri \in Seq(Char) /\ i + 1 \in 1..Len(uri) /\ i + 2 \in (i + 1)..Len(uri)
      BY <1>1, <2>2 DEF DecodeInv, HandlerTypeOK
    <3> QED  BY <2>1, <2>2, <3>1, <3>2, TwoOf
  <2>4. TwoFollow /\ IsNumber(Two)
    <3>1. Two[1] \in {"0", "2"}  BY <2>1, <2>3
    <3> QED  BY <2>2, <3>1 DEF TwoFollow, IsNumber, Hex
  <2>5. Add(ByteOf(Two), 3)  BY <2>2, <2>4 DEF Decode
  <2> QED  BY <2>1, <2>2, <2>3, <2>5 DEF Add, u
<1> QED  BY <1>1, <1>3, <1>4, UnitIs

(* What is read of the tail: what is refused is broken. *)
LEMMA NextTail ==
  ASSUME DecodeInv, Decode, NEW us, NEW e, LaidOut(us, e), At(us, e, Len(us))
  PROVE  \/ tail \in Broken /\ stage' = "done" /\ i' = i /\ path' = path
         \/ /\ tail \notin Broken /\ tail # <<>>
            /\ stage' = stage /\ i' > Len(uri)
            /\ i' \in Nat /\ path' = Append(path, ByteOf(Two))
<1> DEFINE b == e[Len(us)]
<1>1. /\ b \in Nat /\ Len(uri) = b + Len(tail)
      /\ \A k \in 1..Len(tail) : uri[b + k] = tail[k]
  <2>1. Len(us) \in 0..Len(us)
    <3>1. us \in Seq(Unit)  BY DEF LaidOut
    <3>2. Len(us) \in Nat  BY <3>1, LenProperties
    <3> QED  BY <3>2
  <2> QED  BY <2>1, InUri
<1>2. i = b + 1 /\ tail \in Tails /\ i <= Len(uri)  BY DEF At, LaidOut, Decode
<1> HIDE DEF b
<1>3. tail # <<>> /\ Len(tail) \in Nat /\ Len(tail) >= 1 /\ tail[1] = "%"
  BY <1>1, <1>2, TailIs
<1>4. uri[i] = "%" /\ i \in Nat  BY <1>1, <1>2, <1>3
<1>5. \/ TwoFollow /\ IsNumber(Two) /\ Add(ByteOf(Two), 3)
      \/ ~(TwoFollow /\ IsNumber(Two)) /\ Refuse
  BY <1>4 DEF Decode
<1>6. ASSUME Len(tail) = 3
      PROVE  Two = <<tail[2], tail[3]>> /\ TwoFollow /\ i + 3 > Len(uri)
  <2>1. i + 2 <= Len(uri) /\ i + 3 > Len(uri)  BY <1>1, <1>2, <1>6
  <2>2. uri[i + 1] = tail[2] /\ uri[i + 2] = tail[3]
    <3>1. uri[b + 2] = tail[2] /\ uri[b + 3] = tail[3]  BY <1>1, <1>6
    <3>2. i + 1 = b + 2 /\ i + 2 = b + 3  BY <1>1, <1>2
    <3> QED  BY <3>1, <3>2
  <2>3. Two = SubSeq(uri, i + 1, i + 2)
    <3>1. ~(i + 2 > Len(uri))  BY <1>1, <1>3, <1>4, <2>1
    <3> QED  BY <3>1 DEF Two
  <2>4. uri \in Seq(Char) /\ i + 1 \in 1..Len(uri) /\ i + 2 \in (i + 1)..Len(uri)
    BY <1>1, <1>3, <1>4, <2>1 DEF DecodeInv, HandlerTypeOK
  <2>5. Two = <<tail[2], tail[3]>>  BY <1>4, <2>2, <2>3, <2>4, TwoOf
  <2> QED  BY <2>1, <2>5 DEF TwoFollow
<1>7. CASE tail \in Broken
  <2>1. ~(TwoFollow /\ IsNumber(Two))
    <3>1. CASE Len(tail) < 3
      <4>1. ~(i + 2 <= Len(uri))  BY <1>1, <1>2, <1>3, <3>1
      <4> QED  BY <4>1 DEF TwoFollow
    <3>2. CASE Len(tail) = 3 /\ tail[2] = "gif"
      <4>1. Two[1] = "gif"  BY <1>6, <3>2
      <4> QED  BY <4>1 DEF IsNumber, Hex
    <3>3. CASE Len(tail) = 3 /\ tail[2] = "+" /\ tail[3] = "gif"
      <4>1. Two[1] = "+" /\ Two[2] = "gif"  BY <1>6, <3>3
      <4> QED  BY <4>1 DEF IsNumber, Hex
    <3> QED  BY <1>2, <1>7, <3>1, <3>2, <3>3, TailIs
  <2> QED  BY <1>5, <1>7, <2>1 DEF Refuse
<1>8. CASE tail \notin Broken
  <2>1. Len(tail) = 3 /\ tail[2] = "2"  BY <1>2, <1>3, <1>8, TailIs
  <2>2. Two[1] = "2"  BY <1>6, <2>1
  <2>3. TwoFollow /\ IsNumber(Two)  BY <1>6, <2>1, <2>2 DEF IsNumber, Hex
  <2>4. Add(ByteOf(Two), 3)  BY <1>5, <2>3
  <2> QED  BY <1>3, <1>4, <1>6, <1>8, <2>1, <2>4 DEF Add
<1> QED  BY <1>7, <1>8

(* A turn of the loop. *)
LEMMA DecodeStep == ASSUME DecodeInv, Decode PROVE DecodeInv'
<1>1. PICK us, e : LaidOut(us, e) /\ Decoding(us, e)  BY DEF DecodeInv
<1>2. stage = "decode" /\ i <= Len(uri) /\ UNCHANGED <<input, file, unread>>
  BY DEF Decode, Add, Refuse, reading
<1>3. LaidOut(us, e)'  BY <1>1, <1>2 DEF LaidOut, input
<1>4. i \in Nat \ {0} /\ path \in Seq(Char) /\ Len(uri) \in Nat
  <2>1. uri \in Seq(Char)  BY <1>1 DEF LaidOut
  <2> QED  BY <2>1, LenProperties DEF DecodeInv, HandlerTypeOK
<1>5. PICK n \in 0..Len(us) : At(us, e, n)
  <2>1. ~Behind  BY <1>2, <1>4 DEF Behind
  <2> QED  BY <1>1, <1>2, <2>1 DEF Decoding
<1>6. CASE n # Len(us)
  <2>1. /\ path' = Append(path, us[n + 1].means) /\ i' = e[n + 1] + 1
        /\ stage' = "decode"
    BY <1>1, <1>2, <1>5, <1>6, NextUnit
  <2>2. /\ n + 1 \in 1..Len(us) /\ n + 1 \in 0..Len(us) /\ us[n + 1] \in Unit
        /\ n \in Nat /\ e[n + 1] \in Nat
    <3>1. n + 1 \in 1..Len(us) /\ us[n + 1] \in Unit /\ Len(us) \in Nat
      BY <1>1, <1>5, <1>6, InUri
    <3>2. n + 1 \in 0..Len(us) /\ n \in Nat  BY <3>1
    <3> QED  BY <1>1, <3>1, <3>2, InUri
  <2>3. At(us, e, n + 1)'
    <3>1. path = [k \in 1..n |-> us[k].means]  BY <1>5 DEF At
    <3>2. Append(path, us[n + 1].means) = [k \in 1..n + 1 |-> us[k].means]
      BY <2>2, <3>1
    <3> QED  BY <2>1, <3>2 DEF At
  <2>4. Decoding(us, e)'  BY <2>1, <2>2, <2>3 DEF Decoding
  <2>5. us[n + 1].means \in Char  BY <2>2, UnitIs
  <2>6. HandlerTypeOK'
    BY <1>2, <1>4, <2>1, <2>2, <2>5 DEF HandlerTypeOK, DecodeInv, input
  <2> QED  BY <1>3, <2>4, <2>6 DEF DecodeInv
<1>7. CASE n = Len(us)
  <2>1. \/ tail \in Broken /\ stage' = "done" /\ i' = i /\ path' = path
        \/ /\ tail \notin Broken /\ tail # <<>>
           /\ stage' = "decode" /\ i' > Len(uri)
           /\ i' \in Nat /\ path' = Append(path, ByteOf(Two))
    BY <1>1, <1>2, <1>5, <1>7, NextTail
  <2>2. CASE tail \in Broken /\ stage' = "done" /\ i' = i /\ path' = path
    <3>1. Decoding(us, e)'  BY <1>2, <2>2 DEF Decoding, input
    <3>2. HandlerTypeOK'
      BY <1>2, <2>2 DEF HandlerTypeOK, DecodeInv, input
    <3> QED  BY <1>3, <3>1, <3>2 DEF DecodeInv
  <2>3. CASE /\ tail \notin Broken /\ tail # <<>>
             /\ stage' = "decode" /\ i' > Len(uri)
             /\ i' \in Nat /\ path' = Append(path, ByteOf(Two))
    <3>1. Behind'  BY <1>2, <2>3 DEF Behind, input
    <3>2. Decoding(us, e)'  BY <2>3, <3>1 DEF Decoding
    <3>3. ByteOf(Two) \in Char  BY DEF ByteOf, Char
    <3>4. HandlerTypeOK'
      <4>1. path' \in Seq(Char) /\ i' \in Nat \ {0}  BY <1>4, <2>3, <3>3
      <4> QED  BY <1>2, <2>3, <4>1 DEF HandlerTypeOK, DecodeInv, input
    <3> QED  BY <1>3, <3>2, <3>4 DEF DecodeInv
  <2> QED  BY <2>1, <2>2, <2>3
<1> QED  BY <1>6, <1>7

(* The end of the loop: nothing is left of the uri. *)
LEMMA DecodedStep == ASSUME DecodeInv, Decoded PROVE DecodeInv'
<1>1. PICK us, e : LaidOut(us, e) /\ Decoding(us, e)  BY DEF DecodeInv
<1>2. /\ stage = "decode" /\ i > Len(uri) /\ stage' = "check"
      /\ UNCHANGED <<input, i, path, file, unread>>
  BY DEF Decoded, reading
<1>3. LaidOut(us, e)'  BY <1>1, <1>2 DEF LaidOut, input
<1>4. HandlerTypeOK'  BY <1>2 DEF HandlerTypeOK, DecodeInv, input
<1>5. tail \notin Broken /\ (tail = <<>> => path = means)
  <2>1. CASE Behind  BY <2>1 DEF Behind
  <2>2. ASSUME NEW n \in 0..Len(us), At(us, e, n)
        PROVE  tail \notin Broken /\ (tail = <<>> => path = means)
    <3>1. /\ Len(us) \in Nat /\ e[n] \in Nat /\ Len(uri) \in Nat
          /\ i = e[n] + 1
      BY <1>1, <2>2, InUri DEF At
    <3>2. n = Len(us)
      <4> SUFFICES ASSUME n # Len(us) PROVE FALSE  OBVIOUS
      <4>1. /\ us[n + 1] \in Unit
            /\ e[n + 1] = e[n] + Len(us[n + 1].text) /\ e[n + 1] <= Len(uri)
        BY <1>1, InUri
      <4>2. Len(us[n + 1].text) = 1 \/ Len(us[n + 1].text) = 3
        BY <4>1, UnitIs
      <4> DEFINE d == Len(us[n + 1].text)
      <4>3. d \in {1, 3} /\ e[n + 1] = e[n] + d
        <5>1. d \in {1, 3}  BY <4>2
        <5> HIDE DEF d
        <5> QED  BY <4>1, <5>1 DEF d
      <4> HIDE DEF d
      <4>4. e[n] + d >= e[n] + 1 /\ e[n] + d \in Nat  BY <3>1, <4>3
      <4> QED  BY <1>2, <3>1, <4>1, <4>3, <4>4
    <3>3. Len(uri) = e[n] + Len(tail)  BY <1>1, <3>2, InUri
    <3>4. tail \in Tails  BY <1>1 DEF LaidOut
    <3>5. tail = <<>>
      <4>1. ~(Len(tail) >= 1) /\ Len(tail) \in Nat
        BY <1>2, <3>1, <3>3, <3>4, TailIs
      <4> QED  BY <3>4, <4>1, TailIs
    <3>6. path = means  BY <1>1, <2>2, <3>2 DEF At, LaidOut
    <3> QED  BY <3>4, <3>5, <3>6, TailIs
  <2> QED  BY <1>1, <1>2, <2>1, <2>2 DEF Decoding
<1>6. Decoding(us, e)'  BY <1>2, <1>5 DEF Decoding, input
<1> QED  BY <1>3, <1>4, <1>6 DEF DecodeInv

(* What is behind the loop reads neither uri nor i. *)
LEMMA AnsweringStep ==
  ASSUME DecodeInv, stage \in {"check", "read"}, stage' \in {"read", "done"},
         UNCHANGED <<input, i>>, path' \in Seq(Char), file' \in Nat, unread' \in Nat
  PROVE  DecodeInv'
<1>1. PICK us, e : LaidOut(us, e) /\ Decoding(us, e)  BY DEF DecodeInv
<1>2. LaidOut(us, e)'  BY <1>1 DEF LaidOut, input
<1>3. HandlerTypeOK'  BY DEF HandlerTypeOK, DecodeInv, input
<1>4. i > Len(uri) /\ i \in Nat /\ Len(uri) \in Nat
  <2>1. uri \in Seq(Char)  BY <1>1 DEF LaidOut
  <2> QED  BY <1>1, <2>1, LenProperties DEF Decoding, DecodeInv, HandlerTypeOK
<1>5. i' > Len(uri') /\ ~(i' <= Len(uri'))  BY <1>4 DEF input
<1>6. Decoding(us, e)'  BY <1>5 DEF Decoding
<1> QED  BY <1>2, <1>3, <1>6 DEF DecodeInv

-----------------------------------------------------------------------------
(* The path.  What is opened is a proper path, completed. *)

LEMMA CompletedIs ==
  ASSUME NEW p \in Seq(Char), IsProper(p)
  PROVE  /\ Completed(p) \in Seq(Char) /\ Len(Completed(p)) \in Nat \ {0}
         /\ Completed(p)[1] = "/"
         /\ Completed(p)[Len(Completed(p))] # "/"
         /\ \A k \in 1..Len(Completed(p)) - 1 :
              ~(Completed(p)[k] = "." /\ Completed(p)[k + 1] = ".")
<1>1. /\ Len(p) \in Nat \ {0} /\ p[1] = "/"
      /\ \A k \in 1..Len(p) - 1 : SubSeq(p, k, k + 1) # <<".", ".">>
  BY EmptySeq DEF IsProper
<1>2. \A k \in 1..Len(p) - 1 : ~(p[k] = "." /\ p[k + 1] = ".")
  <2> TAKE k \in 1..Len(p) - 1
  <2>1. k - 1 \in Nat /\ (k - 1) + 1 = k /\ (k - 1) + 2 = k + 1
        /\ k \in 1..Len(p) /\ k + 1 \in k..Len(p)
    BY <1>1
  <2>2. SubSeq(p, (k - 1) + 1, (k - 1) + 2) = <<p[(k - 1) + 1], p[(k - 1) + 2]>>
    BY <2>1, TwoOf
  <2>3. SubSeq(p, k, k + 1) = <<p[k], p[k + 1]>>  BY <2>1, <2>2
  <2> QED  BY <1>1, <2>3
<1>3. CASE p[Len(p)] # "/"
  <2>1. Completed(p) = p  BY <1>3 DEF Completed, Last
  <2> QED  BY <1>1, <1>2, <1>3, <2>1
<1>4. CASE p[Len(p)] = "/"
  <2> DEFINE t == <<"index", ".", "html">>
             l == Len(p)
             q == p \o t
  <2>1. Completed(p) = q  BY <1>4 DEF Completed, Last
  <2>2. t \in Seq(Char) /\ Len(t) = 3 /\ t[1] = "index" /\ t[2] = "." /\ t[3] = "html"
    BY DEF Char
  <2> HIDE DEF t
  <2>3. /\ q \in Seq(Char) /\ Len(q) = l + 3
        /\ \A k \in 1..l : q[k] = p[k]
        /\ q[l + 1] = "index" /\ q[l + 2] = "." /\ q[l + 3] = "html"
    <3>1. /\ p \o t \in Seq(Char) /\ Len(p \o t) = Len(p) + Len(t)
          /\ \A k \in 1..Len(p) : (p \o t)[k] = p[k]
          /\ \A k \in 1..Len(t) : (p \o t)[Len(p) + k] = t[k]
      <4>1. t \in Seq(Char)  BY <2>2
      <4> QED  BY <4>1, Joined
    <3>2. 1 \in 1..Len(t) /\ 2 \in 1..Len(t) /\ 3 \in 1..Len(t)  BY <2>2
    <3> QED  BY <2>2, <3>1, <3>2
  <2> HIDE DEF q
  <2>4. \A k \in 1..Len(q) - 1 :
          \/ k \in 1..l - 1 /\ k \in 1..l /\ k + 1 \in 1..l
          \/ k = l \/ k = l + 1
          \/ k = l + 2 /\ k + 1 = l + 3
    <3>1. l \in Nat /\ l # 0 /\ Len(q) - 1 = l + 2  BY <1>1, <2>3
    <3>2. \A k \in 1..l + 2 :
            \/ k \in 1..l - 1 /\ k \in 1..l /\ k + 1 \in 1..l
            \/ k = l \/ k = l + 1 \/ k = l + 2
      <4> HIDE DEF l
      <4> QED  BY <3>1
    <3>3. (l + 2) + 1 = l + 3  BY <3>1
    <3> QED  BY <3>1, <3>2, <3>3
  <2>5. q[l] = "/" /\ q[1] = "/"  BY <1>1, <1>4, <2>3
  <2>6. \A k \in 1..Len(q) - 1 : ~(q[k] = "." /\ q[k + 1] = ".")
    BY <1>2, <2>3, <2>4, <2>5
  <2>7. Len(q) \in Nat \ {0} /\ q[Len(q)] # "/"  BY <1>1, <2>3
  <2> QED  BY <2>1, <2>3, <2>5, <2>6, <2>7
<1> QED  BY <1>3, <1>4

(* A name and its extension. *)
LEMMA SuffixIs ==
  ASSUME NEW p \in Seq(Char), NEW c \in Char
  PROVE  IsSuffix(<<".", c>>, p) <=>
           Len(p) >= 2 /\ p[Len(p) - 1] = "." /\ p[Len(p)] = c
<1> DEFINE s == <<".", c>>
           l == Len(p)
           r == Reverse(p)
<1>1. l \in Nat  BY LenProperties
<1>2. Reverse(s) = <<c, ".">>
  <2>1. \A k \in 1..2 : s[(2 - k) + 1] = <<c, ".">>[k]  OBVIOUS
  <2> QED  BY <2>1 DEF Reverse
<1>3. /\ r \in Seq(Char) /\ Len(r) = l
      /\ \A k \in 1..l : r[k] = p[(l - k) + 1]
  <2>1. \A k \in 1..l : (l - k) + 1 \in 1..l  BY <1>1
  <2>2. \A k \in 1..l : p[(l - k) + 1] \in Char  BY <2>1, ElementOfSeq
  <2> QED  BY <1>1, <2>2 DEF Reverse
<1>4. IsSuffix(s, p) <=>
        2 <= l /\ SubSeq(<<c, ".">>, 1, 2) = SubSeq(r, 1, 2)
  <2> HIDE DEF r
  <2> QED  BY <1>2, <1>3 DEF IsSuffix, IsPrefix, r
<1> HIDE DEF r
<1>5. SubSeq(<<c, ".">>, 1, 2) = <<c, ".">>
  <2>1. <<c, ".">> \in Seq(Char) /\ Len(<<c, ".">>) = 2  BY DEF Char
  <2> QED  BY <2>1, SubSeqFull
<1>6. ASSUME l >= 2
      PROVE  SubSeq(r, 1, 2) = <<p[l], p[l - 1]>>
  <2>1. 0 + 1 \in 1..Len(r) /\ 0 + 2 \in (0 + 1)..Len(r) /\ 0 \in Nat
    BY <1>1, <1>3, <1>6
  <2>2. SubSeq(r, 0 + 1, 0 + 2) = <<r[0 + 1], r[0 + 2]>>
    BY <1>3, <2>1, TwoOf
  <2>3. /\ 1 \in 1..l /\ 2 \in 1..l
        /\ (l - 1) + 1 = l /\ (l - 2) + 1 = l - 1 /\ 0 + 1 = 1 /\ 0 + 2 = 2
    BY <1>1, <1>6
  <2>4. r[1] = p[l] /\ r[2] = p[l - 1]  BY <1>3, <2>3
  <2> QED  BY <2>2, <2>3, <2>4
<1>7. <<p[l], p[l - 1]>> = <<c, ".">> <=> p[l] = c /\ p[l - 1] = "."
  OBVIOUS
<1> QED  BY <1>1, <1>4, <1>5, <1>6, <1>7

LEMMA ExtensionIs ==
  ASSUME NEW p \in Seq(Char), p # <<>>, p[1] = "/",
         NEW c \in {"gif", "htm", "html", "jpg", "png"}
  PROVE  Extension(p) = <<c>> <=> IsSuffix(<<".", c>>, p)
<1> DEFINE l == Len(p)
           S == {n \in 1..l : p[n] \in {".", "/"}}
           k == Max(S)
<1>1. l \in Nat /\ l # 0 /\ \A n \in 1..l : p[n] \in Char
  BY EmptySeq, LenProperties, ElementOfSeq
<1>2. 1 \in S  BY <1>1
<1>3. SelectLastInSeq(p, LAMBDA d : d \in {".", "/"}) = k
  BY <1>2 DEF SelectLastInSeq
<1>4. Extension(p) = IF p[k] = "." THEN SubSeq(p, k + 1, Len(p)) ELSE <<>>
  BY <1>3 DEF Extension
<1>5. \A n \in 1..l : n \in S <=> p[n] \in {".", "/"}  OBVIOUS
<1>6. S \subseteq 0..l  BY <1>1
<1>7. S \subseteq 1..l  OBVIOUS
<1> HIDE DEF S
<1>8. k \in S /\ \A n \in S : n <= k  BY <1>1, <1>2, <1>6, Greatest
<1>9. k \in 1..l /\ k \in Nat
  <2> HIDE DEF k
  <2>1. k \in 1..l  BY <1>7, <1>8
  <2> QED  BY <1>1, <2>1
<1> HIDE DEF k
<1> DEFINE e == SubSeq(p, k + 1, Len(p))
<1>10. Len(e) = l - k /\ (l - k >= 1 => e[1] = p[k + 1])
  <2>1. \A n \in (k + 1)..l : p[n] \in Char  BY <1>1, <1>9
  <2>2. /\ Len(e) = IF k + 1 <= l THEN l - (k + 1) + 1 ELSE 0
        /\ \A n \in 1..l - (k + 1) + 1 : e[n] = p[(k + 1) + n - 1]
        /\ e \in Seq(Char)
    <3>1. k + 1 \in Int /\ l \in Int  BY <1>1, <1>9
    <3> HIDE DEF l
    <3> QED  BY <2>1, <3>1, SubSeqProperties DEF l
  <2>3. (IF k + 1 <= l THEN l - (k + 1) + 1 ELSE 0) = l - k
        /\ (l - k >= 1 => 1 \in 1..l - (k + 1) + 1) /\ (k + 1) + 1 - 1 = k + 1
    BY <1>1, <1>9
  <2> HIDE DEF e
  <2> QED  BY <2>2, <2>3
<1>11. e \in Seq(Char)
  <2>1. \A n \in (k + 1)..l : p[n] \in Char  BY <1>1, <1>9
  <2>2. k + 1 \in Int /\ l \in Int  BY <1>1, <1>9
  <2> QED  BY <2>1, <2>2, SubSeqProperties
<1> HIDE DEF e
<1>12. e = <<c>> <=> l = k + 1 /\ p[k + 1] = c
  <2>1. e = <<c>> <=> Len(e) = 1 /\ e[1] = c  BY <1>11
  <2>2. l - k = 1 <=> l = k + 1  BY <1>1, <1>9
  <2>3. l - k = 1 => l - k >= 1  BY <1>1, <1>9
  <2> QED  BY <1>10, <2>1, <2>2, <2>3
<1>13. Extension(p) = <<c>> <=> p[k] = "." /\ l = k + 1 /\ p[k + 1] = c
  <2>1. <<>> # <<c>>  OBVIOUS
  <2> QED  BY <1>4, <1>12, <2>1 DEF e
<1>14. ASSUME l >= 2, p[l - 1] = ".", p[l] = c
       PROVE  k = l - 1
  <2>1. l - 1 \in 1..l /\ l \in 1..l  BY <1>1, <1>14
  <2>2. l - 1 \in S /\ l \notin S  BY <1>5, <1>14, <2>1
  <2>3. l - 1 <= k /\ k # l  BY <1>8, <2>2
  <2> QED  BY <1>1, <1>9, <2>3
<1>15. ASSUME l >= 2, p[l - 1] = ".", p[l] = c
       PROVE  p[k] = "." /\ l = k + 1 /\ p[k + 1] = c
  <2>1. l = (l - 1) + 1  BY <1>1
  <2> QED  BY <1>14, <1>15, <2>1
<1>16. ASSUME p[k] = ".", l = k + 1, p[k + 1] = c
       PROVE  l >= 2 /\ p[l - 1] = "." /\ p[l] = c
  <2>1. l - 1 = k /\ l >= 2  BY <1>9, <1>16
  <2> QED  BY <1>16, <2>1
<1>17. c \in Char  BY DEF Char
<1>18. IsSuffix(<<".", c>>, p) <=> l >= 2 /\ p[l - 1] = "." /\ p[l] = c
  BY <1>17, SuffixIs
<1> QED  BY <1>13, <1>15, <1>16, <1>18

(* The type that a file's name says. *)
TypeOf(gif, jpg, png, htm, html) ==
  CASE gif -> "image/gif" [] jpg -> "image/jpeg" [] png -> "image/png"
    [] htm \/ html -> "text/html" [] OTHER -> "text/plain"

LEMMA TypeIs ==
  ASSUME NEW p \in Seq(Char), p # <<>>, p[1] = "/"
  PROVE  extension_to_type(Extension(p)) =
           TypeOf(IsSuffix(<<".", "gif">>, p), IsSuffix(<<".", "jpg">>, p),
                  IsSuffix(<<".", "png">>, p), IsSuffix(<<".", "htm">>, p),
                  IsSuffix(<<".", "html">>, p))
<1> DEFINE e == Extension(p)
           gif == IsSuffix(<<".", "gif">>, p)
           jpg == IsSuffix(<<".", "jpg">>, p)
           png == IsSuffix(<<".", "png">>, p)
           htm == IsSuffix(<<".", "htm">>, p)
           html == IsSuffix(<<".", "html">>, p)
           named == {<<"gif">>, <<"htm">>, <<"html">>, <<"jpg">>, <<"png">>}
<1>1. /\ e = <<"gif">> <=> gif
      /\ e = <<"jpg">> <=> jpg
      /\ e = <<"png">> <=> png
      /\ e = <<"htm">> <=> htm
      /\ e = <<"html">> <=> html
  BY ExtensionIs
<1> HIDE DEF e, gif, jpg, png, htm, html
<1>2. /\ <<"gif">> # <<"jpg">> /\ <<"gif">> # <<"png">> /\ <<"gif">> # <<"htm">>
      /\ <<"gif">> # <<"html">> /\ <<"jpg">> # <<"png">> /\ <<"jpg">> # <<"htm">>
      /\ <<"jpg">> # <<"html">> /\ <<"png">> # <<"htm">> /\ <<"png">> # <<"html">>
      /\ <<"htm">> # <<"html">>
  OBVIOUS
<1>3. /\ DOMAIN mappings = named
      /\ mappings[<<"gif">>] = "image/gif" /\ mappings[<<"jpg">>] = "image/jpeg"
      /\ mappings[<<"png">>] = "image/png" /\ mappings[<<"htm">>] = "text/html"
      /\ mappings[<<"html">>] = "text/html"
  BY <1>2 DEF mappings
<1>4. CASE e \in named
  <2>1. extension_to_type(e) = mappings[e]  BY <1>3, <1>4 DEF extension_to_type
  <2>2. CASE e = <<"gif">>  BY <1>1, <1>2, <1>3, <2>1, <2>2 DEF TypeOf, e, gif, jpg, png, htm, html
  <2>3. CASE e = <<"jpg">>  BY <1>1, <1>2, <1>3, <2>1, <2>3 DEF TypeOf, e, gif, jpg, png, htm, html
  <2>4. CASE e = <<"png">>  BY <1>1, <1>2, <1>3, <2>1, <2>4 DEF TypeOf, e, gif, jpg, png, htm, html
  <2>5. CASE e = <<"htm">>  BY <1>1, <1>2, <1>3, <2>1, <2>5 DEF TypeOf, e, gif, jpg, png, htm, html
  <2>6. CASE e = <<"html">>  BY <1>1, <1>2, <1>3, <2>1, <2>6 DEF TypeOf, e, gif, jpg, png, htm, html
  <2> QED  BY <1>4, <2>2, <2>3, <2>4, <2>5, <2>6
<1>5. CASE e \notin named
  <2>1. extension_to_type(e) = "text/plain"  BY <1>3, <1>5 DEF extension_to_type
  <2>2. ~gif /\ ~jpg /\ ~png /\ ~htm /\ ~html  BY <1>1, <1>5
  <2> QED  BY <2>1, <2>2 DEF TypeOf, e, gif, jpg, png, htm, html
<1> QED  BY <1>4, <1>5

(* What is opened is the path, or a beginning of it that a zero byte ends. *)
LEMMA CStringIs ==
  ASSUME NEW p \in Seq(Char), p # <<>>, p[1] = "/"
  PROVE  /\ CString(p) \in Seq(Char) /\ Len(CString(p)) \in 1..Len(p)
         /\ \A n \in 1..Len(CString(p)) : CString(p)[n] = p[n]
         /\ "zero" \notin Range(p) => CString(p) = p
<1> DEFINE l == Len(p)
           S == {n \in 1..l : p[n] = "zero"}
<1>1. l \in Nat /\ l # 0 /\ \A n \in 1..l : p[n] \in Char
  BY EmptySeq, LenProperties, ElementOfSeq
<1>2. SelectInSeq(p, LAMBDA c : c = "zero") = IF S # {} THEN Min(S) ELSE 0
  BY DEF SelectInSeq
<1>3. CASE S = {}
  <2>1. CString(p) = p  BY <1>2, <1>3 DEF CString
  <2> QED  BY <1>1, <2>1
<1>4. CASE S # {}
  <2> DEFINE k == Min(S)
  <2>1. S \subseteq Nat  BY <1>1
  <2>2. \A n \in S : n \in 1..l /\ p[n] = "zero"  OBVIOUS
  <2>3. "zero" \in Range(p)
    <3>1. PICK n \in S : TRUE  BY <1>4
    <3>2. n \in DOMAIN p /\ p[n] = "zero"  BY <2>2, <3>1
    <3> QED  BY <3>2 DEF Range
  <2> HIDE DEF S
  <2>4. k \in S
    <3>1. \E m \in S : \A n \in S : m <= n  BY <1>4, <2>1, Least
    <3> QED  BY <3>1 DEF Min
  <2>5. k \in 1..l /\ p[k] = "zero"  BY <2>2, <2>4
  <2>6. k # 0 /\ k # 1 /\ k - 1 \in 1..l /\ k - 1 \in Nat
    BY <1>1, <2>5
  <2>7. CString(p) = SubSeq(p, 1, k - 1)  BY <1>2, <1>4, <2>6 DEF CString
  <2> HIDE DEF k
  <2> DEFINE m == k - 1
             s == SubSeq(p, 1, m)
  <2>8. m \in 1..l /\ m \in Nat  BY <2>6
  <2> HIDE DEF m
  <2>9. s \in Seq(Char) /\ Len(s) = m /\ \A n \in 1..m : s[n] = p[n]
    BY <1>1, <2>8
  <2> HIDE DEF s
  <2>10. CString(p) = s  BY <2>7 DEF s, m
  <2> QED  BY <2>3, <2>8, <2>9, <2>10
<1> QED  BY <1>3, <1>4

-----------------------------------------------------------------------------
(* Replies. *)

LEMMA Bare ==
  ASSUME NEW r, r.headers = <<>>
  PROVE  to_buffers(r) = <<to_buffer(r.status), "", r.content>>
<1> DEFINE line == to_buffer(r.status)
           n == r.content
           hs == [k \in DOMAIN r.headers |-> <<r.headers[k].name, r.headers[k].value>>]
<1>1. hs = <<>>
  <2>1. DOMAIN r.headers = {}  BY EmptySeq
  <2> QED  BY <2>1
<1> HIDE DEF hs
<1>2. FlattenSeq(hs) = <<>>  BY <1>1, EmptySeq DEF FlattenSeq
<1>3. to_buffers(r) = <<line>> \o <<>> \o <<"", n>>
  BY <1>2 DEF to_buffers, hs
<1> HIDE DEF line, n
<1>4. <<line>> \o <<>> = <<line>>
  <2>1. <<line>> \in Seq({line})  OBVIOUS
  <2> QED  BY <2>1, ConcatEmptySeq
<1>5. <<line>> \o <<"", n>> = <<line, "", n>>  BY OneAndTwo
<1> QED  BY <1>3, <1>4, <1>5 DEF line, n

LEMMA WithHeaders ==
  ASSUME NEW r, NEW m, NEW type, r.headers = Headers(m, type)
  PROVE  to_buffers(r) = <<to_buffer(r.status), "Content-Length", m,
                           "Content-Type", type, "", r.content>>
<1> DEFINE line == to_buffer(r.status)
           n == r.content
           X == {"Content-Length", m, "Content-Type", type}
           hs == [k \in DOMAIN r.headers |-> <<r.headers[k].name, r.headers[k].value>>]
<1>1. hs = <<<<"Content-Length", m>>, <<"Content-Type", type>>>>
  <2>1. DOMAIN r.headers = 1..2  BY DEF Headers
  <2>2. /\ r.headers[1].name = "Content-Length" /\ r.headers[1].value = m
        /\ r.headers[2].name = "Content-Type" /\ r.headers[2].value = type
    BY DEF Headers
  <2>3. \A k \in 1..2 : hs[k] = <<<<"Content-Length", m>>, <<"Content-Type", type>>>>[k]
    <3> TAKE k \in 1..2
    <3>1. hs[k] = <<r.headers[k].name, r.headers[k].value>>  BY <2>1
    <3>2. k = 1 \/ k = 2  OBVIOUS
    <3> QED  BY <2>2, <3>1, <3>2
  <2>4. hs = [k \in 1..2 |-> hs[k]]  BY <2>1
  <2> HIDE DEF hs
  <2> QED  BY <2>3, <2>4
<1>2. to_buffers(r) = <<line>> \o FlattenSeq(hs) \o <<"", n>>
  BY DEF to_buffers
<1> HIDE DEF hs, line, n
<1> DEFINE a == <<"Content-Length", m>>
           b == <<"Content-Type", type>>
<1>3. a \in Seq(X) /\ b \in Seq(X) /\ Len(a) = 2 /\ Len(b) = 2  OBVIOUS
<1>4. hs \in Seq(Seq(X)) /\ Len(hs) = 2 /\ hs[1] = a /\ hs[2] = b
  <2> HIDE DEF a, b, X
  <2>1. hs = <<a, b>>  BY <1>1 DEF a, b
  <2> QED  BY <1>3, <2>1
<1> HIDE DEF X
<1>5. FlattenSeq(hs) = <<"Content-Length", m, "Content-Type", type>>
  <2> DEFINE f == FlattenSeq(hs)
  <2>1. /\ f \in Seq(X)
        /\ \E e : /\ Ends(e, hs) /\ Len(f) = e[Len(hs)]
                  /\ \A j \in 1..Len(hs), k \in Nat :
                       k \in 1..Len(hs[j]) => f[e[j - 1] + k] = hs[j][k]
    <3>1. hs \in Seq(Seq(X))  BY <1>4
    <3> HIDE DEF f
    <3>2. /\ FlattenSeq(hs) \in Seq(X)
          /\ \E e : /\ Ends(e, hs) /\ Len(FlattenSeq(hs)) = e[Len(hs)]
                    /\ \A j \in 1..Len(hs), k \in Nat :
                         k \in 1..Len(hs[j]) => FlattenSeq(hs)[e[j - 1] + k] = hs[j][k]
      BY <3>1, Flattened
    <3> QED  BY <3>2 DEF f
  <2>2. PICK e : /\ Ends(e, hs) /\ Len(f) = e[Len(hs)]
                 /\ \A j \in 1..Len(hs), k \in Nat :
                      k \in 1..Len(hs[j]) => f[e[j - 1] + k] = hs[j][k]
    BY <2>1
  <2>3. e[0] = 0 /\ e[1] = 2 /\ e[2] = 4
    <3> HIDE DEF a, b
    <3>1. 1 \in 1..2 /\ 2 \in 1..2 /\ 1 - 1 = 0 /\ 2 - 1 = 1  OBVIOUS
    <3>2. e[0] = 0 /\ e[1] = e[0] + 2 /\ e[2] = e[1] + 2
      BY <1>3, <1>4, <2>2, <3>1 DEF Ends
    <3> QED  BY <3>2
  <2> HIDE DEF f
  <2>4. /\ f[0 + 1] = a[1] /\ f[0 + 2] = a[2]
        /\ f[2 + 1] = b[1] /\ f[2 + 2] = b[2]
    <3> HIDE DEF a, b
    <3>1. /\ 1 \in 1..2 /\ 2 \in 1..2 /\ 1 - 1 = 0 /\ 2 - 1 = 1
          /\ 1 \in Nat /\ 2 \in Nat
      OBVIOUS
    <3>2. /\ 1 \in 1..Len(hs) /\ 2 \in 1..Len(hs)
          /\ Len(hs[1]) = 2 /\ Len(hs[2]) = 2
      BY <1>3, <1>4, <3>1
    <3>3. \A k \in Nat : k \in 1..2 => f[e[1 - 1] + k] = hs[1][k]
      BY <2>2, <3>2
    <3>4. \A k \in Nat : k \in 1..2 => f[e[2 - 1] + k] = hs[2][k]
      BY <2>2, <3>2
    <3> QED  BY <1>4, <2>3, <3>1, <3>3, <3>4
  <2>5. Len(f) = 4  BY <1>4, <2>2, <2>3
  <2>6. /\ f[1] = "Content-Length" /\ f[2] = m
        /\ f[3] = "Content-Type" /\ f[4] = type
    BY <2>4
  <2>7. f = <<"Content-Length", m, "Content-Type", type>>
    BY <2>1, <2>5, <2>6
  <2> QED  BY <2>7 DEF f
<1>6. <<line>> \o <<"Content-Length", m, "Content-Type", type>> \o <<"", n>>
        = <<line, "Content-Length", m, "Content-Type", type, "", n>>
  <2> DEFINE cl == "Content-Length"
             ct == "Content-Type"
             nil == ""
  <2> HIDE DEF cl, ct, nil
  <2>1. <<line>> \o <<cl, m, ct, type>> \o <<nil, n>> = <<line, cl, m, ct, type, nil, n>>
    BY OneFourAndTwo
  <2> QED  BY <2>1 DEF cl, ct, nil
<1> QED  BY <1>2, <1>5, <1>6 DEF line, n

(* The three tables are of the same statuses, and say the same of each, but  *)
(* for the heading of 204 and the empty page of 200.                         *)
Statuses ==
  {"ok", "created", "accepted", "no_content", "multiple_choices",
   "moved_permanently", "moved_temporarily", "not_modified",
   "bad_request", "unauthorized", "forbidden", "not_found",
   "internal_server_error", "not_implemented", "bad_gateway",
   "service_unavailable"}

PageOf(s) ==
  /\ stock_replies[s].number = status_type[s]
  /\ stock_replies[s].title = status_strings[s][2]
  /\ stock_replies[s].heading = stock_replies[s].title

LEMMA TablesAgree ==
  ASSUME NEW s \in DOMAIN status_type
  PROVE  to_buffer(s)[1] = status_type[s] /\ PageAgrees(s)
<1>1. DOMAIN status_type = Statuses  BY DEF status_type, Statuses
<1>2. DOMAIN status_strings = Statuses  BY DEF status_strings, Statuses
<1>3. DOMAIN stock_replies = Statuses  BY DEF stock_replies, Statuses
<1>4. /\ status_strings["ok"][1] = status_type["ok"]
      /\ status_strings["created"][1] = status_type["created"]
      /\ status_strings["accepted"][1] = status_type["accepted"]
      /\ status_strings["no_content"][1] = status_type["no_content"]
      /\ status_strings["multiple_choices"][1] = status_type["multiple_choices"]
      /\ status_strings["moved_permanently"][1] = status_type["moved_permanently"]
      /\ status_strings["moved_temporarily"][1] = status_type["moved_temporarily"]
      /\ status_strings["not_modified"][1] = status_type["not_modified"]
      /\ status_strings["bad_request"][1] = status_type["bad_request"]
      /\ status_strings["unauthorized"][1] = status_type["unauthorized"]
      /\ status_strings["forbidden"][1] = status_type["forbidden"]
      /\ status_strings["not_found"][1] = status_type["not_found"]
      /\ status_strings["internal_server_error"][1] = status_type["internal_server_error"]
      /\ status_strings["not_implemented"][1] = status_type["not_implemented"]
      /\ status_strings["bad_gateway"][1] = status_type["bad_gateway"]
      /\ status_strings["service_unavailable"][1] = status_type["service_unavailable"]
  BY Zenon DEF status_strings, status_type
<1>5. /\ PageOf("created")
      /\ PageOf("accepted")
      /\ PageOf("multiple_choices")
      /\ PageOf("moved_permanently")
      /\ PageOf("moved_temporarily")
      /\ PageOf("not_modified")
      /\ PageOf("bad_request")
      /\ PageOf("unauthorized")
      /\ PageOf("forbidden")
      /\ PageOf("not_found")
      /\ PageOf("internal_server_error")
      /\ PageOf("not_implemented")
      /\ PageOf("bad_gateway")
      /\ PageOf("service_unavailable")
  <2>1. PageOf("created")
    BY Zenon DEF PageOf, stock_replies, status_strings, status_type, Page
  <2>2. PageOf("accepted")
    BY Zenon DEF PageOf, stock_replies, status_strings, status_type, Page
  <2>3. PageOf("multiple_choices")
    BY Zenon DEF PageOf, stock_replies, status_strings, status_type, Page
  <2>4. PageOf("moved_permanently")
    BY Zenon DEF PageOf, stock_replies, status_strings, status_type, Page
  <2>5. PageOf("moved_temporarily")
    BY Zenon DEF PageOf, stock_replies, status_strings, status_type, Page
  <2>6. PageOf("not_modified")
    BY Zenon DEF PageOf, stock_replies, status_strings, status_type, Page
  <2>7. PageOf("bad_request")
    BY Zenon DEF PageOf, stock_replies, status_strings, status_type, Page
  <2>8. PageOf("unauthorized")
    BY Zenon DEF PageOf, stock_replies, status_strings, status_type, Page
  <2>9. PageOf("forbidden")
    BY Zenon DEF PageOf, stock_replies, status_strings, status_type, Page
  <2>10. PageOf("not_found")
    BY Zenon DEF PageOf, stock_replies, status_strings, status_type, Page
  <2>11. PageOf("internal_server_error")
    BY Zenon DEF PageOf, stock_replies, status_strings, status_type, Page
  <2>12. PageOf("not_implemented")
    BY Zenon DEF PageOf, stock_replies, status_strings, status_type, Page
  <2>13. PageOf("bad_gateway")
    BY Zenon DEF PageOf, stock_replies, status_strings, status_type, Page
  <2>14. PageOf("service_unavailable")
    BY Zenon DEF PageOf, stock_replies, status_strings, status_type, Page
  <2> QED
    BY <2>1, <2>2, <2>3, <2>4, <2>5, <2>6, <2>7,
       <2>8, <2>9, <2>10, <2>11, <2>12, <2>13, <2>14
<1>6. stock_replies["ok"] = NoPage
  BY Zenon DEF stock_replies
<1>7. /\ stock_replies["no_content"].number = status_type["no_content"]
      /\ stock_replies["no_content"].title = status_strings["no_content"][2]
      /\ stock_replies["no_content"].heading = "Content"
  BY Zenon DEF stock_replies, status_strings, status_type, Page
<1>8. status_strings[s][1] = status_type[s]  BY <1>1, <1>4 DEF Statuses
<1>9. to_buffer(s) = status_strings[s] /\ to_string(s) = stock_replies[s]
  BY <1>1, <1>2, <1>3 DEF to_buffer, to_string
<1>10. s \in {"ok", "no_content"} \/ (s # "no_content" /\ PageOf(s))
  BY <1>1, <1>5 DEF Statuses
<1>11. CASE s = "ok"
  BY <1>6, <1>8, <1>9, <1>11 DEF PageAgrees
<1>12. CASE s = "no_content"
  BY <1>7, <1>8, <1>9, <1>12 DEF PageAgrees
<1>13. CASE s # "no_content" /\ PageOf(s)
  BY <1>8, <1>9, <1>13 DEF PageAgrees, PageOf
<1> QED  BY <1>10, <1>11, <1>12, <1>13

(* What both kinds of reply say of themselves. *)
LEMMA BareSays ==
  ASSUME NEW r, r.headers = <<>>, r.status \in DOMAIN status_type
  PROVE  SaysWhatItIs(r)
<1> DEFINE line == to_buffer(r.status)
           n == r.content
           wire == <<line, "", n>>
<1>1. to_buffers(r) = wire  BY Bare
<1>2. line[1] = status_type[r.status]  BY TablesAgree
<1> HIDE DEF line, n
<1>3. Head(wire) = line /\ wire[2] = ""  OBVIOUS
<1> HIDE DEF wire
<1>4. Head(wire)[1] = status_type[r.status]  BY <1>2, <1>3
<1>5. wire[2] # "Content-Length"  BY <1>3
<1> QED  BY <1>1, <1>4, <1>5 DEF SaysWhatItIs

LEMMA HeadersSay ==
  ASSUME NEW r, NEW type, r.headers = Headers(r.content, type),
         r.status \in DOMAIN status_type
  PROVE  SaysWhatItIs(r)
<1> DEFINE line == to_buffer(r.status)
           n == r.content
           wire == <<line, "Content-Length", n, "Content-Type", type, "", n>>
<1>1. to_buffers(r) = wire  BY WithHeaders
<1>2. line[1] = status_type[r.status]  BY TablesAgree
<1> HIDE DEF line, n
<1>3. Head(wire) = line /\ wire[3] = n /\ Last(wire) = n  BY DEF Last
<1> HIDE DEF wire
<1>4. Head(wire)[1] = status_type[r.status]  BY <1>2, <1>3
<1>5. wire[3] = Last(wire)  BY <1>3
<1> QED  BY <1>1, <1>4, <1>5 DEF SaysWhatItIs

LEMMA StockIs ==
  ASSUME NEW s
  PROVE  /\ stock_reply(s).status = s
         /\ stock_reply(s).headers = Headers(stock_reply(s).content, "text/html")
BY DEF stock_reply

-----------------------------------------------------------------------------
(* What is answered. *)

(* Of the file, what was read is in the reply with its headers, and the path *)
(* is a proper one.                                                          *)
FromFile ==
  /\ unread <= file /\ opened = CString(path)
  /\ rep = [status  |-> "ok",
            headers |-> IF unread = file THEN <<>>
                        ELSE Headers(file - unread, extension_to_type(Extension(path))),
            content |-> file - unread]
  /\ \E p \in Seq(Char) : IsProper(p) /\ path = Completed(p)

AnswerInv ==
  /\ stage \in {"decode", "check"} => rep = NoReply
  /\ stage = "read" => FromFile
  /\ stage = "done" => \/ rep = stock_reply("bad_request")
                       \/ FromFile /\ (unread = 0 \/ broken)

HandlerInv == DecodeInv /\ AnswerInv

LEMMA RefuseStep ==
  ASSUME Refuse PROVE AnswerInv'
<1>1. stage' = "done" /\ rep' = stock_reply("bad_request")  BY DEF Refuse
<1> QED  BY <1>1 DEF AnswerInv

LEMMA OpenStep == ASSUME HandlerInv, Open PROVE HandlerInv'
<1>1. /\ stage = "check" /\ stage' = "read" /\ IsProper(path) /\ path' = Completed(path)
      /\ opened' = CString(path')
      /\ file' \in 0..MaxFile /\ unread' = file' /\ rep' = [rep EXCEPT !.status = "ok"]
      /\ UNCHANGED <<input, i>>
  BY DEF Open
<1>2. path \in Seq(Char)  BY DEF HandlerInv, DecodeInv, HandlerTypeOK
<1>3. path' \in Seq(Char)  BY <1>1, <1>2, CompletedIs
<1>4. file' \in Nat  BY <1>1, BoundsAssumption
<1>5. DecodeInv'
  BY <1>1, <1>3, <1>4, AnsweringStep DEF HandlerInv
<1>6. rep' = [status |-> "ok", headers |-> <<>>, content |-> 0]
  BY <1>1 DEF HandlerInv, AnswerInv, NoReply
<1>7. file' - unread' = 0 /\ unread' <= file'  BY <1>1, <1>4
<1>8. FromFile'  BY <1>1, <1>2, <1>6, <1>7 DEF FromFile
<1>9. AnswerInv'  BY <1>1, <1>8 DEF AnswerInv
<1> QED  BY <1>5, <1>9 DEF HandlerInv

LEMMA ReadStep == ASSUME HandlerInv, Read PROVE HandlerInv'
<1>1. /\ stage = "read" /\ stage' = "read" /\ Got > 0 /\ unread' = unread - Got
      /\ rep' = [rep EXCEPT !.content = rep.content + Got,
                            !.headers = Headers(rep.content + Got,
                                          extension_to_type(Extension(path)))]
      /\ UNCHANGED <<input, i, path, opened, file>>
  BY DEF Read, GotSome
<1>2. /\ unread \in Nat /\ file \in Nat /\ path \in Seq(Char)
      /\ FromFile /\ Got \in Nat /\ Got <= unread
  BY <1>1, BoundsAssumption DEF HandlerInv, DecodeInv, HandlerTypeOK, AnswerInv, Got
<1> DEFINE type == extension_to_type(Extension(path))
           n == file - unread'
<1>3. /\ unread' \in Nat /\ unread' <= file /\ unread' # file
      /\ (file - unread) + Got = n
  BY <1>1, <1>2 DEF FromFile
<1>4. rep' = [status |-> "ok", headers |-> Headers(n, type), content |-> n]
  <2>1. rep.content + Got = n  BY <1>2, <1>3 DEF FromFile
  <2> HIDE DEF type, n
  <2>2. rep' = [rep EXCEPT !.content = n, !.headers = Headers(n, type)]
    BY <1>1, <2>1 DEF type
  <2> QED  BY <1>2, <2>2 DEF FromFile
<1>5. FromFile'
  BY <1>1, <1>2, <1>3, <1>4 DEF FromFile
<1>6. DecodeInv'
  BY <1>1, <1>2, <1>3, AnsweringStep DEF HandlerInv
<1>7. AnswerInv'  BY <1>1, <1>5 DEF AnswerInv
<1> QED  BY <1>6, <1>7 DEF HandlerInv

LEMMA EndOfFileStep == ASSUME HandlerInv, EndOfFile PROVE HandlerInv'
<1>1. /\ stage = "read" /\ stage' = "done" /\ ~(Got > 0)
      /\ UNCHANGED <<input, i, path, opened, unread, file, rep>>
  BY DEF EndOfFile, GotSome, reading
<1>2. /\ unread \in Nat /\ file \in Nat /\ path \in Seq(Char) /\ FromFile
  BY <1>1 DEF HandlerInv, DecodeInv, HandlerTypeOK, AnswerInv
<1>3. unread = 0  BY <1>1, <1>2, BoundsAssumption DEF Got
<1>4. FromFile' /\ unread' = 0  BY <1>1, <1>2, <1>3 DEF FromFile
<1>5. AnswerInv'  BY <1>1, <1>4 DEF AnswerInv
<1>6. DecodeInv'
  BY <1>1, <1>2, AnsweringStep DEF HandlerInv
<1> QED  BY <1>5, <1>6 DEF HandlerInv

LEMMA ReadFailsStep == ASSUME HandlerInv, ReadFails PROVE HandlerInv'
<1>1. /\ stage = "read" /\ stage' = "done" /\ broken' = TRUE
      /\ UNCHANGED <<input, i, path, opened, unread, file, rep>>
  BY DEF ReadFails
<1>2. /\ unread \in Nat /\ file \in Nat /\ path \in Seq(Char) /\ FromFile
  BY <1>1 DEF HandlerInv, DecodeInv, HandlerTypeOK, AnswerInv
<1>3. FromFile'  BY <1>1, <1>2 DEF FromFile
<1>4. AnswerInv'  BY <1>1, <1>3 DEF AnswerInv
<1>5. DecodeInv'
  BY <1>1, <1>2, AnsweringStep DEF HandlerInv
<1> QED  BY <1>4, <1>5 DEF HandlerInv

LEMMA HandlerInvStep == HandlerInv /\ [HandlerNext]_handlerVars => HandlerInv'
<1> SUFFICES ASSUME HandlerInv, [HandlerNext]_handlerVars PROVE HandlerInv'
  OBVIOUS
<1>1. CASE UNCHANGED handlerVars
  <2>1. PICK us, e : LaidOut(us, e) /\ Decoding(us, e)
    BY DEF HandlerInv, DecodeInv
  <2>2. UNCHANGED <<stage, uri, means, tail, i, path, opened, unread, file, broken, rep>>
    BY <1>1 DEF handlerVars, input, reading
  <2>3. LaidOut(us, e)'  BY <2>1, <2>2 DEF LaidOut
  <2>4. Decoding(us, e)'  BY <2>1, <2>2 DEF Decoding, Behind, At
  <2>5. HandlerTypeOK'  BY <2>2 DEF HandlerInv, DecodeInv, HandlerTypeOK
  <2>6. AnswerInv'  BY <2>2 DEF HandlerInv, AnswerInv, FromFile
  <2> QED  BY <2>3, <2>4, <2>5, <2>6 DEF HandlerInv, DecodeInv
<1>2. CASE Decode
  <2>1. DecodeInv'  BY <1>2, DecodeStep DEF HandlerInv
  <2>2. CASE Refuse
    <3>1. AnswerInv'  BY <2>2, RefuseStep
    <3> QED  BY <2>1, <3>1 DEF HandlerInv
  <2>3. CASE stage' = "decode" /\ rep' = rep
    BY <1>2, <2>1, <2>3 DEF HandlerInv, AnswerInv, Decode
  <2> QED  BY <1>2, <2>2, <2>3 DEF Decode, Add
<1>3. CASE Decoded
  <2>1. DecodeInv'  BY <1>3, DecodedStep DEF HandlerInv
  <2>2. AnswerInv'  BY <1>3 DEF HandlerInv, AnswerInv, Decoded
  <2> QED  BY <2>1, <2>2 DEF HandlerInv
<1>4. CASE stage = "check" /\ Refuse
  <2>1. /\ stage' = "done" /\ UNCHANGED <<input, i, path, unread, file>>
    BY <1>4 DEF Refuse, reading
  <2>2. path' \in Seq(Char) /\ file' \in Nat /\ unread' \in Nat
    BY <2>1 DEF HandlerInv, DecodeInv, HandlerTypeOK
  <2>3. DecodeInv'  BY <1>4, <2>1, <2>2, AnsweringStep DEF HandlerInv
  <2>4. AnswerInv'  BY <1>4, RefuseStep
  <2> QED  BY <2>3, <2>4 DEF HandlerInv
<1>5. CASE Open  BY <1>5, OpenStep
<1>6. CASE Read  BY <1>6, ReadStep
<1>7. CASE EndOfFile  BY <1>7, EndOfFileStep
<1>8. CASE ReadFails  BY <1>8, ReadFailsStep
<1> QED
  BY <1>1, <1>2, <1>3, <1>4, <1>5, <1>6, <1>7, <1>8 DEF HandlerNext, Check, NoFile

LEMMA HandlerInvBegins == HandlerInit => HandlerInv
BY HandlerBegins DEF HandlerInv, AnswerInv, HandlerInit

(* Uris of any length: what is decoded is what was encoded, byte for byte,   *)
(* and what is refused in the middle is a percent that no number follows.    *)
THEOREM UrisAreDecoded == HandlerSpec => []DecodedRight
<1>1. HandlerInv => DecodedRight
  BY DEF HandlerInv, DecodeInv, Decoding, DecodedRight
<1> QED  BY <1>1, HandlerInvBegins, HandlerInvStep, PTL DEF HandlerSpec

(* What is opened is absolute and has no two dots in it, however its bytes   *)
(* were written; and it is the path that was checked, and no directory's,    *)
(* unless a byte of it is zero.                                              *)
THEOREM OnlyProperPaths == HandlerSpec => []OpensProperPath
<1>1. HandlerInv => OpensProperPath
  <2> SUFFICES ASSUME HandlerInv, rep.status = "ok"
               PROVE  /\ Head(opened) = "/"
                      /\ ~\E k \in 1..Len(opened) - 1 :
                            opened[k] = "." /\ opened[k + 1] = "."
                      /\ "zero" \notin Range(path) => opened = path /\ Last(opened) # "/"
    BY DEF OpensProperPath
  <2>1. FromFile
    <3>1. rep # NoReply  BY DEF NoReply
    <3>2. stock_reply("bad_request").status # "ok"  BY StockIs
    <3> QED  BY <3>1, <3>2 DEF HandlerInv, AnswerInv, DecodeInv, HandlerTypeOK
  <2>2. PICK p \in Seq(Char) : IsProper(p) /\ path = Completed(p)
    BY <2>1 DEF FromFile
  <2>3. /\ path \in Seq(Char) /\ Len(path) \in Nat \ {0} /\ path[1] = "/"
        /\ path[Len(path)] # "/"
        /\ \A k \in 1..Len(path) - 1 : ~(path[k] = "." /\ path[k + 1] = ".")
    BY <2>2, CompletedIs
  <2>4. path # <<>>  BY <2>3
  <2>5. /\ opened \in Seq(Char) /\ Len(opened) \in 1..Len(path)
        /\ \A n \in 1..Len(opened) : opened[n] = path[n]
        /\ "zero" \notin Range(path) => opened = path
    <3>1. opened = CString(path)  BY <2>1 DEF FromFile
    <3> QED  BY <2>3, <2>4, <3>1, CStringIs
  <2>6. Head(opened) = "/"
    <3>1. 1 \in 1..Len(opened) /\ opened # <<>>  BY <2>3, <2>5
    <3>2. Head(opened) = opened[1]  BY <2>5, <3>1
    <3> QED  BY <2>3, <2>5, <3>1, <3>2
  <2>7. \A k \in 1..Len(opened) - 1 : ~(opened[k] = "." /\ opened[k + 1] = ".")
    <3> TAKE k \in 1..Len(opened) - 1
    <3>1. /\ k \in 1..Len(opened) /\ k + 1 \in 1..Len(opened)
          /\ k \in 1..Len(path) - 1
      BY <2>3, <2>5
    <3> QED  BY <2>3, <2>5, <3>1
  <2>8. "zero" \notin Range(path) => opened = path /\ Last(opened) # "/"
    BY <2>3, <2>5 DEF Last
  <2> QED  BY <2>6, <2>7, <2>8
<1> QED  BY <1>1, HandlerInvBegins, HandlerInvStep, PTL DEF HandlerSpec

(* Files of any length, read in buffers of any size, are answered whole, or  *)
(* as far as they were read.                                                 *)
THEOREM FilesAreAnsweredWhole == HandlerSpec => []WholeFile
<1>1. HandlerInv => WholeFile
  <2> DEFINE sent == rep.content
             Named(name) == IsSuffix(<<".", name>>, path)
             type == CASE Named("gif") -> "image/gif" [] Named("jpg") -> "image/jpeg"
                       [] Named("png") -> "image/png"
                       [] Named("htm") \/ Named("html") -> "text/html"
                       [] OTHER -> "text/plain"
  <2> SUFFICES ASSUME HandlerInv, rep.status = "ok", stage = "done"
               PROVE  /\ sent = file \/ (broken /\ sent <= file)
                      /\ to_buffers(rep) =
                           IF sent = 0 THEN <<to_buffer("ok"), "", 0>>
                           ELSE <<to_buffer("ok"), "Content-Length", sent,
                                  "Content-Type", type, "", sent>>
    BY DEF WholeFile
  <2>1. FromFile /\ (unread = 0 \/ broken)
    <3>1. stock_reply("bad_request").status # "ok"  BY StockIs
    <3> QED  BY <3>1 DEF HandlerInv, AnswerInv
  <2>2. /\ file \in Nat /\ unread \in Nat /\ unread <= file
        /\ sent = file - unread
    BY <2>1 DEF HandlerInv, DecodeInv, HandlerTypeOK, FromFile
  <2>3. sent <= file /\ (unread = 0 => sent = file) /\ (sent = 0 <=> unread = file)
    <3> HIDE DEF sent
    <3> QED  BY <2>2
  <2>4. /\ rep.status = "ok"
        /\ rep.headers = IF sent = 0 THEN <<>>
                         ELSE Headers(sent, extension_to_type(Extension(path)))
    BY <2>1, <2>2, <2>3 DEF FromFile
  <2>5. sent = file \/ (broken /\ sent <= file)  BY <2>1, <2>3
  <2>6. CASE sent = 0
    <3>1. to_buffers(rep) = <<to_buffer(rep.status), "", rep.content>>
      BY <2>4, <2>6, Bare
    <3> HIDE DEF type
    <3> QED  BY <2>4, <2>5, <2>6, <3>1
  <2>7. CASE sent # 0
    <3>1. PICK p \in Seq(Char) : IsProper(p) /\ path = Completed(p)
      BY <2>1 DEF FromFile
    <3>2. path \in Seq(Char) /\ path # <<>> /\ path[1] = "/"
      BY <3>1, CompletedIs
    <3>3. extension_to_type(Extension(path)) = type
      <4>1. extension_to_type(Extension(path)) =
              TypeOf(Named("gif"), Named("jpg"), Named("png"), Named("htm"), Named("html"))
        BY <3>2, TypeIs
      <4> HIDE DEF Named
      <4> QED  BY <4>1 DEF TypeOf
    <3> HIDE DEF type
    <3>4. rep.headers = Headers(sent, type)  BY <2>4, <2>7, <3>3
    <3>5. to_buffers(rep) = <<to_buffer(rep.status), "Content-Length", sent,
                              "Content-Type", type, "", rep.content>>
      BY <3>4, WithHeaders
    <3> QED  BY <2>4, <2>5, <2>7, <3>5
  <2> QED  BY <2>6, <2>7
<1> QED  BY <1>1, HandlerInvBegins, HandlerInvStep, PTL DEF HandlerSpec

(* What the handler answers says what it is, and so do all stock replies,    *)
(* page included, but for one word of one heading.                           *)
THEOREM RepliesSayWhatTheyAre == HandlerSpec => []RepliesAgree
<1>1. HandlerInv => RepliesAgree
  <2> SUFFICES ASSUME HandlerInv, stage = "done"
               PROVE  /\ SaysWhatItIs(rep)
                      /\ \A s \in DOMAIN status_type :
                           SaysWhatItIs(stock_reply(s)) /\ PageAgrees(s)
    BY DEF RepliesAgree
  <2>1. ASSUME NEW s \in DOMAIN status_type
        PROVE  SaysWhatItIs(stock_reply(s)) /\ PageAgrees(s)
    <3> DEFINE r == stock_reply(s)
    <3>1. r.headers = Headers(r.content, "text/html") /\ r.status \in DOMAIN status_type
      BY StockIs
    <3> HIDE DEF r
    <3>2. SaysWhatItIs(r)  BY <3>1, HeadersSay
    <3> QED  BY <3>2, TablesAgree DEF r
  <2>2. "ok" \in DOMAIN status_type /\ "bad_request" \in DOMAIN status_type
    BY DEF status_type
  <2>3. CASE rep = stock_reply("bad_request")
    <3>1. SaysWhatItIs(stock_reply("bad_request"))  BY <2>1, <2>2
    <3> QED  BY <2>1, <2>3, <3>1
  <2>4. CASE FromFile
    <3>1. /\ rep.status = "ok"
          /\ rep.headers = <<>> \/ \E type : rep.headers = Headers(rep.content, type)
      BY <2>4 DEF FromFile
    <3>2. CASE rep.headers = <<>>
      <4>1. SaysWhatItIs(rep)  BY <2>2, <3>1, <3>2, BareSays
      <4> QED  BY <2>1, <4>1
    <3>3. CASE \E type : rep.headers = Headers(rep.content, type)
      <4>1. PICK type : rep.headers = Headers(rep.content, type)  BY <3>3
      <4>2. SaysWhatItIs(rep)  BY <2>2, <3>1, <4>1, HeadersSay
      <4> QED  BY <2>1, <4>2
    <3> QED  BY <3>1, <3>2, <3>3
  <2> QED  BY <2>3, <2>4 DEF HandlerInv, AnswerInv
<1> QED  BY <1>1, HandlerInvBegins, HandlerInvStep, PTL DEF HandlerSpec
=============================================================================
