-------------------------- MODULE ChatBroadcast_proof --------------------------
(***************************************************************************)
(* The promises of ChatBroadcast, for any number of sessions and any log.  *)
(***************************************************************************)
EXTENDS ChatBroadcast, TLAPS

TypeOK ==
  /\ log \in Seq(Body)
  /\ joined \subseteq Session
  /\ members \subseteq joined
  /\ broken \subseteq joined
  /\ base \in [Session -> Nat]
  /\ promised \in [Session -> Nat]
  /\ seen \in [Session -> Seq(Body)]

(* Nothing is promised beyond the log, and what was seen is the log. *)
SeenIsLogOf(s) ==
  /\ promised[s] <= Len(log)
  /\ base[s] + Len(seen[s]) <= promised[s]
  /\ \A i \in 1..Len(seen[s]) : seen[s][i] = log[base[s] + i]

SeenIsLog == \A s \in Session : SeenIsLogOf(s)

(* Who has not joined was promised and has seen nothing. *)
NotYet ==
  \A s \in Session \ joined : seen[s] = <<>>

IInv == TypeOK /\ SeenIsLog /\ NotYet /\ MembersUpToDate

LEMMA PushBack ==
  ASSUME NEW S, NEW q \in Seq(S), NEW e \in S
  PROVE  /\ Append(q, e) \in Seq(S)
         /\ Len(Append(q, e)) = Len(q) + 1
         /\ \A i \in 1..Len(q) : Append(q, e)[i] = q[i]
         /\ Append(q, e)[Len(q) + 1] = e
OBVIOUS

LEMMA InitIInv == Init => IInv
BY DEF Init, IInv, TypeOK, SeenIsLog, SeenIsLogOf, NotYet, MembersUpToDate

LEMMA JoinStep ==
  ASSUME MaxRecent \in Nat, IInv, NEW s \in Session, Join(s)
  PROVE  IInv'
<1>. USE DEF IInv, TypeOK
<1>1. Len(log) \in Nat /\ Len(<<>>) = 0 /\ seen[s] = <<>>
  BY DEF Join, NotYet
<1>2. /\ base'[s] \in Nat /\ base'[s] <= Len(log)
      /\ promised'[s] = Len(log)
      /\ \A t \in Session \ {s} :
           base'[t] = base[t] /\ promised'[t] = promised[t]
      /\ UNCHANGED <<log, broken, seen>>
  BY <1>1 DEF Join
<1>3. TypeOK'
  BY <1>1, <1>2 DEF Join
<1>4. SeenIsLog'
  <2>1. SeenIsLogOf(s)'
    BY <1>1, <1>2 DEF SeenIsLogOf
  <2>2. ASSUME NEW t \in Session \ {s} PROVE SeenIsLogOf(t)'
    BY <1>2 DEF SeenIsLog, SeenIsLogOf
  <2>. QED
    BY <2>1, <2>2 DEF SeenIsLog
<1>5. NotYet'
  BY <1>2 DEF Join, NotYet
<1>6. MembersUpToDate'
  BY <1>2 DEF Join, MembersUpToDate
<1>. QED
  BY <1>3, <1>4, <1>5, <1>6

LEMMA PostStep ==
  ASSUME IInv, NEW b \in Body, Post(b)
  PROVE  IInv'
<1>. USE DEF IInv, TypeOK
<1>1. /\ log' \in Seq(Body)
      /\ Len(log) \in Nat
      /\ Len(log') = Len(log) + 1
      /\ \A i \in 1..Len(log) : log'[i] = log[i]
  BY PushBack DEF Post
<1>2. UNCHANGED <<joined, members, broken, base, seen>>
  BY DEF Post
<1>3. \A s \in Session : /\ s \in members => promised'[s] = promised[s] + 1
                         /\ s \notin members => promised'[s] = promised[s]
  BY DEF Post
<1>4. promised' \in [Session -> Nat]
  BY DEF Post
<1>5. SeenIsLog'
  <2>. SUFFICES ASSUME NEW s \in Session PROVE SeenIsLogOf(s)'
    BY DEF SeenIsLog
  <2>1. /\ base[s] \in Nat /\ Len(seen[s]) \in Nat /\ promised[s] \in Nat
        /\ promised[s] <= Len(log)
        /\ base[s] + Len(seen[s]) <= promised[s]
        /\ \A i \in 1..Len(seen[s]) : seen[s][i] = log[base[s] + i]
    BY DEF SeenIsLog, SeenIsLogOf
  <2>2. promised'[s] \in {promised[s], promised[s] + 1}
    BY <1>3
  <2>3. promised'[s] <= Len(log')
    BY <1>1, <2>1, <2>2
  <2>4. base[s] + Len(seen[s]) <= promised'[s]
    BY <2>1, <2>2
  <2>5. \A i \in 1..Len(seen[s]) : seen[s][i] = log'[base[s] + i]
    <3>. SUFFICES ASSUME NEW i \in 1..Len(seen[s])
                  PROVE  seen[s][i] = log'[base[s] + i]
      OBVIOUS
    <3>1. base[s] + i \in 1..Len(log)
      BY <1>1, <2>1
    <3>. QED
      BY <1>1, <2>1, <3>1
  <2>. QED
    BY <1>2, <2>3, <2>4, <2>5 DEF SeenIsLogOf
<1>6. NotYet' /\ MembersUpToDate'
  BY <1>1, <1>2, <1>3 DEF NotYet, MembersUpToDate
<1>. QED
  BY <1>1, <1>2, <1>4, <1>5, <1>6

LEMMA SeeStep ==
  ASSUME IInv, NEW s \in Session, See(s)
  PROVE  IInv'
<1>. USE DEF IInv, TypeOK
<1>. DEFINE k == Len(seen[s])
            e == log[base[s] + k + 1]
<1>1. /\ base[s] \in Nat /\ k \in Nat /\ promised[s] \in Nat
      /\ base[s] + k < promised[s] /\ promised[s] <= Len(log)
      /\ Len(log) \in Nat
  BY DEF See, Pending, SeenIsLog, SeenIsLogOf
<1>2. e \in Body
  BY <1>1
<1>3. UNCHANGED <<log, joined, members, broken, base, promised>>
  BY DEF See
<1>4. /\ seen'[s] \in Seq(Body)
      /\ Len(seen'[s]) = k + 1
      /\ \A i \in 1..k : seen'[s][i] = seen[s][i]
      /\ seen'[s][k + 1] = e
      /\ \A t \in Session \ {s} : seen'[t] = seen[t]
      /\ seen' \in [Session -> Seq(Body)]
  BY <1>2, PushBack DEF See
<1>5. \A i \in 1..k : seen[s][i] = log[base[s] + i]
  BY DEF SeenIsLog, SeenIsLogOf
<1>6. \A i \in 1..k + 1 : seen'[s][i] = log[base[s] + i]
  <2>1. seen'[s][k + 1] = log[base[s] + (k + 1)]
    BY <1>1, <1>4
  <2>2. \A i \in 1..k : seen'[s][i] = log[base[s] + i]
    BY <1>4, <1>5
  <2>. HIDE DEF k, e
  <2>3. \A i \in 1..k + 1 : i \in 1..k \/ i = k + 1
    BY <1>1
  <2>. QED
    BY <2>1, <2>2, <2>3
<1>7. SeenIsLog'
  <2>1. SeenIsLogOf(s)'
    <3>1. \A i \in 1..Len(seen'[s]) : seen'[s][i] = log'[base'[s] + i]
      BY <1>3, <1>4, <1>6
    <3>2. base'[s] + Len(seen'[s]) <= promised'[s] /\ promised'[s] <= Len(log')
      BY <1>1, <1>3, <1>4
    <3>. QED
      BY <3>1, <3>2 DEF SeenIsLogOf
  <2>2. ASSUME NEW t \in Session \ {s} PROVE SeenIsLogOf(t)'
    BY <1>3, <1>4 DEF SeenIsLog, SeenIsLogOf
  <2>. QED
    BY <2>1, <2>2 DEF SeenIsLog
<1>8. NotYet' /\ MembersUpToDate'
  BY <1>3, <1>4 DEF See, NotYet, MembersUpToDate
<1>. QED
  BY <1>3, <1>4, <1>7, <1>8

LEMMA StepIInv ==
  ASSUME MaxRecent \in Nat
  PROVE  IInv /\ [Next]_vars => IInv'
<1>. SUFFICES ASSUME IInv, [Next]_vars PROVE IInv'
  OBVIOUS
<1>1. ASSUME NEW s \in Session, Leave(s) PROVE IInv'
  BY <1>1 DEF IInv, TypeOK, SeenIsLog, SeenIsLogOf, NotYet, MembersUpToDate,
            Leave
<1>2. ASSUME NEW s \in Session, Break(s) PROVE IInv'
  BY <1>2 DEF IInv, TypeOK, SeenIsLog, SeenIsLogOf, NotYet, MembersUpToDate,
            Break
<1>3. CASE UNCHANGED vars
  BY <1>3 DEF IInv, TypeOK, SeenIsLog, SeenIsLogOf, NotYet, MembersUpToDate,
            vars
<1>. QED
  BY <1>1, <1>2, <1>3, JoinStep, PostStep, SeeStep DEF Next

LEMMA Invariance ==
  ASSUME MaxRecent \in Nat
  PROVE  SafetySpec => []IInv
BY InitIInv, StepIInv, PTL DEF SafetySpec

(* Whatever two sessions have seen agrees wherever their pieces of the log   *)
(* overlap (chat_room::deliver gives each message to all sessions in turn).  *)
THEOREM EverybodySeesTheSame ==
  ASSUME MaxRecent \in Nat
  PROVE  SafetySpec => []SameOrder
<1>1. IInv => SameOrder
  <2>. SUFFICES ASSUME IInv,
                       NEW s \in joined, NEW t \in joined,
                       NEW i \in 1..Len(seen[s]), NEW j \in 1..Len(seen[t]),
                       base[s] + i = base[t] + j
                PROVE  seen[s][i] = seen[t][j]
    BY DEF SameOrder
  <2>1. s \in Session /\ t \in Session
    BY DEF IInv, TypeOK
  <2>2. seen[s][i] = log[base[s] + i]
    BY <2>1 DEF IInv, SeenIsLog, SeenIsLogOf
  <2>3. seen[t][j] = log[base[t] + j]
    BY <2>1 DEF IInv, SeenIsLog, SeenIsLogOf
  <2>. QED
    BY <2>2, <2>3
<1>. QED
  BY <1>1, Invariance, PTL

(* Everything posted since a member joined is promised to it. *)
THEOREM NobodyLeftBehind ==
  ASSUME MaxRecent \in Nat
  PROVE  SafetySpec => []MembersUpToDate
<1>1. IInv => MembersUpToDate
  BY DEF IInv
<1>. QED
  BY <1>1, Invariance, PTL
=============================================================================
