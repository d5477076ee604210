---------------------------- MODULE ChatBroadcast ----------------------------
(***************************************************************************)
(* What the chat server promises, with no queue, socket or handler in it.  *)
(*                                                                         *)
(* The room is one growing log.  A session that joins at some moment is    *)
(* promised the last MaxRecent entries of the log, then every entry posted *)
(* while it stays a member.  What it has seen is always an unbroken piece  *)
(* of the log, read in log order.  A session whose connection breaks sees  *)
(* nothing more; a session that merely leaves still gets what it was       *)
(* promised before it left.                                                *)
(***************************************************************************)
EXTENDS Naturals, Sequences

CONSTANTS
  Session,    (* the connections that can ever be made                    *)
  Body,       (* the possible message bodies                              *)
  MaxRecent,  (* how much of the log a new member is shown                *)
  MaxLog      (* bound: how many messages are posted in a behaviour       *)

VARIABLES
  log,        (* every message ever posted, in posting order              *)
  joined,     (* the sessions that were ever members                      *)
  members,    (* the sessions that are members now                        *)
  broken,     (* the sessions whose connection failed while being written *)
  base,       (* base[s]: how much of the log came before s's first entry *)
  promised,   (* promised[s]: up to where in the log s is to be sent      *)
  seen        (* seen[s]: what s was sent                                 *)

vars == <<log, joined, members, broken, base, promised, seen>>

Pending(s) == base[s] + Len(seen[s]) < promised[s]

Init ==
  /\ log = <<>>
  /\ joined = {}
  /\ members = {}
  /\ broken = {}
  /\ base = [s \in Session |-> 0]
  /\ promised = [s \in Session |-> 0]
  /\ seen = [s \in Session |-> <<>>]

(* A session becomes a member, and is promised the recent messages. *)
Join(s) ==
  /\ s \in Session \ joined
  /\ joined' = joined \cup {s}
  /\ members' = members \cup {s}
  /\ base' = [base EXCEPT ![s] =
                IF Len(log) > MaxRecent THEN Len(log) - MaxRecent ELSE 0]
  /\ promised' = [promised EXCEPT ![s] = Len(log)]
  /\ UNCHANGED <<log, broken, seen>>

(* A message is posted: it is promised to exactly the members of the moment. *)
Post(b) ==
  /\ Len(log) < MaxLog
  /\ log' = Append(log, b)
  /\ promised' = [s \in Session |->
                    IF s \in members THEN promised[s] + 1 ELSE promised[s]]
  /\ UNCHANGED <<joined, members, broken, base, seen>>

(* A member leaves; what it was promised before is still owed to it. *)
Leave(s) ==
  /\ s \in members
  /\ members' = members \ {s}
  /\ UNCHANGED <<log, joined, broken, base, promised, seen>>

(* The next promised message reaches s: never another one. *)
See(s) ==
  /\ s \in joined \ broken
  /\ Pending(s)
  /\ seen' = [seen EXCEPT ![s] = Append(@, log[base[s] + Len(seen[s]) + 1])]
  /\ UNCHANGED <<log, joined, members, broken, base, promised>>

(* The connection of s fails while a message is on its way to it. *)
Break(s) ==
  /\ s \in joined \ broken
  /\ Pending(s)
  /\ broken' = broken \cup {s}
  /\ members' = members \ {s}
  /\ UNCHANGED <<log, joined, base, promised, seen>>

Next ==
  \/ \E s \in Session : Join(s) \/ Leave(s) \/ See(s) \/ Break(s)
  \/ \E b \in Body : Post(b)

Fairness == \A s \in Session : WF_vars(See(s) \/ Break(s))

Spec == Init /\ [][Next]_vars /\ Fairness
SafetySpec == Init /\ [][Next]_vars

-----------------------------------------------------------------------------
(* All members see the same messages in the same order: whatever two sessions *)
(* have seen agrees wherever their pieces of the log overlap, and neither has *)
(* a hole.  (chat_room::deliver, chat_session::deliver)                       *)
SameOrder ==
  \A s, t \in joined :
    \A i \in 1..Len(seen[s]), j \in 1..Len(seen[t]) :
      base[s] + i = base[t] + j => seen[s][i] = seen[t][j]

(* A member is never behind the log: everything posted since it joined is      *)
(* already promised to it.  (the loop over participants_ in chat_room::deliver)*)
MembersUpToDate == \A s \in members : promised[s] = Len(log)

(* Whatever is promised is eventually seen, unless the connection breaks. *)
Delivery ==
  \A s \in Session : \A n \in 1..MaxLog :
    (promised[s] >= n) ~> (base[s] + Len(seen[s]) >= n \/ s \in broken)
=============================================================================
