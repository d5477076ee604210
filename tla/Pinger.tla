-------------------------------- MODULE Pinger --------------------------------
(***************************************************************************)
(* The pinger: one timer, one receive, one thread.  It sends a request,    *)
(* waits up to Timeout for a reply, then until Gap after the request, and  *)
(* sends the next.  A reply cuts the first wait short by cancelling the    *)
(* timer; the handlers take no error code, so a cancelled wait and one     *)
(* that ran its time end alike.                                            *)
(*                                                                         *)
(* Time passes in ticks, and a handler may run late by any number of them. *)
(* The network loses, delays and duplicates replies, but delivers none     *)
(* older than Life.                                                        *)
(***************************************************************************)
EXTENDS Ipv4Header

CONSTANTS
  Timeout,  (* 5 seconds                                                   *)
  Gap,      (* 1 second                                                    *)
  SeqMod,   (* how many sequence numbers there are: 2^16                   *)
  Identifier,  (* get_identifier(): the process' number                    *)
  Forms,    (* what packets there are, but for the number they answer      *)
  Life,     (* bound: a reply older than this no longer arrives            *)
  Cap       (* bound: up to where the time since the request is told apart *)

ASSUME TimesAssumption ==
  /\ {Timeout, Gap, SeqMod, Life, Cap} \subseteq Nat \ {0}
  /\ Gap < Timeout /\ Timeout < Cap
  /\ Life < SeqMod * Gap
  /\ SeqMod <= 65536

ASSUME FormsAssumption ==
  /\ Identifier \in Short
  /\ \A f \in Forms :
       /\ f = [fields |-> f.fields, type |-> f.type,
               identifier |-> f.identifier, icmp |-> f.icmp]
       /\ f.fields \in Fields /\ f.fields.version = 4
       /\ f.type \in Byte /\ f.identifier \in Short /\ f.icmp \in Short

VARIABLES
  sequence_number,
  num_replies,     (* 0, 1, or 2 for more                                    *)
  since,           (* the time since time_sent_, up to Cap                   *)
  waits,           (* the handler the timer's one wait is for                *)
  expires,         (* its expiry, in ticks after time_sent_                  *)
  cancelled,       (* the wait was cancelled and its handler is to run       *)
  net,             (* replies that may still arrive                          *)
  running,         (* send_to has not thrown                                 *)
  timedout,        (* history: "timed out" was printed for this request      *)
  answered,        (* history: a reply to this request was received          *)
  mistaken         (* history: the last reply printed was to another request, *)
                   (* or is not what was printed about it                     *)

timer == <<waits, expires, cancelled>>
vars == <<sequence_number, num_replies, since, timer, net, running, timedout,
          answered, mistaken>>

(* Replies by number, by age, and whether they are to an earlier request. *)
Reply == [seq : 0..SeqMod - 1, age : 0..Life, old : BOOLEAN, form : Forms]
NewReply(n, f) == [seq |-> n, age |-> 0, old |-> FALSE, form |-> f]

(* The packet that comes: a form is its header's fields, the type and the    *)
(* identifier of its ICMP header, and how many bytes of ICMP came.           *)
IcmpStart(r) == 20 + (r.form.fields.words - 5) * 4
IcmpByte(r, i) ==
  CASE i = 1 -> r.form.type
    [] i = 5 -> r.form.identifier \div 256
    [] i = 6 -> r.form.identifier % 256
    [] i = 7 -> r.seq \div 256
    [] i = 8 -> r.seq % 256
    [] OTHER -> 0
Packet(r) ==
  [i \in 1..IcmpStart(r) + r.form.icmp |->
     IF i <= 20 THEN Wire(r.form.fields)[i]
     ELSE IF i <= IcmpStart(r) THEN 0 ELSE IcmpByte(r, i - IcmpStart(r))]

TypeOK ==
  /\ sequence_number \in 0..SeqMod - 1
  /\ num_replies \in 0..2
  /\ since \in 0..Cap
  /\ waits \in {"handle_timeout", "start_send"}
  /\ expires \in {Timeout, Gap}
  /\ cancelled \in BOOLEAN
  /\ net \subseteq Reply
  /\ running \in BOOLEAN
  /\ timedout \in BOOLEAN
  /\ answered \in BOOLEAN
  /\ mistaken \in BOOLEAN

(* The constructor has sent the first request, number 1. *)
Init ==
  /\ sequence_number = 1 % SeqMod
  /\ num_replies = 0
  /\ since = 0
  /\ waits = "handle_timeout"
  /\ expires = Timeout
  /\ cancelled = FALSE
  /\ \E f \in Forms : net = {NewReply(1 % SeqMod, f)}
  /\ running = TRUE
  /\ timedout = FALSE
  /\ answered = FALSE
  /\ mistaken = FALSE

(* An answer to the last request: to this process, the ICMP header whole. *)
IsAnswer(r) ==
  /\ ~r.old
  /\ r.form.type = 0 /\ r.form.identifier = Identifier /\ r.form.icmp >= 8

-----------------------------------------------------------------------------
(* Time passes, and replies grow too old. *)
Tick ==
  /\ since' = IF since < Cap THEN since + 1 ELSE Cap
  /\ net' = {[r EXCEPT !.age = @ + 1] : r \in {q \in net : q.age < Life}}
  /\ UNCHANGED <<sequence_number, num_replies, timer, running, timedout,
                 answered, mistaken>>

(* A reply is lost, or was the last of its copies. *)
Lose(r) ==
  /\ net' = net \ {r}
  /\ UNCHANGED <<sequence_number, num_replies, since, timer, running,
                 timedout, answered, mistaken>>

-----------------------------------------------------------------------------
Arm(handler, after) ==
  /\ waits' = handler
  /\ expires' = after
  /\ cancelled' = FALSE

(* The handler of the timer's wait is h, and can run. *)
Due(h) == running /\ waits = h /\ (cancelled \/ since >= expires)

(* The number of the next request, in an unsigned short. *)
NextNumber(n) == (n + 1) % SeqMod

(* start_send: the next request, and up to Timeout for its reply. *)
StartSend ==
  /\ Due("start_send")
  /\ sequence_number' = NextNumber(sequence_number)
  /\ since' = 0
  /\ num_replies' = 0
  /\ Arm("handle_timeout", Timeout)
  /\ \E f \in Forms : net' = {[r EXCEPT !.old = TRUE] : r \in net}
                             \cup {NewReply(sequence_number', f)}
  /\ timedout' = FALSE
  /\ answered' = FALSE
  /\ UNCHANGED <<running, mistaken>>

(* send_to throws: the exception leaves run(), and the program ends. *)
SendThrows ==
  /\ Due("start_send")
  /\ running' = FALSE
  /\ UNCHANGED <<sequence_number, num_replies, since, timer, net, timedout,
                 answered, mistaken>>

(* Mutant: nothing is armed after a cancelled wait. *)
HandleTimeoutUnlessCancelled ==
  /\ Due("handle_timeout")
  /\ ~cancelled
  /\ timedout' = (num_replies = 0)
  /\ Arm("start_send", Gap)
  /\ UNCHANGED <<sequence_number, num_replies, since, net, running, answered,
                 mistaken>>

(* handle_timeout: say so if no reply came, and wait for the rest of Gap. *)
HandleTimeout ==
  /\ Due("handle_timeout")
  /\ timedout' = (num_replies = 0)
  /\ Arm("start_send", Gap)
  /\ UNCHANGED <<sequence_number, num_replies, since, net, running, answered,
                 mistaken>>

(* The ICMP header behind the IPv4 header, if all of it came: its type, the *)
(* identifier and the number.                                               *)
HasIcmp(packet) == Good(packet) /\ RestLength(packet) >= 8
IcmpType(packet) == RestByte(packet, 1)
IcmpIdentifier(packet) == RestByte(packet, 5) * 256 + RestByte(packet, 6)
IcmpNumber(packet) == RestByte(packet, 7) * 256 + RestByte(packet, 8)

(* Mutants: every number is expected; every reply interrupts. *)
AnyExpected(packet) == HasIcmp(packet)
EveryInterrupts == TRUE

(* The packet is an echo reply to this process, with the expected number; it *)
(* is the first, and interrupts.                                             *)
Expected(packet) ==
  /\ HasIcmp(packet)
  /\ IcmpType(packet) = 0
  /\ IcmpIdentifier(packet) = Identifier
  /\ IcmpNumber(packet) = sequence_number
Interrupts == num_replies = 0

(* What is printed about a packet, and what is true of a reply. *)
Printed(packet) ==
  LET header == Header(packet)
  IN  [bytes |-> Len(packet) - header_length(header),
       source |-> source_address(header), seq |-> IcmpNumber(packet),
       ttl |-> time_to_live(header)]
Truth(r) == [bytes |-> r.form.icmp, source |-> r.form.fields.source,
             seq |-> r.seq, ttl |-> r.form.fields.ttl]

(* handle_receive up to start_receive.  What is not an expected reply changes *)
(* nothing; isTrue says whether what would be printed is.                    *)
Handle(packet, isTrue) ==
  /\ running
  /\ IF Expected(packet)
     THEN /\ num_replies' = IF num_replies < 2 THEN num_replies + 1 ELSE 2
          /\ cancelled' = (cancelled \/ Interrupts)
          /\ mistaken' = ~isTrue
     ELSE UNCHANGED <<num_replies, cancelled, mistaken>>
  /\ UNCHANGED <<sequence_number, since, waits, expires, running, timedout>>

(* It gets a reply that stays in the network as a duplicate or does not. *)
HandleReceive(r) ==
  /\ r \in net
  /\ net' \in {net, net \ {r}}
  /\ Handle(Packet(r), ~r.old /\ Printed(Packet(r)) = Truth(r))
  /\ answered' = (answered \/ IsAnswer(r))

(* The receive failed, and handle_receive takes it for an empty packet. *)
ReceiveFails == Handle(<<>>, FALSE) /\ UNCHANGED <<net, answered>>

Next ==
  \/ Tick \/ StartSend \/ SendThrows \/ HandleTimeout \/ ReceiveFails
  \/ \E r \in net : Lose(r) \/ HandleReceive(r)

(* Time passes and the timer's handlers run; replies need not come. *)
Fairness == WF_vars(Tick) /\ WF_vars(HandleTimeout)
              /\ WF_vars(StartSend \/ SendThrows)

Spec == Init /\ [][Next]_vars /\ Fairness

-----------------------------------------------------------------------------
(* Requests are sent no less than Gap apart: neither a late reply nor a      *)
(* duplicate cuts the second wait short before Gap has passed.               *)
NoLessThanGapApart ==
  [][sequence_number' # sequence_number => since >= Gap]_vars

(* "Request timed out" is printed only when the request has had its Timeout  *)
(* and no reply to it was received before, with options in its header or     *)
(* without, however late the handlers ran (handle_timeout, handle_receive).  *)
TimedOutRightly ==
  [][~timedout /\ timedout' => since >= Timeout /\ ~answered]_vars

(* A reply that is printed is to the request the pinger waits on, of this    *)
(* process, and printed as it came (handle_receive): numbers come round      *)
(* again, but not within the life of a reply, and options or a packet that   *)
(* is cut do not shift what is read.                                         *)
NotMistaken == ~mistaken

(* The pinger goes on to the next request for ever, unless sending throws. *)
KeepsPinging ==
  \A n \in 0..SeqMod - 1 :
    running /\ sequence_number = n ~> ~running \/ sequence_number # n
=============================================================================
