------------------------------- MODULE UdpEcho -------------------------------
(***************************************************************************)
(* The udp echo: a server that sends every datagram back to where it came  *)
(* from, and clients that send one line and show the first datagram that   *)
(* comes.  Datagrams are lost, doubled and overtake each other, and anyone *)
(* may send one to a client.                                               *)
(***************************************************************************)
EXTENDS Naturals

CONSTANTS
  UdpClient,  (* the clients, by the endpoint of their socket *)
  max_length

ASSUME MaxLengthAssumption == max_length \in Nat \ {0}

VARIABLES
  stage,   (* where each client is                                         *)
  request, (* how long each client's request is                            *)
  reply,   (* what each has shown                                          *)
  net,     (* the datagrams under way                                      *)
  serving, (* the server's loop runs                                       *)
  missing  (* history: clients that lost a datagram                        *)

udpVars == <<stage, request, reply, net, serving, missing>>

(* A text is the beginning, of some length, of what someone wrote. *)
Stranger == "a stranger"
TheServer == "the server"
Text(who, length) == [by |-> who, length |-> length]
Datagram(from, to, text) == [from |-> from, to |-> to, text |-> text]
NoText == Text("nobody", 0)

(* An endpoint is the server's, a client's or that of anyone else. *)
ASSUME EndpointAssumption == TheServer \notin UdpClient

UdpInit ==
  /\ stage = [c \in UdpClient |-> "start"]
  /\ request = [c \in UdpClient |-> 0]
  /\ reply = [c \in UdpClient |-> NoText]
  /\ net = {}
  /\ serving = TRUE
  /\ missing = {}

-----------------------------------------------------------------------------
(* The network.  Whoever reads a datagram may find a double of it later. *)
Read(d) == {net, net \ {d}}

Missed(d) == (IF d.from = TheServer THEN {d.to} ELSE {d.from}) \cap UdpClient

Lose(d) ==
  /\ d \in net
  /\ net' = net \ {d}
  /\ missing' = missing \cup Missed(d)
  /\ UNCHANGED <<stage, request, reply, serving>>

Stray(c) ==
  /\ stage[c] = "waiting"
  /\ net' = net \cup {Datagram(Stranger, c, Text(Stranger, 1))}
  /\ UNCHANGED <<stage, request, reply, serving, missing>>

-----------------------------------------------------------------------------
(* buffer(b, n): a text is cut to what the buffer takes. *)
Cut(text, size) == [text EXCEPT !.length = IF @ < size THEN @ ELSE size]

(* A client sends its line, of at most what getline leaves room for, or      *)
(* send_to throws.                                                           *)
SendRequest(c, length) ==
  /\ stage[c] = "start"
  /\ request' = [request EXCEPT ![c] = length]
  /\ stage' = [stage EXCEPT ![c] = "waiting"]
  /\ net' = net \cup {Datagram(c, TheServer, Text(c, length))}
  /\ UNCHANGED <<reply, serving, missing>>

SendThrows(c) ==
  /\ stage[c] = "start"
  /\ stage' = [stage EXCEPT ![c] = "failed"]
  /\ UNCHANGED <<request, reply, net, serving, missing>>

(* The client shows the first datagram that comes, whoever it is from.       *)
(* reply_length was not initialized: garbage is any length of its buffer.    *)
ReceiveReply(c, d) ==
  /\ stage[c] = "waiting"
  /\ d \in net /\ d.to = c
  /\ \E garbage \in 0..max_length :
       reply' = [reply EXCEPT ![c] = Cut(d.text, garbage)]
  /\ stage' = [stage EXCEPT ![c] = "done"]
  /\ net' \in Read(d)
  /\ UNCHANGED <<request, serving, missing>>

(* receive_from throws, and the program ends. *)
ReceiveThrows(c) ==
  /\ stage[c] = "waiting"
  /\ stage' = [stage EXCEPT ![c] = "failed"]
  /\ UNCHANGED <<request, reply, net, serving, missing>>

-----------------------------------------------------------------------------
(* Mutant: the answer goes to the sender of any datagram that waits. *)
AnySender(d) == {e.from : e \in {q \in net : q.to = TheServer}}

(* sender_endpoint. *)
Answered(d) == {d.from}

(* A turn of the server's loop. *)
Serve(d) ==
  /\ serving
  /\ d \in net /\ d.to = TheServer
  /\ \E c \in Answered(d), left \in Read(d) :
       net' = left \cup {Datagram(TheServer, c, Cut(d.text, max_length))}
  /\ UNCHANGED <<stage, request, reply, serving, missing>>

(* receive_from or send_to throws, and the program ends. *)
ServerThrows ==
  /\ serving
  /\ serving' = FALSE
  /\ missing' = UdpClient
  /\ UNCHANGED <<stage, request, reply, net>>

UdpNext ==
  \/ ServerThrows
  \/ \E d \in net : Lose(d) \/ Serve(d)
  \/ \E c \in UdpClient :
       \/ SendThrows(c) \/ ReceiveThrows(c) \/ Stray(c)
       \/ \E length \in 0..max_length - 1 : SendRequest(c, length)
       \/ \E d \in net : ReceiveReply(c, d)

(* The server serves each client's datagrams, and what comes for a client   *)
(* that waits is received.                                                  *)
UdpFairness ==
  \A c \in UdpClient :
    /\ WF_udpVars(\E d \in net : d.from = c /\ Serve(d))
    /\ WF_udpVars(\E d \in net : ReceiveReply(c, d))

UdpSpec == UdpInit /\ [][UdpNext]_udpVars /\ UdpFairness

-----------------------------------------------------------------------------
Texts == [by : UdpClient \cup {Stranger, "nobody"}, length : Nat]
Datagrams ==
  [from : UdpClient \cup {Stranger, TheServer},
   to : UdpClient \cup {TheServer}, text : Texts]

UdpTypeOK ==
  /\ stage \in [UdpClient -> {"start", "waiting", "done", "failed"}]
  /\ request \in [UdpClient -> Nat]
  /\ reply \in [UdpClient -> Texts]
  /\ net \subseteq Datagrams
  /\ serving \in BOOLEAN
  /\ missing \subseteq UdpClient

(* What a client shows is the beginning of its own request, whatever was     *)
(* lost, doubled or overtaken; only a stranger can make it show another      *)
(* text, because the client does not look at sender_endpoint.                *)
ReplyIsAnEcho ==
  \A c \in UdpClient :
    stage[c] = "done" =>
      \/ reply[c].by = Stranger
      \/ reply[c].by = c /\ reply[c].length <= request[c]

(* A client that waits is answered or receives an error, unless a datagram   *)
(* of its own is lost or the server has ended: then nothing in the program   *)
(* ends its wait.                                                            *)
AnsweredUnlessLost ==
  \A c \in UdpClient :
    stage[c] = "waiting" ~> stage[c] \in {"done", "failed"} \/ c \in missing
=============================================================================
