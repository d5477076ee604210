------------------------------ MODULE Ipv4Header ------------------------------
(***************************************************************************)
(* The header of an IPv4 packet as ping reads it: operator>> into rep_, a  *)
(* function on 0..59 here, and the accessors of the class.  A packet is    *)
(* the sequence of its bytes.                                              *)
(***************************************************************************)
EXTENDS Integers, Sequences

Below(n) == {k \in Nat : k < n}
Byte == Below(256)
Short == Below(65536)

(* Two bytes as an unsigned short. *)
decode(rep, a, b) == (rep[a] * 256 + rep[b]) % 65536

version(rep) == rep[0] \div 16

(* Mutant: a header without options. *)
FixedLength(rep) == 20

header_length(rep) == (rep[0] % 16) * 4
type_of_service(rep) == rep[1]
total_length(rep) == decode(rep, 2, 3)
identification(rep) == decode(rep, 4, 5)
dont_fragment(rep) == (rep[6] \div 64) % 2 = 1
more_fragments(rep) == (rep[6] \div 32) % 2 = 1
fragment_offset(rep) == decode(rep, 6, 7) % 8192
time_to_live(rep) == rep[8]
protocol(rep) == rep[9]
header_checksum(rep) == decode(rep, 10, 11)
source_address(rep) == <<rep[12], rep[13], rep[14], rep[15]>>
destination_address(rep) == <<rep[16], rep[17], rep[18], rep[19]>>

-----------------------------------------------------------------------------
(* What is in rep_ when n bytes of the packet were asked for. *)
Rep(packet, n) ==
  [i \in 0..59 |-> IF i < n /\ i < Len(packet) THEN packet[i + 1] ELSE 0]

(* operator>>: twenty bytes, and as many more as they say.  A read that gets *)
(* too little fails the stream, and so does a version or a length that       *)
(* cannot be; nothing is read after that.                                    *)
Fixed(packet) == Rep(packet, 20)
OptionsLength(packet) == header_length(Fixed(packet)) - 20
FixedIsGood(packet) ==
  /\ Len(packet) >= 20
  /\ version(Fixed(packet)) = 4
  /\ OptionsLength(packet) \in 0..40
Good(packet) ==
  FixedIsGood(packet) /\ Len(packet) >= 20 + OptionsLength(packet)
Header(packet) ==
  Rep(packet, IF FixedIsGood(packet) THEN 20 + OptionsLength(packet) ELSE 20)

(* The i-th byte that the stream still holds for the reader of the next     *)
(* header, and how many there are.                                           *)
RestLength(packet) == Len(packet) - 20 - OptionsLength(packet)
RestByte(packet, i) == packet[20 + OptionsLength(packet) + i]

-----------------------------------------------------------------------------
(* The layout in the comment above the class, as the sender of a packet      *)
(* writes it: the reference the accessors are compared with.                 *)
Address == Byte \X Byte \X Byte \X Byte
Fields == [version : Below(16), words : 5..15, tos : Byte, length : Short,
           id : Short, df : BOOLEAN, mf : BOOLEAN, offset : Below(8192),
           ttl : Byte, protocol : Byte, checksum : Short,
           source : Address, destination : Address]

Bit(b, weight) == IF b THEN weight ELSE 0
Fragments(f) == Bit(f.df, 16384) + Bit(f.mf, 8192) + f.offset
Wire(f) ==
  << f.version * 16 + f.words, f.tos, f.length \div 256, f.length % 256,
     f.id \div 256, f.id % 256, Fragments(f) \div 256, Fragments(f) % 256,
     f.ttl, f.protocol, f.checksum \div 256, f.checksum % 256,
     f.source[1], f.source[2], f.source[3], f.source[4], f.destination[1],
     f.destination[2], f.destination[3], f.destination[4] >>
=============================================================================
