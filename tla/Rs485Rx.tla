------------------------------ MODULE Rs485Rx ------------------------------
(***************************************************************************)
(* The receive path of can_converter_rs485.c up to on_frame: the queue of  *)
(* packets that the UART driver fills, and parser_thread_fn, which feeds   *)
(* them to the COBS parser byte by byte.  What on_frame does is DataStore. *)
(*                                                                         *)
(* The master sends messages 1, 2, ... one behind the other, each a body   *)
(* followed by delimiters (two zero bytes in send_frame of                 *)
(* tools/rs485_tester.py).  A byte is told by its position in the stream   *)
(* of all bytes.  The driver closes a packet when the line is idle for     *)
(* 5 ms or its buffer is full, which may be anywhere in the stream, and    *)
(* drops it when the queue is full.                                        *)
(*                                                                         *)
(* Driver and COBS parser are in a submodule.  The parser collects bytes   *)
(* until a delimiter and then decodes what it has.  A whole body gives its *)
(* message; there is no checksum, so that anything else may be refused or  *)
(* be taken for a message.                                                 *)
(***************************************************************************)
EXTENDS Naturals, Sequences

CONSTANTS Body,         \* bytes of a body
          Delims,       \* delimiters behind a body (2)
          PacketSize,   \* bytes of the largest packet
          Depth,        \* slots of rs485_rx_queue (16)
          MaxMessages   \* bound of the model: messages the master sends

ASSUME SizeAssumption == {Body, Delims, PacketSize, Depth} \subseteq Nat \ {0}
ASSUME MaxMessagesAssumption == MaxMessages \in Nat

Size == Body + Delims
Message == 1 .. MaxMessages
Byte == 1 .. MaxMessages * Size

\* The bytes of a message: its body, then its delimiters.
Before(m) == (m - 1) * Size
BodyOf(m) == [i \in 1 .. Body |-> Before(m) + i]
DelimsOf(m) == Before(m) + Body + 1 .. Before(m) + Size
IsDelim(b) == \E m \in Message : b \in DelimsOf(m)

VARIABLES
    taken,              \* bytes the driver has taken off the line
    rs485_rx_queue,     \* packets, oldest first, each by its first and last byte
    packet,             \* the packet being fed: next and last byte
    parser,             \* bytes the COBS parser has collected
    lost,               \* history: bytes of dropped packets
    handed              \* history: what on_frame was called with

vars == <<taken, rs485_rx_queue, packet, parser, lost, handed>>

Init == /\ taken = 0
        /\ rs485_rx_queue = << >>
        /\ packet = <<1, 0>>
        /\ parser = << >>
        /\ lost = {}
        /\ handed = << >>
-----------------------------------------------------------------------------
\* A mistake, exchanged for Receive: one packet too many is let in.
ReceiveOver == \E n \in 1 .. PacketSize :
    /\ taken + n \in Byte
    /\ taken' = taken + n
    /\ Len(rs485_rx_queue) <= Depth
    /\ rs485_rx_queue' = Append(rs485_rx_queue, <<taken + 1, taken'>>)
    /\ UNCHANGED <<packet, parser, lost, handed>>

\* The driver puts the next bytes of the line on the queue, or drops them.
Receive == \E n \in 1 .. PacketSize :
    /\ taken + n \in Byte
    /\ taken' = taken + n
    /\ \/ /\ Len(rs485_rx_queue) < Depth
          /\ rs485_rx_queue' = Append(rs485_rx_queue, <<taken + 1, taken'>>)
          /\ UNCHANGED lost
       \/ /\ Len(rs485_rx_queue) = Depth
          /\ lost' = lost \cup (taken + 1 .. taken')
          /\ UNCHANGED rs485_rx_queue
    /\ UNCHANGED <<packet, parser, handed>>
-----------------------------------------------------------------------------
(* parser_thread_fn.                                                         *)

Feeding == packet[1] <= packet[2]

\* A mistake, exchanged for Get: the thread waits for a second packet.
GetPair == /\ ~Feeding
           /\ Len(rs485_rx_queue) > 1
           /\ packet' = Head(rs485_rx_queue)
           /\ rs485_rx_queue' = Tail(rs485_rx_queue)
           /\ UNCHANGED <<taken, parser, lost, handed>>

\* k_msgq_get.
Get == /\ ~Feeding
       /\ rs485_rx_queue # << >>
       /\ packet' = Head(rs485_rx_queue)
       /\ rs485_rx_queue' = Tail(rs485_rx_queue)
       /\ UNCHANGED <<taken, parser, lost, handed>>

\* A mistake, exchanged for Silence: the parser starts afresh.
SilenceResets == /\ ~Feeding
                 /\ rs485_rx_queue = << >>
                 /\ parser' = << >>
                 /\ UNCHANGED <<taken, rs485_rx_queue, packet, lost, handed>>

\* k_msgq_get gives up after 500 ms; what the parser has collected is kept.
Silence == /\ ~Feeding
           /\ rs485_rx_queue = << >>
           /\ UNCHANGED vars

Advance == packet' = <<packet[1] + 1, packet[2]>>

\* cobs_parser_feed with a byte of a body.
FeedByte == /\ Feeding
            /\ ~IsDelim(packet[1])
            /\ parser' = Append(parser, packet[1])
            /\ Advance
            /\ UNCHANGED <<taken, rs485_rx_queue, lost, handed>>

Whole(bytes) == \E m \in Message : bytes = BodyOf(m)

\* on_frame is called with what the parser has, which must decode, or is not.
HandOver == \/ parser # << >> /\ handed' = Append(handed, parser)
            \/ ~Whole(parser) /\ UNCHANGED handed

\* A mistake, exchanged for FeedDelim: the parser keeps its bytes.
FeedDelimKeeps == /\ Feeding
                  /\ IsDelim(packet[1])
                  /\ HandOver
                  /\ Advance
                  /\ UNCHANGED <<taken, rs485_rx_queue, parser, lost>>

\* cobs_parser_feed with a delimiter.
FeedDelim == /\ Feeding
             /\ IsDelim(packet[1])
             /\ HandOver
             /\ parser' = << >>
             /\ Advance
             /\ UNCHANGED <<taken, rs485_rx_queue, lost>>

ParserThread == Get \/ Silence \/ FeedByte \/ FeedDelim

Next == Receive \/ ParserThread

Spec == Init /\ [][Next]_vars

\* The thread runs whenever it can; when it waits for data_mutex it is granted
\* (DataStore!LockGranted).  Nothing makes the master send.
FairSpec == Spec /\ WF_vars(ParserThread)
-----------------------------------------------------------------------------
Packet == Byte \X Byte
Queued == {rs485_rx_queue[i] : i \in DOMAIN rs485_rx_queue}

TypeOK == /\ taken \in {0} \cup Byte
          /\ rs485_rx_queue \in Seq(Packet) /\ Len(rs485_rx_queue) <= Depth
          /\ packet \in Nat \X Nat
          /\ parser \in Seq(Byte)
          /\ lost \in SUBSET Byte
          /\ handed \in Seq(Seq(Byte))

\* Everything on_frame was called with so far is in order and was handed over
\* once: no byte comes twice, and none after a later one.
OnceInOrder ==
    /\ \A i \in DOMAIN handed : \A j, k \in DOMAIN handed[i] : j < k => handed[i][j] < handed[i][k]
    /\ \A i, j \in DOMAIN handed : i < j =>
          \A k \in DOMAIN handed[i], l \in DOMAIN handed[j] : handed[i][k] < handed[j][l]

\* A message that can still be told from its neighbours whatever was dropped:
\* its body is complete, so is one of its delimiters, and each earlier byte
\* that was not dropped has a delimiter behind it that was not either.
Intact(m) ==
    /\ \A i \in 1 .. Body : Before(m) + i \notin lost
    /\ \E b \in DelimsOf(m) : b \notin lost
    /\ \A b \in (1 .. Before(m)) \ lost : \E c \in (b .. Before(m)) \ lost : IsDelim(c)

\* The thread has been through all that is left of a message.
Done(m) == /\ taken >= Before(m) + Size
           /\ \A p \in Queued \cup {packet} : p[1] <= p[2] => p[1] > Before(m) + Size

\* A dropped packet costs the messages it touches, and one that runs into such a
\* message, but no other: an intact message reaches on_frame as it was sent,
\* wherever packets are cut and however long the line falls silent in the
\* middle of it.  (A damaged one may: a body that lost its own delimiters is
\* ended by those of the next message when that one's body is lost.)
IntactIsHanded == \A m \in Message :
    Done(m) /\ Intact(m) => \E i \in DOMAIN handed : handed[i] = BodyOf(m)

\* What is taken for a message without being one is made of damaged messages:
\* no byte of an intact message is ever mixed with others.
MixedIsDamaged == \A i \in DOMAIN handed : ~Whole(handed[i]) =>
    \A m \in Message : Intact(m) =>
        \A j \in DOMAIN handed[i], k \in 1 .. Body : handed[i][j] # Before(m) + k

\* Whatever the driver has taken off the line is fed in the end.
Drains == \A m \in Message : (taken >= Before(m) + Size) ~> Done(m)
=============================================================================
