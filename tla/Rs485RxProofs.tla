--------------------------- MODULE Rs485RxProofs ---------------------------
(***************************************************************************)
(* Proofs about Rs485Rx, for bodies, delimiters, packets, queues and       *)
(* streams of any length.                                                  *)
(*                                                                         *)
(* The thread is at one position in the stream, packet[1].  Behind it,     *)
(* every byte was lost or fed; ahead of it, every byte taken is lost or    *)
(* waits in the queue (Ahead).  The parser holds bytes with no delimiter   *)
(* fed since (Undelimited).  For a message that is intact this determines  *)
(* the parser: it holds just what has come of that message's body (Part),  *)
(* until a delimiter of it is fed and the body is handed over (Handed).    *)
(***************************************************************************)
EXTENDS Rs485Rx, SequenceTheorems, TLAPS

Coming(b) == \/ packet[1] <= b /\ b <= packet[2]
             \/ \E i \in DOMAIN rs485_rx_queue :
                   rs485_rx_queue[i][1] <= b /\ b <= rs485_rx_queue[i][2]

\* Packets stand in the order of the stream.
Ordered ==
    /\ 1 <= packet[1] /\ packet[1] <= packet[2] + 1 /\ packet[2] <= taken
    /\ \A i \in DOMAIN rs485_rx_queue :
          /\ packet[2] < rs485_rx_queue[i][1]
          /\ rs485_rx_queue[i][1] <= rs485_rx_queue[i][2]
          /\ rs485_rx_queue[i][2] <= taken
    /\ \A i, j \in DOMAIN rs485_rx_queue :
          i < j => rs485_rx_queue[i][2] < rs485_rx_queue[j][1]

\* What the parser has is in order, and behind it is what was handed over.
Fed == /\ \A j \in DOMAIN parser : parser[j] < packet[1]
       /\ \A j, k \in DOMAIN parser : j < k => parser[j] < parser[k]
       /\ \A i \in DOMAIN handed : \A k \in DOMAIN handed[i] :
             /\ handed[i][k] < packet[1]
             /\ \A j \in DOMAIN parser : handed[i][k] < parser[j]

Ahead == /\ \A b \in lost : b <= taken
         /\ \A b \in 1 .. taken : b >= packet[1] => b \in lost \/ Coming(b)
         /\ \A b \in Byte : Coming(b) => b \notin lost

Undelimited == \A j \in DOMAIN parser :
    /\ parser[j] \notin lost
    /\ \A c \in Byte : parser[j] <= c /\ c < packet[1] /\ c \notin lost => ~IsDelim(c)

\* A delimiter of the message has been fed.
Passed(m) == \E c \in DelimsOf(m) : c < packet[1] /\ c \notin lost

\* The parser has the first n bytes of the message.
Holds(m, n) == Len(parser) = n /\ \A j \in 1 .. n : parser[j] = Before(m) + j

\* The same after the step.
HoldsNext(m, n) == Len(parser') = n /\ \A j \in 1 .. n : parser'[j] = Before(m) + j

Part == \A m \in Message : Intact(m) /\ Before(m) < packet[1] /\ ~Passed(m) =>
    /\ packet[1] <= Before(m) + Body => Holds(m, packet[1] - 1 - Before(m))
    /\ packet[1] > Before(m) + Body => Holds(m, Body)

Handed == \A m \in Message : Intact(m) /\ Passed(m) =>
    \E i \in DOMAIN handed : handed[i] = BodyOf(m)

OrderInv == TypeOK /\ Ordered /\ Fed /\ OnceInOrder
StreamInv == OrderInv /\ Ahead /\ Undelimited /\ Part /\ Handed /\ MixedIsDamaged
-----------------------------------------------------------------------------
(* The stream.                                                               *)

LEMMA Sizes == /\ Body \in Nat \ {0} /\ Delims \in Nat \ {0} /\ PacketSize \in Nat
               /\ Size \in Nat /\ Size = Body + Delims
               /\ MaxMessages * Size \in Nat
               /\ \A m \in Message : m \in Nat /\ m >= 1 /\ Before(m) \in Nat
<1>1. /\ Body \in Nat \ {0} /\ Delims \in Nat \ {0} /\ PacketSize \in Nat
      /\ Size \in Nat /\ Size = Body + Delims
  BY SizeAssumption DEF Size
<1>2. \A a, b \in Nat : a * b \in Nat
  OBVIOUS
<1>3. ASSUME NEW m \in Message PROVE m \in Nat /\ m >= 1 /\ Before(m) \in Nat
  <2>1. m \in Nat /\ m >= 1 /\ m - 1 \in Nat
    BY MaxMessagesAssumption DEF Message
  <2> QED BY <1>1, <1>2, <2>1 DEF Before
<1> QED BY <1>1, <1>2, <1>3, MaxMessagesAssumption

LEMMA Products == \A a, b, c \in Nat : a * c \in Nat /\ (a + b) * c = a * c + b * c
  OBVIOUS

\* A message begins where those before it have ended.
LEMMA Apart ==
    ASSUME NEW m \in Message, NEW n \in Message, m < n
    PROVE  Before(m) + Size <= Before(n)
<1> DEFINE d == n - 1 - m
<1>1. d \in Nat /\ m \in Nat /\ n \in Nat /\ n - 1 = m + d
  BY Sizes
<1> HIDE DEF d
<1>0. Size \in Nat
  BY Sizes
<1>2. d * Size \in Nat /\ m * Size \in Nat
  BY <1>0, <1>1, Products
<1>3. (m + d) * Size = m * Size + d * Size
  BY <1>0, <1>1, Products
<1>4. (m - 1) * Size + Size = m * Size
  BY <1>0, <1>1
<1> QED BY <1>1, <1>2, <1>3, <1>4, Sizes DEF Before

\* What is behind a message is within the stream, and ends with a delimiter
\* unless it is nothing.
LEMMA Behind ==
    ASSUME NEW m \in Message, NEW b \in 1 .. Before(m)
    PROVE  Before(m) \in Byte /\ IsDelim(Before(m))
<1>1. Before(1) = 0
  BY Sizes DEF Before
<1>2. m \in 2 .. MaxMessages /\ m - 1 \in Message
  <2>1. m # 1
    BY <1>1
  <2> QED BY <2>1, MaxMessagesAssumption DEF Message
<1>3. Before(m) = Before(m - 1) + Size
  BY <1>2, Sizes DEF Before
<1>4. Before(m) \in DelimsOf(m - 1)
  BY <1>2, <1>3, Sizes DEF DelimsOf
<1>5. (m - 1) * Size <= MaxMessages * Size
  <2>1. PICK d \in Nat : MaxMessages = (m - 1) + d
    BY <1>2, MaxMessagesAssumption
  <2>2. ((m - 1) + d) * Size = (m - 1) * Size + d * Size /\ d * Size \in Nat
    BY <1>2, Sizes
  <2> QED BY <1>2, <2>1, <2>2, Sizes
<1> QED BY <1>2, <1>4, <1>5, Sizes DEF Byte, Before, IsDelim

\* Bytes and delimiters of messages.
LEMMA Bytes ==
    /\ Byte \subseteq Nat
    /\ \A m \in Message : \A c \in DelimsOf(m) :
          c \in Nat /\ Before(m) + Body < c /\ c <= Before(m) + Size
    /\ \A m \in Message, c \in Nat :
          Before(m) + Body < c /\ c <= Before(m) + Size => c \in DelimsOf(m)
    /\ \A m \in Message, c \in Nat : c \in DelimsOf(m) => IsDelim(c)
  BY Sizes DEF Byte, DelimsOf, IsDelim

LEMMA Elements == ASSUME NEW S, NEW s \in Seq(S) PROVE \A i \in DOMAIN s : s[i] \in S
  OBVIOUS

LEMMA Appended ==
    ASSUME NEW S, NEW s \in Seq(S), NEW e \in S
    PROVE  /\ Append(s, e) \in Seq(S)
           /\ \A i \in DOMAIN Append(s, e) :
                 \/ i \in DOMAIN s /\ Append(s, e)[i] = s[i]
                 \/ i = Len(s) + 1 /\ Append(s, e)[i] = e
<1>1. DOMAIN s = 1 .. Len(s) /\ DOMAIN Append(s, e) = 1 .. Len(s) + 1 /\ Len(s) \in Nat
  OBVIOUS
<1> QED BY <1>1, AppendProperties

LEMMA Receives ==
    ASSUME TypeOK, Receive
    PROVE  /\ taken' \in Byte /\ taken < taken' /\ taken \in Nat
           /\ UNCHANGED <<packet, parser, handed>>
           /\ \/ /\ rs485_rx_queue' = Append(rs485_rx_queue, <<taken + 1, taken'>>)
                 /\ Len(rs485_rx_queue) < Depth
                 /\ lost' = lost
              \/ /\ rs485_rx_queue' = rs485_rx_queue
                 /\ lost' = lost \cup (taken + 1 .. taken')
<1>1. taken \in Nat
  BY Bytes DEF TypeOK
<1>2. PICK n \in 1 .. PacketSize : taken + n \in Byte /\ taken' = taken + n
  BY DEF Receive
<1> QED BY <1>1, <1>2, Sizes DEF Receive

LEMMA Gets ==
    ASSUME TypeOK, Get
    PROVE  /\ packet' \in Packet /\ 1 \in DOMAIN rs485_rx_queue
           /\ packet' = rs485_rx_queue[1]
           /\ rs485_rx_queue' \in Seq(Packet)
           /\ Len(rs485_rx_queue') = Len(rs485_rx_queue) - 1
           /\ \A i \in DOMAIN rs485_rx_queue' :
                 i + 1 \in DOMAIN rs485_rx_queue /\ rs485_rx_queue'[i] = rs485_rx_queue[i + 1]
<1>1. rs485_rx_queue # << >> /\ rs485_rx_queue \in Seq(Packet)
      /\ packet' = Head(rs485_rx_queue) /\ rs485_rx_queue' = Tail(rs485_rx_queue)
  BY DEF Get, TypeOK
<1>2. /\ rs485_rx_queue' \in Seq(Packet) /\ packet' \in Packet
      /\ Len(rs485_rx_queue') = Len(rs485_rx_queue) - 1
      /\ \A i \in 1 .. Len(rs485_rx_queue') : rs485_rx_queue'[i] = rs485_rx_queue[i + 1]
  BY <1>1, HeadTailProperties
<1>3. 1 \in DOMAIN rs485_rx_queue /\ packet' = rs485_rx_queue[1]
  BY <1>1
<1> QED BY <1>1, <1>2, <1>3

LEMMA Feeds ==
    ASSUME OrderInv, Feeding
    PROVE  /\ packet[1] \in Byte /\ packet[1] \in Nat /\ packet[2] \in Nat
           /\ packet = <<packet[1], packet[2]>>
<1>1. packet[1] \in Nat /\ packet[2] \in Nat /\ packet = <<packet[1], packet[2]>>
  BY DEF OrderInv, TypeOK
<1>2. 1 <= packet[1] /\ packet[1] <= taken /\ taken \in Nat /\ taken <= MaxMessages * Size
  BY <1>1, Sizes DEF OrderInv, Ordered, Feeding, TypeOK, Byte
<1> QED BY <1>1, <1>2, Sizes DEF Byte
-----------------------------------------------------------------------------
(* Types and order.                                                          *)

LEMMA OrderInit == Init => OrderInv
<1> SUFFICES ASSUME Init PROVE OrderInv
  OBVIOUS
<1> QED BY SizeAssumption DEF Init, OrderInv, TypeOK, Ordered, Fed, OnceInOrder

LEMMA TypeStep == OrderInv /\ [Next]_vars => TypeOK'
<1> SUFFICES ASSUME OrderInv, [Next]_vars PROVE TypeOK'
  OBVIOUS
<1>0. TypeOK
  BY DEF OrderInv
<1>1. CASE Receive
  <2>1. <<taken + 1, taken'>> \in Packet
    BY <1>0, <1>1, Receives, Sizes DEF Byte, Packet
  <2>2. /\ rs485_rx_queue' \in Seq(Packet) /\ Len(rs485_rx_queue') <= Depth
    <3>1. CASE rs485_rx_queue' = Append(rs485_rx_queue, <<taken + 1, taken'>>)
      BY <1>0, <1>1, <2>1, <3>1, Receives, AppendProperties, SizeAssumption DEF TypeOK
    <3>2. CASE rs485_rx_queue' = rs485_rx_queue
      BY <1>0, <3>2 DEF TypeOK
    <3> QED BY <1>0, <1>1, <3>1, <3>2, Receives
  <2>3. lost' \in SUBSET Byte
    <3>1. taken' \in Nat /\ taken' <= MaxMessages * Size /\ taken \in Nat
      BY <1>0, <1>1, Receives, Sizes DEF Byte
    <3>2. (taken + 1 .. taken') \subseteq Byte
      BY <3>1, Sizes DEF Byte
    <3> QED BY <1>0, <1>1, <3>2, Receives DEF TypeOK
  <2> QED BY <1>0, <1>1, <2>2, <2>3, Receives DEF TypeOK
<1>2. CASE Get
  <2>1. /\ packet' \in Packet /\ rs485_rx_queue' \in Seq(Packet)
        /\ Len(rs485_rx_queue') = Len(rs485_rx_queue) - 1
    BY <1>0, <1>2, Gets
  <2>2. packet' \in Nat \X Nat
    BY <2>1, Bytes DEF Packet
  <2>3. Len(rs485_rx_queue') <= Depth
    BY <1>0, <2>1, SizeAssumption DEF TypeOK
  <2>4. UNCHANGED <<taken, parser, lost, handed>>
    BY <1>2 DEF Get
  <2> QED BY <1>0, <2>1, <2>2, <2>3, <2>4 DEF TypeOK
<1>3. CASE Silence \/ UNCHANGED vars
  BY <1>0, <1>3 DEF Silence, vars, TypeOK
<1>4. CASE FeedByte
  <2>1. packet[1] \in Byte /\ packet[1] \in Nat /\ packet[2] \in Nat
    BY <1>4, Feeds DEF FeedByte
  <2>2. parser' \in Seq(Byte)
    BY <1>0, <1>4, <2>1, AppendProperties DEF FeedByte, TypeOK
  <2>3. packet' \in Nat \X Nat
    BY <1>4, <2>1 DEF FeedByte, Advance
  <2>4. UNCHANGED <<taken, rs485_rx_queue, lost, handed>>
    BY <1>4 DEF FeedByte
  <2> QED BY <1>0, <2>2, <2>3, <2>4 DEF TypeOK
<1>5. CASE FeedDelim
  <2>1. packet[1] \in Nat /\ packet[2] \in Nat
    BY <1>5, Feeds DEF FeedDelim
  <2>2. packet' \in Nat \X Nat
    BY <1>5, <2>1 DEF FeedDelim, Advance
  <2>3. handed' \in Seq(Seq(Byte))
    <3>1. handed \in Seq(Seq(Byte)) /\ parser \in Seq(Byte)
          /\ (handed' = Append(handed, parser) \/ handed' = handed)
      BY <1>0, <1>5 DEF FeedDelim, HandOver, TypeOK
    <3> DEFINE S == Seq(Byte)
    <3>2. handed \in Seq(S) /\ parser \in S
      BY <3>1
    <3> HIDE DEF S
    <3>3. handed' \in Seq(S)
      BY <3>1, <3>2, Appended
    <3> QED BY <3>3 DEF S
  <2>4. UNCHANGED <<taken, rs485_rx_queue, lost>> /\ parser' = << >>
    BY <1>5 DEF FeedDelim
  <2> QED BY <1>0, <2>2, <2>3, <2>4 DEF TypeOK
<1> QED BY <1>1, <1>2, <1>3, <1>4, <1>5 DEF Next, ParserThread

\* Bytes are numbers, wherever they stand.
Numbers ==
    /\ packet[1] \in Nat /\ packet[2] \in Nat /\ taken \in Nat
    /\ \A i \in DOMAIN rs485_rx_queue :
          rs485_rx_queue[i][1] \in Nat /\ rs485_rx_queue[i][2] \in Nat
    /\ \A j \in DOMAIN parser : parser[j] \in Nat
    /\ \A i \in DOMAIN handed : \A k \in DOMAIN handed[i] : handed[i][k] \in Nat

LEMMA NumbersHold == ASSUME OrderInv PROVE Numbers
<1>t. TypeOK
  BY DEF OrderInv
<1>0. Byte \subseteq Nat
  BY Bytes
<1>1. packet[1] \in Nat /\ packet[2] \in Nat /\ taken \in Nat
  BY <1>t, <1>0 DEF TypeOK
<1>2. \A i \in DOMAIN rs485_rx_queue : rs485_rx_queue[i] \in Packet
  BY <1>t, Elements DEF TypeOK
<1>3. \A i \in DOMAIN rs485_rx_queue :
         rs485_rx_queue[i][1] \in Nat /\ rs485_rx_queue[i][2] \in Nat
  BY <1>0, <1>2 DEF Packet
<1>4. \A s \in Seq(Byte) : \A j \in DOMAIN s : s[j] \in Nat
  BY <1>0, Elements
<1>5. parser \in Seq(Byte) /\ \A i \in DOMAIN handed : handed[i] \in Seq(Byte)
  BY <1>t, Elements DEF TypeOK
<1> QED BY <1>1, <1>3, <1>4, <1>5 DEF Numbers

LEMMA OrderStep == OrderInv /\ [Next]_vars => OrderInv'
<1> SUFFICES ASSUME OrderInv, [Next]_vars PROVE OrderInv'
  OBVIOUS
<1>t. TypeOK /\ Ordered /\ Fed /\ OnceInOrder /\ TypeOK'
  BY TypeStep DEF OrderInv
<1>n. Numbers
  BY NumbersHold
<1> USE DEF Numbers
<1>1. CASE Receive
  <2>1. UNCHANGED <<packet, parser, handed>> /\ taken < taken' /\ taken' \in Nat
    BY <1>1, <1>t, Receives, Bytes
  <2>2. Fed' /\ OnceInOrder'
    BY <1>t, <2>1 DEF Fed, OnceInOrder
  <2>3. CASE rs485_rx_queue' = rs485_rx_queue
    BY <1>t, <1>n, <2>1, <2>2, <2>3 DEF OrderInv, Ordered
  <2>4. CASE rs485_rx_queue' = Append(rs485_rx_queue, <<taken + 1, taken'>>)
    <3>1. /\ DOMAIN rs485_rx_queue = 1 .. Len(rs485_rx_queue) /\ Len(rs485_rx_queue) \in Nat
          /\ DOMAIN rs485_rx_queue' = 1 .. Len(rs485_rx_queue) + 1
          /\ \A i \in DOMAIN rs485_rx_queue : rs485_rx_queue'[i] = rs485_rx_queue[i]
          /\ rs485_rx_queue'[Len(rs485_rx_queue) + 1] = <<taken + 1, taken'>>
      BY <1>t, <2>4 DEF TypeOK
    <3>2. \A i \in DOMAIN rs485_rx_queue' :
             \/ i \in DOMAIN rs485_rx_queue /\ rs485_rx_queue'[i] = rs485_rx_queue[i]
             \/ i = Len(rs485_rx_queue) + 1 /\ rs485_rx_queue'[i][1] = taken + 1
                /\ rs485_rx_queue'[i][2] = taken'
      BY <3>1
    <3>3. \A i \in DOMAIN rs485_rx_queue' :
             /\ packet'[2] < rs485_rx_queue'[i][1]
             /\ rs485_rx_queue'[i][1] <= rs485_rx_queue'[i][2]
             /\ rs485_rx_queue'[i][2] <= taken'
      BY <1>t, <1>n, <2>1, <3>2 DEF Ordered
    <3>4. ASSUME NEW i \in DOMAIN rs485_rx_queue', NEW j \in DOMAIN rs485_rx_queue', i < j
          PROVE  rs485_rx_queue'[i][2] < rs485_rx_queue'[j][1]
      <4>1. i \in DOMAIN rs485_rx_queue /\ rs485_rx_queue'[i] = rs485_rx_queue[i]
        BY <3>1, <3>4
      <4> QED BY <1>t, <1>n, <3>2, <3>4, <4>1 DEF Ordered
    <3> QED BY <1>t, <1>n, <2>1, <2>2, <3>3, <3>4 DEF OrderInv, Ordered
  <2> QED BY <1>1, <1>t, <2>3, <2>4, Receives
<1>2. CASE Get
  <2>1. /\ packet' = rs485_rx_queue[1] /\ 1 \in DOMAIN rs485_rx_queue
        /\ \A i \in DOMAIN rs485_rx_queue' :
              i + 1 \in DOMAIN rs485_rx_queue /\ rs485_rx_queue'[i] = rs485_rx_queue[i + 1]
        /\ \A i \in DOMAIN rs485_rx_queue' : i \in Nat /\ i >= 1
    BY SMTT(30), <1>2, <1>t, Gets DEF TypeOK
  <2>2. UNCHANGED <<taken, parser, lost, handed>> /\ packet[2] < packet[1]
    BY <1>2, <1>n DEF Get, Feeding
  <2>3. packet[1] <= packet'[1]
    BY <1>t, <1>n, <2>1, <2>2 DEF Ordered
  <2>4. Ordered'
    <3>1. packet'[1] \in Nat /\ packet'[2] \in Nat
      BY <1>n, <2>1
    <3>2. 1 <= packet'[1] /\ packet'[1] <= packet'[2] + 1 /\ packet'[2] <= taken'
      BY <1>t, <1>n, <2>1, <2>2, <2>3, <3>1 DEF Ordered
    <3>3. \A i \in DOMAIN rs485_rx_queue' : packet'[2] < rs485_rx_queue'[i][1]
      BY <1>t, <2>1 DEF Ordered
    <3>4. \A i, j \in DOMAIN rs485_rx_queue' :
             i < j => rs485_rx_queue'[i][2] < rs485_rx_queue'[j][1]
      BY <1>t, <2>1 DEF Ordered
    <3> QED BY <1>t, <2>1, <2>2, <3>2, <3>3, <3>4 DEF Ordered
  <2>5. Fed'
    BY <1>t, <1>n, <2>1, <2>2, <2>3 DEF Fed
  <2> QED BY <1>t, <2>2, <2>4, <2>5 DEF OrderInv, OnceInOrder
<1>3. CASE Silence \/ UNCHANGED vars
  BY <1>3, <1>t DEF Silence, vars, OrderInv, Ordered, Fed, OnceInOrder
<1>4. CASE FeedByte
  <2>1. /\ UNCHANGED <<taken, rs485_rx_queue, lost, handed>>
        /\ parser' = Append(parser, packet[1])
        /\ packet'[1] = packet[1] + 1 /\ packet'[2] = packet[2] /\ packet[1] <= packet[2]
    BY <1>4 DEF FeedByte, Advance, Feeding
  <2>2. \A j \in DOMAIN parser' : \/ j \in DOMAIN parser /\ parser'[j] = parser[j]
                                  \/ j = Len(parser) + 1 /\ parser'[j] = packet[1]
    BY <1>t, <2>1 DEF TypeOK
  <2>3. DOMAIN parser = 1 .. Len(parser) /\ Len(parser) \in Nat
        /\ \A j \in DOMAIN parser' : j \in Nat
    BY <1>t DEF TypeOK
  <2>4. Ordered'
    BY <1>t, <1>n, <2>1 DEF Ordered
  <2>5. \A j, k \in DOMAIN parser' : j < k => parser'[j] < parser'[k]
    BY <1>t, <1>n, <2>2, <2>3 DEF Fed
  <2>6. Fed'
    BY <1>t, <1>n, <2>1, <2>2, <2>5 DEF Fed
  <2> QED BY <1>t, <2>1, <2>4, <2>6 DEF OrderInv, OnceInOrder
<1>5. CASE FeedDelim
  <2>1. /\ UNCHANGED <<taken, rs485_rx_queue, lost>> /\ parser' = << >>
        /\ packet'[1] = packet[1] + 1 /\ packet'[2] = packet[2] /\ packet[1] <= packet[2]
        /\ handed' = Append(handed, parser) \/ handed' = handed
    BY <1>5 DEF FeedDelim, Advance, Feeding, HandOver
  <2>2. \A i \in DOMAIN handed' : \/ i \in DOMAIN handed /\ handed'[i] = handed[i]
                                  \/ i = Len(handed) + 1 /\ handed'[i] = parser
    <3> DEFINE S == Seq(Byte)
    <3>1. handed \in Seq(S) /\ parser \in S
      BY <1>t DEF TypeOK
    <3> HIDE DEF S
    <3>2. CASE handed' = Append(handed, parser)
      BY <3>1, <3>2, Appended
    <3>3. CASE handed' = handed
      BY <3>3
    <3> QED BY <2>1, <3>2, <3>3
  <2>3. DOMAIN handed = 1 .. Len(handed) /\ Len(handed) \in Nat
        /\ \A i \in DOMAIN handed' : i \in Nat
    BY <1>t DEF TypeOK
  <2>4. Ordered'
    BY <1>t, <1>n, <2>1 DEF Ordered
  <2>5. Fed'
    BY <1>t, <1>n, <2>1, <2>2 DEF Fed
  <2>6. OnceInOrder'
    BY <1>t, <2>2, <2>3 DEF Fed, OnceInOrder
  <2> QED BY <1>t, <2>4, <2>5, <2>6 DEF OrderInv
<1> QED BY <1>1, <1>2, <1>3, <1>4, <1>5 DEF Next, ParserThread
-----------------------------------------------------------------------------
(* What becomes of the bytes, one lemma for each step.                       *)

\* A message that is intact was so before: what is lost now is at the end.
LEMMA IntactBefore ==
    ASSUME OrderInv, Ahead, Receive, NEW m \in Message, Intact(m)'
    PROVE  Intact(m)
<1>1. /\ \A b \in Nat : b \in lost => b \in lost'
      /\ \A b \in Nat : b \in lost' /\ b \notin lost => b > taken
      /\ \A b \in lost : b <= taken
      /\ taken \in Nat
  BY Receives DEF OrderInv, Ahead
<1>2. Before(m) \in Nat /\ Body \in Nat
  BY Sizes
<1>3. /\ \A i \in 1 .. Body : Before(m) + i \notin lost
      /\ \E b \in DelimsOf(m) : b \notin lost
  BY <1>1, <1>2, Bytes DEF Intact
<1>4. ASSUME NEW b \in (1 .. Before(m)) \ lost
      PROVE  \E c \in (b .. Before(m)) \ lost : IsDelim(c)
  <2>1. CASE b \in lost'
    <3>1. b > taken /\ Before(m) \in (b .. Before(m)) \ lost
      BY <1>1, <1>2, <2>1
    <3> QED BY <1>2, <3>1, Behind
  <2>2. CASE b \notin lost'
    BY <1>1, <1>2, <2>2 DEF Intact
  <2> QED BY <2>1, <2>2
<1> QED BY <1>3, <1>4 DEF Intact

LEMMA StreamReceive == ASSUME StreamInv, OrderInv', Receive PROVE StreamInv'
<1>n. OrderInv /\ TypeOK /\ Ordered /\ Fed /\ Numbers
  BY NumbersHold DEF StreamInv, OrderInv
<1> USE DEF Numbers
<1>1. /\ UNCHANGED <<packet, parser, handed>> /\ taken < taken' /\ taken' \in Nat
      /\ \/ rs485_rx_queue' = Append(rs485_rx_queue, <<taken + 1, taken'>>) /\ lost' = lost
         \/ rs485_rx_queue' = rs485_rx_queue /\ lost' = lost \cup (taken + 1 .. taken')
  BY <1>n, Receives, Bytes
<1>2. Byte \subseteq Nat
  BY Bytes
<1>3. \A b \in Nat : b <= taken => (b \in lost' <=> b \in lost)
  <2>1. \A b \in Nat : b <= taken => b \notin (taken + 1 .. taken')
    BY <1>n, <1>1
  <2> QED BY <1>1, <2>1
<1>4. /\ \A b \in Nat : Coming(b) => b <= taken /\ Coming(b)'
      /\ \A b \in Nat : b <= taken /\ Coming(b)' => Coming(b)
      /\ \A b \in Nat : taken < b /\ b <= taken' => (b \in lost' \/ Coming(b)')
      /\ \A b \in Nat : taken < b /\ Coming(b)' => b \notin lost'
  <2>1. \A b \in Nat : Coming(b) => b <= taken
    BY <1>n DEF Coming, Ordered
  <2>2. \A b \in lost : b <= taken
    BY DEF StreamInv, Ahead
  <2>3. CASE rs485_rx_queue' = rs485_rx_queue /\ lost' = lost \cup (taken + 1 .. taken')
    BY <1>n, <1>1, <2>1, <2>3 DEF Coming
  <2>4. CASE rs485_rx_queue' = Append(rs485_rx_queue, <<taken + 1, taken'>>) /\ lost' = lost
    <3>1. /\ \A i \in DOMAIN rs485_rx_queue :
                i \in DOMAIN rs485_rx_queue' /\ rs485_rx_queue'[i] = rs485_rx_queue[i]
          /\ Len(rs485_rx_queue) + 1 \in DOMAIN rs485_rx_queue'
          /\ rs485_rx_queue'[Len(rs485_rx_queue) + 1] = <<taken + 1, taken'>>
          /\ \A i \in DOMAIN rs485_rx_queue' :
                i \in DOMAIN rs485_rx_queue \/ i = Len(rs485_rx_queue) + 1
      BY <1>n, <2>4 DEF TypeOK
    <3>2. \A b \in Nat : Coming(b)' <=> Coming(b) \/ (taken < b /\ b <= taken')
      BY <1>n, <1>1, <3>1 DEF Coming
    <3> QED BY <1>n, <2>1, <2>2, <2>4, <3>2
  <2> QED BY <1>1, <2>3, <2>4
<1>5. Ahead'
  <2>1. \A b \in lost' : b <= taken'
    <3>1. \A b \in lost : b <= taken /\ b \in Nat
      BY <1>n, <1>2 DEF StreamInv, Ahead, TypeOK
    <3> QED BY <1>n, <1>1, <3>1
  <2>2. \A b \in 1 .. taken' : b >= packet'[1] => b \in lost' \/ Coming(b)'
    <3>1. \A b \in 1 .. taken' : b \in Nat /\ (b <= taken => b \in 1 .. taken)
      BY <1>n
    <3> QED BY <1>n, <1>1, <1>3, <1>4, <3>1 DEF StreamInv, Ahead
  <2>3. \A b \in Byte : Coming(b)' => b \notin lost'
    BY <1>n, <1>2, <1>3, <1>4 DEF StreamInv, Ahead
  <2> QED BY <2>1, <2>2, <2>3 DEF Ahead
<1>6. \A b \in Nat : b < packet[1] => (b \in lost' <=> b \in lost)
  BY <1>n, <1>3 DEF Ordered
<1>7. Undelimited'
  BY <1>n, <1>1, <1>2, <1>6 DEF StreamInv, Undelimited, Fed
<1>8. \A m \in Message : /\ Intact(m)' => Intact(m)
                         /\ Passed(m)' <=> Passed(m)
  BY <1>n, <1>1, <1>6, IntactBefore, Bytes DEF StreamInv, Passed
<1>9. Part'
  BY <1>1, <1>8 DEF StreamInv, Part, Holds
<1>10. Handed'
  BY <1>1, <1>8 DEF StreamInv, Handed
<1>11. MixedIsDamaged'
  BY <1>1, <1>8 DEF StreamInv, MixedIsDamaged
<1> QED BY <1>5, <1>7, <1>9, <1>10, <1>11 DEF StreamInv

\* The bytes between the packet that has been fed and the next one were lost.
LEMMA Skipped ==
    ASSUME StreamInv, Get
    PROVE  /\ packet[1] <= packet'[1] /\ packet'[1] \in Nat
           /\ \A b \in Nat : packet[1] <= b /\ b < packet'[1] => b \in lost
<1>n. OrderInv /\ TypeOK /\ Ordered /\ Numbers
  BY NumbersHold DEF StreamInv, OrderInv
<1> USE DEF Numbers
<1>1. packet' = rs485_rx_queue[1] /\ 1 \in DOMAIN rs485_rx_queue /\ packet[2] < packet[1]
  BY <1>n, Gets DEF Get, Feeding
<1>2. packet[1] <= packet'[1] /\ packet'[1] \in Nat
  BY <1>n, <1>1 DEF Ordered
<1>3. ASSUME NEW b \in Nat, packet[1] <= b, b < packet'[1] PROVE b \in lost
  <2>1. b \in 1 .. taken
    BY <1>n, <1>1, <1>3 DEF Ordered
  <2>2. \A i \in DOMAIN rs485_rx_queue : b < rs485_rx_queue[i][1]
    <3>1. \A i \in DOMAIN rs485_rx_queue : i = 1 \/ 1 < i
      BY <1>n DEF TypeOK
    <3> QED BY <1>n, <1>1, <1>3, <3>1 DEF Ordered
  <2>3. ~Coming(b)
    BY <1>n, <1>1, <1>3, <2>2 DEF Coming
  <2> QED BY <1>3, <2>1, <2>3 DEF StreamInv, Ahead
<1> QED BY <1>2, <1>3

LEMMA StreamGet == ASSUME StreamInv, OrderInv', Get PROVE StreamInv'
<1>n. OrderInv /\ TypeOK /\ Ordered /\ Fed /\ Numbers
  BY NumbersHold DEF StreamInv, OrderInv
<1> USE DEF Numbers
<1>1. UNCHANGED <<taken, parser, lost, handed>> /\ packet[2] < packet[1]
  BY <1>n DEF Get, Feeding
<1>2. /\ packet[1] <= packet'[1] /\ packet'[1] \in Nat
      /\ \A b \in Nat : packet[1] <= b /\ b < packet'[1] => b \in lost
  BY Skipped
<1>3. Byte \subseteq Nat
  BY Bytes
<1>4. Ahead'
  <2>1. /\ packet' = rs485_rx_queue[1] /\ 1 \in DOMAIN rs485_rx_queue
        /\ \A i \in DOMAIN rs485_rx_queue' :
              i + 1 \in DOMAIN rs485_rx_queue /\ rs485_rx_queue'[i] = rs485_rx_queue[i + 1]
        /\ \A i \in DOMAIN rs485_rx_queue : i = 1 \/ i - 1 \in DOMAIN rs485_rx_queue'
        /\ \A i \in DOMAIN rs485_rx_queue : i \in Nat
    BY SMTT(30), <1>n, Gets DEF TypeOK
  <2>2. \A b \in Nat : Coming(b)' => Coming(b)
    BY <2>1 DEF Coming
  <2>3. ASSUME NEW b \in Nat, Coming(b), b >= packet'[1] PROVE Coming(b)'
    <3>1. PICK i \in DOMAIN rs485_rx_queue :
             rs485_rx_queue[i][1] <= b /\ b <= rs485_rx_queue[i][2]
      BY <1>n, <1>1, <2>3 DEF Coming
    <3>2. CASE i = 1
      BY <2>1, <3>1, <3>2 DEF Coming
    <3>3. CASE i # 1
      <4>1. i - 1 \in DOMAIN rs485_rx_queue' /\ rs485_rx_queue'[i - 1] = rs485_rx_queue[i]
        BY <2>1, <3>3
      <4> QED BY <3>1, <4>1 DEF Coming
    <3> QED BY <3>2, <3>3
  <2>4. \A b \in lost' : b <= taken'
    BY <1>1 DEF StreamInv, Ahead
  <2>5. \A b \in 1 .. taken' : b >= packet'[1] => b \in lost' \/ Coming(b)'
    <3>1. \A b \in 1 .. taken : b \in Nat
      BY <1>n
    <3> QED BY <1>n, <1>1, <1>2, <2>3, <3>1 DEF StreamInv, Ahead
  <2>6. \A b \in Byte : Coming(b)' => b \notin lost'
    BY <1>1, <1>3, <2>2 DEF StreamInv, Ahead
  <2> QED BY <2>4, <2>5, <2>6 DEF Ahead
<1>5. Undelimited'
  BY <1>n, <1>1, <1>2, <1>3 DEF StreamInv, Undelimited
<1>6. \A m \in Message : /\ Intact(m)' <=> Intact(m)
                         /\ Passed(m)' <=> Passed(m)
  BY <1>n, <1>1, <1>2, Bytes DEF Intact, Passed
<1>7. Part'
  <2>1. ASSUME NEW m \in Message, Intact(m), Before(m) < packet'[1], ~Passed(m)
        PROVE  /\ packet'[1] <= Before(m) + Body => Holds(m, packet'[1] - 1 - Before(m))
               /\ packet'[1] > Before(m) + Body => Holds(m, Body)
    <3>1. Before(m) \in Nat /\ Body \in Nat /\ Body > 0
      BY Sizes
    <3>2. \A c \in Nat : Before(m) < c /\ c <= Before(m) + Body => c \notin lost
      <4>1. \A i \in 1 .. Body : Before(m) + i \notin lost
        BY <2>1 DEF Intact
      <4>2. \A c \in Nat : Before(m) < c /\ c <= Before(m) + Body =>
               c - Before(m) \in 1 .. Body /\ Before(m) + (c - Before(m)) = c
        BY <3>1
      <4> QED BY <4>1, <4>2
    <3>3. CASE Before(m) < packet[1]
      <4>1. packet'[1] = packet[1] \/ packet[1] > Before(m) + Body
        BY <1>n, <1>2, <3>1, <3>2, <3>3
      <4> QED BY <1>n, <1>2, <2>1, <3>1, <3>3, <4>1 DEF StreamInv, Part
    <3>4. CASE Before(m) >= packet[1]
      <4>1. packet'[1] = Before(m) + 1
        <5>1. Before(m) + 1 \notin lost /\ Before(m) + 1 \in Nat
          BY <3>1, <3>2
        <5> QED BY <1>n, <1>2, <2>1, <3>1, <3>4, <5>1
      <4>2. parser = << >>
        <5> SUFFICES ASSUME parser # << >> PROVE FALSE
          OBVIOUS
        <5>1. 1 \in DOMAIN parser
          BY <1>n DEF TypeOK
        <5>2. parser[1] \in 1 .. Before(m) /\ parser[1] \notin lost
              /\ parser[1] \in Nat /\ parser[1] < packet[1]
          <6>1. parser[1] \in Byte
            BY <1>n, <5>1, Elements DEF TypeOK
          <6>2. parser[1] >= 1
            BY <6>1 DEF Byte
          <6> QED BY <1>n, <3>1, <3>4, <5>1, <6>2 DEF StreamInv, Undelimited, Fed
        <5>3. PICK c \in (parser[1] .. Before(m)) \ lost : IsDelim(c)
          BY <2>1, <5>2 DEF Intact
        <5>4. c \in Nat /\ c < packet[1]
          BY <1>n, <1>2, <3>1, <4>1, <5>2
        <5>5. c \in Byte
          BY SMTT(30), <1>n, <5>2, <5>4, Sizes DEF Byte, Ordered, TypeOK
        <5> QED BY <5>1, <5>2, <5>3, <5>4, <5>5 DEF StreamInv, Undelimited
      <4>3. Holds(m, 0)
        BY <4>2 DEF Holds
      <4> QED BY <3>1, <4>1, <4>3
    <3> QED BY <1>n, <3>1, <3>3, <3>4
  <2> QED BY <1>1, <1>6, <2>1 DEF Part, Holds
<1>8. Handed' /\ MixedIsDamaged'
  BY <1>1, <1>6 DEF StreamInv, Handed, MixedIsDamaged
<1> QED BY <1>4, <1>5, <1>7, <1>8 DEF StreamInv

\* Feeding a byte takes it from what is coming.
LEMMA StreamFeed ==
    ASSUME StreamInv, OrderInv, Feeding, Advance, UNCHANGED <<taken, rs485_rx_queue, lost>>
    PROVE  /\ packet'[1] = packet[1] + 1 /\ packet[1] \in Byte /\ packet[1] \in Nat
           /\ packet[1] \notin lost
           /\ Ahead'
           /\ \A m \in Message : /\ Intact(m)' <=> Intact(m)
                                 /\ Passed(m)' <=> Passed(m) \/ packet[1] \in DelimsOf(m)
<1>n. TypeOK /\ Ordered /\ Numbers
  BY NumbersHold DEF OrderInv
<1> USE DEF Numbers
<1>1. packet'[1] = packet[1] + 1 /\ packet'[2] = packet[2] /\ packet[1] <= packet[2]
  BY DEF Advance, Feeding
<1>2. packet[1] \in Byte /\ packet[1] \notin lost
  <2>1. packet[1] \in Byte
    BY Feeds
  <2>2. Coming(packet[1])
    BY <1>n, <1>1 DEF Coming
  <2> QED BY <2>1, <2>2 DEF StreamInv, Ahead
<1>3. Byte \subseteq Nat
  BY Bytes
<1>4. Ahead'
  <2>1. \A b \in Nat : Coming(b)' => Coming(b)
    BY <1>n, <1>1 DEF Coming
  <2>2. \A b \in Nat : b >= packet'[1] /\ Coming(b) => Coming(b)'
    BY <1>n, <1>1 DEF Coming
  <2>3. \A b \in 1 .. taken' : b >= packet'[1] => b \in lost' \/ Coming(b)'
    <3>1. \A b \in 1 .. taken : b \in Nat
      BY <1>n
    <3> QED BY <1>n, <1>1, <2>2, <3>1 DEF StreamInv, Ahead
  <2> QED BY <1>3, <2>1, <2>3 DEF StreamInv, Ahead
<1>5. ASSUME NEW m \in Message
      PROVE  /\ Intact(m)' <=> Intact(m)
             /\ Passed(m)' <=> Passed(m) \/ packet[1] \in DelimsOf(m)
  <2>1. \A c \in DelimsOf(m) : c \in Nat
    BY Bytes
  <2>2. Passed(m)' <=> Passed(m) \/ packet[1] \in DelimsOf(m)
    BY <1>n, <1>1, <1>2, <2>1 DEF Passed
  <2> QED BY <2>2 DEF Intact
<1> QED BY <1>n, <1>1, <1>2, <1>4, <1>5

LEMMA StreamByte == ASSUME StreamInv, OrderInv', FeedByte PROVE StreamInv'
<1>n. OrderInv /\ TypeOK /\ Ordered /\ Fed /\ Numbers
  BY NumbersHold DEF StreamInv, OrderInv
<1> USE DEF Numbers
<1>1. /\ UNCHANGED <<taken, rs485_rx_queue, lost, handed>> /\ Feeding /\ Advance
      /\ ~IsDelim(packet[1]) /\ parser' = Append(parser, packet[1])
  BY DEF FeedByte
<1>2. /\ packet'[1] = packet[1] + 1 /\ packet[1] \in Byte /\ packet[1] \in Nat
      /\ packet[1] \notin lost
      /\ Ahead'
      /\ \A m \in Message : /\ Intact(m)' <=> Intact(m)
                            /\ Passed(m)' <=> Passed(m) \/ packet[1] \in DelimsOf(m)
  BY <1>n, <1>1, StreamFeed
<1>3. /\ Len(parser') = Len(parser) + 1 /\ Len(parser) \in Nat
      /\ \A j \in 1 .. Len(parser) : parser'[j] = parser[j]
      /\ parser'[Len(parser) + 1] = packet[1]
      /\ \A j \in DOMAIN parser' : \/ j \in DOMAIN parser /\ parser'[j] = parser[j]
                                   \/ j = Len(parser) + 1 /\ parser'[j] = packet[1]
  BY <1>n, <1>1, <1>2, AppendProperties, Appended DEF TypeOK
<1>4. \A m \in Message : packet[1] \notin DelimsOf(m)
  BY <1>1, <1>2, Bytes
<1>5. Undelimited'
  <2>1. \A c \in Byte : c \in Nat
    BY Bytes
  <2> QED BY <1>n, <1>1, <1>2, <1>3, <2>1 DEF StreamInv, Undelimited
<1>6. Part'
  <2>1. ASSUME NEW m \in Message, Intact(m), Before(m) < packet[1] + 1, ~Passed(m)
        PROVE  packet[1] <= Before(m) + Body /\ HoldsNext(m, packet[1] - Before(m))
    <3>1. Before(m) \in Nat /\ Body \in Nat /\ Body > 0 /\ Size \in Nat
      BY Sizes
    <3>2. Before(m) < packet[1]
      <4> SUFFICES ASSUME Before(m) = packet[1] PROVE FALSE
        BY <1>2, <2>1, <3>1
      <4>1. packet[1] \in 1 .. Before(m)
        BY <1>n, <1>2 DEF Ordered
      <4> QED BY <1>1, <4>1, Behind
    <3>3. packet[1] <= Before(m) + Body
      <4>1. PICK c \in DelimsOf(m) : c \notin lost
        BY <2>1 DEF Intact
      <4>2. c \in Nat /\ c <= Before(m) + Size /\ c >= packet[1]
        BY <1>2, <2>1, <4>1, Bytes DEF Passed
      <4>3. ~(Before(m) + Body < packet[1] /\ packet[1] <= Before(m) + Size)
        BY <1>2, <1>4, Bytes
      <4> QED BY <1>2, <3>1, <4>2, <4>3
    <3>4. Holds(m, packet[1] - 1 - Before(m))
      BY <2>1, <3>2, <3>3 DEF StreamInv, Part
    <3>5. Len(parser) = packet[1] - 1 - Before(m)
          /\ \A j \in 1 .. Len(parser) : parser[j] = Before(m) + j
      BY <3>4 DEF Holds
    <3>6. Len(parser') = packet[1] - Before(m)
      BY <1>2, <1>3, <3>1, <3>5
    <3>7. ASSUME NEW j \in 1 .. (packet[1] - Before(m)) PROVE parser'[j] = Before(m) + j
      <4>1. j \in 1 .. Len(parser) \/ j = Len(parser) + 1
        BY <1>2, <1>3, <3>1, <3>5
      <4>2. CASE j \in 1 .. Len(parser)
        BY <1>3, <3>5, <4>2
      <4>3. CASE j = Len(parser) + 1
        BY <1>2, <1>3, <3>1, <3>5, <4>3
      <4> QED BY <4>1, <4>2, <4>3
    <3> QED BY <1>2, <3>3, <3>6, <3>7 DEF HoldsNext
  <2>2. ASSUME NEW m \in Message, Intact(m)', Before(m) < packet'[1], ~Passed(m)'
        PROVE  /\ packet'[1] <= Before(m) + Body => HoldsNext(m, packet'[1] - 1 - Before(m))
               /\ packet'[1] > Before(m) + Body => HoldsNext(m, Body)
    <3>1. packet[1] <= Before(m) + Body /\ HoldsNext(m, packet[1] - Before(m))
      BY <1>2, <2>1, <2>2
    <3>2. Before(m) \in Nat /\ Body \in Nat
      BY Sizes
    <3>3. packet'[1] - 1 - Before(m) = packet[1] - Before(m)
      BY <1>2, <3>2
    <3>4. packet'[1] > Before(m) + Body => packet[1] - Before(m) = Body
      BY <1>2, <3>1, <3>2
    <3> QED BY <3>1, <3>3, <3>4
  <2> QED BY <2>2 DEF Part, Holds, HoldsNext
<1>7. Handed' /\ MixedIsDamaged'
  BY <1>1, <1>2, <1>4 DEF StreamInv, Handed, MixedIsDamaged
<1> QED BY <1>2, <1>5, <1>6, <1>7 DEF StreamInv

LEMMA StreamDelim == ASSUME StreamInv, OrderInv', FeedDelim PROVE StreamInv'
<1>n. OrderInv /\ TypeOK /\ Ordered /\ Fed /\ Numbers
  BY NumbersHold DEF StreamInv, OrderInv
<1> USE DEF Numbers
<1>1. /\ UNCHANGED <<taken, rs485_rx_queue, lost>> /\ Feeding /\ Advance
      /\ IsDelim(packet[1]) /\ HandOver /\ parser' = << >>
  BY DEF FeedDelim
<1>2. /\ packet'[1] = packet[1] + 1 /\ packet[1] \in Byte /\ packet[1] \in Nat
      /\ packet[1] \notin lost
      /\ Ahead'
      /\ \A m \in Message : /\ Intact(m)' <=> Intact(m)
                            /\ Passed(m)' <=> Passed(m) \/ packet[1] \in DelimsOf(m)
  BY <1>n, <1>1, StreamFeed
<1>3. PICK n \in Message : packet[1] \in DelimsOf(n)
  BY <1>1 DEF IsDelim
<1>4. /\ \A m \in Message : Before(m) \in Nat /\ m \in Nat
      /\ Body \in Nat /\ Body > 0 /\ Size \in Nat
      /\ Before(n) + Body < packet[1] /\ packet[1] <= Before(n) + Size
  BY <1>3, Sizes, Bytes
<1>5. /\ \A i \in DOMAIN handed : i \in DOMAIN handed' /\ handed'[i] = handed[i]
      /\ \A i \in DOMAIN handed' : \/ i \in DOMAIN handed /\ handed'[i] = handed[i]
                                   \/ handed'[i] = parser
      /\ Whole(parser) => \E i \in DOMAIN handed' : handed'[i] = parser
  <2> DEFINE S == Seq(Byte)
  <2>1. handed \in Seq(S) /\ parser \in S
    BY <1>n DEF TypeOK
  <2> HIDE DEF S
  <2>2. CASE handed' = Append(handed, parser)
    <3>1. /\ Len(handed) \in Nat /\ DOMAIN handed = 1 .. Len(handed)
          /\ DOMAIN handed' = 1 .. Len(handed) + 1
          /\ handed'[Len(handed) + 1] = parser
          /\ \A i \in 1 .. Len(handed) : handed'[i] = handed[i]
      BY <2>1, <2>2, AppendProperties
    <3>2. Len(handed) + 1 \in DOMAIN handed'
      BY <3>1
    <3> QED BY <2>1, <2>2, <3>1, <3>2, Appended
  <2>3. CASE ~Whole(parser) /\ handed' = handed
    BY <2>3
  <2> QED BY <1>1, <2>2, <2>3 DEF HandOver
\* An intact message before this one has been passed.
<1>6. \A m \in Message : Intact(m) /\ m < n => Passed(m)
  <2> SUFFICES ASSUME NEW m \in Message, Intact(m), m < n PROVE Passed(m)
    OBVIOUS
  <2>1. PICK c \in DelimsOf(m) : c \notin lost
    BY DEF Intact
  <2>2. c \in Nat /\ c <= Before(m) + Size /\ Before(m) + Size <= Before(n)
    BY <2>1, Bytes, Apart
  <2> QED BY <1>2, <1>4, <2>1, <2>2 DEF Passed
\* A later message has not begun.
<1>7. \A m \in Message : n < m => packet[1] <= Before(m)
  <2> SUFFICES ASSUME NEW m \in Message, n < m PROVE packet[1] <= Before(m)
    OBVIOUS
  <2>1. Before(n) + Size <= Before(m)
    BY Apart
  <2> QED BY <1>2, <1>4, <2>1
\* If this message is intact and has not been passed, the parser has its body.
<1>8. Intact(n) /\ ~Passed(n) => parser = BodyOf(n)
  <2> SUFFICES ASSUME Intact(n), ~Passed(n) PROVE parser = BodyOf(n)
    OBVIOUS
  <2>1. Holds(n, Body)
    BY <1>2, <1>4 DEF StreamInv, Part
  <2> QED BY <1>n, <1>4, <2>1 DEF Holds, BodyOf, TypeOK
<1>9. Undelimited'
  BY <1>1 DEF Undelimited
<1>10. Part'
  <2> SUFFICES ASSUME NEW m \in Message, Intact(m), Before(m) < packet[1] + 1,
                      ~Passed(m), m # n
               PROVE  packet[1] = Before(m)
    <3>1. \A m \in Message : packet[1] = Before(m) =>
             /\ packet'[1] <= Before(m) + Body
             /\ packet'[1] - 1 - Before(m) = 0
      BY <1>2, <1>4
    <3>2. \A m \in Message : HoldsNext(m, 0)
      BY <1>1 DEF HoldsNext
    <3>3. \A m \in Message : Intact(m)' /\ Before(m) < packet'[1] /\ ~Passed(m)' =>
             packet[1] = Before(m)
      BY <1>2, <1>3
    <3>4. ASSUME NEW m \in Message, Intact(m)', Before(m) < packet'[1], ~Passed(m)'
          PROVE  /\ packet'[1] <= Before(m) + Body => HoldsNext(m, packet'[1] - 1 - Before(m))
                 /\ packet'[1] > Before(m) + Body => HoldsNext(m, Body)
      <4>1. packet'[1] <= Before(m) + Body /\ packet'[1] - 1 - Before(m) = 0 /\ HoldsNext(m, 0)
        BY <3>1, <3>2, <3>3, <3>4
      <4> QED BY <1>2, <1>4, <4>1
    <3> QED BY <3>4 DEF Part, Holds, HoldsNext
  <2>1. n < m
    BY <1>4, <1>6
  <2> QED BY <1>2, <1>4, <1>7, <2>1
<1>11. Handed'
  <2> SUFFICES ASSUME NEW m \in Message, Intact(m), Passed(m) \/ packet[1] \in DelimsOf(m)
               PROVE  \E i \in DOMAIN handed' : handed'[i] = BodyOf(m)
    BY <1>2 DEF Handed, BodyOf
  <2>1. CASE Passed(m)
    BY <1>5, <2>1 DEF StreamInv, Handed
  <2>2. CASE ~Passed(m)
    <3>1. m = n
      <4>1. Before(m) + Body < packet[1]
        BY <2>2, Bytes
      <4> QED BY <1>2, <1>4, <1>6, <1>7, <2>2, <4>1
    <3> QED BY <1>5, <1>8, <2>2, <3>1 DEF Whole
  <2> QED BY <2>1, <2>2
\* A body byte of an intact message in the parser makes it that body.
<1>12. ASSUME ~Whole(parser), NEW m \in Message, Intact(m),
              NEW j \in DOMAIN parser, NEW k \in 1 .. Body
       PROVE  parser[j] # Before(m) + k
  <2> SUFFICES ASSUME parser[j] = Before(m) + k PROVE FALSE
    OBVIOUS
  <2>1. /\ parser[j] \in Nat /\ parser[j] < packet[1]
        /\ Before(m) < parser[j] /\ parser[j] <= Before(m) + Body
    BY <1>n, <1>4 DEF Fed
  <2>2. CASE Passed(m)
    <3>1. PICK c \in DelimsOf(m) : c < packet[1] /\ c \notin lost
      BY <2>2 DEF Passed
    <3>2. c \in Nat /\ Before(m) + Body < c /\ IsDelim(c)
      BY Bytes
    <3>3. parser[j] <= c
      BY <1>4, <2>1, <3>2
    <3>4. c \in Byte
      BY <1>2, <2>1, <3>1, <3>2, <3>3, Sizes DEF Byte
    <3> QED BY <3>1, <3>2, <3>3, <3>4 DEF StreamInv, Undelimited
  <2>3. CASE ~Passed(m)
    <3>1. m = n
      BY <1>2, <1>4, <1>6, <1>7, <1>12, <2>1, <2>3
    <3> QED BY <1>8, <1>12, <2>3, <3>1 DEF Whole
  <2> QED BY <2>2, <2>3
<1>13. MixedIsDamaged'
  <2> SUFFICES ASSUME NEW i \in DOMAIN handed', ~Whole(handed'[i]),
                      NEW m \in Message, Intact(m),
                      NEW j \in DOMAIN handed'[i], NEW k \in 1 .. Body
               PROVE  handed'[i][j] # Before(m) + k
    BY <1>2 DEF MixedIsDamaged, Whole, BodyOf
  <2>1. CASE i \in DOMAIN handed /\ handed'[i] = handed[i]
    BY <2>1 DEF StreamInv, MixedIsDamaged
  <2>2. CASE handed'[i] = parser
    BY <1>12, <2>2
  <2> QED BY <1>5, <2>1, <2>2
<1> QED BY <1>2, <1>9, <1>10, <1>11, <1>13 DEF StreamInv
-----------------------------------------------------------------------------
LEMMA StreamInit == Init => StreamInv
<1> SUFFICES ASSUME Init PROVE StreamInv
  OBVIOUS
<1>1. packet[1] = 1 /\ packet[2] = 0 /\ taken = 0 /\ lost = {}
      /\ rs485_rx_queue = << >> /\ parser = << >> /\ handed = << >>
  BY DEF Init
<1>2. \A m \in Message : ~Passed(m)
  BY <1>1, Bytes, Sizes DEF Passed
<1>3. Part
  <2>1. \A m \in Message : Before(m) < 1 => Holds(m, 1 - 1 - Before(m)) /\ 1 <= Before(m) + Body
    BY <1>1, Sizes DEF Holds
  <2> QED BY <1>1, <2>1, Sizes DEF Part
<1>4. Ahead
  BY <1>1, Bytes DEF Ahead, Coming
<1> QED BY <1>1, <1>2, <1>3, <1>4, OrderInit
        DEF StreamInv, Undelimited, Handed, MixedIsDamaged

LEMMA StreamStep == StreamInv /\ [Next]_vars => StreamInv'
<1> SUFFICES ASSUME StreamInv, [Next]_vars PROVE StreamInv'
  OBVIOUS
<1>1. OrderInv'
  BY OrderStep DEF StreamInv
<1>2. CASE Silence \/ UNCHANGED vars
  <2>1. UNCHANGED vars
    BY <1>2 DEF Silence
  <2> QED BY <1>1, <2>1 DEF vars, StreamInv, Ahead, Coming, Undelimited, Part, Holds, Handed,
             Passed, Intact, MixedIsDamaged
<1> QED BY <1>1, <1>2, StreamReceive, StreamGet, StreamByte, StreamDelim
        DEF Next, ParserThread
-----------------------------------------------------------------------------
\* Types of the receive path: the queue of packets never exceeds its slots, and
\* nothing is fed that is not a byte of the stream.
THEOREM TypeCorrect == Spec => []TypeOK
<1>1. OrderInv => TypeOK
  BY DEF OrderInv
<1> QED BY <1>1, OrderInit, OrderStep, PTL DEF Spec

\* No byte reaches on_frame twice, and none after a later one, whatever is
\* dropped.
THEOREM OnceInOrderCorrect == Spec => []OnceInOrder
<1>1. OrderInv => OnceInOrder
  BY DEF OrderInv
<1> QED BY <1>1, OrderInit, OrderStep, PTL DEF Spec

\* A message that stays intact reaches on_frame as it was sent, wherever the
\* driver cuts the stream.
THEOREM IntactIsHandedCorrect == Spec => []IntactIsHanded
<1>1. StreamInv => IntactIsHanded
  <2> SUFFICES ASSUME StreamInv, NEW m \in Message, Done(m), Intact(m)
               PROVE  \E i \in DOMAIN handed : handed[i] = BodyOf(m)
    BY DEF IntactIsHanded
  <2>n. OrderInv /\ TypeOK /\ Numbers
    BY NumbersHold DEF StreamInv, OrderInv
  <2>1. PICK c \in DelimsOf(m) : c \notin lost
    BY DEF Intact
  <2>2. c \in Nat /\ c <= Before(m) + Size /\ Before(m) + Size <= taken
        /\ Before(m) + Size \in Nat /\ c >= 1
    BY Bytes, Sizes DEF Done
  <2>3. ~Coming(c)
    <3>1. \A p \in Queued \cup {packet} : p[1] <= p[2] => p[1] > Before(m) + Size
      BY DEF Done
    <3>2. packet[1] <= packet[2] => packet[1] > c
      BY <2>n, <2>2, <3>1 DEF Numbers
    <3>3. \A i \in DOMAIN rs485_rx_queue : rs485_rx_queue[i][1] > c
      BY <2>n, <2>2, <3>1 DEF Numbers, Queued, OrderInv, Ordered
    <3> QED BY <2>n, <2>2, <3>2, <3>3 DEF Coming, Numbers
  <2>4. c < packet[1]
    BY <2>n, <2>1, <2>2, <2>3 DEF StreamInv, Ahead, Numbers
  <2> QED BY <2>1, <2>4 DEF StreamInv, Handed, Passed
<1> QED BY <1>1, StreamInit, StreamStep, PTL DEF Spec

\* No byte of an intact message is ever mixed with others.
THEOREM MixedIsDamagedCorrect == Spec => []MixedIsDamaged
<1>1. StreamInv => MixedIsDamaged
  BY DEF StreamInv
<1> QED BY <1>1, StreamInit, StreamStep, PTL DEF Spec
-----------------------------------------------------------------------------
(* Progress: what weak fairness of the thread gives, step by step.           *)

\* Twice the bytes of the stream from where the thread is to the end of a message,
\* and one more when it has no packet.
ToFeed(m) == 2 * (Before(m) + Size + 1 - packet[1]) + (IF Feeding THEN 0 ELSE 1)

Lagging(m, n) == taken >= Before(m) + Size /\ ~Done(m) /\ ToFeed(m) = n
Closer(m, n) == Done(m) \/ ToFeed(m) < n

\* The thread has something to do.
Busy == Feeding \/ rs485_rx_queue # << >>

\* What keeps a message from being done with is a packet for the thread.
LEMMA LaggingIsBusy ==
    ASSUME OrderInv, NEW m \in Message, taken >= Before(m) + Size, ~Done(m)
    PROVE  Busy /\ packet[1] <= Before(m) + Size
<1>n. Numbers
  BY NumbersHold
<1>m. Before(m) \in Nat /\ Size \in Nat
  BY Sizes
<1>1. PICK p \in Queued \cup {packet} : p[1] <= p[2] /\ ~(p[1] > Before(m) + Size)
  BY DEF Done
<1>2. CASE p = packet
  BY <1>n, <1>m, <1>1, <1>2 DEF Busy, Feeding, Numbers
<1>3. CASE p \in Queued
  <2>1. PICK i \in DOMAIN rs485_rx_queue : p = rs485_rx_queue[i]
    BY <1>3 DEF Queued
  <2>2. packet[2] < p[1] /\ packet[1] <= packet[2] + 1
    BY <2>1 DEF OrderInv, Ordered
  <2>3. rs485_rx_queue # << >>
    BY <2>1
  <2>4. p[1] \in Nat /\ packet[1] \in Nat /\ packet[2] \in Nat
    BY <1>n, <2>1 DEF Numbers
  <2>5. packet[1] <= Before(m) + Size
    BY <1>m, <1>1, <2>2, <2>4
  <2> QED BY <2>3, <2>5 DEF Busy
<1> QED BY <1>1, <1>2, <1>3

\* A step of the thread brings it nearer to the end of a message; the driver does not
\* take it farther away.
LEMMA CloserStep ==
    ASSUME OrderInv, NEW m \in Message, NEW n \in Nat, Lagging(m, n), [Next]_vars
    PROVE  /\ Lagging(m, n)' \/ Closer(m, n)'
           /\ ParserThread => Closer(m, n)'
<1>n. Numbers
  BY NumbersHold
<1>m. Before(m) \in Nat /\ Size \in Nat /\ Before(m)' = Before(m) /\ Size' = Size
  BY Sizes DEF Before, Size
<1>b. Busy /\ packet[1] <= Before(m) + Size
  BY LaggingIsBusy DEF Lagging
<1>1. CASE Receive \/ UNCHANGED vars
  <2>1. UNCHANGED packet
    BY <1>1 DEF vars, Receive
  <2>2. taken \in Nat /\ taken' \in Nat /\ taken <= taken'
    <3>1. CASE Receive
      BY <1>n, <3>1, Receives, Bytes DEF Numbers, OrderInv, Receive
    <3>2. CASE UNCHANGED vars
      BY <1>n, <3>2 DEF vars, Numbers
    <3> QED BY <1>1, <3>1, <3>2
  <2>3. ToFeed(m)' = ToFeed(m)
    BY <1>m, <2>1 DEF ToFeed, Feeding
  <2>4. taken' >= Before(m)' + Size'
    BY <1>m, <2>2 DEF Lagging
  <2>5. packet[1] \in Nat /\ packet[1] # packet[1] + 1
    BY <1>n DEF Numbers
  <2>6. ~FeedByte /\ ~FeedDelim
    BY <2>1, <2>5 DEF FeedByte, FeedDelim, Advance
  <2>7. ~Silence
    BY <1>b DEF Silence, Busy
  <2>8. ~Get
    <3> SUFFICES ASSUME Get PROVE FALSE
      OBVIOUS
    <3>1. packet' = rs485_rx_queue[1] /\ 1 \in DOMAIN rs485_rx_queue /\ ~Feeding
      BY Gets DEF Get, OrderInv
    <3>2. packet'[1] <= packet'[2]
      BY <3>1 DEF OrderInv, Ordered
    <3> QED BY <2>1, <3>1, <3>2 DEF Feeding
  <2> QED BY <2>3, <2>4, <2>6, <2>7, <2>8 DEF Lagging, Closer, ParserThread
<1>2. CASE Get
  <2>1. /\ packet' = rs485_rx_queue[1] /\ 1 \in DOMAIN rs485_rx_queue /\ ~Feeding
    BY <1>2, Gets DEF Get, OrderInv
  <2>2. packet[1] <= packet'[1] /\ packet'[1] <= packet'[2]
    BY <1>n, <2>1 DEF OrderInv, Ordered, Numbers
  <2>3. packet[1] \in Nat /\ packet'[1] \in Nat
    BY <1>n, <2>1 DEF Numbers
  <2>4. ToFeed(m)' < ToFeed(m)
    BY <1>m, <2>1, <2>2, <2>3 DEF ToFeed, Feeding
  <2> QED BY <2>4 DEF Lagging, Closer
<1>3. CASE Silence
  BY <1>3, <1>b DEF Silence, Busy
<1>4. CASE FeedByte \/ FeedDelim
  <2>1. Feeding /\ packet' = <<packet[1] + 1, packet[2]>>
    BY <1>4 DEF FeedByte, FeedDelim, Advance
  <2>2. packet[1] \in Nat /\ packet'[1] = packet[1] + 1
    BY <1>n, <2>1 DEF Numbers
  <2>4. ToFeed(m)' < ToFeed(m)
    BY <1>m, <2>1, <2>2 DEF ToFeed
  <2> QED BY <2>4 DEF Lagging, Closer
<1> QED BY <1>1, <1>2, <1>3, <1>4 DEF Next, ParserThread

\* What the thread can do when it has something to do.
BusyEnabled == Busy => ENABLED <<ParserThread>>_vars

\* However much there is to feed before the thread is done with a message that was
\* taken off the line, at some time there is less.  (Drains follows, since the
\* number cannot fall for ever.)
THEOREM FeedingAdvances ==
    ASSUME NEW m \in Message, NEW n \in Nat
    PROVE  FairSpec /\ []BusyEnabled => (Lagging(m, n) ~> Closer(m, n))
<1>1. OrderInv /\ Lagging(m, n) /\ [Next]_vars => Lagging(m, n)' \/ Closer(m, n)'
  BY CloserStep
<1>2. OrderInv /\ Lagging(m, n) /\ <<Next /\ ParserThread>>_vars => Closer(m, n)'
  BY CloserStep
<1>3. OrderInv /\ Lagging(m, n) => Busy
  BY LaggingIsBusy DEF Lagging
<1> QED BY <1>1, <1>2, <1>3, OrderInit, OrderStep, PTL DEF FairSpec, Spec, BusyEnabled
=============================================================================
