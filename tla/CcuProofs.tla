----------------------------- MODULE CcuProofs -----------------------------
(***************************************************************************)
(* Proofs about Ccu, for any set of frames, any number of messages, frames *)
(* and presses, and any length of the queue.                               *)
(*                                                                         *)
(* Frames are numbered as they are offered, and stay in that order through *)
(* the queue and the transmit thread's hands; only the frame handed over   *)
(* last may follow itself (Ascending).  What the controller is given is    *)
(* therefore a selection of the history of what was offered, with repeats, *)
(* and CausalOrder follows from the same order in the history (History),   *)
(* which holds because the periodic thread's snapshot covers all it has    *)
(* shown so far (Covered).  SetbacksBounded charges each setback to a      *)
(* frame of the test button, of which every press makes at most one of a   *)
(* kind (Spent).                                                           *)
(***************************************************************************)
EXTENDS Ccu, TLAPS, SequenceTheorems, FiniteSetTheorems

Frames == [kind : Shown, from : Reader, version : Nat]

Types == /\ arrived \in Nat
         /\ store \in [Payload -> Nat]
         /\ snap \in [Reader -> [Payload -> Nat]]
         /\ offered \in Nat
         /\ waiting \in Seq(Nat) /\ turn \in Nat
         /\ handed \in Seq(Nat)
         /\ plan \in [Reader -> SUBSET Shown]
         /\ content \in Seq(Frames)
         /\ written \in SUBSET (Payload \X Nat)

\* Frames are numbered as they are offered, and those that wait, have their turn or
\* were handed over were offered.
Numbered == /\ Len(content) = offered
            /\ \A n \in DOMAIN waiting : waiting[n] \in DOMAIN content
            /\ turn = 0 \/ turn \in DOMAIN content
            /\ \A i \in DOMAIN handed : handed[i] = 0 \/ handed[i] \in DOMAIN content

\* The frames handed over, the one that has its turn and those that wait are in the
\* order in which they were offered.  Only a frame handed over may be repeated.
Ascending == /\ \A i, j \in DOMAIN handed : i < j => handed[i] <= handed[j]
             /\ \A i \in DOMAIN handed : handed[i] <= turn
             /\ \A n \in DOMAIN waiting : turn < waiting[n]
             /\ \A m, n \in DOMAIN waiting : m < n => waiting[m] < waiting[n]

\* Nothing is newer than what has arrived, and no snapshot is newer than the store.
Versions == /\ \A p \in Payload : store[p] <= arrived
            /\ \A r \in Reader, p \in Payload : snap[r][p] <= store[p]
            /\ \A w \in written : w[2] <= store[w[1]]

\* The periodic thread's snapshot has all that the master had sent by message v.
Seen(v) == \A w \in written : w[2] <= v => w[2] <= snap["periodic"][w[1]]

Covered == \A p \in Payload : Seen(snap["periodic"][p])

\* A frame is no newer than the store, and a periodic one than the snapshot.
Backed(f) == /\ f.version <= store[PayloadOf(f.kind)]
             /\ f.from = "periodic" => Seen(f.version)

\* The frames offered, whatever became of them.
History == /\ \A n \in DOMAIN content : Backed(content[n])
           /\ \A m, n \in DOMAIN content : m < n => NotOlder(content[m], content[n])

\* Frames of one reader show what it has seen, and never go back among themselves.
Steady == /\ \A n \in DOMAIN content : LET f == content[n]
                                       IN  f.version <= snap[f.from][PayloadOf(f.kind)]
          /\ \A m, n \in DOMAIN content :
                m < n /\ content[m].from = content[n].from /\ content[m].kind = content[n].kind
                   => content[m].version <= content[n].version

\* The frames of kind k that the test button has offered.
Pressed(k) == {n \in DOMAIN content : content[n].from = "button" /\ content[n].kind = k}

\* A press makes one frame of a kind at most: those offered, and one still to come.
Spent == /\ presses \in Nat
         /\ \A k \in Shown : Cardinality(Pressed(k))
                             + (IF k \in plan["button"] THEN 1 ELSE 0) <= presses

\* No frame shows data that never arrived but the button's.
Honest(f) == f.version = 0 => f.from = "button" /\ f.kind # "protium_state"

Planned == /\ \A k \in plan["periodic"] : snap["periodic"][PayloadOf(k)] > 0
           /\ "protium_state" \in plan["button"] =>
                 snap["button"][PayloadOf("protium_state")] > 0

HonestHistory == \A n \in DOMAIN content : Honest(content[n])

TypeInv == Types /\ Numbered
OrderInv == TypeInv /\ Ascending /\ Versions /\ Covered /\ History
SetbackInv == OrderInv /\ Steady /\ Spent
HonestInv == TypeInv /\ HonestHistory /\ Planned
-----------------------------------------------------------------------------
(* The queue.                                                                *)

\* When a frame gets its turn, the next is the first of those that wait.
LEMMA Shorter ==
    ASSUME TypeInv, Fifo!Take
    PROVE  /\ 1 \in DOMAIN waiting /\ turn' = waiting[1]
           /\ waiting' \in Seq(Nat) /\ turn' \in Nat
           /\ \A n \in DOMAIN waiting' :
                 n + 1 \in DOMAIN waiting /\ waiting'[n] = waiting[n + 1]
<1>1. waiting # << >> /\ waiting \in Seq(Nat)
      /\ turn' = Head(waiting) /\ waiting' = Tail(waiting)
  BY DEF Fifo!Take, TypeInv, Types
<1>2. 1 \in DOMAIN waiting /\ Head(waiting) = waiting[1] /\ waiting[1] \in Nat
  BY <1>1
<1>3. /\ waiting' \in Seq(Nat) /\ Len(waiting') = Len(waiting) - 1
      /\ \A n \in 1 .. Len(waiting') : waiting'[n] = waiting[n + 1]
  BY <1>1, HeadTailProperties
<1>4. \A n \in DOMAIN waiting' : n + 1 \in DOMAIN waiting /\ waiting'[n] = waiting[n + 1]
  BY <1>1, <1>3
<1> QED BY <1>1, <1>2, <1>3, <1>4

\* A hand-over appends the frame that has its turn to those handed over.
LEMMA Given ==
    ASSUME TypeInv, Fifo!Hand
    PROVE  /\ handed' \in Seq(Nat)
           /\ \A i \in DOMAIN handed' :
                 \/ i \in DOMAIN handed /\ handed'[i] = handed[i]
                 \/ i = Len(handed) + 1 /\ handed'[i] = turn
           /\ UNCHANGED <<offered, waiting, turn>>
<1>1. handed \in Seq(Nat) /\ turn \in Nat /\ handed' = Append(handed, turn)
      /\ UNCHANGED <<offered, waiting, turn>>
  BY DEF Fifo!Hand, TypeInv, Types
<1>2. /\ handed' \in Seq(Nat) /\ Len(handed') = Len(handed) + 1
      /\ \A i \in 1 .. Len(handed) : handed'[i] = handed[i]
      /\ handed'[Len(handed) + 1] = turn
  BY <1>1, AppendProperties
<1>3. /\ DOMAIN handed = 1 .. Len(handed) /\ Len(handed) \in Nat
      /\ DOMAIN handed' = 1 .. Len(handed) + 1
  BY <1>1, <1>2
<1> QED BY <1>1, <1>2, <1>3

\* A frame that is given up, or frames that are dropped, disturb no other.
LEMMA Lost ==
    ASSUME Lose
    PROVE  /\ waiting' = waiting \/ waiting' = << >>
           /\ UNCHANGED <<offered, turn, handed>>
  BY DEF Lose, Fifo!GiveUp, Fifo!Drop

\* An offered frame is appended to the history, and its number to the queue or not.
LEMMA Longer ==
    ASSUME TypeInv, NEW r \in Reader, NEW k \in plan[r],
           Fifo!Accept \/ Fifo!Refuse, content' = Append(content, Frame(r, k))
    PROVE  /\ Frame(r, k) \in Frames
           /\ content' \in Seq(Frames) /\ Len(content') = Len(content) + 1
           /\ offered' = offered + 1
           /\ \A n \in DOMAIN content' :
                 \/ n \in DOMAIN content /\ content'[n] = content[n]
                 \/ n = Len(content) + 1 /\ content'[n] = Frame(r, k)
           /\ \A n \in DOMAIN content : n \in DOMAIN content' /\ n < Len(content) + 1
           /\ waiting' \in Seq(Nat)
           /\ UNCHANGED <<turn, handed>>
           /\ \A n \in DOMAIN waiting' :
                 \/ n \in DOMAIN waiting /\ waiting'[n] = waiting[n]
                 \/ n = Len(waiting) + 1 /\ waiting'[n] = Len(content) + 1
<1>1. k \in Shown /\ PayloadOf(k) \in Payload
  BY DEF TypeInv, Types, Payload
<1>2. Frame(r, k) \in Frames
  BY <1>1 DEF TypeInv, Types, Frame, Frames
<1>3. /\ content' \in Seq(Frames) /\ Len(content') = Len(content) + 1
      /\ \A i \in 1 .. Len(content) : content'[i] = content[i]
      /\ content'[Len(content) + 1] = Frame(r, k)
  BY <1>2, AppendProperties DEF TypeInv, Types
<1>4. /\ content \in Seq(Frames) /\ waiting \in Seq(Nat)
      /\ Len(content) = offered /\ offered \in Nat
  BY DEF TypeInv, Types, Numbered
<1>5. /\ \A n \in DOMAIN content' :
            \/ n \in DOMAIN content /\ content'[n] = content[n]
            \/ n = Len(content) + 1 /\ content'[n] = Frame(r, k)
      /\ \A n \in DOMAIN content : n \in DOMAIN content' /\ n < Len(content) + 1
  BY <1>3, <1>4
<1>6. CASE Fifo!Refuse
  BY <1>2, <1>3, <1>4, <1>5, <1>6 DEF Fifo!Refuse
<1>7. CASE Fifo!Accept
  <2>1. offered' = offered + 1 /\ waiting' = Append(waiting, offered + 1)
    BY <1>4, <1>7 DEF Fifo!Accept
  <2>2. /\ waiting' \in Seq(Nat) /\ Len(waiting') = Len(waiting) + 1
        /\ \A n \in 1 .. Len(waiting) : waiting'[n] = waiting[n]
        /\ waiting'[Len(waiting) + 1] = offered + 1
    BY <1>4, <2>1, AppendProperties
  <2>3. \A n \in DOMAIN waiting' :
           \/ n \in DOMAIN waiting /\ waiting'[n] = waiting[n]
           \/ n = Len(waiting) + 1 /\ waiting'[n] = Len(content) + 1
    <3>1. /\ DOMAIN waiting = 1 .. Len(waiting) /\ Len(waiting) \in Nat
          /\ DOMAIN waiting' = 1 .. Len(waiting) + 1
      BY <1>4, <2>2
    <3> QED BY <1>4, <2>2, <3>1
  <2> QED BY <1>2, <1>3, <1>5, <1>7, <2>1, <2>2, <2>3 DEF Fifo!Accept
<1> QED BY <1>6, <1>7

-----------------------------------------------------------------------------
(* Types and numbers.                                                        *)

LEMMA TypeInit == Init => TypeInv
<1> SUFFICES ASSUME Init PROVE TypeInv
  OBVIOUS
<1>1. arrived = 0 /\ store = [p \in Payload |-> 0] /\ snap = [r \in Reader |-> store]
  BY DEF Init, Store!Init
<1>2. offered = 0 /\ waiting = << >> /\ turn = 0 /\ handed = << >>
  BY DEF Init, Fifo!Init
<1> QED BY <1>1, <1>2 DEF Init, TypeInv, Types, Numbered

LEMMA TypeStep == TypeInv /\ [Next]_vars => TypeInv'
<1> SUFFICES ASSUME TypeInv, [Next]_vars PROVE TypeInv'
  OBVIOUS
<1> USE DEF TypeInv, Types, Numbered
<1>1. CASE Arrive
  BY <1>1 DEF Arrive, Store!Arrive, transmitPath
<1>2. CASE Write
  <2>1. PICK p \in Payload : Store!Put(p) /\ written' = written \cup {<<p, arrived>>}
    BY <1>2 DEF Write
  <2> QED BY <1>2, <2>1 DEF Write, Store!Put, transmitPath
<1>3. CASE Wake \/ Sleep \/ DfuStart \/ DfuEnd
  BY <1>3 DEF Wake, Sleep, DfuStart, DfuEnd, transmitPath
<1>4. CASE Look
  BY <1>4 DEF Look, Store!Snapshot, Valid, Reader, transmitPath
<1>5. CASE Press
  BY <1>5 DEF Press, Store!Snapshot, All, Reader, transmitPath
<1>6. CASE \E r \in Reader : Offer(r)
  <2>0. PICK r \in Reader : Offer(r)
    BY <1>6
  <2>1. PICK k \in plan[r] :
           /\ Fifo!Accept \/ Fifo!Refuse
           /\ content' = Append(content, Frame(r, k))
           /\ plan' = [plan EXCEPT ![r] = @ \ {k}]
           /\ UNCHANGED <<arrived, store, snap, written>>
    BY <2>0 DEF Offer, Sends
  <2>2. \A n \in DOMAIN content : n \in DOMAIN content'
    BY <2>1, Longer
  <2>3. Len(content) + 1 \in DOMAIN content'
    BY <2>1, Longer
  <2>4. /\ content' \in Seq(Frames) /\ Len(content') = Len(content) + 1
        /\ offered' = offered + 1 /\ waiting' \in Seq(Nat)
        /\ UNCHANGED <<turn, handed>>
        /\ \A n \in DOMAIN waiting' :
              \/ n \in DOMAIN waiting /\ waiting'[n] = waiting[n]
              \/ n = Len(waiting) + 1 /\ waiting'[n] = Len(content) + 1
    BY <2>1, Longer
  <2>5. Numbered'
    BY <2>1, <2>2, <2>3, <2>4
  <2>6. Types'
    BY <2>1, <2>4
  <2> QED BY <2>5, <2>6
<1>7. CASE Take
  <2>1. Fifo!Take /\ UNCHANGED <<offered, handed, arrived, store, snap, plan, content, written>>
    BY <1>7 DEF Take, Fifo!Take
  <2> QED BY <2>1, Shorter
<1>8. CASE HandOver
  <2>1. Fifo!Hand /\ UNCHANGED <<arrived, store, snap, plan, content, written>>
    BY <1>8 DEF HandOver
  <2> QED BY <2>1, Given
<1>9. CASE Lose
  <2>1. UNCHANGED <<arrived, store, snap, plan, content, written>>
    BY <1>9 DEF Lose
  <2>2. /\ UNCHANGED <<offered, turn, handed>>
        /\ waiting' = waiting \/ waiting' = << >>
    BY <1>9, Lost
  <2>3. /\ waiting' \in Seq(Nat)
        /\ \A n \in DOMAIN waiting' : waiting'[n] \in DOMAIN content
    <3>1. CASE waiting' = waiting
      BY <3>1
    <3>2. CASE waiting' = << >>
      BY <3>2
    <3> QED BY <2>2, <3>1, <3>2
  <2> QED BY <2>1, <2>2, <2>3
<1>10. CASE UNCHANGED vars
  BY <1>10 DEF vars, transmitPath
<1> QED BY <1>1, <1>2, <1>3, <1>4, <1>5, <1>6, <1>7, <1>8, <1>9, <1>10 DEF Next
-----------------------------------------------------------------------------
(* The order of the frames.                                                  *)

LEMMA AscendingStep ==
    ASSUME TypeInv, TypeInv', Ascending, [Next]_vars
    PROVE  Ascending'
<1>t. /\ DOMAIN waiting = 1 .. Len(waiting) /\ Len(waiting) \in Nat
      /\ DOMAIN waiting' = 1 .. Len(waiting') /\ Len(waiting') \in Nat
      /\ DOMAIN handed = 1 .. Len(handed) /\ Len(handed) \in Nat
      /\ DOMAIN handed' = 1 .. Len(handed') /\ Len(handed') \in Nat
      /\ \A n \in DOMAIN waiting : waiting[n] \in Nat /\ waiting[n] \in DOMAIN content
      /\ \A i \in DOMAIN handed : handed[i] \in Nat
      /\ turn \in Nat /\ turn' \in Nat
  BY DEF TypeInv, Types, Numbered
<1>1. CASE Arrive \/ Write \/ Wake \/ Look \/ Sleep \/ Press \/ DfuStart \/ DfuEnd
           \/ UNCHANGED vars
  <2>1. UNCHANGED <<waiting, turn, handed>>
    BY <1>1 DEF Arrive, Write, Wake, Look, Sleep, Press, DfuStart, DfuEnd, vars, transmitPath
  <2> QED BY <2>1 DEF Ascending
<1>2. CASE \E r \in Reader : Offer(r)
  <2>1. PICK r \in Reader : Offer(r)
    BY <1>2
  <2>2. PICK k \in plan[r] : /\ Fifo!Accept \/ Fifo!Refuse
                             /\ content' = Append(content, Frame(r, k))
    BY <2>1 DEF Offer, Sends
  <2>3. /\ \A n \in DOMAIN waiting' :
              \/ n \in DOMAIN waiting /\ waiting'[n] = waiting[n]
              \/ n = Len(waiting) + 1 /\ waiting'[n] = Len(content) + 1
        /\ \A n \in DOMAIN content : n < Len(content) + 1
        /\ UNCHANGED <<turn, handed>>
    BY <2>2, Longer
  <2>4. /\ \A n \in DOMAIN waiting : waiting[n] < Len(content) + 1
        /\ turn < Len(content) + 1
    <3>1. turn = 0 \/ turn \in DOMAIN content
      BY DEF TypeInv, Numbered
    <3>2. Len(content) \in Nat
      BY DEF TypeInv, Types
    <3> QED BY <1>t, <2>3, <3>1, <3>2
  <2>5. \A m, n \in DOMAIN waiting' : m < n => waiting'[m] < waiting'[n]
    BY <1>t, <2>3, <2>4 DEF Ascending
  <2>6. \A n \in DOMAIN waiting' : turn' < waiting'[n]
    BY <1>t, <2>3, <2>4 DEF Ascending
  <2> QED BY <2>3, <2>5, <2>6 DEF Ascending
<1>3. CASE Take
  <2>1. /\ 1 \in DOMAIN waiting /\ turn' = waiting[1] /\ UNCHANGED handed
        /\ \A n \in DOMAIN waiting' :
              n + 1 \in DOMAIN waiting /\ waiting'[n] = waiting[n + 1]
    BY <1>3, Shorter DEF Take, Fifo!Take
  <2>2. \A i \in DOMAIN handed' : handed'[i] <= turn'
    BY <1>t, <2>1 DEF Ascending
  <2>3. \A n \in DOMAIN waiting' : turn' < waiting'[n]
    BY <1>t, <2>1 DEF Ascending
  <2>4. \A m, n \in DOMAIN waiting' : m < n => waiting'[m] < waiting'[n]
    BY <1>t, <2>1 DEF Ascending
  <2> QED BY <2>1, <2>2, <2>3, <2>4 DEF Ascending
<1>4. CASE HandOver
  <2>1. /\ UNCHANGED <<waiting, turn>>
        /\ \A i \in DOMAIN handed' : \/ i \in DOMAIN handed /\ handed'[i] = handed[i]
                                     \/ i = Len(handed) + 1 /\ handed'[i] = turn
    BY <1>4, Given DEF HandOver
  <2>2. \A i, j \in DOMAIN handed' : i < j => handed'[i] <= handed'[j]
    BY <1>t, <2>1 DEF Ascending
  <2>3. \A i \in DOMAIN handed' : handed'[i] <= turn'
    BY <1>t, <2>1 DEF Ascending
  <2> QED BY <2>1, <2>2, <2>3 DEF Ascending
<1>5. CASE Lose
  <2>1. UNCHANGED <<turn, handed>> /\ (waiting' = waiting \/ DOMAIN waiting' = {})
    BY <1>5, Lost
  <2> QED BY <2>1 DEF Ascending
<1> QED BY <1>1, <1>2, <1>3, <1>4, <1>5 DEF Next
-----------------------------------------------------------------------------
(* CausalOrder.                                                              *)

\* A frame's payload is one of the store's.
LEMMA FrameType ==
    ASSUME NEW f \in Frames
    PROVE  f.kind \in Shown /\ PayloadOf(f.kind) \in Payload /\ f.version \in Nat
  BY DEF Frames, Payload

\* What the parser and the snapshots of either reader do: the store and the
\* periodic thread's view grow, and no message that is stored is as old as
\* anything that has been shown.
LEMMA DataStep ==
    ASSUME TypeInv, TypeInv', Versions, Covered, Arrive \/ Write \/ Look \/ Press
    PROVE  /\ Versions' /\ Covered'
           /\ \A f \in Frames : Backed(f) => Backed(f)'
           /\ \A f, g \in Frames : Backed(f) /\ NotOlder(f, g) => NotOlder(f, g)'
<1>1. CASE Arrive
  <2>1. arrived' = arrived + 1 /\ UNCHANGED <<store, snap, written>>
    BY <1>1 DEF Arrive, Store!Arrive
  <2> QED BY <2>1, FrameType DEF TypeInv, Types, Versions, Covered, Seen, Backed, NotOlder
<1>2. CASE Write
  <2>1. PICK p \in Payload :
           /\ store' = [store EXCEPT ![p] = arrived]
           /\ written' = written \cup {<<p, arrived>>}
    BY <1>2 DEF Write, Store!Put
  <2>2. UNCHANGED <<arrived, snap>> /\ \A q \in Payload : store[q] < arrived
    BY <1>2 DEF Write, Store!Put, TypeInv, Types, Versions
  <2>3. \A q \in Payload : store[q] <= store'[q] /\ store'[q] <= arrived
    BY <2>1, <2>2 DEF TypeInv, Types
  <2>4. Versions'
    <3>1. \A r \in Reader, q \in Payload : snap'[r][q] <= store'[q]
      BY <2>2, <2>3 DEF TypeInv, Types, Versions
    <3>2. \A w \in written' : w[2] <= store'[w[1]]
      BY <2>1, <2>3 DEF TypeInv, Types, Versions
    <3> QED BY <2>2, <2>3, <3>1, <3>2 DEF Versions
  <2>5. \A v \in Nat : v < arrived /\ Seen(v) => Seen(v)'
    BY <2>1, <2>2 DEF TypeInv, Types, Seen
  <2>6. Covered'
    BY SMTT(30), <2>2, <2>5 DEF TypeInv, Types, Versions, Covered, Reader
  <2>7. \A f \in Frames : Backed(f) => f.version < arrived /\ Backed(f)'
    BY <2>2, <2>3, <2>5, FrameType DEF TypeInv, Types, Backed
  <2>8. ASSUME NEW f \in Frames, NEW g \in Frames, Backed(f), NotOlder(f, g)
        PROVE  NotOlder(f, g)'
    <3>1. f.version < arrived /\ f.version \in Nat /\ arrived \in Nat
      BY <2>7, <2>8, FrameType DEF TypeInv, Types
    <3> QED BY <2>1, <2>8, <3>1 DEF NotOlder
  <2> QED BY <2>4, <2>6, <2>7, <2>8
<1>3. CASE Look
  <2>1. /\ snap' = [snap EXCEPT !["periodic"] = store]
        /\ UNCHANGED <<arrived, store, written>>
    BY <1>3 DEF Look, Store!Snapshot
  <2>2. snap'["periodic"] = store /\ \A r \in Reader : snap'[r] = snap[r] \/ snap'[r] = store
    BY <2>1 DEF TypeInv, Types, Reader
  <2>3. Versions'
    BY <2>1, <2>2 DEF TypeInv, Types, Versions
  <2>4. \A v : Seen(v)'
    BY <2>1, <2>2 DEF Seen, Versions
  <2> QED BY <2>1, <2>3, <2>4, FrameType DEF Covered, Backed, NotOlder
<1>4. CASE Press
  <2>1. /\ snap' = [snap EXCEPT !["button"] = store]
        /\ UNCHANGED <<arrived, store, written>>
    BY <1>4 DEF Press, Store!Snapshot
  <2>2. /\ snap'["periodic"] = snap["periodic"]
        /\ \A r \in Reader : snap'[r] = snap[r] \/ snap'[r] = store
    BY <2>1 DEF TypeInv, Types, Reader
  <2>3. Versions'
    BY <2>1, <2>2 DEF TypeInv, Types, Versions
  <2> QED BY <2>1, <2>2, <2>3, FrameType DEF Covered, Seen, Backed, NotOlder
<1> QED BY <1>1, <1>2, <1>3, <1>4

\* A frame made from the periodic thread's snapshot may follow any that is
\* backed, and is backed itself.
LEMMA FreshFrame ==
    ASSUME TypeInv, Versions, Covered, NEW r \in Reader, NEW k \in plan[r]
    PROVE  /\ Backed(Frame(r, k))
           /\ \A f \in Frames : Backed(f) => NotOlder(f, Frame(r, k))
<1>1. PayloadOf(k) \in Payload /\ snap[r][PayloadOf(k)] \in Nat
  BY DEF TypeInv, Types, Payload
<1>2. Backed(Frame(r, k))
  BY <1>1 DEF Backed, Frame, Versions, Covered
<1>3. ASSUME NEW f \in Frames, Backed(f) PROVE NotOlder(f, Frame(r, k))
  BY <1>3 DEF Backed, Seen, NotOlder, Frame
<1> QED BY <1>2, <1>3

LEMMA OrderStep == OrderInv /\ TypeInv' /\ [Next]_vars => OrderInv'
<1> SUFFICES ASSUME OrderInv, TypeInv', [Next]_vars PROVE OrderInv'
  OBVIOUS
<1> USE DEF OrderInv
<1>a. Ascending'
  BY AscendingStep
<1>t. \A n \in DOMAIN content : content[n] \in Frames
  BY DEF TypeInv, Types
<1>1. CASE Arrive \/ Write \/ Look \/ Press
  <2>1. UNCHANGED content
    BY <1>1 DEF Arrive, Write, Look, Press
  <2>2. /\ Versions' /\ Covered'
        /\ \A f \in Frames : Backed(f) => Backed(f)'
        /\ \A f, g \in Frames : Backed(f) /\ NotOlder(f, g) => NotOlder(f, g)'
    BY <1>1, DataStep
  <2>3. \A n \in DOMAIN content : Backed(content[n])'
    BY <1>t, <2>1, <2>2 DEF History
  <2>4. \A m, n \in DOMAIN content : m < n => NotOlder(content[m], content[n])'
    BY <1>t, <2>1, <2>2 DEF History
  <2> QED BY <1>a, <2>1, <2>2, <2>3, <2>4 DEF History
<1>2. CASE \E r \in Reader : Offer(r)
  <2>0. PICK r \in Reader : Offer(r)
    BY <1>2
  <2>1. PICK k \in plan[r] : /\ Fifo!Accept \/ Fifo!Refuse
                             /\ content' = Append(content, Frame(r, k))
                             /\ UNCHANGED <<arrived, store, snap, written>>
    BY <2>0 DEF Offer, Sends
  <2>2. /\ Versions' /\ Covered'
        /\ \A f : Backed(f)' = Backed(f)
        /\ \A f, g : NotOlder(f, g)' = NotOlder(f, g)
    BY <2>1 DEF Versions, Covered, Seen, Backed, NotOlder
  <2>3. /\ \A n \in DOMAIN content' : \/ n \in DOMAIN content /\ content'[n] = content[n]
                                      \/ n = Len(content) + 1 /\ content'[n] = Frame(r, k)
        /\ \A n \in DOMAIN content : n < Len(content) + 1
        /\ DOMAIN content = 1 .. Len(content) /\ Len(content) \in Nat
    BY <2>1, Longer DEF TypeInv, Types
  <2>4. /\ Backed(Frame(r, k))
        /\ \A f \in Frames : Backed(f) => NotOlder(f, Frame(r, k))
    BY FreshFrame
  <2>5. \A n \in DOMAIN content' : Backed(content'[n])
    BY <2>3, <2>4 DEF History
  <2>6. ASSUME NEW m \in DOMAIN content', NEW n \in DOMAIN content', m < n
        PROVE  NotOlder(content'[m], content'[n])
    <3>1. m \in DOMAIN content /\ content'[m] = content[m]
      <4>1. DOMAIN content' = 1 .. Len(content) + 1
        BY <2>1, Longer
      <4>2. m # Len(content) + 1
        BY <2>3, <2>6, <4>1
      <4> QED BY <2>3, <4>2
    <3>2. CASE n \in DOMAIN content
      BY <2>3, <2>6, <3>1, <3>2 DEF History
    <3>3. CASE n \notin DOMAIN content
      <4>1. content'[n] = Frame(r, k)
        BY <2>3, <3>3
      <4> QED BY <1>t, <2>4, <3>1, <4>1 DEF History
    <3> QED BY <3>2, <3>3
  <2> QED BY <1>a, <2>2, <2>5, <2>6 DEF History
<1>3. CASE Wake \/ Sleep \/ DfuStart \/ DfuEnd \/ Take \/ HandOver \/ Lose \/ UNCHANGED vars
  <2>1. UNCHANGED <<arrived, store, snap, content, written>>
    BY <1>3 DEF Wake, Sleep, DfuStart, DfuEnd, Take, HandOver, Lose,
       vars
  <2> QED BY <1>a, <2>1 DEF Versions, Covered, Seen, Backed, NotOlder, History
<1> QED BY <1>1, <1>2, <1>3 DEF Next

\* What is handed over was offered, and the order of the hand-overs is that of the
\* history, in which a frame may stand for several hand-overs.
LEMMA HandOverFacts ==
    ASSUME TypeInv, Ascending
    PROVE  /\ HandOvers \subseteq 1 .. Len(handed) /\ Len(handed) \in Nat
           /\ \A i \in HandOvers : handed[i] \in DOMAIN content /\ handed[i] \in Nat
           /\ \A i \in HandOvers : Sent(i) \in Frames
           /\ \A i, j \in HandOvers : i < j => handed[i] <= handed[j]
  BY DEF TypeInv, Types, Numbered, Ascending, HandOvers, Sent

\* A frame may follow itself.
LEMMA OrderInvImplies == OrderInv => CausalOrder
<1> SUFFICES ASSUME OrderInv, NEW i \in HandOvers, NEW j \in HandOvers, i < j
             PROVE  NotOlder(Sent(i), Sent(j))
  BY DEF CausalOrder
<1>1. /\ handed[i] \in DOMAIN content /\ handed[i] \in Nat
      /\ handed[j] \in DOMAIN content /\ handed[j] \in Nat
      /\ handed[i] <= handed[j]
  BY HandOverFacts DEF OrderInv
<1>2. CASE handed[i] < handed[j]
  BY <1>1, <1>2 DEF OrderInv, History, Sent
<1>3. CASE handed[i] = handed[j]
  <2>1. Backed(Sent(i)) /\ Sent(i) = Sent(j)
    BY <1>1, <1>3 DEF OrderInv, History, Sent
  <2> QED BY <2>1 DEF NotOlder
<1> QED BY <1>1, <1>2, <1>3
-----------------------------------------------------------------------------
(* SetbacksBounded.                                                          *)

LEMMA SteadyStep ==
    ASSUME OrderInv, Steady, [Next]_vars
    PROVE  Steady'
<1> USE DEF OrderInv
<1>t. /\ \A n \in DOMAIN content : content[n] \in Frames
      /\ \A n \in DOMAIN content : PayloadOf(content[n].kind) \in Payload
  <2>1. \A n \in DOMAIN content : content[n] \in Frames
    BY DEF TypeInv, Types
  <2> QED BY <2>1, FrameType
<1>1. CASE Arrive \/ Write \/ Wake \/ Sleep \/ DfuStart \/ DfuEnd \/ Take \/ HandOver \/ Lose
           \/ UNCHANGED vars
  <2>1. UNCHANGED <<snap, content>>
    BY <1>1 DEF Arrive, Write, Wake, Sleep, DfuStart, DfuEnd, Take, HandOver, Lose,
       vars,
       Store!Arrive, Store!Put
  <2> QED BY <2>1 DEF Steady
<1>2. CASE Look \/ Press
  <2>1. UNCHANGED content /\ \E r \in Reader : snap' = [snap EXCEPT ![r] = store]
    BY <1>2 DEF Look, Press, Store!Snapshot, Reader
  <2>2. \A r \in Reader, p \in Payload :
           /\ snap[r][p] \in Nat /\ snap'[r][p] \in Nat
           /\ snap[r][p] <= snap'[r][p]
    BY <2>1 DEF TypeInv, Types, Versions
  <2>3. ASSUME NEW n \in DOMAIN content
        PROVE  content[n].version <= snap'[content[n].from][PayloadOf(content[n].kind)]
    <3>1. /\ content[n].from \in Reader /\ content[n].version \in Nat
          /\ PayloadOf(content[n].kind) \in Payload
      BY <1>t DEF Frames
    <3>2. content[n].version <= snap[content[n].from][PayloadOf(content[n].kind)]
      BY DEF Steady
    <3> QED BY <2>2, <3>1, <3>2
  <2> QED BY <2>1, <2>3 DEF Steady
<1>3. CASE \E r \in Reader : Offer(r)
  <2>1. PICK r \in Reader : Offer(r)
    BY <1>3
  <2>2. PICK k \in plan[r] : /\ Fifo!Accept \/ Fifo!Refuse
                             /\ content' = Append(content, Frame(r, k))
                             /\ UNCHANGED snap
    BY <2>1 DEF Offer, Sends
  <2>3. /\ \A n \in DOMAIN content' : \/ n \in DOMAIN content /\ content'[n] = content[n]
                                      \/ n = Len(content) + 1 /\ content'[n] = Frame(r, k)
        /\ \A n \in DOMAIN content : n < Len(content) + 1
        /\ DOMAIN content' \subseteq Nat /\ Len(content) \in Nat
        /\ Frame(r, k) \in Frames
    BY <2>2, Longer DEF TypeInv, Types
  <2>4. /\ Frame(r, k).from = r /\ Frame(r, k).kind = k
        /\ Frame(r, k).version = snap[r][PayloadOf(k)]
        /\ Frame(r, k).version \in Nat
    BY <2>3 DEF Frame, Frames
  <2>5. ASSUME NEW n \in DOMAIN content'
        PROVE  content'[n].version <= snap[content'[n].from][PayloadOf(content'[n].kind)]
    BY <2>3, <2>4 DEF Steady
  <2>6. ASSUME NEW m \in DOMAIN content', NEW n \in DOMAIN content', m < n,
               content'[m].from = content'[n].from, content'[m].kind = content'[n].kind
        PROVE  content'[m].version <= content'[n].version
    <3>1. m \in DOMAIN content /\ content'[m] = content[m]
      <4>1. DOMAIN content' = 1 .. Len(content) + 1
        BY <2>2, Longer
      <4>2. m # Len(content) + 1
        BY <2>3, <2>6, <4>1
      <4> QED BY <2>3, <4>2
    <3>2. CASE n \in DOMAIN content
      <4>1. content'[n] = content[n]
        BY <2>3, <3>2
      <4> QED BY <2>6, <3>1, <3>2, <4>1 DEF Steady
    <3>3. CASE n \notin DOMAIN content
      <4>1. content'[n] = Frame(r, k)
        BY <2>3, <3>3
      <4>2. content[m].version <= snap[content[m].from][PayloadOf(content[m].kind)]
        BY <3>1 DEF Steady
      <4> QED BY <2>4, <2>6, <3>1, <4>1, <4>2
    <3> QED BY <3>2, <3>3
  <2> QED BY <2>2, <2>5, <2>6 DEF Steady
<1> QED BY <1>1, <1>2, <1>3 DEF Next

\* The test button's frames of a kind are finitely many.
LEMMA PressedFinite ==
    ASSUME TypeInv, NEW k
    PROVE  /\ IsFiniteSet(DOMAIN content)
           /\ IsFiniteSet(Pressed(k)) /\ Cardinality(Pressed(k)) \in Nat
<1>1. DOMAIN content = 1 .. Len(content) /\ Len(content) \in Int /\ 1 \in Int
  BY DEF TypeInv, Types
<1>2. \A a, b \in Int : IsFiniteSet(a .. b)
  BY FS_Interval
<1>3. IsFiniteSet(DOMAIN content)
  BY <1>1, <1>2, Zenon
<1>4. Pressed(k) \subseteq DOMAIN content
  BY DEF Pressed
<1>5. IsFiniteSet(Pressed(k))
  BY <1>3, <1>4, FS_Subset
<1> QED BY <1>3, <1>5, FS_CardinalityType

LEMMA SpentStep ==
    ASSUME TypeInv, TypeInv', Spent, [Next]_vars
    PROVE  Spent'
<1>1. CASE Arrive \/ Write \/ Wake \/ Look \/ Sleep \/ DfuStart \/ DfuEnd \/ Take
           \/ HandOver \/ Lose \/ UNCHANGED vars
  <2>1. UNCHANGED <<content, presses>> /\ plan'["button"] = plan["button"]
    BY <1>1 DEF Arrive, Write, Wake, Look, Sleep, DfuStart, DfuEnd, Take, HandOver, Lose,
       vars,
       TypeInv, Types, Reader
  <2> QED BY <2>1 DEF Spent, Pressed
<1>2. CASE Press
  <2>1. UNCHANGED content /\ plan["button"] = {} /\ presses' = presses + 1
    BY <1>2 DEF Press
  <2>2. \A k : Pressed(k)' = Pressed(k)
    BY <2>1 DEF Pressed
  <2>3. ASSUME NEW k \in Shown
        PROVE  Cardinality(Pressed(k)') + (IF k \in plan'["button"] THEN 1 ELSE 0) <= presses'
    <3>1. Cardinality(Pressed(k)) \in Nat
      BY PressedFinite
    <3>2. Cardinality(Pressed(k)) <= presses
      BY <2>1, <3>1 DEF Spent
    <3> QED BY <2>1, <2>2, <3>1, <3>2 DEF Spent
  <2> QED BY <2>1, <2>3 DEF Spent
<1>3. CASE \E r \in Reader : Offer(r)
  <2>1. PICK r \in Reader : Offer(r)
    BY <1>3
  <2>2. PICK j \in plan[r] : /\ Fifo!Accept \/ Fifo!Refuse
                             /\ content' = Append(content, Frame(r, j))
                             /\ plan' = [plan EXCEPT ![r] = @ \ {j}]
                             /\ UNCHANGED presses
    BY <2>1 DEF Offer, Sends
  <2>3. /\ \A n \in DOMAIN content' : \/ n \in DOMAIN content /\ content'[n] = content[n]
                                      \/ n = Len(content) + 1 /\ content'[n] = Frame(r, j)
        /\ \A n \in DOMAIN content : n \in DOMAIN content' /\ n < Len(content) + 1
        /\ Len(content) \in Nat
    <3>1. /\ \A n \in DOMAIN content' :
                \/ n \in DOMAIN content /\ content'[n] = content[n]
                \/ n = Len(content) + 1 /\ content'[n] = Frame(r, j)
          /\ \A n \in DOMAIN content : n \in DOMAIN content' /\ n < Len(content) + 1
      BY <2>2, Longer
    <3>2. Len(content) \in Nat
      BY DEF TypeInv, Types
    <3> QED BY <3>1, <3>2
  <2>4. /\ Frame(r, j).from = r /\ Frame(r, j).kind = j
        /\ \A n \in DOMAIN content : content'[n] = content[n]
        /\ Len(content) + 1 \notin DOMAIN content
    BY <2>3 DEF Frame
  <2>5. ASSUME NEW k \in Shown
        PROVE  Cardinality(Pressed(k)') + (IF k \in plan'["button"] THEN 1 ELSE 0) <= presses'
    <3>0. IsFiniteSet(Pressed(k)) /\ Cardinality(Pressed(k)) \in Nat
      BY PressedFinite
    <3>1. CASE r = "button" /\ k = j
      <4>1. Pressed(k)' \subseteq Pressed(k) \cup {Len(content) + 1}
        BY <2>3 DEF Pressed
      <4>2. IsFiniteSet(Pressed(k) \cup {Len(content) + 1})
            /\ Cardinality(Pressed(k) \cup {Len(content) + 1}) = Cardinality(Pressed(k)) + 1
        <5>1. Len(content) + 1 \notin Pressed(k)
          BY <2>4 DEF Pressed
        <5> QED BY <3>0, <5>1, FS_AddElement
      <4>3. Cardinality(Pressed(k)') <= Cardinality(Pressed(k)) + 1
            /\ Cardinality(Pressed(k)') \in Nat
        BY <4>1, <4>2, FS_Subset, FS_CardinalityType
      <4>4. k \in plan["button"] /\ k \notin plan'["button"]
        BY <2>2, <3>1 DEF TypeInv, Types
      <4> QED BY <2>2, <3>0, <4>3, <4>4 DEF Spent
    <3>2. CASE ~(r = "button" /\ k = j)
      <4>1. Pressed(k)' = Pressed(k)
        BY <2>3, <2>4, <3>2 DEF Pressed
      <4>2. k \in plan'["button"] => k \in plan["button"]
        BY <2>2 DEF TypeInv, Types, Reader
      <4> QED BY <2>2, <3>0, <4>1, <4>2 DEF Spent
    <3> QED BY <3>1, <3>2
  <2> QED BY <2>2, <2>5 DEF Spent
<1> QED BY <1>1, <1>2, <1>3 DEF Next

\* A setback is between two frames, one of each reader.
LEMMA SetbackMixes ==
    ASSUME SetbackInv, NEW i \in HandOvers, NEW j \in HandOvers, i < j,
           Sent(i).kind = Sent(j).kind, Sent(i).version > Sent(j).version
    PROVE  handed[i] < handed[j] /\ Sent(i).from # Sent(j).from
<1>1. /\ handed[i] \in DOMAIN content /\ handed[i] \in Nat /\ handed[i] <= handed[j]
      /\ handed[j] \in DOMAIN content /\ handed[j] \in Nat
      /\ Sent(i) \in Frames /\ Sent(j) \in Frames
  BY HandOverFacts DEF SetbackInv, OrderInv
<1>2. Sent(i).version \in Nat /\ Sent(j).version \in Nat
  BY <1>1 DEF Frames
<1>3. handed[i] < handed[j]
  <2>1. handed[i] # handed[j]
    BY <1>2 DEF Sent
  <2> QED BY <1>1, <2>1
<1>4. Sent(i).from = Sent(j).from => Sent(i).version <= Sent(j).version
  BY <1>1, <1>3 DEF SetbackInv, Steady, Sent
<1> QED BY <1>2, <1>3, <1>4

\* Every setback of a kind is charged to a frame of the test button, no two of them
\* to the same.
LEMMA Charged ==
    ASSUME SetbackInv, NEW k \in Shown
    PROVE  Cardinality(Setbacks(k)) <= Cardinality(Pressed(k))
<1> DEFINE Before(j) == CHOOSE i \in HandOvers :
                            Precedes(i, j) /\ Sent(i).version > Sent(j).version
           Charge(j) == IF Sent(j).from = "button" THEN handed[j] ELSE handed[Before(j)]
           f == [j \in Setbacks(k) |-> Charge(j)]
<1>1. /\ HandOvers \subseteq Nat
      /\ \A i \in HandOvers : handed[i] \in DOMAIN content /\ handed[i] \in Nat
      /\ \A i \in HandOvers : Sent(i) \in Frames
      /\ \A i, j \in HandOvers : i < j => handed[i] <= handed[j]
  BY HandOverFacts DEF SetbackInv, OrderInv
<1>2. ASSUME NEW j \in Setbacks(k)
      PROVE  /\ j \in HandOvers /\ Sent(j).kind = k
             /\ Before(j) \in HandOvers /\ Before(j) < j
             /\ Sent(Before(j)).kind = k
             /\ Sent(Before(j)).version > Sent(j).version
             /\ Sent(Before(j)).from # Sent(j).from
             /\ handed[Before(j)] < handed[j]
             /\ \A l \in HandOvers : Before(j) < l /\ l < j => Sent(l).kind # k
  <2>1. /\ j \in HandOvers /\ Sent(j).kind = k
        /\ \E i \in HandOvers : Precedes(i, j) /\ Sent(i).version > Sent(j).version
    BY DEF Setbacks
  <2>2. /\ Before(j) \in HandOvers
        /\ Precedes(Before(j), j) /\ Sent(Before(j)).version > Sent(j).version
    BY <2>1
  <2> HIDE DEF Before
  <2>3. /\ Before(j) < j /\ Sent(Before(j)).kind = k
        /\ \A l \in HandOvers : Before(j) < l /\ l < j => Sent(l).kind # k
    BY <2>1, <2>2 DEF Precedes
  <2> QED BY <2>1, <2>2, <2>3, SetbackMixes
<1> HIDE DEF Before
<1>3. ASSUME NEW j \in Setbacks(k)
      PROVE  Charge(j) \in Pressed(k)
  <2>1. /\ handed[j] \in DOMAIN content /\ Sent(j).kind = k
        /\ handed[Before(j)] \in DOMAIN content /\ Sent(Before(j)).kind = k
    BY <1>1, <1>2
  <2>2. CASE Sent(j).from = "button"
    BY <2>1, <2>2 DEF Pressed, Sent
  <2>3. CASE Sent(j).from # "button"
    <3>1. Sent(Before(j)) \in Frames /\ Sent(j) \in Frames
      BY <1>1, <1>2
    <3>2. Sent(Before(j)).from # Sent(j).from
      BY <1>2
    <3>3. Sent(Before(j)).from = "button"
      BY <2>3, <3>1, <3>2 DEF Frames, Reader
    <3> QED BY <2>1, <2>3, <3>3 DEF Pressed, Sent
  <2> QED BY <2>2, <2>3
<1>4. ASSUME NEW i \in Setbacks(k), NEW j \in Setbacks(k), i < j, Charge(i) = Charge(j)
      PROVE  FALSE
  <2>0. /\ i \in Nat /\ j \in Nat /\ Before(i) \in Nat /\ Before(j) \in Nat
        /\ handed[i] \in Nat /\ handed[j] \in Nat
        /\ handed[Before(i)] \in Nat /\ handed[Before(j)] \in Nat
    BY <1>1, <1>2
  <2>1. i <= Before(j)
    BY <1>2, <1>4, <2>0
  <2>2. handed[i] <= handed[Before(j)]
    BY <1>1, <1>2, <2>0, <2>1
  <2>3. handed[Before(i)] < handed[i] /\ handed[Before(j)] < handed[j]
    BY <1>2
  <2>4. Sent(i).from = "button" /\ Sent(j).from # "button" /\ handed[i] = handed[Before(j)]
    BY <1>4, <2>0, <2>2, <2>3
  <2>5. Sent(Before(j)) = Sent(i)
    BY <2>4 DEF Sent
  <2>6. Sent(Before(i)).version > Sent(j).version
    <3>1. /\ Sent(Before(i)).version \in Nat /\ Sent(i).version \in Nat
          /\ Sent(j).version \in Nat
      BY <1>1, <1>2 DEF Frames
    <3>2. Sent(Before(i)).version > Sent(i).version /\ Sent(i).version > Sent(j).version
      BY <1>2, <2>5
    <3> QED BY <3>1, <3>2
  <2>7. Sent(Before(i)).from = Sent(j).from
    <3>1. Sent(Before(i)) \in Frames /\ Sent(j) \in Frames
      BY <1>1, <1>2
    <3>2. Sent(Before(i)).from # "button"
      BY <1>2, <2>4
    <3> QED BY <2>4, <3>1, <3>2 DEF Frames, Reader
  <2>8. Before(i) < j
    BY <1>2, <1>4, <2>0
  <2> QED BY <1>2, <2>6, <2>7, <2>8, SetbackMixes
<1>5. f \in Injection(Setbacks(k), Pressed(k))
  <2>1. f \in [Setbacks(k) -> Pressed(k)]
    BY <1>3
  <2>2. \A i, j \in Setbacks(k) : i < j \/ j < i \/ i = j
    <3>1. Setbacks(k) \subseteq Nat
      BY <1>1 DEF Setbacks
    <3> QED BY <3>1
  <2>3. \A i, j \in Setbacks(k) : f[i] = f[j] => i = j
    <3> HIDE DEF Charge
    <3> QED BY <1>4, <2>2
  <2> HIDE DEF f
  <2> QED BY <2>1, <2>3 DEF Injection, IsInjective
<1> HIDE DEF f
<1>6. IsFiniteSet(Pressed(k))
  BY PressedFinite DEF SetbackInv, OrderInv
<1> QED BY <1>5, <1>6, FS_Injection
-----------------------------------------------------------------------------
(* InventedByButton.                                                         *)

LEMMA HonestStep == HonestInv /\ [Next]_vars => HonestInv'
<1> SUFFICES ASSUME HonestInv, [Next]_vars PROVE HonestInv'
  OBVIOUS
<1> USE DEF HonestInv
<1>0. TypeInv'
  BY TypeStep
<1>1. CASE Arrive \/ Write \/ Wake \/ Sleep \/ DfuStart \/ DfuEnd \/ Take \/ HandOver \/ Lose
           \/ UNCHANGED vars
  <2>1. UNCHANGED <<snap, plan, content>>
    BY <1>1 DEF Arrive, Write, Wake, Sleep, DfuStart, DfuEnd, Take, HandOver, Lose,
       vars,
       Store!Arrive, Store!Put
  <2> QED BY <1>0, <2>1 DEF HonestHistory, Planned
<1>2. CASE Look
  <2>1. UNCHANGED content /\ plan'["button"] = plan["button"]
    BY <1>2 DEF Look, TypeInv, Types, Reader
  <2>2. PICK some \in SUBSET Shown : plan'["periodic"] = Valid(store, some)
    BY <1>2 DEF Look, TypeInv, Types, Reader
  <2>3. snap'["periodic"] = store /\ snap'["button"] = snap["button"]
    BY <1>2 DEF Look, Store!Snapshot, TypeInv, Types, Reader
  <2>4. Planned'
    BY <2>1, <2>2, <2>3 DEF Planned, Valid
  <2> QED BY <1>0, <2>1, <2>4 DEF HonestHistory
<1>3. CASE Press
  <2>1. UNCHANGED content /\ plan'["periodic"] = plan["periodic"]
        /\ plan'["button"] = All(store)
    BY <1>3 DEF Press, TypeInv, Types, Reader
  <2>2. snap'["button"] = store /\ snap'["periodic"] = snap["periodic"]
    BY <1>3 DEF Press, Store!Snapshot, TypeInv, Types, Reader
  <2>3. Planned'
    BY <2>1, <2>2 DEF Planned, All
  <2> QED BY <1>0, <2>1, <2>3 DEF HonestHistory
<1>4. CASE \E r \in Reader : Offer(r)
  <2>1. PICK r \in Reader : Offer(r)
    BY <1>4
  <2>2. PICK k \in plan[r] : /\ Fifo!Accept \/ Fifo!Refuse
                             /\ content' = Append(content, Frame(r, k))
                             /\ plan' = [plan EXCEPT ![r] = @ \ {k}]
                             /\ UNCHANGED snap
    BY <2>1 DEF Offer, Sends
  <2>3. Honest(Frame(r, k))
    BY DEF Honest, Frame, Planned, Reader
  <2>4. HonestHistory'
    BY <2>2, <2>3, Longer DEF HonestHistory, Honest
  <2>5. Planned'
    BY <2>2 DEF Planned, TypeInv, Types, Reader
  <2> QED BY <1>0, <2>4, <2>5
<1> QED BY <1>1, <1>2, <1>3, <1>4 DEF Next
-----------------------------------------------------------------------------
\* What the controller is given by the periodic thread never goes back, for one
\* payload or across payloads: a frame handed over later shows all that the master
\* had sent of its payload when it sent what an earlier one shows.
THEOREM CausalOrderCorrect == Spec => []CausalOrder
<1>1. Init => OrderInv
  <2> SUFFICES ASSUME Init PROVE OrderInv
    OBVIOUS
  <2>1. /\ store = [p \in Payload |-> 0] /\ arrived = 0
        /\ snap = [r \in Reader |-> store] /\ written = {}
        /\ waiting = << >> /\ turn = 0 /\ handed = << >> /\ content = << >>
    BY DEF Init, Store!Init, Fifo!Init
  <2> QED BY <2>1, TypeInit DEF OrderInv, Ascending, Versions, Covered, Seen, History
<1>2. OrderInv /\ [Next]_vars => OrderInv'
  BY OrderStep, TypeStep DEF OrderInv
<1> QED BY <1>1, <1>2, OrderInvImplies, PTL DEF Spec

\* What the controller is given of a kind goes back at most once for each press of
\* the test button, whatever is lost or repeated on the way.
THEOREM SetbacksBoundedCorrect == Spec => []SetbacksBounded
<1>1. Init => SetbackInv
  <2> SUFFICES ASSUME Init PROVE SetbackInv
    OBVIOUS
  <2>1. /\ store = [p \in Payload |-> 0] /\ arrived = 0
        /\ snap = [r \in Reader |-> store] /\ written = {}
        /\ waiting = << >> /\ turn = 0 /\ handed = << >> /\ content = << >>
        /\ plan = [r \in Reader |-> {}] /\ presses = 0
    BY DEF Init, Store!Init, Fifo!Init
  <2>2. OrderInv
    BY <2>1, TypeInit DEF OrderInv, Ascending, Versions, Covered, Seen, History
  <2>3. \A k : Pressed(k) = {}
    BY <2>1 DEF Pressed
  <2>4. Steady
    BY <2>1 DEF Steady
  <2>5. Spent
    <3>1. Cardinality({}) = 0
      BY FS_EmptySet
    <3>2. plan["button"] = {}
      BY <2>1 DEF Reader
    <3>3. \A k \in Shown : Cardinality(Pressed(k)) = 0 /\ k \notin plan["button"]
      BY <2>3, <3>1, <3>2
    <3>4. presses = 0
      BY <2>1
    <3> HIDE DEF Pressed
    <3> QED BY <3>3, <3>4 DEF Spent
  <2> QED BY <2>2, <2>4, <2>5 DEF SetbackInv
<1>2. SetbackInv /\ [Next]_vars => SetbackInv'
  <2> SUFFICES ASSUME SetbackInv, [Next]_vars PROVE SetbackInv'
    OBVIOUS
  <2>1. TypeInv /\ TypeInv' /\ OrderInv' /\ OrderInv
    BY TypeStep, OrderStep DEF SetbackInv, OrderInv
  <2> QED BY <2>1, SteadyStep, SpentStep DEF SetbackInv
<1>3. SetbackInv => SetbacksBounded
  <2> SUFFICES ASSUME SetbackInv, NEW k \in Shown
               PROVE  Cardinality(Setbacks(k)) <= presses
    BY DEF SetbacksBounded
  <2>1. TypeInv /\ Spent
    BY DEF SetbackInv, OrderInv
  <2>2. Cardinality(Pressed(k)) \in Nat /\ Cardinality(Pressed(k)) <= presses
    BY <2>1, PressedFinite DEF Spent
  <2>3. Cardinality(Setbacks(k)) <= Cardinality(Pressed(k))
    BY Charged
  <2>4. Cardinality(Setbacks(k)) \in Nat
    <3>1. Setbacks(k) \subseteq DOMAIN handed
      BY DEF Setbacks, HandOvers
    <3>2. IsFiniteSet(DOMAIN handed)
      <4>1. DOMAIN handed = 1 .. Len(handed) /\ Len(handed) \in Int /\ 1 \in Int
        BY <2>1 DEF TypeInv, Types
      <4>2. \A a, b \in Int : IsFiniteSet(a .. b)
        BY FS_Interval
      <4> QED BY <4>1, <4>2, Zenon
    <3> QED BY <3>1, <3>2, FS_Subset, FS_CardinalityType
  <2> QED BY <2>1, <2>2, <2>3, <2>4 DEF Spent
<1> QED BY <1>1, <1>2, <1>3, PTL DEF Spec

\* Zeros in place of data that never arrived are handed over for the test button only.
THEOREM InventedByButtonCorrect == Spec => []InventedByButton
<1>1. Init => HonestInv
  <2> SUFFICES ASSUME Init PROVE HonestInv
    OBVIOUS
  <2>1. plan = [r \in Reader |-> {}] /\ content = << >>
    BY DEF Init
  <2> QED BY <2>1, TypeInit DEF HonestInv, HonestHistory, Planned, Reader
<1>2. HonestInv => InventedByButton
  BY DEF HonestInv, TypeInv, Numbered, HonestHistory, Honest, InventedByButton, HandOvers, Sent
<1> QED BY <1>1, <1>2, HonestStep, PTL DEF Spec
=============================================================================
