-------------------------- MODULE DataStoreProofs --------------------------
(***************************************************************************)
(* Proofs about the shared master data, for every set of payloads, every   *)
(* set of readers and any number of messages.                              *)
(*                                                                         *)
(* Exclusive says that the mutex excludes, Consistent what the store and   *)
(* the readers' copies hold while they are being written.  WaitersAdvance  *)
(* counts the steps before a waiting thread has the mutex.                 *)
(***************************************************************************)
EXTENDS DataStore, SequenceTheorems, FiniteSetTheorems, TLAPS

USE ThreadAssumption, OtherAssumption, MaxMessagesAssumption
-----------------------------------------------------------------------------
\* What giving up the mutex does to the types.
LEMMA UnlockTypes ==
  ASSUME TypeOK, NEW t \in Thread, NEW next \in Label, Unlock(t, next)
  PROVE  /\ owner' \in Thread \cup {NoThread}
         /\ waiters' \in Seq(Thread)
         /\ pc' \in [Thread -> Label]
<1>1. CASE waiters = << >>
  BY <1>1 DEF TypeOK, Unlock
<1>2. CASE waiters # << >>
  <2>1. Head(waiters) \in Thread /\ Tail(waiters) \in Seq(Thread)
    BY <1>2, HeadTailProperties DEF TypeOK
  <2> QED
    BY <1>2, <2>1 DEF TypeOK, Unlock, Label
<1> QED
  BY <1>1, <1>2

LEMMA WholeType ==
  ASSUME NEW m \in Message
  PROVE  Whole(m) \in [Cell -> Message]
  BY DEF Whole, Cell, Message

\* Every reachable state of the store, the mutex and the threads has its type.
THEOREM TypeCorrect == Spec => []TypeOK
<1>0. 0 \in Message /\ Whole(0) \in [Cell -> Message]
  BY WholeType DEF Message
<1>1. Init => TypeOK
  BY <1>0, EmptySeq DEF Init, TypeOK, Zero, Label
<1>2. TypeOK /\ [Next]_vars => TypeOK'
  <2> SUFFICES ASSUME TypeOK, [Next]_vars PROVE TypeOK'
    OBVIOUS
  <2>1. ASSUME NEW t \in Thread, Lock(t) PROVE TypeOK'
    <3>1. Append(waiters, t) \in Seq(Thread)
      BY AppendProperties DEF TypeOK
    <3> QED
      BY <2>1, <3>1 DEF Lock, TypeOK, Label
  <2>2. CASE Undecodable \/ Decoded
    <3>1. arrived' \in Message
      BY <2>2 DEF Undecodable, Decoded, TypeOK, Message
    <3> QED
      BY <2>2, <3>1 DEF Undecodable, Decoded, TypeOK, mutex, Label
  <2>3. CASE Switch
    <3>1. Parser \in Thread /\ (IF tag = Other THEN {} ELSE {tag} \X Cell) \subseteq Payload \X Cell
      BY DEF TypeOK, Thread
    <3> QED
      BY <2>3, <3>1 DEF Switch, TypeOK, mutex, Label
  <2>4. CASE Write
    <3>1. PICK p \in Payload, c \in Cell :
             /\ todo' = [todo EXCEPT ![Parser] = @ \ {<<p, c>>}]
             /\ data' = [data EXCEPT ![p][c] = Whole(arrived)[c]]
      BY <2>4 DEF Write
    <3>2. Whole(arrived)[c] \in Message
      BY WholeType DEF TypeOK
    <3>3. data' \in [Payload -> [Cell -> Message]]
      BY <3>1, <3>2 DEF TypeOK
    <3>4. todo' \in [Thread -> SUBSET (Payload \X Cell)]
      BY <3>1 DEF TypeOK
    <3> QED
      BY <2>4, <3>3, <3>4 DEF Write, TypeOK, mutex
  <2>5. CASE ParserUnlock
    <3>1. Parser \in Thread /\ Unlock(Parser, "count") /\ "count" \in Label
      BY <2>5 DEF ParserUnlock, Thread, Label
    <3>2. /\ owner' \in Thread \cup {NoThread}
          /\ waiters' \in Seq(Thread)
          /\ pc' \in [Thread -> Label]
      BY <3>1, UnlockTypes
    <3> QED
      BY <2>5, <3>2 DEF ParserUnlock, TypeOK
  <2>6. CASE Count
    <3>1. rs485_frames_received' \in Nat
      BY <2>6 DEF Count, TypeOK
    <3>2. pc' \in [Thread -> Label]
      BY <2>6 DEF Count, TypeOK, Label
    <3> QED
      BY <2>6, <3>1, <3>2 DEF Count, TypeOK, mutex
  <2>7. ASSUME NEW r \in Reader, Start(r) PROVE TypeOK'
    <3>1. Zero \in [Payload -> [Cell -> Message]]
      BY <1>0 DEF Zero
    <3> QED
      BY <2>7, <3>1 DEF Start, TypeOK, mutex, Label
  <2>8. ASSUME NEW r \in Reader, Enter(r) PROVE TypeOK'
    BY <2>8 DEF Enter, TypeOK, mutex, Label
  <2>9. ASSUME NEW r \in Reader, Copy(r) PROVE TypeOK'
    <3>1. PICK p \in Payload, c \in Cell :
             /\ todo' = [todo EXCEPT ![r] = @ \ {<<p, c>>}]
             /\ d' = [d EXCEPT ![r][p][c] = data[p][c]]
      BY <2>9 DEF Copy
    <3>2. data[p][c] \in Message
      BY DEF TypeOK
    <3>3. d' \in [Reader -> [Payload -> [Cell -> Message]]]
      BY <3>1, <3>2 DEF TypeOK
    <3>4. todo' \in [Thread -> SUBSET (Payload \X Cell)]
      BY <3>1 DEF TypeOK
    <3> QED
      BY <2>9, <3>3, <3>4 DEF Copy, TypeOK, mutex
  <2>10. ASSUME NEW r \in Reader, ReaderUnlock(r) PROVE TypeOK'
    <3>1. r \in Thread /\ Unlock(r, "use") /\ "use" \in Label
      BY <2>10 DEF ReaderUnlock, Thread, Label
    <3>2. /\ owner' \in Thread \cup {NoThread}
          /\ waiters' \in Seq(Thread)
          /\ pc' \in [Thread -> Label]
      BY <3>1, UnlockTypes
    <3>3. Origin(d[r]) \in [Payload -> Message]
      BY DEF Origin, TypeOK, Cell
    <3> QED
      BY <2>10, <3>2, <3>3 DEF ReaderUnlock, TypeOK
  <2>11. ASSUME NEW r \in Reader, Use(r) PROVE TypeOK'
    BY <2>11 DEF Use, TypeOK, mutex, Label
  <2>12. CASE UNCHANGED vars
    BY <2>12 DEF vars, TypeOK
  <2> QED
    BY <2>1, <2>2, <2>3, <2>4, <2>5, <2>6, <2>7, <2>8, <2>9, <2>10, <2>11, <2>12
       DEF Next, ParserStep, ReaderStep, Thread
<1> QED
  BY <1>1, <1>2, PTL DEF Spec
-----------------------------------------------------------------------------
\* The mutex has one owner, who alone is inside; the waiters are blocked, and
\* each waits once.
Inside(t) == pc[t] \in {"enter", "inside"}

Exclusive ==
    /\ \A t \in Thread : Inside(t) <=> owner = t
    /\ \A i \in 1 .. Len(waiters) : pc[waiters[i]] = "blocked"
    /\ \A i, j \in 1 .. Len(waiters) : waiters[i] = waiters[j] => i = j

LEMMA WaitersFacts ==
  ASSUME TypeOK
  PROVE  /\ Len(waiters) \in Nat
         /\ \A i \in 1 .. Len(waiters) : waiters[i] \in Thread
         /\ waiters # << >> => /\ Len(waiters) \in Nat \ {0}
                               /\ Head(waiters) = waiters[1]
                               /\ Len(Tail(waiters)) = Len(waiters) - 1
                               /\ \A i \in 1 .. Len(Tail(waiters)) :
                                     Tail(waiters)[i] = waiters[i + 1]
  BY LenProperties, ElementOfSeq, HeadTailProperties, EmptySeq DEF TypeOK

\* What giving up the mutex does to the threads.
LEMMA UnlockFacts ==
  ASSUME TypeOK, Exclusive, NEW t \in Thread, NEW next \in {"count", "use"},
         pc[t] = "inside", Unlock(t, next)
  PROVE  /\ Exclusive'
         /\ pc'[t] = next
         /\ \A u \in Thread \ {t} :
               pc'[u] = pc[u] \/ (pc[u] = "blocked" /\ pc'[u] = "enter")
<1>1. owner = t /\ \A u \in Thread \ {t} : ~Inside(u)
  BY DEF Exclusive, Inside
<1>2. CASE waiters = << >>
  <2>1. pc'[t] = next /\ \A u \in Thread \ {t} : pc'[u] = pc[u]
    BY <1>2 DEF Unlock, TypeOK
  <2>2. owner' = NoThread /\ waiters' = waiters /\ NoThread \notin Thread
    BY <1>2 DEF Unlock, Thread
  <2>3. Len(waiters) = 0
    BY <1>2, EmptySeq
  <2> QED
    BY <1>1, <2>1, <2>2, <2>3 DEF Exclusive, Inside
<1>3. CASE waiters # << >>
  <2> DEFINE h == Head(waiters)
  <2>1. h = waiters[1] /\ h \in Thread /\ pc[h] = "blocked" /\ h # t
    BY <1>3, WaitersFacts DEF Exclusive
  <2>2. owner' = h /\ waiters' = Tail(waiters)
    BY <1>3 DEF Unlock
  <2>3. /\ pc'[t] = next /\ pc'[h] = "enter"
        /\ \A u \in Thread \ {t, h} : pc'[u] = pc[u]
    BY <1>3, <2>1 DEF Unlock, TypeOK
  <2>4. \A i \in 1 .. Len(waiters') :
           /\ i + 1 \in 1 .. Len(waiters) /\ i + 1 # 1
           /\ waiters'[i] = waiters[i + 1]
    BY <1>3, <2>2, WaitersFacts
  <2>5. \A i \in 1 .. Len(waiters') : waiters'[i] # h /\ pc[waiters'[i]] = "blocked"
    BY <1>3, <2>1, <2>4, WaitersFacts DEF Exclusive
  <2>6. \A i \in 1 .. Len(waiters') : pc'[waiters'[i]] = "blocked"
    BY <2>3, <2>4, <2>5, WaitersFacts
  <2>7. \A i, j \in 1 .. Len(waiters') : waiters'[i] = waiters'[j] => i = j
    BY <2>4 DEF Exclusive
  <2>8. \A u \in Thread : Inside(u)' <=> owner' = u
    BY <1>1, <2>1, <2>2, <2>3 DEF Inside
  <2> QED
    BY <2>1, <2>3, <2>6, <2>7, <2>8 DEF Exclusive
<1> QED
  BY <1>2, <1>3

LEMMA ExclusiveStep ==
  ASSUME TypeOK, Exclusive, [Next]_vars
  PROVE  Exclusive'
<1>w. Len(waiters) \in Nat /\ \A i \in 1 .. Len(waiters) : waiters[i] \in Thread
  BY WaitersFacts
<1>1. ASSUME NEW t \in Thread, Lock(t)
      PROVE  Exclusive'
  <2>1. pc[t] = "lock" /\ \A u \in Thread \ {t} : pc'[u] = pc[u]
    BY <1>1 DEF Lock, TypeOK
  <2>2. \A i \in 1 .. Len(waiters) : waiters[i] # t
    BY <2>1 DEF Exclusive
  <2>3. CASE owner = NoThread
    <3>1. owner' = t /\ pc'[t] = "enter" /\ waiters' = waiters /\ NoThread \notin Thread
      BY <1>1, <2>3 DEF Lock, TypeOK, Thread
    <3> QED
      BY <1>w, <2>1, <2>2, <2>3, <3>1 DEF Exclusive, Inside
  <2>4. CASE owner # NoThread
    <3>1. owner' = owner /\ pc'[t] = "blocked" /\ waiters' = Append(waiters, t)
      BY <1>1, <2>4 DEF Lock, TypeOK
    <3>2. /\ Len(waiters') = Len(waiters) + 1
          /\ \A i \in 1 .. Len(waiters) : waiters'[i] = waiters[i]
          /\ waiters'[Len(waiters) + 1] = t
      BY <3>1, AppendProperties DEF TypeOK
    <3>3. \A i \in 1 .. Len(waiters') : pc'[waiters'[i]] = "blocked"
      BY <1>w, <2>1, <2>2, <3>1, <3>2 DEF Exclusive
    <3>4. \A i, j \in 1 .. Len(waiters') : waiters'[i] = waiters'[j] => i = j
      BY <1>w, <2>2, <3>2 DEF Exclusive
    <3>5. \A u \in Thread : Inside(u)' <=> owner' = u
      BY <2>1, <3>1 DEF Exclusive, Inside
    <3> QED
      BY <3>3, <3>4, <3>5 DEF Exclusive
  <2> QED
    BY <2>3, <2>4
\* The steps of a thread that neither take nor give up the mutex.
<1>2. ASSUME NEW t \in Thread, NEW from \in Label, NEW to \in Label,
             pc[t] = from, pc' = [pc EXCEPT ![t] = to],
             from \in {"enter", "inside"} <=> to \in {"enter", "inside"},
             from # "blocked", UNCHANGED mutex
      PROVE  Exclusive'
  BY <1>w, <1>2 DEF Exclusive, Inside, TypeOK, mutex
<1>3. CASE Undecodable
  BY <1>3 DEF Undecodable, Exclusive, Inside, mutex
<1>4. CASE Decoded
  BY <1>2, <1>4 DEF Decoded, Thread, Label
<1>5. CASE Switch
  BY <1>2, <1>5 DEF Switch, Thread, Label
<1>6. CASE Write
  BY <1>6 DEF Write, Exclusive, Inside, mutex
<1>7. CASE ParserUnlock
  BY <1>7, UnlockFacts DEF ParserUnlock, Thread
<1>8. CASE Count
  BY <1>2, <1>8 DEF Count, Thread, Label
<1>9. ASSUME NEW r \in Reader, Start(r) \/ Enter(r) \/ Use(r)
      PROVE  Exclusive'
  BY <1>2, <1>9 DEF Start, Enter, Use, Thread, Label
<1>10. ASSUME NEW r \in Reader, Copy(r)
       PROVE  Exclusive'
  BY <1>10 DEF Copy, Exclusive, Inside, mutex
<1>11. ASSUME NEW r \in Reader, ReaderUnlock(r)
       PROVE  Exclusive'
  BY <1>11, UnlockFacts DEF ReaderUnlock, Thread
<1>12. CASE UNCHANGED vars
  BY <1>12 DEF vars, Exclusive, Inside
<1> QED
  BY <1>1, <1>3, <1>4, <1>5, <1>6, <1>7, <1>8, <1>9, <1>10, <1>11, <1>12
     DEF Next, ParserStep, ReaderStep, Thread

\* At most one thread is between lock and unlock.
THEOREM ExclusiveInvariant == Spec => []Exclusive
<1>1. Init => Exclusive
  BY EmptySeq DEF Init, Exclusive, Inside, Thread
<1> QED
  BY <1>1, TypeCorrect, ExclusiveStep, PTL DEF Spec
-----------------------------------------------------------------------------
\* Every cell of the store that is not waiting to be written is the cell of the
\* message its payload is from.
StoreOK ==
    /\ \A p \in Payload, c \in Cell :
          <<p, c>> \in todo[Parser] => p = tag /\ pc[Parser] = "inside"
    /\ \A p \in Payload, c \in Cell :
          <<p, c>> \notin todo[Parser] => data[p][c] = Whole(Contents[p])[c]
    /\ \A p \in Payload : Contents[p] <= arrived

LEMMA ContentsFacts ==
  ASSUME TypeOK
  PROVE  /\ Contents \in [Payload -> Message] /\ Message \subseteq Nat
         /\ Contents' = [p \in Payload |-> IF pc'[Parser] = "inside" /\ tag' = p
                                             THEN arrived' ELSE data'[p]["first"]]
  BY DEF Contents, TypeOK, Message, Cell

\* Steps that leave the store, and the parser inside or outside it, alone.
LEMMA StoreKept ==
  ASSUME TypeOK, StoreOK, UNCHANGED <<data, tag>>, arrived <= arrived', arrived' \in Message,
         todo'[Parser] = todo[Parser], pc'[Parser] = "inside" <=> pc[Parser] = "inside",
         pc[Parser] = "inside" => arrived' = arrived
  PROVE  StoreOK' /\ Contents' = Contents
<1>1. Contents' = Contents
  BY ContentsFacts DEF Contents
<1>2. \A p \in Payload : Contents[p] \in Nat /\ arrived \in Nat /\ arrived' \in Nat
  BY ContentsFacts DEF TypeOK, Message
<1> QED
  BY <1>1, <1>2 DEF StoreOK

\* The store stays well formed, and only the parser's switch changes what it
\* means, by putting the latest message in the place of its payload.
LEMMA StoreStep ==
  ASSUME TypeOK, TypeOK', Exclusive, StoreOK, [Next]_vars
  PROVE  /\ StoreOK'
         /\ \/ Contents' = Contents
            \/ /\ tag \in Payload
               /\ Contents' = [Contents EXCEPT ![tag] = arrived]
               /\ UNCHANGED <<arrived, snap>>
<1>t. Parser \in Thread /\ Parser \notin Reader /\ Reader \subseteq Thread
  BY DEF Thread
<1>m. /\ arrived \in Message /\ arrived' \in Message /\ Message \subseteq Nat
      /\ Contents \in [Payload -> Message]
  BY ContentsFacts DEF TypeOK
<1>1. ASSUME NEW t \in Thread, Lock(t)
      PROVE  StoreOK' /\ Contents' = Contents
  <2>1. pc'[Parser] = "inside" <=> pc[Parser] = "inside"
    BY <1>1, <1>t DEF Lock, TypeOK
  <2> QED
    BY <1>1, <1>m, <2>1, StoreKept DEF Lock
<1>2. CASE Undecodable
  <2>1. /\ arrived' = arrived + 1 /\ pc[Parser] = "idle"
        /\ UNCHANGED <<data, tag, todo, pc>>
    BY <1>2 DEF Undecodable
  <2>2. arrived <= arrived'
    BY <1>m, <2>1
  <2>3. StoreOK' /\ Contents' = Contents
    BY <1>m, <2>1, <2>2, StoreKept
  <2> QED
    BY <2>3
<1>3. CASE Decoded
  <2>1. /\ pc[Parser] = "idle" /\ pc'[Parser] = "lock"
        /\ data' = data /\ todo' = todo /\ arrived' = arrived + 1
    BY <1>3, <1>t DEF Decoded, TypeOK
  <2>2. Contents' = Contents
    BY <2>1, ContentsFacts DEF Contents
  <2>3. \A p \in Payload, c \in Cell : <<p, c>> \notin todo[Parser]
    BY <2>1 DEF StoreOK
  <2>4. \A p \in Payload : Contents[p] <= arrived'
    <3>1. \A p \in Payload : Contents[p] \in Nat /\ arrived \in Nat /\ Contents[p] <= arrived
      BY <1>m DEF StoreOK
    <3> QED
      BY <2>1, <3>1
  <2>5. StoreOK'
    BY <2>1, <2>2, <2>3, <2>4 DEF StoreOK
  <2> QED
    BY <2>2, <2>5
<1>4. CASE Switch
  <2>1. /\ pc[Parser] = "enter" /\ pc'[Parser] = "inside"
        /\ UNCHANGED <<data, tag, arrived, snap>>
        /\ todo'[Parser] = IF tag = Other THEN {} ELSE {tag} \X Cell
    BY <1>4, <1>t DEF Switch, TypeOK
  <2>2. \A p \in Payload : Contents'[p] = IF tag = p THEN arrived ELSE Contents[p]
    BY <2>1, ContentsFacts DEF Contents
  <2>3. \A p \in Payload, c \in Cell :
           <<p, c>> \in todo'[Parser] <=> p = tag
    BY <2>1
  <2>4. \A p \in Payload, c \in Cell : data[p][c] = Whole(Contents[p])[c]
    BY <2>1 DEF StoreOK
  <2>5. StoreOK'
    BY <1>m, <2>1, <2>2, <2>3, <2>4 DEF StoreOK
  <2>6. CASE tag \in Payload
    <3>1. Contents' = [Contents EXCEPT ![tag] = arrived]
      BY <2>2, <2>6, ContentsFacts
    <3> QED
      BY <2>1, <2>5, <2>6, <3>1
  <2>7. CASE tag \notin Payload
    <3>1. Contents' = Contents
      BY <2>2, <2>7, ContentsFacts
    <3> QED
      BY <2>5, <3>1
  <2> QED
    BY <2>6, <2>7
<1>5. CASE Write
  <2>1. PICK p \in Payload, c \in Cell :
           /\ <<p, c>> \in todo[Parser]
           /\ todo' = [todo EXCEPT ![Parser] = @ \ {<<p, c>>}]
           /\ data' = [data EXCEPT ![p][c] = Whole(arrived)[c]]
    BY <1>5 DEF Write
  <2>2. p = tag /\ pc[Parser] = "inside" /\ UNCHANGED <<pc, tag, arrived, snap>>
    BY <1>5, <2>1 DEF Write, StoreOK
  <2>3. /\ data'[p][c] = Whole(arrived)[c]
        /\ \A q \in Payload, e \in Cell : <<q, e>> # <<p, c>> => data'[q][e] = data[q][e]
        /\ todo'[Parser] = todo[Parser] \ {<<p, c>>}
    BY <1>t, <2>1 DEF TypeOK
  <2>4. \A q \in Payload : q # p => data'[q]["first"] = data[q]["first"]
    BY <2>3 DEF Cell
  <2>5. Contents' = Contents
    BY <2>2, <2>4, ContentsFacts DEF Contents
  <2>6. Contents[p] = arrived
    BY <2>2 DEF Contents
  <2>7. \A q \in Payload, e \in Cell :
           <<q, e>> \notin todo'[Parser] => data'[q][e] = Whole(Contents[q])[e]
    BY <2>3, <2>6 DEF StoreOK
  <2> QED
    BY <2>2, <2>3, <2>5, <2>7 DEF StoreOK
<1>6. CASE ParserUnlock
  <2>1. /\ pc[Parser] = "inside" /\ todo[Parser] = {}
        /\ UNCHANGED <<data, todo, tag, arrived>>
    BY <1>6 DEF ParserUnlock
  <2>2. pc'[Parser] = "count"
    BY <1>6, <1>t, UnlockFacts DEF ParserUnlock
  <2>3. \A p \in Payload : data[p]["first"] = Contents[p]
    <3>1. \A p \in Payload : data[p]["first"] = Whole(Contents[p])["first"]
      BY <2>1 DEF StoreOK, Cell
    <3> QED
      BY <3>1 DEF Whole, Cell
  <2>4. Contents' = Contents
    BY <2>1, <2>2, <2>3, ContentsFacts
  <2> QED
    BY <2>1, <2>2, <2>4 DEF StoreOK
<1>7. CASE Count
  <2>1. pc'[Parser] = "idle" /\ pc[Parser] = "count"
    BY <1>7, <1>t DEF Count, TypeOK
  <2> QED
    BY <1>7, <1>m, <2>1, StoreKept DEF Count
<1>8. ASSUME NEW r \in Reader, Start(r) \/ Enter(r) \/ Copy(r) \/ Use(r)
      PROVE  StoreOK' /\ Contents' = Contents
  <2>1. pc'[Parser] = pc[Parser] /\ todo'[Parser] = todo[Parser]
    BY <1>8, <1>t DEF Start, Enter, Copy, Use, TypeOK
  <2> QED
    BY <1>8, <1>m, <2>1, StoreKept DEF Start, Enter, Copy, Use
<1>9. ASSUME NEW r \in Reader, ReaderUnlock(r)
      PROVE  StoreOK' /\ Contents' = Contents
  <2>1. pc'[Parser] = "inside" <=> pc[Parser] = "inside"
    BY <1>9, <1>t, UnlockFacts DEF ReaderUnlock
  <2> QED
    BY <1>9, <1>m, <2>1, StoreKept DEF ReaderUnlock
<1>10. CASE UNCHANGED vars
  BY <1>10, <1>m, StoreKept DEF vars
<1> QED
  BY <1>1, <1>2, <1>3, <1>4, <1>5, <1>6, <1>7, <1>8, <1>9, <1>10, StoreKept
     DEF Next, ParserStep, ReaderStep, Thread

THEOREM StoreInvariant == Spec => []StoreOK
<1>1. Init => StoreOK
  <2> SUFFICES ASSUME Init PROVE StoreOK
    OBVIOUS
  <2>1. \A p \in Payload : data[p] = Whole(0) /\ data[p]["first"] = 0
    BY DEF Init, Zero, Whole, Cell
  <2>2. \A p \in Payload : Contents[p] = 0
    BY <2>1 DEF Init, Contents, Thread
  <2> QED
    BY <2>1, <2>2 DEF Init, StoreOK, Thread
<1>2. TypeOK /\ TypeOK' /\ Exclusive /\ StoreOK /\ [Next]_vars => StoreOK'
  BY StoreStep
<1> QED
  BY <1>1, <1>2, TypeCorrect, ExclusiveInvariant, PTL DEF Spec
-----------------------------------------------------------------------------
\* What a reader inside has copied so far is what the store holds, and no
\* snapshot is newer than the store.
CopyOK ==
    /\ \A r \in Reader, p \in Payload, c \in Cell :
          pc[r] = "inside" /\ <<p, c>> \notin todo[r] => d[r][p][c] = data[p][c]
    /\ \A r \in Reader, p \in Payload : snap[r][p] <= Contents[p]

\* The snapshot a reader comes out of the mutex with.
LEMMA ReaderUnlockFacts ==
  ASSUME TypeOK, Exclusive, StoreOK, CopyOK, NEW r \in Reader, ReaderUnlock(r)
  PROVE  /\ snap' = [snap EXCEPT ![r] = Contents]
         /\ \A p \in Payload : d'[r][p] = Whole(Contents[p])
         /\ Contents' = Contents
         /\ UNCHANGED <<data, todo, tag, d, arrived>>
         /\ pc'[r] = "use"
         /\ \A s \in Reader \ {r} : pc'[s] = pc[s] \/ pc'[s] = "enter"
<1>1. /\ pc[r] = "inside" /\ todo[r] = {} /\ r \in Thread /\ Parser \in Thread /\ r # Parser
      /\ Reader \subseteq Thread
      /\ UNCHANGED <<data, todo, tag, d, arrived>>
  BY DEF ReaderUnlock, Thread
<1>2. pc[Parser] # "inside"
  BY <1>1 DEF Exclusive, Inside
<1>3. \A p \in Payload, c \in Cell : <<p, c>> \notin todo[Parser]
  BY <1>2 DEF StoreOK
<1>4. ASSUME NEW p \in Payload, NEW c \in Cell
      PROVE  d[r][p][c] = Whole(Contents[p])[c]
  <2>1. d[r][p][c] = data[p][c]
    BY <1>1 DEF CopyOK
  <2>2. data[p][c] = Whole(Contents[p])[c]
    BY <1>3 DEF StoreOK
  <2> QED BY <2>1, <2>2
<1>5. ASSUME NEW p \in Payload
      PROVE  d[r][p] \in [Cell -> Message] /\ Whole(Contents[p]) \in [Cell -> Message]
  <2>1. d[r][p] \in [Cell -> Message]
    BY DEF TypeOK
  <2>2. Contents[p] \in Message
    BY ContentsFacts
  <2> QED
    BY <2>1, <2>2, WholeType
<1>6. ASSUME NEW p \in Payload PROVE d[r][p] = Whole(Contents[p])
  <2>1. /\ d[r][p] = [c \in Cell |-> d[r][p][c]]
        /\ Whole(Contents[p]) = [c \in Cell |-> Whole(Contents[p])[c]]
    BY <1>5
  <2> QED
    BY <1>4, <2>1
<1>7. Origin(d[r]) = Contents
  <2>1. \A p \in Payload : d[r][p]["first"] = Contents[p]
    <3>1. ASSUME NEW m PROVE Whole(m)["first"] = m
      BY DEF Whole, Cell
    <3> QED BY <1>6, <3>1
  <2> QED
    BY <2>1, ContentsFacts DEF Origin
<1>8. /\ pc'[r] = "use"
      /\ \A u \in Thread \ {r} : pc'[u] = pc[u] \/ pc'[u] = "enter"
  BY <1>1, UnlockFacts DEF ReaderUnlock
<1>9. Contents' = Contents
  <2>1. pc'[Parser] # "inside"
    BY <1>1, <1>2, <1>8
  <2> QED
    BY <1>1, <1>2, <2>1, ContentsFacts DEF Contents
<1> QED
  BY <1>1, <1>6, <1>7, <1>8, <1>9 DEF ReaderUnlock

\* A reader that comes to be inside by a step comes from "enter"; no step but
\* its own takes it to "use".
LEMMA ReaderLabels ==
  ASSUME TypeOK, Exclusive, [Next]_vars, NEW r \in Reader,
         ~(Start(r) \/ ReaderStep(r))
  PROVE  pc'[r] = pc[r] \/ (pc[r] = "blocked" /\ pc'[r] = "enter")
<1>1. r \in Thread /\ Parser \in Thread /\ r # Parser /\ Reader \subseteq Thread
  BY DEF Thread
<1>2. CASE Undecodable \/ Decoded \/ Lock(Parser) \/ Switch \/ Write \/ Count \/ UNCHANGED vars
  BY <1>1, <1>2 DEF Undecodable, Decoded, Lock, Switch, Write, Count, vars, TypeOK
<1>3. CASE ParserUnlock
  BY <1>1, <1>3, UnlockFacts DEF ParserUnlock
<1>4. ASSUME NEW s \in Reader, s # r, Lock(s) \/ Start(s) \/ Enter(s) \/ Copy(s) \/ Use(s)
      PROVE  pc'[r] = pc[r]
  BY <1>1, <1>4 DEF Lock, Start, Enter, Copy, Use, TypeOK
<1>5. ASSUME NEW s \in Reader, s # r, ReaderUnlock(s)
      PROVE  pc'[r] = pc[r] \/ (pc[r] = "blocked" /\ pc'[r] = "enter")
  BY <1>1, <1>5, UnlockFacts DEF ReaderUnlock
<1> QED
  BY <1>2, <1>3, <1>4, <1>5 DEF Next, ParserStep, ReaderStep

\* A copy is touched by its reader only, and the store by the parser only.
LEMMA Footprint ==
  ASSUME TypeOK, [Next]_vars, NEW r \in Reader, ~(Start(r) \/ ReaderStep(r))
  PROVE  d'[r] = d[r] /\ todo'[r] = todo[r] /\ snap'[r] = snap[r]
<1>1. r \in Thread /\ Parser \in Thread /\ r # Parser /\ Reader \subseteq Thread
  BY DEF Thread
<1>2. CASE Undecodable \/ Decoded \/ ParserStep \/ UNCHANGED vars
  BY <1>1, <1>2 DEF Undecodable, Decoded, ParserStep, Lock, Switch, Write, ParserUnlock,
                    Count, vars, TypeOK
<1>3. ASSUME NEW s \in Reader, s # r, Start(s) \/ ReaderStep(s)
      PROVE  d'[r] = d[r] /\ todo'[r] = todo[r] /\ snap'[r] = snap[r]
  BY <1>1, <1>3 DEF ReaderStep, Start, Lock, Enter, Copy, ReaderUnlock, Use, TypeOK
<1> QED
  BY <1>2, <1>3 DEF Next

\* Time moves forward for the store.
LEMMA ContentsGrow ==
  ASSUME TypeOK, TypeOK', Exclusive, StoreOK, [Next]_vars, NEW p \in Payload
  PROVE  Contents[p] \in Nat /\ Contents'[p] \in Nat /\ Contents[p] <= Contents'[p]
<1>1. Contents[p] \in Nat /\ arrived \in Nat /\ Contents[p] <= arrived
  BY ContentsFacts DEF StoreOK, TypeOK, Message
<1>2. Contents'[p] = Contents[p] \/ Contents'[p] = arrived
  BY StoreStep, ContentsFacts
<1> QED
  BY <1>1, <1>2

\* A step that changes a snapshot is a reader coming out of the mutex.
LEMMA SnapFacts ==
  ASSUME TypeOK, Exclusive, StoreOK, CopyOK, [Next]_vars
  PROVE  \/ snap' = snap
         \/ \E r \in Reader : /\ snap' = [snap EXCEPT ![r] = Contents]
                              /\ Contents' = Contents /\ arrived' = arrived
<1>1. CASE \E r \in Reader : ReaderUnlock(r)
  BY <1>1, ReaderUnlockFacts
<1>2. CASE ~ \E r \in Reader : ReaderUnlock(r)
  BY <1>2 DEF Next, Undecodable, Decoded, ParserStep, ReaderStep, Lock, Switch, Write,
              ParserUnlock, Count, Start, Enter, Copy, Use, vars
<1> QED
  BY <1>1, <1>2

LEMMA CopyStep ==
  ASSUME TypeOK, TypeOK', Exclusive, StoreOK, CopyOK, [Next]_vars
  PROVE  CopyOK'
<1>1. ASSUME NEW r \in Reader, NEW p \in Payload PROVE snap'[r][p] <= Contents'[p]
  <2>1. /\ snap[r][p] \in Nat /\ snap[r][p] <= Contents[p]
        /\ Contents[p] \in Nat /\ Contents'[p] \in Nat /\ Contents[p] <= Contents'[p]
    <3>1. snap[r][p] \in Nat /\ snap[r][p] <= Contents[p]
      BY DEF CopyOK, TypeOK, Message
    <3> QED
      BY <3>1, ContentsGrow
  <2>2. snap'[r][p] = snap[r][p] \/ snap'[r][p] = Contents[p]
    BY SnapFacts DEF TypeOK
  <2> QED
    BY <2>1, <2>2
<1>2. ASSUME NEW r \in Reader, NEW p \in Payload, NEW c \in Cell,
             pc'[r] = "inside", <<p, c>> \notin todo'[r]
      PROVE  d'[r][p][c] = data'[p][c]
  <2>t. r \in Thread /\ Parser \in Thread /\ r # Parser /\ Reader \subseteq Thread
    BY DEF Thread
  <2>1. CASE Start(r) \/ Lock(r) \/ Use(r)
    BY <1>2, <2>t, <2>1 DEF Start, Lock, Use, TypeOK
  <2>2. CASE Enter(r)
    BY <1>2, <2>t, <2>2 DEF Enter, TypeOK
  <2>3. CASE ReaderUnlock(r)
    BY <1>2, <2>3, ReaderUnlockFacts
  <2>4. CASE Copy(r)
    <3>1. PICK q \in Payload, e \in Cell :
             /\ todo' = [todo EXCEPT ![r] = @ \ {<<q, e>>}]
             /\ d' = [d EXCEPT ![r][q][e] = data[q][e]]
      BY <2>4 DEF Copy
    <3>2. pc[r] = "inside" /\ data' = data
      BY <2>4 DEF Copy
    <3>3. CASE <<p, c>> = <<q, e>>
      BY <3>1, <3>2, <3>3 DEF TypeOK
    <3>4. CASE <<p, c>> # <<q, e>>
      <4>1. <<p, c>> \notin todo[r] /\ d'[r][p][c] = d[r][p][c]
        BY <1>2, <2>t, <3>1, <3>4 DEF TypeOK
      <4> QED
        BY <3>2, <4>1 DEF CopyOK
    <3> QED
      BY <3>3, <3>4
  <2>5. CASE ~(Start(r) \/ ReaderStep(r))
    <3>1. pc[r] = "inside"
      BY <1>2, <2>5, ReaderLabels
    <3>2. pc[Parser] # "inside"
      BY <2>t, <3>1 DEF Exclusive, Inside
    <3>3. data' = data
      BY <3>2 DEF Next, Undecodable, Decoded, ParserStep, ReaderStep, Lock, Switch, Write,
                  ParserUnlock, Count, Start, Enter, Copy, ReaderUnlock, Use, vars
    <3> QED
      BY <1>2, <2>5, <3>1, <3>3, Footprint DEF CopyOK
  <2> QED
    BY <2>1, <2>2, <2>3, <2>4, <2>5 DEF ReaderStep
<1> QED
  BY <1>1, <1>2 DEF CopyOK

THEOREM CopyInvariant == Spec => []CopyOK
<1>1. Init => CopyOK
  <2> SUFFICES ASSUME Init PROVE CopyOK
    OBVIOUS
  <2>1. \A p \in Payload : Contents[p] = 0
    BY DEF Init, Contents, Zero, Whole, Cell, Thread
  <2> QED
    BY <2>1 DEF Init, CopyOK, Thread
<1>2. TypeOK /\ TypeOK' /\ Exclusive /\ StoreOK /\ CopyOK /\ [Next]_vars => CopyOK'
  BY CopyStep
<1> QED
  BY <1>1, <1>2, TypeCorrect, ExclusiveInvariant, StoreInvariant, PTL DEF Spec
-----------------------------------------------------------------------------
\* No reader ever uses a payload that mixes two messages, or a message with the
\* initial zeroes.
THEOREM WholeSnapshotCorrect == Spec => []WholeSnapshot
<1>1. Init => WholeSnapshot
  BY DEF Init, WholeSnapshot, Thread
<1>2. TypeOK /\ Exclusive /\ StoreOK /\ CopyOK /\ WholeSnapshot /\ [Next]_vars => WholeSnapshot'
  <2> SUFFICES ASSUME TypeOK, Exclusive, StoreOK, CopyOK, WholeSnapshot, [Next]_vars,
                      NEW r \in Reader, pc'[r] = "use", NEW p \in Payload
               PROVE  d'[r][p] = Whole(snap'[r][p])
    BY DEF WholeSnapshot
  <2>t. r \in Thread
    BY DEF Thread
  <2>1. CASE Start(r) \/ Lock(r) \/ Enter(r) \/ Copy(r) \/ Use(r)
    BY <2>t, <2>1 DEF Start, Lock, Enter, Copy, Use, TypeOK
  <2>2. CASE ReaderUnlock(r)
    BY <2>2, ReaderUnlockFacts DEF TypeOK
  <2>3. CASE ~(Start(r) \/ ReaderStep(r))
    BY <2>3, ReaderLabels, Footprint DEF WholeSnapshot
  <2> QED
    BY <2>1, <2>2, <2>3 DEF ReaderStep
<1> QED
  BY <1>1, <1>2, TypeCorrect, ExclusiveInvariant, StoreInvariant, CopyInvariant, PTL DEF Spec

\* Snapshots of different threads are ordered, as if taken one after another.
THEOREM SnapshotsOrderedCorrect == Spec => []SnapshotsOrdered
<1>1. Init => SnapshotsOrdered
  BY DEF Init, SnapshotsOrdered
<1>2. TypeOK /\ Exclusive /\ StoreOK /\ CopyOK /\ SnapshotsOrdered /\ [Next]_vars
        => SnapshotsOrdered'
  <2> SUFFICES ASSUME TypeOK, Exclusive, StoreOK, CopyOK, SnapshotsOrdered, [Next]_vars
               PROVE  SnapshotsOrdered'
    OBVIOUS
  <2>1. CASE snap' = snap
    BY <2>1 DEF SnapshotsOrdered
  <2>2. ASSUME NEW r \in Reader, snap' = [snap EXCEPT ![r] = Contents]
        PROVE  SnapshotsOrdered'
    <3>1. snap'[r] = Contents /\ \A s \in Reader \ {r} : snap'[s] = snap[s]
      BY <2>2 DEF TypeOK
    <3>2. \A s \in Reader, p \in Payload : snap[s][p] <= Contents[p] /\ Contents[p] <= Contents[p]
      BY ContentsFacts DEF CopyOK
    <3> QED
      BY <3>1, <3>2 DEF SnapshotsOrdered
  <2> QED
    BY <2>1, <2>2, SnapFacts
<1> QED
  BY <1>1, <1>2, TypeCorrect, ExclusiveInvariant, StoreInvariant, CopyInvariant, PTL DEF Spec

\* What a thread sees of a payload never goes back to an earlier message.
THEOREM NeverBackCorrect == Spec => NeverBack
<1> DEFINE Forward == \A r \in Reader, p \in Payload : snap[r][p] <= snap'[r][p]
<1>1. TypeOK /\ Exclusive /\ StoreOK /\ CopyOK /\ [Next]_vars => [Forward]_vars
  <2> SUFFICES ASSUME TypeOK, Exclusive, StoreOK, CopyOK, [Next]_vars,
                      NEW r \in Reader, NEW p \in Payload
               PROVE  snap[r][p] <= snap'[r][p]
    OBVIOUS
  <2>1. snap[r][p] \in Nat /\ snap[r][p] <= Contents[p]
    BY DEF CopyOK, TypeOK, Message
  <2>2. snap'[r][p] = snap[r][p] \/ snap'[r][p] = Contents[p]
    BY SnapFacts DEF TypeOK
  <2> QED
    BY <2>1, <2>2
<1> QED
  BY <1>1, TypeCorrect, ExclusiveInvariant, StoreInvariant, CopyInvariant, PTL
     DEF Spec, NeverBack

\* The shared data behaves as one atomic store.
THEOREM RefinesCorrect == Spec => Refines
<1>1. Init => Store!Init
  <2> SUFFICES ASSUME Init PROVE Store!Init
    OBVIOUS
  <2>1. Contents = [p \in Payload |-> 0]
    BY DEF Init, Contents, Zero, Whole, Cell, Thread
  <2> QED
    BY <2>1 DEF Init, Store!Init
<1>2. TypeOK /\ TypeOK' /\ Exclusive /\ StoreOK /\ CopyOK /\ [Next]_vars
        => [Store!Next]_(Store!vars)
  <2> SUFFICES ASSUME TypeOK, TypeOK', Exclusive, StoreOK, CopyOK, [Next]_vars
               PROVE  [Store!Next]_(Store!vars)
    OBVIOUS
  <2>1. CASE Undecodable \/ Decoded
    <3>1. /\ pc[Parser] # "inside" /\ pc'[Parser] # "inside"
          /\ data' = data /\ snap' = snap /\ arrived' = arrived + 1
      BY <2>1 DEF Undecodable, Decoded, TypeOK, Thread
    <3>2. Contents' = Contents
      BY <3>1, ContentsFacts DEF Contents
    <3> QED
      BY <3>1, <3>2 DEF Store!Next, Store!Arrive
  <2>2. CASE ~(Undecodable \/ Decoded)
    <3>1. arrived' = arrived
      BY <2>2 DEF Next, ParserStep, ReaderStep, Lock, Switch, Write, ParserUnlock, Count,
                  Start, Enter, Copy, ReaderUnlock, Use, vars
    <3>2. CASE snap' = snap /\ Contents' = Contents
      BY <3>1, <3>2 DEF Store!vars
    <3>3. CASE /\ tag \in Payload /\ snap' = snap
               /\ Contents' = [Contents EXCEPT ![tag] = arrived]
      BY <3>1, <3>3 DEF Store!Next, Store!Put
    <3>4. CASE /\ Contents' = Contents
               /\ \E r \in Reader : snap' = [snap EXCEPT ![r] = Contents]
      BY <3>1, <3>4 DEF Store!Next, Store!Snapshot
    <3> QED
      BY <3>2, <3>3, <3>4, StoreStep, SnapFacts
  <2> QED
    BY <2>1, <2>2
<1> QED
  BY <1>1, <1>2, TypeCorrect, ExclusiveInvariant, StoreInvariant, CopyInvariant, PTL
     DEF Spec, Refines, Store!Spec
-----------------------------------------------------------------------------
(* Progress: what weak fairness of the owner gives those that wait.          *)

\* Who waits, waits for somebody: no thread sleeps before a free mutex.
Served == waiters # << >> => owner # NoThread

Cells == Cardinality(Payload \X Cell)

\* An upper bound of the steps a thread has still to take inside.
Work(t) == IF pc[t] = "enter" THEN Cells + 2 ELSE Cardinality(todo[t]) + 1

\* Where a thread stands in a queue, and the steps before it has the mutex.
Turn(q, t) == CHOOSE i \in 1 .. Len(q) : q[i] = t
Ahead(t) == Turn(waiters, t) * (Cells + 2) + Work(owner)

Queued(t) == \E i \in 1 .. Len(waiters) : waiters[i] = t
Behind(t, o, n) == Queued(t) /\ owner = o /\ Ahead(t) = n
Closer(t, n) == Queued(t) => Ahead(t) < n

Step(o) == IF o = Parser THEN ParserStep ELSE ReaderStep(o)

LEMMA ServedStep ==
  ASSUME TypeOK, Exclusive, Served, [Next]_vars
  PROVE  Served'
<1>0. NoThread \notin Thread
  BY DEF Thread
<1>1. ASSUME NEW t \in Thread, Lock(t) PROVE Served'
  BY <1>0, <1>1 DEF Lock, Served
<1>2. ASSUME NEW t \in Thread, NEW next \in Label, Unlock(t, next) PROVE Served'
  <2>1. CASE waiters = << >>
    BY <1>2, <2>1 DEF Unlock, Served
  <2>2. CASE waiters # << >>
    <3>1. Head(waiters) \in Thread
      BY <2>2, HeadTailProperties DEF TypeOK
    <3> QED BY <1>0, <1>2, <2>2, <3>1 DEF Unlock, Served
  <2> QED BY <2>1, <2>2
<1>3. CASE UNCHANGED mutex
  BY <1>3 DEF mutex, Served
<1> QED
  BY <1>1, <1>2, <1>3
     DEF Next, vars, mutex, ParserStep, ReaderStep, Undecodable, Decoded, Switch, Write, ParserUnlock,
         Count, Start, Enter, Copy, ReaderUnlock, Use, Thread, Label

LEMMA CellsFacts ==
  /\ IsFiniteSet(Payload \X Cell) /\ Cells \in Nat
  /\ \A S \in SUBSET (Payload \X Cell) :
        IsFiniteSet(S) /\ Cardinality(S) \in Nat /\ Cardinality(S) <= Cells
<1>1. IsFiniteSet(Cell)
  <2>1. IsFiniteSet({"first"}) /\ IsFiniteSet({"last"}) /\ IsFiniteSet({"valid"})
    BY FS_Singleton
  <2>2. Cell = ({"first"} \cup {"last"}) \cup {"valid"}
    BY DEF Cell
  <2>3. IsFiniteSet({"first"} \cup {"last"})
    BY <2>1, FS_Union
  <2> QED BY <2>1, <2>2, <2>3, FS_Union
<1>2. IsFiniteSet(Payload \X Cell)
  BY <1>1, PayloadAssumption, FS_Product
<1>3. Cells \in Nat
  BY <1>2, FS_CardinalityType DEF Cells
<1>4. ASSUME NEW S \in SUBSET (Payload \X Cell)
      PROVE  IsFiniteSet(S) /\ Cardinality(S) \in Nat /\ Cardinality(S) <= Cells
  <2>1. IsFiniteSet(S) /\ Cardinality(S) <= Cells
    BY <1>2, FS_Subset DEF Cells
  <2> QED BY <2>1, FS_CardinalityType
<1> QED BY <1>2, <1>3, <1>4

LEMMA TurnIs ==
  ASSUME NEW q, NEW t, NEW i \in 1 .. Len(q), q[i] = t,
         \A j, k \in 1 .. Len(q) : q[j] = q[k] => j = k
  PROVE  Turn(q, t) = i
  BY DEF Turn

\* Numbers: one slot is worth more than what is left to do inside.
LEMMA Nearer ==
  ASSUME NEW c \in Nat, NEW i \in Nat, NEW w \in Nat, NEW v \in Nat
  PROVE  /\ i * (c + 2) + w \in Nat
         /\ v < w => i * (c + 2) + v < i * (c + 2) + w
         /\ i >= 1 /\ 1 <= w => (i - 1) * (c + 2) + (c + 2) < i * (c + 2) + w
<1>1. i * (c + 2) \in Nat /\ (i - 1) * (c + 2) = i * (c + 2) - (c + 2)
  OBVIOUS
<1> QED BY <1>1

\* A step that does not concern a waiting thread or the owner.
LEMMA NotConcerned ==
  ASSUME TypeOK, TypeOK', Exclusive, Exclusive', NEW t \in Thread, NEW o \in Thread, NEW n \in Nat,
         Behind(t, o, n), owner' = owner, pc'[o] = pc[o], todo'[o] = todo[o],
         waiters' = waiters \/ \E s \in Thread : waiters' = Append(waiters, s)
  PROVE  Behind(t, o, n)'
<1>1. PICK i \in 1 .. Len(waiters) : waiters[i] = t
  BY DEF Behind, Queued
<1>2. i \in 1 .. Len(waiters') /\ waiters'[i] = t
  <2>1. CASE waiters' = waiters
    BY <1>1, <2>1
  <2>2. ASSUME NEW s \in Thread, waiters' = Append(waiters, s)
        PROVE  i \in 1 .. Len(waiters') /\ waiters'[i] = t
    <3>1. /\ Len(waiters') = Len(waiters) + 1 /\ waiters'[i] = waiters[i]
      BY <1>1, <2>2, AppendProperties DEF TypeOK
    <3> QED BY <1>1, <3>1, WaitersFacts
  <2> QED BY <2>1, <2>2
<1>3. Turn(waiters, t) = i
  BY <1>1, TurnIs DEF Exclusive
<1>4. Turn(waiters', t) = i
  BY <1>2, TurnIs DEF Exclusive
<1>5. Work(o)' = Work(o)
  BY DEF Work, Cells
<1>6. Cells' = Cells
  BY DEF Cells
<1>7. owner' = o /\ owner = o
  BY DEF Behind
<1> QED BY <1>2, <1>3, <1>4, <1>5, <1>6, <1>7 DEF Behind, Queued, Ahead, Work

\* Behind a thread that waits stands an owner with work left, and the mutex is a
\* number of steps away.
LEMMA BehindFacts ==
  ASSUME TypeOK, Exclusive, NEW t \in Thread, NEW o \in Thread, NEW n \in Nat, Behind(t, o, n)
  PROVE  /\ owner = o /\ Inside(o) /\ pc[t] = "blocked" /\ t # o
         /\ Work(o) \in Nat /\ Work(o) >= 1
         /\ \E i \in 1 .. Len(waiters) : waiters[i] = t /\ n = i * (Cells + 2) + Work(o)
<1>1. PICK i \in 1 .. Len(waiters) : waiters[i] = t
  BY DEF Behind, Queued
<1>2. owner = o /\ Inside(o) /\ pc[t] = "blocked" /\ t # o
  BY <1>1 DEF Behind, Exclusive, Inside
<1>3. Turn(waiters, t) = i
  BY <1>1, TurnIs DEF Exclusive
<1>4. Cells \in Nat /\ Cardinality(todo[o]) \in Nat
  BY CellsFacts DEF TypeOK
<1>5. Work(o) \in Nat /\ Work(o) >= 1
  BY <1>4 DEF Work
<1> QED BY <1>1, <1>2, <1>3, <1>5 DEF Behind, Ahead

\* The owner works off a part of what it has to do inside.
LEMMA WorkedOff ==
  ASSUME TypeOK, TypeOK', Exclusive, Exclusive', NEW t \in Thread, NEW o \in Thread, NEW n \in Nat,
         Behind(t, o, n), UNCHANGED mutex, Work(o)' \in Nat, Work(o)' < Work(o)
  PROVE  Closer(t, n)'
<1>0. Cells \in Nat /\ Cells' = Cells
  BY CellsFacts DEF Cells
<1>1. PICK i \in 1 .. Len(waiters) : waiters[i] = t /\ n = i * (Cells + 2) + Work(o)
  BY BehindFacts
<1>2. owner = o /\ owner' = o /\ waiters' = waiters /\ Work(o) \in Nat
  BY BehindFacts DEF mutex
<1>3. Turn(waiters', t) = i
  BY <1>1, <1>2, TurnIs DEF Exclusive
<1>4. Ahead(t)' = i * (Cells + 2) + Work(o)'
  BY <1>0, <1>2, <1>3 DEF Ahead, Work
<1>5. i \in Nat
  BY WaitersFacts
<1>6. Ahead(t)' < n
  BY <1>0, <1>1, <1>2, <1>4, <1>5, Nearer
<1> QED BY <1>6 DEF Closer

\* The owner hands the mutex to the thread at the front.
LEMMA HandedOn ==
  ASSUME TypeOK, TypeOK', Exclusive, Exclusive', NEW t \in Thread, NEW o \in Thread, NEW n \in Nat,
         Behind(t, o, n), NEW next \in {"count", "use"}, Unlock(o, next)
  PROVE  Closer(t, n)'
<1>0. Cells \in Nat /\ Cells' = Cells
  BY CellsFacts DEF Cells
<1>1. PICK i \in 1 .. Len(waiters) : waiters[i] = t /\ n = i * (Cells + 2) + Work(o)
  BY BehindFacts
<1>2. Work(o) \in Nat /\ Work(o) >= 1 /\ i \in Nat /\ i >= 1
  BY BehindFacts, WaitersFacts
<1>3. waiters # << >>
  BY <1>1, EmptySeq
<1>4. PICK h \in Thread : /\ h = waiters[1] /\ h # o
                          /\ owner' = h /\ waiters' = Tail(waiters) /\ pc'[h] = "enter"
  <2>1. Head(waiters) = waiters[1] /\ Head(waiters) \in Thread /\ 1 \in 1 .. Len(waiters)
    BY <1>3, WaitersFacts
  <2>2. Head(waiters) # o
    BY <2>1, BehindFacts DEF Exclusive, Inside
  <2> QED BY <1>3, <2>1, <2>2 DEF Unlock, TypeOK
<1>5. Work(h)' = Cells + 2
  BY <1>0, <1>4 DEF Work
<1>6. CASE i = 1
  <2>1. ~Queued(t)'
    <3> SUFFICES ASSUME NEW j \in 1 .. Len(waiters'), waiters'[j] = t PROVE FALSE
      BY DEF Queued
    <3>1. j + 1 \in 1 .. Len(waiters) /\ waiters[j + 1] = t
      BY <1>3, <1>4, WaitersFacts
    <3>2. j + 1 = i
      BY <1>1, <3>1 DEF Exclusive
    <3> QED BY <1>6, <3>2
  <2> QED BY <2>1 DEF Closer
<1>7. CASE i # 1
  <2>1. i - 1 \in 1 .. Len(waiters') /\ waiters'[i - 1] = t
    BY <1>1, <1>2, <1>3, <1>4, <1>7, WaitersFacts
  <2>2. Turn(waiters', t) = i - 1
    BY <2>1, TurnIs DEF Exclusive
  <2>3. Ahead(t)' = (i - 1) * (Cells + 2) + (Cells + 2)
    BY <1>0, <1>4, <1>5, <2>2 DEF Ahead, Work
  <2>4. Ahead(t)' < n
    BY <1>0, <1>1, <1>2, <2>3, Nearer
  <2> QED BY <2>4 DEF Closer
<1> QED BY <1>6, <1>7

\* A step of another thread than the owner leaves a waiting thread where it is.
LEMMA OthersStep ==
  ASSUME TypeOK, TypeOK', Exclusive, Exclusive', NEW t \in Thread, NEW o \in Thread, NEW n \in Nat,
         Behind(t, o, n), [Next]_vars, ~Step(o)
  PROVE  Behind(t, o, n)'
<1>0. /\ owner = o /\ pc[o] \in {"enter", "inside"}
      /\ \A s \in Thread \ {o} : pc[s] \notin {"enter", "inside"}
      /\ Parser \in Thread /\ Reader \subseteq Thread /\ Parser \notin Reader
      /\ NoThread \notin Thread
  BY BehindFacts DEF Exclusive, Inside, Thread
<1>1. ASSUME NEW s \in Thread, Lock(s) PROVE Behind(t, o, n)'
  <2>1. /\ s # o /\ owner' = owner /\ pc'[o] = pc[o] /\ todo' = todo
        /\ waiters' = Append(waiters, s)
    BY <1>0, <1>1 DEF Lock, TypeOK
  <2> QED BY <2>1, NotConcerned
<1>2. ASSUME NEW s \in Thread, NEW to \in Label, pc[s] \in {"idle", "count", "use"},
             pc' = [pc EXCEPT ![s] = to], UNCHANGED <<mutex, todo>>
      PROVE  Behind(t, o, n)'
  BY <1>0, <1>2, NotConcerned DEF mutex, TypeOK
<1>3. CASE Undecodable \/ UNCHANGED vars
  BY <1>3, NotConcerned DEF Undecodable, vars, mutex
<1>4. CASE Decoded
  BY <1>0, <1>2, <1>4 DEF Decoded, Label
<1>5. CASE ParserStep
  <2>1. o # Parser
    BY <1>5 DEF Step
  <2>2. ~Switch /\ ~Write /\ ~ParserUnlock
    BY <1>0, <2>1 DEF Switch, Write, ParserUnlock
  <2>3. CASE Count
    BY <1>0, <1>2, <2>3 DEF Count, Label
  <2> QED BY <1>0, <1>1, <1>5, <2>2, <2>3 DEF ParserStep
<1>6. ASSUME NEW r \in Reader, Start(r) PROVE Behind(t, o, n)'
  BY <1>0, <1>2, <1>6 DEF Start, Label
<1>7. ASSUME NEW r \in Reader, ReaderStep(r) PROVE Behind(t, o, n)'
  <2>1. o # r
    BY <1>0, <1>7 DEF Step
  <2>2. ~Enter(r) /\ ~Copy(r) /\ ~ReaderUnlock(r)
    BY <1>0, <2>1 DEF Enter, Copy, ReaderUnlock
  <2>3. CASE Use(r)
    BY <1>0, <1>2, <2>3 DEF Use, Label
  <2> QED BY <1>0, <1>1, <1>7, <2>2, <2>3 DEF ReaderStep
<1> QED BY <1>3, <1>4, <1>5, <1>6, <1>7 DEF Next

\* A step of the owner brings every waiting thread nearer to the mutex.
LEMMA OwnerStep ==
  ASSUME TypeOK, TypeOK', Exclusive, Exclusive', NEW t \in Thread, NEW o \in Thread, NEW n \in Nat,
         Behind(t, o, n), Step(o)
  PROVE  Closer(t, n)'
<1>0. /\ owner = o /\ pc[o] \in {"enter", "inside"}
      /\ Parser \in Thread /\ Reader \subseteq Thread /\ Parser \notin Reader
      /\ Cells \in Nat /\ Cells' = Cells
  BY BehindFacts, CellsFacts DEF Inside, Thread, Cells
\* It sets out.
<1>1. ASSUME NEW S \in SUBSET (Payload \X Cell), pc[o] = "enter", UNCHANGED mutex,
             pc' = [pc EXCEPT ![o] = "inside"], todo' = [todo EXCEPT ![o] = S]
      PROVE  Closer(t, n)'
  <2>1. pc'[o] = "inside" /\ todo'[o] = S
    BY <1>1 DEF TypeOK
  <2>2. Cardinality(S) \in Nat /\ Cardinality(S) <= Cells
    BY CellsFacts
  <2>3. Work(o) = Cells + 2 /\ Work(o)' = Cardinality(S) + 1
    BY <1>0, <1>1, <2>1 DEF Work
  <2> QED BY <1>0, <1>1, <2>2, <2>3, WorkedOff
\* It writes or copies a cell.
<1>2. ASSUME NEW e \in todo[o], pc[o] = "inside", UNCHANGED <<mutex, pc>>,
             todo' = [todo EXCEPT ![o] = @ \ {e}]
      PROVE  Closer(t, n)'
  <2>1. todo[o] \in SUBSET (Payload \X Cell) /\ todo'[o] = todo[o] \ {e}
    BY <1>2 DEF TypeOK
  <2>2. IsFiniteSet(todo[o]) /\ Cardinality(todo[o]) \in Nat /\ Cardinality(todo'[o]) \in Nat
    BY <2>1, CellsFacts DEF TypeOK
  <2>3. Cardinality(todo'[o]) = Cardinality(todo[o]) - 1
    BY <2>1, <2>2, FS_RemoveElement
  <2>4. Work(o) = Cardinality(todo[o]) + 1 /\ Work(o)' = Cardinality(todo'[o]) + 1
    BY <1>2 DEF Work
  <2> QED BY <1>2, <2>2, <2>3, <2>4, WorkedOff DEF mutex
<1>3. CASE o = Parser
  <2>1. CASE Switch
    <3>1. (IF tag = Other THEN {} ELSE {tag} \X Cell) \in SUBSET (Payload \X Cell)
      BY DEF TypeOK
    <3> QED BY <1>1, <1>3, <2>1, <3>1 DEF Switch
  <2>2. CASE Write
    <3>1. PICK p \in Payload, c \in Cell : /\ <<p, c>> \in todo[o]
                                           /\ todo' = [todo EXCEPT ![o] = @ \ {<<p, c>>}]
      BY <1>3, <2>2 DEF Write
    <3> QED BY <1>2, <1>3, <2>2, <3>1 DEF Write
  <2>3. CASE ParserUnlock
    BY <1>3, <2>3, HandedOn DEF ParserUnlock
  <2>4. ~Lock(Parser) /\ ~Count
    BY <1>0, <1>3 DEF Lock, Count
  <2> QED BY <1>3, <2>1, <2>2, <2>3, <2>4 DEF Step, ParserStep
<1>4. CASE o \in Reader
  <2>1. CASE Enter(o)
    BY <1>1, <2>1 DEF Enter
  <2>2. CASE Copy(o)
    <3>1. PICK p \in Payload, c \in Cell : /\ <<p, c>> \in todo[o]
                                           /\ todo' = [todo EXCEPT ![o] = @ \ {<<p, c>>}]
      BY <2>2 DEF Copy
    <3> QED BY <1>2, <2>2, <3>1 DEF Copy
  <2>3. CASE ReaderUnlock(o)
    BY <2>3, HandedOn DEF ReaderUnlock
  <2>4. ~Lock(o) /\ ~Use(o)
    BY <1>0 DEF Lock, Use
  <2> QED BY <1>0, <1>4, <2>1, <2>2, <2>3, <2>4 DEF Step, ReaderStep
<1> QED BY <1>3, <1>4 DEF Thread

\* Whoever owns the mutex can take a step.
OwnerEnabled(o) == owner = o => ENABLED <<Step(o)>>_vars

\* No thread waits for a free mutex: k_mutex_unlock hands it on.
THEOREM ServedInvariant == Spec => []Served
<1>1. Init => Served
  BY DEF Init, Served
<1> QED BY <1>1, ServedStep, TypeCorrect, ExclusiveInvariant, PTL DEF Spec

\* However far from the mutex a waiting thread is, with any thread as its owner, at
\* some time it is nearer or has it, if that owner runs.  FairSpec has this fairness of
\* every thread.  (LockGranted follows, since a distance cannot fall for ever.)
THEOREM WaitersAdvance ==
  ASSUME NEW t \in Thread, NEW o \in Thread, NEW n \in Nat
  PROVE  Spec /\ WF_vars(Step(o)) /\ []OwnerEnabled(o) => (Behind(t, o, n) ~> Closer(t, n))
<1>1. TypeOK /\ TypeOK' /\ Exclusive /\ Exclusive' /\ Behind(t, o, n) /\ [Next]_vars
         => Behind(t, o, n)' \/ Closer(t, n)'
  BY OthersStep, OwnerStep
<1>2. TypeOK /\ TypeOK' /\ Exclusive /\ Exclusive' /\ Behind(t, o, n) /\ <<Next /\ Step(o)>>_vars
         => Closer(t, n)'
  BY OwnerStep
<1>3. Behind(t, o, n) => owner = o
  BY DEF Behind
<1> QED BY <1>1, <1>2, <1>3, TypeCorrect, ExclusiveInvariant, PTL DEF Spec, OwnerEnabled
=============================================================================
