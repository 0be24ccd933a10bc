---------------------------- MODULE CanTxProofs ----------------------------
(***************************************************************************)
(* Proofs about the CAN transmit path, for every queue depth, number of    *)
(* transmit buffers, frames and hand-overs.                                *)
(*                                                                         *)
(* Four invariants carry everything.  TypeOK is inductive by itself.  Line *)
(* says that frames stand in line in the order they were offered: those    *)
(* handed over, the one in the thread's local frame, those queued.  Past   *)
(* says that the controller and the thread speak only of hand-overs that   *)
(* have been made.  Token says what a token of can_tx_done_sem is worth.   *)
(***************************************************************************)
EXTENDS CanTx, SequenceTheorems, FiniteSetTheorems, TLAPS

USE DepthAssumption, MailboxesAssumption, BoundsAssumption
-----------------------------------------------------------------------------
\* What can_send does to the record of hand-overs.
LEMMA HandFacts ==
  ASSUME TypeOK, SendAccepted
  PROVE  /\ Len(handed) \in Nat
         /\ handed' \in Seq(Frame \cup {NoFrame})
         /\ Len(handed') = Len(handed) + 1
         /\ Len(handed') \in HandOver
         /\ handed' # << >>
         /\ \A h \in 1 .. Len(handed) : handed'[h] = handed[h]
         /\ handed'[Len(handed) + 1] = frame
         /\ Handed' = Handed \cup {frame}
<1>1. /\ handed \in Seq(Frame \cup {NoFrame}) /\ frame \in Frame \cup {NoFrame}
      /\ handed' = Append(handed, frame) /\ Len(handed) < MaxHandOvers
      /\ Len(handed) \in Nat
  BY LenProperties DEF TypeOK, SendAccepted
<1>2. /\ handed' \in Seq(Frame \cup {NoFrame})
      /\ Len(handed') = Len(handed) + 1
      /\ \A h \in 1 .. Len(handed) : handed'[h] = handed[h]
      /\ handed'[Len(handed) + 1] = frame
      /\ handed' # << >>
  BY <1>1, AppendProperties
<1>3. Len(handed') \in HandOver
  BY <1>1, <1>2 DEF HandOver
<1>4. Handed' = Handed \cup {frame}
  <2>1. DOMAIN handed = 1 .. Len(handed) /\ DOMAIN handed' = 1 .. Len(handed) + 1
    BY <1>1, <1>2, LenProperties
  <2>2. 1 .. Len(handed) + 1 = (1 .. Len(handed)) \cup {Len(handed) + 1}
    BY <1>1
  <2> QED
    BY <1>2, <2>1, <2>2 DEF Handed
<1> QED
  BY <1>1, <1>2, <1>3, <1>4

\* Every reachable state of the transmit path has its type; in particular the
\* queue never exceeds its depth and the semaphore its limit.
THEOREM TypeCorrect == Spec => []TypeOK
<1>1. Init => TypeOK
  BY EmptySeq DEF Init, TypeOK, Frame, NoFrame, HandOver, Result, Verdict
<1>2. TypeOK /\ [Next]_vars => TypeOK'
  <2> SUFFICES ASSUME TypeOK, [Next]_vars PROVE TypeOK'
    OBVIOUS
  <2>1. CASE Enqueue
    <3> USE DEF TypeOK
    <3>1. offered' \in Frame /\ offered' \in 0 .. MaxFrames
      BY <2>1 DEF Enqueue, Frame
    <3>2. can_tx_msgq' \in Seq(Frame) /\ Len(can_tx_msgq') <= Depth
      <4>1. Len(can_tx_msgq) \in Nat
        BY LenProperties
      <4>2. CASE Len(can_tx_msgq) < Depth
        <5>1. can_tx_msgq' = Append(can_tx_msgq, offered')
          BY <2>1, <4>1, <4>2 DEF Enqueue
        <5>2. /\ can_tx_msgq' \in Seq(Frame)
              /\ Len(can_tx_msgq') = Len(can_tx_msgq) + 1
          BY <3>1, <5>1, AppendProperties
        <5> QED
          BY <4>1, <4>2, <5>2
      <4>3. CASE ~(Len(can_tx_msgq) < Depth)
        BY <2>1, <4>3 DEF Enqueue
      <4> QED
        BY <4>2, <4>3
    <3>3. dropped' \in SUBSET (Frame \cup {NoFrame})
      BY <2>1, <3>1 DEF Enqueue
    <3> QED
      BY <2>1, <3>1, <3>2, <3>3 DEF Enqueue, thread
  <2>2. CASE Get
    <3>1. /\ Head(can_tx_msgq) \in Frame
          /\ Tail(can_tx_msgq) \in Seq(Frame)
          /\ Len(Tail(can_tx_msgq)) = Len(can_tx_msgq) - 1
      BY <2>2, HeadTailProperties DEF Get, TypeOK
    <3> QED
      BY <2>2, <3>1, LenProperties DEF Get, TypeOK
  <2>3. CASE SendAccepted
    <3>1. /\ handed' \in Seq(Frame \cup {NoFrame})
          /\ Len(handed') <= MaxHandOvers
          /\ handed' # << >>
          /\ Len(handed') \in HandOver
      BY <2>3, HandFacts DEF HandOver
    <3> QED
      BY <2>3, <3>1 DEF SendAccepted, TypeOK
  <2>4. CASE SendRefused
    BY <2>4 DEF SendRefused, TypeOK
  <2>5. CASE TakeSem
    BY <2>5 DEF TakeSem, TypeOK
  <2>6. CASE Timeout
    BY <2>6 DEF Timeout, Conclude, Verdict, TypeOK
  <2>7. CASE Check
    <3>1. can_tx_result \in Verdict
      BY DEF Result, Verdict, TypeOK
    <3>2. verdict' \in [HandOver -> Verdict]
      BY <2>7, <3>1 DEF Check, Conclude, TypeOK
    <3>3. can_frames_tx_ok' \in Nat
      BY <2>7 DEF Check, TypeOK
    <3> QED
      BY <2>7, <3>2, <3>3 DEF Check, Conclude, TypeOK
  <2>8. CASE Complete
    <3>1. PICK h \in mailbox, r \in Result : Complete!(h, r)
      BY <2>8 DEF Complete
    <3> QED
      BY <3>1 DEF thread, TypeOK
  <2>9. CASE Purge
    <3>1. Queued \subseteq Frame
      BY LenProperties, ElementOfSeq DEF TypeOK, Queued
    <3> QED
      BY <2>9, <3>1, EmptySeq DEF Purge, thread, TypeOK
  <2>10. CASE PurgeWakes
    BY <2>10 DEF PurgeWakes, TypeOK
  <2>11. CASE UNCHANGED vars
    BY <2>11 DEF vars, TypeOK
  <2> QED
    BY <2>1, <2>2, <2>3, <2>4, <2>5, <2>6, <2>7, <2>8, <2>9, <2>10, <2>11 DEF Next, TxThread
<1> QED
  BY <1>1, <1>2, PTL DEF Spec
-----------------------------------------------------------------------------
(* Facts about the queue and the hand-overs, in terms of their elements.     *)

LEMMA QueueFacts ==
  ASSUME TypeOK
  PROVE  /\ Len(can_tx_msgq) \in Nat
         /\ DOMAIN can_tx_msgq = 1 .. Len(can_tx_msgq)
         /\ \A i \in 1 .. Len(can_tx_msgq) : can_tx_msgq[i] \in Frame
  BY LenProperties, ElementOfSeq DEF TypeOK

LEMMA HandedFacts ==
  ASSUME TypeOK
  PROVE  /\ Len(handed) \in Nat
         /\ DOMAIN handed = 1 .. Len(handed)
         /\ \A h \in 1 .. Len(handed) : handed[h] \in Nat
         /\ Current = Len(handed)
         /\ pc \in {"wait", "check"} => Current \in HandOver
<1>1. handed \in Seq(Frame \cup {NoFrame}) /\ Len(handed) \in Nat
  BY LenProperties DEF TypeOK
<1>2. \A h \in 1 .. Len(handed) : handed[h] \in Frame \cup {NoFrame}
  BY <1>1, ElementOfSeq
<1>3. ASSUME handed # << >> PROVE Len(handed) \in HandOver
  BY <1>1, <1>3, EmptySeq DEF TypeOK, HandOver
<1> QED
  BY <1>1, <1>2, <1>3, LenProperties DEF TypeOK, Frame, NoFrame, Current

\* What enqueue_frame does to the queue.
LEMMA EnqueueFacts ==
  ASSUME TypeOK, Enqueue
  PROVE  /\ offered' = offered + 1 /\ offered' \in Frame
         /\ \/ /\ Len(can_tx_msgq) < Depth
               /\ can_tx_msgq' = Append(can_tx_msgq, offered')
               /\ Len(can_tx_msgq') = Len(can_tx_msgq) + 1
               /\ \A i \in 1 .. Len(can_tx_msgq) : can_tx_msgq'[i] = can_tx_msgq[i]
               /\ can_tx_msgq'[Len(can_tx_msgq) + 1] = offered'
               /\ dropped' = dropped
            \/ /\ Len(can_tx_msgq) = Depth
               /\ can_tx_msgq' = can_tx_msgq
               /\ dropped' = dropped \cup {offered'}
<1>1. offered' = offered + 1 /\ offered' \in Frame
  BY DEF Enqueue, Frame, TypeOK
<1>2. CASE /\ Len(can_tx_msgq) < Depth
           /\ can_tx_msgq' = Append(can_tx_msgq, offered')
           /\ dropped' = dropped
  BY <1>1, <1>2, AppendProperties DEF TypeOK
<1>3. CASE /\ Len(can_tx_msgq) = Depth
           /\ can_tx_msgq' = can_tx_msgq
           /\ dropped' = dropped \cup {offered'}
  BY <1>1, <1>3
<1> QED
  BY <1>1, <1>2, <1>3 DEF Enqueue

\* What k_msgq_get does to the queue.
LEMMA GetFacts ==
  ASSUME TypeOK, Get
  PROVE  /\ Len(can_tx_msgq) \in Nat \ {0}
         /\ frame' = can_tx_msgq[1]
         /\ Len(can_tx_msgq') = Len(can_tx_msgq) - 1
         /\ \A i \in 1 .. Len(can_tx_msgq') : can_tx_msgq'[i] = can_tx_msgq[i + 1]
  BY HeadTailProperties, EmptySeq DEF Get, TypeOK

\* What a completion changes.
LEMMA CompleteFacts ==
  ASSUME TypeOK, NEW h \in mailbox, NEW r \in Result, Complete!(h, r)
  PROVE  /\ h \in HandOver
         /\ outcome'[h] = r
         /\ \A g \in HandOver \ {h} : outcome'[g] = outcome[g]
         /\ Completed' = Completed \cup {h}
         /\ mailbox' = mailbox \ {h}
  BY DEF TypeOK, Completed, Result
-----------------------------------------------------------------------------
\* The frames handed over, the thread's local frame and the queued frames stand
\* in line, also when a purge makes the thread send the same frame again.
Line ==
    /\ \A i, j \in 1 .. Len(can_tx_msgq) : i < j => can_tx_msgq[i] < can_tx_msgq[j]
    /\ \A i \in 1 .. Len(can_tx_msgq) : frame < can_tx_msgq[i] /\ can_tx_msgq[i] <= offered
    /\ frame <= offered
    /\ \A h \in 1 .. Len(handed) : handed[h] <= frame
    /\ \A g, h \in 1 .. Len(handed) : g < h => handed[g] <= handed[h]
    /\ pc \in {"wait", "check"} => frame \in Handed

LEMMA LineStep ==
  ASSUME TypeOK, TypeOK', Line, [Next]_vars
  PROVE  Line'
<1> USE DEF Line
<1>q. /\ Len(can_tx_msgq) \in Nat
      /\ \A i \in 1 .. Len(can_tx_msgq) : can_tx_msgq[i] \in Nat
      /\ Len(handed) \in Nat
      /\ \A h \in 1 .. Len(handed) : handed[h] \in Nat
  BY QueueFacts, HandedFacts DEF Frame
<1>0. offered \in Nat /\ frame \in Nat
  BY DEF TypeOK, Frame, NoFrame
<1>1. CASE Enqueue
  <2>1. UNCHANGED <<thread, handed>>
    BY <1>1 DEF Enqueue
  <2>2. CASE Len(can_tx_msgq) = Depth
    <3>1. can_tx_msgq' = can_tx_msgq /\ offered' = offered + 1
      BY <1>1, <2>2, EnqueueFacts
    <3> QED
      BY <1>q, <1>0, <2>1, <3>1 DEF thread, Handed
  <2>3. CASE Len(can_tx_msgq) < Depth
    <3>1. /\ Len(can_tx_msgq') = Len(can_tx_msgq) + 1
          /\ \A i \in 1 .. Len(can_tx_msgq) : can_tx_msgq'[i] = can_tx_msgq[i]
          /\ can_tx_msgq'[Len(can_tx_msgq) + 1] = offered + 1
          /\ offered' = offered + 1
      BY <1>1, <2>3, EnqueueFacts
    <3>2. \A i, j \in 1 .. Len(can_tx_msgq') : i < j => can_tx_msgq'[i] < can_tx_msgq'[j]
      <4> SUFFICES ASSUME NEW i \in 1 .. Len(can_tx_msgq'),
                          NEW j \in 1 .. Len(can_tx_msgq'), i < j
                   PROVE  can_tx_msgq'[i] < can_tx_msgq'[j]
        OBVIOUS
      <4>1. i \in 1 .. Len(can_tx_msgq) /\ can_tx_msgq'[i] = can_tx_msgq[i]
        BY <1>q, <3>1
      <4>2. can_tx_msgq[i] \in Nat /\ can_tx_msgq[i] <= offered
        BY <1>q, <4>1
      <4>3. CASE j \in 1 .. Len(can_tx_msgq)
        BY <3>1, <4>1, <4>3
      <4>4. CASE j = Len(can_tx_msgq) + 1
        BY <1>0, <3>1, <4>1, <4>2, <4>4
      <4> QED
        BY <1>q, <3>1, <4>3, <4>4
    <3>3. \A i \in 1 .. Len(can_tx_msgq') :
             frame < can_tx_msgq'[i] /\ can_tx_msgq'[i] <= offered'
      BY <1>q, <1>0, <3>1
    <3> QED
      BY <1>q, <1>0, <2>1, <3>1, <3>2, <3>3 DEF thread, Handed
  <2> QED
    BY <1>1, <2>2, <2>3, EnqueueFacts
<1>2. CASE Get
  <2>1. UNCHANGED <<handed, offered>> /\ pc' = "send"
    BY <1>2 DEF Get
  <2>2. frame < frame' /\ frame' <= offered /\ frame' \in Nat
    BY <1>q, <1>0, <1>2, GetFacts DEF Frame
  <2>3. \A h \in 1 .. Len(handed) : handed[h] <= frame'
    BY <1>q, <1>0, <2>2
  <2>4. \A i \in 1 .. Len(can_tx_msgq') :
           frame' < can_tx_msgq'[i] /\ can_tx_msgq'[i] <= offered
    BY <1>q, <1>2, GetFacts
  <2>5. \A i, j \in 1 .. Len(can_tx_msgq') : i < j => can_tx_msgq'[i] < can_tx_msgq'[j]
    <3> SUFFICES ASSUME NEW i \in 1 .. Len(can_tx_msgq'),
                        NEW j \in 1 .. Len(can_tx_msgq'), i < j
                 PROVE  can_tx_msgq'[i] < can_tx_msgq'[j]
      OBVIOUS
    <3>1. /\ i + 1 \in 1 .. Len(can_tx_msgq) /\ can_tx_msgq'[i] = can_tx_msgq[i + 1]
          /\ j + 1 \in 1 .. Len(can_tx_msgq) /\ can_tx_msgq'[j] = can_tx_msgq[j + 1]
      BY <1>2, GetFacts
    <3> QED
      BY <3>1
  <2> QED
    BY <1>q, <1>0, <2>1, <2>2, <2>3, <2>4, <2>5
<1>3. CASE SendAccepted
  <2>1. UNCHANGED <<can_tx_msgq, frame, offered>> /\ frame \in Handed'
    BY <1>3, HandFacts DEF SendAccepted
  <2>2. /\ Len(handed') = Len(handed) + 1
        /\ \A h \in 1 .. Len(handed) : handed'[h] = handed[h]
        /\ handed'[Len(handed) + 1] = frame
    BY <1>3, HandFacts
  <2>3. \A h \in 1 .. Len(handed') : handed'[h] <= frame
    BY <1>q, <1>0, <2>2
  <2>4. \A g, h \in 1 .. Len(handed') : g < h => handed'[g] <= handed'[h]
    <3> SUFFICES ASSUME NEW g \in 1 .. Len(handed'), NEW h \in 1 .. Len(handed'), g < h
                 PROVE  handed'[g] <= handed'[h]
      OBVIOUS
    <3>1. CASE h = Len(handed) + 1
      BY <2>2, <2>3, <3>1
    <3>2. CASE h # Len(handed) + 1
      <4>1. g \in 1 .. Len(handed) + 1 /\ h \in 1 .. Len(handed) + 1
        BY <2>2
      <4>2. g \in 1 .. Len(handed) /\ h \in 1 .. Len(handed)
        BY <1>q, <3>2, <4>1
      <4> QED
        BY <2>2, <4>2
    <3> QED
      BY <3>1, <3>2
  <2> QED
    BY <2>1, <2>3, <2>4
<1>4. CASE SendRefused \/ TakeSem \/ Timeout \/ Check
  <2>1. /\ UNCHANGED <<can_tx_msgq, frame, offered, handed>>
        /\ pc' \in {"wait", "check"} => pc \in {"wait", "check"}
    BY <1>4 DEF SendRefused, TakeSem, Timeout, Check, Conclude
  <2> QED
    BY <1>q, <1>0, <2>1 DEF Handed
<1>5. CASE Complete
  <2>1. UNCHANGED <<can_tx_msgq, thread, offered, handed>>
    BY <1>5 DEF Complete
  <2> QED
    BY <2>1 DEF thread, Handed
<1>6. CASE Purge
  <2>1. UNCHANGED <<thread, offered, handed>> /\ Len(can_tx_msgq') = 0
    BY <1>6 DEF Purge
  <2> QED
    BY <2>1 DEF thread, Handed
<1>7. CASE PurgeWakes
  BY <1>7 DEF PurgeWakes
<1>8. CASE UNCHANGED vars
  BY <1>8 DEF vars, Handed
<1> QED
  BY <1>1, <1>2, <1>3, <1>4, <1>5, <1>6, <1>7, <1>8 DEF Next, TxThread

THEOREM LineInvariant == Spec => []Line
<1>1. Init => Line
  BY DEF Init, Line, NoFrame, Frame
<1> QED
  BY <1>1, TypeCorrect, LineStep, PTL DEF Spec

\* No frame overtakes another on its way to the controller, and a frame that
\* comes again comes before any newer one.
THEOREM InOrderCorrect == Spec => []InOrder
<1>1. TypeOK /\ Line => InOrder
  BY HandedFacts DEF Line, InOrder
<1> QED
  BY <1>1, TypeCorrect, LineInvariant, PTL
-----------------------------------------------------------------------------
\* The controller holds and has completed, and the thread has concluded upon,
\* nothing but hand-overs that were made, each of them at most once.
Past ==
    /\ \A h \in mailbox \cup Completed : h <= Len(handed)
    /\ mailbox \cap Completed = {}
    /\ \A h \in HandOver : verdict[h] # "none" =>
          h <= Len(handed) /\ (pc \in {"wait", "check"} => h < Len(handed))

LEMMA PastStep ==
  ASSUME TypeOK, Past, [Next]_vars
  PROVE  Past'
<1> USE DEF Past
<1>q. Len(handed) \in Nat /\ (pc \in {"wait", "check"} => Len(handed) \in HandOver)
  BY HandedFacts
<1>h. HandOver \subseteq Nat /\ mailbox \subseteq HandOver /\ Completed \subseteq HandOver
  BY DEF HandOver, TypeOK, Completed
<1>1. CASE Enqueue \/ Get \/ SendRefused \/ TakeSem \/ Purge \/ PurgeWakes \/ UNCHANGED vars
  <2>1. /\ UNCHANGED <<mailbox, handed, outcome, verdict>>
        /\ pc' \in {"wait", "check"} => pc \in {"wait", "check"}
    BY <1>1 DEF Enqueue, Get, SendRefused, TakeSem, Purge, PurgeWakes, thread, vars
  <2> QED
    BY <2>1 DEF Completed
<1>2. CASE SendAccepted
  <2>1. /\ Len(handed') = Len(handed) + 1 /\ mailbox' = mailbox \cup {Len(handed')}
        /\ Completed' = Completed /\ verdict' = verdict
    BY <1>2, HandFacts DEF SendAccepted, Completed
  <2>2. Len(handed') \notin Completed
    BY <1>q, <1>h, <2>1
  <2>3. \A h \in (mailbox \cup Completed)' : h <= Len(handed')
    BY <1>q, <1>h, <2>1
  <2>4. \A h \in HandOver : verdict'[h] # "none" => h <= Len(handed') /\ h < Len(handed')
    BY <1>q, <1>h, <2>1
  <2>5. mailbox' \cap Completed' = {}
    BY <2>1, <2>2
  <2> QED
    BY <2>3, <2>4, <2>5
<1>3. CASE Timeout \/ Check
  <2>1. /\ UNCHANGED <<mailbox, handed, outcome>> /\ pc' = "get"
        /\ \A h \in HandOver \ {Len(handed)} : verdict'[h] = verdict[h]
    BY <1>3 DEF Timeout, Check, Conclude, Current, TypeOK
  <2> QED
    BY <1>q, <1>h, <2>1 DEF Completed
<1>4. CASE Complete
  <2>1. PICK h \in mailbox, r \in Result : Complete!(h, r)
    BY <1>4 DEF Complete
  <2>2. /\ Completed' = Completed \cup {h} /\ mailbox' = mailbox \ {h}
        /\ UNCHANGED <<handed, verdict, pc>>
    BY <2>1, CompleteFacts DEF thread
  <2> QED
    BY <2>2
<1> QED
  BY <1>1, <1>2, <1>3, <1>4 DEF Next, TxThread

LEMMA PastInvariant == Spec => []Past
<1>1. Init => Past
  BY DEF Init, Past, Completed
<1> QED
  BY <1>1, TypeCorrect, PastStep, PTL DEF Spec
-----------------------------------------------------------------------------
LEMMA AccountedStep ==
  ASSUME TypeOK, TypeOK', Line, Line', Accounted, [Next]_vars
  PROVE  Accounted'
<1>q. /\ Len(can_tx_msgq) \in Nat /\ frame \in Nat /\ offered \in Nat
      /\ \A i \in 1 .. Len(can_tx_msgq) : can_tx_msgq[i] \in Nat
  BY QueueFacts DEF TypeOK, Frame, NoFrame
<1>p. Queued' = {can_tx_msgq'[i] : i \in 1 .. Len(can_tx_msgq')}
  BY LenProperties DEF TypeOK, Queued
<1>o. Queued = {can_tx_msgq[i] : i \in 1 .. Len(can_tx_msgq)}
  BY LenProperties DEF TypeOK, Queued
<1>1. CASE Enqueue
  <2>1. /\ Held' = Held /\ Handed' = Handed
        /\ offered' = offered + 1 /\ offered' \in Frame
    BY <1>1, EnqueueFacts DEF Enqueue, Held, Handed, thread
  <2>2. offered + 1 \notin Queued \cup Held \cup Handed \cup dropped
    BY <1>q, <2>1 DEF Accounted
  <2>3. CASE Len(can_tx_msgq) < Depth
    <3>1. dropped' = dropped /\ Queued' = Queued \cup {offered + 1}
      BY SMTT(30), <1>1, <1>o, <1>p, <1>q, <2>3, EnqueueFacts
    <3> QED
      BY <1>q, <2>1, <2>2, <3>1 DEF Accounted, Frame
  <2>4. CASE Len(can_tx_msgq) = Depth
    <3>1. Queued' = Queued /\ dropped' = dropped \cup {offered + 1}
      BY <1>1, <2>1, <2>4, EnqueueFacts DEF Queued
    <3> QED
      BY <1>q, <2>1, <2>2, <3>1 DEF Accounted, Frame
  <2> QED
    BY <1>1, <2>3, <2>4, EnqueueFacts
<1>2. CASE Get
  <2>1. /\ Held = {} /\ Held' = {frame'} /\ Handed' = Handed
        /\ UNCHANGED <<offered, dropped>>
    BY <1>2 DEF Get, Held, Handed
  <2>2. Queued = Queued' \cup {frame'}
    <3>1. ASSUME NEW i \in 1 .. Len(can_tx_msgq)
          PROVE  can_tx_msgq[i] = frame' \/ can_tx_msgq[i] \in Queued'
      <4>1. CASE i = 1
        BY <1>2, <4>1, GetFacts
      <4>2. CASE i # 1
        <5>1. i - 1 \in 1 .. Len(can_tx_msgq') /\ (i - 1) + 1 = i
          BY <1>q, <1>2, <4>2, GetFacts
        <5>2. can_tx_msgq'[i - 1] = can_tx_msgq[i]
          BY <1>2, <5>1, GetFacts
        <5> QED
          BY <1>p, <5>1, <5>2
      <4> QED
        BY <4>1, <4>2
    <3>2. \A i \in 1 .. Len(can_tx_msgq') :
             i + 1 \in 1 .. Len(can_tx_msgq) /\ can_tx_msgq'[i] = can_tx_msgq[i + 1]
      BY <1>q, <1>2, GetFacts
    <3>3. frame' \in Queued
      BY <1>2, <1>o, GetFacts
    <3> QED
      BY <1>o, <1>p, <3>1, <3>2, <3>3
  <2>3. frame' \notin Queued'
    BY <1>p, <1>q DEF Line, TypeOK, Frame, NoFrame
  <2> QED
    BY <2>1, <2>2, <2>3 DEF Accounted
<1>3. CASE SendAccepted
  <2>1. /\ Held = {frame} /\ Held' = {frame} /\ Handed' = Handed \cup {frame}
        /\ dropped' = dropped \ {frame} /\ Queued' = Queued /\ offered' = offered
    BY <1>3, HandFacts DEF SendAccepted, Held, Queued
  <2> QED
    BY <2>1 DEF Accounted
<1>4. CASE SendRefused
  <2>1. /\ Held = {frame} /\ Held' = {} /\ Handed' = Handed
        /\ dropped' = dropped \cup ({frame} \ Handed)
        /\ Queued' = Queued /\ offered' = offered
    BY <1>4 DEF SendRefused, Held, Queued, Handed
  <2> QED
    BY <2>1 DEF Accounted
<1>5. CASE Timeout \/ Check
  <2>1. /\ Held = {frame} /\ Held' = {} /\ Handed' = Handed /\ frame \in Handed
        /\ UNCHANGED <<dropped, offered>> /\ Queued' = Queued
    BY <1>5 DEF Timeout, Check, Conclude, Held, Queued, Handed, Line
  <2> QED
    BY <2>1 DEF Accounted
<1>6. CASE TakeSem \/ Complete \/ UNCHANGED vars
  <2>1. /\ UNCHANGED <<can_tx_msgq, offered, dropped, handed>> /\ Held' = Held
    BY <1>6 DEF TakeSem, Complete, vars, thread, Held
  <2> QED
    BY <2>1 DEF Accounted, Queued, Handed
<1>7. CASE Purge
  <2>1. /\ Queued' = {} /\ Held' = Held /\ Handed' = Handed /\ offered' = offered
        /\ dropped' = dropped \cup Queued
    BY <1>7, <1>p DEF Purge, Held, Handed, thread
  <2> QED
    BY <2>1 DEF Accounted
<1>8. CASE PurgeWakes
  <2>1. /\ Held = {} /\ Held' = {frame} /\ Handed' = Handed
        /\ UNCHANGED <<dropped, offered>> /\ Queued = {} /\ Queued' = {}
    BY <1>8 DEF PurgeWakes, Held, Handed, Queued
  <2>2. frame <= offered
    BY DEF Line
  <2> QED
    BY <2>1, <2>2 DEF Accounted
<1> QED
  BY <1>1, <1>2, <1>3, <1>4, <1>5, <1>6, <1>7, <1>8 DEF Next, TxThread

\* Every frame that was offered stays accounted for: it waits, it is in the
\* thread's hands, the controller has had it, or it was dropped and never had.
THEOREM AccountedCorrect == Spec => []Accounted
<1>1. Init => Accounted
  BY DEF Init, Accounted, Queued, Held, Handed, Frame
<1> QED
  BY <1>1, TypeCorrect, LineInvariant, AccountedStep, PTL DEF Spec
-----------------------------------------------------------------------------
\* A conclusion is final.
LEMMA VerdictStays ==
  ASSUME TypeOK, Past, [Next]_vars
  PROVE  \A h \in HandOver : verdict[h] # "none" => verdict'[h] = verdict[h]
<1>1. CASE Timeout \/ Check
  <2>1. \A h \in HandOver \ {Current} : verdict'[h] = verdict[h]
    BY <1>1 DEF Timeout, Check, Conclude, TypeOK
  <2>2. Current \in HandOver /\ verdict[Current] = "none"
    BY <1>1, HandedFacts DEF Timeout, Check, Past, Current
  <2> QED
    BY <2>1, <2>2
<1>2. CASE ~(Timeout \/ Check)
  BY <1>2 DEF Next, TxThread, Enqueue, Get, SendAccepted, SendRefused, TakeSem, Complete,
              Purge, PurgeWakes, vars
<1> QED
  BY <1>1, <1>2

\* While no wait has timed out, the controller holds at most the frame the
\* thread is waiting for, and a token is the completion of that frame.
Paired ==
    /\ pc \in {"get", "send"} => mailbox = {} /\ can_tx_done_sem = 0
    /\ pc = "wait" => mailbox \subseteq {Current}
    /\ can_tx_done_sem = 1 => mailbox = {} /\ outcome[Current] = can_tx_result
    /\ pc = "check" => /\ mailbox = {} /\ can_tx_done_sem = 0
                       /\ outcome[Current] = can_tx_result
    /\ \A h \in HandOver : verdict[h] \in Result => verdict[h] = outcome[h]

Token == TimedOut = {} => Paired

LEMMA TokenStep ==
  ASSUME TypeOK, Past, Token, [Next]_vars
  PROVE  Token'
<1> SUFFICES ASSUME TimedOut' = {}
             PROVE  Paired'
  BY DEF Token
<1>1. TimedOut = {}
  BY VerdictStays DEF TimedOut
<1>2. Paired
  BY <1>1 DEF Token
<1>3. pc \in {"wait", "check"} => Current \in HandOver /\ verdict[Current] = "none"
  BY HandedFacts DEF Past, Current
<1>4. CASE Enqueue \/ Get \/ SendRefused \/ TakeSem \/ Purge \/ PurgeWakes \/ UNCHANGED vars
  <2>1. UNCHANGED <<mailbox, handed, outcome, verdict, can_tx_result>>
    BY <1>4 DEF Enqueue, Get, SendRefused, TakeSem, Purge, PurgeWakes, vars
  <2>2. CASE TakeSem
    BY <1>2, <2>1, <2>2 DEF TakeSem, Paired, Current
  <2>3. CASE ~TakeSem
    <3>1. /\ can_tx_done_sem' = can_tx_done_sem
          /\ pc' = pc \/ (pc \in {"get", "send"} /\ pc' \in {"get", "send"})
      BY <1>4, <2>3 DEF Enqueue, Get, SendRefused, Purge, PurgeWakes, vars, thread
    <3> QED
      BY <1>2, <2>1, <3>1 DEF Paired, Current
  <2> QED
    BY <2>2, <2>3
<1>5. CASE SendAccepted
  <2>1. /\ mailbox' = {Current'} /\ pc' = "wait" /\ can_tx_done_sem' = 0
        /\ UNCHANGED <<outcome, verdict>>
    BY <1>2, <1>5 DEF SendAccepted, Paired, Current
  <2> QED
    BY <1>2, <2>1 DEF Paired
<1>6. CASE Timeout
  <2>1. verdict'[Current] = "timeout" /\ Current \in HandOver
    BY <1>3, <1>6 DEF Timeout, Conclude, TypeOK
  <2> QED
    BY <2>1 DEF TimedOut
<1>7. CASE Check
  <2>1. /\ Current \in HandOver
        /\ verdict'[Current] = can_tx_result
        /\ \A h \in HandOver \ {Current} : verdict'[h] = verdict[h]
    BY <1>3, <1>7 DEF Check, Conclude, TypeOK
  <2> QED
    BY <1>2, <1>7, <2>1 DEF Check, Conclude, Paired
<1>8. CASE Complete
  <2>1. PICK h \in mailbox, r \in Result : Complete!(h, r)
    BY <1>8 DEF Complete
  <2>2. pc = "wait" /\ h = Current /\ mailbox = {Current} /\ Current \in HandOver
    BY <1>2, <1>3, <2>1 DEF Paired, TypeOK
  <2>3. outcome'[Current] = r /\ \A g \in HandOver \ {Current} : outcome'[g] = outcome[g]
    BY <2>1, <2>2, CompleteFacts
  <2>4. \A g \in HandOver : verdict[g] \in Result => g # Current
    BY <1>3, <2>2 DEF Result
  <2>5. Current' = Current /\ UNCHANGED <<pc, verdict>>
    BY <2>1 DEF Current, thread
  <2> QED
    BY <1>2, <2>1, <2>2, <2>3, <2>4, <2>5 DEF Paired
<1> QED
  BY <1>4, <1>5, <1>6, <1>7, <1>8 DEF Next, TxThread

\* Until a first wait times out, what the thread concludes of a frame is what
\* the controller reported of that frame.
THEOREM InStepCorrect == Spec => []InStep
<1>1. Init => Token
  BY DEF Init, Token, Paired, Result
<1>2. Token => InStep
  BY DEF Token, Paired, InStep
<1> QED
  BY <1>1, <1>2, TypeCorrect, PastInvariant, TokenStep, PTL DEF Spec
-----------------------------------------------------------------------------
\* A token that says "ok" was paid for by a frame handed over no later than the
\* latest.
TokenHasWitness ==
    can_tx_result = "ok" /\ (can_tx_done_sem = 1 \/ pc = "check")
        => \E g \in Acked : g <= Current

LEMMA WitnessStep ==
  ASSUME TypeOK, Past, OkHasWitness, TokenHasWitness, [Next]_vars
  PROVE  OkHasWitness' /\ TokenHasWitness'
<1>h. HandOver \subseteq Nat /\ Current \in Nat /\ Acked \subseteq HandOver
  BY HandedFacts DEF HandOver, Acked
<1>1. Acked \subseteq Acked'
  <2>1. CASE Complete
    <3>1. PICK h \in mailbox, r \in Result : Complete!(h, r)
      BY <2>1 DEF Complete
    <3>2. h \notin Acked
      BY DEF Past, Completed, Acked
    <3> QED
      BY <3>1, <3>2, CompleteFacts DEF Acked
  <2>2. CASE ~Complete
    BY <2>2 DEF Next, TxThread, Enqueue, Get, SendAccepted, SendRefused, TakeSem,
                Timeout, Check, Conclude, Purge, PurgeWakes, vars, Acked
  <2> QED
    BY <2>1, <2>2
<1>2. CASE Enqueue \/ Get \/ SendRefused \/ TakeSem \/ Purge \/ PurgeWakes \/ UNCHANGED vars
  <2>1. /\ UNCHANGED <<handed, verdict, can_tx_result>>
        /\ (can_tx_done_sem' = 1 \/ pc' = "check") => (can_tx_done_sem = 1 \/ pc = "check")
    BY <1>2 DEF Enqueue, Get, SendRefused, TakeSem, Purge, PurgeWakes, vars, thread
  <2> QED
    BY <1>1, <2>1 DEF OkHasWitness, TokenHasWitness, Current
<1>3. CASE SendAccepted
  <2>1. /\ Current' = Current + 1 /\ UNCHANGED <<verdict, can_tx_result, can_tx_done_sem>>
        /\ pc' = "wait"
    BY <1>3, HandFacts DEF SendAccepted, Current
  <2>2. \A g \in Acked : g <= Current => g <= Current'
    BY <1>h, <2>1
  <2> QED
    BY <1>1, <2>1, <2>2 DEF OkHasWitness, TokenHasWitness
<1>4. CASE Timeout
  <2>1. \A h \in HandOver : verdict'[h] = verdict[h] \/ verdict'[h] # "ok"
    BY <1>4 DEF Timeout, Conclude, TypeOK
  <2>2. UNCHANGED <<handed, can_tx_result, can_tx_done_sem>> /\ pc' = "get"
    BY <1>4 DEF Timeout, Conclude
  <2> QED
    BY <1>1, <2>1, <2>2 DEF OkHasWitness, TokenHasWitness, Current
<1>5. CASE Check
  <2>1. /\ Current \in HandOver
        /\ verdict'[Current] = can_tx_result
        /\ \A h \in HandOver \ {Current} : verdict'[h] = verdict[h]
    BY <1>5, HandedFacts DEF Check, Conclude, TypeOK
  <2>2. can_tx_result = "ok" => \E g \in Acked : g <= Current
    BY <1>5 DEF Check, TokenHasWitness
  <2>3. UNCHANGED <<handed, can_tx_result, can_tx_done_sem>> /\ pc' = "get"
    BY <1>5 DEF Check, Conclude
  <2> QED
    BY <1>1, <2>1, <2>2, <2>3 DEF OkHasWitness, TokenHasWitness, Current
<1>6. CASE Complete
  <2>1. PICK h \in mailbox, r \in Result : Complete!(h, r)
    BY <1>6 DEF Complete
  <2>2. h <= Current /\ (r = "ok" => h \in Acked')
    BY <2>1, CompleteFacts DEF Past, Current, Acked
  <2>3. Current' = Current /\ verdict' = verdict /\ can_tx_result' = r
    BY <2>1 DEF Current
  <2> QED
    BY <1>1, <2>2, <2>3 DEF OkHasWitness, TokenHasWitness
<1> QED
  BY <1>2, <1>3, <1>4, <1>5, <1>6 DEF Next, TxThread

\* A frame concluded "ok" is witnessed by an acknowledged frame that is the
\* same or an earlier one: callbacks lag behind the thread, they never lead it.
THEOREM OkHasWitnessCorrect == Spec => []OkHasWitness
<1>1. Init => OkHasWitness /\ TokenHasWitness
  BY DEF Init, OkHasWitness, TokenHasWitness
<1> QED
  BY <1>1, TypeCorrect, PastInvariant, WitnessStep, PTL DEF Spec
-----------------------------------------------------------------------------
\* Completions that have been counted or still can be, by the token or by the
\* thread that has just taken it.
Claims == can_frames_tx_ok + can_tx_done_sem + (IF pc = "check" THEN 1 ELSE 0)
Paid == Claims <= Cardinality(Completed)

LEMMA CompletedFinite ==
  ASSUME TypeOK
  PROVE  IsFiniteSet(Completed) /\ Cardinality(Completed) \in Nat
<1>1. IsFiniteSet(HandOver)
  BY FS_Interval DEF HandOver
<1>2. Completed \subseteq HandOver
  BY DEF Completed
<1> QED
  BY <1>1, <1>2, FS_Subset, FS_CardinalityType

LEMMA PaidStep ==
  ASSUME TypeOK, Past, Paid, [Next]_vars
  PROVE  Paid'
<1>t. can_frames_tx_ok \in Nat /\ can_tx_done_sem \in {0, 1}
  BY DEF TypeOK
<1>1. CASE Complete
  <2>1. PICK h \in mailbox, r \in Result : Complete!(h, r)
    BY <1>1 DEF Complete
  <2>2. Completed' = Completed \cup {h} /\ h \notin Completed
    BY <2>1, CompleteFacts DEF Past
  <2>3. Cardinality(Completed') = Cardinality(Completed) + 1
    BY <2>2, CompletedFinite, FS_AddElement
  <2>4. Claims' <= Claims + 1 /\ Claims \in Nat /\ Claims' \in Nat
    BY <1>t, <2>1 DEF Claims, thread
  <2> QED
    BY <2>3, <2>4, CompletedFinite DEF Paid
<1>2. CASE ~Complete
  <2>1. Completed' = Completed
    BY <1>2 DEF Next, TxThread, Enqueue, Get, SendAccepted, SendRefused, TakeSem,
                Timeout, Check, Conclude, Purge, PurgeWakes, vars, Completed
  <2>2. Claims' <= Claims /\ Claims \in Nat /\ Claims' \in Nat
    BY <1>2, <1>t DEF Next, TxThread, Enqueue, Get, SendAccepted, SendRefused, TakeSem,
                      Timeout, Check, Conclude, Purge, PurgeWakes, vars, thread, Claims
  <2> QED
    BY <2>1, <2>2, CompletedFinite DEF Paid
<1> QED
  BY <1>1, <1>2

\* can_frames_tx_ok never exceeds the number of callbacks, however late they are.
THEOREM CountedOnceCorrect == Spec => []CountedOnce
<1>1. Init => Paid
  BY FS_EmptySet DEF Init, Paid, Claims, Completed
<1>2. TypeOK /\ Paid => CountedOnce
  BY CompletedFinite DEF TypeOK, Paid, Claims, CountedOnce
<1> QED
  BY <1>1, <1>2, TypeCorrect, PastInvariant, PaidStep, PTL DEF Spec
-----------------------------------------------------------------------------
\* Every step of the transmit path is a step of the queue, or none at all.
LEMMA FifoStep ==
  ASSUME TypeOK, [Next]_vars
  PROVE  [Fifo!Next]_(Fifo!vars)
<1>1. CASE Enqueue
  <2>1. UNCHANGED <<pc, frame, handed>>
    BY <1>1 DEF Enqueue, thread
  <2> QED
    BY <1>1, <2>1, EnqueueFacts DEF Fifo!Next, Fifo!Accept, Fifo!Refuse
<1>2. CASE Get
  BY <1>2 DEF Get, Fifo!Next, Fifo!Take
<1>3. CASE SendAccepted
  BY <1>3 DEF SendAccepted, Fifo!Next, Fifo!Hand
<1>4. CASE SendRefused
  BY <1>4 DEF SendRefused, Fifo!Next, Fifo!GiveUp
<1>5. CASE TakeSem \/ Timeout \/ Check
  BY <1>5 DEF TakeSem, Timeout, Check, Conclude, Fifo!vars
<1>6. CASE Complete \/ UNCHANGED vars
  BY <1>6 DEF Complete, vars, thread, Fifo!vars
<1>7. CASE Purge
  BY <1>7 DEF Purge, thread, Fifo!Next, Fifo!Drop
<1>8. CASE PurgeWakes
  BY <1>8 DEF PurgeWakes, Fifo!Next, Fifo!Drop
<1> QED
  BY <1>1, <1>2, <1>3, <1>4, <1>5, <1>6, <1>7, <1>8 DEF Next, TxThread

\* The transmit path is a lossy first-in first-out queue: frames are handed over
\* in their turn, and again only after a purge of the empty queue.
THEOREM RefinesCorrect == Spec => Refines
<1>1. Init => Fifo!Init
  BY DEF Init, Fifo!Init, NoFrame
<1>2. TypeOK /\ [Next]_vars => [Fifo!Next]_(Fifo!vars)
  BY FifoStep
<1> QED
  BY <1>1, <1>2, TypeCorrect, PTL DEF Spec, Refines, Fifo!Spec
-----------------------------------------------------------------------------
(* Progress: what weak fairness of the thread gives, step by step.           *)

\* The slot at which a frame stands in a queue, counted from the front.
Slot(q, f) == CHOOSE i \in 1 .. Len(q) : q[i] = f

LEMMA SlotIs ==
    ASSUME NEW q, Len(q) \in Nat, NEW f, NEW i \in 1 .. Len(q), q[i] = f,
           \A k \in 1 .. Len(q) : q[k] \in Nat,
           \A k, l \in 1 .. Len(q) : k < l => q[k] < q[l]
    PROVE  Slot(q, f) = i
<1> DEFINE s == Slot(q, f)
<1>1. s \in 1 .. Len(q) /\ q[s] = f
  BY DEF Slot
<1> HIDE DEF s
<1>2. ~(s < i) /\ ~(i < s)
  BY <1>1
<1>3. s = i
  BY <1>1, <1>2
<1> QED BY <1>3 DEF s

\* Steps the thread has still to take with the frame it holds; with those before
\* a queued frame is in its hands.
Phase == CASE pc = "send" -> 3 [] pc = "wait" -> 2 [] pc = "check" -> 1 [] OTHER -> 0
Distance(f) == 4 * Slot(can_tx_msgq, f) + Phase

LEMMA PhaseFacts ==
    /\ pc = "get" => Phase = 0
    /\ pc = "check" => Phase = 1
    /\ pc = "wait" => Phase = 2
    /\ pc = "send" => Phase = 3
  BY DEF Phase

LEMMA NextPhaseFacts ==
    /\ pc' = "get" => Phase' = 0
    /\ pc' = "check" => Phase' = 1
    /\ pc' = "wait" => Phase' = 2
    /\ pc' = "send" => Phase' = 3
  BY DEF Phase

At(f, n) == f \in Queued /\ Distance(f) = n
Nearer(f, n) == f \in Queued => Distance(f) < n

\* A step of the thread brings a queued frame nearer to its turn, or takes it; no
\* other step takes it farther away.
LEMMA NearerStep ==
    ASSUME TypeOK, TypeOK', Line, Line', NEW f \in Frame, NEW n \in Nat, At(f, n), [Next]_vars
    PROVE  /\ At(f, n)' \/ Nearer(f, n)'
           /\ TxThread => Nearer(f, n)'
<1>t. /\ Len(can_tx_msgq) \in Nat /\ Len(can_tx_msgq') \in Nat
      /\ DOMAIN can_tx_msgq = 1 .. Len(can_tx_msgq)
      /\ DOMAIN can_tx_msgq' = 1 .. Len(can_tx_msgq')
      /\ \A i \in 1 .. Len(can_tx_msgq) : can_tx_msgq[i] \in Nat
      /\ \A i \in 1 .. Len(can_tx_msgq') : can_tx_msgq'[i] \in Nat
  <2>1. can_tx_msgq \in Seq(Frame) /\ can_tx_msgq' \in Seq(Frame) /\ Frame \subseteq Nat
    BY DEF TypeOK, Frame
  <2> QED BY <2>1, LenProperties, ElementOfSeq
<1>p. pc \in {"get", "send", "wait", "check"}
  BY DEF TypeOK
<1>1. PICK i \in 1 .. Len(can_tx_msgq) : can_tx_msgq[i] = f
  BY <1>t DEF At, Queued
<1>2. n = 4 * i + Phase /\ i \in Nat
  <2>1. Slot(can_tx_msgq, f) = i
    BY <1>t, <1>1, SlotIs DEF Line
  <2> QED BY <2>1 DEF At, Distance
<1>3. ASSUME NEW j \in 1 .. Len(can_tx_msgq'), can_tx_msgq'[j] = f
      PROVE  f \in Queued' /\ Distance(f)' = 4 * j + Phase'
  <2>1. Slot(can_tx_msgq', f) = j
    BY <1>t, <1>3, SlotIs DEF Line
  <2>2. f \in Queued'
    BY <1>t, <1>3 DEF Queued
  <2> QED BY <2>1, <2>2 DEF Distance
<1>4. CASE Enqueue \/ Complete \/ UNCHANGED vars
  <2>1. i \in 1 .. Len(can_tx_msgq') /\ can_tx_msgq'[i] = f
    <3>1. CASE Enqueue
      <4>1. \/ can_tx_msgq' = can_tx_msgq
            \/ /\ Len(can_tx_msgq') = Len(can_tx_msgq) + 1
               /\ \A k \in 1 .. Len(can_tx_msgq) : can_tx_msgq'[k] = can_tx_msgq[k]
        BY <3>1, EnqueueFacts
      <4>2. i \in 1 .. Len(can_tx_msgq) + 1
        BY <1>t
      <4>3. CASE can_tx_msgq' = can_tx_msgq
        BY <1>1, <4>3
      <4>4. CASE /\ Len(can_tx_msgq') = Len(can_tx_msgq) + 1
                 /\ can_tx_msgq'[i] = can_tx_msgq[i]
        BY <1>1, <4>2, <4>4
      <4> QED BY <4>1, <4>3, <4>4
    <3>2. CASE Complete \/ UNCHANGED vars
      <4>1. can_tx_msgq' = can_tx_msgq
        BY <3>2 DEF Complete, vars
      <4> QED BY <1>1, <4>1
    <3> QED BY <1>4, <3>1, <3>2
  <2>2. Phase' = Phase
    BY <1>4 DEF Enqueue, Complete, vars, thread, Phase
  <2>3. ~TxThread
    BY <1>4 DEF Enqueue, Complete, vars, thread, TxThread, Get, SendAccepted, SendRefused,
       TakeSem, Timeout, Check, Conclude
  <2> QED BY <1>2, <1>3, <2>1, <2>2, <2>3 DEF At
<1>5. CASE Get
  <2>1. Phase = 0 /\ Phase' = 3
    BY <1>5, PhaseFacts, NextPhaseFacts DEF Get
  <2>2. CASE i = 1
    <3>1. f \notin Queued'
      <4> SUFFICES ASSUME NEW j \in 1 .. Len(can_tx_msgq'), can_tx_msgq'[j] = f PROVE FALSE
        BY <1>t DEF Queued
      <4>1. can_tx_msgq[j + 1] = can_tx_msgq[1] /\ j + 1 \in 1 .. Len(can_tx_msgq)
        BY <1>t, <1>1, <1>5, <2>2, GetFacts
      <4> QED BY <1>t, <2>2, <4>1 DEF Line
    <3> QED BY <3>1 DEF Nearer
  <2>3. CASE i # 1
    <3>1. i - 1 \in 1 .. Len(can_tx_msgq') /\ can_tx_msgq'[i - 1] = f
      BY <1>t, <1>1, <1>5, <2>3, GetFacts
    <3>2. Distance(f)' = 4 * (i - 1) + Phase'
      BY <1>3, <3>1
    <3>3. Distance(f)' < n
      BY <1>2, <2>1, <3>2
    <3> QED BY <3>3 DEF Nearer
  <2> QED BY <2>2, <2>3
<1>6. CASE SendAccepted \/ SendRefused \/ TakeSem \/ Timeout \/ Check
  <2>1. can_tx_msgq' = can_tx_msgq
    BY <1>6 DEF SendAccepted, SendRefused, TakeSem, Timeout, Check, Conclude
  <2>2. Phase' < Phase /\ Phase \in Nat /\ Phase' \in Nat
    BY <1>6, PhaseFacts, NextPhaseFacts
    DEF SendAccepted, SendRefused, TakeSem, Timeout, Check, Conclude
  <2>3. Distance(f)' = 4 * i + Phase'
    BY <1>1, <1>3, <2>1
  <2>4. \A a, b \in Nat : b < a => 4 * i + b < 4 * i + a
    BY <1>2
  <2>5. 4 * i + Phase' < 4 * i + Phase
    BY <2>2, <2>4
  <2>6. Distance(f)' < n
    BY <1>2, <2>3, <2>5
  <2> QED BY <2>6 DEF Nearer
<1>7. CASE Purge \/ PurgeWakes
  <2>1. Queued' = {}
    BY <1>7 DEF Purge, PurgeWakes, Queued
  <2> QED BY <2>1 DEF Nearer
<1> QED BY <1>4, <1>5, <1>6, <1>7 DEF Next, TxThread

\* The states in which the thread has something to do, and that it can do it.
Ready == pc = "get" => can_tx_msgq # << >>
ReadyEnabled == Ready => ENABLED <<TxThread>>_vars

LEMMA QueuedIsReady == ASSUME TypeOK, NEW f \in Queued PROVE Ready
  BY DEF Ready, Queued

\* However far from its turn a queued frame is, at some time it is nearer, or no
\* longer queued.  (QueueDrains follows, since a distance cannot fall for ever.)
THEOREM QueueAdvances ==
    ASSUME NEW f \in Frame, NEW n \in Nat
    PROVE  FairSpec /\ []ReadyEnabled => (At(f, n) ~> Nearer(f, n))
<1>1. TypeOK /\ TypeOK' /\ Line /\ Line' /\ At(f, n) /\ [Next]_vars
         => At(f, n)' \/ Nearer(f, n)'
  BY NearerStep
<1>2. TypeOK /\ TypeOK' /\ Line /\ Line' /\ At(f, n) /\ <<Next /\ TxThread>>_vars
         => Nearer(f, n)'
  BY NearerStep
<1>3. TypeOK /\ At(f, n) => Ready
  BY QueuedIsReady DEF At
<1> QED BY <1>1, <1>2, <1>3, TypeCorrect, LineInvariant, PTL DEF FairSpec, Spec, ReadyEnabled
=============================================================================
