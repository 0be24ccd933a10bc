------------------------------- MODULE CanTx -------------------------------
(***************************************************************************)
(* The CAN transmit path of can_converter_can.c and enqueue_frame of       *)
(* can_converter_frames.c.                                                 *)
(*                                                                         *)
(* Producers put frames on can_tx_msgq without waiting.  ccu_can_tx_thread *)
(* takes them one at a time, gives each to the CAN driver and waits at     *)
(* most 200 ms on can_tx_done_sem for ccu_can_tx_callback, which the       *)
(* driver runs from an interrupt when the controller is done with a frame. *)
(* On a bus where nobody acknowledges, a frame outlives that wait and its  *)
(* callback comes late, while the thread is already busy with another one. *)
(* can_state_change_cb purges the queue when the controller goes bus-off.  *)
(* That also wakes the thread if it is blocked on the empty queue: its     *)
(* k_msgq_get then fails with -ENOMSG, which the thread does not look at,  *)
(* and it sends once more what its local frame still holds.                *)
(*                                                                         *)
(* Frames are numbered in the order in which they are offered; their       *)
(* contents play no part here.  The frame {0} that the thread starts with  *)
(* is 0.  A time limit expires when it likes.                              *)
(***************************************************************************)
EXTENDS Integers, Sequences, FiniteSets

CONSTANTS Depth,        \* slots of can_tx_msgq (32 in the code)
          Mailboxes,    \* transmit buffers of the CAN controller
          MaxFrames,    \* bound of the model: frames ever offered
          MaxHandOvers  \* bound of the model: frames ever accepted by the controller

ASSUME DepthAssumption == Depth \in Nat \ {0}
ASSUME MailboxesAssumption == Mailboxes \in Nat \ {0}
ASSUME BoundsAssumption == MaxFrames \in Nat /\ MaxHandOvers \in Nat

Frame == 1 .. MaxFrames
NoFrame == 0
HandOver == 1 .. MaxHandOvers
Result == {"ok", "err"}

VARIABLES
    can_tx_msgq,        \* frames waiting for the thread, oldest first
    can_tx_done_sem,    \* semaphore with limit 1
    can_tx_result,      \* error argument of the latest callback
    can_frames_tx_ok,   \* the counter the stats report prints
    pc,                 \* where ccu_can_tx_thread is
    frame,              \* its local frame
    mailbox,            \* hand-overs the controller has not yet completed
    offered,            \* history: number of frames offered
    dropped,            \* history: frames that were lost before the controller had them
    handed,             \* history: the frame of each hand-over
    outcome,            \* history: what the controller reported of each hand-over
    verdict             \* history: what the thread concluded of each hand-over

thread == <<pc, frame>>
vars == <<can_tx_msgq, can_tx_done_sem, can_tx_result, can_frames_tx_ok,
          pc, frame, mailbox, offered, dropped, handed, outcome, verdict>>

Verdict == {"none", "timeout", "err", "ok"}

Queued == {can_tx_msgq[i] : i \in DOMAIN can_tx_msgq}
Held == IF pc = "get" THEN {} ELSE {frame}
Handed == {handed[h] : h \in DOMAIN handed}
Current == Len(handed)                  \* the hand-over the thread waits for
Completed == {h \in HandOver : outcome[h] # "none"}
Acked == {h \in HandOver : outcome[h] = "ok"}

Init == /\ can_tx_msgq = << >>
        /\ can_tx_done_sem = 0
        /\ can_tx_result = "ok"         \* static int, zero
        /\ can_frames_tx_ok = 0
        /\ pc = "get"
        /\ frame = NoFrame
        /\ mailbox = {}
        /\ offered = 0
        /\ dropped = {}
        /\ handed = << >>
        /\ outcome = [h \in HandOver |-> "none"]
        /\ verdict = [h \in HandOver |-> "none"]
-----------------------------------------------------------------------------
(* Plausible mistakes in the steps below, each exchanged for the step it is  *)
(* named after to see that a property notices.                               *)

\* The ring buffer overwrites its oldest frame.
EnqueueOverwrites ==
    /\ offered < MaxFrames
    /\ offered' = offered + 1
    /\ can_tx_msgq' = IF Len(can_tx_msgq) < Depth
                        THEN Append(can_tx_msgq, offered')
                        ELSE Append(Tail(can_tx_msgq), offered')
    /\ UNCHANGED <<can_tx_done_sem, can_tx_result, can_frames_tx_ok, thread,
                   mailbox, dropped, handed, outcome, verdict>>

\* A refused frame is put back at the end of the queue.
SendRefusedRequeues ==
    /\ pc = "send"
    /\ Len(can_tx_msgq) < Depth
    /\ can_tx_msgq' = Append(can_tx_msgq, frame)
    /\ pc' = "get"
    /\ UNCHANGED <<can_tx_done_sem, can_tx_result, can_frames_tx_ok, frame,
                   mailbox, offered, dropped, handed, outcome, verdict>>

\* The thread polls the semaphore's count and leaves the token there.
TakeSemPeeks ==
    /\ pc = "wait"
    /\ can_tx_done_sem = 1
    /\ pc' = "check"
    /\ UNCHANGED <<can_tx_msgq, can_tx_done_sem, can_tx_result, can_frames_tx_ok,
                   frame, mailbox, offered, dropped, handed, outcome, verdict>>

\* The "continue" after a timeout is missing.
TimeoutFallsThrough ==
    /\ pc = "wait"
    /\ can_tx_done_sem = 0
    /\ pc' = "check"
    /\ UNCHANGED <<can_tx_msgq, can_tx_done_sem, can_tx_result, can_frames_tx_ok,
                   frame, mailbox, offered, dropped, handed, outcome, verdict>>

\* A frame that timed out is sent again.
TimeoutRetries ==
    /\ pc = "wait"
    /\ can_tx_done_sem = 0
    /\ pc' = "send"
    /\ UNCHANGED <<can_tx_msgq, can_tx_done_sem, can_tx_result, can_frames_tx_ok,
                   frame, mailbox, offered, dropped, handed, outcome, verdict>>

\* The wait for the callback is K_FOREVER.
TimeoutNever == FALSE /\ UNCHANGED vars

\* The thread counts the frame without looking at the result.
CheckIgnoresResult ==
    /\ pc = "check"
    /\ pc' = "get"
    /\ verdict' = [verdict EXCEPT ![Current] = "ok"]
    /\ can_frames_tx_ok' = can_frames_tx_ok + 1
    /\ UNCHANGED <<can_tx_msgq, can_tx_done_sem, can_tx_result, frame, mailbox,
                   offered, dropped, handed, outcome>>

\* The semaphore is declared without its limit of one.
CompleteUnlimited == \E h \in mailbox, r \in Result :
    /\ mailbox' = mailbox \ {h}
    /\ outcome' = [outcome EXCEPT ![h] = r]
    /\ can_tx_result' = r
    /\ can_tx_done_sem' = can_tx_done_sem + 1
    /\ UNCHANGED <<can_tx_msgq, can_frames_tx_ok, thread, offered, dropped,
                   handed, verdict>>
-----------------------------------------------------------------------------
\* enqueue_frame: k_msgq_put with K_NO_WAIT; the new frame is dropped when full.
Enqueue == /\ offered < MaxFrames
           /\ offered' = offered + 1
           /\ \/ /\ Len(can_tx_msgq) < Depth
                 /\ can_tx_msgq' = Append(can_tx_msgq, offered')
                 /\ UNCHANGED dropped
              \/ /\ Len(can_tx_msgq) = Depth
                 /\ dropped' = dropped \cup {offered'}
                 /\ UNCHANGED can_tx_msgq
           /\ UNCHANGED <<can_tx_done_sem, can_tx_result, can_frames_tx_ok,
                          thread, mailbox, handed, outcome, verdict>>

\* k_msgq_get with K_FOREVER, when there is a frame.
Get == /\ pc = "get"
       /\ can_tx_msgq # << >>
       /\ frame' = Head(can_tx_msgq)
       /\ can_tx_msgq' = Tail(can_tx_msgq)
       /\ pc' = "send"
       /\ UNCHANGED <<can_tx_done_sem, can_tx_result, can_frames_tx_ok,
                      mailbox, offered, dropped, handed, outcome, verdict>>

\* can_send returns 0: a transmit buffer was free and now holds the frame.
SendAccepted == /\ pc = "send"
                /\ Cardinality(mailbox) < Mailboxes
                /\ Len(handed) < MaxHandOvers
                /\ handed' = Append(handed, frame)
                /\ mailbox' = mailbox \cup {Len(handed')}
                /\ dropped' = dropped \ {frame}
                /\ pc' = "wait"
                /\ UNCHANGED <<can_tx_msgq, can_tx_done_sem, can_tx_result,
                               can_frames_tx_ok, frame, offered, outcome, verdict>>

\* can_send fails: no buffer became free in 100 ms, or the bus is off.  Unless
\* the controller has had the frame before, it is lost.
SendRefused == /\ pc = "send"
               /\ pc' = "get"
               /\ dropped' = dropped \cup ({frame} \ Handed)
               /\ UNCHANGED <<can_tx_msgq, can_tx_done_sem, can_tx_result,
                              can_frames_tx_ok, frame, mailbox, offered, handed,
                              outcome, verdict>>

\* k_sem_take succeeds.
TakeSem == /\ pc = "wait"
           /\ can_tx_done_sem = 1
           /\ can_tx_done_sem' = 0
           /\ pc' = "check"
           /\ UNCHANGED <<can_tx_msgq, can_tx_result, can_frames_tx_ok, frame,
                          mailbox, offered, dropped, handed, outcome, verdict>>

\* The thread leaves the loop body (a "continue", or its end) having
\* concluded v of the frame it has handed over.
Conclude(v) == /\ pc' = "get"
               /\ verdict' = [verdict EXCEPT ![Current] = v]
               /\ UNCHANGED <<can_tx_msgq, can_tx_done_sem, can_tx_result, frame,
                              mailbox, offered, dropped, handed, outcome>>

\* k_sem_take gives up after 200 ms; the controller keeps the frame.
Timeout == /\ pc = "wait"
           /\ can_tx_done_sem = 0
           /\ Conclude("timeout")
           /\ UNCHANGED can_frames_tx_ok

\* The thread reads can_tx_result.
Check == /\ pc = "check"
         /\ Conclude(can_tx_result)
         /\ can_frames_tx_ok' = IF can_tx_result = "ok" THEN can_frames_tx_ok + 1
                                                        ELSE can_frames_tx_ok

TxThread == Get \/ SendAccepted \/ SendRefused \/ TakeSem \/ Timeout \/ Check
-----------------------------------------------------------------------------
\* ccu_can_tx_callback, from the interrupt: the controller is done with any one
\* of the frames it holds.  k_sem_give saturates at the limit.
Complete == \E h \in mailbox, r \in Result :
    /\ mailbox' = mailbox \ {h}
    /\ outcome' = [outcome EXCEPT ![h] = r]
    /\ can_tx_result' = r
    /\ can_tx_done_sem' = 1
    /\ UNCHANGED <<can_tx_msgq, can_frames_tx_ok, thread, offered, dropped,
                   handed, verdict>>

\* The bus-off case of can_state_change_cb: k_msgq_purge empties the queue.
Purge == /\ can_tx_msgq' = << >>
         /\ dropped' = dropped \cup Queued
         /\ UNCHANGED <<can_tx_done_sem, can_tx_result, can_frames_tx_ok,
                        thread, mailbox, offered, handed, outcome, verdict>>

\* If the thread is already blocked on the empty queue, the purge wakes it:
\* k_msgq_get returns -ENOMSG, leaves frame as it was, and can_send is next.
PurgeWakes == /\ pc = "get"
              /\ can_tx_msgq = << >>
              /\ pc' = "send"
              /\ UNCHANGED <<can_tx_msgq, can_tx_done_sem, can_tx_result,
                             can_frames_tx_ok, frame, mailbox, offered, dropped,
                             handed, outcome, verdict>>

Next == Enqueue \/ TxThread \/ Complete \/ Purge \/ PurgeWakes

Spec == Init /\ [][Next]_vars

\* The scheduler runs the thread when it can run and every wait but the one on
\* the queue is bounded.  Nothing is assumed of the bus: a frame may never complete.
FairSpec == Spec /\ WF_vars(TxThread)
-----------------------------------------------------------------------------
TypeOK == /\ can_tx_msgq \in Seq(Frame)
          /\ Len(can_tx_msgq) <= Depth
          /\ can_tx_done_sem \in {0, 1}
          /\ can_tx_result \in Result
          /\ can_frames_tx_ok \in Nat
          /\ pc \in {"get", "send", "wait", "check"}
          /\ frame \in Frame \cup {NoFrame}
          /\ mailbox \in SUBSET HandOver
          /\ offered \in 0 .. MaxFrames
          /\ dropped \in SUBSET (Frame \cup {NoFrame})
          /\ handed \in Seq(Frame \cup {NoFrame})
          /\ Len(handed) <= MaxHandOvers
          /\ pc \in {"wait", "check"} => handed # << >>
          /\ outcome \in [HandOver -> Result \cup {"none"}]
          /\ verdict \in [HandOver -> Verdict]

\* No frame is lost track of: one that was offered is on the queue, in the
\* thread's hands, handed over, or dropped (refused by the full queue or by the
\* controller, or purged).  While it is on the queue it is nowhere else, and a
\* frame counted as dropped never reached the controller.
Accounted == \A f \in Frame :
    /\ f \in Queued => f \notin Held \cup Handed \cup dropped
    /\ f \in dropped => f \notin Handed
    /\ f <= offered <=> f \in Queued \cup Held \cup Handed \cup dropped

TimedOut == {h \in HandOver : verdict[h] = "timeout"}

\* The thread never resets can_tx_done_sem, so a late callback leaves a token
\* for a later frame.  Until a first wait has timed out, though, thread and
\* callback are in step: what the thread concludes of a frame, "ok" or "err", is
\* what the controller reported of that frame.
InStep == TimedOut = {} =>
    \A h \in HandOver : verdict[h] \in Result => verdict[h] = outcome[h]

\* Even out of step, a frame is only counted as sent when the controller has
\* sent that frame or one handed over before it: callbacks lag, they never lead.
OkHasWitness == \A h \in HandOver : verdict[h] = "ok" => \E g \in Acked : g <= h

\* Each count is paid for by a callback of its own, however late they come.
CountedOnce == can_frames_tx_ok + can_tx_done_sem <= Cardinality(Completed)

\* The stats line of ccu_can_periodic_thread (can_converter_can.c:218) reports
\* can_frames_tx_ok as "CAN TX ok": frames sent on the bus.  Violated: with two
\* frames in the controller, the failure of the first gives the token and the
\* success of the second both overwrites the result and leaves another token.
OkCountIsAcked == can_frames_tx_ok <= Cardinality(Acked)

\* Frames reach the controller in the order in which they were offered, whatever
\* is refused, timed out or purged; one that comes again comes before any newer.
InOrder == \A g, h \in DOMAIN handed : g < h => handed[g] <= handed[h]

\* can_converter_can.c:215 takes the "frames enqueued in the last 1 s window" for
\* the rate on the bus, "== Hz directly": a frame enqueued once is sent at most
\* once.  Violated: the purge at bus-off wakes the thread blocked on the empty
\* queue, and it sends the frame it has already sent.
SentOnce == \A g, h \in DOMAIN handed :
    g # h /\ handed[g] \in Frame => handed[g] # handed[h]

\* The transmit path is a lossy first-in first-out queue that repeats a frame
\* only when the queue was purged while it was empty.
Fifo == INSTANCE LossyFifo WITH
    Capacity <- Depth,
    waiting <- can_tx_msgq,
    turn <- frame,
    due <- (pc = "send")
Refines == Fifo!Spec

\* No frame stays on the queue for ever, even when the bus never acknowledges.
QueueDrains == \A f \in Frame : (f \in Queued) ~> (f \notin Queued)
=============================================================================
