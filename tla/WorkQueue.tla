----------------------------- MODULE WorkQueue -----------------------------
(***************************************************************************)
(* The system work queue and those that meet there: the recovery from      *)
(* bus-off and the activity LEDs, next to the threads and interrupts that  *)
(* give them work.                                                         *)
(*                                                                         *)
(* The queue is one cooperative thread and runs one handler at a time, in  *)
(* the order in which the delays end.  A handler that blocks, as           *)
(* bus_off_recovery_handler does in can_recover, lets the other threads    *)
(* run but keeps the queue; a handler that does not block, as those of the *)
(* LEDs, lets no other thread run before it returns.  Interrupts come at   *)
(* any moment: those of the CAN controller, and with them the received     *)
(* frames of an update, whose callbacks are taken to come at any moment.   *)
(***************************************************************************)
EXTENDS BusRecovery, ActivityLeds

allVars == <<vars, ledVars>>

QueueInit == Init /\ LedInit

\* bus_off_recovery_handler is not under way.
QueueFree == handler = "idle"
-----------------------------------------------------------------------------
(* The queue.                                                                *)

BeginRecovery == Preemptible /\ Attempt /\ UNCHANGED ledVars

GoOn == Proceed /\ UNCHANGED ledVars

Recovering == Recover /\ UNCHANGED ledVars

BeginSwitchOff == QueueFree /\ Expire /\ UNCHANGED vars

EndSwitchOff == SwitchOff /\ UNCHANGED vars
-----------------------------------------------------------------------------
(* Everything else.                                                          *)

Controller == (Worsen \/ Improve \/ ComeBack) /\ UNCHANGED ledVars

Update == (DfuStart \/ DfuEnd) /\ UNCHANGED ledVars

\* The receive filter is installed after the callback.
Frame == Registered /\ RxFlash /\ UNCHANGED vars

Main == Preemptible /\ (Boot \/ Ready) /\ UNCHANGED ledVars

\* The transmit thread, once ccu_can_init has created it.
TxThread == /\ boot \in {"threads", "done"}
            /\ TxFlash \/ TxReschedule
            /\ UNCHANGED vars

\* The callback of the test button, which ccu_board_init has installed before
\* main is done.
ButtonThread == /\ boot \in {"threads", "done"}
                /\ Button
                /\ UNCHANGED vars

QueueNext == \/ BeginRecovery \/ GoOn \/ BeginSwitchOff \/ EndSwitchOff
             \/ Controller \/ Update \/ Frame \/ Main \/ TxThread \/ ButtonThread

QueueSpec == QueueInit /\ [][QueueNext]_allVars

\* A handler that has begun goes on.  The queue is served in the order in which
\* the delays end, so that the LEDs, flashing again and again, do not keep the
\* recovery waiting.  Attempts repeated for ever do not fail for ever.
FairQueueSpec == /\ QueueSpec
                 /\ WF_allVars(GoOn)
                 /\ WF_allVars(EndSwitchOff)
                 /\ SF_allVars(BeginRecovery)
                 /\ SF_allVars(Recovering)
=============================================================================
