---------------------------- MODULE BusRecovery ----------------------------
(***************************************************************************)
(* Error states of the CAN controller: can_state_change_cb and             *)
(* bus_off_recovery_handler of can_converter_can.c, the order in which     *)
(* ccu_can_init and main set them up, and what the status LED shows        *)
(* meanwhile, to which can_converter_dfu.c and main write as well.  The    *)
(* work queue and the fairness of its handlers are in WorkQueue.           *)
(*                                                                         *)
(* The driver calls can_state_change_cb from an interrupt at each change   *)
(* of state.  bus_off_recovery_handler runs on the system work queue and   *)
(* blocks there in can_recover for up to 100 ms; the state may change at   *)
(* any time meanwhile.  The delays of 100 ms and 1 s before an attempt     *)
(* pass when they like.                                                    *)
(*                                                                         *)
(* The CAN driver is external.  A controller goes bus-off only by sending, *)
(* and nothing is sent before the threads exist.  In the mode of manual    *)
(* recovery it then stays off unless can_recover is called, though it may  *)
(* come back after that call has given up; otherwise it comes back by      *)
(* itself and can_recover returns -ENOTSUP, which the handler takes for a  *)
(* success.  prj.conf makes the mode available                             *)
(* (CONFIG_CAN_MANUAL_RECOVERY_MODE); whether can_init, which is external, *)
(* chooses it is left open, and the handler is written for both.  A        *)
(* controller that is stopped is not modelled: the callback ignores that   *)
(* state.                                                                  *)
(***************************************************************************)
EXTENDS Naturals

\* main, and within it ccu_can_init: what has been done so far.
BootStep == {"reset", "started", "callback", "threads", "done"}
BusState == {"active", "warning", "passive", "off"}
Led == {"none", "operational", "warning", "bus_off", "dfu"}

VARIABLES
    manual,         \* the mode of the controller, fixed by can_init
    boot,           \* how far main has come
    bus,            \* state of the CAN controller
    led,            \* the latest status_led_set
    work,           \* bus_off_recovery_work: "idle" or "scheduled"
    handler,        \* "idle", "recovering", or about to act on can_recover's result
    dfu             \* a firmware update is active

vars == <<manual, boot, bus, led, work, handler, dfu>>

Init == /\ manual \in BOOLEAN
        /\ boot = "reset"
        /\ bus = "active"
        /\ led = "none"
        /\ work = "idle"
        /\ handler = "idle"
        /\ dfu = FALSE
-----------------------------------------------------------------------------
(* The controller, and can_state_change_cb within the same interrupt.        *)

Registered == boot \in {"callback", "threads", "done"}

\* A mistake, exchanged for Notify: the state is passed on as if it were an LED
\* pattern.
NotifyRaw(state) ==
    IF Registered
    THEN led' = state /\ work' = IF state = "off" THEN "scheduled" ELSE work
    ELSE UNCHANGED <<led, work>>

\* can_state_change_cb.  The queue it purges when off is CanTx!Purge.
Notify(state) ==
    IF Registered
    THEN /\ led' = CASE state = "active" -> "operational"
                     [] state \in {"warning", "passive"} -> "warning"
                     [] state = "off" -> "bus_off"
         /\ work' = IF state = "off" THEN "scheduled" ELSE work
    ELSE UNCHANGED <<led, work>>

Enter(state) == bus' = state /\ Notify(state)

\* Error counters rise: one state worse.
Worsen == /\ boot # "reset"
          /\ \/ bus = "active" /\ Enter("warning")
             \/ bus = "warning" /\ Enter("passive")
             \/ bus = "passive" /\ boot \in {"threads", "done"} /\ Enter("off")
          /\ UNCHANGED <<manual, boot, handler, dfu>>

\* Error counters fall.
Improve == /\ \/ bus = "warning" /\ Enter("active")
              \/ bus = "passive" /\ Enter("warning")
           /\ UNCHANGED <<manual, boot, handler, dfu>>

\* The controller returns from bus-off by itself, or after can_recover gave up.
ComeBack == /\ bus = "off"
            /\ Enter("active")
            /\ UNCHANGED <<manual, boot, handler, dfu>>
-----------------------------------------------------------------------------
(* bus_off_recovery_handler.                                                 *)

\* The delay has passed and the work queue calls the handler.
Attempt == /\ work = "scheduled"
           /\ handler = "idle"
           /\ work' = "idle"
           /\ handler' = "recovering"
           /\ UNCHANGED <<manual, boot, bus, led, dfu>>

\* can_recover brings the controller back; the driver reports the change.
Recover == /\ handler = "recovering"
           /\ manual
           /\ bus = "off"
           /\ Enter("active")
           /\ handler' = "recovered"
           /\ UNCHANGED <<manual, boot, dfu>>

\* can_recover has nothing to do: not off, or -ENOTSUP.
NothingToRecover == /\ handler = "recovering"
                    /\ bus # "off" \/ ~manual
                    /\ handler' = "recovered"
                    /\ UNCHANGED <<manual, boot, bus, led, work, dfu>>

\* can_recover gives up after 100 ms.
RecoverFails == /\ handler = "recovering"
                /\ manual
                /\ bus = "off"
                /\ handler' = "failed"
                /\ UNCHANGED <<manual, boot, bus, led, work, dfu>>

\* Mistakes, exchanged for Retry: one attempt only; the LED shows bus-off again.
RetryForgotten == /\ handler = "failed"
                  /\ handler' = "idle"
                  /\ UNCHANGED <<manual, boot, bus, led, work, dfu>>

RetryShowsAlarm == /\ handler = "failed"
                   /\ work' = "scheduled"
                   /\ handler' = "idle"
                   /\ led' = "bus_off"
                   /\ UNCHANGED <<manual, boot, bus, dfu>>

Retry == /\ handler = "failed"
         /\ work' = "scheduled"
         /\ handler' = "idle"
         /\ UNCHANGED <<manual, boot, bus, led, dfu>>

\* A mistake, exchanged for Settle: a success cancels the work.
SettleCancels == /\ handler = "recovered"
                 /\ led' = "operational"
                 /\ work' = "idle"
                 /\ handler' = "idle"
                 /\ UNCHANGED <<manual, boot, bus, dfu>>

Settle == /\ handler = "recovered"
          /\ led' = "operational"
          /\ handler' = "idle"
          /\ UNCHANGED <<manual, boot, bus, work, dfu>>

\* The handler, once it has begun, goes on.
Proceed == Recover \/ NothingToRecover \/ RecoverFails \/ Retry \/ Settle
-----------------------------------------------------------------------------
(* main and ccu_can_init, and the firmware update's callbacks.               *)

\* ccu_can_init: can_init starts the controller; the callback is registered; the
\* threads are created.
Boot == /\ \/ boot = "reset" /\ boot' = "started"
           \/ boot = "started" /\ boot' = "callback"
           \/ boot = "callback" /\ boot' = "threads"
        /\ UNCHANGED <<manual, bus, led, work, handler, dfu>>

\* main has set up the other parts and lights the LED.
Ready == /\ boot = "threads"
         /\ boot' = "done"
         /\ led' = "operational"
         /\ UNCHANGED <<manual, bus, work, handler, dfu>>

\* on_dfu_start and on_dfu_end, once ccu_dfu_init has been called.
DfuStart == /\ Registered
            /\ ~dfu
            /\ dfu' = TRUE
            /\ led' = "dfu"
            /\ UNCHANGED <<manual, boot, bus, work, handler>>

DfuEnd == /\ dfu
          /\ dfu' = FALSE
          /\ led' = "operational"
          /\ UNCHANGED <<manual, boot, bus, work, handler>>

Next == \/ Worsen \/ Improve \/ ComeBack \/ Attempt \/ Proceed
        \/ Boot \/ Ready \/ DfuStart \/ DfuEnd

Spec == Init /\ [][Next]_vars
-----------------------------------------------------------------------------
TypeOK == /\ manual \in BOOLEAN
          /\ boot \in BootStep
          /\ bus \in BusState
          /\ led \in Led
          /\ work \in {"idle", "scheduled"}
          /\ handler \in {"idle", "recovering", "recovered", "failed"}
          /\ dfu \in BOOLEAN

\* Another attempt is to come, or one is under way that has not succeeded.
Pursued == work = "scheduled" \/ handler \in {"recovering", "failed"}

\* A controller that is off for good is never forgotten, also when it goes off
\* again while the handler is still dealing with the last time, and from the
\* first frame the threads may send after a reset.
OffIsPursued == manual /\ bus = "off" => Pursued

\* An alarm on the LED is never out of date: the LED shows bus-off or a warning
\* only while the controller is in that state.  (The converse does not hold:
\* Settle, DfuEnd and Ready show "operational" whatever the state is.)
AlarmIsCurrent == /\ led = "bus_off" => bus = "off"
                  /\ led = "warning" => bus \in {"warning", "passive"}

\* With manual recovery the bus comes back as often as it goes off.
BusComesBack == manual /\ bus = "off" ~> bus # "off"
=============================================================================
