---------------------------- MODULE ActivityLeds ----------------------------
(***************************************************************************)
(* The two activity LEDs of the CAN interface: ccu_can_test_set, the       *)
(* handlers that switch an LED off 50 ms after it flashed, and the two     *)
(* places that flash one, ccu_can_tx_thread and ccu_dfu_rx_cb, all of      *)
(* can_converter_can.c; with on_test_button of can_converter.c.            *)
(*                                                                         *)
(* The transmit thread and the button's callback are threads that          *)
(* interleave.  The handlers run on the system work queue, a cooperative   *)
(* thread: no other thread runs before a handler has returned, but the     *)
(* interrupt that calls ccu_dfu_rx_cb may come at any moment.              *)
(***************************************************************************)
EXTENDS Naturals, Sequences

ActivityLed == {"rx", "tx"}

VARIABLES
    test_active,
    lit,            \* the LEDs
    off_work,       \* tx_led_off_work and rx_led_off_work: "idle" or "scheduled"
    off_handler,    \* the LED whose handler is about to switch it off, or "none"
    tx_thread,      \* "idle", or "flash" between gpio_set and k_work_reschedule
    button,         \* "idle", "on", "test" or "off": where on_test_button is
    todo            \* LEDs ccu_can_test_set has still to switch, in order

ledVars == <<test_active, lit, off_work, off_handler, tx_thread, button, todo>>

LedInit == /\ test_active = FALSE
           /\ lit = [l \in ActivityLed |-> FALSE]
           /\ off_work = [l \in ActivityLed |-> "idle"]
           /\ off_handler = "none"
           /\ tx_thread = "idle"
           /\ button = "idle"
           /\ todo = << >>

\* A thread other than the work queue may run.
Preemptible == off_handler = "none"
-----------------------------------------------------------------------------
(* Flashes.                                                                  *)

\* The transmit thread has sent a frame.
TxFlash == /\ Preemptible
           /\ tx_thread = "idle"
           /\ lit' = [lit EXCEPT !["tx"] = TRUE]
           /\ tx_thread' = "flash"
           /\ UNCHANGED <<test_active, off_work, off_handler, button, todo>>

TxReschedule == /\ Preemptible
                /\ tx_thread = "flash"
                /\ off_work' = [off_work EXCEPT !["tx"] = "scheduled"]
                /\ tx_thread' = "idle"
                /\ UNCHANGED <<test_active, lit, off_handler, button, todo>>

\* ccu_dfu_rx_cb, in an interrupt.
RxFlash == /\ lit' = [lit EXCEPT !["rx"] = TRUE]
           /\ off_work' = [off_work EXCEPT !["rx"] = "scheduled"]
           /\ UNCHANGED <<test_active, off_handler, tx_thread, button, todo>>
-----------------------------------------------------------------------------
(* tx_led_off_handler and rx_led_off_handler.                                *)

\* A mistake, exchanged for Expire: the handler does not ask for the test.
ExpireAlways == \E l \in ActivityLed :
    /\ Preemptible
    /\ off_work[l] = "scheduled"
    /\ off_work' = [off_work EXCEPT ![l] = "idle"]
    /\ off_handler' = l
    /\ UNCHANGED <<test_active, lit, tx_thread, button, todo>>

\* 50 ms have passed: the handler starts and reads test_active.
Expire == \E l \in ActivityLed :
    /\ Preemptible
    /\ off_work[l] = "scheduled"
    /\ off_work' = [off_work EXCEPT ![l] = "idle"]
    /\ off_handler' = IF test_active THEN "none" ELSE l
    /\ UNCHANGED <<test_active, lit, tx_thread, button, todo>>

SwitchOff == /\ off_handler # "none"
             /\ lit' = [lit EXCEPT ![off_handler] = FALSE]
             /\ off_handler' = "none"
             /\ UNCHANGED <<test_active, off_work, tx_thread, button, todo>>
-----------------------------------------------------------------------------
(* on_test_button.                                                           *)

\* A mistake, exchanged for TestSet: only one LED is switched.
TestSetOne(active, phase) ==
    /\ test_active' = active
    /\ todo' = <<"rx">>
    /\ button' = phase
    /\ UNCHANGED <<lit, off_work, off_handler, tx_thread>>

\* ccu_can_test_set: test_active first, then the LEDs.
TestSet(active, phase) ==
    /\ test_active' = active
    /\ todo' = <<"rx", "tx">>
    /\ button' = phase
    /\ UNCHANGED <<lit, off_work, off_handler, tx_thread>>

Press == Preemptible /\ button = "idle" /\ TestSet(TRUE, "on")

\* gpio_set or gpio_reset; after the last one the callback goes on: it sends its
\* frames and sleeps for two seconds, or it returns.
Switch == /\ Preemptible
          /\ todo # << >>
          /\ lit' = [lit EXCEPT ![Head(todo)] = (button = "on")]
          /\ todo' = Tail(todo)
          /\ button' = IF todo' # << >> THEN button
                       ELSE IF button = "on" THEN "test" ELSE "idle"
          /\ UNCHANGED <<test_active, off_work, off_handler, tx_thread>>

Release == Preemptible /\ button = "test" /\ TestSet(FALSE, "off")

Button == Press \/ Switch \/ Release

LedNext == TxFlash \/ TxReschedule \/ RxFlash \/ Expire \/ SwitchOff \/ Button

LedSpec == LedInit /\ [][LedNext]_ledVars
-----------------------------------------------------------------------------
\* "lighting all LEDs": both LEDs stay lit for the two seconds of the test,
\* though every flash before and during it wants its LED off again.
LitDuringTest == button = "test" => \A l \in ActivityLed : lit[l]

\* Someone is going to switch the LED off: its handler, the thread that has just
\* flashed it, or the button, whose test is not over yet.
OffIsComing(l) == \/ off_work[l] = "scheduled" \/ off_handler = l
                  \/ l = "tx" /\ tx_thread = "flash"
                  \/ button \in {"on", "test"}
                  \/ \E i \in DOMAIN todo : todo[i] = l

\* No LED stays lit for good: neither a handler that finds the test active nor
\* the end of the test leaves behind a lit LED that nobody attends to.
NeverStuck == \A l \in ActivityLed : lit[l] => OffIsComing(l)
=============================================================================
