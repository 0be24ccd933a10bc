----------------------------- MODULE Broadcast -----------------------------
(***************************************************************************)
(* ccu_can_periodic_thread of can_converter_can.c: when it offers which    *)
(* frames of the master data to the transmit queue, its suspension during  *)
(* a firmware update, and the second on which it reports.  The test        *)
(* button, which offers frames to the same queue meanwhile, is the other   *)
(* producer.                                                               *)
(*                                                                         *)
(* The thread wakes up every 10 ms.  A tick takes a snapshot, of which     *)
(* only the "valid" flags matter here, and offers the frames that are due  *)
(* one by one to the transmit queue, which others empty meanwhile.  How a  *)
(* frame fares on the queue is CanTx, how a snapshot is taken DataStore.   *)
(*                                                                         *)
(* frame_counts, which the button increments too, is FrameCounts; here are *)
(* the frames that the thread itself offers between two reports.           *)
(***************************************************************************)
EXTENDS Naturals, Sequences, FiniteSets

CONSTANTS
    Short,          \* ticks of 10 ms between two frames of 10 Hz (10)
    Long,           \* ticks between two frames of 1 Hz (100)
    Stats,          \* ticks between two reports (100)
    Slow,           \* reports between two unassigned frames (10)
    Depth,          \* slots of can_tx_msgq (32)
    ButtonFrames,   \* frames the test button always sends (9)
    Arriving        \* bound of the model: the payloads the master ever sends

\* As in the code, a report spans whole periods of every frame.
ASSUME PeriodAssumption == /\ {Short, Long, Stats, Slow, Depth} \subseteq Nat \ {0}
                           /\ Long % Short = 0 /\ Stats % Long = 0
ASSUME ButtonAssumption == ButtonFrames \in Nat

Payload == {"master_status", "master_faults", "master_measurements",
            "protium_operating_state", "protium_values"}

ASSUME ArrivingAssumption == Arriving \subseteq Payload

\* The frames of each payload, in the order in which they are sent, by how often
\* they are due: at every tick, at 10 Hz, at 1 Hz and at 0.1 Hz.
StateFrames == <<"mcu_state">>
FaultFrames == <<"mcu_faults">>
ShortFrames == <<"mcu_analog_speed", "mcu_analog_powertrain",
                 "mcu_analog_fuel_cell", "mcu_analog_accessory">>
InputFrames == <<"mcu_analog_pedals", "mcu_inputs">>
ProtiumStateFrames == <<"protium_state">>
ProtiumFrames == <<"protium_power", "protium_thermal", "protium_hydrogen",
                   "protium_setpoints", "protium_stasis", "protium_misc">>
SlowFrames == <<"mcu_analog_unassigned">>

Elements(s) == {s[i] : i \in DOMAIN s}

FastKind == Elements(StateFrames) \cup Elements(FaultFrames)
ShortKind == Elements(ShortFrames)
LongKind == Elements(InputFrames) \cup Elements(ProtiumStateFrames) \cup Elements(ProtiumFrames)
Kind == FastKind \cup ShortKind \cup LongKind \cup Elements(SlowFrames)

\* The payload a kind of frame is packed from.
PayloadOf(k) ==
    CASE k = "mcu_state" -> "master_status"
      [] k = "mcu_faults" -> "master_faults"
      [] k = "protium_state" -> "protium_operating_state"
      [] k \in Elements(ProtiumFrames) -> "protium_values"
      [] OTHER -> "master_measurements"

\* The most frames one tick offers: all of them (16, when all payloads arrive).
Burst == Cardinality({k \in Kind : PayloadOf(k) \in Arriving})

VARIABLES
    pc,             \* "sleep" or "send"
    cnt_100ms, cnt_1000ms, cnt_1s, cnt_unassign,
    plan,           \* frames still to be offered in this tick
    valid,          \* payloads of the shared data that are valid
    dfu,            \* can_dfu_is_active()
    queue,          \* number of frames on can_tx_msgq
    button,         \* frames the test button's callback has still to offer
    made,           \* history: frames the thread has offered since the last report
    leftover,       \* history: in an update, frames it has offered since that began
    whole,          \* history: payloads valid, unsuspended, since the last report
    need,           \* history: slots that do since the tick began, with none emptied
    dropped         \* history: a frame has found the queue full since the tick began

timers == <<cnt_100ms, cnt_1000ms, cnt_1s, cnt_unassign>>
history == <<made, leftover, whole, need, dropped>>
vars == <<pc, timers, plan, valid, dfu, queue, button, history>>

Init == /\ pc = "sleep"
        /\ cnt_100ms = 0 /\ cnt_1000ms = 0 /\ cnt_1s = 0 /\ cnt_unassign = 0
        /\ plan = << >>
        /\ valid = {}
        /\ dfu = FALSE
        /\ queue = 0
        /\ button = 0
        /\ made = [k \in Kind |-> 0]
        /\ leftover = 0 /\ whole = {} /\ need = 0 /\ dropped = FALSE
-----------------------------------------------------------------------------
(* When a counter, already incremented, is due.                              *)

ShortDueEarly(c) == c >= Short - 1      \* a mistake, exchanged for ShortDue
ShortDue(c) == c >= Short
LongDueLate(c) == c > Long              \* a mistake, exchanged for LongDue
LongDue(c) == c >= Long
StatsDue(c) == c >= Stats
SlowDue(c) == c >= Slow

RestartForgotten(c, due) == c           \* a mistake, exchanged for Restart
Restart(c, due) == IF due THEN 0 ELSE c

\* More slots than there are make no difference.
Capped(n) == IF n <= Depth THEN n ELSE Depth + 1

If(condition, frames) == IF condition THEN frames ELSE << >>
From(v, p, frames) == IF p \in v THEN frames ELSE << >>

\* A mistake, exchanged for Plan: a tick that sends the 1 Hz frames sends the
\* 10 Hz frames a second time.
PlanRepeats(v, short, long, slow) ==
    From(v, "master_status", StateFrames)
    \o If(short, From(v, "master_measurements", ShortFrames))
    \o If(long, From(v, "master_measurements",
                     ShortFrames \o InputFrames))
    \o If(slow, From(v, "master_measurements", SlowFrames))

\* The frames a tick offers, in order.
Plan(v, short, long, slow) ==
    From(v, "master_status", StateFrames)
    \o From(v, "master_faults", FaultFrames)
    \o If(short, From(v, "master_measurements", ShortFrames))
    \o If(long, From(v, "master_measurements", InputFrames)
                \o From(v, "protium_operating_state", ProtiumStateFrames)
                \o From(v, "protium_values", ProtiumFrames))
    \o If(slow, From(v, "master_measurements", SlowFrames))

\* A mistake, exchanged for Tick: can_dfu_is_active() is not asked.
TickUngated ==
    LET short == ShortDue(cnt_100ms + 1)
        long == LongDue(cnt_1000ms + 1)
    IN  /\ pc = "sleep"
        /\ cnt_100ms' = Restart(cnt_100ms + 1, short)
        /\ cnt_1000ms' = Restart(cnt_1000ms + 1, long)
        /\ cnt_1s' = Restart(cnt_1s + 1, StatsDue(cnt_1s + 1))
        /\ plan' = Plan(valid, short, long, FALSE)
        /\ pc' = "send"
        /\ UNCHANGED <<cnt_unassign, valid, dfu, queue, button, history>>

\* A tick outside an update: snapshot, counters and the frames that are due.
Tick == LET short == ShortDue(cnt_100ms + 1)
            long == LongDue(cnt_1000ms + 1)
            stats == StatsDue(cnt_1s + 1)
            slow == stats /\ SlowDue(cnt_unassign + 1)
        IN  /\ pc = "sleep"
            /\ ~dfu
            /\ cnt_100ms' = Restart(cnt_100ms + 1, short)
            /\ cnt_1000ms' = Restart(cnt_1000ms + 1, long)
            /\ cnt_1s' = Restart(cnt_1s + 1, stats)
            /\ cnt_unassign' = Restart(cnt_unassign + (IF stats THEN 1 ELSE 0), slow)
            /\ plan' = Plan(valid, short, long, slow)
            /\ pc' = "send"
            /\ need' = Capped(queue + Burst + button)
            /\ dropped' = FALSE
            /\ UNCHANGED <<valid, dfu, queue, button, made, leftover, whole>>

\* Mistakes, exchanged for Suspended: only one counter restarts; the thread
\* leaves its loop.
SuspendedPartly ==
    /\ pc = "sleep"
    /\ dfu
    /\ cnt_1000ms' = 0
    /\ whole' = {}
    /\ UNCHANGED <<pc, cnt_100ms, cnt_1s, cnt_unassign, plan, valid, dfu, queue, button,
                   made, leftover, need, dropped>>

SuspendedBreaks ==
    /\ pc = "sleep"
    /\ dfu
    /\ pc' = "stopped"
    /\ UNCHANGED <<timers, plan, valid, dfu, queue, button, history>>

\* A tick during an update: nothing is sent and two of the counters restart.
Suspended == /\ pc = "sleep"
             /\ dfu
             /\ cnt_100ms' = 0
             /\ cnt_1000ms' = 0
             /\ whole' = {}
             /\ UNCHANGED <<pc, cnt_1s, cnt_unassign, plan, valid, dfu, queue, button,
                            made, leftover, need, dropped>>

\* enqueue_frame: the frame is put on the queue, or dropped if there is no room.
Enqueue == \/ queue < Depth /\ queue' = queue + 1 /\ UNCHANGED dropped
           \/ queue = Depth /\ dropped' = TRUE /\ UNCHANGED queue

\* The next of the tick's calls of a send_ function.
Send == /\ pc = "send"
        /\ plan # << >>
        /\ plan' = Tail(plan)
        /\ Enqueue
        /\ made' = [made EXCEPT ![Head(plan)] = @ + 1]
        /\ leftover' = IF dfu THEN leftover + 1 ELSE 0
        /\ UNCHANGED <<pc, timers, valid, dfu, button, whole, need>>

\* Whether the tick in progress ends with a report: cnt_1s has just restarted.
Reporting == pc = "send" /\ plan = << >> /\ cnt_1s = 0

Report == /\ Reporting
          /\ made' = [k \in Kind |-> 0]
          /\ pc' = "sleep"
          /\ whole' = valid
          /\ UNCHANGED <<timers, plan, valid, dfu, queue, button, leftover, need, dropped>>

EndTick == /\ pc = "send"
           /\ plan = << >>
           /\ cnt_1s # 0
           /\ pc' = "sleep"
           /\ UNCHANGED <<timers, plan, valid, dfu, queue, button, history>>

PeriodicThread == Tick \/ Suspended \/ Send \/ Report \/ EndTick
-----------------------------------------------------------------------------
(* Around the thread.                                                        *)

\* ccu_can_test_send_all, called by the button's callback in another thread, at any
\* moment of a tick and also during an update; protium_state only if it is valid.
Press == /\ button = 0
         /\ button' = ButtonFrames + (IF "protium_operating_state" \in valid THEN 1 ELSE 0)
         /\ need' = Capped(need + button')
         /\ UNCHANGED <<pc, timers, plan, valid, dfu, queue, made, leftover, whole, dropped>>

\* The next of its calls of a send_ function.
ButtonSend == /\ button > 0
              /\ button' = button - 1
              /\ Enqueue
              /\ UNCHANGED <<pc, timers, plan, valid, dfu, made, leftover, whole, need>>

\* on_frame: a payload is decoded for the first time; it stays valid.
Receive == /\ \E p \in Arriving \ valid : valid' = valid \cup {p}
           /\ UNCHANGED <<pc, timers, plan, dfu, queue, button, history>>

\* The transmit thread takes a frame off the queue.
Drain == /\ queue > 0
         /\ queue' = queue - 1
         /\ UNCHANGED <<pc, timers, plan, valid, dfu, button, history>>

\* A firmware update begins, at any moment of a tick, and ends.
DfuStart == /\ ~dfu
            /\ dfu' = TRUE
            /\ leftover' = 0
            /\ UNCHANGED <<pc, timers, plan, valid, queue, button, made, whole, need, dropped>>

DfuEnd == /\ dfu
          /\ dfu' = FALSE
          /\ leftover' = 0
          /\ UNCHANGED <<pc, timers, plan, valid, queue, button, made, whole, need, dropped>>

Next == PeriodicThread \/ Press \/ ButtonSend \/ Receive \/ Drain \/ DfuStart \/ DfuEnd

Spec == Init /\ [][Next]_vars

\* The thread keeps waking up and running.  Nothing is assumed of the rest.
FairSpec == Spec /\ WF_vars(PeriodicThread)
-----------------------------------------------------------------------------
TypeOK == /\ pc \in {"sleep", "send"}
          /\ cnt_100ms \in 0 .. Short - 1
          /\ cnt_1000ms \in 0 .. Long - 1
          /\ cnt_1s \in 0 .. Stats - 1
          /\ cnt_unassign \in 0 .. Slow - 1
          /\ plan \in Seq(Kind) /\ Len(plan) <= Burst
          /\ valid \in SUBSET Arriving
          /\ dfu \in BOOLEAN
          /\ queue \in 0 .. Depth
          /\ button \in 0 .. ButtonFrames + 1
          /\ made \in [Kind -> Nat]
          /\ leftover \in Nat
          /\ whole \in SUBSET Arriving
          /\ need \in 0 .. Depth + 1
          /\ dropped \in BOOLEAN

\* The 10 Hz frames keep their place relative to the 1 Hz frames whatever
\* updates come in between: they fall due in the same tick.
PhaseAligned == cnt_100ms = cnt_1000ms % Short

\* Once an update is active the thread offers no more than the rest of the tick
\* it was in: "suspend all periodic TX".  This is of the thread; the test button is
\* not held back (see Ccu).
LeftoverBounded == dfu => leftover + Len(plan) <= Burst

\* No frame is dropped from the beginning of one tick to the next, neither of the
\* thread nor of the button, if the queue then had room for a tick of Burst frames,
\* what the button had still to send, and what it was pressed to send since:
\* however slowly the queue is emptied meanwhile, and in whichever order they come.
NoDropWithRoom == dropped => need > Depth

\* Frames of a kind in the time between two reports.
Nominal(k) == CASE k \in FastKind -> Stats
                [] k \in ShortKind -> Stats \div Short
                [] k \in LongKind -> Stats \div Long

\* From one report to the next the thread offers exactly its share of the frames of a
\* payload that was valid, with no update under way, all that time; even when an
\* earlier update has shifted the frames against the reports.  The report reads
\* frame_counts, to which the button adds; what that does to it is FrameCounts.
CadenceExact == Reporting => \A k \in Kind \ {"mcu_analog_unassigned"} :
    PayloadOf(k) \in whole => made[k] = Nominal(k)

\* Between two reports the thread never offers more frames of a kind than its share,
\* whatever updates interfere.
CadenceBounded == \A k \in Kind :
    made[k] <= IF k = "mcu_analog_unassigned" THEN 1 ELSE Nominal(k)

\* One frame of each rate stands for its kin: they are offered together.
OneOfEachRate == {"mcu_state", "mcu_analog_speed", "mcu_analog_pedals", "mcu_analog_unassigned"}

\* Once updates are over, every frame of a payload that has become valid is sent
\* again and again: no series of updates, however timed, silences a frame for good.
BroadcastResumes == <>[]~dfu =>
    \A k \in OneOfEachRate : [](PayloadOf(k) \in valid => <>(plan # << >> /\ Head(plan) = k))
=============================================================================
