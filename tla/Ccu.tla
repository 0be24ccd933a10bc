-------------------------------- MODULE Ccu --------------------------------
(***************************************************************************)
(* The unit from end to end: messages of the master reach the shared data, *)
(* the periodic thread of can_converter_can.c and the test button's        *)
(* callback of can_converter.c each take a snapshot and send frames from   *)
(* it, and one thread hands their frames over to the CAN controller.       *)
(*                                                                         *)
(* The parts that other modules model in detail are here what those are    *)
(* shown to implement: the shared data AtomicStore, the transmit path      *)
(* LossyFifo.  Which frames a tick sends is Broadcast; here it is any of   *)
(* those that may be due.  A frame carries the number of the message its   *)
(* payload is from, 0 when it is packed from data that never arrived.      *)
(* What the controller does with the frames it has been given, when they   *)
(* reach the bus and in which order, is CanTx's; nothing is said of it     *)
(* here.                                                                   *)
(***************************************************************************)
EXTENDS Naturals, Sequences, FiniteSets

CONSTANTS Capacity,     \* of LossyFifo
          Shown,        \* bound of the model: the kinds of frame it follows
          MaxMessages,  \* bound of the model: messages of the master
          MaxFrames,    \* bound of the model: frames offered
          MaxHandOvers, \* bound of the model: frames handed over to the controller
          MaxPresses    \* bound of the model: presses of the test button

\* The frames of a tick and of the test button, each in the order of the code.
PeriodicOrder ==
    <<"mcu_state", "mcu_faults", "mcu_analog_speed", "mcu_analog_powertrain",
      "mcu_analog_fuel_cell", "mcu_analog_accessory", "mcu_analog_pedals", "mcu_inputs",
      "protium_state", "protium_power", "protium_thermal", "protium_hydrogen",
      "protium_setpoints", "protium_stasis", "protium_misc", "mcu_analog_unassigned">>

ButtonOrder ==
    <<"mcu_analog_speed", "mcu_analog_pedals", "mcu_analog_powertrain",
      "mcu_analog_fuel_cell", "mcu_analog_accessory", "mcu_analog_unassigned",
      "mcu_inputs", "mcu_state", "mcu_faults", "protium_state">>

PayloadOf(k) ==
    CASE k = "mcu_state" -> "master_status"
      [] k = "mcu_faults" -> "master_faults"
      [] k = "protium_state" -> "protium_operating_state"
      [] k \in {"protium_power", "protium_thermal", "protium_hydrogen",
                "protium_setpoints", "protium_stasis", "protium_misc"} -> "protium_values"
      [] OTHER -> "master_measurements"

Reader == {"periodic", "button"}
Order == [periodic |-> PeriodicOrder, button |-> ButtonOrder]
Kinds(r) == {Order[r][i] : i \in DOMAIN Order[r]}
Place(r, k) == CHOOSE i \in DOMAIN Order[r] : Order[r][i] = k

ASSUME ShownAssumption == Shown \subseteq Kinds("periodic")
ASSUME CapacityAssumption == Capacity \in Nat \ {0}

Payload == {PayloadOf(k) : k \in Shown}

VARIABLES
    arrived, store, snap,       \* the shared data, see AtomicStore
    offered, waiting, turn, due, handed,    \* the transmit path, see LossyFifo
    pc,             \* the periodic thread: "asleep", "awake" or "sending"
    plan,           \* for each reader, the frames it is still to send
    dfu,            \* can_dfu_is_active()
    content,        \* history: what each frame offered is, and who sent it
    written,        \* history: the payload and number of each message stored
    presses,        \* history: presses of the test button
    began,          \* history: readers whose snapshot is from within the current update
    late            \* history: the frames offered from such a snapshot

transmitPath == <<offered, waiting, turn, due, handed>>
vars == <<arrived, store, snap, transmitPath, pc, plan, dfu,
          content, written, presses, began, late>>

Store == INSTANCE AtomicStore
Fifo == INSTANCE LossyFifo

Init == /\ Store!Init /\ Fifo!Init
        /\ pc = "asleep"
        /\ plan = [r \in Reader |-> {}]
        /\ dfu = FALSE
        /\ content = << >>
        /\ written = {}
        /\ presses = 0
        /\ began = {} /\ late = {}
-----------------------------------------------------------------------------
(* The parser thread.                                                        *)

Arrive == /\ arrived < MaxMessages
          /\ Store!Arrive
          /\ UNCHANGED <<transmitPath, pc, plan, dfu, content, written,
                         presses, began, late>>

\* The message that arrived is stored, once, or was none of a known payload.
Write == /\ \A p \in Payload : store[p] # arrived
         /\ \E p \in Payload : Store!Put(p) /\ written' = written \cup {<<p, arrived>>}
         /\ UNCHANGED <<transmitPath, pc, plan, dfu, content,
                        presses, began, late>>
-----------------------------------------------------------------------------
(* The two threads that send.                                                *)

\* 10 ms have passed and no update is active.
Wake == /\ pc = "asleep"
        /\ ~dfu
        /\ pc' = "awake"
        /\ UNCHANGED <<arrived, store, snap, transmitPath, plan, dfu,
                       content, written, presses, began, late>>

\* A mistake, exchanged for Valid: the valid flags are not looked at.
ValidAnyway(v, some) == some

\* Of some frames, those whose payload is valid in the snapshot.
Valid(v, some) == {k \in some : v[PayloadOf(k)] > 0}

\* In an update, the reader's snapshot is from within it.
Begin(r) == began' = IF dfu THEN began \cup {r} ELSE began \ {r}

Look == /\ pc = "awake"
        /\ Store!Snapshot("periodic")
        /\ \E some \in SUBSET Shown : plan' = [plan EXCEPT !["periodic"] = Valid(store, some)]
        /\ Begin("periodic")
        /\ pc' = "sending"
        /\ UNCHANGED <<transmitPath, dfu, content, written, presses, late>>

Sleep == /\ pc = "sending"
         /\ plan["periodic"] = {}
         /\ pc' = "asleep"
         /\ UNCHANGED <<arrived, store, snap, transmitPath, plan, dfu,
                        content, written, presses, began, late>>

\* The button sends its frames whether or not their payloads have arrived, all
\* but protium_state.
All(v) == {k \in Shown \cap Kinds("button") : k = "protium_state" => v[PayloadOf(k)] > 0}

\* ccu_can_test_send_all, which the callback calls once for a press, also
\* during an update.
Press == /\ presses < MaxPresses
         /\ plan["button"] = {}
         /\ Store!Snapshot("button")
         /\ plan' = [plan EXCEPT !["button"] = All(store)]
         /\ Begin("button")
         /\ presses' = presses + 1
         /\ UNCHANGED <<transmitPath, pc, dfu, content, written, late>>

\* The frame that a reader is to send next: the first in the order of the code.
First(r, k) == k \in plan[r] /\ \A l \in plan[r] : Place(r, k) <= Place(r, l)

Frame(r, k) == [kind |-> k, from |-> r, version |-> snap[r][PayloadOf(k)]]

\* The reader has offered a frame of kind k.
Sends(r, k) == /\ content' = Append(content, Frame(r, k))
               /\ plan' = [plan EXCEPT ![r] = @ \ {k}]
               /\ late' = IF r \in began THEN late \cup {offered'} ELSE late
               /\ UNCHANGED <<arrived, store, snap, pc, dfu, written, presses, began>>

\* A mistake, exchanged for Offer: mcu_state is put at the head of the queue.
OfferUrgent(r) == \E k \in plan[r] :
    /\ First(r, k)
    /\ offered < MaxFrames
    /\ Len(waiting) < Capacity
    /\ offered' = offered + 1
    /\ waiting' = IF k = "mcu_state" THEN <<offered'>> \o waiting
                                     ELSE Append(waiting, offered')
    /\ UNCHANGED <<turn, due, handed>>
    /\ Sends(r, k)

\* A send_ function.
Offer(r) == \E k \in plan[r] :
    /\ First(r, k)
    /\ offered < MaxFrames
    /\ Fifo!Accept \/ Fifo!Refuse
    /\ Sends(r, k)
-----------------------------------------------------------------------------
(* The transmit thread, the CAN driver, and firmware updates.                *)

Take == /\ Fifo!Take
        /\ UNCHANGED <<arrived, store, snap, pc, plan, dfu, content, written,
                       presses, began, late>>

\* The controller takes the frame over.
HandOver == /\ Len(handed) < MaxHandOvers
            /\ Fifo!Hand
            /\ UNCHANGED <<arrived, store, snap, pc, plan, dfu, content, written,
                           presses, began, late>>

\* The controller refuses a frame, or a bus-off purges the queue and may wake the
\* thread that waits for one.
Lose == /\ Fifo!GiveUp \/ Fifo!Drop
        /\ UNCHANGED <<arrived, store, snap, pc, plan, dfu, content, written,
                       presses, began, late>>

DfuStart == /\ ~dfu
            /\ dfu' = TRUE
            /\ began' = {} /\ late' = {}
            /\ UNCHANGED <<arrived, store, snap, transmitPath, pc, plan,
                           content, written, presses>>

DfuEnd == /\ dfu
          /\ dfu' = FALSE
          /\ began' = {} /\ late' = {}
          /\ UNCHANGED <<arrived, store, snap, transmitPath, pc, plan,
                         content, written, presses>>

Next == \/ Arrive \/ Write
        \/ Wake \/ Look \/ Sleep \/ Press
        \/ \E r \in Reader : Offer(r)
        \/ Take \/ HandOver \/ Lose
        \/ DfuStart \/ DfuEnd

Spec == Init /\ [][Next]_vars
-----------------------------------------------------------------------------
\* The hand-overs, in their order; but for those of the empty frame, which is all
\* the transmit thread can hand over before its first, and shows nothing.
HandOvers == {i \in DOMAIN handed : handed[i] # 0}

\* The frame of the i-th hand-over.
Sent(i) == content[handed[i]]

\* With frame f handed over, frame g behind it does not show less than the master
\* had sent of g's payload when it sent what f shows.
NotOlder(f, g) == f.from = "periodic" /\ g.from = "periodic" =>
    \A w \in written : w[1] = PayloadOf(g.kind) /\ w[2] <= f.version => w[2] <= g.version

\* What the periodic thread gives to the controller never goes back in time: if a
\* frame shows message a, a frame handed over later, of any payload, shows that
\* payload's latest message before a, or a newer one.  For two frames of one
\* payload: its values never go back.  It holds through refused frames, purges,
\* and frames that a purge makes the transmit thread hand over again.
CausalOrder == \A i, j \in HandOvers : i < j => NotOlder(Sent(i), Sent(j))

\* The i-th hand-over is the last of its kind before the j-th.
Precedes(i, j) == /\ i < j
                  /\ Sent(i).kind = Sent(j).kind
                  /\ \A l \in HandOvers : i < l /\ l < j => Sent(l).kind # Sent(j).kind

\* The hand-overs that show less than the last of their kind before them.
Setbacks(k) == {j \in HandOvers :
    Sent(j).kind = k /\ \E i \in HandOvers : /\ Precedes(i, j)
                                             /\ Sent(i).version > Sent(j).version}

\* The test button sends from a snapshot of its own, which may be older or newer
\* than that of the tick it mixes with.  What the controller is given of a kind
\* goes back for it, but once for each press, whatever is lost or repeated.
SetbacksBounded == \A k \in Shown : Cardinality(Setbacks(k)) <= presses

\* Data that never arrived are handed over only for the test button, which packs
\* zeros, and not as a Protium state.
InventedByButton == \A i \in HandOvers : Sent(i).version = 0 =>
    Sent(i).from = "button" /\ Sent(i).kind # "protium_state"

\* can_converter_can.c:135: during an update "the device only participates as a
\* receiver + ACK node".  Leaving out the frames of a tick or a press that was under
\* way, none is offered and handed over within one update.  Violated: the test button
\* is not held back.
QuietUpdate == \A i \in HandOvers : handed[i] \notin late
=============================================================================
