# Verification of the CAN Converter Unit

TLA+ models of the CAN converter firmware (`src/src/`), checked with TLC on small
instances and, where stated, proved with TLAPS for every value of the constants.
`PROJECT.json` holds the list of runs, the line of code each definition stands
for, the hazards, and for every property a mutation of the model that breaks it.

    tlc -config CanTx.cfg CanTx            # check a model
    tlapm CanTxProofs.tla                  # check its proofs

Paths below are relative to the repository (`src/`); `can.c` abbreviates
`src/can_converter_can.c`, and so on.

## 1. The system

The unit listens to the master controller on RS485 (COBS frames holding Protocol
Buffers), keeps the latest payloads, and broadcasts them as CAN frames, each at
a rate of its own. It also takes firmware updates over CAN.

| Part | Where | State | Operations | Runs in |
|---|---|---|---|---|
| RS485 reception | `rs485.c` 22-34, 89-108 | queue of 16 packets, COBS parser | the driver's `put`, parser thread with its 500 ms wait | interrupt, thread |
| Shared master data | `can_converter.c`, `rs485.c` 33-85 | `data`, `data_mutex`, `rs485_frames_received` | `on_frame` writes one payload; two readers copy everything | parser, periodic and button threads |
| Cyclic broadcast | `can.c` 124-299 | four counters, `frame_counts`, `prev_frames` | a tick of 10 ms: snapshot, frames due, report | periodic thread |
| CAN transmit path | `frames.c` 16-26, `can.c` 90-122, 266-272 | `can_tx_msgq` (32), `can_tx_done_sem`, `can_tx_result`, `can_frames_tx_ok` | enqueue, send, wait, callback, purge | producers, tx thread, interrupt |
| Error states | `can.c` 53-88 | controller state, `bus_off_recovery_work`, status LED | `can_state_change_cb`, `bus_off_recovery_handler` | interrupt, system work queue |
| Activity LEDs | `can.c` 50-51, 117-118, 274-281, 309-319 | two LEDs, two delayed works, `test_active` | flash, switch off, test | tx thread, interrupt, work queue, button |
| Test button | `can_converter.c`, `can.c` 321-341 | | lights LEDs, sends a set of frames, sleeps 2 s | callback of the button driver |
| Firmware update, device | `can_converter_dfu.c` | kept in the peripherals submodule | receive callback, start and end | interrupt, thread |
| Firmware update, host | `tools/dfu_can.py` | image, sequence number | REQUEST, DATA, COMMIT and their answers | host program |
| Start-up | `main.c`, `can.c` 342-368 | | order of initialisation | main |

They interact as follows.

- *Shared memory under a mutex*: parser -> `data` -> periodic thread and button.
- *Shared memory without one*: `frame_counts` (periodic thread and button),
  `can_tx_result` and `test_active` (volatile, interrupt or work queue and threads).
- *A queue*: send functions -> `can_tx_msgq` -> tx thread, purged by an interrupt.
- *A semaphore given by an interrupt*: the controller's callback -> tx thread.
- *Delayed work*: flash -> LED off; bus-off -> attempt -> the next attempt.
- *A flag asked for*: `can_dfu_is_active` gates the broadcast.

What is hard here. A wait that times out while the controller keeps the frame,
whose callback comes later. An interrupt that empties a queue between two steps of
its users. A structure of many words copied by two threads while a third writes
it. Counters run in step but restarted separately. A work item that blocks while
the state it acts upon changes. Unlocked read-modify-write by two threads.
None of this shows in a unit test, and the repository has none.

What makes each part correct:

- transmit path: frames reach the controller in order, none is forgotten, one is
  repeated only by a purge of the empty queue, the queue drains whatever the bus
  does, and what the thread counts is backed by what the controller did;
- reception: a message that nothing damaged reaches the decoder whole, once and in
  order, wherever packets are cut and whichever others are dropped;
- shared data: a snapshot is one instant of the store, and views never go back;
- end to end: what the CAN controller is given of the master never goes back;
- broadcast: the thread keeps each frame exactly to its rate, with or without updates,
  leaves an update alone after at most a tick's rest, loses nothing while there is room
  for all that is to come, and every frame comes back after an update;
- error states: a controller that is off is pursued until it is back, and alarms
  end with their cause;
- LEDs: lit during the test, never lit for good;
- counters: no frame of the report is lost or counted twice;
- update, host side: "DFU complete" is true, and every run of the program ends.

## 2. The modules

### LossyFifo, CanTx - the transmit path

`CanTx` has one action per step of the code: `Enqueue` (`k_msgq_put` with
K_NO_WAIT), and for the tx thread `Get`, `SendAccepted` or `SendRefused`,
`TakeSem` or `Timeout`, and `Check`, which reads `can_tx_result` in a step of its
own since the callback may overwrite it after the semaphore was taken. `Complete` is
`ccu_can_tx_callback`: any frame in the controller completes, with any result.
`Purge` is the bus-off case of `can_state_change_cb`, at any moment; `PurgeWakes` is the
same when the thread waits on the empty queue: `k_msgq_get` fails, the thread does not
look at its result, and goes on to send what its local `frame` still holds. A refusal
and a time-out are always possible; frames are numbered as they are offered, and the
frame `{0}` the thread starts with is 0. Since a frame may be handed over more than
once, the histories speak of hand-overs: `handed` is their sequence, `outcome` what the
controller reported of each, and `verdict` what the thread concluded.

`LossyFifo` is the promise: frames have their turn oldest first, and in it are handed
to the controller or given up; when those that wait are dropped and there are none, the
frame that had its turn last may have it again. `CanTx` implements it (`Refines`).
`InOrder` says what is left of the order, `Accounted` that no frame is lost track of, and
`SentOnce`, which is violated, that none is handed over twice (section 4).

The thread does not reset the semaphore, so after a first time-out its
conclusions may be those of another frame. The properties say how far this goes:
`InStep` (exact until the first time-out), `OkHasWitness` and `CountedOnce`
(afterwards, a success is backed by this frame or an earlier one, and each count
is paid for by a callback), and `OkCountIsAcked`, which is violated (section 4).

### AtomicStore, DataStore - the shared data

`DataStore` copies and writes the store word by word, in any order, with
`k_mutex` modelled by its owner and its queue. `Undecodable` and `Decoded` are the
two ways `on_frame` starts, `Switch` and `Write` its assignments under the lock,
`Count` the counter after it. A reader is `Start`, `Lock`, `Enter`, `Copy`,
`ReaderUnlock`, `Use`. The mutex is handed to the oldest waiter; all three threads
are treated as being of one priority, as the parser and the periodic thread are
(5). The priority of the button's callback is the business of a driver outside
this repository, and priority inheritance is not modelled.

`AtomicStore` is the promise: one whole payload is replaced at a time, a snapshot
is the store at one instant. `DataStore` implements it, a message taking effect
when the parser enters its switch (`Contents`).

### Broadcast - rates, suspension and report

`Tick` wakes up, counts and lays out the frames that are due as a `plan`; `Send`
offers them one by one while `Drain` empties the queue; `Report` and `EndTick` end
the tick. `Suspended` is the branch taken during an update, which restarts
`cnt_100ms` and `cnt_1000ms` and leaves `cnt_1s` and `cnt_unassign`. `DfuStart` and
`DfuEnd` come at any moment, and so does the other producer: `Press` and `ButtonSend`
are `ccu_can_test_send_all`, whose nine or ten frames go to the same queue between any
two of the thread's. What fills the frames is left out; what is kept is
which payload a frame depends on and when it is due.

`made` counts what the thread itself has offered since its last report: the properties
on rates (`CadenceExact`, `CadenceBounded`) are of the thread. They are not of the report,
which reads `frame_counts`: the button writes that too, and `FrameCounts` shows what
becomes of it. `need` is how many slots would have to be free for everybody since the
tick began; `NoDropWithRoom` compares it with the slots there are.

### FrameCounts - the counters, unlocked

`Load` and `Store` of an increment are separate steps of either thread;
`BeginReport`, `PrintRate`, `BeginCopy`, `Copy`, `EndReport` are the report, which
reads the counters one by one and then again for `prev_frames`. Counters wrap
at 2^Width.

### BusRecovery - error states

`Worsen`, `Improve`, `ComeBack` are what the controller does, together with
`can_state_change_cb` in the same interrupt; `Attempt`, `Recover`, `RecoverFails`,
`NothingToRecover`, `Retry`, `Settle` the work handler with its blocking call;
`Boot` the order in which `ccu_can_init` sets things up, `Ready` the end of `main`; `DfuStart` and
`DfuEnd` the other writers of the status LED. The variable `manual` is the mode
of the controller, chosen once: `prj.conf` makes manual recovery available, and
whether it is used is decided in `can_init`, outside this repository. Without it
`can_recover` answers -ENOTSUP, which the handler takes for success.

### ActivityLeds - flashes and the test

The transmit thread's flash is two steps, the interrupt's flash one; a handler reads
`test_active` in `Expire` and resets the LED in `SwitchOff`. The handlers run on
the system work queue, which by default is a cooperative thread in Zephyr, so
only the interrupt comes between those two steps. If the work queue were made
preemptible the button could, and `LitDuringTest` would no longer hold.

### WorkQueue - the two together

`BusRecovery` and `ActivityLeds` meet on the system work queue, which runs one handler at
a time: `bus_off_recovery_handler` blocks in `can_recover` for up to 100 ms, and no LED
handler begins meanwhile (`QueueFree`); while an LED handler runs, no thread does
(`Preemptible`), so that neither an attempt nor main goes on. Interrupts, with the
callbacks of an update, come at any moment. Threads, the receive filter and the button
exist from the step of the start-up that creates them. Each component's own
specification has its actions; this module has their interleaving and the fairness.

### Rs485Rx - from the line to on_frame

A byte is its position in the stream the master sends; a message is a body
followed by delimiters. `Receive` is the driver: it closes a packet anywhere and puts
it on the queue, or drops it when the queue is full. `Get`, `FeedByte`, `FeedDelim`
are the parser thread, `Silence` its wait of 500 ms, after which nothing
changes. What the COBS parser, which is in a submodule, does with a damaged frame is
left open: there is no checksum, so it may refuse what it has or take it for a message.

`Intact(m)` says what a message needs to survive: its body, one of its delimiters, and
in front of it no remainder of another message without a delimiter. `IntactIsHanded`
and `MixedIsDamaged` say that this is enough and that it protects it from being
mixed with others. What on_frame then does is `DataStore`.

### Ccu - end to end

The composition. The shared data are an instance of `AtomicStore`, the transmit path
one of `LossyFifo`: what `DataStore` and `CanTx` are shown to implement. Between
them are the periodic thread (`Wake`, `Look`, `Offer`, `Sleep`) and the callback of the
test button (`Press`, `Offer`), each with a snapshot of its own, and updates. Which
frames are due in a tick is left open (`Broadcast` has it); `content` keeps of each frame
offered what it is, who sent it and the message its payload is from, and `handed` has the
numbers of the frames in the order in which the controller was given them (`HandOvers`,
`Sent`). When a frame reaches the bus is up to the controller: after a time-out it may
hold several frames, which finish in any order or fail (`CanTx`), so nothing here is
said of the order on the bus.

`CausalOrder` compares periodic frames of all payloads: after a frame that shows one
message, none is handed over with something the master had replaced before it
sent that message. The test button breaks this, but a kind's value goes back
at most once for each press (`SetbacksBounded`). `QuietUpdate` is what a comment says of
updates; the button violates it (section 4).

### DfuHost - the program that sends an image

`tools/dfu_can.py`, one action per frame it sends and per answer it takes; a run may
be started again after it failed. The unit does what the program says of it. Frames and
answers are lost at any moment but not reordered, as on a CAN bus. An image has at least
one frame, since the program refuses an empty file.

### Which module uses which

    LossyFifo              <- CanTx        <- CanTxProofs
    AtomicStore            <- DataStore    <- DataStoreProofs
    AtomicStore, LossyFifo <- Ccu          <- CcuProofs
                              Rs485Rx      <- Rs485RxProofs
                              Broadcast    <- BroadcastProofs
    BusRecovery, ActivityLeds <- WorkQueue <- WorkQueueProofs
                              FrameCounts  <- FrameCountsProofs, MCFrameCounts
                              DfuHost      <- DfuHostProofs

`Ccu` composes the two abstract parts, `WorkQueue` its two components. The other models
meet at the constants: `Broadcast` offers to a queue whose length it
knows and whose fate is `CanTx`; its `valid` is what a snapshot of `DataStore`
shows; the purge of `CanTx` is an instant of `BusRecovery`'s bus-off, taken here
at any moment, which is more than can happen.

## 3. The runs

| Run | Asks | Bounds |
|---|---|---|
| `can_tx` | is any frame lost track of or overtaken; when is one repeated; how far may conclusions be off; does the queue drain | queue 2, 2 buffers, 4 frames, 3 hand-overs; 273 295 states |
| `can_tx_ok_count` | is "CAN TX ok" the number of frames sent | 4 frames; violated |
| `can_tx_sent_once` | is a frame enqueued once sent at most once | 4 frames; violated |
| `data_store` | are snapshots whole, ordered, never going back; is the mutex granted | 2 payloads of 3 words, 2 readers, 2 messages; 115 086 states |
| `broadcast_dfu` | phases, disturbance, losses, rates and resumption with updates and the button at any moment | periods 2, 4, 4, 2; queue 9; two payloads; 1 or 2 button frames a press; 732 002 states |
| `work_queue` | is a bus-off always pursued, does the bus come back, is an alarm current, in either mode; LEDs lit during the test, never stuck | unbounded, 72 326 states |
| `frame_counts` | are frames of the periodic thread reported exactly once | 2-bit counters, 2 kinds, 3 reports of up to 2 frames, 2 presses; 81 733 states |
| `frame_counts_exact` | does every frame count | 1 report, 1 press; violated |
| `rs485_rx` | do intact messages arrive whole, once, in order; is all fed in the end | queue 2, packets of up to 3 bytes, 3 messages of 2 bytes and 2 delimiters; 39 631 states |
| `ccu` | is what the controller is given ordered like what the master sent; who sends data that never arrived | queue 2, 2 payloads, 2 messages, 3 frames, 4 hand-overs, 1 press; 3 682 748 states |
| `ccu_quiet` | is an update left alone, but for what was under way | 4 frames, 1 press; violated |
| `dfu_host` | is "DFU complete" true; does every run end | batches of 2, sequence numbers below 6, images of up to 7 frames, 3 runs; 25 261 states |

Why the bounds suffice. In `can_tx` a queue of two slots is full, empty and
between; two buffers let a callback overtake another, which needs a time-out
before; four frames exceed queue and thread together, so that a frame is
dropped while one is refused, and three hand-overs are a frame, its repetition and a
newer one, or a time-out, the late callback and the frame that takes its token. Two payloads, two readers and two
messages are what tearing and disagreement take: one payload to be torn, a second
to be out of order, a second message to be newer. In `broadcast_dfu` the periods
keep the code's shape (a report spans whole periods, the short period divides the
long one), and a burst of 8 frames fits the 9 slots of the queue beside one frame of the
button, but not beside two; that the rates hold with
the code's own periods of 10 and 100 ticks is proved (section 5). In `rs485_rx` packets
are shorter than a message, so that bodies and delimiters are cut, lost and joined
in every way; three messages give a damaged one a neighbour on each side. In `ccu`
two payloads show an order across payloads, a second message makes data
older, three frames are enough for two of one sender to have one of the other between
them, and the fourth hand-over is a repetition. In `dfu_host` an image
may end with a batch, in the middle of one, or have more frames than sequence
numbers; three runs leave answers to two of them behind. Two-bit counters wrap in two windows, as 2^32 would
after years; the window is smaller than the counter's range, as in the code.
The proofs (section 5) lift every bound of `can_tx`, `data_store`, `broadcast_dfu`,
`rs485_rx`, `ccu`, `frame_counts` and `dfu_host`, for all their safety properties.

Deadlock is checked except in the runs of `FrameCounts`, which end when their
bounded reports and presses are used up, and in `dfu_host`, where the program ends.

Fairness, and why the code justifies it.

- `CanTx`: weak fairness of the transmit thread. Every wait of its loop but that on
  the queue is bounded (100 ms in `can_send`, 200 ms on the semaphore). Of the
  bus nothing is assumed, a frame may never complete.
- `DataStore`: weak fairness of each thread inside what it has begun: they have
  one priority and block on nothing but the mutex. Frames need not
  arrive, readers need not wake up.
- `Broadcast`: weak fairness of the periodic thread, which sleeps 10 ms and never
  waits otherwise. `BroadcastResumes` assumes that updates end for good in the
  property itself.
- `WorkQueue`: weak fairness of a handler that has begun, whose only wait has a limit, or
  which does not wait; strong fairness of `BeginRecovery`, because the
  queue serves its works in the order in which their delays end, so that LEDs
  that flash again and again do not keep the recovery out; and strong
  fairness of `Recover`: attempts repeated for ever do not fail for ever. The last is
  an assumption on the bus, that it becomes idle long enough some time; without it
  the code can do nothing.
- `Rs485Rx`: weak fairness of the parser thread. Its wait for packets has a limit, and
  its wait for `data_mutex` ends (`LockGranted`). Nothing makes the master send.
- `DfuHost`: weak fairness of the program, whose waits all have a limit. Of the unit
  and the bus nothing is assumed.

The steps interleave freely, which includes every order in which threads of
one priority, the work queue and interrupts can really run, with one exception
made where the code relies on it: the cooperative work queue of `ActivityLeds` and
`WorkQueue`.

## 4. What the checks found

1. `OkCountIsAcked` - `can.c:218` reports as "CAN TX ok" a number that can
   exceed the frames acknowledged. After a time-out two frames are in the
   controller. The callback that reports the first as failed gives the token; the
   thread takes it; before it reads `can_tx_result` the second callback
   overwrites it with success and leaves another token. The thread counts a
   success, and counts it again with the next frame.
2. `SentOnce` - the tx thread ignores the result of `k_msgq_get` (`can.c:98`). A purge
   at bus-off (85) that finds the thread waiting on the empty queue wakes it with -ENOMSG;
   `frame`, declared outside the loop (94), still holds what it sent last, or
   `{0}` after a reset, and `can_send` gets it again. `can.c:215` takes the "frames enqueued in the
   last 1 s window" for what is sent, "== Hz directly".
3. `AllExact` - `frames.h:22` says of `frame_counts` "Written only from
   ccu_can_periodic_thread - no synchronisation needed"; the test button writes
   them too, and increments are lost.
4. `QuietUpdate` - `can.c:135-136`: "Suspend all periodic TX during DFU - reduces bus
   contention so the device only participates as a receiver + ACK node". The
   periodic thread asks `can_dfu_is_active`; the test button's callback does not, and its
   frames are handed to the controller during an update.

Met on the way, without a run of their own:

- `frames.h:20` calls `frame_counts` "Running enqueue counts", and `can.c:215` the report's
  numbers frames enqueued; they also count frames dropped at a full queue, whose
  loss `enqueue_frame` does not return (`frames.c` 22-24, 53-54). The button's frames are
  in the report too, so that a press in its window shows as one more of a kind than its rate.
- A payload's `valid` flag never falls again. When the master goes silent its last
  data are broadcast at full rate for ever, with nothing that tells their age.
- The LED's "operational" is no promise: `bus_off_recovery_handler` shows
  it on a result that may be out of date, also on -ENOTSUP, and so do the end of an
  update and the end of `main`. `AlarmIsCurrent` states the direction that does hold.
- The snapshot of the test button's callback and that of the tick it interrupts mix in the
  queue, so that values go back, and it sends
  zeros for payloads that never arrived, which no receiver can tell from data.
  "All frames" (`can_converter.c:17`, `can.c:340`) are ten of the sixteen: six Protium
  value frames are not among them, and each may be dropped at a full queue.
- The bytes of two damaged messages can be joined to one that the COBS layer accepts;
  the frames carry no checksum, and only `pb_decode` stands between such a mixture and the
  shared data. A damaged body that lost its delimiters may also be ended by those of
  the next message, and then comes late but whole.
- `CompleteIsCommitted` needs its condition `clean`. When the program is run again
  while an answer to the last run is still on its way, each answer passes for that of
  the step before, and "DFU complete" may be printed before the unit has looked at the COMMIT.
- `frames.h:23` speaks of a "10 s stats report"; it is one of 1 s. `dfu_can.py:82`
  refers to CCU_DFU_BATCH_SIZE in `can_converter_dfu.h`, which is not there.
- The fault flags `emg_hydrogen_leakage_voltage`, `err_accel_pedal_voltage`,
  `err_brake_pedal_voltage`, `err_hydrogen_high_pressure` and `err_speed` have no line in
  `send_mcu_faults` (`frames.c` 72-97) and are never seen on the bus.
  `send_mcu_time_sync` is called nowhere.
- After a time-out several frames are in the controller, which may finish them in another
  order: what is handed over in order need not reach the bus in order.
- The controller runs before `can_state_change_cb` is registered (`can.c:344-350`): a
  warning in between stays unseen until the next change.
- The receive filter of the update is installed before `ccu_dfu_init` (`can.c:352`), and the
  `test_active` of `rs485.c` is written but never read.

## 5. What is proved

TLAPS checks the following for every value of the constants that
meets the assumptions next to their declarations (positive sizes; finitely many payloads;
distinct threads; periods that divide each other; the window shorter than a counter's range).

**CanTxProofs.** `TypeCorrect`; `InOrderCorrect`, `AccountedCorrect`,
`InStepCorrect`, `OkHasWitnessCorrect`, `CountedOnceCorrect`, `RefinesCorrect`.
None of the properties is inductive by itself. `Line` orders the frames by number: none
that was handed over is newer than the thread's own, which is older than all that are
queued, and those are not newer than what was offered. A frame that a purge makes the thread
send again equals the last one handed over, hence `<=` where one would like `<`. `Past`
says that the controller and the thread have dealt with nothing but hand-overs that were
made, each of them once. `Paired` (as `Token`: while nothing has timed out) relates
semaphore, result and the frame waited for: the only frame in the controller is that one,
and a token is its own. `TokenHasWitness` says what a token is worth afterwards: a success
it brings was paid for by a hand-over no later than the latest. `Paid` counts: tokens taken
and tokens waiting never exceed completions. The refinement needs the type invariant alone:
the state of `LossyFifo` is part of that of `CanTx`, and `PurgeWakes` is a drop after which
the frame that had its turn has it again.

**DataStoreProofs.** `TypeCorrect`, `WholeSnapshotCorrect`,
`SnapshotsOrderedCorrect`, `NeverBackCorrect`, `RefinesCorrect`, `ServedInvariant`. `Exclusive` is
mutual exclusion with the queue of the mutex: who is inside owns it, who waits is
in the queue once. `StoreOK` describes the store with a message half written:
every payload is whole but the one the parser is inside, whose written cells are new.
`CopyOK` describes each copy under way: the cells read are those of the store, which
nobody can change meanwhile, and a snapshot is nowhere newer than the store. `Served`:
no thread waits for a free mutex.

**BroadcastProofs.** `TypeCorrect`, `PhaseAlignedCorrect`,
`LeftoverBoundedCorrect`, `NoDropWithRoomCorrect`. The bound on a plan (`PlanFits`)
is a counting argument, that the frames of a tick are distinct kinds and those
whose payload ever arrives are `Burst` in number; phases need that the long period
is a multiple of the short one, and the lemmas on remainders. `Room` says that what waits in
the queue, the rest of the thread's plan and the rest of the button's frames fit into
what the tick needed at its beginning, and what presses have added to it since.
`CadenceInvariant`, `CadenceExactCorrect`, `CadenceBoundedCorrect`, of the frames the thread
itself has offered since its last report, whatever the button offers: for each kind the
invariant is a balance. With P its period, n the frames of it offered (`made`, and the one
still planned in this tick) and T the ticks of the window, P * n plus the kind's counter
exceeds T by less than P, and falls short of T for no kind whose payload was valid
throughout a window without an update. At the report T is the window's length, a
multiple of P, and n follows.

**WorkQueueProofs**, of the two components whose handlers run on the system work queue.
`RecoveryTypeCorrect`, `OffIsPursuedCorrect`, `AlarmIsCurrentCorrect` of `BusRecovery`: the
strengthening `Quiet` says that before the callback is registered nothing has been
sent, so the controller cannot be off unobserved. `LitDuringTestCorrect` and
`NeverStuckCorrect` of `ActivityLeds`, from an invariant on where the button is in its
list of LEDs and who attends to each. `Composed` carries both over to the queue they share:
every step of `WorkQueue` is a step of either component or leaves it alone, so that what
is proved of each holds of the two together. `BusComesBackCorrect`, see below.

**FrameCountsProofs.** `TypeCorrect`, `PrivateReportedCorrect`. The invariant `ReportInv`
has five parts. `Alone`: the button has nothing to do with the private kinds; `Current`:
what the periodic thread loaded is therefore still the counter's value. Hence `Exact`, a
counter is the number of frames sent, modulo 2^Width, and `Followed`, `prev_frames` is
the number printed, modulo the same, at the place of the report where the
thread is. `Window` bounds the difference of the two numbers below the range, and
`Difference`, a lemma on remainders, says that it then survives the modulus.

**Rs485RxProofs.** `TypeCorrect`, `OnceInOrderCorrect`, `IntactIsHandedCorrect`,
`MixedIsDamagedCorrect`, for sizes and numbers of any value. The thread is at one
position of the stream. `Ordered` puts handed bytes, parser, packet and queue in the
stream's order, which gives `OnceInOrder`. `Ahead` says that what was taken and is
ahead is lost or queued, so that the bytes the thread jumps over were lost;
`Undelimited`, that no delimiter came after what the parser holds. `Part` is the core: for
an intact message the parser holds exactly what has come of its body, because
nothing undelimited is left in front of it and nothing of it is missing. A message
is intact later only if it was before (`IntactBefore`), since losses are at the
end of what was taken.

**CcuProofs.** `CausalOrderCorrect`, `InventedByButtonCorrect`, `SetbacksBoundedCorrect`,
for any frames, messages, presses, hand-overs and length of the queue. Frames are numbered
as they are offered and keep that order through queue and hand-over (`Ascending`; a frame
given to the controller again after a purge equals the one before it), so that the
controller is given a selection of the `content` offered, some of it twice; `CausalOrder`
follows from the same order there (`History`), which is inductive with `Covered`: the
thread's snapshot has all that the master had sent by whatever it shows, and
a message stored later is newer than everything shown so far. For `SetbacksBounded`,
frames of one reader never go back among themselves (`Steady`), and a repetition is no
setback, so that of the two frames of a setback, which follow each other, one is the
button's. `Charged` charges each setback to that frame, no two to the same, and `Spent`
says that a press makes one frame of a kind.

**DfuHostProofs.** `CompleteIsCommittedCorrect`, for images, batches and sequence numbers
of any size. The program takes whatever OK comes next for the answer it waits for, so
the invariant says what an OK under way can mean (`Meant`) in a run that found
nothing of an earlier one: it is the only one, nothing is under way behind it, and it
answers what was sent last. An OK to a batch needs every frame of it: `Flight` puts
the frames under way in order, and `Gathered` says that those behind a gap are refused
and no other batch can become full.

### Liveness

The provers cannot look into ENABLED, nor do an induction over the numbers inside a temporal
formula. What is left can be proved, and is, with the first stated openly:
each theorem below has, besides the fairness of its specification, a hypothesis of the
form "in these states the action is ENABLED". No proof and no run of section 3
establishes these hypotheses: each can be read off the guards of the actions it names, and
TLC, given a proof module with its component's constants, takes it as an INVARIANT. What
the runs check is the liveness properties themselves, under the fairness of the
specification alone.

- `BusComesBackCorrect` is `BusComesBack` itself (`BeginEnabled`, `GoOnEnabled`,
  `RecoverEnabled`, `SwitchOffEnabled`), on the work queue with the LEDs. No induction is
  needed: off for good, the handler goes round four phases, `OffIsPursued` keeps it going,
  and it passes the one in which the driver may succeed again and again, which is what
  strong fairness asks for.
- `QueueAdvances` (`CanTxProofs`, `ReadyEnabled`), `FeedingAdvances` (`Rs485RxProofs`,
  `BusyEnabled`) and `RunAdvances` (`DfuHostProofs`, `ReadyEnabled`) are the inductive
  steps of `QueueDrains`, `Drains` and `RunEnds`: a natural number, four times the slot
  of a frame and the steps left with the one in hand, twice the bytes to be fed, or
  twice the frames to be sent, never rises and falls at some time. Such a number cannot
  fall for ever; that last step is by hand, and TLC checks the properties themselves.
- `BroadcastAdvances` (`BroadcastProofs`, `ThreadEnabled`) is the step of `BroadcastResumes`,
  for every kind of frame instead of one of each rate: the ticks until the frame is due,
  each worth `Burst + 2` steps, and what is left of the tick in progress. While no
  update is active it never rises; an update, which restarts two counters, may raise it.
- `WaitersAdvance` (`DataStoreProofs`, `OwnerEnabled`) is the step of `LockGranted`: for each
  waiting thread and each owner, the waiter's slot times the steps of one critical section,
  and the steps left of the present one. It needs that payloads are finite in number. The
  owner changes on the way, so that fairness is asked of the one who owns, and
  `ServedInvariant` says that there is one.

Only model-checked: the last step of these five properties, and the violations.

## 6. What is not modelled

- The UART driver and the COBS code: in a submodule that is not part of the sources. What
  `rs485.c` relies on is in `Rs485Rx`; the encoder of `tools/rs485_tester.py` is not.
- The contents of frames: a mapping field by field without state; scaling and packing
  are generated code of another submodule. `digital_inputs_from_raw` of
  `proto/master_helpers.h` is called nowhere.
- The unit's side of the firmware update: in a submodule. `DfuHost` has what `dfu_can.py`
  says of it, `Broadcast`, `BusRecovery` and `Ccu` what this code sees of it.
- The pool of echoes of the host's CAN adapter and the pauses between its frames.
- MCUboot and image confirmation: `boot_write_img_confirmed` is called
  unconditionally and its effect is in the bootloader.
- The override of the status LED by the test button, and the LEDs of the RS485 driver.
- The CAN monitor, build and flash scripts, board description, generated code:
  no state of their own.
- The state "stopped" of the controller, which nothing here enters after start.

## 7. Plan

Done, in this order: `LossyFifo` and `CanTx`; `AtomicStore` and `DataStore`;
`Broadcast`; `BusRecovery`; `FrameCounts`; `ActivityLeds`; their proofs; `Rs485Rx`; `Ccu`;
`DfuHost`; `WorkQueue`; the proofs of the rates, of `Rs485Rx`, `Ccu`, `FrameCounts` and `DfuHost`; liveness
as far as section 5 says.

Left, the most telling first:

1. `CanNode`: `CanTx` composed with `BusRecovery`. Today the purge of `CanTx` comes at any
   moment, which is more than can happen; together one could say that frames
   sent after a recovery are fresh.
2. An abstract transfer that `DfuHost` implements, once the unit's side is at hand.
