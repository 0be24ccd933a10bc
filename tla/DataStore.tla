----------------------------- MODULE DataStore -----------------------------
(***************************************************************************)
(* The shared master data: data and data_mutex of can_converter.c, written *)
(* by on_frame of can_converter_rs485.c in the RS485 parser thread and     *)
(* copied by ccu_can_periodic_thread and by ccu_can_test_send_all (the     *)
(* test button), both of can_converter_can.c.                              *)
(*                                                                         *)
(* A payload of the store is a structure of several words and a "valid"    *)
(* flag; a structure assignment writes or reads them one by one, in an     *)
(* order the compiler chooses, and threads interleave between them.  Two   *)
(* words are enough to see a payload torn.  A word holds the number of the *)
(* message it is from, 0 when none has come.                               *)
(*                                                                         *)
(* data_mutex is a k_mutex: unlocking hands it to the thread that waits    *)
(* longest among those of the highest priority.  The threads are taken to  *)
(* be of equal priority, as the parser and the periodic thread are.        *)
(***************************************************************************)
EXTENDS Naturals, Sequences, FiniteSets

CONSTANTS Payload,      \* the payloads of a MasterFrame
          Reader,       \* the threads that take snapshots
          Parser,       \* the RS485 parser thread
          NoThread,     \* owner of the free mutex
          Other,        \* the tag of a payload on_frame does not know
          MaxMessages   \* bound of the model: messages that ever arrive

ASSUME ThreadAssumption == /\ Parser \notin Reader
                           /\ NoThread \notin Reader \cup {Parser}
ASSUME OtherAssumption == Other \notin Payload
ASSUME PayloadAssumption == IsFiniteSet(Payload)
ASSUME MaxMessagesAssumption == MaxMessages \in Nat

Thread == Reader \cup {Parser}
Message == 0 .. MaxMessages
Cell == {"first", "last", "valid"}

\* A payload as one message leaves it; number 0 is the zero initialiser.
Whole(m) == [c \in Cell |-> IF c = "valid" THEN (IF m = 0 THEN 0 ELSE 1) ELSE m]
Zero == [p \in Payload |-> Whole(0)]

VARIABLES
    owner,                      \* data_mutex
    waiters,                    \* threads blocked on data_mutex, oldest first
    data,                       \* the shared store, cell by cell
    rs485_frames_received,      \* the counter the stats report prints
    pc,                         \* where each thread is
    todo,                       \* cells each thread has still to write or copy
    tag,                        \* the parser's frame.which_payload
    d,                          \* each reader's local copy
    arrived,                    \* history: messages that have arrived
    snap                        \* history: each reader's last snapshot, by message

mutex == <<owner, waiters>>
vars == <<owner, waiters, data, rs485_frames_received, pc, todo, tag, d, arrived, snap>>

\* The message each payload of a copy is from.
Origin(copy) == [p \in Payload |-> copy[p]["first"]]

\* A mistake, exchanged for Init: the store is not zeroed.
InitGarbage ==
    /\ owner = NoThread
    /\ waiters = << >>
    /\ data = [p \in Payload |-> [c \in Cell |-> MaxMessages + 1]]
    /\ rs485_frames_received = 0
    /\ pc = [t \in Thread |-> "idle"]
    /\ todo = [t \in Thread |-> {}]
    /\ tag = Other
    /\ d = [r \in Reader |-> Zero]
    /\ arrived = 0
    /\ snap = [r \in Reader |-> [p \in Payload |-> 0]]

Init == /\ owner = NoThread
        /\ waiters = << >>
        /\ data = Zero
        /\ rs485_frames_received = 0
        /\ pc = [t \in Thread |-> "idle"]
        /\ todo = [t \in Thread |-> {}]
        /\ tag = Other
        /\ d = [r \in Reader |-> Zero]
        /\ arrived = 0
        /\ snap = [r \in Reader |-> [p \in Payload |-> 0]]
-----------------------------------------------------------------------------
(* k_mutex_lock with K_FOREVER and k_mutex_unlock.                           *)

\* A mistake, exchanged for Lock: the access goes ahead without the mutex.
LockForgotten(t) ==
    /\ pc[t] = "lock"
    /\ pc' = [pc EXCEPT ![t] = "enter"]
    /\ UNCHANGED <<mutex, data, rs485_frames_received, todo, tag, d, arrived, snap>>

Lock(t) == /\ pc[t] = "lock"
           /\ \/ /\ owner = NoThread
                 /\ owner' = t
                 /\ pc' = [pc EXCEPT ![t] = "enter"]
                 /\ UNCHANGED waiters
              \/ /\ owner # NoThread
                 /\ waiters' = Append(waiters, t)
                 /\ pc' = [pc EXCEPT ![t] = "blocked"]
                 /\ UNCHANGED owner
           /\ UNCHANGED <<data, rs485_frames_received, todo, tag, d, arrived, snap>>

\* Thread t gives the mutex up and goes on at label next.
Unlock(t, next) ==
    \/ /\ waiters = << >>
       /\ owner' = NoThread
       /\ pc' = [pc EXCEPT ![t] = next]
       /\ UNCHANGED waiters
    \/ /\ waiters # << >>
       /\ owner' = Head(waiters)
       /\ waiters' = Tail(waiters)
       /\ pc' = [pc EXCEPT ![t] = next, ![Head(waiters)] = "enter"]
-----------------------------------------------------------------------------
(* on_frame, in the parser thread.                                           *)

\* A mistake, exchanged for Undecodable: the frame is decoded in place and a
\* failure leaves a cleared payload behind.
UndecodableInPlace ==
    /\ pc[Parser] = "idle"
    /\ arrived < MaxMessages
    /\ arrived' = arrived + 1
    /\ \E p \in Payload : data' = [data EXCEPT ![p] = Whole(0)]
    /\ UNCHANGED <<mutex, rs485_frames_received, pc, todo, tag, d, snap>>

\* A frame that pb_decode rejects: on_frame returns at once.
Undecodable == /\ pc[Parser] = "idle"
               /\ arrived < MaxMessages
               /\ arrived' = arrived + 1
               /\ UNCHANGED <<mutex, data, rs485_frames_received, pc, todo, tag, d, snap>>

Decoded == /\ pc[Parser] = "idle"
           /\ arrived < MaxMessages
           /\ arrived' = arrived + 1
           /\ tag' \in Payload \cup {Other}
           /\ pc' = [pc EXCEPT ![Parser] = "lock"]
           /\ UNCHANGED <<mutex, data, rs485_frames_received, todo, d, snap>>

\* The switch on the tag: which cells the chosen branch will write.
Switch == /\ pc[Parser] = "enter"
          /\ todo' = [todo EXCEPT ![Parser] = IF tag = Other THEN {} ELSE {tag} \X Cell]
          /\ pc' = [pc EXCEPT ![Parser] = "inside"]
          /\ UNCHANGED <<mutex, data, rs485_frames_received, tag, d, arrived, snap>>

Write == /\ pc[Parser] = "inside"
         /\ \E p \in Payload, c \in Cell :
               /\ <<p, c>> \in todo[Parser]
               /\ todo' = [todo EXCEPT ![Parser] = @ \ {<<p, c>>}]
               /\ data' = [data EXCEPT ![p][c] = Whole(arrived)[c]]
         /\ UNCHANGED <<mutex, rs485_frames_received, pc, tag, d, arrived, snap>>

\* Mistakes, exchanged for ParserUnlock: the mutex is given up before the payload
\* is complete; the branch of an unknown tag returns with the mutex held.
ParserUnlockEarly ==
    /\ pc[Parser] = "inside"
    /\ Unlock(Parser, "count")
    /\ UNCHANGED <<data, rs485_frames_received, todo, tag, d, arrived, snap>>

ParserUnlockForgotten ==
    /\ pc[Parser] = "inside"
    /\ todo[Parser] = {}
    /\ tag = Other => pc' = [pc EXCEPT ![Parser] = "count"] /\ UNCHANGED mutex
    /\ tag # Other => Unlock(Parser, "count")
    /\ UNCHANGED <<data, rs485_frames_received, todo, tag, d, arrived, snap>>

ParserUnlock == /\ pc[Parser] = "inside"
                /\ todo[Parser] = {}
                /\ Unlock(Parser, "count")
                /\ UNCHANGED <<data, rs485_frames_received, todo, tag, d, arrived, snap>>

Count == /\ pc[Parser] = "count"
         /\ rs485_frames_received' = rs485_frames_received + 1
         /\ pc' = [pc EXCEPT ![Parser] = "idle"]
         /\ UNCHANGED <<mutex, data, todo, tag, d, arrived, snap>>

ParserStep == Lock(Parser) \/ Switch \/ Write \/ ParserUnlock \/ Count
-----------------------------------------------------------------------------
(* The readers: d = {0}, lock, d = data, unlock, then d is used.             *)

Start(r) == /\ pc[r] = "idle"
            /\ d' = [d EXCEPT ![r] = Zero]
            /\ pc' = [pc EXCEPT ![r] = "lock"]
            /\ UNCHANGED <<mutex, data, rs485_frames_received, todo, tag, arrived, snap>>

\* A mistake, exchanged for Enter: only the payload about to be packed is copied.
EnterOnePayload(r) ==
    /\ pc[r] = "enter"
    /\ \E p \in Payload : todo' = [todo EXCEPT ![r] = {p} \X Cell]
    /\ pc' = [pc EXCEPT ![r] = "inside"]
    /\ UNCHANGED <<mutex, data, rs485_frames_received, tag, d, arrived, snap>>

Enter(r) == /\ pc[r] = "enter"
            /\ todo' = [todo EXCEPT ![r] = Payload \X Cell]
            /\ pc' = [pc EXCEPT ![r] = "inside"]
            /\ UNCHANGED <<mutex, data, rs485_frames_received, tag, d, arrived, snap>>

Copy(r) == /\ pc[r] = "inside"
           /\ \E p \in Payload, c \in Cell :
                 /\ <<p, c>> \in todo[r]
                 /\ todo' = [todo EXCEPT ![r] = @ \ {<<p, c>>}]
                 /\ d' = [d EXCEPT ![r][p][c] = data[p][c]]
           /\ UNCHANGED <<mutex, data, rs485_frames_received, pc, tag, arrived, snap>>

ReaderUnlock(r) == /\ pc[r] = "inside"
                   /\ todo[r] = {}
                   /\ Unlock(r, "use")
                   /\ snap' = [snap EXCEPT ![r] = Origin(d[r])]
                   /\ UNCHANGED <<data, rs485_frames_received, todo, tag, d, arrived>>

\* The frames are packed from d; the reader goes back to sleep.
Use(r) == /\ pc[r] = "use"
          /\ pc' = [pc EXCEPT ![r] = "idle"]
          /\ UNCHANGED <<mutex, data, rs485_frames_received, todo, tag, d, arrived, snap>>

ReaderStep(r) == Lock(r) \/ Enter(r) \/ Copy(r) \/ ReaderUnlock(r) \/ Use(r)
-----------------------------------------------------------------------------
Next == \/ Undecodable \/ Decoded \/ ParserStep
        \/ \E r \in Reader : Start(r) \/ ReaderStep(r)

Spec == Init /\ [][Next]_vars

\* The scheduler runs every thread that can run.  Nothing makes frames arrive,
\* and nothing makes a reader wake up.
FairSpec == Spec /\ WF_vars(ParserStep) /\ \A r \in Reader : WF_vars(ReaderStep(r))
-----------------------------------------------------------------------------
Label == {"idle", "lock", "blocked", "enter", "inside", "count", "use"}

TypeOK == /\ owner \in Thread \cup {NoThread}
          /\ waiters \in Seq(Thread)
          /\ data \in [Payload -> [Cell -> Message]]
          /\ rs485_frames_received \in Nat
          /\ pc \in [Thread -> Label]
          /\ todo \in [Thread -> SUBSET (Payload \X Cell)]
          /\ tag \in Payload \cup {Other}
          /\ d \in [Reader -> [Payload -> [Cell -> Message]]]
          /\ arrived \in Message
          /\ snap \in [Reader -> [Payload -> Message]]

\* Whatever a reader uses is whole: every payload of its copy is all of one
\* message, flagged valid, or nothing and not valid.
WholeSnapshot == \A r \in Reader : pc[r] = "use" =>
    \A p \in Payload : d[r][p] = Whole(snap[r][p])

\* Of two snapshots, one is nowhere newer than the other: no two threads see
\* payloads change in different orders.
SnapshotsOrdered == \A r, s \in Reader :
    \/ \A p \in Payload : snap[r][p] <= snap[s][p]
    \/ \A p \in Payload : snap[s][p] <= snap[r][p]

\* A reader's view never goes back in time; in particular a payload that was
\* valid stays valid.
NeverBack == [][\A r \in Reader, p \in Payload : snap[r][p] <= snap'[r][p]]_vars

\* The store by message, with the message the parser is writing in effect from
\* the moment it enters its switch: nobody can look before it is done.
Contents == [p \in Payload |-> IF pc[Parser] = "inside" /\ tag = p
                                  THEN arrived ELSE data[p]["first"]]

\* The store is atomic: a message takes effect all at once, and a snapshot is
\* the contents of the store at one instant.
Store == INSTANCE AtomicStore WITH store <- Contents
Refines == Store!Spec

\* A thread that waits for the store gets it.
LockGranted == \A t \in Thread : (pc[t] = "lock") ~> (pc[t] = "inside")
=============================================================================
