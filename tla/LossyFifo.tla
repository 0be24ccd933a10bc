----------------------------- MODULE LossyFifo -----------------------------
(***************************************************************************)
(* What the CAN transmit path promises to the code that enqueues frames.   *)
(*                                                                         *)
(* Frames are numbered in the order in which they are offered.  An offered *)
(* frame waits, or is refused when Capacity frames are already waiting.    *)
(* Frames have their turn one at a time, oldest first; in its turn a frame *)
(* is handed to the CAN controller, or given up.  When those that wait are *)
(* dropped, there may be none: then the frame that had its turn last may   *)
(* have it again.  It is only in this way that a frame is handed over more *)
(* than once, and never after a frame offered later than itself.           *)
(***************************************************************************)
EXTENDS Naturals, Sequences

CONSTANT Capacity       \* frames that must be waiting before one is refused

VARIABLES offered,      \* number of frames offered so far
          waiting,      \* accepted frames that have not had their turn, oldest first
          turn,         \* the frame that had its turn last; 0, the empty frame, at first
          due,          \* it is still to be handed over or given up
          handed        \* the frames handed to the CAN controller, in their order

vars == <<offered, waiting, turn, due, handed>>

Init == offered = 0 /\ waiting = << >> /\ turn = 0 /\ due = FALSE /\ handed = << >>

Accept == /\ Len(waiting) < Capacity
          /\ offered' = offered + 1
          /\ waiting' = Append(waiting, offered')
          /\ UNCHANGED <<turn, due, handed>>

Refuse == /\ Len(waiting) >= Capacity
          /\ offered' = offered + 1
          /\ UNCHANGED <<waiting, turn, due, handed>>

Take == /\ ~due
        /\ waiting # << >>
        /\ turn' = Head(waiting)
        /\ waiting' = Tail(waiting)
        /\ due' = TRUE
        /\ UNCHANGED <<offered, handed>>

Hand == /\ due
        /\ handed' = Append(handed, turn)
        /\ due' = FALSE
        /\ UNCHANGED <<offered, waiting, turn>>

GiveUp == /\ due
          /\ due' = FALSE
          /\ UNCHANGED <<offered, waiting, turn, handed>>

Drop == /\ waiting' = << >>
        /\ \/ UNCHANGED due
           \/ waiting = << >> /\ due' = TRUE
        /\ UNCHANGED <<offered, turn, handed>>

Next == Accept \/ Refuse \/ Take \/ Hand \/ GiveUp \/ Drop

Spec == Init /\ [][Next]_vars
=============================================================================
