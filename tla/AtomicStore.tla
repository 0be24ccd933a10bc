---------------------------- MODULE AtomicStore ----------------------------
(***************************************************************************)
(* What the shared master data promises to the threads around it: the      *)
(* parser replaces one whole payload at a time, and a reader's snapshot is *)
(* all of the store at one instant.                                        *)
(*                                                                         *)
(* A payload is told by the number of the message that brought it, 0 when  *)
(* none has.                                                               *)
(***************************************************************************)
EXTENDS Naturals

CONSTANTS Payload, Reader

VARIABLES arrived,      \* messages that have reached the parser
          store,        \* for each payload, the message it is from
          snap          \* for each reader, the snapshot it took last

vars == <<arrived, store, snap>>

Init == /\ arrived = 0
        /\ store = [p \in Payload |-> 0]
        /\ snap = [r \in Reader |-> store]

Arrive == arrived' = arrived + 1 /\ UNCHANGED <<store, snap>>

\* The message that arrived last takes effect.
Put(p) == store' = [store EXCEPT ![p] = arrived] /\ UNCHANGED <<arrived, snap>>

Snapshot(r) == snap' = [snap EXCEPT ![r] = store] /\ UNCHANGED <<arrived, store>>

Next == Arrive \/ (\E p \in Payload : Put(p)) \/ (\E r \in Reader : Snapshot(r))

Spec == Init /\ [][Next]_vars
=============================================================================
