--------------------------- MODULE MCFrameCounts ---------------------------
(***************************************************************************)
(* Values of the constants of FrameCounts for TLC: one kind of frame that  *)
(* both threads send, mcu_state, and one that only the periodic thread     *)
(* sends, protium_power.                                                   *)
(***************************************************************************)
EXTENDS FrameCounts

CONSTANTS mcu_state, protium_power

MCKind == {mcu_state, protium_power}
MCButtonFrames == <<mcu_state>>
=============================================================================
