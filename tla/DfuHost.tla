------------------------------ MODULE DfuHost ------------------------------
(***************************************************************************)
(* tools/dfu_can.py: the program that sends a firmware image to the unit.  *)
(* It sends a REQUEST, the image in DATA frames, a batch at a time, and a  *)
(* COMMIT; after each it takes the next response on the bus, whichever it  *)
(* is, for the answer, and gives up when none comes in time.  It may be    *)
(* run again after it failed, when answers to the last run are still on    *)
(* their way.                                                              *)
(*                                                                         *)
(* The unit's side is in a submodule; here it does what dfu_can.py says of *)
(* it: it takes DATA frames in sequence only, answers each full batch,     *)
(* anything out of sequence, and the COMMIT, where the CRC tells whether   *)
(* it has the image.  Frames are lost in either direction, but stay in     *)
(* order.  A frame of the host is told by what it is, its sequence number  *)
(* and the run that sent it.                                               *)
(***************************************************************************)
EXTENDS Naturals, Sequences

CONSTANTS Batch,        \* DFU_BATCH_SIZE (32), the same on both sides
          SeqLimit,     \* sequence numbers of a DATA frame (65536)
          MaxChunks,    \* bound of the model: frames the image takes
          MaxRuns       \* bound of the model: runs of the program

ASSUME BatchAssumption == Batch \in Nat \ {0}
ASSUME SeqLimitAssumption == SeqLimit \in Nat

VARIABLES total,        \* total_frames
          run,          \* how often the program was started
          host,         \* what it is doing
          seq,          \* DATA frames sent
          toDevice, toHost,     \* frames and responses on their way
          device,       \* "idle", "receiving" or "committed"
          got,          \* for each chunk the unit has, the run it is from
          clean         \* history: no earlier run had left anything behind

vars == <<total, run, host, seq, toDevice, toHost, device, got, clean>>

\* The program refuses an empty file.
ImageSize == 1 .. MaxChunks

Init == /\ total \in ImageSize
        /\ run = 0 /\ host = "failed" /\ seq = 0
        /\ toDevice = << >> /\ toHost = << >>
        /\ device = "idle" /\ got = << >>
        /\ clean = TRUE

SendFrame(kind, n, r) == toDevice' = Append(toDevice, [kind |-> kind, seq |-> n, run |-> r])
-----------------------------------------------------------------------------
(* run_dfu.                                                                  *)

Start == /\ host = "failed"
         /\ run < MaxRuns
         /\ run' = run + 1
         /\ SendFrame("REQUEST", 0, run')
         /\ host' = "requested"
         /\ seq' = 0
         /\ clean' = (toDevice = << >> /\ toHost = << >>)
         /\ UNCHANGED <<total, toHost, device, got>>

SendData == /\ host = "sending"
            /\ seq < total
            /\ seq < SeqLimit
            /\ SendFrame("DATA", seq, run)
            /\ seq' = seq + 1
            /\ host' = IF seq' % Batch = 0 THEN "batch" ELSE "sending"
            /\ UNCHANGED <<total, run, toHost, device, got, clean>>

\* struct.pack refuses the number.
SeqExhausted == /\ host = "sending"
                /\ seq < total
                /\ seq = SeqLimit
                /\ host' = "failed"
                /\ UNCHANGED <<total, run, seq, toDevice, toHost, device, got, clean>>

SendCommit == /\ host = "sending"
              /\ seq = total
              /\ SendFrame("COMMIT", 0, run)
              /\ host' = "committing"
              /\ UNCHANGED <<total, run, seq, toHost, device, got, clean>>

Waiting == host \in {"requested", "batch", "committing"}

\* Mistakes, exchanged for Answered and TimeOut: the status of a response is not
\* looked at; the program waits for ever.
AnsweredAnyhow == /\ Waiting
                  /\ toHost # << >>
                  /\ toHost' = Tail(toHost)
                  /\ host' = IF host = "committing" THEN "complete" ELSE "sending"
                  /\ UNCHANGED <<total, run, seq, toDevice, device, got, clean>>

TimeOutNever == FALSE /\ UNCHANGED vars

\* _wait_response returns the status of the first response that comes.
Answered == /\ Waiting
            /\ toHost # << >>
            /\ toHost' = Tail(toHost)
            /\ host' = CASE Head(toHost) # "OK" -> "failed"
                         [] Head(toHost) = "OK" /\ host = "committing" -> "complete"
                         [] OTHER -> "sending"
            /\ UNCHANGED <<total, run, seq, toDevice, device, got, clean>>

\* _wait_response gives up, after 15, 5 or 10 s.
TimeOut == /\ Waiting
           /\ host' = "failed"
           /\ UNCHANGED <<total, run, seq, toDevice, toHost, device, got, clean>>

Host == SendData \/ SeqExhausted \/ SendCommit \/ Answered \/ TimeOut
-----------------------------------------------------------------------------
(* The unit, and the bus.                                                    *)

Respond(status) == toHost' = Append(toHost, status)

Serve == LET f == Head(toDevice)
         IN  /\ toDevice # << >>
             /\ toDevice' = Tail(toDevice)
             /\ \/ /\ f.kind = "REQUEST"
                   /\ device' = "receiving" /\ got' = << >> /\ Respond("OK")
                \/ /\ f.kind = "DATA" /\ device = "receiving" /\ f.seq = Len(got)
                   /\ got' = Append(got, f.run) /\ UNCHANGED device
                   /\ IF Len(got') % Batch = 0 THEN Respond("OK") ELSE UNCHANGED toHost
                \/ /\ f.kind = "DATA" /\ device = "receiving" /\ f.seq # Len(got)
                   /\ Respond("SEQ_FAIL") /\ UNCHANGED <<device, got>>
                \/ /\ f.kind = "COMMIT" /\ device = "receiving"
                   /\ got = [i \in 1 .. total |-> f.run]
                   /\ device' = "committed" /\ Respond("OK") /\ UNCHANGED got
                \/ /\ f.kind = "COMMIT" /\ device = "receiving"
                   /\ got # [i \in 1 .. total |-> f.run]
                   /\ device' = "idle" /\ Respond("CRC_FAIL") /\ UNCHANGED got
                \/ /\ f.kind # "REQUEST" /\ device # "receiving"
                   /\ UNCHANGED <<toHost, device, got>>
             /\ UNCHANGED <<total, run, host, seq, clean>>

\* The flash cannot be written, or the image is refused.
Refuse == /\ toDevice # << >>
          /\ toDevice' = Tail(toDevice)
          /\ device' = "idle"
          /\ Respond("WRITE_FAIL")
          /\ UNCHANGED <<total, run, host, seq, got, clean>>

Lose == /\ \/ toDevice # << >> /\ toDevice' = Tail(toDevice) /\ UNCHANGED toHost
           \/ toHost # << >> /\ toHost' = Tail(toHost) /\ UNCHANGED toDevice
        /\ UNCHANGED <<total, run, host, seq, device, got, clean>>

Next == Start \/ Host \/ Serve \/ Refuse \/ Lose

Spec == Init /\ [][Next]_vars

\* The program runs on; each of its waits has a deadline.  Nothing is assumed of
\* the unit or the bus.
FairSpec == Spec /\ WF_vars(Host)
-----------------------------------------------------------------------------
\* When the program reports "DFU complete", the unit has taken the image of this
\* run, every chunk of it in its place, provided that no response to an earlier
\* run could still come.  (Otherwise the responses are off by one, and the answer
\* to the last batch passes for that to the COMMIT.)
CompleteIsCommitted == host = "complete" /\ clean =>
    device = "committed" /\ got = [i \in 1 .. total |-> run]

\* Every run ends, whatever becomes of its frames and of their answers.
RunEnds == host = "requested" ~> host \in {"complete", "failed"}
=============================================================================
