--------------------------- MODULE DfuHostProofs ---------------------------
(***************************************************************************)
(* Proofs about DfuHost, for images, batches and numbers of runs of any    *)
(* size.                                                                   *)
(*                                                                         *)
(* The program takes whatever OK comes next for the answer it waits for.   *)
(* CompleteIsCommitted holds because in a run that found nothing left      *)
(* behind at most one OK can be on its way, and it is the answer to what   *)
(* the program sent last (Meant): an OK to a batch needs every frame of it *)
(* (Gathered), and once a frame is lost the unit answers no batch any more.*)
(***************************************************************************)
EXTENDS DfuHost, TLAPS, SequenceTheorems

FrameOf == [kind : {"REQUEST", "DATA", "COMMIT"}, seq : Nat, run : Nat]
Status == {"OK", "SEQ_FAIL", "CRC_FAIL", "WRITE_FAIL"}

Types == /\ total \in Nat /\ run \in Nat /\ seq \in Nat
         /\ host \in {"failed", "requested", "sending", "batch", "committing", "complete"}
         /\ toDevice \in Seq(FrameOf)
         /\ toHost \in Seq(Status)
         /\ device \in {"idle", "receiving", "committed"}
         /\ got \in Seq(Nat)
         /\ clean \in BOOLEAN

Transferring == host \in {"sending", "batch", "committing"}

\* The image of this run, every chunk of it in its place.
Whole == got = [i \in 1 .. total |-> run]

\* The unit has nothing but chunks of this run, and no more than were sent.
Own == /\ Len(got) <= seq
       /\ \A i \in DOMAIN got : got[i] = run

\* Frames under way are of this run, in the order in which they were sent, and the
\* program is not ahead of what it has to send.
Flight ==
    /\ \A n \in DOMAIN toDevice : toDevice[n].run = run
    /\ \A n \in DOMAIN toDevice :
          CASE toDevice[n].kind = "REQUEST" -> host = "requested" /\ n = Len(toDevice)
            [] toDevice[n].kind = "DATA" -> Transferring /\ toDevice[n].seq < seq
            [] OTHER -> host = "committing" /\ n = Len(toDevice)
    /\ \A m, n \in DOMAIN toDevice :
          m < n /\ toDevice[n].kind = "DATA" => toDevice[m].seq < toDevice[n].seq
    /\ host = "requested" => seq = 0
    /\ host = "committing" => seq = total

\* While the unit takes chunks of this run, those under way follow what it has, and
\* the only batch that may still become full is the one the program waits for.
Gathered ==
    Transferring /\ device = "receiving" =>
        /\ Own
        /\ \A n \in DOMAIN toDevice :
              toDevice[n].kind = "DATA" => Len(got) <= toDevice[n].seq
        /\ \A n \in Nat : Len(got) < n /\ n <= seq /\ n % Batch = 0
                             => host = "batch" /\ n = seq

\* An OK on its way is the last answer to come, with nothing under way that could
\* change what it says: it answers what the program waits for.
Meant == \A n \in DOMAIN toHost : toHost[n] = "OK" =>
    /\ n = Len(toHost)
    /\ toDevice = << >>
    /\ \/ host = "requested" /\ device = "receiving" /\ got = << >>
       \/ host = "batch" /\ device = "receiving" /\ Own /\ Len(got) = seq
       \/ host = "committing" /\ device = "committed" /\ Whole

Done == host = "complete" => toDevice = << >> /\ device = "committed" /\ Whole

Run == clean /\ host # "failed" => Flight /\ Gathered /\ Meant /\ Done

RunInv == Types /\ Run
-----------------------------------------------------------------------------
(* Types.                                                                    *)

\* A sequence without a position is empty.
LEMMA NoneLeft == ASSUME NEW S, NEW s \in Seq(S), ~ \E n \in DOMAIN s : TRUE
                  PROVE  s = << >>
<1>1. Len(s) \in Nat /\ DOMAIN s = 1 .. Len(s)
  OBVIOUS
<1>2. Len(s) = 0
  <2>1. 1 \notin 1 .. Len(s)
    BY <1>1
  <2> QED BY <1>1, <2>1
<1> QED BY <1>2, EmptySeq

LEMMA Shortened == ASSUME NEW S, NEW s \in Seq(S), s # << >>
                   PROVE  Tail(s) \in Seq(S)
  OBVIOUS

LEMMA FrameType ==
    ASSUME NEW kind \in {"REQUEST", "DATA", "COMMIT"}, NEW n \in Nat, NEW r \in Nat,
           toDevice \in Seq(FrameOf), SendFrame(kind, n, r)
    PROVE  toDevice' \in Seq(FrameOf)
<1> DEFINE f == [kind |-> kind, seq |-> n, run |-> r]
<1>1. f \in FrameOf
  BY DEF FrameOf
<1>2. toDevice' = Append(toDevice, f)
  BY DEF SendFrame
<1> HIDE DEF f
<1> QED BY <1>1, <1>2

LEMMA TypeStep == Types /\ [Next]_vars => Types'
<1> SUFFICES ASSUME Types, [Next]_vars PROVE Types'
  OBVIOUS
<1> USE DEF Types
<1>1. CASE Start
  <2>1. /\ run' = run + 1 /\ host' = "requested" /\ seq' = 0
        /\ clean' = (toDevice = << >> /\ toHost = << >>)
        /\ UNCHANGED <<total, toHost, device, got>>
    BY <1>1 DEF Start
  <2>2. run' \in Nat
    BY <2>1
  <2>3. toDevice' \in Seq(FrameOf)
    <3>1. SendFrame("REQUEST", 0, run')
      BY <1>1 DEF Start
    <3>2. 0 \in Nat /\ "REQUEST" \in {"REQUEST", "DATA", "COMMIT"}
      OBVIOUS
    <3> QED BY <2>2, <3>1, <3>2 DEF SendFrame, FrameOf
  <2> QED BY <2>1, <2>2, <2>3
<1>2. CASE SendData \/ SeqExhausted \/ SendCommit
  <2>1. /\ UNCHANGED <<total, run, toHost, device, got, clean>>
        /\ host' \in {"batch", "sending", "failed", "committing"}
        /\ seq' \in Nat
    BY <1>2 DEF SendData, SeqExhausted, SendCommit
  <2>2. SendFrame("DATA", seq, run) \/ SendFrame("COMMIT", 0, run) \/ UNCHANGED toDevice
    BY <1>2 DEF SendData, SeqExhausted, SendCommit
  <2>3. toDevice' \in Seq(FrameOf)
    BY <2>2, FrameType
  <2> QED BY <2>1, <2>3
<1>3. CASE Answered \/ TimeOut
  <2>1. UNCHANGED <<total, run, seq, toDevice, device, got, clean>>
    BY <1>3 DEF Answered, TimeOut
  <2>2. host' \in {"failed", "complete", "sending"}
    BY <1>3 DEF Answered, TimeOut
  <2>3. toHost' \in Seq(Status)
    <3>1. UNCHANGED toHost \/ (toHost # << >> /\ toHost' = Tail(toHost))
      BY <1>3 DEF Answered, TimeOut
    <3>2. toHost \in Seq(Status)
      OBVIOUS
    <3> QED BY <3>1, <3>2, Shortened
  <2> QED BY <2>1, <2>2, <2>3
<1>4. CASE Serve
  <2>1. /\ toDevice # << >> /\ toDevice' = Tail(toDevice)
        /\ UNCHANGED <<total, run, host, seq, clean>>
    BY <1>4 DEF Serve
  <2>2. Head(toDevice) \in FrameOf /\ toDevice' \in Seq(FrameOf)
    BY <2>1
  <2>3. toHost' \in Seq(Status)
    <3>1. UNCHANGED toHost \/ \E s \in Status : toHost' = Append(toHost, s)
      BY <1>4 DEF Serve, Respond, Status
    <3> QED BY <3>1
  <2>4. device' \in {"idle", "receiving", "committed"}
    <3>1. device' \in {"idle", "receiving", "committed"} \/ UNCHANGED device
      BY <1>4 DEF Serve
    <3> QED BY <3>1
  <2>5. got' \in Seq(Nat)
    <3>1. UNCHANGED got \/ got' = << >> \/ got' = Append(got, Head(toDevice).run)
      BY <1>4 DEF Serve
    <3>2. Head(toDevice).run \in Nat /\ got \in Seq(Nat)
      BY <2>2 DEF FrameOf
    <3>3. CASE got' = Append(got, Head(toDevice).run)
      <4> HIDE DEF Types
      <4> QED BY <3>2, <3>3, AppendProperties
    <3>4. CASE got' = << >>
      BY <3>4, EmptySeq
    <3> QED BY <3>1, <3>2, <3>3, <3>4
  <2> QED BY <2>1, <2>2, <2>3, <2>4, <2>5
<1>5. CASE Refuse
  <2>1. \E s \in Status : toHost' = Append(toHost, s)
    BY <1>5 DEF Refuse, Respond, Status
  <2>2. toHost' \in Seq(Status)
    BY <2>1
  <2> QED BY <1>5, <2>2 DEF Refuse
<1>6. CASE Lose
  <2>1. /\ UNCHANGED toHost \/ (toHost # << >> /\ toHost' = Tail(toHost))
        /\ UNCHANGED toDevice \/ (toDevice # << >> /\ toDevice' = Tail(toDevice))
        /\ UNCHANGED <<total, run, host, seq, device, got, clean>>
    BY <1>6 DEF Lose
  <2>2. toHost' \in Seq(Status)
    BY <2>1, Shortened
  <2>3. toDevice' \in Seq(FrameOf)
    BY <2>1, Shortened
  <2> QED BY <2>1, <2>2, <2>3
<1>7. CASE UNCHANGED vars
  BY <1>7 DEF vars
<1> QED BY <1>1, <1>2, <1>3, <1>4, <1>5, <1>6, <1>7 DEF Next, Host
-----------------------------------------------------------------------------
(* The frames and the answers under way.                                     *)

\* What a run in progress relies on.
Healthy == clean /\ host # "failed" /\ Flight /\ Gathered /\ Meant /\ Done

\* The unit takes the first frame, or the bus loses it.
LEMMA Taken ==
    ASSUME Types, toDevice # << >>, toDevice' = Tail(toDevice)
    PROVE  /\ 1 \in DOMAIN toDevice /\ Head(toDevice) = toDevice[1]
           /\ Len(toDevice') = Len(toDevice) - 1
           /\ Len(toDevice) \in Nat
           /\ \A n \in DOMAIN toDevice : toDevice[n] \in FrameOf /\ n \in Nat
           /\ \A n \in DOMAIN toDevice' :
                 n \in Nat /\ n > 0 /\ n + 1 \in DOMAIN toDevice /\ toDevice'[n] = toDevice[n + 1]
<1>1. /\ toDevice' \in Seq(FrameOf)
      /\ Len(toDevice') = Len(toDevice) - 1
      /\ \A n \in 1 .. Len(toDevice') : toDevice'[n] = toDevice[n + 1]
  BY HeadTailProperties DEF Types
<1> QED BY <1>1 DEF Types

LEMMA FlightTaken ==
    ASSUME Types, Flight, toDevice # << >>, toDevice' = Tail(toDevice),
           UNCHANGED <<total, run, host, seq>>
    PROVE  Flight'
<1>1. /\ Len(toDevice') = Len(toDevice) - 1 /\ Len(toDevice) \in Nat
      /\ \A n \in DOMAIN toDevice' :
            n \in Nat /\ n + 1 \in DOMAIN toDevice /\ toDevice'[n] = toDevice[n + 1]
  BY Taken
<1>2. \A n \in DOMAIN toDevice' : n + 1 = Len(toDevice) => n = Len(toDevice')
  BY <1>1
<1>3. \A n \in DOMAIN toDevice' :
         CASE toDevice'[n].kind = "REQUEST" -> host = "requested" /\ n = Len(toDevice')
           [] toDevice'[n].kind = "DATA" -> Transferring /\ toDevice'[n].seq < seq
           [] OTHER -> host = "committing" /\ n = Len(toDevice')
  BY <1>1, <1>2 DEF Flight
<1>4. \A m, n \in DOMAIN toDevice' :
         m < n /\ toDevice'[n].kind = "DATA" => toDevice'[m].seq < toDevice'[n].seq
  BY <1>1 DEF Flight
<1>5. \A n \in DOMAIN toDevice' : toDevice'[n].run = run
  BY <1>1 DEF Flight
<1> QED BY <1>3, <1>4, <1>5 DEF Flight, Transferring

\* While a frame is under way, no answer on its way is an OK.
LEMMA NoOk ==
    ASSUME Meant, toDevice # << >>
    PROVE  \A n \in DOMAIN toHost : toHost[n] # "OK"
  BY DEF Meant

\* A refusal is none either.
LEMMA Refusal ==
    ASSUME Types, Meant, toDevice # << >>, NEW s \in Status \ {"OK"}, Respond(s)
    PROVE  Meant'
<1>1. \A n \in DOMAIN toHost' : toHost'[n] # "OK"
  <2>1. /\ Len(toHost') = Len(toHost) + 1 /\ toHost' \in Seq(Status)
        /\ \A n \in 1 .. Len(toHost) : toHost'[n] = toHost[n]
        /\ toHost'[Len(toHost) + 1] = s
    BY AppendProperties DEF Types, Respond
  <2> QED BY <2>1, NoOk DEF Types
<1> QED BY <1>1 DEF Meant

\* An OK given with nothing under way any more is the only one, and the last answer.
LEMMA Approval ==
    ASSUME Types, Meant, toDevice # << >>, Respond("OK")
    PROVE  \A n \in DOMAIN toHost' : toHost'[n] = "OK" => n = Len(toHost')
<1>1. /\ Len(toHost') = Len(toHost) + 1 /\ toHost' \in Seq(Status)
      /\ \A n \in 1 .. Len(toHost) : toHost'[n] = toHost[n]
  BY AppendProperties DEF Types, Respond, Status
<1> QED BY SMTT(30), <1>1, NoOk DEF Types
-----------------------------------------------------------------------------
(* The steps of the program.                                                 *)

LEMMA StartStep ==
    ASSUME Types, Start
    PROVE  Run'
<1>1. /\ host' = "requested" /\ seq' = 0 /\ run' = run + 1
      /\ toDevice' = Append(toDevice, [kind |-> "REQUEST", seq |-> 0, run |-> run'])
      /\ clean' = (toDevice = << >> /\ toHost = << >>)
      /\ UNCHANGED toHost
  BY DEF Start, SendFrame
<1>2. SUFFICES ASSUME clean' PROVE Flight' /\ Gathered' /\ Meant' /\ Done'
  BY DEF Run
<1> DEFINE f == [kind |-> "REQUEST", seq |-> 0, run |-> run']
<1>3. toDevice' = Append(<< >>, f) /\ toHost' = << >>
  BY <1>1, <1>2
<1> HIDE DEF f
<1>4. DOMAIN toDevice' = {1} /\ Len(toDevice') = 1 /\ toDevice'[1] = f
  BY <1>3
<1>5. f.kind = "REQUEST" /\ f.run = run'
  BY DEF f
<1>6. Flight'
  BY <1>1, <1>4, <1>5 DEF Flight, Transferring
<1> QED BY <1>1, <1>3, <1>6 DEF Gathered, Meant, Done, Transferring

\* What SendData and SendCommit do to the frames under way.
LEMMA Added ==
    ASSUME Types, NEW kind \in {"DATA", "COMMIT"}, NEW n \in Nat, SendFrame(kind, n, run)
    PROVE  /\ Len(toDevice') = Len(toDevice) + 1 /\ Len(toDevice) \in Nat
           /\ \A i \in DOMAIN toDevice : i \in Nat /\ toDevice[i] \in FrameOf
           /\ \A i \in DOMAIN toDevice' :
                 \/ i \in DOMAIN toDevice /\ i < Len(toDevice') /\ toDevice'[i] = toDevice[i]
                 \/ /\ i = Len(toDevice')
                    /\ toDevice'[i] = [kind |-> kind, seq |-> n, run |-> run]
<1> DEFINE f == [kind |-> kind, seq |-> n, run |-> run]
<1>1. f \in FrameOf
  BY DEF Types, FrameOf
<1> HIDE DEF f
<1>2. toDevice \in Seq(FrameOf) /\ toDevice' = Append(toDevice, f)
  BY DEF Types, SendFrame, f
<1>3. /\ toDevice' \in Seq(FrameOf) /\ Len(toDevice') = Len(toDevice) + 1
      /\ \A i \in 1 .. Len(toDevice) : toDevice'[i] = toDevice[i]
      /\ toDevice'[Len(toDevice) + 1] = f
  BY <1>1, <1>2, AppendProperties
<1>4. \A i \in DOMAIN toDevice' :
         \/ i \in DOMAIN toDevice /\ i < Len(toDevice') /\ toDevice'[i] = toDevice[i]
         \/ i = Len(toDevice') /\ toDevice'[i] = f
  BY <1>2, <1>3
<1> QED BY <1>2, <1>3, <1>4 DEF f

LEMMA SendDataStep ==
    ASSUME Types, Healthy, SendData
    PROVE  Flight' /\ Gathered' /\ Meant' /\ Done'
<1> USE DEF Healthy
<1>1. /\ host = "sending" /\ SendFrame("DATA", seq, run) /\ seq' = seq + 1
      /\ host' = IF seq' % Batch = 0 THEN "batch" ELSE "sending"
      /\ UNCHANGED <<total, run, toHost, device, got, clean>>
      /\ seq \in Nat /\ Len(got) \in Nat
  BY DEF SendData, Types
<1>2. /\ Len(toDevice') = Len(toDevice) + 1 /\ Len(toDevice) \in Nat
      /\ \A i \in DOMAIN toDevice : i \in Nat /\ toDevice[i] \in FrameOf
      /\ \A i \in DOMAIN toDevice' :
            \/ i \in DOMAIN toDevice /\ i < Len(toDevice') /\ toDevice'[i] = toDevice[i]
            \/ /\ i = Len(toDevice')
               /\ toDevice'[i] = [kind |-> "DATA", seq |-> seq, run |-> run]
  BY <1>1, Added
<1>3. \A i \in DOMAIN toDevice :
         toDevice[i].kind = "DATA" /\ toDevice[i].seq < seq /\ toDevice[i].seq \in Nat
  BY <1>1, <1>2 DEF Flight, FrameOf
<1>4. \A i \in DOMAIN toDevice' :
         toDevice'[i].kind = "DATA" /\ toDevice'[i].seq < seq' /\ toDevice'[i].run = run
  BY <1>1, <1>2, <1>3 DEF Flight
<1>5. \A m, n \in DOMAIN toDevice' : m < n => toDevice'[m].seq < toDevice'[n].seq
  <2>1. ASSUME NEW m \in DOMAIN toDevice', NEW n \in DOMAIN toDevice', m < n
        PROVE  toDevice'[m].seq < toDevice'[n].seq
    <3>1. m \in DOMAIN toDevice /\ toDevice'[m] = toDevice[m]
      BY <1>2, <2>1
    <3>2. CASE n = Len(toDevice')
      BY <1>2, <1>3, <3>1, <3>2
    <3>3. CASE n # Len(toDevice')
      BY <1>2, <1>3, <2>1, <3>1, <3>3 DEF Flight
    <3> QED BY <3>2, <3>3
  <2> QED BY <2>1
<1>6. host' \in {"sending", "batch"}
  BY <1>1
<1>7. Flight'
  BY <1>1, <1>4, <1>5, <1>6 DEF Flight, Transferring
<1>8. ASSUME device' = "receiving" PROVE Gathered'
  <2>1. /\ Own /\ \A n \in Nat : Len(got) < n /\ n <= seq => n % Batch # 0
        /\ \A i \in DOMAIN toDevice : Len(got) <= toDevice[i].seq
    BY <1>1, <1>3, <1>8 DEF Gathered, Transferring
  <2>2. Own' /\ Len(got) <= seq
    BY <1>1, <2>1 DEF Own
  <2>3. \A i \in DOMAIN toDevice' : Len(got') <= toDevice'[i].seq
    BY <1>1, <1>2, <2>1, <2>2
  <2>4. \A n \in Nat : Len(got') < n /\ n <= seq' /\ n % Batch = 0 => host' = "batch" /\ n = seq'
    BY <1>1, <2>1
  <2> QED BY <2>2, <2>3, <2>4 DEF Gathered
<1>9. Meant' /\ Done'
  BY <1>1, <1>6 DEF Meant, Done
<1> QED BY <1>7, <1>8, <1>9 DEF Gathered

LEMMA SendCommitStep ==
    ASSUME Types, Healthy, SendCommit
    PROVE  Flight' /\ Gathered' /\ Meant' /\ Done'
<1> USE DEF Healthy
<1>1. /\ host = "sending" /\ host' = "committing" /\ seq = total
      /\ SendFrame("COMMIT", 0, run)
      /\ UNCHANGED <<total, run, seq, toHost, device, got, clean>>
  BY DEF SendCommit
<1>2. /\ Len(toDevice') = Len(toDevice) + 1 /\ Len(toDevice) \in Nat
      /\ \A i \in DOMAIN toDevice : i \in Nat /\ toDevice[i] \in FrameOf
      /\ \A i \in DOMAIN toDevice' :
            \/ i \in DOMAIN toDevice /\ i < Len(toDevice') /\ toDevice'[i] = toDevice[i]
            \/ /\ i = Len(toDevice')
               /\ toDevice'[i] = [kind |-> "COMMIT", seq |-> 0, run |-> run]
  BY <1>1, Added
<1>3. \A i \in DOMAIN toDevice : toDevice[i].kind = "DATA" /\ toDevice[i].seq < seq
  BY <1>1, <1>2 DEF Flight, FrameOf
<1>4. \A m, n \in DOMAIN toDevice' :
         m < n /\ toDevice'[n].kind = "DATA" => toDevice'[m].seq < toDevice'[n].seq
  BY <1>2 DEF Flight
<1>5. Flight'
  BY <1>1, <1>2, <1>3, <1>4 DEF Flight, Transferring
<1>6. Gathered'
  <2>1. CASE device = "receiving"
    <3>1. /\ Own /\ \A n \in Nat : Len(got) < n /\ n <= seq => n % Batch # 0
          /\ \A i \in DOMAIN toDevice : Len(got) <= toDevice[i].seq
      BY <1>1, <1>3, <2>1 DEF Gathered, Transferring
    <3>2. Own'
      BY <1>1, <3>1 DEF Own
    <3> QED BY <1>1, <1>2, <3>1, <3>2 DEF Gathered
  <2>2. CASE device # "receiving"
    BY <1>1, <2>2 DEF Gathered
  <2> QED BY <2>1, <2>2
<1>7. Meant' /\ Done'
  BY <1>1 DEF Meant, Done
<1> QED BY <1>5, <1>6, <1>7

LEMMA AnsweredStep ==
    ASSUME Types, Healthy, Answered, host' # "failed"
    PROVE  Flight' /\ Gathered' /\ Meant' /\ Done'
<1> USE DEF Healthy
<1>1. /\ toHost # << >> /\ toHost' = Tail(toHost) /\ Head(toHost) = "OK"
      /\ host' = IF host = "committing" THEN "complete" ELSE "sending"
      /\ UNCHANGED <<total, run, seq, toDevice, device, got, clean>>
  BY DEF Answered
<1>2. 1 \in DOMAIN toHost /\ toHost[1] = "OK"
  BY <1>1 DEF Types
<1>3. /\ 1 = Len(toHost) /\ toDevice = << >>
      /\ \/ host = "requested" /\ device = "receiving" /\ got = << >>
         \/ host = "batch" /\ device = "receiving" /\ Own /\ Len(got) = seq
         \/ host = "committing" /\ device = "committed" /\ Whole
  BY <1>2 DEF Meant
<1>4. toHost' = << >> /\ toDevice' = << >>
  BY <1>1, <1>3 DEF Types
<1>5. Flight' /\ Meant'
  BY <1>1, <1>4 DEF Flight, Meant
<1>6. Gathered'
  <2>1. CASE host = "committing"
    BY <1>1, <2>1 DEF Gathered, Transferring
  <2>2. CASE host # "committing"
    <3>1. Own' /\ Len(got') = seq' /\ seq' \in Nat
      BY <1>1, <1>3, <2>2 DEF Own, Flight, Types
    <3>2. \A n \in Nat : ~(Len(got') < n /\ n <= seq')
      BY <3>1
    <3> QED BY <1>4, <3>1, <3>2 DEF Gathered
  <2> QED BY <2>1, <2>2
<1>7. Done'
  BY <1>1, <1>3, <1>4 DEF Done, Whole
<1> QED BY <1>5, <1>6, <1>7
-----------------------------------------------------------------------------
(* The steps of the unit and of the bus.                                     *)

LEMMA ServeStep ==
    ASSUME Types, Healthy, Serve
    PROVE  Flight' /\ Gathered' /\ Meant' /\ Done'
<1> USE DEF Healthy
<1> DEFINE f == Head(toDevice)
<1>1. /\ toDevice # << >> /\ toDevice' = Tail(toDevice)
      /\ UNCHANGED <<total, run, host, seq, clean>>
  BY DEF Serve
<1>2. /\ 1 \in DOMAIN toDevice /\ f = toDevice[1] /\ f \in FrameOf
      /\ Len(toDevice') = Len(toDevice) - 1 /\ Len(toDevice) \in Nat
      /\ \A n \in DOMAIN toDevice' : /\ n \in Nat /\ n > 0 /\ n + 1 \in DOMAIN toDevice
                                     /\ toDevice'[n] = toDevice[n + 1]
                                     /\ toDevice'[n] \in FrameOf
  BY <1>1, Taken
<1>3. /\ f.run = run
      /\ f.kind = "REQUEST" => host = "requested" /\ toDevice' = << >>
      /\ f.kind = "DATA" => Transferring /\ f.seq < seq
      /\ f.kind = "COMMIT" => host = "committing" /\ toDevice' = << >>
  <2>1. /\ f.run = run
        /\ f.kind = "REQUEST" => host = "requested" /\ 1 = Len(toDevice)
        /\ f.kind = "DATA" => Transferring /\ f.seq < seq
        /\ f.kind = "COMMIT" => host = "committing" /\ 1 = Len(toDevice)
    BY <1>2 DEF Flight
  <2>2. 1 = Len(toDevice) => toDevice' = << >>
    BY <1>1, <1>2 DEF Types
  <2> QED BY <2>1, <2>2
<1>4. \A n \in DOMAIN toDevice' : toDevice'[n].kind = "DATA" =>
         f.seq < toDevice'[n].seq /\ toDevice'[n].seq < seq
  BY <1>2 DEF Flight
<1>5. Flight'
  BY <1>1, FlightTaken
<1>6. host # "complete" /\ host # "failed" /\ Done'
  BY <1>1 DEF Done
<1>7. \A n \in DOMAIN toHost : toHost[n] # "OK"
  BY <1>1, NoOk
<1>n. Len(got) \in Nat /\ seq \in Nat /\ f.seq \in Nat /\ f.kind \in {"REQUEST", "DATA", "COMMIT"}
      /\ got \in Seq(Nat) /\ run \in Nat
      /\ \A n \in DOMAIN toDevice' : toDevice'[n].seq \in Nat
  BY <1>2 DEF Types, FrameOf
<1> SUFFICES Gathered' /\ Meant'
  BY <1>5, <1>6
<1> HIDE DEF f
<1>8. CASE f.kind = "REQUEST"
  <2>1. device' = "receiving" /\ got' = << >> /\ Respond("OK")
    BY <1>8 DEF Serve, f
  <2>2. Meant'
    BY <1>1, <1>3, <1>8, <2>1, Approval DEF Meant
  <2>3. Gathered'
    BY <1>1, <1>3, <1>8 DEF Gathered, Transferring
  <2> QED BY <2>2, <2>3
<1>9. CASE f.kind = "DATA" /\ device = "receiving" /\ f.seq = Len(got)
  <2>1. /\ got' = Append(got, run) /\ UNCHANGED device
        /\ IF Len(got') % Batch = 0 THEN Respond("OK") ELSE UNCHANGED toHost
    BY <1>3, <1>9 DEF Serve, f
  <2>2. /\ Own /\ Transferring
        /\ \A n \in Nat : Len(got) < n /\ n <= seq /\ n % Batch = 0
                             => host = "batch" /\ n = seq
    BY <1>3, <1>9 DEF Gathered
  <2>3. /\ Len(got') = Len(got) + 1 /\ Len(got') <= seq
        /\ \A i \in DOMAIN got' : got'[i] = run
    <3>1. /\ Len(got') = Len(got) + 1 /\ got' \in Seq(Nat)
          /\ \A i \in 1 .. Len(got) : got'[i] = got[i]
          /\ got'[Len(got) + 1] = run
      BY <1>n, <2>1, AppendProperties
    <3>2. ASSUME NEW i \in 1 .. Len(got) + 1 PROVE got'[i] = run
      <4>1. CASE i = Len(got) + 1
        BY <3>1, <4>1
      <4>2. CASE i # Len(got) + 1
        <5>1. i \in 1 .. Len(got) /\ DOMAIN got = 1 .. Len(got)
          BY <1>n, <4>2
        <5> QED BY <2>2, <3>1, <5>1 DEF Own
      <4> QED BY <4>1, <4>2
    <3> QED BY <1>n, <1>3, <1>9, <3>1, <3>2
  <2>4. Own'
    BY <1>1, <2>3 DEF Own
  <2>5. Gathered'
    BY <1>1, <1>n, <1>4, <1>9, <2>2, <2>3, <2>4 DEF Gathered
  <2>6. CASE Len(got') % Batch = 0
    <3>1. host = "batch" /\ Len(got') = seq
      BY <1>n, <2>2, <2>3, <2>6
    <3>2. toDevice' = << >>
      <4>1. ~ \E n \in DOMAIN toDevice' : TRUE
        <5> SUFFICES ASSUME NEW n \in DOMAIN toDevice' PROVE FALSE
          OBVIOUS
        <5>1. toDevice'[n].kind = "DATA"
          BY <1>1, <1>2, <1>5, <3>1 DEF Flight, FrameOf
        <5> QED BY <1>n, <1>4, <1>9, <2>3, <3>1, <5>1
      <4>2. toDevice' \in Seq(FrameOf)
        BY <1>1 DEF Types
      <4> QED BY <4>1, <4>2, NoneLeft
    <3>3. \A n \in DOMAIN toHost' : toHost'[n] = "OK" => n = Len(toHost')
      BY <1>1, <2>1, <2>6, Approval
    <3> QED BY <1>1, <1>9, <2>1, <2>4, <2>5, <3>1, <3>2, <3>3 DEF Meant
  <2>7. CASE Len(got') % Batch # 0
    BY <1>7, <2>1, <2>5, <2>7 DEF Meant
  <2> QED BY <2>6, <2>7
<1>10. CASE f.kind = "DATA" /\ device = "receiving" /\ f.seq # Len(got)
  <2>1. Respond("SEQ_FAIL") /\ UNCHANGED <<device, got>>
    BY <1>10 DEF Serve, f
  <2>2. Meant'
    BY <1>1, <2>1, Refusal DEF Status
  <2>3. Gathered'
    BY <1>1, <1>2, <2>1 DEF Gathered, Own, Transferring
  <2> QED BY <2>2, <2>3
<1>11. CASE f.kind = "COMMIT" /\ device = "receiving"
  <2>1. Gathered'
    BY <1>11 DEF Serve, f, Gathered
  <2>2. CASE Whole
    <3>1. device' = "committed" /\ Respond("OK") /\ UNCHANGED got
      BY <1>3, <1>11, <2>2 DEF Serve, f, Whole
    <3>2. Whole'
      BY <1>1, <2>2, <3>1 DEF Whole
    <3> QED BY <1>1, <1>3, <1>11, <2>1, <3>1, <3>2, Approval DEF Meant
  <2>3. CASE ~Whole
    <3>1. Respond("CRC_FAIL")
      BY <1>3, <1>11, <2>3 DEF Serve, f, Whole
    <3> QED BY <1>1, <2>1, <3>1, Refusal DEF Status
  <2> QED BY <2>2, <2>3
<1>12. CASE f.kind # "REQUEST" /\ device # "receiving"
  <2>1. UNCHANGED <<toHost, device, got>>
    BY <1>12 DEF Serve, f
  <2> QED BY <1>7, <1>12, <2>1 DEF Gathered, Meant
<1> QED BY <1>n, <1>8, <1>9, <1>10, <1>11, <1>12

LEMMA RefuseStep ==
    ASSUME Types, Healthy, Refuse
    PROVE  Flight' /\ Gathered' /\ Meant' /\ Done'
<1> USE DEF Healthy
<1>1. /\ toDevice # << >> /\ toDevice' = Tail(toDevice)
      /\ device' = "idle" /\ Respond("WRITE_FAIL")
      /\ UNCHANGED <<total, run, host, seq, got, clean>>
  BY DEF Refuse
<1>2. Meant'
  BY <1>1, Refusal DEF Status
<1> QED BY <1>1, <1>2, FlightTaken DEF Gathered, Done

LEMMA LoseStep ==
    ASSUME Types, Healthy, Lose
    PROVE  Flight' /\ Gathered' /\ Meant' /\ Done'
<1> USE DEF Healthy
<1>1. UNCHANGED <<total, run, host, seq, device, got, clean>>
  BY DEF Lose
<1>2. CASE toDevice # << >> /\ toDevice' = Tail(toDevice) /\ UNCHANGED toHost
  <2>1. Flight'
    BY <1>1, <1>2, FlightTaken
  <2>2. Gathered'
    <3>1. \A n \in DOMAIN toDevice' :
             n + 1 \in DOMAIN toDevice /\ toDevice'[n] = toDevice[n + 1]
      BY <1>2, Taken
    <3> QED BY <1>1, <3>1 DEF Gathered, Own, Transferring
  <2>3. Meant' /\ Done'
    BY <1>1, <1>2, NoOk DEF Meant, Done
  <2> QED BY <2>1, <2>2, <2>3
<1>3. CASE toHost # << >> /\ toHost' = Tail(toHost) /\ UNCHANGED toDevice
  <2>1. /\ Len(toHost') = Len(toHost) - 1 /\ Len(toHost) \in Nat
        /\ \A n \in DOMAIN toHost' :
              n \in Nat /\ n + 1 \in DOMAIN toHost /\ toHost'[n] = toHost[n + 1]
    <3>1. toHost \in Seq(Status)
      BY DEF Types
    <3>2. /\ toHost' \in Seq(Status) /\ Len(toHost') = Len(toHost) - 1
          /\ \A n \in 1 .. Len(toHost') : toHost'[n] = toHost[n + 1]
      BY <1>3, <3>1, HeadTailProperties
    <3> QED BY <3>1, <3>2
  <2>2. Own' <=> Own
    BY <1>1 DEF Own
  <2>3. Whole' <=> Whole
    BY <1>1 DEF Whole
  <2>4. Meant'
    BY <1>1, <1>3, <2>1, <2>2, <2>3 DEF Meant
  <2>5. Flight' /\ Done'
    BY <1>1, <1>3, <2>3 DEF Flight, Transferring, Done
  <2>6. Gathered'
    BY <1>1, <1>3, <2>2 DEF Gathered, Transferring
  <2> QED BY <2>4, <2>5, <2>6
<1> QED BY <1>2, <1>3 DEF Lose

LEMMA RunStep == RunInv /\ [Next]_vars => RunInv'
<1> SUFFICES ASSUME RunInv, [Next]_vars PROVE RunInv'
  OBVIOUS
<1>1. Types /\ Types'
  BY TypeStep DEF RunInv
<1>2. CASE Start
  BY <1>1, <1>2, StartStep DEF RunInv
<1>3. CASE ~Start
  <2>1. UNCHANGED clean /\ (host' # "failed" => host # "failed")
    BY <1>3 DEF Next, Host, SendData, SeqExhausted, SendCommit, Answered, TimeOut,
       Waiting, Serve, Refuse, Lose, vars
  <2>2. SUFFICES ASSUME clean', host' # "failed"
                 PROVE  Flight' /\ Gathered' /\ Meant' /\ Done'
    BY <1>1 DEF RunInv, Run
  <2>3. Healthy
    BY <2>1, <2>2 DEF Healthy, RunInv, Run
  <2>4. CASE UNCHANGED vars
    BY <2>3, <2>4 DEF vars, Healthy, Flight, Gathered, Meant, Done, Own, Whole, Transferring
  <2>5. ~SeqExhausted /\ ~TimeOut
    BY <2>2 DEF SeqExhausted, TimeOut
  <2> QED BY <1>1, <1>3, <2>2, <2>3, <2>4, <2>5, SendDataStep, SendCommitStep,
             AnsweredStep, ServeStep, RefuseStep, LoseStep DEF Next, Host
<1> QED BY <1>2, <1>3
-----------------------------------------------------------------------------
\* "DFU complete" is true of a run that found no answer to an earlier one still on
\* its way: the unit has taken the image, every chunk of it of this run.
THEOREM CompleteIsCommittedCorrect == Spec => []CompleteIsCommitted
<1>1. Init => RunInv
  BY DEF Init, ImageSize, RunInv, Types, Run
<1>2. RunInv => CompleteIsCommitted
  BY DEF RunInv, Run, Done, Whole, CompleteIsCommitted
<1> QED BY <1>1, <1>2, RunStep, PTL DEF Spec
-----------------------------------------------------------------------------
(* Progress: what weak fairness of the program gives, step by step.          *)

\* The program is not ahead of the image, nor of the sequence numbers.
InImage == seq <= total /\ seq <= SeqLimit

\* An upper bound of the steps that are left of a run: one for each frame and for the
\* answer to it, and those of the COMMIT.
Left == CASE host \in {"requested", "batch"} -> 2 * (total - seq) + 3
          [] host = "sending" -> 2 * (total - seq) + 2
          [] OTHER -> 1

Underway == host \in {"requested", "sending", "batch", "committing"}
LeftIs(n) == Underway /\ Left = n
LessLeft(n) == Underway => Left < n

\* The states in which the program has something to do, and that it can do it.
Ready == Waiting \/ (host = "sending" /\ InImage)
ReadyEnabled == Ready => ENABLED <<Host>>_vars

LEMMA LeftFacts ==
    /\ host \in {"requested", "batch"} => Left = 2 * (total - seq) + 3
    /\ host = "sending" => Left = 2 * (total - seq) + 2
    /\ host = "committing" => Left = 1
  BY DEF Left

LEMMA NextLeftFacts ==
    /\ host' \in {"requested", "batch"} => Left' = 2 * (total' - seq') + 3
    /\ host' = "sending" => Left' = 2 * (total' - seq') + 2
    /\ host' = "committing" => Left' = 1
  BY DEF Left

LEMMA InImageStep ==
    ASSUME Types, InImage, [Next]_vars
    PROVE  InImage'
<1>0. total \in Nat /\ seq \in Nat /\ SeqLimit \in Nat
  BY SeqLimitAssumption DEF Types
<1>1. CASE Start
  BY <1>0, <1>1 DEF Start, InImage
<1>2. CASE SendData
  BY <1>0, <1>2 DEF SendData, InImage
<1>3. CASE ~Start /\ ~SendData
  <2>1. UNCHANGED <<total, seq>>
    BY <1>3 DEF Next, Host, SeqExhausted, SendCommit, Answered, TimeOut, Serve, Refuse, Lose, vars
  <2> QED BY <2>1 DEF InImage
<1> QED BY <1>1, <1>2, <1>3

\* A step of the program leaves less of the run; no other step leaves more.
LEMMA LeftStep ==
    ASSUME Types, InImage, NEW n \in Nat, LeftIs(n), [Next]_vars
    PROVE  /\ LeftIs(n)' \/ LessLeft(n)'
           /\ Host => LessLeft(n)'
<1>0. total \in Nat /\ seq \in Nat /\ seq <= total
  BY DEF Types, InImage
<1>1. CASE SendData
  <2>1. /\ host = "sending" /\ host' \in {"batch", "sending"}
        /\ total' = total /\ seq' = seq + 1
    BY <1>1 DEF SendData
  <2>2. n = 2 * (total - seq) + 2
    BY <2>1, LeftFacts DEF LeftIs
  <2>3. Left' <= 2 * (total - (seq + 1)) + 3
    BY <1>0, <2>1, NextLeftFacts
  <2>4. 2 * (total - (seq + 1)) + 3 < 2 * (total - seq) + 2 /\ Left' \in Int
    BY <1>0, <2>1, NextLeftFacts
  <2> QED BY <1>0, <2>2, <2>3, <2>4 DEF LessLeft
<1>2. CASE SeqExhausted \/ TimeOut
  BY <1>2 DEF SeqExhausted, TimeOut, LessLeft, Underway
<1>3. CASE SendCommit
  <2>1. host = "sending" /\ host' = "committing"
    BY <1>3 DEF SendCommit
  <2>2. n = 2 * (total - seq) + 2 /\ Left' = 1
    BY <2>1, LeftFacts, NextLeftFacts DEF LeftIs
  <2> QED BY <1>0, <2>2 DEF LessLeft
<1>4. CASE Answered
  <2>1. /\ host \in {"requested", "batch", "committing"}
        /\ host = "committing" => ~Underway'
        /\ host' \in {"failed", "complete", "sending"}
        /\ UNCHANGED <<total, seq>>
    BY <1>4 DEF Answered, Waiting, Underway
  <2>2. CASE host = "committing"
    BY <2>1, <2>2 DEF LessLeft
  <2>3. CASE host # "committing"
    <3>1. n = 2 * (total - seq) + 3
      BY <2>1, <2>3, LeftFacts DEF LeftIs
    <3>2. host' = "sending" => Left' = 2 * (total - seq) + 2
      BY <2>1, NextLeftFacts
    <3> QED BY <1>0, <2>1, <3>1, <3>2 DEF LessLeft, Underway
  <2> QED BY <2>2, <2>3
<1>5. CASE Start
  BY <1>5 DEF Start, LeftIs, Underway
<1>6. CASE ~Host /\ ~Start
  <2>1. UNCHANGED <<total, seq, host>>
    BY <1>6 DEF Next, Serve, Refuse, Lose, vars
  <2> QED BY <1>6, <2>1 DEF LeftIs, Left, Underway
<1> QED BY <1>1, <1>2, <1>3, <1>4, <1>5, <1>6 DEF Host

\* However much is left of a run, at some time less is left, or it has ended.
\* (RunEnds follows, since what is left cannot become less for ever.)
THEOREM RunAdvances ==
    ASSUME NEW n \in Nat
    PROVE  FairSpec /\ []ReadyEnabled => (LeftIs(n) ~> LessLeft(n))
<1>1. Init => Types /\ InImage
  BY SeqLimitAssumption DEF Init, ImageSize, Types, InImage
<1>2. Types /\ InImage /\ [Next]_vars => Types' /\ InImage'
  BY TypeStep, InImageStep
<1>3. Types /\ InImage /\ LeftIs(n) /\ [Next]_vars => LeftIs(n)' \/ LessLeft(n)'
  BY LeftStep
<1>4. Types /\ InImage /\ LeftIs(n) /\ <<Next /\ Host>>_vars => LessLeft(n)'
  BY LeftStep
<1>5. InImage /\ LeftIs(n) => Ready
  BY DEF LeftIs, Underway, Waiting, Ready
<1> QED BY <1>1, <1>2, <1>3, <1>4, <1>5, PTL DEF FairSpec, Spec, ReadyEnabled
=============================================================================
