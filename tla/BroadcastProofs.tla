-------------------------- MODULE BroadcastProofs --------------------------
(***************************************************************************)
(* Proofs about Broadcast, for all periods that divide one another and any *)
(* depth of the queue.  The rates stay in phase because Short divides      *)
(* Long; what an update and the queue may meet of a tick is bounded        *)
(* because a tick never offers more than Burst frames: PlanFits.  The last *)
(* part counts the steps until a frame is offered again.                   *)
(***************************************************************************)
EXTENDS Broadcast, FiniteSetTheorems, TLAPS

-----------------------------------------------------------------------------
(* Remainders.                                                               *)

LEMMA Division ==
    ASSUME NEW c \in Nat, NEW n \in Nat \ {0}
    PROVE  /\ c = n * (c \div n) + (c % n)
           /\ c % n \in 0 .. n - 1
           /\ c \div n \in Nat
OBVIOUS

\* Quotient and remainder are unique.
LEMMA Unique ==
    ASSUME NEW n \in Nat \ {0}, NEW q \in Nat, NEW r \in 0 .. n - 1,
           NEW p \in Nat, NEW s \in 0 .. n - 1, n * q + r = n * p + s
    PROVE  q = p /\ r = s
<1>1. ASSUME NEW a \in Nat, NEW b \in Nat, a < b  PROVE n * b >= n * a + n
  <2>1. n * b >= n * (a + 1)
    BY <1>1
  <2>2. n * (a + 1) = n * a + n
    OBVIOUS
  <2> QED BY <2>1, <2>2
<1>2. ~(q < p)
  BY <1>1
<1>3. ~(p < q)
  BY <1>1
<1> QED BY <1>2, <1>3

LEMMA Remainder ==
    ASSUME NEW n \in Nat \ {0}, NEW q \in Nat, NEW r \in 0 .. n - 1
    PROVE  (n * q + r) % n = r
<1> DEFINE c == n * q + r
           p == c \div n
           s == c % n
<1>1. c \in Nat
  OBVIOUS
<1>2. c = n * p + s /\ s \in 0 .. n - 1 /\ p \in Nat
  BY <1>1, Division
<1> HIDE DEF p, s
<1>3. n * q + r = n * p + s
  BY <1>2
<1>4. r = s
  BY <1>2, <1>3, Unique
<1> QED BY <1>4 DEF s

\* The next number's remainder.
LEMMA NextRemainder ==
    ASSUME NEW n \in Nat \ {0}, NEW c \in Nat
    PROVE  (c + 1) % n = IF (c % n) + 1 = n THEN 0 ELSE (c % n) + 1
<1> DEFINE q == c \div n
           r == c % n
<1>1. c = n * q + r /\ r \in 0 .. n - 1 /\ q \in Nat
  BY Division
<1> HIDE DEF q, r
<1>2. CASE r + 1 = n
  <2>1. c + 1 = n * (q + 1) + 0
    BY <1>1, <1>2
  <2>2. (n * (q + 1) + 0) % n = 0
    BY <1>1, Remainder
  <2> QED BY <1>2, <2>1, <2>2 DEF r
<1>3. CASE r + 1 # n
  <2>1. c + 1 = n * q + (r + 1) /\ r + 1 \in 0 .. n - 1
    BY <1>1, <1>3
  <2>2. (n * q + (r + 1)) % n = r + 1
    BY <1>1, <2>1, Remainder
  <2> QED BY <1>3, <2>1, <2>2 DEF r
<1> QED BY <1>2, <1>3
-----------------------------------------------------------------------------
(* The frames of a tick.                                                     *)

Analog == {"mcu_analog_speed", "mcu_analog_powertrain", "mcu_analog_fuel_cell",
           "mcu_analog_accessory"}
Inputs == {"mcu_analog_pedals", "mcu_inputs"}
Protium == {"protium_power", "protium_thermal", "protium_hydrogen",
            "protium_setpoints", "protium_stasis", "protium_misc"}
Unassigned == {"mcu_analog_unassigned"}

LEMMA FrameSets ==
    /\ Elements(ProtiumFrames) = Protium
    /\ Kind = {"mcu_state", "mcu_faults", "protium_state"}
              \cup Analog \cup Inputs \cup Protium \cup Unassigned
<1>1. Elements(ShortFrames) = Analog
  BY DEF Elements, ShortFrames, Analog
<1>2. Elements(InputFrames) = Inputs
  BY DEF Elements, InputFrames, Inputs
<1>3. Elements(ProtiumFrames) = Protium
  BY DEF Elements, ProtiumFrames, Protium
<1>4. /\ Elements(ProtiumStateFrames) = {"protium_state"}
      /\ Elements(StateFrames) = {"mcu_state"}
      /\ Elements(FaultFrames) = {"mcu_faults"}
      /\ Elements(SlowFrames) = Unassigned
  BY DEF Elements, ProtiumStateFrames, StateFrames, FaultFrames, SlowFrames, Unassigned
<1> QED BY <1>1, <1>2, <1>3, <1>4 DEF Kind, FastKind, ShortKind, LongKind

\* The sequences a plan is made of, and their lengths.
LEMMA FrameLengths ==
    /\ StateFrames \in Seq(Kind) /\ Len(StateFrames) = 1
    /\ FaultFrames \in Seq(Kind) /\ Len(FaultFrames) = 1
    /\ ShortFrames \in Seq(Kind) /\ Len(ShortFrames) = 4
    /\ InputFrames \in Seq(Kind) /\ Len(InputFrames) = 2
    /\ ProtiumStateFrames \in Seq(Kind) /\ Len(ProtiumStateFrames) = 1
    /\ ProtiumFrames \in Seq(Kind) /\ Len(ProtiumFrames) = 6
    /\ SlowFrames \in Seq(Kind) /\ Len(SlowFrames) = 1
BY FrameSets DEF StateFrames, FaultFrames, ShortFrames, InputFrames, ProtiumStateFrames,
   ProtiumFrames, SlowFrames, Analog, Inputs, Protium, Unassigned

\* How many frames the payload p contributes when all its frames are due.
Share(p) == CASE p = "master_measurements" -> 7
              [] p = "protium_values" -> 6
              [] OTHER -> 1

ShareIn(v, p) == IF p \in v THEN Share(p) ELSE 0

Total(v) == ShareIn(v, "master_status") + ShareIn(v, "master_faults")
            + ShareIn(v, "master_measurements")
            + ShareIn(v, "protium_operating_state") + ShareIn(v, "protium_values")

LEMMA Piece == ASSUME NEW v, NEW p, NEW s \in Seq(Kind)
               PROVE  From(v, p, s) \in Seq(Kind)
                      /\ Len(From(v, p, s)) = IF p \in v THEN Len(s) ELSE 0
<1>1. CASE p \in v
  BY <1>1 DEF From
<1>2. CASE p \notin v
  BY <1>2 DEF From
<1> QED BY <1>1, <1>2

LEMMA Due == ASSUME NEW b \in BOOLEAN, NEW s \in Seq(Kind)
             PROVE  If(b, s) \in Seq(Kind) /\ Len(If(b, s)) <= Len(s)
<1>1. CASE b
  BY <1>1 DEF If
<1>2. CASE ~b
  BY <1>2 DEF If
<1> QED BY <1>1, <1>2

LEMMA Concat == ASSUME NEW s \in Seq(Kind), NEW t \in Seq(Kind)
                PROVE  s \o t \in Seq(Kind) /\ Len(s \o t) = Len(s) + Len(t)
OBVIOUS

LEMMA PlanFacts ==
    ASSUME NEW v \in SUBSET Payload,
           NEW short \in BOOLEAN, NEW long \in BOOLEAN, NEW slow \in BOOLEAN
    PROVE  Plan(v, short, long, slow) \in Seq(Kind) /\ Len(Plan(v, short, long, slow)) <= Total(v)
<1> DEFINE a == From(v, "master_status", StateFrames)
           b == From(v, "master_faults", FaultFrames)
           c == If(short, From(v, "master_measurements", ShortFrames))
           m == From(v, "master_measurements", InputFrames)
           o == From(v, "protium_operating_state", ProtiumStateFrames)
           w == From(v, "protium_values", ProtiumFrames)
           e == If(long, m \o o \o w)
           u == If(slow, From(v, "master_measurements", SlowFrames))
<1>1. a \in Seq(Kind) /\ Len(a) = ShareIn(v, "master_status")
  BY FrameLengths, Piece DEF ShareIn, Share
<1>2. b \in Seq(Kind) /\ Len(b) = ShareIn(v, "master_faults")
  BY FrameLengths, Piece DEF ShareIn, Share
<1>3. m \in Seq(Kind) /\ Len(m) = IF "master_measurements" \in v THEN 2 ELSE 0
  BY FrameLengths, Piece
<1>4. o \in Seq(Kind) /\ Len(o) = ShareIn(v, "protium_operating_state")
  BY FrameLengths, Piece DEF ShareIn, Share
<1>5. w \in Seq(Kind) /\ Len(w) = ShareIn(v, "protium_values")
  BY FrameLengths, Piece DEF ShareIn, Share
<1>6. c \in Seq(Kind) /\ Len(c) <= IF "master_measurements" \in v THEN 4 ELSE 0
  <2>1. From(v, "master_measurements", ShortFrames) \in Seq(Kind)
        /\ Len(From(v, "master_measurements", ShortFrames))
           = IF "master_measurements" \in v THEN 4 ELSE 0
    BY FrameLengths, Piece
  <2> QED BY <2>1, Due
<1>7. u \in Seq(Kind) /\ Len(u) <= IF "master_measurements" \in v THEN 1 ELSE 0
  <2>1. From(v, "master_measurements", SlowFrames) \in Seq(Kind)
        /\ Len(From(v, "master_measurements", SlowFrames))
           = IF "master_measurements" \in v THEN 1 ELSE 0
    BY FrameLengths, Piece
  <2> QED BY <2>1, Due
<1>8. e \in Seq(Kind) /\ Len(e) <= Len(m) + Len(o) + Len(w)
  <2> HIDE DEF m, o, w
  <2>1. m \o o \in Seq(Kind) /\ Len(m \o o) = Len(m) + Len(o)
    BY <1>3, <1>4, Concat
  <2>2. m \o o \o w \in Seq(Kind) /\ Len(m \o o \o w) = Len(m) + Len(o) + Len(w)
    BY <2>1, <1>5, Concat
  <2> QED BY <2>2, Due
<1>9. Plan(v, short, long, slow) = a \o b \o c \o e \o u
  BY DEF Plan
<1> HIDE DEF a, b, c, m, o, w, e, u
<1>10. a \o b \o c \o e \o u \in Seq(Kind)
       /\ Len(a \o b \o c \o e \o u) = Len(a) + Len(b) + Len(c) + Len(e) + Len(u)
  <2>1. a \o b \in Seq(Kind) /\ Len(a \o b) = Len(a) + Len(b)
    BY <1>1, <1>2, Concat
  <2>2. a \o b \o c \in Seq(Kind) /\ Len(a \o b \o c) = Len(a) + Len(b) + Len(c)
    BY <2>1, <1>6, Concat
  <2>3. a \o b \o c \o e \in Seq(Kind)
        /\ Len(a \o b \o c \o e) = Len(a) + Len(b) + Len(c) + Len(e)
    BY <2>2, <1>8, Concat
  <2> QED BY <2>3, <1>7, Concat
<1>11. Len(a) + Len(b) + Len(c) + Len(e) + Len(u) <= Total(v)
  BY <1>1, <1>2, <1>3, <1>4, <1>5, <1>6, <1>7, <1>8 DEF Total, ShareIn, Share
<1> QED BY <1>9, <1>10, <1>11

\* Frames whose payload is p.
FramesOf(p) == {k \in Kind : PayloadOf(k) = p}

LEMMA FramesOfPayload ==
    /\ FramesOf("master_status") = {"mcu_state"}
    /\ FramesOf("master_faults") = {"mcu_faults"}
    /\ FramesOf("master_measurements") = Analog \cup Inputs \cup Unassigned
    /\ FramesOf("protium_operating_state") = {"protium_state"}
    /\ FramesOf("protium_values") = Protium
    /\ \A k \in Kind : PayloadOf(k) \in Payload
<1>1. \A k : PayloadOf(k) = CASE k = "mcu_state" -> "master_status"
                              [] k = "mcu_faults" -> "master_faults"
                              [] k = "protium_state" -> "protium_operating_state"
                              [] k \in Protium -> "protium_values"
                              [] OTHER -> "master_measurements"
  BY FrameSets DEF PayloadOf
<1> QED BY <1>1, FrameSets DEF FramesOf, Analog, Inputs, Protium, Unassigned, Payload

LEMMA Enlarged ==
    ASSUME NEW S, IsFiniteSet(S), NEW x, x \notin S
    PROVE  IsFiniteSet(S \cup {x}) /\ Cardinality(S \cup {x}) = Cardinality(S) + 1
BY FS_AddElement

LEMMA Six ==
    ASSUME NEW a, NEW b, NEW c, NEW d, NEW e, NEW f,
           b # a, c \notin {a, b}, d \notin {a, b, c}, e \notin {a, b, c, d},
           f \notin {a, b, c, d, e}
    PROVE  IsFiniteSet({a, b, c, d, e, f}) /\ Cardinality({a, b, c, d, e, f}) = 6
<1>1. IsFiniteSet({a}) /\ Cardinality({a}) = 1
  BY FS_Singleton
<1>2. IsFiniteSet({a} \cup {b}) /\ Cardinality({a} \cup {b}) = 2
  BY <1>1, Enlarged
<1>3. IsFiniteSet({a, b} \cup {c}) /\ Cardinality({a, b} \cup {c}) = 3
  <2>1. {a} \cup {b} = {a, b}
    OBVIOUS
  <2> QED BY <1>2, <2>1, Enlarged
<1>4. IsFiniteSet({a, b, c} \cup {d}) /\ Cardinality({a, b, c} \cup {d}) = 4
  <2>1. {a, b} \cup {c} = {a, b, c}
    OBVIOUS
  <2> QED BY <1>3, <2>1, Enlarged
<1>5. IsFiniteSet({a, b, c, d} \cup {e}) /\ Cardinality({a, b, c, d} \cup {e}) = 5
  <2>1. {a, b, c} \cup {d} = {a, b, c, d}
    OBVIOUS
  <2> QED BY <1>4, <2>1, Enlarged
<1>6. IsFiniteSet({a, b, c, d, e} \cup {f}) /\ Cardinality({a, b, c, d, e} \cup {f}) = 6
  <2>1. {a, b, c, d} \cup {e} = {a, b, c, d, e}
    OBVIOUS
  <2> QED BY <1>5, <2>1, Enlarged
<1>7. {a, b, c, d, e} \cup {f} = {a, b, c, d, e, f}
  OBVIOUS
<1> QED BY <1>6, <1>7

\* Share counts the frames of a payload.
LEMMA ShareCounts ==
    ASSUME NEW p \in Payload
    PROVE  IsFiniteSet(FramesOf(p)) /\ Cardinality(FramesOf(p)) = Share(p)
<1>1. \A x : IsFiniteSet({x}) /\ Cardinality({x}) = 1
  BY FS_Singleton
<1>2. IsFiniteSet(Protium) /\ Cardinality(Protium) = 6
  <2> DEFINE a == "protium_power"
             b == "protium_thermal"
             c == "protium_hydrogen"
             d == "protium_setpoints"
             e == "protium_stasis"
             f == "protium_misc"
  <2>1. /\ b # a /\ c \notin {a, b} /\ d \notin {a, b, c} /\ e \notin {a, b, c, d}
        /\ f \notin {a, b, c, d, e}
    OBVIOUS
  <2>2. Protium = {a, b, c, d, e, f}
    BY DEF Protium
  <2> HIDE DEF a, b, c, d, e, f
  <2>3. IsFiniteSet({a, b, c, d, e, f}) /\ Cardinality({a, b, c, d, e, f}) = 6
    BY <2>1, Six
  <2> QED BY <2>2, <2>3
<1>3. IsFiniteSet(Analog \cup Inputs) /\ Cardinality(Analog \cup Inputs) = 6
  <2> DEFINE a == "mcu_analog_speed"
             b == "mcu_analog_powertrain"
             c == "mcu_analog_fuel_cell"
             d == "mcu_analog_accessory"
             e == "mcu_analog_pedals"
             f == "mcu_inputs"
  <2>1. /\ b # a /\ c \notin {a, b} /\ d \notin {a, b, c} /\ e \notin {a, b, c, d}
        /\ f \notin {a, b, c, d, e}
    OBVIOUS
  <2>2. Analog \cup Inputs = {a, b, c, d, e, f}
    BY DEF Analog, Inputs
  <2> HIDE DEF a, b, c, d, e, f
  <2>3. IsFiniteSet({a, b, c, d, e, f}) /\ Cardinality({a, b, c, d, e, f}) = 6
    BY <2>1, Six
  <2> QED BY <2>2, <2>3
<1>4. "mcu_analog_unassigned" \notin Analog \cup Inputs
  BY DEF Analog, Inputs
<1>5. /\ IsFiniteSet(Analog \cup Inputs \cup Unassigned)
      /\ Cardinality(Analog \cup Inputs \cup Unassigned) = 7
  BY <1>3, <1>4, Enlarged DEF Unassigned
<1>6. CASE p = "master_measurements"
  BY <1>5, <1>6, FramesOfPayload DEF Share
<1>7. CASE p = "protium_values"
  BY <1>2, <1>7, FramesOfPayload DEF Share
<1>8. CASE p \in {"master_status", "master_faults", "protium_operating_state"}
  <2>1. PICK k : FramesOf(p) = {k}
    BY <1>8, FramesOfPayload
  <2>2. Share(p) = 1
    BY <1>8 DEF Share
  <2> QED BY <1>1, <2>1, <2>2
<1> QED BY <1>6, <1>7, <1>8 DEF Payload

LEMMA DisjointUnion ==
    ASSUME NEW S, IsFiniteSet(S), NEW T, IsFiniteSet(T), S \cap T = {}
    PROVE  IsFiniteSet(S \cup T) /\ Cardinality(S \cup T) = Cardinality(S) + Cardinality(T)
<1>1. Cardinality(S) \in Nat /\ Cardinality(T) \in Nat /\ Cardinality({}) = 0
  BY FS_CardinalityType, FS_EmptySet
<1>2. /\ IsFiniteSet(S \cup T)
      /\ Cardinality(S \cup T) = Cardinality(S) + Cardinality(T) - Cardinality(S \cap T)
  BY FS_Union, Zenon
<1>3. Cardinality(S \cap T) = 0
  BY <1>1, Zenon
<1> QED BY <1>1, <1>2, <1>3

\* A tick has Burst frames when all the payloads that arrive are due.
LEMMA BurstIsTotal == Burst = Total(Arriving)
<1> DEFINE Part(p) == {k \in FramesOf(p) : p \in Arriving}
           A == Part("master_status")
           B == Part("master_faults")
           C == Part("master_measurements")
           D == Part("protium_operating_state")
           E == Part("protium_values")
<1>1. ASSUME NEW p \in Payload
      PROVE  IsFiniteSet(Part(p)) /\ Cardinality(Part(p)) = ShareIn(Arriving, p)
  <2>1. CASE p \in Arriving
    <3>1. Part(p) = FramesOf(p)
      BY <2>1
    <3> QED BY <2>1, <3>1, ShareCounts DEF ShareIn
  <2>2. CASE p \notin Arriving
    <3>1. Part(p) = {}
      BY <2>2
    <3> QED BY <2>2, <3>1, FS_EmptySet DEF ShareIn
  <2> QED BY <2>1, <2>2
<1>2. {k \in Kind : PayloadOf(k) \in Arriving} = A \cup B \cup C \cup D \cup E
  BY FramesOfPayload DEF FramesOf, Payload
<1>3. /\ A \cap B = {} /\ (A \cup B) \cap C = {} /\ (A \cup B \cup C) \cap D = {}
      /\ (A \cup B \cup C \cup D) \cap E = {}
  BY DEF FramesOf
<1>4. /\ IsFiniteSet(A) /\ Cardinality(A) = ShareIn(Arriving, "master_status")
      /\ IsFiniteSet(B) /\ Cardinality(B) = ShareIn(Arriving, "master_faults")
      /\ IsFiniteSet(C) /\ Cardinality(C) = ShareIn(Arriving, "master_measurements")
      /\ IsFiniteSet(D) /\ Cardinality(D) = ShareIn(Arriving, "protium_operating_state")
      /\ IsFiniteSet(E) /\ Cardinality(E) = ShareIn(Arriving, "protium_values")
  BY <1>1 DEF Payload
<1> HIDE DEF Part, A, B, C, D, E
<1>5. IsFiniteSet(A \cup B) /\ Cardinality(A \cup B) = Cardinality(A) + Cardinality(B)
  BY <1>3, <1>4, DisjointUnion
<1>6. /\ IsFiniteSet(A \cup B \cup C)
      /\ Cardinality(A \cup B \cup C) = Cardinality(A \cup B) + Cardinality(C)
  BY <1>3, <1>4, <1>5, DisjointUnion
<1>7. /\ IsFiniteSet(A \cup B \cup C \cup D)
      /\ Cardinality(A \cup B \cup C \cup D) = Cardinality(A \cup B \cup C) + Cardinality(D)
  BY <1>3, <1>4, <1>6, DisjointUnion
<1>8. Cardinality(A \cup B \cup C \cup D \cup E)
      = Cardinality(A \cup B \cup C \cup D) + Cardinality(E)
  BY <1>3, <1>4, <1>7, DisjointUnion
<1> QED BY <1>2, <1>4, <1>5, <1>6, <1>7, <1>8 DEF Burst, Total

\* A tick never offers more than Burst frames.
LEMMA PlanFits ==
    ASSUME NEW v \in SUBSET Arriving,
           NEW short \in BOOLEAN, NEW long \in BOOLEAN, NEW slow \in BOOLEAN
    PROVE  /\ Plan(v, short, long, slow) \in Seq(Kind)
           /\ Len(Plan(v, short, long, slow)) <= Burst
           /\ Burst \in Nat
<1>1. v \in SUBSET Payload
  BY ArrivingAssumption
<1>2. Plan(v, short, long, slow) \in Seq(Kind) /\ Len(Plan(v, short, long, slow)) <= Total(v)
  BY <1>1, PlanFacts
<1>3. Total(v) <= Total(Arriving) /\ Total(v) \in Nat /\ Total(Arriving) \in Nat
  BY DEF Total, ShareIn, Share
<1> QED BY <1>2, <1>3, BurstIsTotal
-----------------------------------------------------------------------------
(* Types.                                                                    *)

LEMMA Periods == /\ Short \in Nat \ {0} /\ Long \in Nat \ {0} /\ Stats \in Nat \ {0}
                 /\ Slow \in Nat \ {0} /\ Depth \in Nat \ {0}
                 /\ Long % Short = 0
BY PeriodAssumption

LEMMA BurstType == Burst \in Nat
<1>1. Plan({}, FALSE, FALSE, FALSE) \in Seq(Kind) /\ Burst \in Nat
  BY PlanFits
<1> QED BY <1>1

\* The counters of the thread, which only its own steps move.
CountersOK == /\ cnt_100ms \in 0 .. Short - 1
              /\ cnt_1000ms \in 0 .. Long - 1
              /\ cnt_1s \in 0 .. Stats - 1
              /\ cnt_unassign \in 0 .. Slow - 1

LEMMA TickCounters == CountersOK /\ Tick => CountersOK'
BY Periods DEF CountersOK, Tick, Restart, ShortDue, LongDue, StatsDue, SlowDue

LEMMA TickPlan == TypeOK /\ Tick => plan' \in Seq(Kind) /\ Len(plan') <= Burst
<1> SUFFICES ASSUME TypeOK, Tick PROVE plan' \in Seq(Kind) /\ Len(plan') <= Burst
  OBVIOUS
<1> DEFINE short == ShortDue(cnt_100ms + 1)
           long == LongDue(cnt_1000ms + 1)
           slow == StatsDue(cnt_1s + 1) /\ SlowDue(cnt_unassign + 1)
<1>1. short \in BOOLEAN /\ long \in BOOLEAN /\ slow \in BOOLEAN
  BY DEF ShortDue, LongDue, StatsDue, SlowDue
<1>2. plan' = Plan(valid, short, long, slow)
  BY DEF Tick
<1>3. valid \in SUBSET Arriving
  BY DEF TypeOK
<1> HIDE DEF short, long, slow
<1> QED BY <1>1, <1>2, <1>3, PlanFits

LEMMA SendFacts ==
    TypeOK /\ Send => /\ Head(plan) \in Kind
                      /\ plan' \in Seq(Kind)
                      /\ Len(plan') = Len(plan) - 1
                      /\ Len(plan) \in Nat
BY DEF TypeOK, Send

LEMMA CappedType == \A n \in Nat : Capped(n) \in 0 .. Depth + 1
BY Periods DEF Capped

LEMMA EnqueueType ==
    ASSUME TypeOK, Enqueue
    PROVE  queue' \in 0 .. Depth /\ dropped' \in BOOLEAN
<1>1. CASE queue < Depth /\ queue' = queue + 1 /\ UNCHANGED dropped
  BY <1>1, Periods DEF TypeOK
<1>2. CASE queue = Depth /\ dropped' = TRUE /\ UNCHANGED queue
  BY <1>2, Periods DEF TypeOK
<1> QED BY <1>1, <1>2 DEF Enqueue

\* Every step keeps the types.
LEMMA TypeStep == TypeOK /\ [Next]_vars => TypeOK'
<1> SUFFICES ASSUME TypeOK, [Next]_vars PROVE TypeOK'
  OBVIOUS
<1>1. CASE Tick
  <2>1. CountersOK'
    BY <1>1, TickCounters DEF TypeOK, CountersOK
  <2>2. need' \in 0 .. Depth + 1 /\ dropped' = FALSE
    <3>1. need' = Capped(queue + Burst + button) /\ dropped' = FALSE
      BY <1>1 DEF Tick
    <3>2. queue + Burst + button \in Nat
      BY BurstType, Periods, ButtonAssumption DEF TypeOK
    <3> HIDE DEF Burst
    <3> QED BY <3>1, <3>2, CappedType
  <2>3. UNCHANGED <<valid, dfu, queue, button, made, leftover, whole>> /\ pc' = "send"
    BY <1>1 DEF Tick
  <2> QED BY <1>1, <2>1, <2>2, <2>3, TickPlan DEF TypeOK, CountersOK
<1>2. CASE Suspended
  BY <1>2, Periods DEF Suspended, TypeOK
<1>3. CASE Send
  <2>1. made' \in [Kind -> Nat] /\ leftover' \in Nat
    <3>1. made' = [made EXCEPT ![Head(plan)] = @ + 1] /\ Head(plan) \in Kind
      BY <1>3, SendFacts DEF Send
    <3>2. made \in [Kind -> Nat] /\ leftover \in Nat
      BY DEF TypeOK
    <3>3. leftover' = IF dfu THEN leftover + 1 ELSE 0
      BY <1>3 DEF Send
    <3> QED BY <3>1, <3>2, <3>3
  <2>2. queue' \in 0 .. Depth /\ dropped' \in BOOLEAN
    BY <1>3, EnqueueType DEF Send
  <2>4. UNCHANGED <<pc, timers, valid, dfu, button, whole, need>>
    BY <1>3 DEF Send
  <2>5. plan' \in Seq(Kind) /\ Len(plan') <= Burst
    BY <1>3, SendFacts, BurstType DEF TypeOK
  <2> QED BY <2>1, <2>2, <2>4, <2>5 DEF TypeOK, timers
<1>4. CASE Report
  BY <1>4 DEF Report, TypeOK, timers
<1>5. CASE EndTick
  BY <1>5 DEF EndTick, TypeOK, timers, history
<1>6. CASE Receive
  BY <1>6 DEF Receive, TypeOK, timers, history
<1>7. CASE Drain
  BY <1>7, Periods DEF Drain, TypeOK, timers, history
<1>8. CASE DfuStart
  BY <1>8 DEF DfuStart, TypeOK, timers
<1>9. CASE DfuEnd
  BY <1>9 DEF DfuEnd, TypeOK, timers, history
<1>10. CASE UNCHANGED vars
  BY <1>10 DEF vars, TypeOK, timers, history
<1>11. CASE Press
  <2>1. button' \in 0 .. ButtonFrames + 1
    BY <1>11, ButtonAssumption DEF Press
  <2>2. need' \in 0 .. Depth + 1
    <3>1. need + button' \in Nat /\ need' = Capped(need + button')
      BY <1>11, <2>1, Periods, ButtonAssumption DEF Press, TypeOK
    <3> QED BY <3>1, CappedType
  <2>3. UNCHANGED <<pc, timers, plan, valid, dfu, queue, made, leftover, whole, dropped>>
    BY <1>11 DEF Press
  <2> QED BY <2>1, <2>2, <2>3 DEF TypeOK, timers
<1>12. CASE ButtonSend
  <2>1. button' \in 0 .. ButtonFrames + 1
    BY <1>12, ButtonAssumption DEF ButtonSend, TypeOK
  <2>2. queue' \in 0 .. Depth /\ dropped' \in BOOLEAN
    BY <1>12, EnqueueType DEF ButtonSend
  <2>3. UNCHANGED <<pc, timers, plan, valid, dfu, made, leftover, whole, need>>
    BY <1>12 DEF ButtonSend
  <2> QED BY <2>1, <2>2, <2>3 DEF TypeOK, timers
<1> QED
  BY <1>1, <1>2, <1>3, <1>4, <1>5, <1>6, <1>7, <1>8, <1>9, <1>10, <1>11, <1>12
  DEF Next, PeriodicThread

\* The counters never reach their limits and the queue never exceeds its slots.
THEOREM TypeCorrect == Spec => []TypeOK
<1>1. Init => TypeOK
  <2> SUFFICES ASSUME Init PROVE TypeOK
    OBVIOUS
  <2>1. need \in 0 .. Depth + 1 /\ button \in 0 .. ButtonFrames + 1 /\ dropped \in BOOLEAN
    <3>1. need = 0 /\ button = 0 /\ dropped = FALSE
      BY DEF Init
    <3>2. need \in 0 .. Depth + 1 /\ button \in 0 .. ButtonFrames + 1
      BY <3>1, Periods, ButtonAssumption
    <3> QED BY <3>1, <3>2, Zenon
  <2>2. plan \in Seq(Kind) /\ Len(plan) = 0
    BY DEF Init
  <2>3. /\ pc = "sleep" /\ queue = 0 /\ leftover = 0 /\ dfu = FALSE
        /\ cnt_100ms = 0 /\ cnt_1000ms = 0 /\ cnt_1s = 0 /\ cnt_unassign = 0
        /\ valid = {} /\ whole = {} /\ made = [k \in Kind |-> 0]
    BY DEF Init
  <2>4. CountersOK /\ queue \in 0 .. Depth
    BY <2>3, Periods DEF CountersOK
  <2>5. made \in [Kind -> Nat] /\ valid \in SUBSET Arriving /\ whole \in SUBSET Arriving
    BY <2>3
  <2>6. Len(plan) <= Burst /\ leftover \in Nat /\ pc \in {"sleep", "send"}
    BY <2>2, <2>3, BurstType
  <2>7. dfu \in BOOLEAN
    BY <2>3, Zenon
  <2> QED BY <2>1, <2>2, <2>4, <2>5, <2>6, <2>7, Zenon DEF TypeOK, CountersOK
<1> QED BY <1>1, TypeStep, PTL DEF Spec
-----------------------------------------------------------------------------
(* The phase of the rates.                                                   *)

\* The two counters advance together and the faster one restarts whenever the
\* slower one does, because Short divides Long.
LEMMA PhaseStep == TypeOK /\ PhaseAligned /\ [Next]_vars => PhaseAligned'
<1> SUFFICES ASSUME TypeOK, PhaseAligned, [Next]_vars PROVE PhaseAligned'
  OBVIOUS
<1> DEFINE s == cnt_100ms
           c == cnt_1000ms
<1>1. /\ s \in 0 .. Short - 1 /\ c \in 0 .. Long - 1 /\ s = c % Short
      /\ Short \in Nat \ {0} /\ Long \in Nat \ {0} /\ Long % Short = 0
  BY Periods DEF TypeOK, PhaseAligned
<1>2. 0 % Short = 0
  <2>1. Short * 0 + 0 = 0
    BY <1>1
  <2>2. (Short * 0 + 0) % Short = 0
    BY <1>1, Remainder
  <2> QED BY <2>1, <2>2
<1>3. CASE Tick
  <2>1. /\ s' = IF s + 1 >= Short THEN 0 ELSE s + 1
        /\ c' = IF c + 1 >= Long THEN 0 ELSE c + 1
    BY <1>3 DEF Tick, Restart, ShortDue, LongDue
  <2>2. (c + 1) % Short = IF s + 1 = Short THEN 0 ELSE s + 1
    <3>1. c \in Nat
      BY <1>1
    <3> HIDE DEF c
    <3>2. (c + 1) % Short = IF (c % Short) + 1 = Short THEN 0 ELSE (c % Short) + 1
      BY <1>1, <3>1, NextRemainder
    <3> QED BY <1>1, <3>2
  <2>3. s' = (c + 1) % Short
    BY <1>1, <2>1, <2>2
  <2>4. CASE c + 1 = Long
    <3>1. s' = 0
      BY <1>1, <2>3, <2>4
    <3> QED BY <1>1, <1>2, <2>1, <2>4, <3>1 DEF PhaseAligned
  <2>5. CASE c + 1 # Long
    <3>1. c' = c + 1
      BY <1>1, <2>1, <2>5
    <3> QED BY <2>3, <3>1 DEF PhaseAligned
  <2> QED BY <2>4, <2>5
<1>4. CASE Suspended
  BY <1>2, <1>4 DEF Suspended, PhaseAligned
<1>5. CASE UNCHANGED timers
  BY <1>5 DEF timers, PhaseAligned
<1>6. Tick \/ Suspended \/ UNCHANGED timers
  BY DEF Next, PeriodicThread, Send, Report, EndTick, Press, ButtonSend, Receive, Drain,
     DfuStart, DfuEnd, vars
<1> QED BY <1>3, <1>4, <1>5, <1>6

\* The 10 Hz and the 1 Hz frames stay in phase through any series of updates.
THEOREM PhaseAlignedCorrect == Spec => []PhaseAligned
<1>1. Init => PhaseAligned
  <2>1. Short * 0 + 0 = 0 /\ (Short * 0 + 0) % Short = 0
    BY Periods, Remainder
  <2> QED BY <2>1 DEF Init, PhaseAligned
<1> QED BY <1>1, PhaseStep, TypeCorrect, PTL DEF Spec
-----------------------------------------------------------------------------
(* What is left of a tick.                                                   *)

LEMMA LeftoverStep == TypeOK /\ LeftoverBounded /\ [Next]_vars => LeftoverBounded'
<1> SUFFICES ASSUME TypeOK, LeftoverBounded, [Next]_vars, dfu'
             PROVE  leftover' + Len(plan') <= Burst
  BY DEF LeftoverBounded
<1>1. CASE Tick
  BY <1>1 DEF Tick
<1>2. CASE Send
  <2>1. dfu /\ leftover' = leftover + 1
    BY <1>2 DEF Send
  <2> QED BY <1>2, <2>1, SendFacts, BurstType DEF LeftoverBounded, TypeOK
<1>3. CASE DfuStart
  BY <1>3, BurstType DEF DfuStart, TypeOK
<1>4. CASE DfuEnd
  BY <1>4 DEF DfuEnd
<1>5. CASE UNCHANGED <<dfu, leftover, plan>>
  BY <1>5 DEF LeftoverBounded
<1>6. Tick \/ Send \/ DfuStart \/ DfuEnd \/ UNCHANGED <<dfu, leftover, plan>>
  BY DEF Next, PeriodicThread, Suspended, Report, EndTick, Press, ButtonSend, Receive, Drain,
     vars, history
<1> QED BY <1>1, <1>2, <1>3, <1>4, <1>5, <1>6

\* An update meets at most Burst more frames, wherever in a tick it begins.
THEOREM LeftoverBoundedCorrect == Spec => []LeftoverBounded
<1>1. Init => LeftoverBounded
  BY DEF Init, LeftoverBounded
<1> QED BY <1>1, LeftoverStep, TypeCorrect, PTL DEF Spec

\* While there was room for all of them, there is for those still to come.
Room == need <= Depth => ~dropped /\ queue + Len(plan) + button <= need

LEMMA LessAdded ==
    ASSUME NEW m \in Nat, NEW n \in Nat, NEW b \in Nat
    PROVE  /\ \A d \in Nat : n + b <= d => n <= d
           /\ \A l \in Nat : m + l + 0 <= n => (m + l) + b <= n + b
OBVIOUS

LEMMA RoomStep == TypeOK /\ Room /\ [Next]_vars => Room'
<1> SUFFICES ASSUME TypeOK, Room, [Next]_vars, need' <= Depth
             PROVE  ~dropped' /\ queue' + Len(plan') + button' <= need'
  BY DEF Room
<1>t. /\ queue \in Nat /\ Len(plan) \in Nat /\ button \in Nat /\ need \in Nat
      /\ Depth \in Nat /\ Burst \in Nat
  BY BurstType, Periods, ButtonAssumption DEF TypeOK
<1>c. \A n \in Nat : Capped(n) <= Depth => Capped(n) = n
  BY Periods DEF Capped
<1>1. CASE Tick
  <2>1. need' = queue + Burst + button /\ UNCHANGED <<queue, button>> /\ ~dropped'
    BY <1>t, <1>c, <1>1 DEF Tick
  <2>2. Len(plan') <= Burst /\ Len(plan') \in Nat
    BY <1>1, TickPlan
  <2> QED BY <1>t, <2>1, <2>2
<1>2. CASE Send
  <2>1. need' = need /\ button' = button
    BY <1>2 DEF Send
  <2>2. ~dropped /\ queue + Len(plan) + button <= need
    BY <2>1 DEF Room
  <2>3. Len(plan) >= 1 /\ Len(plan') = Len(plan) - 1
    BY <1>2, SendFacts DEF Send, TypeOK
  <2>4. queue' = queue + 1 /\ dropped' = dropped
    BY <1>t, <1>2, <2>1, <2>2, <2>3 DEF Send, Enqueue
  <2> QED BY <1>t, <2>1, <2>2, <2>3, <2>4
<1>3. CASE Press
  <2>0. button' \in Nat
    BY <1>3, ButtonAssumption DEF Press
  <2>1. /\ queue' = queue /\ plan' = plan /\ dropped' = dropped
        /\ button = 0 /\ need' = Capped(need + button')
    BY <1>3 DEF Press
  <2>2. need' = need + button'
    BY <1>t, <1>c, <2>0, <2>1
  <2>3. need <= Depth
    BY <1>t, <2>0, <2>2, LessAdded
  <2>4. ~dropped /\ queue + Len(plan) + button <= need
    BY <2>3 DEF Room
  <2>5. ~dropped'
    BY <2>1, <2>4, Zenon
  <2>6. queue' + Len(plan') + button' <= need'
    <3>1. queue + Len(plan) + 0 <= need
      BY <2>1, <2>4
    <3>2. (queue + Len(plan)) + button' <= need + button'
      BY <1>t, <2>0, <3>1, LessAdded
    <3> QED BY <2>1, <2>2, <3>2
  <2> QED BY <2>5, <2>6
<1>4. CASE ButtonSend
  <2>1. need' = need /\ plan' = plan /\ button > 0 /\ button' = button - 1
    BY <1>4 DEF ButtonSend
  <2>2. ~dropped /\ queue + Len(plan) + button <= need
    BY <2>1 DEF Room
  <2>3. queue' = queue + 1 /\ dropped' = dropped
    BY <1>t, <1>4, <2>1, <2>2 DEF ButtonSend, Enqueue
  <2> QED BY <1>t, <2>1, <2>2, <2>3
<1>5. CASE Drain
  <2>1. queue' = queue - 1 /\ UNCHANGED <<need, dropped, plan, button>>
    BY <1>5 DEF Drain, history
  <2> QED BY <1>t, <2>1 DEF Room
<1>6. CASE UNCHANGED <<need, dropped, queue, plan, button>>
  BY <1>6 DEF Room
<1>7. \/ Tick \/ Send \/ Press \/ ButtonSend \/ Drain
      \/ UNCHANGED <<need, dropped, queue, plan, button>>
  BY DEF Next, PeriodicThread, Suspended, Report, EndTick, Receive, DfuStart, DfuEnd,
     vars, history
<1> QED BY <1>1, <1>2, <1>3, <1>4, <1>5, <1>6, <1>7

\* While there was room at the beginning of a tick for it and for the button, neither
\* loses a frame.
THEOREM NoDropWithRoomCorrect == Spec => []NoDropWithRoom
<1>1. Init => Room
  <2> SUFFICES ASSUME Init PROVE ~dropped /\ queue + Len(plan) + button <= need
    BY DEF Room
  <2>1. dropped = FALSE /\ queue = 0 /\ plan = << >> /\ button = 0 /\ need = 0
    BY DEF Init
  <2> QED BY <2>1
<1>2. TypeOK /\ Room => NoDropWithRoom
  BY Periods DEF TypeOK, Room, NoDropWithRoom
<1> QED BY <1>1, <1>2, RoomStep, TypeCorrect, PTL DEF Spec

-----------------------------------------------------------------------------
(* The cadence, for all periods that divide one another and the report's:    *)
(* what the thread offers between two reports is exact for a payload that    *)
(* was there all the time, and never more than its share.                    *)
(*                                                                           *)
(* The argument is a balance.  A frame of period P that has been offered n   *)
(* times in a window of T ticks has its counter at P * n + c = T + c0, where *)
(* c0 < P is where the counter stood when the window began.                  *)

-----------------------------------------------------------------------------
(* A tick offers each frame that is due once.                                *)

\* The sequence s holds each member of K once, and nothing else.
Once(s, K) == /\ s \in Seq(Kind)
              /\ Elements(s) = K
              /\ \A i, j \in DOMAIN s : s[i] = s[j] => i = j

LEMMA OnceNothing == Once(<< >>, {})
BY DEF Once, Elements

LEMMA OnceConcat ==
    ASSUME NEW s, NEW K, Once(s, K), NEW t, NEW L, Once(t, L), K \cap L = {}
    PROVE  Once(s \o t, K \cup L)
<1> DEFINE m == Len(s)
           n == Len(t)
           u == s \o t
<1>1. s \in Seq(Kind) /\ t \in Seq(Kind) /\ m \in Nat /\ n \in Nat
  BY DEF Once
<1>2. u \in Seq(Kind) /\ Len(u) = m + n
  BY <1>1
<1>3. \A i \in 1 .. m + n : u[i] = IF i <= m THEN s[i] ELSE t[i - m]
  BY <1>1
<1>4. DOMAIN s = 1 .. m /\ DOMAIN t = 1 .. n /\ DOMAIN u = 1 .. m + n
  BY <1>1, <1>2
<1>5. (\A i \in 1 .. m : s[i] \in K) /\ (\A i \in 1 .. n : t[i] \in L)
  BY <1>4 DEF Once, Elements
<1>6. Elements(u) = K \cup L
  <2>1. \A i \in DOMAIN u : u[i] \in K \cup L
    BY <1>1, <1>3, <1>4, <1>5
  <2>2. ASSUME NEW x \in K PROVE \E i \in DOMAIN u : u[i] = x
    <3>1. PICK i \in 1 .. m : s[i] = x
      BY <1>4 DEF Once, Elements
    <3>2. i \in 1 .. m + n /\ u[i] = x
      BY <1>1, <1>3, <3>1
    <3> QED BY <1>4, <3>2
  <2>3. ASSUME NEW x \in L PROVE \E i \in DOMAIN u : u[i] = x
    <3>1. PICK i \in 1 .. n : t[i] = x
      BY <1>4 DEF Once, Elements
    <3>2. m + i \in 1 .. m + n /\ ~(m + i <= m) /\ (m + i) - m = i
      BY <1>1, <3>1
    <3>3. u[m + i] = x
      BY <1>3, <3>1, <3>2
    <3> QED BY <1>4, <3>2, <3>3
  <2> HIDE DEF u
  <2> QED BY <2>1, <2>2, <2>3 DEF Elements
<1>7. ASSUME NEW i \in DOMAIN u, NEW j \in DOMAIN u, u[i] = u[j] PROVE i = j
  <2>1. i \in 1 .. m + n /\ j \in 1 .. m + n
    BY <1>4
  <2>2. CASE i <= m /\ j <= m
    BY <1>1, <1>3, <1>4, <1>7, <2>1, <2>2 DEF Once
  <2>3. CASE ~(i <= m) /\ ~(j <= m)
    <3>1. i - m \in 1 .. n /\ j - m \in 1 .. n /\ t[i - m] = t[j - m]
      BY <1>1, <1>3, <1>7, <2>1, <2>3
    <3>2. i - m = j - m
      BY <1>4, <3>1 DEF Once
    <3> QED BY <1>1, <2>1, <3>2
  <2>4. CASE i <= m /\ ~(j <= m)
    <3>1. u[i] \in K /\ u[j] \in L
      BY <1>1, <1>3, <1>5, <2>1, <2>4
    <3> QED BY <1>7, <3>1
  <2>5. CASE ~(i <= m) /\ j <= m
    <3>1. u[i] \in L /\ u[j] \in K
      BY <1>1, <1>3, <1>5, <2>1, <2>5
    <3> QED BY <1>7, <3>1
  <2> QED BY <2>2, <2>3, <2>4, <2>5
<1> QED BY <1>2, <1>6, <1>7 DEF Once

LEMMA OnceFrom ==
    ASSUME NEW v, NEW p, NEW s, NEW K, Once(s, K)
    PROVE  Once(From(v, p, s), IF p \in v THEN K ELSE {})
BY OnceNothing DEF From

LEMMA OnceIf ==
    ASSUME NEW b \in BOOLEAN, NEW s, NEW K, Once(s, K)
    PROVE  Once(If(b, s), IF b THEN K ELSE {})
BY OnceNothing DEF If

LEMMA OnceFrames ==
    /\ Once(StateFrames, {"mcu_state"})
    /\ Once(FaultFrames, {"mcu_faults"})
    /\ Once(ShortFrames, Analog)
    /\ Once(InputFrames, Inputs)
    /\ Once(ProtiumStateFrames, {"protium_state"})
    /\ Once(ProtiumFrames, Protium)
    /\ Once(SlowFrames, Unassigned)
<1>1. Once(StateFrames, {"mcu_state"}) /\ Once(FaultFrames, {"mcu_faults"})
  BY FrameLengths DEF Once, Elements, StateFrames, FaultFrames
<1>2. Once(ShortFrames, Analog) /\ Once(InputFrames, Inputs)
  BY FrameLengths DEF Once, Elements, ShortFrames, InputFrames, Analog, Inputs
<1>3. Once(ProtiumStateFrames, {"protium_state"}) /\ Once(SlowFrames, Unassigned)
  BY FrameLengths DEF Once, Elements, ProtiumStateFrames, SlowFrames, Unassigned
<1>4. Once(ProtiumFrames, Protium)
  BY FrameLengths DEF Once, Elements, ProtiumFrames, Protium
<1> QED BY <1>1, <1>2, <1>3, <1>4

\* The kinds of frame that are due for the valid payloads.
DueKinds(v, short, long, slow) ==
    {k \in Kind : /\ PayloadOf(k) \in v
                  /\ \/ k \in FastKind
                     \/ k \in ShortKind /\ short
                     \/ k \in LongKind /\ long
                     \/ k \in Unassigned /\ slow}

LEMMA Rates ==
    /\ FastKind = {"mcu_state", "mcu_faults"}
    /\ ShortKind = Analog
    /\ LongKind = Inputs \cup {"protium_state"} \cup Protium
    /\ Kind = FastKind \cup ShortKind \cup LongKind \cup Unassigned
BY DEF FastKind, ShortKind, LongKind, Kind, Elements, StateFrames, FaultFrames, ShortFrames,
   InputFrames, ProtiumStateFrames, ProtiumFrames, SlowFrames, Analog, Inputs, Protium, Unassigned

LEMMA PlanOnce ==
    ASSUME NEW v, NEW short \in BOOLEAN, NEW long \in BOOLEAN, NEW slow \in BOOLEAN
    PROVE  Once(Plan(v, short, long, slow), DueKinds(v, short, long, slow))
<1> DEFINE In(p, K) == IF p \in v THEN K ELSE {}
           A == In("master_status", {"mcu_state"})
           B == In("master_faults", {"mcu_faults"})
           C == IF short THEN In("master_measurements", Analog) ELSE {}
           M == In("master_measurements", Inputs)
           O == In("protium_operating_state", {"protium_state"})
           W == In("protium_values", Protium)
           E == IF long THEN M \cup O \cup W ELSE {}
           U == IF slow THEN In("master_measurements", Unassigned) ELSE {}
           a == From(v, "master_status", StateFrames)
           b == From(v, "master_faults", FaultFrames)
           c == If(short, From(v, "master_measurements", ShortFrames))
           m == From(v, "master_measurements", InputFrames)
           o == From(v, "protium_operating_state", ProtiumStateFrames)
           w == From(v, "protium_values", ProtiumFrames)
           e == If(long, m \o o \o w)
           u == If(slow, From(v, "master_measurements", SlowFrames))
<1>1. Once(a, A) /\ Once(b, B) /\ Once(m, M) /\ Once(o, O) /\ Once(w, W)
  BY OnceFrames, OnceFrom
<1>2. Once(c, C)
  <2>1. Once(From(v, "master_measurements", ShortFrames), In("master_measurements", Analog))
    BY OnceFrames, OnceFrom
  <2> QED BY <2>1, OnceIf
<1>3. Once(u, U)
  <2>1. Once(From(v, "master_measurements", SlowFrames), In("master_measurements", Unassigned))
    BY OnceFrames, OnceFrom
  <2> QED BY <2>1, OnceIf
<1>4. /\ A \cap B = {} /\ (A \cup B) \cap C = {} /\ (A \cup B \cup C) \cap E = {}
      /\ (A \cup B \cup C \cup E) \cap U = {}
      /\ M \cap O = {} /\ (M \cup O) \cap W = {}
  BY DEF Analog, Inputs, Protium, Unassigned
<1>5. DueKinds(v, short, long, slow) = A \cup B \cup C \cup E \cup U
  <2>1. \A k : PayloadOf(k) = CASE k = "mcu_state" -> "master_status"
                                [] k = "mcu_faults" -> "master_faults"
                                [] k = "protium_state" -> "protium_operating_state"
                                [] k \in Protium -> "protium_values"
                                [] OTHER -> "master_measurements"
    BY FrameSets DEF PayloadOf
  <2> QED BY <2>1, Rates DEF DueKinds, Analog, Inputs, Protium, Unassigned
<1>6. Plan(v, short, long, slow) = a \o b \o c \o e \o u
  BY DEF Plan
<1>7. Once(e, E)
  <2> HIDE DEF M, O, W, m, o, w
  <2>1. Once(m \o o, M \cup O)
    BY <1>1, <1>4, OnceConcat
  <2>2. Once(m \o o \o w, M \cup O \cup W)
    BY <1>1, <1>4, <2>1, OnceConcat
  <2> QED BY <2>2, OnceIf
<1> HIDE DEF A, B, C, E, U, a, b, c, e, u
<1>8. Once(a \o b, A \cup B)
  BY <1>1, <1>4, OnceConcat
<1>9. Once(a \o b \o c, A \cup B \cup C)
  BY <1>2, <1>4, <1>8, OnceConcat
<1>10. Once(a \o b \o c \o e, A \cup B \cup C \cup E)
  BY <1>4, <1>7, <1>9, OnceConcat
<1>11. Once(a \o b \o c \o e \o u, A \cup B \cup C \cup E \cup U)
  BY <1>3, <1>4, <1>10, OnceConcat
<1> QED BY <1>5, <1>6, <1>11
-----------------------------------------------------------------------------
(* The balance of a frame.                                                   *)

Regular == FastKind \cup ShortKind \cup LongKind

Period(k) == IF k \in FastKind THEN 1 ELSE IF k \in ShortKind THEN Short ELSE Long

Clock(k) == IF k \in FastKind THEN 0 ELSE IF k \in ShortKind THEN cnt_100ms ELSE cnt_1000ms

\* Ticks of the window so far, the one in progress included.
Ticks == IF pc = "send" /\ cnt_1s = 0 THEN Stats ELSE cnt_1s

\* Frames of a kind in the window, those still to be sent in this tick included.
Rest(k) == IF k \in Elements(plan) THEN 1 ELSE 0
Offered(k) == made[k] + Rest(k)

Balance(k) == Period(k) * Offered(k) + Clock(k) - Ticks

PlanOK == /\ Once(plan, Elements(plan))
          /\ pc = "sleep" => plan = << >>
          /\ whole \subseteq valid

Balanced == \A k \in Regular :
    /\ Balance(k) <= Period(k) - 1
    /\ PayloadOf(k) \in whole => Balance(k) >= 0

Rare == Offered("mcu_analog_unassigned") <= IF Ticks = Stats THEN 1 ELSE 0

CadenceInv == PlanOK /\ Balanced /\ Rare

LEMMA RegularFacts == /\ Regular \subseteq Kind
                      /\ Kind \ {"mcu_analog_unassigned"} = Regular
                      /\ "mcu_analog_unassigned" \in Kind
BY Rates DEF Regular, Unassigned, Analog, Inputs, Protium

LEMMA NominalOf ==
    ASSUME NEW k
    PROVE  /\ k \in FastKind => Nominal(k) = Stats /\ Period(k) = 1
           /\ k \in ShortKind => Nominal(k) = Stats \div Short /\ Period(k) = Short
           /\ k \in LongKind => Nominal(k) = Stats \div Long /\ Period(k) = Long
<1>1. /\ k \in FastKind => k \notin ShortKind /\ k \notin LongKind
      /\ k \in ShortKind => k \notin FastKind /\ k \notin LongKind
      /\ k \in LongKind => k \notin FastKind /\ k \notin ShortKind
  BY Rates DEF Analog, Inputs, Protium
<1>2. /\ k \in FastKind => Nominal(k) = Stats
      /\ k \in ShortKind => Nominal(k) = Stats \div Short
      /\ k \in LongKind => Nominal(k) = Stats \div Long
  BY <1>1, Zenon DEF Nominal
<1> QED BY <1>1, <1>2 DEF Period

\* The window holds a whole number of periods.
LEMMA WholePeriods ==
    ASSUME NEW k \in Regular
    PROVE  Period(k) \in Nat \ {0} /\ Nominal(k) \in Nat /\ Stats = Period(k) * Nominal(k)
<1>1. /\ Short \in Nat \ {0} /\ Long \in Nat \ {0} /\ Stats \in Nat \ {0}
      /\ Long % Short = 0 /\ Stats % Long = 0
  BY PeriodAssumption
<1>2. CASE k \in FastKind
  BY <1>1, <1>2, NominalOf
<1> DEFINE r == Long \div Short
           q == Stats \div Long
<1>3. r \in Nat /\ Long = Short * r + 0
  BY <1>1, Division
<1>4. q \in Nat /\ Stats = Long * q + 0
  BY <1>1, Division
<1>5. CASE k \in ShortKind
  <2>1. Nominal(k) = Stats \div Short /\ Period(k) = Short
    BY <1>5, NominalOf
  <2> DEFINE n == Stats \div Short
  <2>2. n \in Nat /\ Stats = Short * n + (Stats % Short) /\ Stats % Short \in 0 .. Short - 1
    BY <1>1, Division
  <2>3. Stats = Short * (r * q) + 0 /\ r * q \in Nat
    <3> HIDE DEF r, q
    <3>1. (Short * r) * q = Short * (r * q) /\ r * q \in Nat
      BY <1>1, <1>3, <1>4
    <3> QED BY <1>1, <1>3, <1>4, <3>1
  <2> HIDE DEF n, r, q
  <2> DEFINE m == r * q
             x == Stats % Short
  <2>4. Short \in Nat \ {0} /\ n \in Nat /\ m \in Nat
        /\ x \in 0 .. Short - 1 /\ 0 \in 0 .. Short - 1
        /\ Short * n + x = Short * m + 0
    BY <1>1, <2>2, <2>3
  <2> HIDE DEF m, x
  <2>5. x = 0
    BY ONLY <2>4, Unique
  <2> QED BY <1>1, <2>1, <2>2, <2>5 DEF n, x
<1>6. CASE k \in LongKind
  <2>1. Nominal(k) = q /\ Period(k) = Long
    BY <1>6, NominalOf
  <2> QED BY <1>1, <1>4, <2>1
<1> QED BY <1>2, <1>5, <1>6 DEF Regular

LEMMA ClockType ==
    ASSUME TypeOK, NEW k \in Regular
    PROVE  /\ Clock(k) \in 0 .. Period(k) - 1
           /\ made[k] \in Nat /\ Rest(k) \in {0, 1} /\ Ticks \in 0 .. Stats
           /\ Period(k) * Offered(k) \in Nat
<1>1. made[k] \in Nat /\ Rest(k) \in {0, 1}
  BY RegularFacts DEF TypeOK, Rest
<1>2. Clock(k) \in 0 .. Period(k) - 1 /\ Ticks \in 0 .. Stats
  BY Periods DEF TypeOK, Clock, Period, Ticks
<1>3. Offered(k) \in Nat
  BY <1>1 DEF Offered
<1> QED BY <1>1, <1>2, <1>3, WholePeriods
-----------------------------------------------------------------------------
(* What a tick does to the balance.                                          *)

LEMMA TickKinds ==
    ASSUME TypeOK, Tick
    PROVE  Once(plan', DueKinds(valid, ShortDue(cnt_100ms + 1), LongDue(cnt_1000ms + 1),
                                StatsDue(cnt_1s + 1) /\ SlowDue(cnt_unassign + 1)))
<1> DEFINE short == ShortDue(cnt_100ms + 1)
           long == LongDue(cnt_1000ms + 1)
           slow == StatsDue(cnt_1s + 1) /\ SlowDue(cnt_unassign + 1)
<1>1. short \in BOOLEAN /\ long \in BOOLEAN /\ slow \in BOOLEAN
  BY DEF ShortDue, LongDue, StatsDue, SlowDue
<1>2. plan' = Plan(valid, short, long, slow)
  BY DEF Tick
<1> HIDE DEF short, long, slow
<1>3. Once(plan', DueKinds(valid, short, long, slow))
  BY <1>1, <1>2, PlanOnce
<1> QED BY <1>3 DEF short, long, slow

LEMMA TickTicks ==
    ASSUME TypeOK, Tick
    PROVE  Ticks' = Ticks + 1 /\ Ticks = cnt_1s /\ (StatsDue(cnt_1s + 1) => Ticks' = Stats)
BY Periods DEF TypeOK, Tick, Ticks, Restart, StatsDue

LEMMA TickBalance ==
    ASSUME TypeOK, PlanOK, Tick, NEW k \in Regular
    PROVE  /\ Clock(k)' = IF Clock(k) + 1 = Period(k) THEN 0 ELSE Clock(k) + 1
           /\ Rest(k) = 0
           /\ Rest(k)' = IF PayloadOf(k) \in valid /\ Clock(k) + 1 = Period(k) THEN 1 ELSE 0
           /\ made' = made
<1> DEFINE short == ShortDue(cnt_100ms + 1)
           long == LongDue(cnt_1000ms + 1)
           slow == StatsDue(cnt_1s + 1) /\ SlowDue(cnt_unassign + 1)
<1>1. Rest(k) = 0 /\ made' = made
  BY DEF PlanOK, Tick, Rest, Elements
<1>2. Elements(plan)' = DueKinds(valid, short, long, slow)
  BY TickKinds DEF Once, Elements
<1>3. /\ cnt_100ms \in 0 .. Short - 1 /\ cnt_1000ms \in 0 .. Long - 1
      /\ Short \in Nat \ {0} /\ Long \in Nat \ {0}
  BY Periods DEF TypeOK
<1>4. /\ short <=> cnt_100ms + 1 = Short
      /\ long <=> cnt_1000ms + 1 = Long
      /\ cnt_100ms' = IF short THEN 0 ELSE cnt_100ms + 1
      /\ cnt_1000ms' = IF long THEN 0 ELSE cnt_1000ms + 1
  BY <1>3 DEF Tick, Restart, ShortDue, LongDue
<1> HIDE DEF short, long, slow
<1>5. k \in Kind /\ k \notin Unassigned
  BY RegularFacts DEF Unassigned
<1>6. CASE k \in FastKind
  BY <1>1, <1>2, <1>5, <1>6 DEF Clock, Period, Rest, DueKinds
<1>7. CASE k \in ShortKind
  <2>1. k \notin FastKind /\ k \notin LongKind
    BY <1>7, Rates DEF Analog, Inputs, Protium
  <2>2. k \in Elements(plan)' <=> PayloadOf(k) \in valid /\ short
    BY <1>2, <1>5, <1>7, <2>1 DEF DueKinds
  <2> QED BY <1>1, <1>4, <1>7, <2>1, <2>2 DEF Clock, Period, Rest
<1>8. CASE k \in LongKind
  <2>1. k \notin FastKind /\ k \notin ShortKind
    BY <1>8, Rates DEF Analog, Inputs, Protium
  <2>2. k \in Elements(plan)' <=> PayloadOf(k) \in valid /\ long
    BY <1>2, <1>5, <1>8, <2>1 DEF DueKinds
  <2> QED BY <1>1, <1>4, <1>8, <2>1, <2>2 DEF Clock, Period, Rest
<1> QED BY <1>6, <1>7, <1>8 DEF Regular

LEMMA SendOffers ==
    ASSUME TypeOK, PlanOK, Send
    PROVE  Once(plan', Elements(plan')) /\ \A k \in Kind : Offered(k)' = Offered(k)
<1> DEFINE n == Len(plan)
           h == Head(plan)
<1>1. plan \in Seq(Kind) /\ n \in Nat \ {0} /\ h = plan[1] /\ DOMAIN plan = 1 .. n /\ h \in Kind
  BY DEF TypeOK, Send
<1>2. /\ plan' \in Seq(Kind) /\ DOMAIN plan' = 1 .. n - 1
      /\ \A i \in 1 .. n - 1 : plan'[i] = plan[i + 1]
  BY <1>1 DEF Send
<1>3. \A i, j \in 1 .. n : plan[i] = plan[j] => i = j
  BY <1>1 DEF PlanOK, Once
<1>4. ASSUME NEW i \in 1 .. n - 1, NEW j \in 1 .. n - 1, plan'[i] = plan'[j] PROVE i = j
  <2>1. i + 1 \in 1 .. n /\ j + 1 \in 1 .. n /\ plan[i + 1] = plan[j + 1]
    BY <1>1, <1>2, <1>4
  <2> QED BY <1>3, <2>1
<1>5. Elements(plan)' = Elements(plan) \ {h} /\ h \in Elements(plan)
  <2>1. ASSUME NEW i \in 1 .. n - 1 PROVE plan'[i] \in Elements(plan) /\ plan'[i] # h
    <3>1. i + 1 \in 1 .. n /\ 1 \in 1 .. n /\ i + 1 # 1
      BY <1>1
    <3> QED BY <1>1, <1>2, <1>3, <3>1 DEF Elements
  <2>2. ASSUME NEW x \in Elements(plan), x # h PROVE \E i \in 1 .. n - 1 : plan'[i] = x
    <3>1. PICK i \in 1 .. n : plan[i] = x
      BY <1>1 DEF Elements
    <3>2. i - 1 \in 1 .. n - 1 /\ (i - 1) + 1 = i
      BY <1>1, <2>2, <3>1
    <3> QED BY <1>2, <3>1, <3>2
  <2>3. h \in Elements(plan)
    BY <1>1 DEF Elements
  <2>4. \A x : x \in Elements(plan)' <=> \E i \in 1 .. n - 1 : plan'[i] = x
    BY <1>2 DEF Elements
  <2> HIDE DEF n, h
  <2>5. \A x : x \in Elements(plan)' <=> x \in Elements(plan) /\ x # h
    BY <2>1, <2>2, <2>4
  <2> QED BY <2>3, <2>5
<1>6. made' = [made EXCEPT ![h] = @ + 1] /\ made \in [Kind -> Nat]
  BY DEF Send, TypeOK
<1> HIDE DEF n, h
<1>7. ASSUME NEW k \in Kind PROVE Offered(k)' = Offered(k)
  BY <1>1, <1>5, <1>6 DEF Offered, Rest
<1> QED BY <1>2, <1>4, <1>7 DEF Once, Elements
-----------------------------------------------------------------------------
(* Every step keeps the balance.                                             *)

LEMMA CadenceStep == TypeOK /\ CadenceInv /\ [Next]_vars => CadenceInv'
<1> SUFFICES ASSUME TypeOK, PlanOK, Balanced, Rare, [Next]_vars PROVE CadenceInv'
  BY DEF CadenceInv
<1> DEFINE u == "mcu_analog_unassigned"
<1>1. CASE Tick
  <2>1. PlanOK'
    <3>1. Once(plan', Elements(plan'))
      BY <1>1, TickKinds DEF Once
    <3> QED BY <1>1, <3>1 DEF PlanOK, Tick
  <2>2. ASSUME NEW k \in Regular
        PROVE  /\ Balance(k)' <= Period(k) - 1
               /\ PayloadOf(k) \in whole => Balance(k)' >= 0
    <3> DEFINE P == Period(k)
               n == made[k]
               c == Clock(k)
               valued == PayloadOf(k) \in valid
    <3>1. P \in Nat \ {0} /\ n \in Nat /\ c \in 0 .. P - 1 /\ Ticks \in Nat
      BY <1>1, ClockType, WholePeriods, Periods
    <3>2. /\ Balance(k) = P * n + c - Ticks
          /\ Balance(k)' = P * (n + Rest(k)') + Clock(k)' - (Ticks + 1)
      BY <1>1, <3>1, TickBalance, TickTicks DEF Balance, Offered, Period
    <3>3. /\ Clock(k)' = IF c + 1 = P THEN 0 ELSE c + 1
          /\ Rest(k)' = IF valued /\ c + 1 = P THEN 1 ELSE 0
      BY <1>1, TickBalance
    <3>4. Balance(k) <= P - 1 /\ (PayloadOf(k) \in whole => valued /\ Balance(k) >= 0)
      BY DEF Balanced, PlanOK
    <3> HIDE DEF P, n, c, valued
    <3>5. P * (n + 1) = P * n + P /\ P * (n + 0) = P * n /\ P * n \in Nat
      BY <3>1
    <3>6. CASE valued /\ c + 1 = P
      BY <3>1, <3>2, <3>3, <3>4, <3>5, <3>6 DEF P
    <3>7. CASE ~valued /\ c + 1 = P
      BY <3>1, <3>2, <3>3, <3>4, <3>5, <3>7 DEF P
    <3>8. CASE c + 1 # P
      BY <3>1, <3>2, <3>3, <3>4, <3>5, <3>8 DEF P
    <3> QED BY <3>6, <3>7, <3>8
  <2>3. Balanced'
    BY <1>1, <2>2 DEF Balanced, Tick, Period
  <2>4. Rare'
    <3>1. Offered(u) <= 0 /\ made[u] = 0 /\ made' = made
      <4>1. Ticks # Stats
        BY <1>1, TickTicks, Periods DEF TypeOK
      <4>2. made[u] \in Nat /\ Rest(u) \in {0, 1}
        BY RegularFacts DEF TypeOK, Rest
      <4> QED BY <1>1, <4>1, <4>2 DEF Rare, Offered, Tick
    <3>2. Rest(u)' \in {0, 1}
      BY DEF Rest
    <3>3. Rest(u)' = 1 => StatsDue(cnt_1s + 1)
      <4>1. u \notin FastKind /\ u \notin ShortKind /\ u \notin LongKind
        BY Rates DEF Analog, Inputs, Protium
      <4>2. u \in Elements(plan)' => StatsDue(cnt_1s + 1)
        BY <1>1, <4>1, TickKinds DEF Once, Elements, DueKinds
      <4> QED BY <4>2 DEF Rest
    <3> QED BY <1>1, <3>1, <3>2, <3>3, TickTicks DEF Rare, Offered
  <2> QED BY <2>1, <2>3, <2>4 DEF CadenceInv
<1>2. CASE Suspended
  <2>1. UNCHANGED <<pc, plan, made, cnt_1s, valid>> /\ whole' = {} /\ cnt_100ms' = 0 /\ cnt_1000ms' = 0
    BY <1>2 DEF Suspended
  <2>2. PlanOK' /\ Rare'
    BY <2>1 DEF PlanOK, Rare, Offered, Rest, Ticks
  <2>3. ASSUME NEW k \in Regular PROVE Balance(k)' <= Period(k) - 1
    <3>1. Offered(k)' = Offered(k) /\ Ticks' = Ticks /\ Clock(k)' = 0
      BY <2>1 DEF Offered, Rest, Ticks, Clock
    <3>2. Balance(k)' = Period(k) * Offered(k) + 0 - Ticks
      BY <3>1 DEF Balance, Period
    <3> QED BY <3>2, ClockType, WholePeriods, Periods DEF Balanced, Balance
  <2>4. Balanced'
    BY <2>1, <2>3 DEF Balanced, Period
  <2> QED BY <2>2, <2>4 DEF CadenceInv
<1>3. CASE Send
  <2>1. UNCHANGED <<pc, timers, valid, whole>> /\ pc = "send"
    BY <1>3 DEF Send
  <2>2. \A k \in Kind : Offered(k)' = Offered(k)
    BY <1>3, SendOffers
  <2>3. PlanOK'
    BY <1>3, <2>1, SendOffers DEF PlanOK
  <2>4. Ticks' = Ticks /\ \A k \in Regular : Clock(k)' = Clock(k)
    BY <2>1 DEF Ticks, Clock, timers
  <2>5. Balanced'
    BY <2>1, <2>2, <2>4, RegularFacts DEF Balanced, Balance, Period
  <2>6. Rare'
    BY <2>2, <2>4, RegularFacts DEF Rare
  <2> QED BY <2>3, <2>5, <2>6 DEF CadenceInv
<1>4. CASE Report
  <2>1. /\ plan' = << >> /\ pc' = "sleep" /\ cnt_1s' = 0 /\ whole' = valid /\ valid' = valid
        /\ made' = [k \in Kind |-> 0] /\ UNCHANGED timers
    BY <1>4 DEF Report, Reporting, timers
  <2>2. \A k : Rest(k)' = 0
    BY <2>1 DEF Rest, Elements
  <2>3. Ticks' = 0
    BY <2>1 DEF Ticks
  <2>4. PlanOK'
    BY <2>1, OnceNothing DEF PlanOK, Once, Elements
  <2>5. ASSUME NEW k \in Regular PROVE Balance(k)' \in 0 .. Period(k) - 1
    <3>1. Offered(k)' = 0
      BY <2>1, <2>2, RegularFacts DEF Offered
    <3>2. Clock(k)' = Clock(k)
      BY <2>1 DEF Clock, timers
    <3>3. Balance(k)' = Period(k) * 0 + Clock(k) - 0
      BY <2>3, <3>1, <3>2 DEF Balance, Period
    <3> QED BY <3>3, ClockType, WholePeriods
  <2>6. Balanced'
    BY <2>5, WholePeriods DEF Balanced, Period
  <2>7. Rare'
    BY <2>1, <2>2, <2>3, RegularFacts, Periods DEF Rare, Offered
  <2> QED BY <2>4, <2>6, <2>7 DEF CadenceInv
<1>5. CASE EndTick
  <2>1. /\ plan = << >> /\ pc' = "sleep" /\ cnt_1s # 0
        /\ UNCHANGED <<timers, plan, valid, made, whole>>
    BY <1>5 DEF EndTick, history
  <2>2. Ticks' = Ticks
    BY <2>1 DEF Ticks, timers
  <2> QED BY <2>1, <2>2
      DEF CadenceInv, PlanOK, Balanced, Rare, Balance, Offered, Rest, Clock, Period, timers
<1>6. CASE UNCHANGED <<pc, timers, plan, made, whole>> /\ valid \subseteq valid'
  <2>1. Ticks' = Ticks
    BY <1>6 DEF Ticks, timers
  <2> QED BY <1>6, <2>1
      DEF CadenceInv, PlanOK, Balanced, Rare, Balance, Offered, Rest, Clock, Period, timers
<1>7. \/ Tick \/ Suspended \/ Send \/ Report \/ EndTick
      \/ UNCHANGED <<pc, timers, plan, made, whole>> /\ valid \subseteq valid'
  BY DEF Next, PeriodicThread, Press, ButtonSend, Receive, Drain, DfuStart, DfuEnd, vars, history
<1> QED BY <1>1, <1>2, <1>3, <1>4, <1>5, <1>6, <1>7

LEMMA CadenceInit == Init => CadenceInv
<1> SUFFICES ASSUME Init PROVE CadenceInv
  OBVIOUS
<1>1. /\ plan = << >> /\ pc = "sleep" /\ cnt_1s = 0 /\ whole = {} /\ valid = {}
      /\ cnt_100ms = 0 /\ cnt_1000ms = 0 /\ made = [k \in Kind |-> 0]
  BY DEF Init
<1>2. \A k : Rest(k) = 0
  BY <1>1 DEF Rest, Elements
<1>3. Ticks = 0 /\ PlanOK
  BY <1>1, OnceNothing DEF Ticks, PlanOK, Once
<1>4. ASSUME NEW k \in Regular PROVE Balance(k) = 0
  <2>1. Offered(k) = 0 /\ Clock(k) = 0
    BY <1>1, <1>2, RegularFacts DEF Offered, Clock
  <2> QED BY <1>3, <2>1, WholePeriods DEF Balance
<1>5. Balanced
  BY <1>4, WholePeriods DEF Balanced
<1>6. Rare
  BY <1>1, <1>2, <1>3, RegularFacts, Periods DEF Rare, Offered
<1> QED BY <1>3, <1>5, <1>6 DEF CadenceInv

\* The inductive invariant of the cadence: frames offered in a window, times
\* their period, differ from the ticks by less than a period.
THEOREM CadenceInvariant == Spec => [](TypeOK /\ CadenceInv)
<1>1. Spec => []CadenceInv
  BY CadenceInit, CadenceStep, TypeCorrect, PTL DEF Spec
<1> QED BY <1>1, TypeCorrect, PTL

\* Between two reports the thread offers exactly its share of the frames of a payload
\* that was valid all the time.
THEOREM CadenceExactCorrect == Spec => []CadenceExact
<1>1. TypeOK /\ CadenceInv => CadenceExact
  <2> SUFFICES ASSUME TypeOK, CadenceInv, Reporting, NEW k \in Regular, PayloadOf(k) \in whole
               PROVE  made[k] = Nominal(k)
    BY RegularFacts DEF CadenceExact
  <2> DEFINE P == Period(k)
             b == Balance(k)
  <2>1. Rest(k) = 0 /\ Ticks = Stats
    BY DEF Reporting, Rest, Elements, Ticks
  <2>2. P \in Nat \ {0} /\ Nominal(k) \in Nat /\ Stats = P * Nominal(k)
    BY WholePeriods
  <2>3. Clock(k) \in 0 .. P - 1 /\ made[k] \in Nat
    BY ClockType
  <2>4. b = P * made[k] + Clock(k) - Stats
    BY <2>1, <2>3 DEF Balance, Offered
  <2>5. b <= P - 1 /\ b >= 0
    BY DEF CadenceInv, Balanced
  <2> HIDE DEF P, b
  <2>6. P * made[k] \in Nat /\ P * Nominal(k) \in Nat
    BY <2>2, <2>3
  <2>7. b \in 0 .. P - 1 /\ P * made[k] + Clock(k) = P * Nominal(k) + b
    BY <2>2, <2>3, <2>4, <2>5, <2>6
  <2> QED BY <2>2, <2>3, <2>7, Unique
<1> QED BY <1>1, CadenceInvariant, PTL

\* Between two reports the thread never offers more than its share of a kind, whatever
\* updates interfere.
THEOREM CadenceBoundedCorrect == Spec => []CadenceBounded
<1>1. TypeOK /\ CadenceInv => CadenceBounded
  <2> SUFFICES ASSUME TypeOK, CadenceInv, NEW k \in Kind
               PROVE  made[k] <= IF k = "mcu_analog_unassigned" THEN 1 ELSE Nominal(k)
    BY DEF CadenceBounded
  <2>1. CASE k = "mcu_analog_unassigned"
    <3>1. made[k] \in Nat /\ Rest(k) \in {0, 1} /\ Offered(k) <= 1
      <4>1. made[k] \in Nat /\ Rest(k) \in {0, 1}
        BY DEF TypeOK, Rest
      <4>2. Offered(k) <= IF Ticks = Stats THEN 1 ELSE 0
        BY <2>1 DEF CadenceInv, Rare
      <4> QED BY <4>1, <4>2 DEF Offered
    <3> QED BY <2>1, <3>1 DEF Offered
  <2>2. CASE k # "mcu_analog_unassigned"
    <3> DEFINE P == Period(k)
               N == Nominal(k)
               n == made[k]
               o == Offered(k)
    <3>1. k \in Regular
      BY <2>2, RegularFacts
    <3>2. P \in Nat \ {0} /\ N \in Nat /\ Stats = P * N
      BY <3>1, WholePeriods
    <3>3. n \in Nat /\ o \in Nat /\ n <= o /\ Clock(k) \in 0 .. P - 1 /\ Ticks \in 0 .. Stats
      BY <3>1, ClockType DEF Offered
    <3>4. P * o + Clock(k) - Ticks <= P - 1
      BY <3>1 DEF CadenceInv, Balanced, Balance
    <3> HIDE DEF P, N, n, o
    <3>5. P * o \in Nat /\ P * N \in Nat
      BY <3>2, <3>3
    <3>6. P * o < P * N + P
      BY <3>2, <3>3, <3>4, <3>5, Periods
    <3>7. ASSUME o > N PROVE FALSE
      <4>1. P * o >= P * (N + 1)
        BY <3>2, <3>3, <3>7
      <4>2. P * (N + 1) = P * N + P
        BY <3>2
      <4> QED BY <3>5, <3>6, <4>1, <4>2, <3>2
    <3>8. n <= N
      BY <3>2, <3>3, <3>7
    <3> QED BY <2>2, <3>8 DEF n, N
  <2> QED BY <2>1, <2>2
<1> QED BY <1>1, CadenceInvariant, PTL
-----------------------------------------------------------------------------
(* Progress: what weak fairness of the thread gives, step by step.           *)

\* Ticks until a frame is due, the one in progress not included.
TicksLeft(k) == IF k \in Regular
                THEN Period(k) - Clock(k)
                ELSE (Slow - 1 - cnt_unassign) * Stats + (Stats - cnt_1s)

\* An upper bound of the steps until a frame is offered.
StepsLeft(k) == IF k \in Elements(plan)
                THEN Len(plan)
                ELSE TicksLeft(k) * (Burst + 2) + (IF pc = "send" THEN Len(plan) + 1 ELSE 0)

Offering(k) == plan # << >> /\ Head(plan) = k
Until(k, n) == ~dfu /\ PayloadOf(k) \in valid /\ StepsLeft(k) = n
Sooner(k, n) == dfu \/ Offering(k) \/ StepsLeft(k) < n

LEMMA TicksLeftType == ASSUME TypeOK, NEW k \in Kind PROVE TicksLeft(k) \in Nat /\ TicksLeft(k) >= 1
<1>1. CASE k \in Regular
  <2>1. Clock(k) \in 0 .. Period(k) - 1 /\ Period(k) \in Nat
    BY <1>1, ClockType, WholePeriods
  <2> QED BY <1>1, <2>1 DEF TicksLeft
<1>2. CASE k \notin Regular
  <2>1. Slow - 1 - cnt_unassign \in Nat /\ Stats \in Nat /\ Stats - cnt_1s \in Nat
        /\ Stats - cnt_1s >= 1
    BY Periods DEF TypeOK
  <2>2. (Slow - 1 - cnt_unassign) * Stats \in Nat
    BY <2>1
  <2> QED BY <1>2, <2>1, <2>2 DEF TicksLeft
<1> QED BY <1>1, <1>2

\* A tick offers the frame, or it has one tick less to wait.
LEMMA TickNearer ==
    ASSUME TypeOK, PlanOK, Tick, NEW k \in Kind, PayloadOf(k) \in valid
    PROVE  /\ k \notin Elements(plan)
           /\ k \in Elements(plan)' \/ TicksLeft(k)' = TicksLeft(k) - 1
<1>0. k \notin Elements(plan)
  BY DEF PlanOK, Tick, Elements
<1>1. CASE k \in Regular
  <2>1. /\ Clock(k)' = IF Clock(k) + 1 = Period(k) THEN 0 ELSE Clock(k) + 1
        /\ Rest(k)' = IF Clock(k) + 1 = Period(k) THEN 1 ELSE 0
    BY <1>1, TickBalance
  <2>2. Clock(k) \in Nat /\ Period(k) \in Nat /\ Period(k)' = Period(k)
    BY <1>1, ClockType, WholePeriods DEF Period
  <2>3. CASE Clock(k) + 1 = Period(k)
    BY <1>0, <2>1, <2>3 DEF Rest
  <2>4. CASE Clock(k) + 1 # Period(k)
    BY <1>0, <1>1, <2>1, <2>2, <2>4 DEF TicksLeft
  <2> QED BY <2>3, <2>4
<1>2. CASE k \notin Regular
  <2> DEFINE stats == StatsDue(cnt_1s + 1)
             slow == stats /\ SlowDue(cnt_unassign + 1)
  <2>1. k \in Unassigned
    BY <1>2, Rates DEF Regular
  <2>2. /\ cnt_1s \in 0 .. Stats - 1 /\ cnt_unassign \in 0 .. Slow - 1
        /\ Stats \in Nat \ {0} /\ Slow \in Nat \ {0}
    BY Periods DEF TypeOK
  <2>3. /\ cnt_1s' = Restart(cnt_1s + 1, stats)
        /\ cnt_unassign' = Restart(cnt_unassign + (IF stats THEN 1 ELSE 0), slow)
    BY DEF Tick
  <2>4. stats <=> cnt_1s + 1 = Stats
    BY <2>2 DEF StatsDue
  <2>5. SlowDue(cnt_unassign + 1) <=> cnt_unassign + 1 = Slow
    BY <2>2 DEF SlowDue
  <2>6. slow => k \in Elements(plan)'
    <3>1. Elements(plan)' = DueKinds(valid, ShortDue(cnt_100ms + 1), LongDue(cnt_1000ms + 1), slow)
      BY TickKinds DEF Once, Elements
    <3> QED BY <2>1, <3>1 DEF DueKinds
  <2>7. CASE ~stats
    <3>1. cnt_1s' = cnt_1s + 1 /\ cnt_unassign' = cnt_unassign
      BY <2>2, <2>3, <2>7 DEF Restart
    <3>2. (Slow - 1 - cnt_unassign) * Stats \in Int
      BY <2>2
    <3>3. TicksLeft(k) = (Slow - 1 - cnt_unassign) * Stats + (Stats - cnt_1s)
          /\ TicksLeft(k)' = (Slow - 1 - cnt_unassign) * Stats + (Stats - (cnt_1s + 1))
      BY <1>2, <3>1 DEF TicksLeft, Regular
    <3> QED BY <1>0, <2>2, <3>2, <3>3
  <2>8. CASE stats /\ ~slow
    <3>1. cnt_1s' = 0 /\ cnt_unassign' = cnt_unassign + 1 /\ cnt_1s + 1 = Stats
      BY <2>2, <2>3, <2>4, <2>8 DEF Restart
    <3>2. TicksLeft(k) = (Slow - 1 - cnt_unassign) * Stats + (Stats - cnt_1s)
          /\ TicksLeft(k)' = (Slow - 1 - (cnt_unassign + 1)) * Stats + (Stats - 0)
      BY <1>2, <3>1 DEF TicksLeft, Regular
    <3>3. (Slow - 1 - (cnt_unassign + 1)) * Stats = (Slow - 1 - cnt_unassign) * Stats - Stats
          /\ (Slow - 1 - cnt_unassign) * Stats \in Int
      BY <2>2
    <3> QED BY <1>0, <2>2, <3>1, <3>2, <3>3
  <2> QED BY <1>0, <2>6, <2>7, <2>8
<1> QED BY <1>1, <1>2

\* One tick less is worth more than all the frames of a tick.
LEMMA FewerSteps ==
    ASSUME NEW b \in Nat, NEW t \in Nat, t >= 1, NEW l \in Nat, l <= b
    PROVE  /\ t * (b + 2) \in Nat
           /\ l < t * (b + 2)
           /\ (t - 1) * (b + 2) + (l + 1) < t * (b + 2)
<1>1. t * (b + 2) \in Nat /\ (t - 1) * (b + 2) \in Nat
      /\ (t - 1) * (b + 2) = t * (b + 2) - (b + 2)
  OBVIOUS
<1> QED BY <1>1

\* A step of the thread brings it nearer to the next frame of a kind; no other step
\* takes it farther away, unless an update begins.
LEMMA SoonerStep ==
    ASSUME TypeOK, PlanOK, NEW k \in Kind, NEW n \in Nat, Until(k, n), ~Offering(k), [Next]_vars
    PROVE  /\ Until(k, n)' \/ Sooner(k, n)'
           /\ PeriodicThread => Sooner(k, n)'
<1>0. /\ ~dfu /\ PayloadOf(k) \in valid /\ StepsLeft(k) = n
      /\ Burst \in Nat /\ Burst' = Burst
      /\ plan \in Seq(Kind) /\ Len(plan) \in Nat /\ Len(plan) <= Burst
  BY BurstType DEF Until, TypeOK, Burst
<1>t. TicksLeft(k) \in Nat /\ TicksLeft(k) >= 1 /\ TicksLeft(k) * (Burst + 2) \in Nat
  BY <1>0, TicksLeftType
<1>1. CASE Tick
  <2>1. /\ k \notin Elements(plan)
        /\ k \in Elements(plan)' \/ TicksLeft(k)' = TicksLeft(k) - 1
    BY <1>0, <1>1, TickNearer
  <2>2. plan' \in Seq(Kind) /\ Len(plan') \in Nat /\ Len(plan') <= Burst
    BY <1>1, TickPlan
  <2>3. pc = "sleep" /\ pc' = "send"
    BY <1>1 DEF Tick
  <2>4. n = TicksLeft(k) * (Burst + 2)
    BY <1>0, <1>t, <2>1, <2>3 DEF StepsLeft
  <2>5. CASE k \in Elements(plan)'
    <3>1. StepsLeft(k)' = Len(plan')
      BY <2>5 DEF StepsLeft
    <3> QED BY <1>0, <1>t, <2>2, <2>4, <3>1, FewerSteps DEF Sooner
  <2>6. CASE k \notin Elements(plan)' /\ TicksLeft(k)' = TicksLeft(k) - 1
    <3>1. StepsLeft(k)' = (TicksLeft(k) - 1) * (Burst + 2) + (Len(plan') + 1)
      BY <1>0, <2>3, <2>6 DEF StepsLeft
    <3> QED BY <1>0, <1>t, <2>2, <2>4, <3>1, FewerSteps DEF Sooner
  <2> QED BY <2>1, <2>5, <2>6
<1>2. CASE Send
  <2>1. /\ plan # << >> /\ plan' = Tail(plan) /\ pc = "send" /\ pc' = "send"
        /\ UNCHANGED timers
    BY <1>2 DEF Send
  <2>2. /\ Len(plan') = Len(plan) - 1 /\ Len(plan) >= 1
        /\ \A i \in 1 .. Len(plan') : i + 1 \in 1 .. Len(plan) /\ plan'[i] = plan[i + 1]
    BY <1>0, <2>1
  <2>3. plan[1] # k
    BY <1>0, <2>1 DEF Offering
  <2>4. k \in Elements(plan)' <=> k \in Elements(plan)
    <3>1. DOMAIN plan = 1 .. Len(plan) /\ DOMAIN plan' = 1 .. Len(plan')
      BY <1>0, <2>1
    <3>2. ASSUME NEW i \in 1 .. Len(plan), plan[i] = k PROVE k \in Elements(plan)'
      <4>1. i # 1 /\ i - 1 \in 1 .. Len(plan')
        BY <1>0, <2>2, <2>3, <3>2
      <4>2. plan'[i - 1] = k
        BY <2>2, <3>2, <4>1
      <4> QED BY <3>1, <4>1, <4>2 DEF Elements
    <3>3. ASSUME NEW i \in 1 .. Len(plan'), plan'[i] = k PROVE k \in Elements(plan)
      BY <2>2, <3>1, <3>3 DEF Elements
    <3> QED BY <3>1, <3>2, <3>3 DEF Elements
  <2>5. TicksLeft(k)' = TicksLeft(k)
    BY <2>1 DEF TicksLeft, timers, Period, Clock, Regular
  <2>6. CASE k \in Elements(plan)
    <3>1. n = Len(plan) /\ StepsLeft(k)' = Len(plan')
      BY <1>0, <2>4, <2>6 DEF StepsLeft
    <3> QED BY <1>0, <2>2, <3>1 DEF Sooner
  <2>7. CASE k \notin Elements(plan)
    <3>1. n = TicksLeft(k) * (Burst + 2) + (Len(plan) + 1)
      BY <1>0, <2>1, <2>7 DEF StepsLeft
    <3>2. StepsLeft(k)' = TicksLeft(k) * (Burst + 2) + (Len(plan') + 1)
      BY <1>0, <2>1, <2>4, <2>5, <2>7 DEF StepsLeft
    <3> QED BY <1>0, <1>t, <2>2, <3>1, <3>2 DEF Sooner
  <2> QED BY <2>6, <2>7
<1>3. CASE Report \/ EndTick
  <2>1. /\ plan = << >> /\ plan' = plan /\ pc = "send" /\ pc' = "sleep"
        /\ UNCHANGED timers
    BY <1>3 DEF Report, EndTick, Reporting
  <2>2. k \notin Elements(plan) /\ k \notin Elements(plan)'
    BY <2>1 DEF Elements
  <2>3. TicksLeft(k)' = TicksLeft(k)
    BY <2>1 DEF TicksLeft, timers, Period, Clock, Regular
  <2>4. n = TicksLeft(k) * (Burst + 2) + (0 + 1) /\ StepsLeft(k)' = TicksLeft(k) * (Burst + 2) + 0
    BY <1>0, <2>1, <2>2, <2>3 DEF StepsLeft
  <2> QED BY <1>t, <2>4 DEF Sooner
<1>4. CASE DfuStart
  <2>1. dfu' /\ UNCHANGED pc /\ UNCHANGED plan
    BY <1>4 DEF DfuStart
  <2> QED BY <2>1 DEF Sooner
<1>5. CASE Press \/ ButtonSend \/ Receive \/ Drain \/ UNCHANGED vars
  <2>1. UNCHANGED <<pc, timers, plan, dfu>> /\ valid \subseteq valid'
    BY <1>5 DEF Press, ButtonSend, Receive, Drain, vars
  <2>2. TicksLeft(k)' = TicksLeft(k) /\ Elements(plan)' = Elements(plan)
    BY <2>1 DEF TicksLeft, timers, Period, Clock, Regular, Elements
  <2>3. StepsLeft(k)' = StepsLeft(k)
    BY <1>0, <2>1, <2>2 DEF StepsLeft
  <2>4. Until(k, n)'
    BY <1>0, <2>1, <2>3 DEF Until
  <2>5. ~Tick /\ ~Send /\ ~Report /\ ~EndTick
    <3>1. ~Tick /\ ~Report /\ ~EndTick
      BY <2>1 DEF Tick, Report, EndTick, Reporting
    <3>2. ~Send
      <4> SUFFICES ASSUME Send PROVE FALSE
        OBVIOUS
      <4>1. Len(plan') = Len(plan) - 1
        BY SendFacts
      <4> QED BY <1>0, <2>1, <4>1
    <3> QED BY <3>1, <3>2
  <2>6. ~Suspended
    BY <1>0 DEF Suspended
  <2> QED BY <2>4, <2>5, <2>6 DEF PeriodicThread
<1>6. ~Suspended /\ ~DfuEnd
  BY <1>0 DEF Suspended, DfuEnd
<1> QED BY <1>1, <1>2, <1>3, <1>4, <1>5, <1>6 DEF Next, PeriodicThread

\* Outside an update the thread can do something.
ThreadEnabled == ~dfu => ENABLED <<PeriodicThread>>_vars

\* However many steps away a frame of a valid payload is, of any kind, at some time it
\* is nearer or being offered, or an update begins.  (BroadcastResumes follows, since a
\* number of steps cannot fall for ever once updates are over.)
THEOREM BroadcastAdvances ==
    ASSUME NEW k \in Kind, NEW n \in Nat
    PROVE  FairSpec /\ []ThreadEnabled => (Until(k, n) ~> Sooner(k, n))
<1>1. TypeOK /\ CadenceInv /\ Until(k, n) /\ ~Offering(k) /\ [Next]_vars
         => Until(k, n)' \/ Sooner(k, n)'
  BY SoonerStep DEF CadenceInv
<1>2. TypeOK /\ CadenceInv /\ Until(k, n) /\ ~Offering(k) /\ <<Next /\ PeriodicThread>>_vars
         => Sooner(k, n)'
  BY SoonerStep DEF CadenceInv
<1>3. Offering(k) => Sooner(k, n)
  BY DEF Sooner
<1>4. Until(k, n) => ~dfu
  BY DEF Until
<1> QED BY <1>1, <1>2, <1>3, <1>4, CadenceInvariant, PTL DEF FairSpec, Spec, ThreadEnabled
=============================================================================
