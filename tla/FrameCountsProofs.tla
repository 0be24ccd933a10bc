------------------------- MODULE FrameCountsProofs -------------------------
(***************************************************************************)
(* Proofs about FrameCounts, for counters of any width, any kinds and any  *)
(* list of frames of the button, and without a bound on reports and        *)
(* presses.                                                                *)
(*                                                                         *)
(* A counter is the number of frames sent, modulo its range (Exact), for   *)
(* no one else writes it (Alone), and its copy in prev_frames is the       *)
(* number printed, modulo the same (Followed).  The two numbers differ by  *)
(* what the window allows (Window), which is less than the range, so that  *)
(* their difference survives the modulus (Difference).                     *)
(***************************************************************************)
EXTENDS FrameCounts, TLAPS

\* The increment of t under way, if any, is one of kind k.
Holds(t, k) == increment[t] # << >> /\ increment[t][1] = k

\* The button has nothing to do with the private kinds.
Alone == /\ \A k \in Private : ~Holds("button", k)
         /\ \A i \in DOMAIN plan : plan[i] \notin Private

\* What the periodic thread loaded of a private counter is still its value, and it
\* increments nothing while it reports.
Current == /\ \A k \in Private :
                 Holds("periodic", k) => increment["periodic"][2] = frame_counts[k]
           /\ report # "no" => increment["periodic"] = << >>

Exact == \A k \in Private : frame_counts[k] = Wrap(sent[k])

\* Frames of kind k that no report has printed, one under way included.
Unprinted(k) == sent[k] - printed[k] + (IF Holds("periodic", k) THEN 1 ELSE 0)

Window == /\ window <= MaxWindow
          /\ \A k \in Private : printed[k] <= sent[k] /\ Unprinted(k) <= window

Followed == \A k \in Private :
    /\ report = "no" \/ (report = "print" /\ k \in todo) => prev_frames[k] = Wrap(printed[k])
    /\ report = "copy" \/ (report = "print" /\ k \notin todo) => printed[k] = sent[k]
    /\ report = "copy" /\ k \notin todo => prev_frames[k] = frame_counts[k]

ReportInv == TypeOK /\ Alone /\ Current /\ Exact /\ Window /\ Followed
-----------------------------------------------------------------------------
(* Counters wrap around.                                                     *)

LEMMA RangeType == /\ 2 ^ Width \in Nat \ {0}
                   /\ MaxWindow \in Nat /\ MaxWindow < 2 ^ Width
<1>1. Width \in Nat /\ MaxWindow \in Nat /\ MaxWindow < 2 ^ Width
  BY BoundAssumption
<1>2. 2 ^ Width \in Int
  BY <1>1, SMT
<1> QED BY <1>1, <1>2

LEMMA WrapType == \A n \in Int : Wrap(n) \in Counter
<1> DEFINE M == 2 ^ Width
<1>1. M \in Nat \ {0}
  BY RangeType
<1> HIDE DEF M
<1>2. \A n \in Int : n % M \in 0 .. M - 1
  BY <1>1
<1> QED BY <1>2 DEF M, Wrap, Counter

\* A multiple of M that is less than M away from another is the same.
LEMMA Multiples ==
    ASSUME NEW M \in Nat \ {0}, NEW q \in Int, NEW a \in Int, a = M * q
    PROVE  /\ -M < a /\ a < M => a = 0
           /\ 0 < a /\ a < 2 * M => a = M
<1>1. q <= -1 => M * q <= -M
  OBVIOUS
<1>2. q >= 1 => M * q >= M
  OBVIOUS
<1>3. q >= 2 => M * q >= 2 * M
  OBVIOUS
<1>4. q = 0 => M * q = 0
  OBVIOUS
<1>5. q = 1 => M * q = M
  OBVIOUS
<1> QED BY <1>1, <1>2, <1>3, <1>4, <1>5

LEMMA Quotient ==
    ASSUME NEW M \in Nat \ {0}, NEW n \in Nat, NEW x, x = n % M
    PROVE  \E q \in Int : n - x = M * q /\ x \in 0 .. M - 1
<1>1. n % M \in 0 .. M - 1
  OBVIOUS
<1>2. n \div M \in Int /\ n = M * (n \div M) + (n % M)
  OBVIOUS
<1>3. n - x = M * (n \div M)
  BY <1>1, <1>2
<1> QED BY <1>1, <1>2, <1>3

\* Two numbers that are less than the range apart: their unsigned difference is that
\* of their remainders.
LEMMA Difference ==
    ASSUME NEW M \in Nat \ {0}, NEW s \in Nat, NEW p \in Nat, p <= s, s - p < M
    PROVE  ((s % M) - (p % M)) % M = s - p
<1> DEFINE x == s % M
           y == p % M
<1>1. PICK q \in Int : s - x = M * q /\ x \in 0 .. M - 1
  BY Quotient
<1>2. PICK r \in Int : p - y = M * r /\ y \in 0 .. M - 1
  BY Quotient
<1> HIDE DEF x, y
<1>3. (s - p) - (x - y) = M * (q - r) /\ q - r \in Int
  BY <1>1, <1>2
<1>4. CASE x >= y
  <2>1. s - p = x - y
    BY <1>1, <1>2, <1>3, <1>4, Multiples
  <2>2. (x - y) % M = x - y
    BY <1>1, <1>2, <1>4
  <2> QED BY <2>1, <2>2 DEF x, y
<1>5. CASE x < y
  <2>1. s - p = x - y + M
    BY <1>1, <1>2, <1>3, <1>5, Multiples
  <2>2. (x - y) % M = x - y + M
    BY <1>1, <1>2, <1>5
  <2> QED BY <2>1, <2>2 DEF x, y
<1> QED BY <1>1, <1>2, <1>4, <1>5

\* Incrementing a wrapped number.
LEMMA Increment ==
    ASSUME NEW M \in Nat \ {0}, NEW s \in Nat
    PROVE  ((s % M) + 1) % M = (s + 1) % M
<1> DEFINE x == s % M
           z == (s + 1) % M
<1>1. PICK q \in Int : s - x = M * q /\ x \in 0 .. M - 1
  BY Quotient
<1> HIDE DEF z
<1>2. PICK r \in Int : (s + 1) - z = M * r /\ z \in 0 .. M - 1
  <2>1. s + 1 \in Nat /\ z = (s + 1) % M
    BY DEF z
  <2> QED BY <2>1, Quotient
<1> HIDE DEF x
<1>3. x + 1 - z = M * (r - q) /\ r - q \in Int
  BY <1>1, <1>2
<1>4. CASE x + 1 = M
  <2>1. z = 0
    BY <1>1, <1>2, <1>3, <1>4, Multiples
  <2>2. (x + 1) % M = 0
    BY <1>4
  <2> QED BY <2>1, <2>2 DEF x, z
<1>5. CASE x + 1 # M
  <2>1. z = x + 1
    BY <1>1, <1>2, <1>3, <1>5, Multiples
  <2>2. (x + 1) % M = x + 1
    BY <1>1, <1>5
  <2> QED BY <2>1, <2>2 DEF x, z
<1> QED BY <1>4, <1>5
-----------------------------------------------------------------------------
(* Types.                                                                    *)

LEMMA IncrementType ==
    ASSUME TypeOK, NEW t \in Thread, increment[t] # << >>
    PROVE  increment[t] = <<increment[t][1], increment[t][2]>>
           /\ increment[t][1] \in Kind /\ increment[t][2] \in Counter
  BY DEF TypeOK

LEMMA LoadType ==
    ASSUME TypeOK, NEW t \in Thread, NEW k \in Kind, Load(t, k)
    PROVE  increment' \in [Thread -> {<< >>} \cup (Kind \X Counter)]
  BY DEF TypeOK, Load

LEMMA TypeInit == Init => TypeOK
<1>1. 0 \in Counter
  BY RangeType DEF Counter
<1> QED BY <1>1 DEF Init, TypeOK

LEMMA TypeStep == TypeOK /\ [Next]_vars => TypeOK'
<1> SUFFICES ASSUME TypeOK, [Next]_vars PROVE TypeOK'
  OBVIOUS
<1>c. Counter \subseteq Int
  BY RangeType DEF Counter
<1>1. CASE PeriodicSend
  <2>1. increment' \in [Thread -> {<< >>} \cup (Kind \X Counter)]
    BY <1>1, LoadType DEF PeriodicSend, Thread
  <2> QED BY <1>1, <2>1 DEF PeriodicSend, TypeOK
<1>2. CASE BeginReport \/ BeginCopy \/ EndReport
  BY <1>2 DEF BeginReport, BeginCopy, EndReport, TypeOK
<1>3. CASE PrintRate
  <2>1. PICK k \in todo :
           /\ todo' = todo \ {k}
           /\ printed' = [printed EXCEPT ![k] = @ + Wrap(frame_counts[k] - prev_frames[k])]
    BY <1>3 DEF PrintRate
  <2>2. Wrap(frame_counts[k] - prev_frames[k]) \in Nat
    <3>1. k \in Kind /\ frame_counts[k] \in Int /\ prev_frames[k] \in Int
      BY <1>c DEF TypeOK
    <3> QED BY <3>1, WrapType, RangeType DEF Counter
  <2>3. printed' \in [Kind -> Nat]
    BY <2>1, <2>2 DEF TypeOK
  <2> QED BY <1>3, <2>1, <2>3 DEF PrintRate, TypeOK
<1>4. CASE Copy
  BY <1>4 DEF Copy, TypeOK
<1>5. CASE Press
  BY <1>5, ButtonFramesAssumption DEF Press, TypeOK
<1>6. CASE ButtonSend
  <2>1. Head(plan) \in Kind /\ Tail(plan) \in Seq(Kind)
    BY <1>6 DEF ButtonSend, TypeOK
  <2>2. increment' \in [Thread -> {<< >>} \cup (Kind \X Counter)]
    BY <1>6, <2>1, LoadType DEF ButtonSend, Thread
  <2> QED BY <1>6, <2>1, <2>2 DEF ButtonSend, TypeOK
<1>7. CASE \E t \in Thread : Store(t)
  <2>1. PICK t \in Thread : Store(t)
    BY <1>7
  <2>2. increment[t][1] \in Kind /\ increment[t][2] + 1 \in Int
    <3>1. increment[t] # << >>
      BY <2>1 DEF Store
    <3>2. increment[t][1] \in Kind /\ increment[t][2] \in Counter
      BY <3>1, IncrementType
    <3>3. increment[t][2] \in Int
      BY <1>c, <3>2
    <3> QED BY <3>2, <3>3
  <2>3. Wrap(increment[t][2] + 1) \in Counter
    BY <2>2, WrapType
  <2> QED BY <2>1, <2>2, <2>3 DEF Store, TypeOK
<1>8. CASE UNCHANGED vars
  BY <1>8 DEF vars, TypeOK
<1> QED BY <1>1, <1>2, <1>3, <1>4, <1>5, <1>6, <1>7, <1>8 DEF Next

\* Counters stay in their range, also when an increment that another has overtaken
\* is stored.
THEOREM TypeCorrect == Spec => []TypeOK
<1> QED BY TypeInit, TypeStep, PTL DEF Spec
-----------------------------------------------------------------------------
(* PrivateReported.                                                          *)

\* What a report prints of a private kind is what was not printed before.
LEMMA PrintsTheRest ==
    ASSUME ReportInv, NEW k \in Private, prev_frames[k] = Wrap(printed[k])
    PROVE  /\ sent[k] \in Nat /\ printed[k] \in Nat
           /\ sent[k] = printed[k] + Wrap(frame_counts[k] - prev_frames[k])
<1> DEFINE M == 2 ^ Width
<1>1. k \in Kind /\ sent[k] \in Nat /\ printed[k] \in Nat /\ window \in Nat
  BY DEF ReportInv, TypeOK, Private
<1>2. M \in Nat \ {0} /\ MaxWindow \in Nat /\ MaxWindow < M
  BY RangeType
<1>3. printed[k] <= sent[k] /\ sent[k] - printed[k] < M
  BY <1>1, <1>2 DEF ReportInv, Window, Unprinted
<1>4. frame_counts[k] = sent[k] % M /\ prev_frames[k] = printed[k] % M
  BY DEF ReportInv, Exact, Wrap
<1> HIDE DEF M
<1>5. ((sent[k] % M) - (printed[k] % M)) % M = sent[k] - printed[k]
  BY <1>1, <1>2, <1>3, Difference
<1>6. Wrap(frame_counts[k] - prev_frames[k]) = sent[k] - printed[k]
  BY <1>4, <1>5 DEF M, Wrap
<1> QED BY <1>1, <1>6

\* The end of an increment: the button's is of another kind, the periodic thread's
\* adds one to the number it counts.
LEMMA StoreStep ==
    ASSUME ReportInv, TypeOK', NEW t \in Thread, Store(t)
    PROVE  Alone' /\ Current' /\ Exact' /\ Window' /\ Followed'
<1> USE DEF ReportInv
<1> DEFINE j == increment[t][1]
<1>1. /\ increment[t] # << >>
      /\ frame_counts' = [frame_counts EXCEPT ![j] = Wrap(increment[t][2] + 1)]
      /\ sent' = [sent EXCEPT ![j] = @ + 1]
      /\ increment' = [increment EXCEPT ![t] = << >>]
      /\ UNCHANGED <<prev_frames, plan, report, todo, printed, window>>
  BY DEF Store
<1>2. /\ increment'[t] = << >> /\ \A u \in Thread \ {t} : increment'[u] = increment[u]
      /\ j \in Kind /\ \A k \in Private : k \in Kind
  BY <1>1, IncrementType DEF TypeOK, Private
<1>3. CASE t = "button"
  <2>1. j \notin Private /\ increment'["periodic"] = increment["periodic"]
        /\ increment'["button"] = << >>
    BY <1>1, <1>2, <1>3 DEF Alone, Holds, Thread
  <2>2. \A k \in Private : frame_counts'[k] = frame_counts[k] /\ sent'[k] = sent[k]
    BY <1>1, <1>2, <2>1 DEF TypeOK
  <2>3. Alone' /\ Current' /\ Exact'
    BY <1>1, <2>1, <2>2 DEF Alone, Current, Exact, Holds
  <2>4. Window' /\ Followed'
    BY <1>1, <2>1, <2>2 DEF Window, Unprinted, Followed, Holds
  <2> QED BY <2>3, <2>4
<1>4. CASE t = "periodic"
  <2>1. increment'["button"] = increment["button"] /\ increment'["periodic"] = << >>
        /\ report = "no" /\ report' = "no"
    BY <1>1, <1>2, <1>4 DEF Current, Thread, TypeOK
  <2>2. ASSUME NEW k \in Private, k = j
        PROVE  /\ frame_counts'[k] = Wrap(sent'[k])
               /\ sent'[k] = sent[k] + 1
    <3>1. increment[t][2] = Wrap(sent[k]) /\ sent[k] \in Nat
      BY <1>1, <1>2, <1>4, <2>2 DEF Current, Exact, Holds, TypeOK
    <3>2. Wrap(Wrap(sent[k]) + 1) = Wrap(sent[k] + 1)
      BY <3>1, RangeType, Increment DEF Wrap
    <3>3. frame_counts'[k] = Wrap(increment[t][2] + 1) /\ sent'[k] = sent[k] + 1
      BY <1>1, <1>2, <2>2 DEF TypeOK
    <3> QED BY <3>1, <3>2, <3>3
  <2>3. \A k \in Private : k # j => frame_counts'[k] = frame_counts[k] /\ sent'[k] = sent[k]
    BY <1>1, <1>2 DEF TypeOK
  <2>4. Alone' /\ Current' /\ Exact'
    BY <1>1, <2>1, <2>2, <2>3 DEF Alone, Current, Exact, Holds
  <2>5. Window'
    <3>1. ASSUME NEW k \in Private
          PROVE  printed'[k] <= sent'[k] /\ Unprinted(k)' <= window'
      <4>1. sent[k] \in Nat /\ printed[k] \in Nat /\ window \in Nat
        BY <1>2 DEF TypeOK
      <4>2. Holds("periodic", k) <=> k = j
        BY <1>1, <1>4 DEF Holds
      <4>3. ~Holds("periodic", k)'
        BY <2>1 DEF Holds
      <4>4. printed[k] <= sent[k] /\ Unprinted(k) <= window
        BY DEF Window
      <4> QED BY <1>1, <2>2, <2>3, <4>1, <4>2, <4>3, <4>4 DEF Unprinted
    <3> QED BY <1>1, <3>1 DEF Window
  <2>6. Followed'
    BY <1>1, <2>1 DEF Followed
  <2> QED BY <2>4, <2>5, <2>6
<1> QED BY <1>3, <1>4 DEF Thread

LEMMA ReportStep == ReportInv /\ [Next]_vars => ReportInv'
<1> SUFFICES ASSUME ReportInv, [Next]_vars PROVE ReportInv'
  OBVIOUS
<1> USE DEF ReportInv
<1>0. TypeOK'
  BY TypeStep
<1>p. /\ \A k \in Private : k \in Kind /\ sent[k] \in Nat /\ printed[k] \in Nat
      /\ window \in Nat /\ MaxWindow \in Nat
      /\ \A t \in Thread : t = "periodic" \/ t = "button"
  BY RangeType DEF TypeOK, Private, Thread
<1>1. CASE PeriodicSend
  <2>1. PICK j \in Kind : /\ increment["periodic"] = << >>
                          /\ increment' = [increment EXCEPT !["periodic"] = <<j, frame_counts[j]>>]
    BY <1>1 DEF PeriodicSend, Load
  <2>2. /\ report = "no" /\ window < MaxWindow /\ window' = window + 1
        /\ UNCHANGED <<frame_counts, prev_frames, plan, report, todo, sent, printed>>
    BY <1>1 DEF PeriodicSend
  <2>3. /\ increment'["button"] = increment["button"]
        /\ increment'["periodic"] = <<j, frame_counts[j]>>
    BY <2>1 DEF TypeOK, Thread
  <2>4. Alone' /\ Current' /\ Exact' /\ Followed'
    BY <2>2, <2>3 DEF Alone, Current, Exact, Followed, Holds
  <2>5. ASSUME NEW k \in Private
        PROVE  printed'[k] <= sent'[k] /\ Unprinted(k)' <= window'
    <3>1. ~Holds("periodic", k)
      BY <2>1 DEF Holds
    <3> QED BY <1>p, <2>2, <3>1 DEF Window, Unprinted
  <2>6. Window'
    BY <1>p, <2>2, <2>5 DEF Window
  <2> QED BY <1>0, <2>4, <2>6
<1>2. CASE BeginReport
  <2>1. /\ report = "no" /\ report' = "print" /\ todo' = Kind
        /\ increment["periodic"] = << >>
        /\ UNCHANGED <<frame_counts, prev_frames, increment, plan, sent, printed, window>>
    BY <1>2 DEF BeginReport
  <2> QED BY <1>0, <1>p, <2>1
          DEF Alone, Current, Exact, Window, Unprinted, Followed, Holds
<1>3. CASE PrintRate
  <2>1. PICK j \in todo :
           /\ todo' = todo \ {j}
           /\ printed' = [printed EXCEPT ![j] = @ + Wrap(frame_counts[j] - prev_frames[j])]
    BY <1>3 DEF PrintRate
  <2>2. /\ report = "print"
        /\ UNCHANGED <<frame_counts, prev_frames, increment, plan, report, sent, window>>
    BY <1>3 DEF PrintRate
  <2>3. j \in Kind /\ \A k \in Private : k # j => printed'[k] = printed[k]
    BY <2>1 DEF TypeOK
  <2>4. ASSUME NEW k \in Private, k = j PROVE printed'[k] = sent[k]
    <3>1. prev_frames[k] = Wrap(printed[k])
      BY <2>2, <2>4 DEF Followed
    <3>2. sent[k] = printed[k] + Wrap(frame_counts[k] - prev_frames[k])
      BY <3>1, PrintsTheRest
    <3>3. printed'[k] = printed[k] + Wrap(frame_counts[k] - prev_frames[k])
      BY <2>1, <2>3, <2>4 DEF TypeOK
    <3> QED BY <3>2, <3>3
  <2>5. Alone' /\ Current' /\ Exact'
    BY <2>2 DEF Alone, Current, Exact, Holds
  <2>6. ASSUME NEW k \in Private
        PROVE  printed'[k] <= sent'[k] /\ Unprinted(k)' <= window'
    <3>1. Holds("periodic", k)' = Holds("periodic", k)
      BY <2>2 DEF Holds
    <3>2. printed'[k] = printed[k] \/ printed'[k] = sent[k]
      BY <2>3, <2>4
    <3>3. printed[k] <= sent[k] /\ Unprinted(k) <= window
      BY DEF Window
    <3> QED BY <1>p, <2>2, <3>1, <3>2, <3>3 DEF Unprinted
  <2>7. Window'
    BY <2>2, <2>6 DEF Window
  <2>8. Followed'
    BY <2>1, <2>2, <2>3, <2>4 DEF Followed
  <2> QED BY <1>0, <2>5, <2>7, <2>8
<1>4. CASE BeginCopy
  <2>1. /\ report = "print" /\ todo = {} /\ report' = "copy" /\ todo' = Kind
        /\ UNCHANGED <<frame_counts, prev_frames, increment, plan, sent, printed, window>>
    BY <1>4 DEF BeginCopy
  <2> QED BY <1>0, <1>p, <2>1
          DEF Alone, Current, Exact, Window, Unprinted, Followed, Holds
<1>5. CASE Copy
  <2>1. PICK j \in todo : /\ todo' = todo \ {j}
                          /\ prev_frames' = [prev_frames EXCEPT ![j] = frame_counts[j]]
    BY <1>5 DEF Copy
  <2>2. /\ report = "copy"
        /\ UNCHANGED <<frame_counts, increment, plan, report, sent, printed, window>>
    BY <1>5 DEF Copy
  <2>3. j \in Kind /\ prev_frames'[j] = frame_counts[j]
        /\ \A k \in Private : k # j => prev_frames'[k] = prev_frames[k]
    BY <2>1 DEF TypeOK
  <2>4. Alone' /\ Current' /\ Exact' /\ Window'
    BY <2>2 DEF Alone, Current, Exact, Window, Unprinted, Holds
  <2>5. Followed'
    BY <2>1, <2>2, <2>3 DEF Followed
  <2> QED BY <1>0, <2>4, <2>5
<1>6. CASE EndReport
  <2>1. /\ report = "copy" /\ todo = {} /\ report' = "no" /\ window' = 0
        /\ UNCHANGED <<frame_counts, prev_frames, increment, plan, todo, sent, printed>>
    BY <1>6 DEF EndReport
  <2>2. increment["periodic"] = << >>
    BY <2>1 DEF Current
  <2>3. \A k \in Private : printed[k] = sent[k] /\ prev_frames[k] = frame_counts[k]
    BY <2>1 DEF Followed
  <2>4. Alone' /\ Current' /\ Exact'
    BY <2>1, <2>2 DEF Alone, Current, Exact, Holds
  <2>5. Window'
    BY <1>p, <2>1, <2>2, <2>3 DEF Window, Unprinted, Holds
  <2>6. Followed'
    BY <2>1, <2>3 DEF Followed, Exact
  <2> QED BY <1>0, <2>4, <2>5, <2>6
<1>7. CASE Press
  <2>1. /\ plan' = ButtonFrames
        /\ UNCHANGED <<frame_counts, prev_frames, increment, report, todo, sent, printed, window>>
    BY <1>7 DEF Press
  <2>2. Alone'
    BY <2>1 DEF Alone, Holds, Private
  <2>3. Current' /\ Exact' /\ Window' /\ Followed'
    BY <2>1 DEF Current, Exact, Window, Unprinted, Followed, Holds
  <2> QED BY <1>0, <2>2, <2>3
<1>8. CASE ButtonSend
  <2>1. /\ plan # << >> /\ plan' = Tail(plan)
        /\ increment' = [increment EXCEPT !["button"] = <<Head(plan), frame_counts[Head(plan)]>>]
        /\ UNCHANGED <<frame_counts, prev_frames, report, todo, sent, printed, window>>
    BY <1>8 DEF ButtonSend, Load
  <2>2. /\ increment'["periodic"] = increment["periodic"]
        /\ increment'["button"] = <<Head(plan), frame_counts[Head(plan)]>>
    BY <2>1 DEF TypeOK, Thread
  <2>3. Head(plan) \notin Private /\ \A i \in DOMAIN plan' : plan'[i] \notin Private
    BY SMTT(30), <2>1 DEF TypeOK, Alone
  <2>4. Alone'
    BY <2>2, <2>3 DEF Alone, Holds
  <2>5. Current' /\ Exact' /\ Window' /\ Followed'
    BY <2>1, <2>2 DEF Current, Exact, Window, Unprinted, Followed, Holds
  <2> QED BY <1>0, <2>4, <2>5
<1>9. CASE \E t \in Thread : Store(t)
  BY <1>0, <1>9, StoreStep
<1>10. CASE UNCHANGED vars
  BY <1>0, <1>10 DEF vars, Alone, Current, Exact, Window, Unprinted, Followed, Holds
<1> QED BY <1>1, <1>2, <1>3, <1>4, <1>5, <1>6, <1>7, <1>8, <1>9, <1>10 DEF Next

\* Every frame that only the periodic thread sends is printed in exactly one report,
\* though its counter wraps around and the button writes the others meanwhile.
THEOREM PrivateReportedCorrect == Spec => []PrivateReported
<1>1. Init => ReportInv
  <2> SUFFICES ASSUME Init PROVE ReportInv
    OBVIOUS
  <2>1. 0 % 2 ^ Width = 0
    BY RangeType
  <2>2. Wrap(0) = 0 /\ MaxWindow \in Nat
    BY <2>1, RangeType DEF Wrap
  <2>3. Private \subseteq Kind
    BY DEF Private
  <2> QED BY <2>2, <2>3, TypeInit
          DEF Init, ReportInv, Alone, Current, Exact, Window, Unprinted, Followed, Holds, Thread
<1>2. ReportInv => PrivateReported
  BY PrintsTheRest DEF ReportInv, Followed, PrivateReported
<1> QED BY <1>1, <1>2, ReportStep, PTL DEF Spec
=============================================================================
