-------------------------- MODULE WorkQueueProofs --------------------------
(***************************************************************************)
(* Proofs about the two components whose handlers run on the system work   *)
(* queue.                                                                  *)
(*                                                                         *)
(* BusRecovery: OffIsPursued and AlarmIsCurrent become inductive once it   *)
(* is known what cannot be before the callback is registered: Quiet.       *)
(*                                                                         *)
(* ActivityLeds: the two properties rest on what test_active and the LEDs  *)
(* still to be switched say of the button's callback, and on a handler     *)
(* past its test having found no test active: no thread has run since.     *)
(*                                                                         *)
(* WorkQueue: every step of the composition is a step, or a stutter, of    *)
(* each component, which carries the four properties over to it; and, with *)
(* its fairness, the bus comes back.                                       *)
(***************************************************************************)
EXTENDS WorkQueue, TLAPS

-----------------------------------------------------------------------------
(* The recovery from bus-off.                                                *)

\* Before the callback is registered the controller has not gone off and no
\* alarm is shown.
Quiet == ~Registered => bus # "off" /\ led \notin {"bus_off", "warning"}

IInv == TypeOK /\ Quiet /\ OffIsPursued /\ AlarmIsCurrent

\* What can_state_change_cb does to the LED and the work, from either side of
\* the registration.
LEMMA EnterOn ==
    ASSUME IInv, NEW s \in BusState, Enter(s), UNCHANGED <<manual, boot>>, s # "off"
    PROVE  /\ bus' = s
           /\ work' = work
           /\ led' \in Led
           /\ Quiet'
           /\ AlarmIsCurrent'
<1>1. CASE Registered
  BY <1>1 DEF IInv, TypeOK, Quiet, AlarmIsCurrent, Enter, Notify, Registered, BusState, Led
<1>2. CASE ~Registered
  BY <1>2 DEF IInv, TypeOK, Quiet, AlarmIsCurrent, Enter, Notify, Registered, BusState, Led
<1> QED BY <1>1, <1>2

\* Every step keeps the invariant: a controller that goes off schedules an
\* attempt, and each step of an attempt hands the pursuit to the next.
LEMMA RecoveryStep == IInv /\ [Next]_vars => IInv'
<1> SUFFICES ASSUME IInv, [Next]_vars PROVE IInv'
  OBVIOUS
<1> USE DEF IInv
<1>1. CASE Worsen
  <2>1. CASE bus = "active" /\ Enter("warning")
    BY <1>1, <2>1, EnterOn DEF Worsen, TypeOK, OffIsPursued, BusState
  <2>2. CASE bus = "warning" /\ Enter("passive")
    BY <1>1, <2>2, EnterOn DEF Worsen, TypeOK, OffIsPursued, BusState
  <2>3. CASE bus = "passive" /\ boot \in {"threads", "done"} /\ Enter("off")
    BY <1>1, <2>3 DEF Worsen, TypeOK, Quiet, OffIsPursued, AlarmIsCurrent, Pursued,
       Enter, Notify, Registered, BusState, Led
  <2> QED BY <1>1, <2>1, <2>2, <2>3 DEF Worsen
<1>2. CASE Improve
  BY <1>2, EnterOn DEF Improve, TypeOK, OffIsPursued, BusState
<1>3. CASE ComeBack
  BY <1>3, EnterOn DEF ComeBack, TypeOK, OffIsPursued, BusState
<1>4. CASE Attempt
  BY <1>4 DEF Attempt, TypeOK, Quiet, OffIsPursued, AlarmIsCurrent, Pursued, Registered
<1>5. CASE Recover
  BY <1>5, EnterOn DEF Recover, TypeOK, OffIsPursued, BusState
<1>6. CASE NothingToRecover
  BY <1>6 DEF NothingToRecover, TypeOK, Quiet, OffIsPursued, AlarmIsCurrent, Pursued, Registered
<1>7. CASE RecoverFails
  BY <1>7 DEF RecoverFails, TypeOK, Quiet, OffIsPursued, AlarmIsCurrent, Pursued, Registered
<1>8. CASE Retry
  BY <1>8 DEF Retry, TypeOK, Quiet, OffIsPursued, AlarmIsCurrent, Pursued, Registered
<1>9. CASE Settle
  BY <1>9 DEF Settle, TypeOK, Quiet, OffIsPursued, AlarmIsCurrent, Pursued, Registered, Led
<1>10. CASE Boot \/ Ready
  BY <1>10 DEF Boot, Ready, TypeOK, Quiet, OffIsPursued, AlarmIsCurrent, Pursued, Registered,
     BootStep, Led
<1>11. CASE DfuStart
  BY <1>11 DEF DfuStart, TypeOK, Quiet, OffIsPursued, AlarmIsCurrent, Pursued, Registered, Led
<1>12. CASE DfuEnd
  BY <1>12 DEF DfuEnd, TypeOK, Quiet, OffIsPursued, AlarmIsCurrent, Pursued, Registered, Led
<1>13. CASE UNCHANGED vars
  BY <1>13 DEF vars, TypeOK, Quiet, OffIsPursued, AlarmIsCurrent, Pursued, Registered
<1> QED
  BY <1>1, <1>2, <1>3, <1>4, <1>5, <1>6, <1>7, <1>8, <1>9, <1>10, <1>11, <1>12, <1>13
  DEF Next, Proceed

\* The invariant holds throughout.
THEOREM RecoveryInvariant == Spec => []IInv
<1>1. Init => IInv
  BY DEF Init, IInv, TypeOK, Quiet, OffIsPursued, AlarmIsCurrent, BootStep, BusState, Led,
     Registered
<1> QED BY <1>1, RecoveryStep, PTL DEF Spec

\* The variables keep their types: no controller state passes for an LED pattern.
THEOREM RecoveryTypeCorrect == Spec => []TypeOK
<1>1. IInv => TypeOK
  BY DEF IInv
<1> QED BY <1>1, RecoveryInvariant, PTL

\* bus_off_recovery_work is scheduled, or its handler busy, as long as the
\* controller is off for good.
THEOREM OffIsPursuedCorrect == Spec => []OffIsPursued
<1>1. IInv => OffIsPursued
  BY DEF IInv
<1> QED BY <1>1, RecoveryInvariant, PTL

\* Neither the recovery nor an update leaves an outdated alarm on the LED.
THEOREM AlarmIsCurrentCorrect == Spec => []AlarmIsCurrent
<1>1. IInv => AlarmIsCurrent
  BY DEF IInv
<1> QED BY <1>1, RecoveryInvariant, PTL
-----------------------------------------------------------------------------
(* The activity LEDs.                                                        *)

LedTypes == /\ test_active \in BOOLEAN
            /\ lit \in [ActivityLed -> BOOLEAN]
            /\ off_work \in [ActivityLed -> {"idle", "scheduled"}]
            /\ off_handler \in ActivityLed \cup {"none"}
            /\ tx_thread \in {"idle", "flash"}
            /\ button \in {"idle", "on", "test", "off"}
            /\ todo \in {<< >>, <<"tx">>, <<"rx", "tx">>}

\* Where the callback is: what is still to be switched, and what is lit by then.
TestProgress == /\ button \in {"on", "off"} <=> todo # << >>
                /\ test_active <=> button \in {"on", "test"}
                /\ button = "on" /\ todo = <<"tx">> => lit["rx"]
                /\ button = "test" => lit["rx"] /\ lit["tx"]
                /\ off_handler # "none" => ~test_active

LEMMA TodoFacts == /\ Head(<<"rx", "tx">>) = "rx" /\ Tail(<<"rx", "tx">>) = <<"tx">>
                   /\ Head(<<"tx">>) = "tx" /\ Tail(<<"tx">>) = << >>
                   /\ << >> # <<"tx">> /\ << >> # <<"rx", "tx">> /\ <<"tx">> # <<"rx", "tx">>
                   /\ DOMAIN << >> = {} /\ DOMAIN <<"tx">> = {1} /\ DOMAIN <<"rx", "tx">> = {1, 2}
OBVIOUS

\* The LEDs a sequence names.
LEMMA Named == ASSUME NEW l \in ActivityLed
               PROVE  /\ ~ \E i \in DOMAIN << >> : << >>[i] = l
                      /\ (\E i \in DOMAIN <<"tx">> : <<"tx">>[i] = l) <=> l = "tx"
                      /\ \E i \in DOMAIN <<"rx", "tx">> : <<"rx", "tx">>[i] = l
<1>1. (\E i \in DOMAIN <<"tx">> : <<"tx">>[i] = l) <=> l = "tx"
  BY TodoFacts
<1>2. \E i \in DOMAIN <<"rx", "tx">> : <<"rx", "tx">>[i] = l
  <2>1. CASE l = "rx"
    <3> WITNESS 1 \in DOMAIN <<"rx", "tx">>
    <3> QED BY <2>1
  <2>2. CASE l = "tx"
    <3> WITNESS 2 \in DOMAIN <<"rx", "tx">>
    <3> QED BY <2>2
  <2> QED BY <2>1, <2>2 DEF ActivityLed
<1> QED BY <1>1, <1>2, TodoFacts

\* NeverStuck with the LEDs to be switched told apart.
Attended(l) == \/ off_work[l] = "scheduled" \/ off_handler = l
               \/ l = "tx" /\ tx_thread = "flash"
               \/ button \in {"on", "test"}
               \/ l = "tx" /\ todo = <<"tx">>
               \/ todo = <<"rx", "tx">>

LEMMA AttendedIs == ASSUME LedTypes, NEW l \in ActivityLed
                    PROVE  OffIsComing(l) <=> Attended(l)
<1>1. todo = << >> \/ todo = <<"tx">> \/ todo = <<"rx", "tx">>
  BY DEF LedTypes
<1>2. CASE todo = << >>
  <2>1. todo # <<"tx">> /\ todo # <<"rx", "tx">> /\ ~ \E i \in DOMAIN todo : todo[i] = l
    BY <1>2, TodoFacts, Named
  <2> QED BY <2>1 DEF OffIsComing, Attended
<1>3. CASE todo = <<"tx">>
  <2>1. todo # <<"rx", "tx">> /\ ((\E i \in DOMAIN todo : todo[i] = l) <=> l = "tx")
    BY <1>3, TodoFacts, Named
  <2> QED BY <1>3, <2>1 DEF OffIsComing, Attended
<1>4. CASE todo = <<"rx", "tx">>
  <2>1. \E i \in DOMAIN todo : todo[i] = l
    BY <1>4, Named
  <2> QED BY <1>4, <2>1 DEF OffIsComing, Attended
<1> QED BY <1>1, <1>2, <1>3, <1>4

LedCare == \A l \in ActivityLed : lit[l] => Attended(l)

LEMMA LedCareStep ==
    LedTypes /\ TestProgress /\ LedCare /\ [LedNext]_ledVars
        => LedTypes' /\ TestProgress' /\ LedCare'
<1> SUFFICES ASSUME LedTypes, TestProgress, LedCare, [LedNext]_ledVars
             PROVE  LedTypes' /\ TestProgress' /\ LedCare'
  OBVIOUS
<1> USE TodoFacts DEF LedTypes, TestProgress, LedCare, Attended, ActivityLed
<1>1. CASE TxFlash
  BY <1>1 DEF TxFlash, Preemptible
<1>2. CASE TxReschedule
  BY <1>2 DEF TxReschedule, Preemptible
<1>3. CASE RxFlash
  BY <1>3 DEF RxFlash
<1>4. CASE Expire
  BY <1>4 DEF Expire, Preemptible
<1>5. CASE SwitchOff
  BY <1>5 DEF SwitchOff
<1>6. CASE Press
  BY <1>6 DEF Press, TestSet, Preemptible
<1>7. CASE Switch
  <2>1. CASE todo = <<"rx", "tx">>
    BY <1>7, <2>1 DEF Switch, Preemptible
  <2>2. CASE todo = <<"tx">>
    BY <1>7, <2>2 DEF Switch, Preemptible
  <2> QED BY <1>7, <2>1, <2>2 DEF Switch
<1>8. CASE Release
  BY <1>8 DEF Release, TestSet, Preemptible
<1>9. CASE UNCHANGED ledVars
  BY <1>9 DEF ledVars
<1> QED BY <1>1, <1>2, <1>3, <1>4, <1>5, <1>6, <1>7, <1>8, <1>9 DEF LedNext, Button

LEMMA LedsStart == LedInit => LedTypes /\ TestProgress /\ LedCare
BY TodoFacts DEF LedInit, LedTypes, TestProgress, LedCare, ActivityLed

\* Both LEDs stay lit for the whole test.
THEOREM LitDuringTestCorrect == LedSpec => []LitDuringTest
<1>1. TestProgress => LitDuringTest
  BY DEF TestProgress, LitDuringTest, ActivityLed
<1> QED BY <1>1, LedCareStep, LedsStart, PTL DEF LedSpec

\* A lit LED always has someone who is going to switch it off.
THEOREM NeverStuckCorrect == LedSpec => []NeverStuck
<1>1. LedTypes /\ LedCare => NeverStuck
  BY AttendedIs DEF LedCare, NeverStuck
<1> QED BY <1>1, LedCareStep, LedsStart, PTL DEF LedSpec
-----------------------------------------------------------------------------
(* The work queue with both components.                                      *)

LEMMA EachSteps == [QueueNext]_allVars => [Next]_vars /\ [LedNext]_ledVars
<1> SUFFICES ASSUME [QueueNext]_allVars PROVE [Next]_vars /\ [LedNext]_ledVars
  OBVIOUS
<1>1. CASE BeginRecovery
  BY <1>1 DEF BeginRecovery, Next
<1>2. CASE GoOn
  BY <1>2 DEF GoOn, Next
<1>3. CASE BeginSwitchOff
  BY <1>3 DEF BeginSwitchOff, LedNext
<1>4. CASE EndSwitchOff
  BY <1>4 DEF EndSwitchOff, LedNext
<1>5. CASE Controller
  BY <1>5 DEF Controller, Next
<1>6. CASE Update
  BY <1>6 DEF Update, Next
<1>7. CASE Frame
  BY <1>7 DEF Frame, LedNext
<1>8. CASE Main
  BY <1>8 DEF Main, Next
<1>9. CASE TxThread
  BY <1>9 DEF TxThread, LedNext
<1>10. CASE ButtonThread
  BY <1>10 DEF ButtonThread, LedNext
<1>11. CASE UNCHANGED allVars
  BY <1>11 DEF allVars
<1> QED
  BY <1>1, <1>2, <1>3, <1>4, <1>5, <1>6, <1>7, <1>8, <1>9, <1>10, <1>11 DEF QueueNext

\* On the work queue, next to the threads and the interrupts, each component behaves
\* as it does alone.
THEOREM Composed == QueueSpec => Spec /\ LedSpec
<1>1. QueueInit => Init /\ LedInit
  BY DEF QueueInit
<1> QED BY <1>1, EachSteps, PTL DEF QueueSpec, Spec, LedSpec

(* How the controller comes back, given fairness.  Off for good, it is in one *)
(* of four phases by what the handler does; each leads back to the idle one,  *)
(* from which a new attempt starts, unless the controller leaves bus-off.     *)
Off == manual /\ bus = "off"
Idle == Off /\ handler = "idle"
Trying == Off /\ handler = "recovering"
GaveUp == Off /\ handler = "failed"
Stale == Off /\ handler = "recovered"

\* The states in which the steps with fairness can be taken.
BeginEnabled == Idle /\ work = "scheduled" /\ Preemptible => ENABLED <<BeginRecovery>>_allVars
GoOnEnabled == GaveUp \/ Stale => ENABLED <<GoOn>>_allVars
RecoverEnabled == Trying => ENABLED <<Recovering>>_allVars
SwitchOffEnabled == ~Preemptible => ENABLED <<EndSwitchOff>>_allVars

LEMMA OffPhases == IInv /\ Off => /\ Idle \/ Trying \/ GaveUp \/ Stale
                                  /\ Idle => work = "scheduled"
  BY DEF IInv, TypeOK, OffIsPursued, Pursued, Off, Idle, Trying, GaveUp, Stale

\* Nothing else moves the handler; while the controller is off it stays in its phase
\* or goes on to the next.
LEMMA OffSteps ==
    IInv /\ Off /\ [Next]_vars =>
        /\ Off' \/ (bus # "off")'
        /\ Idle => Idle' \/ Trying' \/ (bus # "off")'
        /\ GaveUp => GaveUp' \/ Idle' \/ (bus # "off")'
        /\ Stale => Stale' \/ Idle' \/ (bus # "off")'
  BY DEF Next, vars, Proceed, Worsen, Improve, ComeBack, Attempt, Recover, NothingToRecover,
     RecoverFails, Retry, Settle, Boot, Ready, DfuStart, DfuEnd, Enter, Off, Idle, Trying,
     GaveUp, Stale

LEMMA OffBegins == Idle /\ <<BeginRecovery>>_allVars => Trying'
  BY DEF BeginRecovery, Attempt, Off, Idle, Trying

LEMMA OffGoesOn == <<GoOn>>_allVars => (GaveUp => Idle') /\ (Stale => Idle')
  BY DEF GoOn, Proceed, Recover, NothingToRecover, RecoverFails, Retry, Settle,
     Off, Idle, GaveUp, Stale

LEMMA RecoverEnds == <<Recovering>>_allVars => (bus # "off")'
  BY DEF Recovering, Recover, Enter

LEMMA SwitchOffEnds == <<EndSwitchOff>>_allVars => Preemptible'
  BY DEF EndSwitchOff, SwitchOff, Preemptible

\* A controller that is off for good leaves bus-off: the handler tries again and again,
\* whatever the LEDs ask of the work queue, and an attempt succeeds at some time when it
\* can succeed again and again.
THEOREM BusComesBackCorrect ==
    FairQueueSpec /\ []BeginEnabled /\ []GoOnEnabled /\ []RecoverEnabled /\ []SwitchOffEnabled
    => BusComesBack
<1>1. FairQueueSpec => []IInv /\ [][Next]_vars
  BY Composed, RecoveryInvariant, EachSteps, PTL DEF FairQueueSpec, QueueSpec
<1>2. (manual /\ bus = "off") => Off
  BY DEF Off
<1>3. (Idle => Off) /\ (Trying => Off)
  BY DEF Idle, Trying
<1> QED
  BY <1>1, <1>2, <1>3, OffPhases, OffSteps, OffBegins, OffGoesOn, RecoverEnds, SwitchOffEnds, PTL
  DEF FairQueueSpec, BeginEnabled, GoOnEnabled, RecoverEnabled, SwitchOffEnabled, BusComesBack
=============================================================================
