---------------------------- MODULE FrameCounts ----------------------------
(***************************************************************************)
(* frame_counts of can_converter_frames.c, incremented by the send_        *)
(* functions without a lock, and the report that ccu_can_periodic_thread   *)
(* draws from it with prev_frames.                                         *)
(*                                                                         *)
(* Two threads call the send_ functions: the periodic thread, frame by     *)
(* frame as they fall due (Broadcast says when; here any frame may), and   *)
(* ccu_can_test_send_all, once for each press of the test button.  An      *)
(* increment loads the counter and stores it later; threads interleave in  *)
(* between.  The report reads the counters one by one, and then copies     *)
(* them one by one to prev_frames.                                         *)
(*                                                                         *)
(* Only the kinds of frames that the report prints are modelled.           *)
(***************************************************************************)
EXTENDS Integers, Sequences

CONSTANTS
    Kind,           \* kinds of CAN frames
    ButtonFrames,   \* the frames of ccu_can_test_send_all, in order
    Width,          \* bits of a counter (32)
    MaxWindow,      \* bound of the model: frames the periodic thread sends between two reports
    MaxReports,     \* bound of the model: reports
    MaxPresses      \* bound of the model: presses of the button

ASSUME ButtonFramesAssumption == ButtonFrames \in Seq(Kind)
ASSUME BoundAssumption == /\ {Width, MaxWindow, MaxReports, MaxPresses} \subseteq Nat
                          /\ MaxWindow < 2 ^ Width

Thread == {"periodic", "button"}
Counter == 0 .. 2 ^ Width - 1
Wrap(n) == n % 2 ^ Width

\* Kinds that only the periodic thread sends.
Private == {k \in Kind : \A i \in DOMAIN ButtonFrames : ButtonFrames[i] # k}

VARIABLES
    frame_counts,
    prev_frames,
    increment,      \* each thread's increment under way: << >> or <<kind, value loaded>>
    plan,           \* frames the button's callback has still to send
    report,         \* "no", "print" or "copy"
    todo,           \* counters still to be printed or copied
    sent,           \* history: frames sent, by kind
    printed,        \* history: sum of the rates printed, by kind
    window,         \* history: frames sent by the periodic thread since the last report
    reports, presses

vars == <<frame_counts, prev_frames, increment, plan, report, todo, sent, printed,
          window, reports, presses>>

Init == /\ frame_counts = [k \in Kind |-> 0]
        /\ prev_frames = [k \in Kind |-> 0]
        /\ increment = [t \in Thread |-> << >>]
        /\ plan = << >>
        /\ report = "no"
        /\ todo = {}
        /\ sent = [k \in Kind |-> 0]
        /\ printed = [k \in Kind |-> 0]
        /\ window = 0 /\ reports = 0 /\ presses = 0
-----------------------------------------------------------------------------
(* The end of a send_ function: frame_counts.<kind>++.                       *)

Load(t, k) == /\ increment[t] = << >>
              /\ increment' = [increment EXCEPT ![t] = <<k, frame_counts[k]>>]

\* A mistake, exchanged for Store: the counter is one bit wider than its type.
StoreWide(t) ==
    /\ increment[t] # << >>
    /\ LET k == increment[t][1]
           loaded == increment[t][2]
       IN  /\ frame_counts' = [frame_counts EXCEPT ![k] = loaded + 1]
           /\ sent' = [sent EXCEPT ![k] = @ + 1]
    /\ increment' = [increment EXCEPT ![t] = << >>]
    /\ UNCHANGED <<prev_frames, plan, report, todo, printed, window, reports, presses>>

Store(t) == /\ increment[t] # << >>
            /\ LET k == increment[t][1]
                   loaded == increment[t][2]
               IN  /\ frame_counts' = [frame_counts EXCEPT ![k] = Wrap(loaded + 1)]
                   /\ sent' = [sent EXCEPT ![k] = @ + 1]
            /\ increment' = [increment EXCEPT ![t] = << >>]
            /\ UNCHANGED <<prev_frames, plan, report, todo, printed, window, reports, presses>>
-----------------------------------------------------------------------------
(* ccu_can_periodic_thread.                                                  *)

PeriodicSend == /\ report = "no"
                /\ window < MaxWindow
                /\ \E k \in Kind : Load("periodic", k)
                /\ window' = window + 1
                /\ UNCHANGED <<frame_counts, prev_frames, plan, report, todo, sent, printed,
                               reports, presses>>

BeginReport == /\ report = "no"
               /\ increment["periodic"] = << >>
               /\ reports < MaxReports
               /\ report' = "print"
               /\ todo' = Kind
               /\ UNCHANGED <<frame_counts, prev_frames, increment, plan, sent, printed,
                              window, reports, presses>>

\* HZ(k): an unsigned difference.
PrintRate == /\ report = "print"
         /\ \E k \in todo :
               /\ todo' = todo \ {k}
               /\ printed' = [printed EXCEPT ![k] = @ + Wrap(frame_counts[k] - prev_frames[k])]
         /\ UNCHANGED <<frame_counts, prev_frames, increment, plan, report, sent, window,
                        reports, presses>>

\* A mistake, exchanged for BeginCopy: prev_frames is not brought up to date.
BeginCopyForgotten == /\ report = "print"
                      /\ todo = {}
                      /\ report' = "copy"
                      /\ UNCHANGED <<frame_counts, prev_frames, increment, plan, todo, sent,
                                     printed, window, reports, presses>>

BeginCopy == /\ report = "print"
             /\ todo = {}
             /\ report' = "copy"
             /\ todo' = Kind
             /\ UNCHANGED <<frame_counts, prev_frames, increment, plan, sent, printed,
                            window, reports, presses>>

\* prev_frames = frame_counts
Copy == /\ report = "copy"
        /\ \E k \in todo :
              /\ todo' = todo \ {k}
              /\ prev_frames' = [prev_frames EXCEPT ![k] = frame_counts[k]]
        /\ UNCHANGED <<frame_counts, increment, plan, report, sent, printed, window,
                       reports, presses>>

EndReport == /\ report = "copy"
             /\ todo = {}
             /\ report' = "no"
             /\ window' = 0
             /\ reports' = reports + 1
             /\ UNCHANGED <<frame_counts, prev_frames, increment, plan, todo, sent, printed,
                            presses>>
-----------------------------------------------------------------------------
(* ccu_can_test_send_all.                                                    *)

Press == /\ plan = << >>
         /\ increment["button"] = << >>
         /\ presses < MaxPresses
         /\ presses' = presses + 1
         /\ plan' = ButtonFrames
         /\ UNCHANGED <<frame_counts, prev_frames, increment, report, todo, sent, printed,
                        window, reports>>

ButtonSend == /\ plan # << >>
              /\ Load("button", Head(plan))
              /\ plan' = Tail(plan)
              /\ UNCHANGED <<frame_counts, prev_frames, report, todo, sent, printed, window,
                             reports, presses>>

Next == \/ PeriodicSend \/ BeginReport \/ PrintRate \/ BeginCopy \/ Copy \/ EndReport
        \/ Press \/ ButtonSend
        \/ \E t \in Thread : Store(t)

Spec == Init /\ [][Next]_vars
-----------------------------------------------------------------------------
TypeOK == /\ frame_counts \in [Kind -> Counter]
          /\ prev_frames \in [Kind -> Counter]
          /\ increment \in [Thread -> {<< >>} \cup (Kind \X Counter)]
          /\ plan \in Seq(Kind)
          /\ report \in {"no", "print", "copy"}
          /\ todo \subseteq Kind
          /\ sent \in [Kind -> Nat]
          /\ printed \in [Kind -> Nat]
          /\ {window, reports, presses} \subseteq Nat

\* Every frame that only the periodic thread sends is printed in exactly one
\* report, also when its counter wraps around between two reports and whatever
\* the button does to the other counters meanwhile.
PrivateReported == report = "no" => \A k \in Private :
    sent[k] = printed[k] + Wrap(frame_counts[k] - prev_frames[k])

\* can_converter_frames.h:22 says of frame_counts "Written only from
\* ccu_can_periodic_thread - no synchronisation needed": every frame is counted.
\* Violated: the button's increment overwrites those of the periodic thread.
AllExact == \A k \in Kind : frame_counts[k] = Wrap(sent[k])
=============================================================================
