--------------------------- MODULE ReviewTrigger ---------------------------
(***************************************************************************)
(* review.ReviewTrigger: when the user goes OFF, a timer is set whose      *)
(* callback asks the coordinator for the review of that day, unless the    *)
(* user comes back first.                                                  *)
(*                                                                         *)
(* A timer that has run out can no longer be stopped: its callback waits   *)
(* for the trigger's lock, decides under it, and makes its call after it   *)
(* has let go.  The handlers of the mode buttons report a mode once the    *)
(* manager has taken it.  RunDue, which only tests use, is left out.       *)
(***************************************************************************)
EXTENDS Naturals

CONSTANTS
    MaxDay,         \* bounds on local dates
    MaxPresses      \* and on reported modes

ASSUME BoundsAssumption == {MaxDay, MaxPresses} \subseteq Nat

Dates == 0 .. MaxDay
None == MaxDay + 1

VARIABLES
    day,        \* today
    life,       \* "up", "closed" after Close
    off,        \* history: the date of the last report if it was OFF, or None
    pending,    \* pending with its date, or None
    timer,      \* the trigger's timer runs
    lost,       \* running timers the trigger has forgotten
    firing,     \* callbacks of fire that wait for the lock
    ready,      \* by date: callbacks that have decided and not called yet
    running,    \* the date of the call of Coordinator.Start being made, or None
    asked,      \* history: starts decided since the last report
    presses

vars == <<day, life, off, pending, timer, lost, firing, ready, running, asked, presses>>

\* A handler reports a mode, after Close with no effect that lasts.
Report ==
    /\ presses < MaxPresses /\ presses' = presses + 1
    /\ asked' = 0
    /\ UNCHANGED <<day, life, lost, firing, ready, running>>

\* Mutant: a timer is set only if nothing is pending.
ArmedOnce == pending' = day /\ timer' = (pending = None)
Armed == pending' = day /\ timer' = TRUE
\* Mutant: the pending review is kept.
StoppedOnly == timer' = FALSE /\ UNCHANGED pending
Stopped == pending' = None /\ timer' = FALSE

\* OnModeChanged: whatever timer is known is stopped, for OFF a new one set.
ModeOff == Report /\ off' = day /\ Armed
ModeOther == Report /\ off' = None /\ Stopped

TimerFires ==
    /\ \/ timer /\ timer' = FALSE /\ UNCHANGED lost
       \/ lost > 0 /\ lost' = lost - 1 /\ UNCHANGED timer
    /\ firing' = firing + 1
    /\ UNCHANGED <<day, life, off, pending, ready, running, asked, presses>>

\* Mutant: what was started stays pending.
StaysPending == pending' = pending
NotPending == pending' = None
\* fire, under the lock.  It drops the trigger's timer, be it its own or one set
\* since.
Fire ==
    /\ firing > 0 /\ firing' = firing - 1
    /\ IF pending = None THEN UNCHANGED <<pending, timer, lost, ready, asked>>
       ELSE /\ NotPending
            /\ timer' = FALSE /\ lost' = lost + (IF timer THEN 1 ELSE 0)
            /\ ready' = [ready EXCEPT ![pending] = @ + 1]
            /\ asked' = asked + 1
    /\ UNCHANGED <<day, life, off, running, presses>>

\* run: one call at a time, another one is dropped.
Run ==
    /\ \E d \in Dates :
         /\ ready[d] > 0 /\ ready' = [ready EXCEPT ![d] = @ - 1]
         /\ running' = IF running = None THEN d ELSE running
    /\ UNCHANGED <<day, life, off, pending, timer, lost, firing, asked, presses>>
RunEnds ==
    /\ running # None /\ running' = None
    /\ UNCHANGED <<day, life, off, pending, timer, lost, firing, ready, asked, presses>>

Close ==
    /\ life = "up" /\ life' = "closed" /\ Stopped
    /\ UNCHANGED <<day, off, lost, firing, ready, running, asked, presses>>

Midnight ==
    /\ day < MaxDay /\ day' = day + 1
    /\ UNCHANGED <<life, off, pending, timer, lost, firing, ready, running, asked, presses>>

Init ==
    /\ day = 0 /\ life = "up" /\ off = None
    /\ pending = None /\ timer = FALSE /\ lost = 0 /\ firing = 0
    /\ ready = [d \in Dates |-> 0] /\ running = None
    /\ asked = 0 /\ presses = 0

Next == \/ ModeOff \/ ModeOther \/ TimerFires \/ Fire \/ Run \/ RunEnds
        \/ Close \/ Midnight

Spec == Init /\ [][Next]_vars

\* Timers run out, callbacks get the lock and make their calls, which return.
Fairness == WF_vars(TimerFires) /\ WF_vars(Fire) /\ WF_vars(Run) /\ WF_vars(RunEnds)

----------------------------------------------------------------------------
(* Properties *)

\* A timer the trigger can still stop runs only while a review is pending.
TypeOK ==
    /\ day \in Dates /\ life \in {"up", "closed"}
    /\ {off, pending, running} \subseteq Dates \cup {None}
    /\ timer \in BOOLEAN
    /\ {lost, firing, asked, presses} \subseteq Nat
    /\ ready \in [Dates -> Nat]
    /\ timer => pending # None

\* However late a callback gets the lock, it starts a review only if the user is
\* still OFF, and of the day on which the user went OFF: the date is captured at
\* the transition, not when the timer fires across midnight (OnModeChanged).
StartsOnlyWhenOff == [][\A d \in Dates : ready'[d] > ready[d] => off = d]_vars

\* However many timers were set and forgotten, going OFF asks for one review.
OneReviewPerOff == asked <= 1

\* Whoever stays OFF gets a review asked for, though the date may be that of a
\* call still being made.
OffIsReviewed == off # None /\ pending # None ~> (running # None \/ off = None \/ life # "up")

=============================================================================
