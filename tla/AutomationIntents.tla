------------------------- MODULE AutomationIntents -------------------------
(***************************************************************************)
(* Automatic mode changes: automation.Controller proposes them, the        *)
(* manager records them as an intent that the user may accept or reject    *)
(* for 15 seconds, and applies them.                                       *)
(*                                                                         *)
(* The worker makes, in each iteration, five calls that lock the manager   *)
(* on their own: ProcessExpiredAutomationIntent, the application of the    *)
(* intent it claimed, TickWithClassification, GetStatus and                *)
(* ApplyAutomationIntent.  An HTTP request to accept or reject claims the  *)
(* pending intent under the lock, releases it, and applies under a new     *)
(* lock.  Mode buttons and eye-care breaks fall between any two of these.  *)
(*                                                                         *)
(* Abstractions: a deadline (of the pending intent, the manual override,   *)
(* the snooze) is the fact that it has not passed, and passes at any time; *)
(* the thresholds, evidence windows and the cooldown of the controller are *)
(* left to chance, so it may propose whenever its guards on the status     *)
(* allow; whether an intent asks for confirmation is chosen per intent,    *)
(* for the settings may change at any time; every session row is saved     *)
(* (SessionLedger is about the ones that are not).                         *)
(***************************************************************************)
EXTENDS Naturals, FiniteSets

CONSTANTS
    MaxIntents,     \* bound on the intents the controller proposes
    MaxPresses,     \* bound on mode buttons and eye-care actions
    MaxDay,         \* bound on local dates
    MaxCrashes      \* bound on restarts after a crash

ASSUME BoundsAssumption == {MaxIntents, MaxPresses, MaxDay, MaxCrashes} \subseteq Nat

VARIABLES
    today,      \* the local date
    date,       \* Manager.currentDate
    cur,        \* the current session
    back,       \* setting eye_care.return_mode.v1
    override,   \* manualOverrideUntil lies ahead
    snoozed,    \* autoPauseSnoozeUntil lies ahead
    pending,    \* pendingAutomationIntent, or None
    late,       \* its ExpiresAt has passed
    claimed,    \* intents HTTP requests have claimed and not yet applied
    worker,     \* the worker's iteration
    intents,    \* what every intent proposed so far is
    fate,       \* history: what became of each intent
    ended,      \* history: the sessions an intent ended, with its id
    hasty,      \* history: somebody acted between another one's claim (or
                \* status snapshot) and the application that follows it
    presses, crashes

vars == <<today, date, cur, back, override, snoozed, pending, late, claimed,
          worker, intents, fate, ended, hasty, presses, crashes>>

Ids == 1 .. MaxIntents
None == 0
Dates == 0 .. MaxDay
Modes == {"STANDBY", "STUDY", "BREAK", "OFF"}
Origins == {"MANUAL", "AUTOMATION", "EYE_CARE"}
Kinds == {"START", "PAUSE", "RESUME"}
Session == [n: Nat, mode: Modes, origin: Origins, resumable: BOOLEAN, since: Dates]
Intent == [kind: Kinds, on: Nat, confirm: BOOLEAN]
NoIntent == [kind |-> "NONE", on |-> 0, confirm |-> FALSE]
\* Fates an intent keeps.
Settled == {"applied", "refused", "rejected", "dismissed", "cancelled", "cleared",
            "lost"}
Fates == {"none", "proposed", "pending", "claimed"} \cup Settled
Points == {"wake", "expire", "apply", "tick", "look", "propose"}

Holding == {"apply", "propose"}     \* where the worker has an intent in hand
Worker == [pc: Points, intent: Ids \cup {None}, late: Ids \cup {None},
           day: Dates, away: BOOLEAN]

\* None of the calls that take two locks is between them.
Quiet == claimed = {} /\ worker.pc \notin Holding
Act(calm) == hasty' = (hasty \/ ~calm)
Settle(i, f) == fate' = [fate EXCEPT ![i] = f]
Goto(pc) == worker' = [worker EXCEPT !.pc = pc]
Drop(pc) == worker' = [worker EXCEPT !.pc = pc, !.intent = None]

----------------------------------------------------------------------------
(* The manager's sessions *)

\* checkMidnightResetLocked with clock reading d: the session it leaves.
Rolled(d) ==
    IF d = date THEN cur
    ELSE [n |-> cur.n + 1, mode |-> "STANDBY", origin |-> "MANUAL",
          resumable |-> FALSE, since |-> d]
Roll(d) == cur' = Rolled(d) /\ date' = d

\* A session of the given kind replaces the current one.
Begin(mode, origin) ==
    /\ cur' = [n |-> Rolled(today).n + 1, mode |-> mode, origin |-> origin,
               resumable |-> mode = "BREAK" /\ origin = "AUTOMATION", since |-> today]
    /\ date' = today

IsEye(c) == c.mode = "BREAK" /\ c.origin = "EYE_CARE"

----------------------------------------------------------------------------
(* Mode buttons, eye-care breaks *)

\* Mutant: the intent stays pending.
NotCleared == UNCHANGED <<pending, late, fate>>
\* pendingAutomationIntent = nil in every mode change of the user.
Cleared ==
    /\ pending' = None /\ late' = FALSE
    /\ IF pending = None THEN UNCHANGED fate ELSE Settle(pending, "cleared")

Press ==
    /\ Act(Quiet)
    /\ UNCHANGED <<today, claimed, worker, intents, ended, crashes>>

Counted == presses < MaxPresses /\ presses' = presses + 1

\* SetModeStudy, SetModeBreak and SetModeOff; the guards look at the mode from
\* before the daily reset.
SetMode(mode) ==
    /\ Press /\ Counted
    /\ mode = "STUDY" => ~IsEye(cur)
    /\ mode = "BREAK" => cur.mode \in {"STUDY", "STANDBY"}
    /\ Begin(mode, "MANUAL") /\ Cleared
    /\ override' = TRUE /\ snoozed' = FALSE
    /\ UNCHANGED back

\* SetModeEyeCareBreak sets no manual override.
EyeCareBreak ==
    /\ Press /\ Counted
    /\ ~IsEye(cur)
    /\ Begin("BREAK", "EYE_CARE") /\ Cleared
    /\ back' = Rolled(today).mode
    /\ snoozed' = FALSE
    /\ UNCHANGED override

\* ResumeEyeCareStudy neither looks at the date nor clears the pending intent.
EyeCareResume ==
    /\ Press
    /\ IsEye(cur)
    /\ cur' = [n |-> cur.n + 1, mode |-> back, origin |-> "MANUAL",
               resumable |-> FALSE, since |-> today]
    /\ override' = TRUE
    /\ UNCHANGED <<date, back, snoozed, pending, late, fate, presses>>

----------------------------------------------------------------------------
(* Applying an intent *)

\* Mutant: every break may be resumed.
AllowedAnyBreak(kind, c) ==
    CASE kind = "START" -> c.mode = "STANDBY"
      [] kind = "PAUSE" -> c.mode = "STUDY"
      [] OTHER -> c.mode = "BREAK"
\* The mode each transition needs.
Allowed(kind, c) ==
    CASE kind = "START" -> c.mode = "STANDBY"
      [] kind = "PAUSE" -> c.mode = "STUDY"
      [] OTHER -> c.mode = "BREAK" /\ c.origin = "AUTOMATION" /\ c.resumable

\* applyAutomationIntentNow, under one lock.  The manual override holds off a
\* START before the daily reset; a refused intent still leaves the reset done.
\* It does not touch the pending intent.
ApplyNow(i, kind) ==
    \/ /\ kind = "START" /\ override
       /\ Settle(i, "refused")
       /\ UNCHANGED <<cur, date, ended, override, snoozed>>
    \/ /\ ~(kind = "START" /\ override)
       /\ ~Allowed(kind, Rolled(today))
       /\ Roll(today) /\ Settle(i, "refused")
       /\ UNCHANGED <<ended, override, snoozed>>
    \/ /\ ~(kind = "START" /\ override)
       /\ Allowed(kind, Rolled(today))
       /\ Begin(IF kind = "PAUSE" THEN "BREAK" ELSE "STUDY", "AUTOMATION")
       /\ ended' = ended \cup {[ses |-> Rolled(today), by |-> i]}
       /\ Settle(i, "applied")
       /\ override' = (override /\ kind # "PAUSE")
       /\ snoozed' = (snoozed /\ kind # "PAUSE")

\* PAUSE and RESUME are applied when nobody answers, a START is dropped.
AppliesOnExpiry(i) == intents[i].kind # "START"

\* Mutant: the intent is read, not taken.
Copy(i, f) == Settle(i, f) /\ UNCHANGED <<pending, late>>
\* The pending intent is taken out of the manager, with fate f.
Take(i, f) == Settle(i, f) /\ pending' = None /\ late' = FALSE

----------------------------------------------------------------------------
(* HTTP requests to accept or reject the pending intent *)

Request ==
    /\ Act(Quiet) /\ pending # None
    /\ UNCHANGED <<today, date, cur, back, override, worker, intents, ended,
                   presses, crashes>>

\* AcceptAutomationIntent: an expired START is dismissed, all others are
\* claimed and applied under the next lock.
Accept ==
    /\ Request
    /\ IF late /\ ~AppliesOnExpiry(pending)
       THEN Take(pending, "dismissed") /\ UNCHANGED claimed
       ELSE Take(pending, "claimed") /\ claimed' = claimed \cup {pending}
    /\ UNCHANGED snoozed

Rejected(i) == Take(i, "rejected")

\* RejectAutomationIntent: too late for a PAUSE, it applies it.
Reject ==
    /\ Request
    /\ \/ /\ late /\ AppliesOnExpiry(pending)
          /\ Take(pending, "claimed") /\ claimed' = claimed \cup {pending}
          /\ UNCHANGED snoozed
       \/ /\ late /\ ~AppliesOnExpiry(pending)
          /\ Take(pending, "dismissed")
          /\ UNCHANGED <<claimed, snoozed>>
       \/ /\ ~late
          /\ Rejected(pending)
          /\ snoozed' = (snoozed \/ intents[pending].kind = "PAUSE")
          /\ UNCHANGED claimed

\* The request applies what it claimed.
RequestApplies(i) ==
    /\ i \in claimed
    /\ claimed' = claimed \ {i}
    /\ ApplyNow(i, intents[i].kind)
    /\ UNCHANGED <<today, back, pending, late, worker, intents, hasty, presses, crashes>>

----------------------------------------------------------------------------
(* The worker *)

Manager == <<date, cur, back, override, snoozed, pending, late>>
Elsewhere == <<today, claimed, presses, crashes>>

\* The ticker fires; the iteration works with this reading of the clock.
WorkerWake ==
    /\ worker.pc = "wake"
    /\ worker' = [worker EXCEPT !.pc = "expire", !.day = today,
                                !.late = IF late THEN pending ELSE None]
    /\ UNCHANGED <<Manager, Elsewhere, intents, fate, ended>>

\* Mutant: an intent nobody answers is only taken if it is to be applied.
ExpiredAtPauseOnly(i) == i # None /\ worker.late = i /\ AppliesOnExpiry(i)
\* The pending intent had expired at the ticker's reading.
ExpiredAt(i) == i # None /\ worker.late = i

\* ProcessExpiredAutomationIntent.
WorkerExpire ==
    /\ worker.pc = "expire"
    /\ \/ /\ ~ExpiredAt(pending)
          /\ Goto("tick") /\ UNCHANGED <<pending, late, fate>>
       \/ /\ ExpiredAt(pending) /\ AppliesOnExpiry(pending)
          /\ Take(pending, "claimed")
          /\ worker' = [worker EXCEPT !.pc = "apply", !.intent = pending]
       \/ /\ ExpiredAt(pending) /\ ~AppliesOnExpiry(pending)
          /\ Take(pending, "dismissed")
          /\ Goto("tick")
    /\ UNCHANGED <<Elsewhere, date, cur, back, override, snoozed, intents, ended>>

WorkerApply ==
    /\ worker.pc = "apply"
    /\ ApplyNow(worker.intent, intents[worker.intent].kind)
    /\ Drop("tick")
    /\ UNCHANGED <<Elsewhere, back, pending, late, intents>>

\* TickWithClassification: the daily reset, and a PAUSE that waits for an
\* answer is cancelled when the user is back.
WorkerTick ==
    /\ worker.pc = "tick"
    /\ \E away \in BOOLEAN :
        /\ worker' = [worker EXCEPT !.pc = "look", !.away = away]
        /\ Roll(worker.day)
        /\ IF ~away /\ pending # None /\ intents[pending].kind = "PAUSE"
           THEN Take(pending, "cancelled")
           ELSE UNCHANGED <<pending, late, fate>>
    /\ UNCHANGED <<Elsewhere, back, override, snoozed, intents, ended>>

\* Mutant: a rejected pause is proposed again at once.
ProposableAgain(kind) ==
    /\ pending = None
    /\ CASE kind = "START" -> cur.mode = "STANDBY" /\ ~override /\ ~worker.away
         [] kind = "PAUSE" -> cur.mode = "STUDY" /\ worker.away
         [] OTHER -> Allowed("RESUME", cur) /\ ~worker.away
\* The guards of Evaluate on the status and on this tick.
Proposable(kind) ==
    /\ pending = None
    /\ CASE kind = "START" -> cur.mode = "STANDBY" /\ ~override /\ ~worker.away
         [] kind = "PAUSE" -> cur.mode = "STUDY" /\ ~snoozed /\ worker.away
         [] OTHER -> Allowed("RESUME", cur) /\ ~worker.away

NextId(i) == fate[i] = "none" /\ \A j \in Ids : j < i => fate[j] # "none"

\* GetStatus and Controller.Evaluate, which has no effect on the manager.
WorkerLook ==
    /\ worker.pc = "look"
    /\ \/ Goto("wake") /\ UNCHANGED <<intents, fate>>
       \/ \E i \in Ids, kind \in Kinds, confirm \in BOOLEAN :
            /\ NextId(i) /\ Proposable(kind)
            /\ kind = "RESUME" => ~confirm
            /\ intents' = [intents EXCEPT ![i] =
                              [kind |-> kind, on |-> cur.n, confirm |-> confirm]]
            /\ Settle(i, "proposed")
            /\ worker' = [worker EXCEPT !.pc = "propose", !.intent = i]
    /\ UNCHANGED <<Elsewhere, Manager, ended>>

\* ApplyAutomationIntent.  Only the worker records intents and it saw none:
\* its answers to another pending intent cannot occur (NothingElsePending).
WorkerPropose ==
    /\ worker.pc = "propose"
    /\ Drop("wake")
    /\ \/ /\ intents[worker.intent].confirm
          /\ pending' = worker.intent /\ late' = FALSE
          /\ Settle(worker.intent, "pending")
          /\ UNCHANGED <<date, cur, override, snoozed, ended>>
       \/ /\ ~intents[worker.intent].confirm
          /\ ApplyNow(worker.intent, intents[worker.intent].kind)
          /\ UNCHANGED <<pending, late>>
    /\ UNCHANGED <<Elsewhere, back, intents>>

WorkerStep ==
    /\ Act(claimed = {})
    /\ WorkerWake \/ WorkerExpire \/ WorkerApply \/ WorkerTick \/ WorkerLook \/ WorkerPropose

----------------------------------------------------------------------------
(* Time, crashes *)

NextDay ==
    /\ today < MaxDay /\ today' = today + 1
    /\ UNCHANGED <<Manager, claimed, worker, intents, fate, ended, hasty, presses,
                   crashes>>

IntentExpires ==
    /\ pending # None /\ ~late /\ late' = TRUE
    /\ UNCHANGED <<today, date, cur, back, override, snoozed, pending, claimed,
                   worker, intents, fate, ended, hasty, presses, crashes>>

OverrideEnds ==
    /\ override /\ override' = FALSE
    /\ UNCHANGED <<today, date, cur, back, snoozed, pending, late, claimed,
                   worker, intents, fate, ended, hasty, presses, crashes>>

SnoozeEnds ==
    /\ snoozed /\ snoozed' = FALSE
    /\ UNCHANGED <<today, date, cur, back, override, pending, late, claimed,
                   worker, intents, fate, ended, hasty, presses, crashes>>

RestWorker == [pc |-> "wake", intent |-> None, late |-> None, day |-> today,
               away |-> FALSE]

\* Mutant: the intent in hand survives.
WorkerAfterCrashHolding == [worker EXCEPT !.pc = "wake"]
\* main starts the loop anew.
WorkerAfterCrash == RestWorker

\* A crash and NewPersistentManager: the mode of today's open session survives,
\* with its origin; intents, override and snooze do not.
Restart ==
    /\ crashes < MaxCrashes /\ crashes' = crashes + 1
    /\ cur' = IF cur.since = today
              THEN [cur EXCEPT !.n = cur.n + 1, !.since = today]
              ELSE [n |-> cur.n + 1, mode |-> "STANDBY", origin |-> "MANUAL",
                    resumable |-> FALSE, since |-> today]
    /\ date' = today
    /\ fate' = [i \in Ids |-> IF fate[i] \in Settled \cup {"none"} THEN fate[i]
                              ELSE "lost"]
    /\ override' = FALSE /\ snoozed' = FALSE
    /\ pending' = None /\ late' = FALSE /\ claimed' = {}
    /\ worker' = WorkerAfterCrash
    /\ UNCHANGED <<today, back, intents, ended, hasty, presses>>

Init ==
    /\ today = 0 /\ date = 0
    /\ cur = [n |-> 1, mode |-> "STANDBY", origin |-> "MANUAL", resumable |-> FALSE,
              since |-> 0]
    /\ back = "STUDY"                    \* what an unset setting is read as
    /\ override = FALSE /\ snoozed = FALSE
    /\ pending = None /\ late = FALSE /\ claimed = {}
    /\ worker = RestWorker
    /\ intents = [i \in Ids |-> NoIntent]
    /\ fate = [i \in Ids |-> "none"]
    /\ ended = {} /\ hasty = FALSE /\ presses = 0 /\ crashes = 0

Next ==
    \/ \E mode \in Modes \ {"STANDBY"} : SetMode(mode)
    \/ EyeCareBreak \/ EyeCareResume
    \/ Accept \/ Reject
    \/ \E i \in Ids : RequestApplies(i)
    \/ WorkerStep
    \/ NextDay \/ IntentExpires \/ OverrideEnds \/ SnoozeEnds
    \/ Restart

Spec == Init /\ [][Next]_vars

\* The worker and the HTTP handlers are running goroutines, the mutex does not
\* starve them, and deadlines pass.  The user need not act.
FairSpec ==
    /\ Spec
    /\ WF_vars(WorkerStep) /\ WF_vars(IntentExpires)
    /\ \A i \in Ids : WF_vars(RequestApplies(i))

----------------------------------------------------------------------------
(* Properties *)

\* Types; the worker has an intent in hand exactly between the calls that
\* claim or propose it and the one that applies it.
TypeOK ==
    /\ today \in Dates /\ date \in Dates
    /\ cur \in Session /\ back \in Modes
    /\ override \in BOOLEAN /\ snoozed \in BOOLEAN /\ late \in BOOLEAN
    /\ pending \in Ids \cup {None}
    /\ claimed \in SUBSET Ids
    /\ worker \in Worker
    /\ worker.pc \in Holding <=> worker.intent # None
    /\ intents \in [Ids -> Intent \cup {NoIntent}]
    /\ fate \in [Ids -> Fates]
    /\ \A e \in ended : e.ses \in Session /\ e.by \in Ids
    /\ hasty \in BOOLEAN /\ presses \in 0 .. MaxPresses /\ crashes \in 0 .. MaxCrashes

\* Each intent changes the mode at most once, whoever races for it: the worker
\* on expiry, an accept, a reject that comes too late.
AppliedOnce ==
    \A e, f \in ended : e.by = f.by => e = f

\* What became of an intent is final: once rejected, cancelled by input,
\* dismissed, cleared by a mode button or lost in a crash, no copy of it that
\* some thread still holds changes the mode.
SettledIsFinal ==
    [][\A i \in Ids : fate[i] \in Settled => fate'[i] = fate[i]]_vars

\* The manager, its worker and the requests together keep what IntentLifecycle
\* promises: every step is one of its steps on one intent, or changes none.
StageOf(f) ==
    CASE f = "none" -> "new"
      [] f \in {"proposed", "pending"} -> "open"
      [] f = "claimed" -> "taken"
      [] OTHER -> "over"
Lifecycle == INSTANCE IntentLifecycle
               WITH asked <- pending, stage <- [i \in Ids |-> StageOf(fate[i])], done <- ended
LifecycleIsKept == Lifecycle!LSpec

\* A break the user began, by button or for the eyes, is never ended by the
\* automation, whatever the proposal saw when it was made.
UsersBreakIsKept ==
    \A e \in ended : e.ses.mode = "BREAK" => e.ses.origin = "AUTOMATION"

\* When the worker comes to record its proposal nothing else is pending; the
\* manager's branches for that case are a second line of defence.
NothingElsePending == worker.pc = "propose" => pending = None

\* A pause or a resumption ends the very session it was proposed for, not one
\* the user began since, as long as nobody acts in the short time between
\* another's claim, or status snapshot, and the application.
EndsItsOwnSession ==
    ~hasty => \A e \in ended : intents[e.by].kind # "START" => e.ses.n = intents[e.by].on

\* After the user rejected a pause no pause begins until the snooze ends, as long as
\* nobody acts between another's claim, or snapshot, and the application.
SnoozeIsKept ==
    [][snoozed /\ ~hasty' => \A e \in ended' \ ended :
                     intents[e.by].kind # "PAUSE"]_vars

\* No intent stays open for ever: the interface stops asking, and the
\* controller, which proposes nothing while one is pending, goes on.
EveryIntentSettles ==
    \A i \in Ids : fate[i] \in {"proposed", "pending", "claimed"} ~> fate[i] \in Settled

=============================================================================
