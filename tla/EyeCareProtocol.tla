-------------------------- MODULE EyeCareProtocol --------------------------
(***************************************************************************)
(* The eye-care break protocol of the Supervisor.                          *)
(*                                                                         *)
(* Three stateful parts take part in a break and none of them owns it:     *)
(*   - eyecare.Service keeps the break's phase in memory (mem) and in the  *)
(*     row eye_care_state of SQLite (disk), under its own mutex;           *)
(*   - state.Manager keeps the canonical user mode (canon), mirrored in    *)
(*     the open row of table sessions (row), under another mutex;          *)
(*   - the request ledger eye_care_requests remembers every action the     *)
(*     user sent, so that a retried or interrupted one is resolved once.   *)
(* An action of the user walks through all three: begin the request, move  *)
(* the mode, commit the state; on failure move the mode back and fail the  *)
(* request.  The worker loop observes the mode and the service at its own  *)
(* pace, and the process may crash between any two storage calls.          *)
(*                                                                         *)
(* Abstractions: clocks are reduced to the local date, so a break timer or *)
(* a snooze may run out at any evaluation; focus counters are reduced to   *)
(* the decision they lead to.  Only storage calls whose error the code     *)
(* handles can fail here; the writes whose errors it ignores are the       *)
(* subject of module SessionLedger.                                        *)
(***************************************************************************)
EXTENDS Naturals, FiniteSets

CONSTANTS
    Req,            \* request ids, numbered in the order of created_at
    MaxSnoozes,     \* cfg.MaxSnoozes
    Overlap,        \* may an Act call overlap an iteration of the worker?
    MaxRev,         \* bound: no new trigger once the revision reaches it
    MaxDay,         \* bound on local dates
    MaxFaults,      \* bound on failing storage calls
    MaxCrashes      \* bound on crashes

ASSUME ReqAssumption == Req \subseteq Nat
ASSUME MaxSnoozesAssumption == MaxSnoozes \in Nat
ASSUME OverlapAssumption == Overlap \in BOOLEAN
ASSUME BoundsAssumption == {MaxRev, MaxDay, MaxFaults, MaxCrashes} \subseteq Nat

VARIABLES
    day,        \* today's local date
    life,       \* "up", or the stage of the start-up after a crash or exit
    mem,        \* eyecare.Service.status
    disk,       \* table eye_care_state
    enabled,    \* the persisted eye_care.config.v1, field enabled
    ledger,     \* table eye_care_requests
    act,        \* the Act call that holds the service mutex, if any
    canon,      \* state.Manager: current session (mode, origin, ...)
    mdate,      \* state.Manager.currentDate
    row,        \* the session LoadOpenSession would find
    ret,        \* setting eye_care.return_mode.v1
    wk,         \* the worker loop: where it is, its tick time, its snapshot
    faults,     \* storage calls that failed so far
    crashes,    \* crashes so far
    before,     \* history: the mode in which the last break was started
    atCrash     \* history: a quiet break of today was interrupted by the crash
                \* ("quiet": no call in progress, no SNOOZE or SKIP left undecided)

svc == <<mem, disk, enabled>>
mgr == <<canon, mdate, row>>
vars == <<day, life, mem, disk, enabled, ledger, act, canon, mdate, row, ret,
          wk, faults, crashes, before, atCrash>>

----------------------------------------------------------------------------
(* Values *)

Phases == {"DISABLED", "FOCUSING", "SHORT_DUE", "SHORT", "LONG_DUE", "LONG",
           "WAITING"}
DuePhases == {"SHORT_DUE", "LONG_DUE"}
Timed == {"SHORT", "LONG"}
BreakPhases == Timed \cup {"WAITING"}

Status == [phase: Phases, rev: Nat, date: Nat, snoozes: Nat, snoozed: BOOLEAN]

Modes == {"STANDBY", "STUDY", "BREAK", "OFF"}
Session == [mode: Modes, origin: {"MANUAL", "AUTOMATION", "EYE_CARE"},
            pause: {"NONE", "INACTIVE", "EYE_SHORT", "EYE_LONG"},
            elig: BOOLEAN, since: Nat]
NoSession == [mode |-> "NONE", origin |-> "NONE", pause |-> "NONE",
              elig |-> FALSE, since |-> 0]

Starts == {"START_SHORT", "START_LONG"}
Ends == {"FINISH", "RESUME"}
Actions == Starts \cup Ends \cup {"SNOOZE", "SKIP"}
Request == [status: {"NEW", "PENDING", "APPLIED", "FAILED"},
            action: Actions, plan: Status]

IsEye(c) == c.mode = "BREAK" /\ c.origin = "EYE_CARE"
Manual(m, d) == [mode |-> m, origin |-> "MANUAL", pause |-> "NONE",
                 elig |-> FALSE, since |-> d]
Automatic(m, p, e, d) == [mode |-> m, origin |-> "AUTOMATION", pause |-> p,
                          elig |-> e, since |-> d]
EyeCare(long, d) == [mode |-> "BREAK", origin |-> "EYE_CARE",
                     pause |-> IF long THEN "EYE_LONG" ELSE "EYE_SHORT",
                     elig |-> FALSE, since |-> d]

FreshStatus == [phase |-> "FOCUSING", rev |-> 0, date |-> 0, snoozes |-> 0,
                snoozed |-> FALSE]
NewRequest == [status |-> "NEW", action |-> "SKIP", plan |-> FreshStatus]
Idle == [pc |-> "idle", req |-> 0, long |-> FALSE]
Asleep == [pc |-> "wake", now |-> 0, eye |-> FALSE]
Pending == {r \in Req : ledger[r].status = "PENDING"}

Fail == faults < MaxFaults /\ faults' = faults + 1
Running == life = "up"
Unlocked == Running /\ act.pc = "idle"     \* the service mutex is free
Budget == mem.rev < MaxRev

----------------------------------------------------------------------------
(* eyecare.Service: how a status evolves by itself *)

RestPhase == IF enabled THEN "FOCUSING" ELSE "DISABLED"
Rested(s) == [s EXCEPT !.phase = RestPhase, !.snoozes = 0, !.snoozed = FALSE]

\* A new local date keeps a break and drops everything else.
RollDate(s, d) ==
    IF s.date = d THEN s
    ELSE [(IF s.phase \in BreakPhases
           THEN [s EXCEPT !.snoozes = 0, !.snoozed = FALSE] ELSE Rested(s))
          EXCEPT !.date = d]

\* Mutant: only a running timer, not a break waiting for the return, is given up.
EvolvedTimedOnly(s, eye, d) ==
    LET r == RollDate(s, d) IN
    IF r.phase \in Timed /\ ~eye THEN {Rested(r)}
    ELSE {r} \cup (IF r.phase \in Timed
                   THEN {[r EXCEPT !.phase = "WAITING"]} ELSE {})

\* What becomes of s when it is evaluated on date d against a mode that is an
\* eye-care break or not: a break without its mode is given up (OFF or any
\* other mode), a timer or a snooze may have ended.
Evolved(s, eye, d) ==
    LET r == RollDate(s, d) IN
    IF r.phase \in BreakPhases /\ ~eye THEN {Rested(r)}
    ELSE {r} \cup (IF r.phase \in Timed
                   THEN {[r EXCEPT !.phase = "WAITING"]} ELSE {})
             \cup (IF r.snoozed /\ r.phase \in DuePhases
                   THEN {[r EXCEPT !.snoozed = FALSE]} ELSE {})

\* What advanceLocked may make of s: any change bumps the revision.
Advanced(s, eye, d) ==
    {IF e = s THEN s ELSE [e EXCEPT !.rev = s.rev + 1] : e \in Evolved(s, eye, d)}

\* Persist first, then replace the memory copy.
Commit(s) == mem' = s /\ disk' = s /\ UNCHANGED faults
KeepOnFault == Fail /\ UNCHANGED <<mem, disk>>
\* persistCandidateLocked(s) or its failure.
TryCommit(s) == Commit(s) \/ (s # mem /\ KeepOnFault)

\* Service.Status and TakePendingNotification, polled by the user interface.
\* Act calls that are refused (replayed id, stale revision, wrong phase) have
\* this effect too.
Poll ==
    /\ Unlocked
    /\ \E s \in Advanced(mem, IsEye(canon), day) : TryCommit(s)
    /\ UNCHANGED <<day, life, enabled, ledger, act, mgr, ret, wk, crashes, before, atCrash>>

\* Mutant: the service may be disabled during a break.
SaveSettingsAnytime(on) ==
    /\ Unlocked /\ Budget
    /\ Commit([mem EXCEPT !.rev = mem.rev + 1, !.snoozed = on /\ mem.snoozed,
                          !.phase = IF ~on THEN "DISABLED"
                                    ELSE IF mem.phase = "DISABLED" THEN "FOCUSING"
                                    ELSE mem.phase])
    /\ enabled' = on
    /\ UNCHANGED <<day, life, ledger, act, mgr, ret, wk, crashes, before, atCrash>>

\* Service.SaveSettings: setting and status are written in one transaction.
SaveSettings(on) ==
    /\ Unlocked /\ Budget
    /\ on \/ mem.phase \notin BreakPhases
    /\ LET s == [mem EXCEPT
                   !.rev = mem.rev + 1,
                   !.snoozed = on /\ mem.snoozed,
                   !.phase = IF ~on THEN "DISABLED"
                             ELSE IF mem.phase = "DISABLED" THEN "FOCUSING"
                             ELSE mem.phase]
       IN \/ Commit(s) /\ enabled' = on
          \/ KeepOnFault /\ UNCHANGED enabled
    /\ UNCHANGED <<day, life, ledger, act, mgr, ret, wk, crashes, before, atCrash>>

----------------------------------------------------------------------------
(* eyecare.Service.Act: one request of the user *)

\* The precondition of each action and the status it plans.
CanAct(a, s, c) ==
    /\ enabled
    /\ a = "START_SHORT" => s.phase = "SHORT_DUE"
    /\ a = "START_LONG" => s.phase = "LONG_DUE"
    /\ a = "SNOOZE" => s.phase \in DuePhases /\ s.snoozes < MaxSnoozes
    /\ a = "SKIP" => s.phase \in DuePhases
    /\ a = "FINISH" => s.phase \in Timed /\ IsEye(c)
    /\ a = "RESUME" => s.phase = "WAITING" /\ IsEye(c)

Planned(a, s) ==
    LET p == CASE a = "START_SHORT" -> [s EXCEPT !.phase = "SHORT", !.snoozed = FALSE]
               [] a = "START_LONG" -> [s EXCEPT !.phase = "LONG", !.snoozed = FALSE]
               [] a = "SNOOZE" -> [s EXCEPT !.snoozes = s.snoozes + 1, !.snoozed = TRUE]
               [] OTHER -> [s EXCEPT !.phase = "FOCUSING", !.snoozes = 0,
                                     !.snoozed = FALSE]
    IN [p EXCEPT !.rev = s.rev + 1]

\* The user always acts on the newest request id; ids are not ordered in the
\* code, the numbering only names the order in which they are created.
NextId(r) == \A q \in Req : q < r => ledger[q].status # "NEW"

\* Mutant: the ledger is not asked whether the request id was used before.
ActBeginTwice(r, a) ==
    /\ Unlocked /\ Budget
    /\ Overlap \/ wk.pc = "wake"
    /\ mem \in Advanced(mem, IsEye(canon), day)
    /\ CanAct(a, mem, canon)
    /\ ledger' = [ledger EXCEPT ![r] =
                    [status |-> "PENDING", action |-> a, plan |-> Planned(a, mem)]]
    /\ act' = [pc |-> IF a \in Starts \cup Ends THEN "mode" ELSE "complete",
               req |-> r, long |-> FALSE]
    /\ UNCHANGED <<day, life, svc, mgr, ret, wk, faults, crashes, before, atCrash>>

\* Ledger lookup, evaluation (here one that changes nothing: a change of the
\* revision makes the request stale), checks, BeginEyeCareRequest.
ActBegin(r, a) ==
    /\ Unlocked /\ Budget
    /\ Overlap \/ wk.pc = "wake"
    /\ ledger[r].status = "NEW" /\ NextId(r)
    /\ mem \in Advanced(mem, IsEye(canon), day)
    /\ CanAct(a, mem, canon)
    /\ ledger' = [ledger EXCEPT ![r] =
                    [status |-> "PENDING", action |-> a, plan |-> Planned(a, mem)]]
    /\ act' = [pc |-> IF a \in Starts \cup Ends THEN "mode" ELSE "complete",
               req |-> r,
               long |-> IF a \in Ends THEN canon.pause = "EYE_LONG"
                                      ELSE a = "START_LONG"]
    /\ UNCHANGED <<day, life, svc, mgr, ret, wk, faults, crashes, before, atCrash>>

Goto(pc) == act' = [act EXCEPT !.pc = pc]
CurrentAction == ledger[act.req].action

----------------------------------------------------------------------------
(* state.Manager: the canonical mode *)

\* checkMidnightResetLocked with clock reading d.
AfterMidnight(d) == IF mdate = d THEN canon ELSE Manual("STANDBY", d)
\* A session replaces the current one: the manager's memory and its open row.
Switch(c, d) == canon' = c /\ row' = c /\ mdate' = d

\* SetModeEyeCareBreak: remember the mode to return to, then close the session
\* and open the break in one transaction.
StartBreak ==
    LET old == AfterMidnight(day) IN
    \/ /\ ~IsEye(canon)
       /\ Switch(EyeCare(act.long, day), day)
       /\ ret' = old.mode /\ before' = old.mode
       /\ Goto("complete") /\ UNCHANGED faults
    \/ /\ ~IsEye(canon)                     \* either of its two writes fails
       /\ Fail /\ Switch(old, day)
       /\ ret' \in {ret, old.mode}
       /\ Goto("fail") /\ UNCHANGED before
    \/ /\ IsEye(canon)
       /\ Goto("fail") /\ UNCHANGED <<mgr, ret, before, faults>>

\* Mutants: every break ends in STUDY; a refused mode change forgets its request.
ReturnModeStudy == "STUDY"
\* ResumeEyeCareStudy: back to the remembered mode.  It does not look at the
\* date.
ReturnMode == IF ret = "unset" THEN "STUDY" ELSE ret
EndBreakForgotten(done, failed) ==
    \/ /\ IsEye(canon)
       /\ Switch(Manual(ReturnMode, day), mdate)
       /\ Goto(done) /\ UNCHANGED faults
    \/ /\ ~IsEye(canon)
       /\ act' = Idle /\ UNCHANGED <<mgr, faults>>
EndBreak(done, failed) ==
    \/ /\ IsEye(canon)
       /\ Switch(Manual(ReturnMode, day), mdate)
       /\ Goto(done) /\ UNCHANGED faults
    \/ /\ IsEye(canon)
       /\ Fail /\ act' = failed /\ UNCHANGED mgr
    \/ /\ ~IsEye(canon)
       /\ act' = failed /\ UNCHANGED <<mgr, faults>>

ActMode ==
    /\ Running /\ act.pc = "mode"
    /\ \/ CurrentAction \in Starts /\ StartBreak
       \/ /\ CurrentAction \in Ends
          /\ EndBreak("complete", [act EXCEPT !.pc = "fail"])
          /\ UNCHANGED <<ret, before>>
    /\ UNCHANGED <<day, life, svc, ledger, wk, crashes, atCrash>>

\* CompleteEyeCareRequest commits state and ledger together.
ActComplete ==
    /\ Running /\ act.pc = "complete"
    /\ \/ /\ Commit(ledger[act.req].plan)
          /\ ledger' = [ledger EXCEPT ![act.req].status = "APPLIED"]
          /\ act' = Idle
       \/ /\ KeepOnFault
          /\ Goto(IF CurrentAction \in Starts \cup Ends THEN "undo" ELSE "fail")
          /\ UNCHANGED ledger
    /\ UNCHANGED <<day, life, enabled, mgr, ret, wk, crashes, before, atCrash>>

\* compensateModeLocked; if it fails too the request stays PENDING.
RestoreBreak ==
    \/ /\ ~IsEye(canon)
       /\ Switch(EyeCare(act.long, day), day)
       /\ Goto("fail") /\ UNCHANGED faults
    \/ /\ ~IsEye(canon)
       /\ Fail /\ Switch(AfterMidnight(day), day) /\ act' = Idle
    \/ /\ IsEye(canon)
       /\ act' = Idle /\ UNCHANGED <<mgr, faults>>

ActUndo ==
    /\ Running /\ act.pc = "undo"
    /\ \/ CurrentAction \in Starts /\ EndBreak("fail", Idle)
       \/ CurrentAction \in Ends /\ RestoreBreak
    /\ UNCHANGED <<day, life, svc, ledger, ret, wk, crashes, before, atCrash>>

\* failRequestLocked; if that write fails the request stays PENDING.
ActFail ==
    /\ Running /\ act.pc = "fail"
    /\ \/ /\ ledger' = [ledger EXCEPT ![act.req].status = "FAILED"]
          /\ UNCHANGED faults
       \/ Fail /\ UNCHANGED ledger
    /\ act' = Idle
    /\ UNCHANGED <<day, life, svc, mgr, ret, wk, crashes, before, atCrash>>

\* The mode buttons of the user interface; they bypass the service.
SetModeStudy ==
    /\ Running /\ ~IsEye(canon)
    /\ Switch(Manual("STUDY", day), day)
    /\ UNCHANGED <<day, life, svc, ledger, act, ret, wk, faults, crashes, before, atCrash>>

SetModeBreak ==
    /\ Running /\ canon.mode \in {"STUDY", "STANDBY"}
    /\ Switch(Manual("BREAK", day), day)
    /\ UNCHANGED <<day, life, svc, ledger, act, ret, wk, faults, crashes, before, atCrash>>

\* Leaving an eye-care break is transactional and may fail; the other
\* transitions ignore the outcome of their writes.
SetModeOff ==
    /\ Running
    /\ \/ Switch(Manual("OFF", day), day) /\ UNCHANGED faults
       \/ AfterMidnight(day).origin = "EYE_CARE" /\ Fail /\ UNCHANGED mgr
    /\ UNCHANGED <<day, life, svc, ledger, act, ret, wk, crashes, before, atCrash>>

\* Mutant: automatic resume does not ask who paused.
AutomationEndsAnyBreak ==
    /\ Running
    /\ AfterMidnight(day).mode = "BREAK"
    /\ Switch(Automatic("STUDY", "NONE", FALSE, day), day)
    /\ UNCHANGED <<day, life, svc, ledger, act, ret, wk, faults, crashes, before, atCrash>>

\* applyAutomationIntentNow: when an intent is applied is the subject of
\* module AutomationIntents; here it may be at any time.
Automation ==
    /\ Running
    /\ LET c == AfterMidnight(day) IN
       \/ c.mode = "STANDBY" /\ Switch(Automatic("STUDY", "NONE", FALSE, day), day)
       \/ c.mode = "STUDY" /\ Switch(Automatic("BREAK", "INACTIVE", TRUE, day), day)
       \/ /\ c.mode = "BREAK" /\ c.origin = "AUTOMATION" /\ c.elig
          /\ Switch(Automatic("STUDY", "NONE", FALSE, day), day)
       \/ Switch(c, day)                       \* refused after the date check
    /\ UNCHANGED <<day, life, svc, ledger, act, ret, wk, faults, crashes, before, atCrash>>

----------------------------------------------------------------------------
(* The worker loop of cmd/supervisor *)

\* The ticker fires; the iteration works with this time throughout.
WorkerWake ==
    /\ Running /\ wk.pc = "wake"
    /\ Overlap \/ act.pc = "idle"
    /\ wk' = [wk EXCEPT !.pc = "tick", !.now = day]
    /\ UNCHANGED <<day, life, svc, ledger, act, mgr, ret, faults, crashes, before, atCrash>>

\* TickWithClassification: date check, then the open session is saved.
WorkerTick ==
    /\ Running /\ wk.pc = "tick"
    /\ Switch(AfterMidnight(wk.now), wk.now)
    /\ wk' = [wk EXCEPT !.pc = "snapshot"]
    /\ UNCHANGED <<day, life, svc, ledger, act, ret, faults, crashes, before, atCrash>>

\* eyeCareStatus := stateMgr.GetStatus()
WorkerSnapshot ==
    /\ Running /\ wk.pc = "snapshot"
    /\ wk' = [wk EXCEPT !.pc = "observe", !.eye = IsEye(canon)]
    /\ UNCHANGED <<day, life, svc, ledger, act, mgr, ret, faults, crashes, before, atCrash>>

\* eyeCareService.Observe(outcome.Now, eyeCareStatus)
WorkerObserve ==
    /\ Unlocked /\ wk.pc = "observe"
    /\ \E s \in Advanced(mem, wk.eye, wk.now) : TryCommit(s)
    /\ wk' = [wk EXCEPT !.pc = "record"]
    /\ UNCHANGED <<day, life, enabled, ledger, act, mgr, ret, crashes, before, atCrash>>

\* What the focus counters of RecordComputerUse may lead to: nothing, an
\* interruption by five minutes without input, a due short or long break.
Recorded(s) ==
    LET due(p) == [s EXCEPT !.phase = p, !.snoozes = 0, !.snoozed = FALSE,
                            !.rev = s.rev + 1]
    IN {s} \cup
       (IF ~enabled \/ s.phase \in BreakPhases THEN {}
        ELSE {due("FOCUSING")}
             \cup (IF s.phase # "LONG_DUE" THEN {due("LONG_DUE")} ELSE {})
             \cup (IF s.phase = "FOCUSING" THEN {due("SHORT_DUE")} ELSE {}))

\* eyeCareService.RecordComputerUse(outcome, eyeCareStatus): it evaluates the
\* status first and stops there if that cannot be persisted.
WorkerRecord ==
    /\ Unlocked /\ wk.pc = "record"
    /\ \E s \in Advanced(mem, wk.eye, wk.now) :
         \/ s # mem /\ KeepOnFault
         \/ Commit(s)
         \/ Budget /\ \E t \in Recorded(s) :
              \/ Commit(t)
              \/ t # s /\ Fail /\ mem' = s /\ disk' = s
    /\ wk' = Asleep
    /\ UNCHANGED <<day, life, enabled, ledger, act, mgr, ret, crashes, before, atCrash>>

Midnight ==
    /\ day < MaxDay
    /\ day' = day + 1
    /\ UNCHANGED <<life, svc, ledger, act, mgr, ret, wk, faults, crashes, before, atCrash>>

----------------------------------------------------------------------------
(* Exit, crash and start-up *)

Resting == mem.phase \in BreakPhases /\ IsEye(canon)

Stopped == life' = "manager" /\ act' = Idle /\ wk' = Asleep

\* A request whose commit and whose failure both could not be written stays
\* PENDING; a SNOOZE or SKIP is replayed at the next start whatever came since.
StaleRefusal == \E r \in Pending : ledger[r].action \notin Starts \cup Ends

\* The process dies anywhere, also during start-up.
Crash ==
    /\ crashes < MaxCrashes /\ crashes' = crashes + 1
    /\ Stopped
    /\ atCrash' = (Unlocked /\ Resting /\ ~StaleRefusal)
    /\ UNCHANGED <<day, svc, ledger, mgr, ret, faults, before>>

\* Orderly exit between two actions: Manager.Close ends the session.
Exit ==
    /\ Unlocked /\ Budget
    /\ Stopped /\ row' = NoSession
    /\ atCrash' = FALSE
    /\ UNCHANGED <<day, svc, ledger, canon, mdate, ret, faults, crashes, before>>

\* Mutants: a missing session is taken for one; the origin is not recovered.
BootManagerNoSession ==
    /\ life = "manager"
    /\ canon' = IF row.since = day THEN row ELSE Manual("STANDBY", day)
    /\ mdate' = day /\ row' = NoSession
    /\ life' = "session"
    /\ atCrash' = (atCrash /\ canon.since = day)
    /\ UNCHANGED <<day, svc, ledger, act, ret, wk, faults, crashes, before>>
BootManagerNoOrigin ==
    /\ life = "manager"
    /\ canon' = IF row # NoSession /\ row.since = day THEN Manual(row.mode, row.since)
                ELSE Manual("STANDBY", day)
    /\ mdate' = day /\ row' = NoSession
    /\ life' = "session"
    /\ atCrash' = (atCrash /\ canon.since = day)
    /\ UNCHANGED <<day, svc, ledger, act, ret, wk, faults, crashes, before>>

\* NewPersistentManager reads the interrupted session and closes it ...
BootManager ==
    /\ life = "manager"
    /\ canon' = IF row # NoSession /\ row.since = day THEN row
                ELSE Manual("STANDBY", day)
    /\ mdate' = day /\ row' = NoSession
    /\ life' = "session"
    /\ atCrash' = (atCrash /\ canon.since = day)
    /\ UNCHANGED <<day, svc, ledger, act, ret, wk, faults, crashes, before>>

\* ... and opens its successor; eyecare.New then loads the service's state.
BootSession ==
    /\ life = "session"
    /\ row' = canon
    /\ mem' = disk
    /\ life' = "reconcile"
    /\ UNCHANGED <<day, disk, enabled, ledger, act, canon, mdate, ret, wk, faults,
                   crashes, before, atCrash>>

\* reconcilePendingRequests, one request per step in the order of creation.
Refused(a) == \/ a \in Starts /\ ~IsEye(canon)
              \/ a \in Ends /\ IsEye(canon)
Reconcile(r) ==
    /\ life = "reconcile"
    /\ r \in Pending /\ \A q \in Pending : r <= q
    /\ \/ /\ Refused(ledger[r].action)
          /\ ledger' = [ledger EXCEPT ![r].status = "FAILED"]
          /\ UNCHANGED <<mem, disk, faults, life>>
       \/ /\ ~Refused(ledger[r].action)
          /\ ledger' = [ledger EXCEPT ![r].status = "APPLIED"]
          /\ Commit(ledger[r].plan) /\ UNCHANGED life
       \/ KeepOnFault /\ life' = "advance" /\ UNCHANGED ledger
    /\ UNCHANGED <<day, enabled, act, mgr, ret, wk, crashes, before, atCrash>>

\* Mutant: the service starts before every open request was resolved.
ReconciledEarly ==
    /\ life = "reconcile"
    /\ life' = "advance"
    /\ UNCHANGED <<day, svc, ledger, act, mgr, ret, wk, faults, crashes, before, atCrash>>
Reconciled ==
    /\ life = "reconcile" /\ Pending = {}
    /\ life' = "advance"
    /\ UNCHANGED <<day, svc, ledger, act, mgr, ret, wk, faults, crashes, before, atCrash>>

\* The rest of eyecare.New: one evaluation ...
BootAdvance ==
    /\ life = "advance"
    /\ \E s \in Advanced(mem, IsEye(canon), day) : TryCommit(s)
    /\ life' = "restore"
    /\ UNCHANGED <<day, enabled, ledger, act, mgr, ret, wk, crashes, before, atCrash>>

\* ... and a break that survived is stored once more, as an event
\* RESTORED_AFTER_RESTART.  Failures do not keep the program from coming up.
BootRestore ==
    /\ life = "restore"
    /\ IF mem.phase \in BreakPhases
       THEN TryCommit([mem EXCEPT !.rev = mem.rev + 1])
       ELSE Commit(mem)
    /\ life' = "up"
    /\ UNCHANGED <<day, enabled, ledger, act, mgr, ret, wk, crashes, before, atCrash>>

----------------------------------------------------------------------------
(* Specification *)

Init ==
    /\ day = 0 /\ life = "up"
    /\ enabled \in BOOLEAN
    /\ mem = [FreshStatus EXCEPT !.phase = IF enabled THEN "FOCUSING" ELSE "DISABLED"]
    /\ disk = mem
    /\ ledger = [r \in Req |-> NewRequest]
    /\ act = Idle /\ wk = Asleep
    /\ canon = Manual("STANDBY", 0) /\ mdate = 0 /\ row = canon
    /\ ret = "unset" /\ before = "STUDY"
    /\ faults = 0 /\ crashes = 0
    /\ atCrash = FALSE

ActStep == ActMode \/ ActComplete \/ ActUndo \/ ActFail
Worker == WorkerWake \/ WorkerTick \/ WorkerSnapshot \/ WorkerObserve \/ WorkerRecord
Boot == \/ BootManager \/ BootSession \/ \E r \in Req : Reconcile(r)
        \/ Reconciled \/ BootAdvance \/ BootRestore
User == \/ Poll \/ \E on \in BOOLEAN : SaveSettings(on)
        \/ \E r \in Req, a \in Actions : ActBegin(r, a)
        \/ SetModeStudy \/ SetModeBreak \/ SetModeOff

Next == User \/ ActStep \/ Automation \/ Worker \/ Midnight \/ Crash \/ Exit \/ Boot

Spec == Init /\ [][Next]_vars

\* The program's own threads keep running: a request being handled, the
\* worker loop, the start-up.  Users, faults and crashes owe nothing.
FairSpec == Spec /\ WF_vars(ActStep) /\ WF_vars(Worker) /\ WF_vars(Boot)

----------------------------------------------------------------------------
(* Properties *)

TypeOK ==
    /\ day \in Nat /\ mdate \in Nat /\ faults \in Nat /\ crashes \in Nat
    /\ life \in {"up", "manager", "session", "reconcile", "advance", "restore"}
    /\ mem \in Status /\ disk \in Status /\ enabled \in BOOLEAN
    /\ ledger \in [Req -> Request]
    /\ act \in [pc: {"idle", "mode", "complete", "undo", "fail"},
                req: Req \cup {0}, long: BOOLEAN]
    /\ act.pc # "idle" => act.req \in Req
    /\ canon \in Session /\ row \in Session \cup {NoSession}
    /\ ret \in Modes \cup {"unset"} /\ before \in Modes
    /\ wk \in [pc: {"wake", "tick", "snapshot", "observe", "record"},
               now: Nat, eye: BOOLEAN]
    /\ atCrash \in BOOLEAN

\* An eye-care mode always has its break: when no action is in progress and
\* nothing failed, a canonical EYE_CARE mode is accompanied by a break phase,
\* so that its buttons work and its timer can end it.
NoOrphanBreak ==
    Unlocked /\ faults = 0 /\ IsEye(canon) => mem.phase \in BreakPhases

\* A request that was begun is decided before the next one can begin, also
\* across a crash, as long as the storage works.
NothingForgotten == Unlocked /\ faults = 0 => Pending = {}

\* Decided requests stay decided, with the same planned state (the reply that
\* a retried request gets is replayed from the ledger).
DecidedIsFinal ==
    [][\A r \in Req : ledger[r].status \in {"APPLIED", "FAILED"}
                        => ledger'[r] = ledger[r]]_vars

\* The action steps that end a break because the user asked for it.
UserEndsBreak ==
    \/ act.pc \in {"mode", "complete"} /\ CurrentAction \in Ends
    \/ act.pc = "undo" /\ CurrentAction \in Starts
    \/ canon'.mode = "OFF"

\* docs/DEVELOPMENT_WORKFLOW.md:63: a running break, or one that waits for the
\* return, ends through the user's click (finish, continue, OFF), by the new
\* day or by an orderly exit, and by nothing else: not by automation, not by
\* the worker, not by a restart on the same day.
OnlyTheUserEndsABreak ==
    [][Resting /\ Running /\ life' = "up" => Resting' \/ UserEndsBreak \/ mdate' # mdate]_vars

\* A crash during a quiet break, once the program is up again on the date
\* the break began, finds the user in the break, whatever failed before and
\* whatever fails during the start.  (A refusal of an earlier prompt that storage
\* failures left undecided is replayed over the break: see StaleRefusal.)
CrashKeepsBreak ==
    [][life = "restore" /\ atCrash => Resting']_vars

\* docs/DEVELOPMENT_WORKFLOW.md:66: a break that ends by the user's click
\* returns to the mode it was started from.
ReturnsToModeBefore ==
    [][IsEye(canon) /\ ~IsEye(canon') /\ act.pc \in {"mode", "undo"} /\ act' # act
       /\ life' = "up" => canon'.mode = before]_vars

\* A break whose mode was taken away is noticed by the worker.
AbandonedBreakIsNoticed ==
    (Running /\ mem.phase \in BreakPhases /\ ~IsEye(canon))
      ~> (~Running \/ mem.phase \notin BreakPhases \/ IsEye(canon))

\* Every request is decided unless storage fails.
RequestsAreDecided ==
    \A r \in Req : ledger[r].status = "PENDING"
                     ~> (ledger[r].status # "PENDING" \/ faults > 0)

=============================================================================
