--------------------------- MODULE SessionLedger ---------------------------
(***************************************************************************)
(* The session ledger of state.Manager.                                    *)
(*                                                                         *)
(* The manager owns the user's mode.  It keeps the current session and the *)
(* day's study counter in memory and mirrors them in three tables:         *)
(*   sessions            one row per stretch of one mode,                  *)
(*   daily_state         the totals of every local date,                   *)
(*   evidence_revisions  a counter per date, by which a daily review finds *)
(*                       out that it is out of date.                       *)
(* An operation computes the new memory under the manager's mutex and then *)
(* makes its storage calls one by one; most ignore their errors.  Here an  *)
(* operation sets the memory and queues its calls in todo; the mutex is    *)
(* free when todo is empty.  A crash drops what is left of todo, a failing *)
(* call is skipped.                                                        *)
(*                                                                         *)
(* Abstractions: a clock reading is a local date; a tick credits one unit  *)
(* of time or none; of the five daily totals only the study time is kept   *)
(* (the others are handled alike); task names and reasons of automatic     *)
(* pauses are left out.                                                    *)
(***************************************************************************)
EXTENDS Naturals, Sequences, FiniteSets, FiniteSetsExt

CONSTANTS
    MaxSess,        \* bound on session ids; operations stop before it
    MaxSecs,        \* bound on the time credited to one session
    MaxDay,         \* bound on local dates
    MaxFaults,      \* bound on failing storage calls
    MaxCrashes,     \* bound on crashes
    LateTicks,      \* may midnight pass between a ticker event and its Tick?
    LateCalls       \* do worker and API still run after Manager.Close?

ASSUME SessAssumption == MaxSess \in Nat \ {0, 1}     \* Init has two
ASSUME BoundsAssumption == {MaxSecs, MaxDay, MaxFaults, MaxCrashes} \subseteq Nat
ASSUME FlagsAssumption == {LateTicks, LateCalls} \subseteq BOOLEAN

VARIABLES
    day,        \* today's local date
    life,       \* "up", "closing" after Manager.Close, "down"
    cur,        \* current session: id, mode, origin, date of start, seconds
    mdate,      \* Manager.currentDate
    study,      \* Manager.studySeconds
    next,       \* the next session id
    todo,       \* storage calls the running operation still has to make
    tab,        \* table sessions
    daily,      \* table daily_state: study seconds by date
    rev,        \* table evidence_revisions
    tick,       \* ticker event being handled by the worker: its date, or none
    settled,    \* history: sessions with smaller ids were completed
    faults, crashes

vars == <<day, life, cur, mdate, study, next, todo, tab, daily, rev, tick,
          settled, faults, crashes>>

Dates == 0 .. MaxDay
Ids == 1 .. MaxSess
Modes == {"STANDBY", "STUDY", "BREAK", "OFF"}
Origins == {"MANUAL", "AUTOMATION", "EYE_CARE"}
Session == [id: Ids, mode: Modes, origin: Origins, date: Dates, secs: 0 .. MaxSecs]
Ends == {"USER_SWITCH", "AUTOMATION", "EYE_CARE", "DAILY_RESET", "SHUTDOWN",
         "RESTART_RECOVERY"}
NoRow == [ses |-> [id |-> 0, mode |-> "NONE", origin |-> "NONE", date |-> 0, secs |-> 0],
          end |-> "NONE"]
Row == [ses: Session, end: Ends \cup {"OPEN"}] \cup {NoRow}
NoTick == MaxDay + 1

New(id, mode, origin, d) ==
    [id |-> id, mode |-> mode, origin |-> origin, date |-> d, secs |-> 0]
IsEye(c) == c.mode = "BREAK" /\ c.origin = "EYE_CARE"

----------------------------------------------------------------------------
(* Storage calls *)

Save(c) == [call |-> "save", row |-> [ses |-> c, end |-> "OPEN"]]
SaveEnded(c, why) == [call |-> "end", row |-> [ses |-> c, end |-> why]]
Bump(d) == [call |-> "bump", date |-> d]
UpdateDaily(d, s) == [call |-> "daily", date |-> d, secs |-> s]
CloseOpenSessions == [call |-> "recover"]
Transition(c, why, n, bump) ==
    [call |-> "move", row |-> [ses |-> c, end |-> why], to |-> n, bump |-> bump]

\* Mutant: a finished study session is not announced to the reviews.
ClosingSilently(c, why) == <<SaveEnded(c, why)>>
\* closeCurrentSessionLocked: the revision moves only if the row was saved.
Closing(c, why) ==
    <<SaveEnded(c, why)>> \o (IF c.mode = "STUDY" THEN <<Bump(c.date)>> ELSE <<>>)

OpenRows == {i \in Ids : tab[i].end = "OPEN"}

\* The call succeeds.
Done(w) ==
    /\ tab' = CASE w.call \in {"save", "end"} -> [tab EXCEPT ![w.row.ses.id] = w.row]
                [] w.call = "move" -> [tab EXCEPT ![w.row.ses.id] = w.row,
                                                  ![w.to.id] = [ses |-> w.to, end |-> "OPEN"]]
                [] w.call = "recover" ->
                     [i \in Ids |-> IF i \in OpenRows
                                    THEN [tab[i] EXCEPT !.end = "RESTART_RECOVERY"]
                                    ELSE tab[i]]
                [] OTHER -> tab
    /\ rev' = CASE w.call = "bump" -> [rev EXCEPT ![w.date] = @ + 1]
                [] w.call = "move" /\ w.bump /\ w.row.ses.mode = "STUDY" ->
                     [rev EXCEPT ![w.row.ses.date] = @ + 1]
                [] OTHER -> rev
    /\ daily' = IF w.call = "daily" THEN [daily EXCEPT ![w.date] = w.secs] ELSE daily
    /\ cur' = IF w.call = "move" THEN w.to ELSE cur
    /\ todo' = Tail(todo)
    /\ UNCHANGED faults

\* It fails: the error is ignored, but for the revision of a session that
\* could not be closed, which is not moved, and a transition, which leaves the
\* memory as it was.
Failed(w) ==
    /\ faults < MaxFaults /\ faults' = faults + 1
    /\ LET rest == Tail(todo)
           skips == w.call = "end" /\ rest # <<>> /\ Head(rest).call = "bump"
       IN todo' = IF skips THEN Tail(rest) ELSE rest
    /\ UNCHANGED <<tab, rev, daily, cur>>

\* The history: a switch completes the sessions before the current one, an
\* orderly shutdown the current one too.
Write ==
    /\ todo # <<>>
    /\ LET w == Head(todo)
           shut == w.call = "end" /\ w.row.end = "SHUTDOWN"
       IN \/ /\ Done(w)
             /\ settled' = Max({settled, IF shut THEN w.row.ses.id + 1
                                        ELSE IF todo' = <<>> THEN cur'.id ELSE 1})
          \/ /\ Failed(w)
             /\ settled' = Max({settled, IF todo' = <<>> THEN cur.id ELSE 1})
    /\ UNCHANGED <<day, life, mdate, study, next, tick, crashes>>

----------------------------------------------------------------------------
(* Operations of the manager *)

\* An operation can begin: the mutex is free.  The last ids are kept for
\* midnights and restarts.
Serving == life = "up" \/ (life = "closing" /\ LateCalls)
Free == Serving /\ todo = <<>>
Spare(n) == next + n + 2 * MaxDay <= MaxSess

Unrolled == [cur |-> cur, calls |-> <<>>, next |-> next, study |-> study, date |-> mdate]
\* Mutant: the operation does not check the date.
RolledNever(d) == Unrolled
\* checkMidnightResetLocked: a different date, later or earlier, closes the
\* session and starts the day anew in STANDBY.
Rolled(d) ==
    IF mdate = d THEN Unrolled
    ELSE LET n == New(next, "STANDBY", "MANUAL", d)
         IN [cur |-> n, calls |-> Closing(cur, "DAILY_RESET") \o <<Save(n)>>,
             next |-> next + 1, study |-> 0, date |-> d]

\* The common part of SetModeStudy, SetModeBreak, SetModeOff and
\* applyAutomationIntentNow: close the session, open the next one.
Replace(mode, origin, why) ==
    LET r == Rolled(day)
        n == New(r.next, mode, origin, day)
    IN /\ Free /\ Spare(2)
       /\ cur' = n /\ mdate' = r.date /\ study' = r.study /\ next' = r.next + 1
       /\ todo' = r.calls \o Closing(r.cur, why) \o <<Save(n)>>
       /\ UNCHANGED <<day, life, tab, daily, rev, tick, settled, faults, crashes>>

\* The transactional part: memory follows once the transition is stored.
Move(mode, origin, why, r, bump) ==
    /\ Free /\ Spare(2)
    /\ cur' = r.cur /\ mdate' = r.date /\ study' = r.study /\ next' = r.next + 1
    /\ todo' = r.calls \o <<Transition(r.cur, why, New(r.next, mode, origin, day), bump)>>
    /\ UNCHANGED <<day, life, tab, daily, rev, tick, settled, crashes>>

SetModeStudy == ~IsEye(cur) /\ Replace("STUDY", "MANUAL", "USER_SWITCH")
SetModeBreak == cur.mode \in {"STUDY", "STANDBY"} /\ Replace("BREAK", "MANUAL", "USER_SWITCH")
SetModeOff ==
    \/ ~IsEye(Rolled(day).cur) /\ Replace("OFF", "MANUAL", "USER_SWITCH")
    \/ IsEye(Rolled(day).cur) /\ Move("OFF", "MANUAL", "USER_SWITCH", Rolled(day), FALSE)
       /\ UNCHANGED faults

Automation ==
    LET c == Rolled(day).cur IN
    \/ c.mode = "STANDBY" /\ Replace("STUDY", "AUTOMATION", "AUTOMATION")
    \/ c.mode = "STUDY" /\ Replace("BREAK", "AUTOMATION", "AUTOMATION")
    \/ /\ c.mode = "BREAK" /\ c.origin = "AUTOMATION"
       /\ Replace("STUDY", "AUTOMATION", "AUTOMATION")

\* SetModeEyeCareBreak; RestoreEyeCareBreak, its compensating twin, follows a
\* failed write of the controller's and does not count the study session it
\* closes.
EyeCareBreak(restore) ==
    /\ ~IsEye(cur)
    /\ IF restore THEN faults < MaxFaults /\ faults' = faults + 1 ELSE UNCHANGED faults
    /\ Move("BREAK", "EYE_CARE", "EYE_CARE", Rolled(day), ~restore)

\* ResumeEyeCareStudy, to any remembered mode.  It does not check the date.
ResumeEyeCare(mode) ==
    /\ IsEye(cur)
    /\ Move(mode, "MANUAL", "EYE_CARE", Unrolled, FALSE)
    /\ UNCHANGED faults

----------------------------------------------------------------------------
(* The worker loop *)

TickerFires ==
    /\ Serving /\ tick = NoTick
    /\ tick' = day
    /\ UNCHANGED <<day, life, cur, mdate, study, next, todo, tab, daily, rev,
                   settled, faults, crashes>>

\* TickWithClassification at the event's time: one unit of time or none (no
\* input, locked, a gap), then daily total and session are saved.
Tick(credit) ==
    /\ Free /\ tick # NoTick
    /\ LET r == Rolled(tick)
           c == [r.cur EXCEPT !.secs = @ + credit]
           s == r.study + (IF r.cur.mode = "STUDY" THEN credit ELSE 0)
       IN /\ c.secs <= MaxSecs /\ r.next <= MaxSess + 1
          /\ cur' = c /\ study' = s /\ next' = r.next /\ mdate' = r.date
          /\ todo' = r.calls \o <<UpdateDaily(r.date, s), Save(c)>>
    /\ tick' = NoTick
    /\ UNCHANGED <<day, life, tab, daily, rev, settled, faults, crashes>>

Midnight ==
    /\ day < MaxDay /\ (LateTicks \/ tick = NoTick)
    /\ day' = day + 1
    /\ UNCHANGED <<life, cur, mdate, study, next, todo, tab, daily, rev, tick,
                   settled, faults, crashes>>

----------------------------------------------------------------------------
(* Shutdown, crash and start-up *)

\* Manager.Close; the current session stays in memory.
Close ==
    /\ life = "up" /\ todo = <<>> /\ Spare(1)
    /\ life' = "closing"
    /\ todo' = Closing(cur, "SHUTDOWN")
    /\ UNCHANGED <<day, cur, mdate, study, next, tab, daily, rev, tick, settled,
                   faults, crashes>>

Exit ==
    /\ life = "closing" /\ todo = <<>>
    /\ life' = "down" /\ tick' = NoTick
    /\ UNCHANGED <<day, cur, mdate, study, next, todo, tab, daily, rev, settled,
                   faults, crashes>>

Crash ==
    /\ life # "down" /\ Spare(1)
    /\ crashes < MaxCrashes /\ crashes' = crashes + 1
    /\ life' = "down" /\ todo' = <<>> /\ tick' = NoTick
    /\ UNCHANGED <<day, cur, mdate, study, next, tab, daily, rev, settled, faults>>

\* Mutants: the successor inherits the duration of the interrupted session; the
\* last session is recovered whether open or not.
RecoveredSeconds ==
    LET newest == {i \in OpenRows : \A j \in OpenRows :
                     tab[j].ses.date < tab[i].ses.date
                       \/ (tab[j].ses.date = tab[i].ses.date /\ j <= i)}
        found == {i \in newest : tab[i].ses.date = day}
    IN IF found = {} THEN New(next, "STANDBY", "MANUAL", day)
       ELSE LET i == CHOOSE i \in found : TRUE
            IN [New(next, tab[i].ses.mode, tab[i].ses.origin, day)
                  EXCEPT !.secs = tab[i].ses.secs]
RecoveredLast ==
    LET rows == {i \in Ids : tab[i] # NoRow}
        i == CHOOSE i \in rows : \A j \in rows : j <= i
    IN IF tab[i].ses.date # day THEN New(next, "STANDBY", "MANUAL", day)
       ELSE New(next, tab[i].ses.mode, tab[i].ses.origin, day)

\* LoadOpenSession takes the open row that was started last; its mode is
\* recovered if it was started today.  The successor's seconds begin at 0.
Recovered ==
    LET newest == {i \in OpenRows : \A j \in OpenRows :
                     tab[j].ses.date < tab[i].ses.date
                       \/ (tab[j].ses.date = tab[i].ses.date /\ j <= i)}
        found == {i \in newest : tab[i].ses.date = day}
    IN IF found = {} THEN New(next, "STANDBY", "MANUAL", day)
       ELSE LET i == CHOOSE i \in found : TRUE
            IN New(next, tab[i].ses.mode, tab[i].ses.origin, day)

\* Mutants: interrupted rows are left open; the day's total is not loaded.
NoBootCalls == <<>>
BootCalls == <<CloseOpenSessions>>
NoLoadedTotal == 0
LoadedTotal == daily[day]

\* NewPersistentManager: read the day's total and the interrupted session (an
\* error of either read counts as nothing found), close what is open, open the
\* successor.
Boot ==
    /\ life = "down" /\ next <= MaxSess
    /\ \E lost \in {{}, {"total"}, {"session"}, {"total", "session"}} :
         /\ faults' = faults + Cardinality(lost) /\ faults' <= MaxFaults
         /\ study' = IF "total" \in lost THEN 0 ELSE LoadedTotal
         /\ cur' = IF "session" \in lost THEN New(next, "STANDBY", "MANUAL", day)
                   ELSE Recovered
    /\ next' = next + 1 /\ mdate' = day
    /\ todo' = BootCalls \o <<Save(cur')>>
    /\ life' = "up"
    /\ UNCHANGED <<day, tab, daily, rev, tick, settled, crashes>>

----------------------------------------------------------------------------
\* After a start: of a day without sessions, or with a pause of the automation
\* that was interrupted and is recovered.
Init ==
    /\ \/ /\ cur = New(1, "STANDBY", "MANUAL", 0)
          /\ tab = [i \in Ids |-> IF i = 1 THEN [ses |-> cur, end |-> "OPEN"] ELSE NoRow]
       \/ /\ cur = New(2, "BREAK", "AUTOMATION", 0)
          /\ tab = [i \in Ids |->
                      CASE i = 1 -> [ses |-> [cur EXCEPT !.id = 1], end |-> "RESTART_RECOVERY"]
                        [] i = 2 -> [ses |-> cur, end |-> "OPEN"]
                        [] OTHER -> NoRow]
    /\ day = 0 /\ mdate = 0 /\ life = "up" /\ todo = <<>> /\ tick = NoTick
    /\ study = 0 /\ next = cur.id + 1 /\ settled = cur.id
    /\ daily = [d \in Dates |-> 0] /\ rev = [d \in Dates |-> 0]
    /\ faults = 0 /\ crashes = 0

User == \/ SetModeStudy \/ SetModeBreak \/ SetModeOff
        \/ \E r \in BOOLEAN : EyeCareBreak(r)
        \/ \E m \in Modes : ResumeEyeCare(m)
Worker == TickerFires \/ \E c \in {0, 1} : Tick(c)
Next == User \/ Automation \/ Worker \/ Write \/ Midnight \/ Close \/ Exit \/ Crash \/ Boot

Spec == Init /\ [][Next]_vars

\* Storage calls return and the worker loop runs; nobody owes more.
FairSpec == Spec /\ WF_vars(Write) /\ WF_vars(Worker)

----------------------------------------------------------------------------
(* Properties *)

TypeOK ==
    /\ day \in Dates /\ mdate \in Dates /\ tick \in Dates \cup {NoTick}
    /\ life \in {"up", "closing", "down"}
    /\ cur \in Session
    /\ study \in Nat /\ next \in 2 .. MaxSess + 1 /\ settled \in 1 .. MaxSess + 1
    /\ tab \in [Ids -> Row]
    /\ daily \in [Dates -> Nat] /\ rev \in [Dates -> Nat]
    /\ faults \in Nat /\ crashes \in Nat

Quiet == life = "up" /\ todo = <<>>

\* Between two operations the table has exactly one open session, the one the
\* manager is in, so that a crash at that moment is recovered to this mode
\* (as long as the storage works, over any crashes).
OneOpenRow ==
    Quiet /\ faults = 0 =>
      /\ OpenRows = {cur.id}
      /\ LET r == tab[cur.id].ses IN
           r.mode = cur.mode /\ r.origin = cur.origin /\ r.date = cur.date

StudyRows(d) == {i \in Ids : tab[i].ses.mode = "STUDY" /\ tab[i].ses.date = d}

\* DEVELOPMENT.md:100 takes daily_state as the factual baseline of a date: the
\* study time of a date's sessions never exceeds it, so nothing is counted
\* twice, not by a restart (manager.go:153) and not by a switch; as long as the
\* storage works.
DailyCoversSessions ==
    faults = 0 => \A d \in Dates :
      MapThenSumSet(LAMBDA i : tab[i].ses.secs, StudyRows(d)) <= daily[d]

\* The study total of a date never shrinks, not at midnight, not in a restart, as
\* long as the storage works.
TotalsNeverShrink ==
    [][faults' = 0 => \A d \in Dates : daily'[d] >= daily[d]]_vars

\* manager.go:143, sqlite.go:1192: "A completed session must never change the
\* user's mode after a restart."  A start-up that comes up in another mode than
\* STANDBY found it in a session that was neither left nor shut down.  Holds as
\* long as storage works: the error of the write that ends a session is ignored
\* (manager.go:1253), and the row that stays open is recovered later.
CompletedNeverRecovered ==
    [][life = "down" /\ life' = "up" /\ faults' = 0 /\ cur'.mode # "STANDBY" =>
         \E i \in OpenRows : i >= settled /\ tab[i].ses.mode = cur'.mode]_vars

FinishedStudy(d) == {i \in StudyRows(d) : tab[i].end \notin {"OPEN", "RESTART_RECOVERY"}}

\* Every finished study session moves the evidence revision of its date, on
\* which the staleness of a daily review depends; a crash or a failing call may
\* cost one of them.
EvidenceMoves ==
    todo = <<>> => \A d \in Dates :
      Cardinality(FinishedStudy(d)) <= rev[d] + crashes + faults

\* v0.3 design, section 6.6: a program that keeps running does not carry
\* yesterday's mode on: unless it stops, its worker brings it to the new date.
NewDayBegins == mdate # day ~> (mdate = day \/ life # "up")

=============================================================================
