---------------------------- MODULE EyeCareRhythm ----------------------------
(***************************************************************************)
(* The counters and prompts of the eye care (internal/eyecare/service.go): *)
(* when a break is due, how often the user is told so, and what a refusal, *)
(* a rest, five minutes away and a new day do to it.                       *)
(*                                                                         *)
(* Status in memory and table are one here, since a status is only shown   *)
(* once it is written; only the use whose write failed is in memory        *)
(* alone.  An action of the user is one step, its protocol being           *)
(* EyeCareProtocol's.  Instants to come are kept as the time left, as the  *)
(* set of it or {} for nil.  Lengths and thresholds stay as configured.    *)
(***************************************************************************)
EXTENDS Integers

CONSTANTS
    FocusFor, LongAfter,            \* use after which a break is due
    ShortFor, LongFor, SnoozeFor,
    MaxSnoozes,
    Refusal,                        \* use before a refused break is due again
    Repeat,                         \* time between two prompts
    Idle,                           \* time away that is a break of its own
    MaxUse, MaxDay, MaxFaults, MaxStarts   \* bounds of the checking

VARIABLES
    st,        \* the status and its row in eye_care_state
    owed,      \* unpersistedCreditedSeconds
    mode,      \* of the manager: "eye" in an eye-care break, "off", or "on"
    back,      \* the mode an eye-care break returns to
    mdate,     \* the manager's date
    day,
    away,      \* time without input
    done,      \* history: use since the last rest, since the last long one, and
               \* since the user last refused a break
    faults, starts

yvars == <<st, owed, mode, back, mdate, day, away, done, faults, starts>>

Phases == {"disabled", "focusing", "short_due", "long_due", "short", "long", "waiting"}
Resting(s) == s.phase \in {"short", "long", "waiting"}
Due(s) == s.phase \in {"short_due", "long_due"}

Smaller(a, b) == IF a < b THEN a ELSE b
Left(span, time) == {IF n > time THEN n - time ELSE 0 : n \in span}
After(s, time) == [s EXCEPT !.snooze = Left(@, time), !.rest = Left(@, time),
                            !.prompt = Left(@, time)]
\* No reminder is open any longer.
Closed(s) == [s EXCEPT !.phase = "focusing", !.snooze = {}, !.snoozes = 0, !.prompt = {}]
Refused(s) == [Closed(s) EXCEPT !.retry = s.since + Refusal, !.rest = {}]

----------------------------------------------------------------------------
(* advanceLocked: a new date, a break whose mode is gone, the end of a rest,  *)
(* the end of a snooze, in this order and in one write.                       *)

NewDay(s) ==
    IF s.date = day THEN s
    ELSE [s EXCEPT !.date = day, !.seg = 0, !.since = 0, !.retry = 0,
                   !.snooze = {}, !.snoozes = 0,
                   !.phase = IF Due(s) THEN "focusing" ELSE @]

Aborted(s, m) == s.phase \in {"short", "long"} /\ m \notin {"off", "eye"}
Rested(s, m) == s.phase \in {"short", "long"} /\ m = "eye" /\ s.rest = {0}

Settled(s, m) ==
    CASE Aborted(s, m) -> Refused(s)
      [] Rested(s, m) /\ s.phase = "short" -> [s EXCEPT !.phase = "waiting", !.seg = 0]
      [] Rested(s, m) /\ s.phase = "long" ->
           [s EXCEPT !.phase = "waiting", !.seg = 0, !.since = 0, !.retry = 0]
      [] Resting(s) /\ m # "eye" /\ ~Aborted(s, m) -> [Closed(s) EXCEPT !.rest = {}]
      [] OTHER -> s

Woken(s) == IF Due(s) /\ s.snooze = {0} THEN [s EXCEPT !.snooze = {}, !.prompt = {0}] ELSE s

Advanced(s, m) == Woken(Settled(NewDay(s), m))

\* What the history makes of it.
Noted(s, m) ==
    LET fresh == s.date # day
        rested == Rested(NewDay(s), m)
    IN  [seg   |-> IF fresh \/ rested THEN owed ELSE done.seg,
         since |-> IF fresh \/ (rested /\ s.phase = "long") THEN owed ELSE done.since,
         pause |-> CASE Aborted(NewDay(s), m) -> owed
                     [] ~Aborted(NewDay(s), m) /\ (fresh \/ (rested /\ s.phase = "long")) -> Refusal
                     [] OTHER -> done.pause]

Advance(s, m) == st' = Advanced(s, m) /\ done' = Noted(s, m)
Fault == faults < MaxFaults /\ faults' = faults + 1

----------------------------------------------------------------------------
(* The worker's tick: RecordComputerUse after Observe *)

\* Mutant: what could not be written is still owed when it has been.
StillOwed(n) == n
Repaid(n) == 0

\* recordSecondsLocked
Credited(s, n) ==
    LET c == [s EXCEPT !.seg = @ + n, !.since = @ + n]
        asked == [c EXCEPT !.snooze = {}, !.snoozes = 0, !.prompt = {0}]
    IN  CASE c.since >= LongAfter /\ c.since >= c.retry /\ c.phase # "long_due" ->
               [asked EXCEPT !.phase = "long_due", !.retry = 0]
          [] c.phase = "focusing" /\ c.seg >= FocusFor /\ c.since >= c.retry
             /\ c.since < LongAfter ->
               [asked EXCEPT !.phase = "short_due"]
          [] OTHER -> c

More(h) == [seg |-> Smaller(h.seg + 1, FocusFor), since |-> Smaller(h.since + 1, LongAfter),
            pause |-> Smaller(h.pause + 1, Refusal)]

Use(s, h) ==
    /\ s.since + 1 + owed <= MaxUse
    /\ done' = More(h)
    /\ \/ st' = Credited(s, 1 + owed) /\ owed' = Repaid(owed) /\ UNCHANGED faults
       \/ st' = s /\ owed' = owed + 1 /\ Fault

\* Five minutes without input: the cycle begins anew.
Interrupt(s, h) ==
    \/ /\ st' = [Closed(s) EXCEPT !.seg = 0] /\ owed' = 0
       /\ done' = [h EXCEPT !.seg = 0] /\ UNCHANGED faults
    \/ Fault /\ st' = s /\ done' = h /\ UNCHANGED owed

Record(s, h, input) ==
    IF Resting(s) \/ s.phase = "disabled" THEN st' = s /\ done' = h /\ UNCHANGED <<owed, faults>>
    ELSE CASE input = "active" -> Use(s, h)
           [] away' = Idle /\ input = "away" /\ (s.seg # 0 \/ Due(s)) -> Interrupt(s, h)
           [] OTHER -> st' = s /\ done' = h /\ UNCHANGED <<owed, faults>>

\* The manager's tick comes first and begins a new day in STANDBY.  When the
\* status can be advanced neither by Observe nor afterwards, the use is lost.
Tick(input) ==
    LET m == IF mdate = day THEN mode ELSE "on"
        s == After(st, 1)
    IN  /\ mode' = m /\ mdate' = day
        /\ away' = CASE input = "active" -> 0
                     [] input = "away"   -> Smaller(away + 1, Idle)
                     [] input = "none"   -> away
        /\ \/ Record(Advanced(s, m), Noted(s, m), input)
           \/ /\ Advanced(s, m) # s /\ faults + 2 <= MaxFaults /\ faults' = faults + 2
              /\ st' = s /\ UNCHANGED <<done, owed>>
        /\ UNCHANGED <<back, day, starts>>

Midnight == /\ day < MaxDay /\ day' = day + 1
            /\ UNCHANGED <<st, owed, mode, back, mdate, away, done, faults, starts>>

----------------------------------------------------------------------------
(* Requests: each first advances the status; one that thereby changes it is   *)
(* stale.  A claim goes on with the advanced one.                             *)

Poll == /\ Advance(st, mode)
        /\ UNCHANGED <<owed, mode, back, mdate, day, away, faults, starts>>

\* TakePendingNotification, outside quiet hours.
Claim ==
    LET s == Advanced(st, mode) IN
    /\ Due(s) /\ s.snooze = {} /\ s.prompt = {0} /\ away = 0
    /\ st' = [s EXCEPT !.prompt = {Repeat}] /\ done' = Noted(st, mode)
    /\ UNCHANGED <<owed, mode, back, mdate, day, away, faults, starts>>

\* Mutant: the next prompt is left to the end of the snooze.
SnoozedInSilence == [st EXCEPT !.snoozes = @ + 1, !.snooze = {SnoozeFor}, !.prompt = {}]
Snoozed == [st EXCEPT !.snoozes = @ + 1, !.snooze = {SnoozeFor}, !.prompt = {SnoozeFor}]

RefuseNow == st' = Refused(st) /\ done' = [done EXCEPT !.pause = owed]

Act ==
    /\ Advanced(st, mode) = st
    /\ \/ /\ Due(st) /\ mode # "eye" /\ mode' = "eye" /\ mdate' = day
          /\ back' = IF mdate = day THEN mode ELSE "on"
          /\ st' = [st EXCEPT !.phase = IF @ = "short_due" THEN "short" ELSE "long",
                              !.rest = {IF st.phase = "short_due" THEN ShortFor ELSE LongFor},
                              !.snooze = {}, !.prompt = {}]
          /\ UNCHANGED done
       \/ /\ Due(st) /\ st.snoozes < MaxSnoozes
          /\ st' = Snoozed /\ UNCHANGED <<done, mode, back, mdate>>
       \/ Due(st) /\ RefuseNow /\ UNCHANGED <<mode, back, mdate>>
       \/ /\ st.phase \in {"short", "long"} /\ mode = "eye" /\ RefuseNow
          /\ mode' = back /\ UNCHANGED <<back, mdate>>
       \/ /\ st.phase = "waiting" /\ mode = "eye"
          /\ st' = [Closed(st) EXCEPT !.rest = {}]
          /\ mode' = back /\ UNCHANGED <<done, back, mdate>>
    /\ UNCHANGED <<owed, day, away, faults, starts>>

\* SaveSettings
Switch ==
    /\ \/ st.phase = "disabled" /\ st' = [st EXCEPT !.phase = "focusing"]
       \/ /\ st.phase # "disabled" /\ ~Resting(st)
          /\ st' = [st EXCEPT !.phase = "disabled", !.snooze = {}, !.prompt = {}]
    /\ UNCHANGED <<owed, mode, back, mdate, day, away, done, faults, starts>>

\* SetModeStudy and the like, refused in an eye-care break, and SetModeOff.
SetMode(m) ==
    /\ m = "on" => mode # "eye"
    /\ mode' = m /\ mdate' = day
    /\ UNCHANGED <<st, owed, back, day, away, done, faults, starts>>

\* The process dies; the next one recovers the mode of the day and advances.
Restart(time) ==
    LET m == IF mdate = day THEN mode ELSE "on"
        s == After(st, time)
    IN  /\ starts < MaxStarts /\ starts' = starts + 1
        /\ owed' = 0 /\ away' = 0 /\ mode' = m /\ mdate' = day
        /\ st' = Advanced(s, m) /\ done' = Noted(s, m)
        /\ UNCHANGED <<back, day, faults>>

YInit ==
    /\ st = [phase |-> "focusing", date |-> 0, seg |-> 0, since |-> 0, retry |-> 0,
             snoozes |-> 0, snooze |-> {}, rest |-> {}, prompt |-> {}]
    /\ owed = 0 /\ mode = "on" /\ back = "on" /\ mdate = 0 /\ day = 0 /\ away = 0
    /\ done = [seg |-> 0, since |-> 0, pause |-> Refusal]
    /\ faults = 0 /\ starts = 0

YNext ==
    \/ \E input \in {"active", "away", "none"} : Tick(input)
    \/ Midnight \/ Poll \/ Claim \/ Act \/ Switch
    \/ \E m \in {"on", "off"} : SetMode(m)
    \/ \E time \in {0, LongFor} : Restart(time)

YSpec == YInit /\ [][YNext]_yvars

----------------------------------------------------------------------------
(* Properties *)

Span(n) == {{}} \cup {{k} : k \in 0..n}
Longer(a, b) == IF a > b THEN a ELSE b
TypeOK ==
    /\ st.phase \in Phases /\ st.date \in 0..MaxDay
    /\ st.seg \in 0..MaxUse /\ st.since \in st.seg..MaxUse
    /\ st.retry \in 0 .. MaxUse + Refusal
    /\ st.snoozes \in 0..MaxSnoozes /\ st.snooze \in Span(SnoozeFor)
    /\ st.rest \in Span(Longer(ShortFor, LongFor)) /\ st.prompt \in Span(Longer(Repeat, SnoozeFor))
    /\ owed \in 0..MaxFaults /\ mode \in {"on", "off", "eye"} /\ back \in {"on", "off"}
    /\ mdate \in 0..MaxDay /\ day \in 0..MaxDay /\ away \in 0..Idle
    /\ faults \in 0..MaxFaults /\ starts \in 0..MaxStarts

\* A break is due only after the use it takes: since the last rest or five
\* minutes away (a long one: since the last long rest), and since the user
\* refused one, where each unit of use counts once, however often its write
\* failed, over restarts, aborted breaks and midnight.
NewlyDue(phase) == st.phase # phase /\ st'.phase = phase
EarnedDue ==
    /\ NewlyDue("short_due") => done'.seg = FocusFor /\ done'.pause = Refusal
    /\ NewlyDue("long_due") => done'.since = LongAfter /\ done'.pause = Refusal
DueIsEarned == [][EarnedDue]_yvars

\* A due break is never forgotten: whatever the user, a snooze, a restart or a
\* failing write did, a next prompt is set, and TakePendingNotification need not
\* invent one.
DueIsTold == Due(st) => st.prompt # {}

===============================================================================
