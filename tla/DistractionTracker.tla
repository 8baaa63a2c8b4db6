-------------------------- MODULE DistractionTracker --------------------------
(***************************************************************************)
(* internal/distraction and storage/distraction.go: when a distraction     *)
(* becomes an event of the day and when the event ends.                    *)
(*                                                                         *)
(* The worker observes every tick; the tracker keeps the instants at which *)
(* a distraction, a recovery, an unknown activity and an outage began, and *)
(* the open event in memory.  Every write may fail, the process may stop   *)
(* or die, and the next one attaches to the newest open row.  The day ends *)
(* once, at Midnight: the manager's next tick puts it in STANDBY, unless   *)
(* the user has pressed Study before that tick.  What an event says of the *)
(* window is left out; the revision an end bumps is kept only as a write   *)
(* that may fail.  Ticks are read in order (SessionLedger has late ones).  *)
(***************************************************************************)
EXTENDS ActivityHealth, Sequences

CONSTANTS
    DistractedFor, RecoveredFor, UnknownFor,   \* Timing
    Midnight,      \* the first instant of the next day
    MaxNow,
    MaxGap,        \* time between two ticks, at most
    MaxEvents,
    MaxFaults,
    MaxStarts

VARIABLES
    now,
    currentDate,   \* the manager's day: 0, or 1 after midnight
    track,     \* the tracker; 0 is the zero time and no event
    events,    \* the rows of distraction_events, in order of their creation
    health,    \* the debouncer's record
    up,        \* the process runs
    since,     \* history: the first of the last observations that all were distracted
    faults, starts

xvars == <<now, currentDate, track, events, health, up, since, faults, starts>>

Idle == [pending |-> 0, unknown |-> 0, recovery |-> 0, missing |-> 0, excluded |-> 0, current |-> 0]
Day(time) == IF time < Midnight THEN 0 ELSE 1
Spend == faults < MaxFaults /\ faults' = faults + 1

\* durationSecondsLocked: without the outages this process has seen.
Duration(t, e, time) ==
    LET d == time - e.started - t.excluded - (IF t.missing = 0 THEN 0 ELSE time - t.missing)
    IN  IF d > 0 THEN d ELSE 0

\* UpdateDistractionEvent with the event in memory, which has no end, or one now.
Written(t, rows, ended, time) ==
    [rows EXCEPT ![t.current].ended = ended,
                 ![t.current].length = Duration(t, rows[t.current], time)]

\* The end of closeLocked.
Dropped(t) == [t EXCEPT !.current = 0, !.missing = 0, !.excluded = 0]

----------------------------------------------------------------------------
(* The steps of Observe on the tracker t and the rows its last step left *)

UpdateOpen(t, rows, time) ==
    /\ track' = t
    /\ \/ events' = Written(t, rows, 0, time) /\ UNCHANGED faults
       \/ events' = rows /\ Spend

\* The row is ended first; if that or the revision fails, the event stays open
\* in memory.
CloseFails(t, rows, time) ==
    /\ Spend /\ track' = t
    /\ events' \in {rows, Written(t, rows, time, time)}
CloseOpen(t, rows, time) ==
    IF t.current = 0
    THEN track' = t /\ events' = rows /\ UNCHANGED faults
    ELSE \/ /\ track' = Dropped(t)
            /\ events' = Written(t, rows, time, time) /\ UNCHANGED faults
         \/ CloseFails(t, rows, time)

\* An event begins where the distraction did; its row, then its length.
Create(t, rows, time) ==
    LET made == Append(rows, [started |-> t.pending, ended |-> 0, length |-> 0])
        opened == [t EXCEPT !.current = Len(made)]
    IN  /\ Len(rows) < MaxEvents
        /\ \/ UpdateOpen(opened, made, time)
           \/ track' = t /\ events' = rows /\ Spend

Only(t, rows) == track' = t /\ events' = rows /\ UNCHANGED faults

\* Mutant: a short look elsewhere does not begin the distraction anew.
PendingKept(t) == t
PendingCleared(t) == [t EXCEPT !.pending = 0]

Distracted(t0, rows, time) ==
    LET t == [t0 EXCEPT !.unknown = 0, !.recovery = 0]
    IN  CASE t.current # 0 -> UpdateOpen(t, rows, time)
          [] t.current = 0 /\ t.pending = 0 -> Only([t EXCEPT !.pending = time], rows)
          [] t.current = 0 /\ t.pending # 0 ->
               IF time - t.pending < DistractedFor THEN Only(t, rows) ELSE Create(t, rows, time)

Focused(t0, rows, time) ==
    LET t == [PendingCleared(t0) EXCEPT !.unknown = 0]
    IN  CASE t.current = 0 -> Only(t, rows)
          [] t.current # 0 /\ t.recovery = 0 -> Only([t EXCEPT !.recovery = time], rows)
          [] t.current # 0 /\ t.recovery # 0 ->
               IF time - t.recovery >= RecoveredFor THEN CloseOpen(t, rows, time)
                                                    ELSE UpdateOpen(t, rows, time)

Unknown(t0, rows, time) ==
    LET t == [PendingCleared(t0) EXCEPT !.recovery = 0]
    IN  CASE t.current = 0 -> Only(t, rows)
          [] t.current # 0 /\ t.unknown = 0 -> Only([t EXCEPT !.unknown = time], rows)
          [] t.current # 0 /\ t.unknown # 0 ->
               IF time - t.unknown >= UnknownFor THEN CloseOpen(t, rows, time)
                                                 ELSE UpdateOpen(t, rows, time)

Quieted(t) == [PendingCleared(t) EXCEPT !.unknown = 0, !.recovery = 0]
\* A sample again: the outage is over.
Sampled(t, time) ==
    IF t.missing = 0 THEN t ELSE [t EXCEPT !.excluded = @ + (time - t.missing), !.missing = 0]

----------------------------------------------------------------------------
(* Actions *)

Samples == {"none", "old", "fresh"}
Relations == {"distracted", "focused", "unknown"}

\* What the tracker may be told of a sample: nothing it can use when the user is
\* not studying, the screen locked, the window private, the sample missing or
\* ActivityWatch given up; an old sample only says that it is old; of a fresh one
\* whatever the classification made of the window, or left from the one before.
\* The manager's first call of a new day resets the mode: when that is the tick,
\* the user does not study.
Outcomes(sample, h, time) ==
    IF sample = "none" \/ ~h.stable \/ currentDate # Day(time) THEN {"away"}
    ELSE {"away"} \cup (IF sample = "old" THEN {"stale"} ELSE Relations)

\* Observe at this time: the event of the day before is closed first.
Relate(relation, t, rows, time) ==
    \/ relation = "distracted" /\ Distracted(t, rows, time)
    \/ relation = "focused" /\ Focused(t, rows, time)
    \/ relation = "unknown" /\ Unknown(t, rows, time)
Related(relation, time) ==
    LET t == Sampled(track, time)
        old == t.current # 0 /\ Day(events[t.current].started) # Day(time)
    IN  \/ ~old /\ Relate(relation, t, events, time)
        \/ old /\ Relate(relation, Dropped(t), Written(t, events, time, time), time)
        \/ old /\ CloseFails(t, events, time)

Observe(outcome, time) ==
    \/ outcome = "away" /\ CloseOpen(Quieted(track), events, time)
    \/ /\ outcome = "stale"
       /\ Only([Quieted(track) EXCEPT !.missing =
                  IF track.current # 0 /\ @ = 0 THEN time ELSE @], events)
    \/ outcome \in Relations /\ Related(outcome, time)

Tick(sample, gap) ==
    /\ up /\ now + gap <= MaxNow /\ now' = now + gap /\ currentDate' = Day(now + gap)
    /\ health' = Observed(health, now + gap, sample # "none")
    /\ \E outcome \in Outcomes(sample, Observed(health, now + gap, sample # "none"), now + gap) :
         /\ Observe(outcome, now + gap)
         /\ since' = IF outcome # "distracted" THEN 0 ELSE IF since = 0 THEN now + gap ELSE since
    /\ UNCHANGED <<up, starts>>

\* SetModeStudy between midnight and the next tick resets the manager itself, so
\* that this tick finds the user studying.
Study(gap) ==
    /\ up /\ now + gap <= MaxNow /\ now' = now + gap
    /\ currentDate # Day(now + gap) /\ currentDate' = Day(now + gap)
    /\ UNCHANGED <<track, events, health, up, since, faults, starts>>

\* The shutdown closes the event, or could not; the worker's last tick has a
\* cancelled context and writes nothing.
Shutdown ==
    /\ up /\ up' = FALSE /\ since' = 0
    /\ CloseOpen(track, events, now)
    /\ UNCHANGED <<now, currentDate, health, starts>>

Crash ==
    /\ up /\ up' = FALSE /\ since' = 0
    /\ UNCHANGED <<now, currentDate, track, events, health, faults, starts>>

OpenRows == {i \in DOMAIN events : events[i].ended = 0}
Newest == CHOOSE i \in OpenRows : \A j \in OpenRows : events[j].started <= events[i].started

\* Restore, or it fails and is only logged.
Start(gap) ==
    /\ ~up /\ up' = TRUE /\ starts < MaxStarts /\ starts' = starts + 1
    /\ now + gap <= MaxNow /\ now' = now + gap
    /\ currentDate' = Day(now + gap) /\ health' = Healthy
    /\ \/ track' = [Idle EXCEPT !.current = IF OpenRows = {} THEN 0 ELSE Newest] /\ UNCHANGED faults
       \/ track' = Idle /\ Spend
    /\ UNCHANGED <<events, since>>

XInit ==
    /\ now = 1 /\ currentDate = Day(1) /\ track = Idle /\ events = <<>> /\ health = Healthy /\ up = TRUE /\ since = 0
    /\ faults = 0 /\ starts = 1

XNext ==
    \/ \E gap \in 1..MaxGap :
         \/ \E sample \in Samples : Tick(sample, gap)
         \/ Study(gap) \/ Start(gap)
    \/ Shutdown \/ Crash

XSpec == XInit /\ [][XNext]_xvars

----------------------------------------------------------------------------
(* Properties *)

Times == 0..MaxNow
TypeOK ==
    /\ now \in 1..MaxNow /\ currentDate \in {0, 1} /\ up \in BOOLEAN /\ since \in Times
    /\ track.pending \in Times /\ track.unknown \in Times /\ track.recovery \in Times
    /\ track.missing \in Times /\ track.excluded \in Times
    /\ health \in [failures : 0..FailureThreshold, successes : 0..RecoverySuccesses,
                   since : Times, stable : BOOLEAN, phase : Phases]
    /\ track.current \in 0..Len(events)
    /\ Len(events) <= MaxEvents
    /\ \A i \in DOMAIN events : events[i] \in [started : 1..MaxNow, ended : Times, length : Times]
    /\ faults \in 0..MaxFaults /\ starts \in 1..MaxStarts

\* "A short change of windows is not stored" (DEVELOPMENT.md:88): a new event
\* means every observation of at least DistractedFor was distracted, without a
\* focused or unknown one, an outage, another mode or a restart between.  (What
\* the code begins when midnight closes an event is ClosedAtMidnight's matter, and
\* so is an event of the day before that begins again after a write failed then.)
NewEventIsLong ==
    track.current = 0 /\ Len(events') > Len(events) =>
        LET e == events'[Len(events')]
        IN  \/ since' # 0 /\ e.started >= since' /\ now' - e.started >= DistractedFor
            \/ faults # 0 /\ Day(e.started) # Day(now')
ShortSwitchIsNoEvent == [][NewEventIsLong]_xvars

\* "Midnight closes the current interval" (DEVELOPMENT.md:88): when no write
\* fails, an event already open the day before is closed by the first sample of
\* the new day and no event of the new day begins in the old one again.
ClosedAtMidnight ==
    [][\A i \in DOMAIN events :
         /\ Len(events') > Len(events) /\ events'[i].ended # 0
         => events'[Len(events')].started >= events'[i].ended]_xvars

===============================================================================
