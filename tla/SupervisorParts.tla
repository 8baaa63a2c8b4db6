---------------------------- MODULE SupervisorParts ----------------------------
(***************************************************************************)
(* The parts of the supervisor that share no state of theirs, in one       *)
(* state space: each behaviour follows one part, chosen in PInit, and      *)
(* leaves the variables of all others at 0, where nothing reads them.  A   *)
(* product would only multiply independent steps.  Constants of the        *)
(* checking are given here; what they bound is said in each module.        *)
(***************************************************************************)
EXTENDS ReviewTrigger, FiniteSets

CONSTANTS Windows, Missions, OldMissions, Activities

ASSUME MissionsAssumption == OldMissions \subseteq Missions /\ IsFiniteSet(OldMissions)

VARIABLES
    followed,
    \* AISettings
    at, row, file, env, config, used, next, gone, keys, edits, faults, starts,
    \* ModelChain
    len, cooling, fails, call, cache, result, updates,
    \* MotivationLedger
    today, daily, target, comeback, mission, paid, redeemed, unlocked, told, tick,
    closing, earned, sets, mishaps,
    \* CollectorDelivery
    page, scanned, sent, frozen, chain, step, served, queue, table, counted, cut, unsure,
    requests,
    \* EvidenceWindow
    cfg, saved, samples, tracking, sinceTransition, sinceLocked, sinceFocused, intent,
    worked, slips, saves, restarts,
    \* DistractionTracker
    now, currentDate, track, events, health, up, since, failing, launches,
    \* ReminderEngine
    mode, active, studied, inMode, run, base, lastMode, wasQuiet, cool, shown, recovery,
    fresh, settings,
    \* SemanticSegments
    clock, held, last, rows, seen, troubles,
    \* EyeCareRhythm
    rhythm, owed, userMode, back, modeDate, date, away, credit, losses, boots

AI == INSTANCE AISettings
        WITH cfg <- config, saves <- edits,
             MaxKeys <- 3, MaxSaves <- 1, MaxFaults <- 2, MaxStarts <- 3
Models == INSTANCE ModelChain
        WITH cool <- cooling, MaxModels <- 2, MaxShift <- 2, AuthDelay <- 3, RateDelay <- 2,
             CacheLife <- 2, MaxUpdates <- 1
Goals(a) == CASE a = "FIRST_30" -> 2 [] a = "MISSION_10" -> 1 [] OTHER -> 9
Motivation == INSTANCE MotivationLedger
        WITH day <- today, slips <- mishaps, Reward <- 1, Cost <- 1, Rate <- 2, Hour <- 3,
             Wishes <- {1, 2}, CheckinAt <- 1, MaxDay <- 1, MaxFocus <- 1, MaxSets <- 1,
             MaxRedeem <- 3, MaxSlips <- 1,
             Goal <- [a \in {"FIRST_30", "DAILY_120", "STREAK", "WEEK_600", "MISSION_10",
                             "COMEBACK"} |-> Goals(a)]
Collector == INSTANCE CollectorDelivery
        WITH troubles <- requests, MaxTurns <- 2, MaxV <- 2, MaxQueue <- 2, MaxTroubles <- 2
Settings == [enabled |-> TRUE, start |-> TRUE, focused |-> 2, unclassified |-> 3, grace |-> 1,
             allow |-> TRUE, locked |-> 1, resume |-> 2, cooldown |-> 2]
Evidence == INSTANCE EvidenceWindow
        WITH Configs <- {Settings, [Settings EXCEPT !.allow = FALSE, !.unclassified = 4]},
             MaxSamples <- 3, MaxGap <- 2, MaxSlips <- 1, MaxSaves <- 1, MaxRestarts <- 1
Distraction == INSTANCE DistractionTracker
        WITH faults <- failing, starts <- launches,
             FailureThreshold <- 3, FailureWindow <- 4, RecoverySuccesses <- 2,
             DistractedFor <- 2, RecoveredFor <- 2, UnknownFor <- 3, Midnight <- 6,
             MaxNow <- 9, MaxGap <- 2, MaxEvents <- 3, MaxFaults <- 2, MaxStarts <- 2
Reminder == INSTANCE ReminderEngine
        WITH Warn <- 1, Strong <- 2, Active <- 2, Cooldown <- 1, Repeat <- 2,
             RecoveryFor <- 1, MaxCount <- 2, MaxSettings <- 1
Semantic == INSTANCE SemanticSegments
        WITH pending <- held, Keys <- Activities, StableFor <- 2, MinPersist <- 3,
             Heartbeat <- 5, MaxNow <- 8, MaxGap <- 2, MaxSlips <- 1, MaxFaults <- 1,
             MaxStarts <- 1
Rhythm == INSTANCE EyeCareRhythm
        WITH st <- rhythm, mode <- userMode, mdate <- modeDate, day <- date, done <- credit,
             faults <- losses, starts <- boots,
             FocusFor <- 3, LongAfter <- 4, ShortFor <- 1, LongFor <- 2, SnoozeFor <- 1,
             MaxSnoozes <- 1, Refusal <- 2, Repeat <- 2, Idle <- 2,
             MaxUse <- 6, MaxFaults <- 2, MaxStarts <- 1

settingsVars == <<at, row, file, env, config, used, next, gone, keys, edits, faults, starts>>
modelsVars == <<len, cooling, fails, call, cache, result, updates>>
motivationVars == <<today, daily, target, comeback, mission, paid, redeemed, unlocked, told, tick,
                closing, earned, sets, mishaps>>
collectorVars == <<page, scanned, sent, frozen, chain, step, served, queue, table, counted, cut,
               unsure, requests>>
evidenceVars == <<cfg, saved, samples, tracking, sinceTransition, sinceLocked, sinceFocused, intent,
              worked, slips, saves, restarts>>
distractionVars == <<now, currentDate, track, events, health, up, since, failing, launches>>
reminderVars == <<mode, active, studied, inMode, run, base, lastMode, wasQuiet, cool, shown,
              recovery, fresh, settings>>
semanticVars == <<clock, held, last, rows, seen, troubles>>
rhythmVars == <<rhythm, owed, userMode, back, modeDate, date, away, credit, losses, boots>>
pvars == <<vars, followed, settingsVars, modelsVars, motivationVars, collectorVars,
           evidenceVars, distractionVars, reminderVars, semanticVars, rhythmVars>>

Parts == {"settings", "models", "motivation", "collector", "evidence", "distraction",
          "reminder", "semantic", "rhythm", "trigger"}

Unmoved(p) ==
    CASE p = "settings"    -> UNCHANGED settingsVars
      [] p = "models"      -> UNCHANGED modelsVars
      [] p = "motivation"  -> UNCHANGED motivationVars
      [] p = "collector"   -> UNCHANGED collectorVars
      [] p = "evidence"    -> UNCHANGED evidenceVars
      [] p = "distraction" -> UNCHANGED distractionVars
      [] p = "reminder"    -> UNCHANGED reminderVars
      [] p = "semantic"    -> UNCHANGED semanticVars
      [] p = "rhythm"      -> UNCHANGED rhythmVars
      [] p = "trigger"     -> UNCHANGED vars

Follow(p) ==
    /\ followed = p /\ UNCHANGED followed
    /\ \A other \in Parts \ {p} : Unmoved(other)

PNext ==
    \/ Follow("settings") /\ AI!Next
    \/ Follow("models") /\ Models!Next
    \/ Follow("motivation") /\ Motivation!MNext
    \/ Follow("collector") /\ Collector!DNext
    \/ Follow("evidence") /\ Evidence!ENext
    \/ Follow("distraction") /\ Distraction!XNext
    \/ Follow("reminder") /\ Reminder!RNext
    \/ Follow("semantic") /\ Semantic!GNext
    \/ Follow("rhythm") /\ Rhythm!YNext
    \/ Follow("trigger") /\ Next

----------------------------------------------------------------------------
(* The beginning: of the followed part its own, of any other 0.  The trigger *)
(* has one initial state and keeps it.                                       *)

Settings0 == at = 0 /\ row = 0 /\ file = 0 /\ env = 0 /\ config = 0 /\ used = 0 /\ next = 0
             /\ gone = 0 /\ keys = 0 /\ edits = 0 /\ faults = 0 /\ starts = 0
Models0 == len = 0 /\ cooling = 0 /\ fails = 0 /\ call = 0 /\ cache = 0 /\ result = 0 /\ updates = 0
Motivation0 == today = 0 /\ daily = 0 /\ target = 0 /\ comeback = 0 /\ mission = 0 /\ paid = 0
               /\ redeemed = 0 /\ unlocked = 0 /\ told = 0 /\ tick = 0 /\ closing = 0
               /\ earned = 0 /\ sets = 0 /\ mishaps = 0
Collector0 == page = 0 /\ scanned = 0 /\ sent = 0 /\ frozen = 0 /\ chain = 0 /\ step = 0
              /\ served = 0 /\ queue = 0 /\ table = 0 /\ counted = 0 /\ cut = 0 /\ unsure = 0
              /\ requests = 0
Evidence0 == cfg = 0 /\ saved = 0 /\ samples = 0 /\ tracking = 0 /\ sinceTransition = 0
             /\ sinceLocked = 0 /\ sinceFocused = 0 /\ intent = 0 /\ worked = 0 /\ slips = 0
             /\ saves = 0 /\ restarts = 0
Distraction0 == now = 0 /\ currentDate = 0 /\ track = 0 /\ events = 0 /\ health = 0 /\ up = 0
                /\ since = 0 /\ failing = 0 /\ launches = 0
Reminder0 == mode = 0 /\ active = 0 /\ studied = 0 /\ inMode = 0 /\ run = 0 /\ base = 0
             /\ lastMode = 0 /\ wasQuiet = 0 /\ cool = 0 /\ shown = 0 /\ recovery = 0
             /\ fresh = 0 /\ settings = 0
Semantic0 == clock = 0 /\ held = 0 /\ last = 0 /\ rows = 0 /\ seen = 0 /\ troubles = 0
Rhythm0 == rhythm = 0 /\ owed = 0 /\ userMode = 0 /\ back = 0 /\ modeDate = 0 /\ date = 0
           /\ away = 0 /\ credit = 0 /\ losses = 0 /\ boots = 0

PInit ==
    /\ followed \in Parts
    /\ Init
    /\ IF followed = "settings" THEN AI!Init ELSE Settings0
    /\ IF followed = "models" THEN Models!Init ELSE Models0
    /\ IF followed = "motivation" THEN Motivation!MInit ELSE Motivation0
    /\ IF followed = "collector" THEN Collector!DInit ELSE Collector0
    /\ IF followed = "evidence" THEN Evidence!EInit ELSE Evidence0
    /\ IF followed = "distraction" THEN Distraction!XInit ELSE Distraction0
    /\ IF followed = "reminder" THEN Reminder!RInit ELSE Reminder0
    /\ IF followed = "semantic" THEN Semantic!GInit ELSE Semantic0
    /\ IF followed = "rhythm" THEN Rhythm!YInit ELSE Rhythm0

PSpec == PInit /\ [][PNext]_pvars /\ Fairness

----------------------------------------------------------------------------
(* Properties: what each part's module says of it. *)

PartsTypeOK ==
    CASE followed = "settings"    -> AI!TypeOK
      [] followed = "models"      -> Models!TypeOK
      [] followed = "motivation"  -> Motivation!TypeOK
      [] followed = "collector"   -> Collector!TypeOK
      [] followed = "evidence"    -> Evidence!TypeOK
      [] followed = "distraction" -> Distraction!TypeOK
      [] followed = "reminder"    -> Reminder!TypeOK
      [] followed = "semantic"    -> Semantic!TypeOK
      [] followed = "rhythm"      -> Rhythm!TypeOK
      [] followed = "trigger"     -> TypeOK

\* AISettings: a start never loses the only copy of a key,
StartKeepsTheKey == [][followed = "settings" => AI!KeyIsKept]_settingsVars
\* and a key once deleted is not used again.
DeletedStaysDeleted == followed = "settings" => AI!DeletedStaysDeleted
\* MotivationLedger: no point is spent that was not earned,
LedgerAddsUp == followed = "motivation" => Motivation!LedgerAddsUp
\* and no daily check-in, achievement or mission is announced twice.
ToldOnce == followed = "motivation" => Motivation!ToldOnce
\* CollectorDelivery: a turn delivered again moves the evidence revision once,
\* as long as its old flag is read and no two requests carry it at once.
CountedOnce == followed = "collector" => Collector!CountedOnce
\* EvidenceWindow: a session is proposed only on study without an interruption.
StartNeedsEvidence == followed = "evidence" => Evidence!StartNeedsEvidence
\* DistractionTracker: a short change of windows is no event.
ShortSwitchIsNoEvent ==
    [][followed = "distraction" => Distraction!NewEventIsLong]_distractionVars
\* ReminderEngine: a reminder counts from the last transition.
RemindersStartAnew == [][followed = "reminder" => Reminder!RemindedLater]_reminderVars
\* SemanticSegments: a snapshot covers one activity, watched long enough.
SnapshotIsStable == [][followed = "semantic" => Semantic!NewRowIsStable]_semanticVars
\* EyeCareRhythm: a break is due only after the use it takes,
DueIsEarned == [][followed = "rhythm" => Rhythm!EarnedDue]_rhythmVars
\* and once due it is told.
DueIsTold == followed = "rhythm" => Rhythm!DueIsTold

===============================================================================
