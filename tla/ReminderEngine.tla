---------------------------- MODULE ReminderEngine ----------------------------
(***************************************************************************)
(* internal/reminder with the counters and the shown reminder the manager  *)
(* keeps for it (state/manager.go): when the user is told that he ought to *)
(* begin, is distracted or idle, or has had a long break.                  *)
(*                                                                         *)
(* Every tick moves the counters and asks the engine, which measures them  *)
(* from a baseline taken when the mode changed or a quiet period ended.    *)
(* The engine is not asked during an eye-care break.  Distraction and      *)
(* idleness exclude each other, so their two counters are one run of       *)
(* ticks.  Texts, and whether it is a quiet time of day, are left out.     *)
(***************************************************************************)
EXTENDS Naturals

CONSTANTS
    Warn, Strong,    \* thresholds, in ticks, of each kind
    Active,          \* FirstStudyActiveMinutes
    Cooldown, Repeat,
    RecoveryFor,     \* reminderRecoveryStableFor
    MaxCount,        \* a counter's bound
    MaxSettings      \* settings saved

Modes == {"STANDBY", "STUDY", "BREAK", "EYE_CARE", "OFF"}
Kinds == {"standby", "distracted", "idle", "break"}
Levels == {"BUBBLE", "TOAST"}
Categories == Kinds \X Levels

VARIABLES
    mode,       \* the user's mode, an eye-care break being one of its own
    active,     \* activeSeconds of the day
    studied,    \* whether the day has study seconds
    inMode,     \* currentModeSeconds
    run,        \* distractedSeconds or idleStaticSeconds, [of, n]
    base,       \* the engine's baseline of these counters
    lastMode,   \* the mode the engine saw last, "none" before the first
    wasQuiet,
    cool,       \* time until a category may be used again
    shown,      \* the current reminder, [kind, left]
    recovery,   \* time since the user is well again
    fresh,      \* history: ticks since the baseline last had to begin anew
    settings

rvars == <<mode, active, studied, inMode, run, base, lastMode, wasQuiet, cool,
           shown, recovery, fresh, settings>>

Quietly == [of |-> "focused", n |-> 0]
NoBase == [active |-> 0, inMode |-> 0, run |-> Quietly]
Nothing == [kind |-> "none", left |-> 0]
Less(n) == IF n > 0 THEN n - 1 ELSE 0

----------------------------------------------------------------------------
(* The manager *)

\* Every change of the mode starts its counters and takes the reminder away.
SetMode(m) ==
    /\ mode # m /\ mode' = m
    /\ inMode' = 0 /\ run' = Quietly
    /\ shown' = Nothing /\ recovery' = 0
    /\ UNCHANGED <<active, studied, base, lastMode, wasQuiet, cool, fresh, settings>>

\* checkMidnightResetLocked
NewDay ==
    /\ mode' = "STANDBY" /\ active' = 0 /\ studied' = FALSE
    /\ inMode' = 0 /\ run' = Quietly /\ shown' = Nothing /\ recovery' = 0
    /\ UNCHANGED <<base, lastMode, wasQuiet, cool, fresh, settings>>

\* SetSettings forgets the baseline and the mode, not the cooldowns.
SetSettings ==
    /\ settings < MaxSettings /\ settings' = settings + 1
    /\ base' = NoBase /\ lastMode' = "none" /\ wasQuiet' = FALSE
    /\ fresh' = MaxCount
    /\ UNCHANGED <<mode, active, studied, inMode, run, cool, shown, recovery>>

\* What a tick sees of the user: at the task, at something unclassified, away
\* from the task, without input, or behind the lock screen.
Seen == {"focused", "unsure", "distracted", "idle", "locked"}

Ran(seen) == IF seen \notin {"distracted", "idle"} THEN Quietly
             ELSE [of |-> seen, n |-> (IF run.of = seen THEN run.n ELSE 0) + 1]
Counted(seen) ==
    /\ active' = (IF seen \in {"idle", "locked"} THEN active ELSE active + 1)
    /\ studied' = (studied \/ (mode = "STUDY" /\ seen \notin {"idle", "locked"}))
    /\ inMode' = (IF seen = "locked" \/ (mode = "STUDY" /\ seen = "idle")
                  THEN inMode ELSE inMode + 1)
    /\ run' = Ran(seen)
    /\ active' <= MaxCount /\ inMode' <= MaxCount /\ run'.n <= MaxCount

\* clearRecoveredReminderLocked
Recovering(seen) == mode = "STUDY" /\ seen = "focused" /\ shown.left > 1
Cleared(seen) ==
    IF ~Recovering(seen)
    THEN [shown |-> IF shown.left > 1 THEN [shown EXCEPT !.left = @ - 1] ELSE Nothing, since |-> 0]
    ELSE IF recovery = RecoveryFor THEN [shown |-> Nothing, since |-> 0]
    ELSE [shown |-> [shown EXCEPT !.left = @ - 1], since |-> recovery + 1]

----------------------------------------------------------------------------
(* The engine *)

Now == [active |-> active', inMode |-> inMode', run |-> run']

\* elapsedAfterBaseline: a counter that began again has no baseline any more.
Kept(b) == [active |-> IF Now.active < b.active THEN 0 ELSE b.active,
            inMode |-> IF Now.inMode < b.inMode THEN 0 ELSE b.inMode,
            run    |-> IF Now.run.of # b.run.of \/ Now.run.n < b.run.n THEN Quietly ELSE b.run]
Elapsed(b) == [active |-> Now.active - Kept(b).active,
               inMode |-> Now.inMode - Kept(b).inMode,
               run    |-> Now.run.n - Kept(b).run.n]

Level(n) == IF n >= Strong THEN {"TOAST"} ELSE IF n >= Warn THEN {"BUBBLE"} ELSE {}
\* The category the elapsed counters call for, if any.
Called(e) ==
    CASE mode = "STANDBY" -> IF e.active >= Active /\ ~studied' THEN {<<"standby", "BUBBLE">>} ELSE {}
      [] mode = "STUDY" -> IF Now.run.of = "focused" THEN {} ELSE {Now.run.of} \X Level(e.run)
      [] mode = "BREAK" -> {"break"} \X Level(e.inMode)
      [] OTHER -> {}

Wait(c) == IF c[1] = "standby" \/ c = <<"break", "TOAST">> THEN Repeat ELSE Cooldown
Cooled == [c \in Categories |-> Less(cool[c])]

Silent(seen) == /\ cool' = Cooled
                /\ shown' = Cleared(seen).shown /\ recovery' = Cleared(seen).since
Remind(seen, c) == /\ cool' = [Cooled EXCEPT ![c] = Wait(c)]
                   /\ shown' = [kind |-> c[1], left |-> Cooldown] /\ recovery' = 0

Capture == base' = Now
\* Mutant: the end of a quiet period is only noted.
QuietEndsLate(b) == base' = b /\ fresh' = 0
QuietEnds(b) == Capture /\ fresh' = 0

\* Evaluate, with the baseline b the change of the mode left.
Measured(seen, b, since) ==
    /\ base' = Kept(b) /\ fresh' = (IF since < MaxCount THEN since + 1 ELSE since)
    /\ IF \E c \in Called(Elapsed(b)) : Cooled[c] = 0
       THEN \E c \in Called(Elapsed(b)) : Remind(seen, c)
       ELSE Silent(seen)

Changed == lastMode # "none" /\ lastMode # mode
Evaluate(seen, quiet) ==
    /\ lastMode' = mode
    /\ \/ /\ mode = "OFF" /\ Silent(seen) /\ UNCHANGED <<base, wasQuiet, fresh>>
       \/ /\ mode # "OFF" /\ quiet /\ wasQuiet' = TRUE
          /\ Capture /\ fresh' = 0 /\ Silent(seen)
       \/ /\ mode # "OFF" /\ ~quiet /\ wasQuiet /\ wasQuiet' = FALSE
          /\ QuietEnds(IF Changed THEN Now ELSE base) /\ Silent(seen)
       \/ /\ mode # "OFF" /\ ~quiet /\ ~wasQuiet /\ wasQuiet' = FALSE
          /\ IF Changed THEN Measured(seen, Now, 0) ELSE Measured(seen, base, fresh)

Tick(seen, quiet) ==
    /\ Counted(seen)
    /\ UNCHANGED <<mode, settings>>
    /\ \/ mode # "EYE_CARE" /\ Evaluate(seen, quiet)
       \/ /\ mode = "EYE_CARE" /\ Silent(seen)
          /\ fresh' = (IF fresh < MaxCount THEN fresh + 1 ELSE fresh)
          /\ UNCHANGED <<base, lastMode, wasQuiet>>

RInit ==
    /\ mode = "STANDBY" /\ active = 0 /\ studied = FALSE /\ inMode = 0 /\ run = Quietly
    /\ base = NoBase /\ lastMode = "none" /\ wasQuiet = FALSE
    /\ cool = [c \in Categories |-> 0] /\ shown = Nothing /\ recovery = 0
    /\ fresh = 0 /\ settings = 0

RNext ==
    \/ \E m \in Modes : SetMode(m)
    \/ NewDay \/ SetSettings
    \/ \E seen \in Seen, quiet \in BOOLEAN : Tick(seen, quiet)

RSpec == RInit /\ [][RNext]_rvars

----------------------------------------------------------------------------
(* Properties *)

Runs == [of : {"focused", "distracted", "idle"}, n : 0..MaxCount]
TypeOK ==
    /\ mode \in Modes /\ lastMode \in Modes \cup {"none"}
    /\ active \in 0..MaxCount /\ inMode \in 0..MaxCount /\ run \in Runs
    /\ base \in [active : 0..MaxCount, inMode : 0..MaxCount, run : Runs]
    /\ studied \in BOOLEAN /\ wasQuiet \in BOOLEAN
    /\ \A c \in Categories : cool[c] \in 0..Wait(c)
    /\ shown.kind \in Kinds \cup {"none"} /\ shown.left \in 0..Cooldown
    /\ recovery \in 0..RecoveryFor
    /\ fresh \in 0..MaxCount /\ settings \in 0..MaxSettings

\* "A new mode starts its reminder clock at the transition tick instead of
\* inheriting counters accumulated in the previous mode" (engine.go), and so does
\* the end of a quiet period: a reminder means that many ticks have passed since.
\* Saving the settings gives the counters back their whole length, so that nothing
\* is said until the next such transition, and an eye-care break counts as part of
\* the mode around it.
Needed(kind) == IF kind = "standby" THEN Active ELSE IF Warn < Strong THEN Warn ELSE Strong
RemindedLater == \A c \in Categories : cool'[c] > cool[c] => fresh' >= Needed(c[1])
RemindersStartAnew == [][RemindedLater]_rvars

===============================================================================
