---------------------------- MODULE EvidenceWindow ----------------------------
(***************************************************************************)
(* automation.Controller and its settings (internal/automation): when the  *)
(* controller proposes to START, PAUSE or RESUME.                          *)
(*                                                                         *)
(* The worker evaluates each tick: what it saw joins the evidence of the   *)
(* last minutes, kept as contiguous samples ending now, and the totals in  *)
(* two windows decide.  Instants are kept as ages (the set of the age, or  *)
(* {} for the zero time), so a tick first moves them by the time since the *)
(* one before.  The mode, a waiting intent and the user's override belong  *)
(* to the manager, which may refuse any proposal: they are read anew at    *)
(* each tick.  Diagnostics and their audit are left out.                   *)
(***************************************************************************)
EXTENDS Integers, Sequences, FiniteSetsExt

CONSTANTS
    Configs,      \* settings the user may save, and the file's
    MaxSamples,   \* maxEvidenceSamples
    MaxGap,       \* maxEvidenceGap
    MaxSlips,     \* times the clock goes back, by one unit
    MaxSaves,     \* settings saved or failing to be
    MaxRestarts

VARIABLES
    cfg,       \* the controller's settings
    saved,     \* the row automation.config.v1
    samples,   \* what was seen in the last minutes, [kind, n]
    tracking,  \* lastEvaluatedAt is set
    sinceTransition, sinceLocked, sinceFocused,
    intent,    \* what the last tick proposed
    worked,    \* history: study seen since the last interruption
    slips, saves, restarts

evars == <<cfg, saved, samples, tracking, sinceTransition, sinceLocked,
           sinceFocused, intent, worked, slips, saves, restarts>>

Larger(a, b) == IF a > b THEN a ELSE b
Smaller(a, b) == IF a < b THEN a ELSE b

\* No age matters beyond the longest threshold, nor more work.
Cap == Max(UNION {{c.focused, c.unclassified, c.cooldown, c.locked, c.resume} : c \in Configs})
Unset == {}
Aged(since, gap) == {Smaller(age + gap, Cap) : age \in since}
Reached(since, d) == \E age \in since : age >= d

\* What one tick sees of study, by the relation and interaction of the
\* classification.
Signals == {"strong", "candidate", "neutral"}

\* signalKind: without allow_unclassified a candidate is a gap.
SignalKind(signal) == IF signal = "candidate" /\ ~cfg.allow THEN "neutral" ELSE signal

----------------------------------------------------------------------------
(* The evidence *)

\* evidenceTotalsLocked: the part of sample i within the last w.
After(s, i) ==
    LET sum[j \in i..Len(s)] == IF j = Len(s) THEN 0 ELSE s[j + 1].n + sum[j + 1] IN sum[i]
Within(s, w, i) == Larger(0, Smaller(s[i].n, w - After(s, i)))
Total(s, w, kinds) ==
    LET sum[i \in 0..Len(s)] ==
          IF i = 0 THEN 0 ELSE sum[i - 1] + (IF s[i].kind \in kinds THEN Within(s, w, i) ELSE 0)
    IN  sum[Len(s)]

Tail_(s, n) == IF Len(s) > n THEN SubSeq(s, Len(s) - n + 1, Len(s)) ELSE s
\* trimEvidenceLocked
Trimmed(s, w) ==
    LET kept == Tail_(s, Cardinality({i \in DOMAIN s : Within(s, w, i) > 0}))
    IN  [i \in DOMAIN kept |-> [kept[i] EXCEPT !.n = Within(kept, w, i)]]

\* advanceEvidenceLocked for a gap the evidence survives.
Advanced(kind, gap) ==
    Trimmed(Tail_(Append(samples, [kind |-> kind, n |-> gap]), MaxSamples),
            cfg.unclassified + cfg.grace)

Ready(s) ==
    \/ /\ Total(s, cfg.focused + cfg.grace, {"strong"}) >= cfg.focused
       /\ Total(s, cfg.focused + cfg.grace, {"neutral"}) <= cfg.grace
    \/ /\ Total(s, cfg.unclassified + cfg.grace, {"strong", "candidate"}) >= cfg.unclassified
       /\ Total(s, cfg.unclassified + cfg.grace, {"neutral"}) <= cfg.grace

ResetEvidence == samples' = <<>> /\ tracking' = FALSE /\ worked' = 0
\* Mutant: only the diagnostics learn of a hard blocker.
BlockedKeepsEvidence == UNCHANGED <<samples, tracking>> /\ worked' = 0
Blocked == ResetEvidence

----------------------------------------------------------------------------
(* Evaluate *)

Quiet == intent' = "none"
Propose(transition) == intent' = transition /\ sinceTransition' = {0}
Cooling(gap) == ~Reached(Aged(sinceTransition, gap), cfg.cooldown) /\ sinceTransition # Unset

Ages(gap) == /\ sinceTransition' = Aged(sinceTransition, gap)
             /\ sinceLocked' = Aged(sinceLocked, gap)
             /\ sinceFocused' = Aged(sinceFocused, gap)
\* Automation is off, an intent waits for the user's answer, the cooldown of the
\* last transition runs outside STANDBY, or there is nothing to watch for in the
\* mode: only the evidence is dropped, the other timers run on.
Suppressed(gap) == ResetEvidence /\ Ages(gap) /\ Quiet

\* evaluatePauseResumeLocked in STUDY.
Locking(locked, gap) == IF ~locked THEN Unset
                        ELSE IF sinceLocked = Unset THEN {0} ELSE Aged(sinceLocked, gap)
Pausing(locked, idle, gap) ==
    /\ sinceLocked' = Locking(locked, gap)
    /\ sinceFocused' = Aged(sinceFocused, gap)
    /\ IF Reached(Locking(locked, gap), cfg.locked) \/ idle
       THEN Propose("PAUSE")
       ELSE Quiet /\ sinceTransition' = Aged(sinceTransition, gap)

Snoozing(gap) == /\ sinceLocked' = Unset /\ sinceFocused' = Aged(sinceFocused, gap)
                 /\ sinceTransition' = Aged(sinceTransition, gap) /\ Quiet

\* evaluatePauseResumeLocked in a break automation began; study of the task, or
\* of any kind in free learning, may resume it.
Resuming(focused, gap) ==
    LET age == IF sinceFocused = Unset THEN {0} ELSE Aged(sinceFocused, gap)
    IN  /\ sinceLocked' = Aged(sinceLocked, gap)
        /\ sinceFocused' = IF focused THEN age ELSE Unset
        /\ IF focused /\ Reached(age, cfg.resume)
           THEN Propose("RESUME")
           ELSE Quiet /\ sinceTransition' = Aged(sinceTransition, gap)

\* In STUDY, in STUDY with the pause snoozed, or in a break.
Running(gap) ==
    /\ ~Cooling(gap)
    /\ ResetEvidence
    /\ \/ \E locked, idle \in BOOLEAN : Pausing(locked, idle, gap)
       \/ Snoozing(gap)
       \/ \E focused \in BOOLEAN : Resuming(focused, gap)

NotResuming(gap) == /\ sinceFocused' = Unset /\ sinceLocked' = Aged(sinceLocked, gap)

\* STANDBY without the automatic start or under the user's override, or with a
\* hard blocker: nothing to be studied with.
Standing(gap) ==
    /\ \/ ResetEvidence
       \/ cfg.start /\ Blocked
    /\ NotResuming(gap)
    /\ sinceTransition' = Aged(sinceTransition, gap) /\ Quiet

\* The first tick, one after the clock went back and one after a long gap only
\* begin the evidence.
Begins(gap) == ~tracking \/ gap < 0 \/ gap > MaxGap
Beginning(gap) ==
    /\ samples' = <<>> /\ tracking' = TRUE /\ worked' = 0
    /\ NotResuming(gap)
    /\ sinceTransition' = Aged(sinceTransition, gap) /\ Quiet

Gathering(kind, gap) ==
    /\ samples' = Advanced(kind, gap) /\ tracking' = TRUE
    /\ worked' = IF kind = "neutral" THEN worked ELSE Smaller(worked + gap, Cap)
    /\ NotResuming(gap)
    /\ IF kind # "neutral" /\ Ready(Advanced(kind, gap)) /\ ~Cooling(gap)
       THEN Propose("START")
       ELSE Quiet /\ sinceTransition' = Aged(sinceTransition, gap)

Evaluate(gap) ==
    /\ slips' = IF gap < 0 THEN slips + 1 ELSE slips
    /\ slips' <= MaxSlips
    /\ UNCHANGED <<cfg, saved, saves, restarts>>
    /\ \/ Suppressed(gap)
       \/ cfg.enabled /\ Running(gap)
       \/ cfg.enabled /\ Standing(gap)
       \/ /\ cfg.enabled /\ cfg.start
          /\ IF Begins(gap) THEN Beginning(gap)
             ELSE \E signal \in Signals : Gathering(SignalKind(signal), gap)

----------------------------------------------------------------------------
(* Settings *)

\* UpdateConfig and New: every timer starts again, the cooldown too.
Fresh == /\ ResetEvidence /\ intent' = "none"
         /\ sinceTransition' = Unset /\ sinceLocked' = Unset /\ sinceFocused' = Unset

\* SettingsService.Save: the row first; if it cannot be written, nothing changes.
SaveSettings(c) ==
    /\ saves < MaxSaves /\ saves' = saves + 1
    /\ \/ saved' = {c} /\ cfg' = c /\ Fresh
       \/ UNCHANGED <<cfg, saved, samples, tracking, worked, intent,
                      sinceTransition, sinceLocked, sinceFocused>>
    /\ UNCHANGED <<slips, restarts>>

\* A start reads the row; without one that can be loaded the file's settings run.
Restart(file) ==
    /\ restarts < MaxRestarts /\ restarts' = restarts + 1
    /\ cfg' \in {file} \cup saved
    /\ Fresh
    /\ UNCHANGED <<saved, slips, saves>>

EInit ==
    /\ cfg \in Configs /\ saved = {}
    /\ samples = <<>> /\ tracking = FALSE /\ worked = 0 /\ intent = "none"
    /\ sinceTransition = Unset /\ sinceLocked = Unset /\ sinceFocused = Unset
    /\ slips = 0 /\ saves = 0 /\ restarts = 0

ENext ==
    \/ \E gap \in {-1} \cup 1..(MaxGap + 1) : Evaluate(gap)
    \/ \E c \in Configs : SaveSettings(c)
    \/ \E c \in Configs : Restart(c)

ESpec == EInit /\ [][ENext]_evars

----------------------------------------------------------------------------
(* Properties *)

Since == {Unset} \cup {{age} : age \in (-MaxSlips)..Cap}
\* The evidence never outgrows its window nor its number of samples.
TypeOK ==
    /\ cfg \in Configs /\ saved \in {{}} \cup {{c} : c \in Configs}
    /\ \A i \in DOMAIN samples : samples[i].kind \in Signals /\ samples[i].n \in 1..MaxGap
    /\ Len(samples) <= MaxSamples
    /\ After(samples, 0) <= cfg.unclassified + cfg.grace
    /\ tracking \in BOOLEAN /\ (~tracking => samples = <<>>)
    /\ sinceTransition \in Since /\ sinceLocked \in Since /\ sinceFocused \in Since
    /\ intent \in {"none", "START", "PAUSE", "RESUME"}
    /\ worked \in 0..Cap
    /\ slips \in 0..MaxSlips /\ saves \in 0..MaxSaves /\ restarts \in 0..MaxRestarts

\* A session is proposed only on study seen for the required time since the last
\* interruption: a distraction, a lock, a mode change, an override, a gap of the
\* clock or new settings between two stretches of study starts the count again.
StartNeedsEvidence ==
    intent = "START" => worked >= Smaller(cfg.focused, cfg.unclassified)

===============================================================================
