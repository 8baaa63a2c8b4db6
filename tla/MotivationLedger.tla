--------------------------- MODULE MotivationLedger ---------------------------
(***************************************************************************)
(* Motivation: what a day's credited focus, missions, rewards and          *)
(* achievements leave in the database (internal/motivation,                *)
(* internal/storage/motivation.go and its handlers).                       *)
(*                                                                         *)
(* The worker credits one tick at a time in several statements; requests   *)
(* set the day's target, close missions and redeem rewards meanwhile.  The *)
(* database runs one transaction at a time.  Any statement may fail and    *)
(* the process may die between two.  Focus is counted in ticks.            *)
(***************************************************************************)
EXTENDS Integers, FiniteSets, FiniteSetsExt, Functions

CONSTANTS
    Missions,     \* missions
    OldMissions,  \* those made when a mission could still carry a reward
    Reward,       \* that reward
    Cost,         \* of the reward in the catalogue
    Rate, Hour,   \* points for an hour of focus, ticks of an hour
    Wishes,       \* daily targets the user may set; the least is the default
    CheckinAt,    \* focus of a check-in
    Goal,         \* achievement -> what it takes
    MaxDay, MaxFocus, MaxSets, MaxRedeem, MaxSlips   \* bounds of the checking

Days == 0..MaxDay
Achievements == {"FIRST_30", "DAILY_120", "STREAK", "WEEK_600", "MISSION_10", "COMEBACK"}
Actors == {"worker"} \cup Missions
Default == Min(Wishes)
Unset == 0
NoRecord == [focus |-> 0, target |-> Unset, checkin |-> FALSE, met |-> FALSE]
NoTick == [step |-> "idle", d |-> 0, target |-> Unset, news |-> {}]

VARIABLES
    day,         \* today
    daily,       \* motivation_daily: date -> focus, target and the two flags
    target,      \* motivation_settings
    comeback,    \* motivation_comeback_state
    mission,     \* status of each mission, "none" before it is created
    paid,        \* missions with a row in ap_ledger
    redeemed,    \* redemptions, each with a row in ap_ledger
    unlocked,    \* achievements
    told,        \* history: how often each of the Kinds was announced
    tick,        \* the worker's credit in progress
    closing,     \* missions completed, their revision still to be moved
    earned,      \* actor -> achievements it found earned and has yet to record
    sets, slips

mvars == <<day, daily, target, comeback, mission, paid, redeemed, unlocked, told,
           tick, closing, earned, sets, slips>>

Kinds == {<<"checkin", d>> : d \in Days} \cup {<<"achievement", a>> : a \in Achievements}
         \cup {<<"mission", m>> : m \in Missions}
Slip == slips < MaxSlips /\ slips' = slips + 1

FocusOn(dates) == SumFunctionOnSet([d \in Days |-> daily[d].focus], dates)
\* Points: earned by focus, rounded down once, and the ledger's rows.
Balance ==
    (FocusOn(Days) * Rate) \div Hour
      + Reward * Cardinality(paid \cap OldMissions) - Cost * redeemed

----------------------------------------------------------------------------
(* Announcements and achievements *)

\* emit: one event per thing announced, or none when the row cannot be written.
Announce(things) ==
    \/ told' = [k \in Kinds |-> IF k \in things THEN told[k] + 1 ELSE told[k]] /\ UNCHANGED slips
    \/ things # {} /\ Slip /\ UNCHANGED told

\* Dates in a row that were checked in, ending today or yesterday.
Streak ==
    LET last == IF daily[day].checkin THEN day ELSE day - 1
    IN Max({0} \cup {n \in 1..(last + 1) : \A i \in (last - n + 1)..last : daily[i].checkin})

\* evaluateAchievements' checks, each resting on one of its reads.
Reached(a) ==
    CASE a = "FIRST_30"   -> FocusOn(Days) >= Goal[a]
      [] a = "DAILY_120"  -> daily[day].focus >= Goal[a]
      [] a = "STREAK"     -> Streak >= Goal[a]
      [] a = "WEEK_600"   -> FocusOn({d \in Days : d > day - 7}) >= Goal[a]
      [] a = "MISSION_10" -> Cardinality({m \in Missions : mission[m] = "COMPLETED"}) >= Goal[a]
      [] a = "COMEBACK"   -> comeback.active /\ comeback.focus >= Goal[a]

\* Mutant: what is earned is announced, recorded or not.
AnnouncedAlways(a) == TRUE
\* UnlockAchievement inserts the row or finds it there.
NewlyUnlocked(a) == a \notin unlocked

Unlock(p, a) ==
    /\ a \in earned[p]
    /\ earned' = [earned EXCEPT ![p] = @ \ {a}]
    /\ \/ /\ unlocked' = unlocked \cup {a}
          /\ Announce(IF NewlyUnlocked(a) THEN {<<"achievement", a>>} ELSE {})
       \/ Slip /\ UNCHANGED <<unlocked, told>>
    /\ UNCHANGED <<day, daily, target, comeback, mission, paid, redeemed, tick, closing, sets>>

----------------------------------------------------------------------------
(* The worker: RecordTick *)

\* A tick away from the task starts a comeback over.
Distracted ==
    /\ tick.step = "idle" /\ earned["worker"] = {}
    /\ comeback' = [active |-> TRUE, focus |-> 0]
    /\ UNCHANGED <<day, daily, target, mission, paid, redeemed, unlocked, told, tick,
                   closing, earned, sets, slips>>

\* A tick that earns no credit interrupts it.
NotEligible ==
    /\ tick.step = "idle" /\ earned["worker"] = {}
    /\ comeback' = [comeback EXCEPT !.focus = 0]
    /\ UNCHANGED <<day, daily, target, mission, paid, redeemed, unlocked, told, tick,
                   closing, earned, sets, slips>>

\* GetMotivationTarget stores the default first; the target is read before the
\* transaction that uses it.
ReadTarget ==
    /\ tick.step = "idle" /\ earned["worker"] = {} /\ daily[day].focus < MaxFocus
    /\ target' = IF target = Unset THEN Default ELSE target
    /\ tick' = [step |-> "read", d |-> day, target |-> target', news |-> {}]
    /\ UNCHANGED <<day, daily, comeback, mission, paid, redeemed, unlocked, told,
                   closing, earned, sets, slips>>

\* RecordCreditedFocus
Credit ==
    /\ tick.step = "read"
    /\ LET old == daily[tick.d]
           total == old.focus + 1
           new == [focus |-> total, target |-> tick.target,
                   checkin |-> old.checkin \/ total >= CheckinAt,
                   met |-> old.met \/ total >= tick.target]
       IN \/ /\ daily' = [daily EXCEPT ![tick.d] = new]
             /\ tick' = [tick EXCEPT !.step = "credited",
                           !.news = IF new.checkin /\ ~old.checkin THEN {<<"checkin", tick.d>>} ELSE {}]
             /\ UNCHANGED slips
          \/ Slip /\ tick' = NoTick /\ UNCHANGED daily
    /\ UNCHANGED <<day, target, comeback, mission, paid, redeemed, unlocked, told,
                   closing, earned, sets>>

\* The comeback, the announcements and the achievements' reads.
AfterCredit ==
    /\ tick.step = "credited" /\ tick' = NoTick
    /\ comeback' = IF comeback.active /\ comeback.focus < MaxFocus
                   THEN [comeback EXCEPT !.focus = @ + 1] ELSE comeback
    /\ Announce(tick.news)
    /\ UNCHANGED <<day, daily, target, mission, paid, redeemed, unlocked, closing, sets>>
    /\ earned' = [earned EXCEPT !["worker"] = {a \in Achievements : Reached(a)'}]

----------------------------------------------------------------------------
(* Requests *)

\* SetMotivationTarget on today's row: whether it is met is worked out again,
\* and nothing is announced.
DayWithTarget(t) == [daily[day] EXCEPT !.target = t, !.met = daily[day].focus >= t]

SetDailyTarget(t) ==
    /\ sets < MaxSets /\ sets' = sets + 1
    /\ target' = t
    /\ daily' = [daily EXCEPT ![day] = DayWithTarget(t)]
    /\ UNCHANGED <<day, comeback, mission, paid, redeemed, unlocked, told, tick,
                   closing, earned, slips>>

\* handleMissions: a new mission has no reward.
CreateMission(m) ==
    /\ mission[m] = "none" /\ m \notin OldMissions
    /\ mission' = [mission EXCEPT ![m] = "OPEN"]
    /\ UNCHANGED <<day, daily, target, comeback, paid, redeemed, unlocked, told, tick,
                   closing, earned, sets, slips>>

\* CompleteMission's transaction; asked again of a closed mission it does nothing.
CompleteMission(m) ==
    /\ mission[m] = "OPEN"
    /\ mission' = [mission EXCEPT ![m] = "COMPLETED"]
    /\ paid' = IF m \in OldMissions THEN paid \cup {m} ELSE paid
    /\ closing' = closing \cup {m}
    /\ UNCHANGED <<day, daily, target, comeback, redeemed, unlocked, told, tick,
                   earned, sets, slips>>

\* The evidence revision moves after the commit; when it fails the call fails,
\* and a retry finds the mission closed and announces nothing.
AfterComplete(m) ==
    /\ m \in closing /\ closing' = closing \ {m}
    /\ \/ /\ Announce({<<"mission", m>>})
          /\ earned' = [earned EXCEPT ![m] = {a \in Achievements : Reached(a)}]
       \/ Slip /\ UNCHANGED <<told, earned>>
    /\ UNCHANGED <<day, daily, target, comeback, mission, paid, redeemed, unlocked, tick, sets>>

\* Mutant: whatever the mission's status.
Cancellable(m) == mission[m] \in {"OPEN", "COMPLETED"}
OpenMission(m) == mission[m] = "OPEN"
CancelMission(m) ==
    /\ OpenMission(m)
    /\ mission' = [mission EXCEPT ![m] = "CANCELLED"]
    /\ UNCHANGED <<day, daily, target, comeback, paid, redeemed, unlocked, told, tick,
                   closing, earned, sets, slips>>

\* RedeemReward: the balance is read in the transaction that spends it.
RedeemReward ==
    /\ redeemed < MaxRedeem /\ Balance >= Cost
    /\ redeemed' = redeemed + 1
    /\ UNCHANGED <<day, daily, target, comeback, mission, paid, unlocked, told, tick,
                   closing, earned, sets, slips>>

----------------------------------------------------------------------------
Midnight ==
    /\ day < MaxDay /\ day' = day + 1
    /\ UNCHANGED <<daily, target, comeback, mission, paid, redeemed, unlocked, told, tick,
                   closing, earned, sets, slips>>

Die ==
    /\ Slip
    /\ tick' = NoTick /\ closing' = {} /\ earned' = [p \in Actors |-> {}]
    /\ UNCHANGED <<day, daily, target, comeback, mission, paid, redeemed, unlocked, told, sets>>

MInit ==
    /\ day = 0 /\ daily = [d \in Days |-> NoRecord] /\ target = Unset
    /\ comeback = [active |-> FALSE, focus |-> 0]
    /\ mission = [m \in Missions |-> IF m \in OldMissions THEN "OPEN" ELSE "none"]
    /\ paid = {} /\ redeemed = 0 /\ unlocked = {}
    /\ told = [k \in Kinds |-> 0]
    /\ tick = NoTick /\ closing = {} /\ earned = [p \in Actors |-> {}]
    /\ sets = 0 /\ slips = 0

MNext ==
    \/ Distracted \/ NotEligible \/ ReadTarget \/ Credit \/ AfterCredit
    \/ \E p \in Actors, a \in Achievements : Unlock(p, a)
    \/ \E t \in Wishes : SetDailyTarget(t)
    \/ \E m \in Missions : CreateMission(m)
    \/ \E m \in Missions : CompleteMission(m)
    \/ \E m \in Missions : AfterComplete(m)
    \/ \E m \in Missions : CancelMission(m)
    \/ RedeemReward \/ Midnight \/ Die

MSpec == MInit /\ [][MNext]_mvars

----------------------------------------------------------------------------
(* Properties *)

TypeOK ==
    /\ day \in Days
    /\ daily \in [Days -> [focus : 0..MaxFocus, target : Wishes \cup {Unset},
                           checkin : BOOLEAN, met : BOOLEAN]]
    /\ target \in Wishes \cup {Unset}
    /\ comeback \in [active : BOOLEAN, focus : 0..MaxFocus]
    /\ mission \in [Missions -> {"none", "OPEN", "COMPLETED", "CANCELLED"}]
    /\ paid \subseteq Missions /\ redeemed \in 0..MaxRedeem
    /\ unlocked \subseteq Achievements
    /\ told \in [Kinds -> Nat]
    /\ tick.step \in {"idle", "read", "credited"} /\ tick.target \in Wishes \cup {Unset}
    /\ closing \subseteq Missions
    /\ earned \in [Actors -> SUBSET Achievements]

\* Points spent were earned and stay earned: whatever the order of credits,
\* target changes, closed missions and redemptions, the balance never falls below
\* zero, and exactly the completed missions that carry a reward have been paid.
LedgerAddsUp ==
    /\ Balance >= 0
    /\ paid = {m \in OldMissions : mission[m] = "COMPLETED"}

\* A check-in, an achievement and a completed mission are announced at most once,
\* however often they are reached, retried or evaluated by two at a time, and only
\* when the table says so.  (Meeting the daily target is announced as well, and again
\* after the target is changed; it is not among the Kinds.)
ToldOnce ==
    /\ \A k \in Kinds : told[k] <= 1
    /\ \A d \in Days : told[<<"checkin", d>>] = 1 => daily[d].checkin
    /\ \A a \in Achievements : told[<<"achievement", a>>] = 1 => a \in unlocked
    /\ \A m \in Missions : told[<<"mission", m>>] = 1 => mission[m] = "COMPLETED"

===============================================================================
