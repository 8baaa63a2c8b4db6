----------------------------- MODULE RecordProofs -----------------------------
(***************************************************************************)
(* What the records of the supervisor keep right, for every value of the   *)
(* constants: MotivationLedger pays no point that was not earned and       *)
(* announces no check-in, achievement or mission twice, CollectorDelivery  *)
(* counts a turn once as long as its old flag is read undisturbed, and     *)
(* AISettings neither loses a key nor uses a deleted one.  Each is an      *)
(* instance over variables of its own.                                     *)
(***************************************************************************)
EXTENDS MotivationLedger, SequenceTheorems, SumTheorems

(***************************************************************************)
(* MotivationLedger.  What keeps an announcement from being repeated is    *)
(* the table: a check-in is news only when the credit's transaction set    *)
(* the flag, an achievement when its row was inserted, a mission when its  *)
(* transaction closed it.  OnceInv says where such news is on its way.     *)
(***************************************************************************)

\* The fields of a day's row and of a tick, whatever targets the user may set.
IsRecord(r) ==
    /\ r = [focus |-> r.focus, target |-> r.target, checkin |-> r.checkin, met |-> r.met]
    /\ r.checkin \in BOOLEAN
IsTick(t) == t = [step |-> t.step, d |-> t.d, target |-> t.target, news |-> t.news]

Typed ==
    /\ day \in Days
    /\ DOMAIN daily = Days /\ \A d \in Days : IsRecord(daily[d])
    /\ daily = [d \in Days |-> daily[d]]
    /\ mission \in [Missions -> {"none", "OPEN", "COMPLETED", "CANCELLED"}]
    /\ told \in [Kinds -> {0, 1}]
    /\ IsTick(tick) /\ (tick.step # "idle" => tick.d \in Days)

NewsInv ==
    /\ tick.step # "credited" => tick.news = {}
    /\ tick.news \subseteq {<<"checkin", tick.d>>}
    /\ tick.news # {} => told[<<"checkin", tick.d>>] = 0 /\ daily[tick.d].checkin

CheckinInv == \A d \in Days : told[<<"checkin", d>>] = 1 => daily[d].checkin
AchievementInv == \A a \in Achievements : told[<<"achievement", a>>] = 1 => a \in unlocked
MissionInv ==
    /\ \A m \in Missions :
         told[<<"mission", m>>] = 1 => mission[m] = "COMPLETED" /\ m \notin closing
    /\ \A m \in closing : mission[m] = "COMPLETED"

OnceInv == Typed /\ NewsInv /\ CheckinInv /\ AchievementInv /\ MissionInv

\* What is announced of different kinds is different.
LEMMA KindsAreApart ==
  /\ \A d \in Days : <<"checkin", d>> \in Kinds
  /\ \A a \in Achievements : <<"achievement", a>> \in Kinds
  /\ \A m \in Missions : <<"mission", m>> \in Kinds
  /\ \A x, y : <<"checkin", x>> # <<"achievement", y>>
  /\ \A x, y : <<"checkin", x>> # <<"mission", y>>
  /\ \A x, y : <<"achievement", x>> # <<"mission", y>>
  /\ \A s, x, y : <<s, x>> = <<s, y>> => x = y
  BY DEF Kinds

\* Announcing what was not announced before makes it once.
LEMMA AnnounceFacts ==
  ASSUME told \in [Kinds -> {0, 1}], NEW things, Announce(things),
         \A k \in things : k \in Kinds => told[k] = 0
  PROVE  /\ told' \in [Kinds -> {0, 1}]
         /\ \A k \in Kinds : k \notin things => told'[k] = told[k]
  <1>1. CASE told' = told BY <1>1
  <1>2. CASE told' = [k \in Kinds |-> IF k \in things THEN told[k] + 1 ELSE told[k]]
    <2>1. \A k \in Kinds : told'[k] = IF k \in things THEN told[k] + 1 ELSE told[k]
      BY <1>2
    <2>2. \A k \in Kinds : k \in things => told[k] + 1 = 1 OBVIOUS
    <2>3. \A k \in Kinds : told'[k] \in {0, 1} BY <2>1, <2>2
    <2> QED BY <1>2, <2>1, <2>3
  <1> QED BY <1>1, <1>2 DEF Announce

\* A credit's transaction makes a check-in news only when it sets the flag.
LEMMA CreditKeeps == ASSUME OnceInv, Credit PROVE OnceInv'
  <1> DEFINE old == daily[tick.d]
             total == old.focus + 1
             new == [focus |-> total, target |-> tick.target,
                     checkin |-> old.checkin \/ total >= CheckinAt,
                     met |-> old.met \/ total >= tick.target]
  <1>1. Typed /\ tick.d \in Days /\ IsRecord(old) BY DEF OnceInv, Typed, Credit
  <1>2. UNCHANGED <<day, mission, told, unlocked, closing>> BY DEF Credit
  <1>3. CASE daily' = daily /\ tick' = NoTick
    BY <1>1, <1>2, <1>3 DEF OnceInv, Typed, IsTick, NoTick, NewsInv, CheckinInv,
                            AchievementInv, MissionInv
  <1>4. CASE /\ daily' = [daily EXCEPT ![tick.d] = new]
             /\ tick' = [tick EXCEPT !.step = "credited",
                           !.news = IF new.checkin /\ ~old.checkin
                                    THEN {<<"checkin", tick.d>>} ELSE {}]
    <2>1. new.checkin \in BOOLEAN /\ (old.checkin => new.checkin) /\ IsRecord(new)
      BY <1>1 DEF IsRecord
    <2> DEFINE news == IF new.checkin /\ ~old.checkin THEN {<<"checkin", tick.d>>} ELSE {}
    <2>2. /\ tick'.step = "credited" /\ tick'.d = tick.d /\ tick'.news = news
          /\ IsTick(tick')
      BY <1>1, <1>4 DEF Typed, IsTick
    <2> HIDE DEF new
    <2>3. /\ DOMAIN daily' = Days /\ daily' = [d \in Days |-> daily'[d]]
          /\ daily'[tick.d] = new
          /\ \A d \in Days : d # tick.d => daily'[d] = daily[d]
      BY <1>1, <1>4 DEF Typed
    <2>4. Typed' BY <1>1, <1>2, <2>1, <2>2, <2>3 DEF Typed
    <2>5. CheckinInv'
      <3>1. \A d \in Days : daily[d].checkin => daily'[d].checkin
        BY <2>1, <2>3
      <3> QED BY <1>2, <3>1 DEF CheckinInv, OnceInv
    <2>6. NewsInv'
      <3>1. CASE new.checkin /\ ~old.checkin
        <4>1. tick'.news = {<<"checkin", tick.d>>} BY <2>2, <3>1
        <4>2. told[<<"checkin", tick.d>>] # 1 BY <1>1, <3>1 DEF OnceInv, CheckinInv
        <4>3. told[<<"checkin", tick.d>>] = 0
          BY <1>1, <4>2, KindsAreApart DEF Typed
        <4> QED BY <1>2, <2>2, <2>3, <3>1, <4>1, <4>3 DEF NewsInv
      <3>2. CASE ~(new.checkin /\ ~old.checkin)
        <4>1. tick'.news = {} BY <2>2, <3>2
        <4> QED BY <4>1 DEF NewsInv
      <3> QED BY <3>1, <3>2
    <2> QED BY <1>2, <2>4, <2>5, <2>6 DEF OnceInv, AchievementInv, MissionInv
  <1> QED BY <1>3, <1>4 DEF Credit

\* The news of a tick is announced with the tick, and dropped.
LEMMA AfterCreditKeeps == ASSUME OnceInv, AfterCredit PROVE OnceInv'
  <1>1. UNCHANGED <<day, daily, mission, unlocked, closing>> /\ tick' = NoTick
    BY DEF AfterCredit
  <1>2. tick.d \in Days BY DEF AfterCredit, OnceInv, Typed
  <1>3. \A k \in tick.news : k = <<"checkin", tick.d>> /\ told[k] = 0 /\ daily[tick.d].checkin
    BY DEF OnceInv, NewsInv
  <1>4. /\ told' \in [Kinds -> {0, 1}]
        /\ \A k \in Kinds : k \notin tick.news => told'[k] = told[k]
    BY <1>3, AnnounceFacts DEF AfterCredit, OnceInv, Typed
  <1>5. Typed' BY <1>1, <1>4 DEF OnceInv, Typed, IsTick, NoTick
  <1>6. NewsInv' BY <1>1 DEF NewsInv, NoTick
  <1>7. CheckinInv'
    <2> SUFFICES ASSUME NEW d \in Days, told'[<<"checkin", d>>] = 1 PROVE daily[d].checkin
      BY <1>1 DEF CheckinInv
    <2>1. CASE <<"checkin", d>> \in tick.news
      BY <1>3, <2>1, KindsAreApart
    <2>2. CASE <<"checkin", d>> \notin tick.news
      BY <1>4, <2>2, KindsAreApart DEF OnceInv, CheckinInv
    <2> QED BY <2>1, <2>2
  <1>8. \A a \in Achievements : told'[<<"achievement", a>>] = told[<<"achievement", a>>]
    BY <1>3, <1>4, KindsAreApart
  <1>9. \A m \in Missions : told'[<<"mission", m>>] = told[<<"mission", m>>]
    BY <1>3, <1>4, KindsAreApart
  <1> QED BY <1>1, <1>5, <1>6, <1>7, <1>8, <1>9 DEF OnceInv, AchievementInv, MissionInv

\* An achievement is announced only by the insert of its row.
LEMMA UnlockKeeps ==
  ASSUME OnceInv, NEW p \in Actors, NEW a \in Achievements, Unlock(p, a)
  PROVE  OnceInv'
  <1>1. UNCHANGED <<day, daily, mission, closing, tick>> BY DEF Unlock
  <1>2. CASE UNCHANGED <<unlocked, told>>
    BY <1>1, <1>2 DEF OnceInv, Typed, NewsInv, CheckinInv, AchievementInv, MissionInv
  <1>3. CASE /\ unlocked' = unlocked \cup {a}
             /\ Announce(IF NewlyUnlocked(a) THEN {<<"achievement", a>>} ELSE {})
    <2> DEFINE news == IF NewlyUnlocked(a) THEN {<<"achievement", a>>} ELSE {}
    <2>1. \A k \in news : k = <<"achievement", a>> /\ told[k] = 0
      <3>1. NewlyUnlocked(a) => told[<<"achievement", a>>] # 1
        BY DEF NewlyUnlocked, OnceInv, AchievementInv
      <3>2. told[<<"achievement", a>>] \in {0, 1} BY KindsAreApart DEF OnceInv, Typed
      <3> QED BY <3>1, <3>2
    <2> HIDE DEF news
    <2>2. /\ told' \in [Kinds -> {0, 1}]
          /\ \A k \in Kinds : k \notin news => told'[k] = told[k]
      <3>1. Announce(news) BY <1>3 DEF news
      <3> QED BY <2>1, <3>1, AnnounceFacts DEF OnceInv, Typed
    <2>3. /\ \A d \in Days : told'[<<"checkin", d>>] = told[<<"checkin", d>>]
          /\ \A m \in Missions : told'[<<"mission", m>>] = told[<<"mission", m>>]
          /\ \A b \in Achievements :
               b # a => told'[<<"achievement", b>>] = told[<<"achievement", b>>]
      BY <2>1, <2>2, KindsAreApart
    <2>4. AchievementInv' BY <1>3, <2>3 DEF OnceInv, AchievementInv
    <2>5. Typed' BY <1>1, <2>2 DEF OnceInv, Typed
    <2>6. NewsInv'
      <3>1. tick.news # {} => tick.d \in Days BY DEF OnceInv, Typed, NewsInv
      <3> QED BY <1>1, <2>3, <3>1 DEF OnceInv, NewsInv
    <2> QED BY <1>1, <2>3, <2>4, <2>5, <2>6 DEF OnceInv, CheckinInv, MissionInv
  <1> QED BY <1>2, <1>3 DEF Unlock

\* A mission is told between its completion and whatever follows, and only then.
LEMMA AfterCompleteKeeps ==
  ASSUME OnceInv, NEW m \in Missions, AfterComplete(m)
  PROVE  OnceInv'
  <1>1. UNCHANGED <<day, daily, mission, unlocked, tick>> /\ closing' = closing \ {m}
        /\ m \in closing
    BY DEF AfterComplete
  <1>2. CASE told' = told
    BY <1>1, <1>2 DEF OnceInv, Typed, NewsInv, CheckinInv, AchievementInv, MissionInv
  <1>3. CASE Announce({<<"mission", m>>})
    <2>1. mission[m] = "COMPLETED" BY <1>1 DEF OnceInv, MissionInv
    <2>2. told[<<"mission", m>>] = 0
      <3>1. told[<<"mission", m>>] # 1 BY <1>1 DEF OnceInv, MissionInv
      <3>2. told[<<"mission", m>>] \in {0, 1} BY KindsAreApart DEF OnceInv, Typed
      <3> QED BY <3>1, <3>2
    <2>3. /\ told' \in [Kinds -> {0, 1}]
          /\ \A k \in Kinds : k # <<"mission", m>> => told'[k] = told[k]
      BY <1>3, <2>2, AnnounceFacts DEF OnceInv, Typed
    <2>4. /\ \A d \in Days : told'[<<"checkin", d>>] = told[<<"checkin", d>>]
          /\ \A a \in Achievements : told'[<<"achievement", a>>] = told[<<"achievement", a>>]
          /\ \A n \in Missions : n # m => told'[<<"mission", n>>] = told[<<"mission", n>>]
      BY <2>3, KindsAreApart
    <2>5. MissionInv' BY <1>1, <2>1, <2>4 DEF OnceInv, MissionInv
    <2>6. Typed' BY <1>1, <2>3 DEF OnceInv, Typed
    <2>7. NewsInv'
      <3>1. tick.news # {} => tick.d \in Days BY DEF OnceInv, Typed, NewsInv
      <3> QED BY <1>1, <2>4, <3>1 DEF OnceInv, NewsInv
    <2> QED BY <1>1, <2>4, <2>5, <2>6, <2>7 DEF OnceInv, CheckinInv, AchievementInv
  <1> QED BY <1>2, <1>3 DEF AfterComplete

\* A mission that is open is not told yet.
LEMMA MissionKeeps ==
  ASSUME OnceInv, NEW m \in Missions,
         CreateMission(m) \/ CompleteMission(m) \/ CancelMission(m)
  PROVE  OnceInv'
  <1>1. UNCHANGED <<day, daily, told, unlocked, tick>>
    BY DEF CreateMission, CompleteMission, CancelMission
  <1>2. PICK s \in {"OPEN", "COMPLETED", "CANCELLED"} :
          /\ mission[m] \in {"none", "OPEN"} /\ mission' = [mission EXCEPT ![m] = s]
          /\ closing' = closing \/ (s = "COMPLETED" /\ closing' = closing \cup {m})
    BY DEF CreateMission, CompleteMission, CancelMission, OpenMission
  <1>3. mission \in [Missions -> {"none", "OPEN", "COMPLETED", "CANCELLED"}]
    BY DEF OnceInv, Typed
  <1>4. /\ mission' \in [Missions -> {"none", "OPEN", "COMPLETED", "CANCELLED"}]
        /\ mission'[m] = s
        /\ \A n \in Missions : n # m => mission'[n] = mission[n]
    BY <1>2, <1>3
  <1>5. told[<<"mission", m>>] # 1 /\ m \notin closing
    BY <1>2 DEF OnceInv, MissionInv
  <1>6. \A n \in closing' : mission'[n] = "COMPLETED"
    <2>1. \A n \in closing : mission'[n] = mission[n]
      BY <1>2, <1>3, <1>5
    <2> QED BY <1>2, <1>4, <2>1 DEF OnceInv, MissionInv
  <1>7. \A n \in Missions :
          told'[<<"mission", n>>] = 1 => mission'[n] = "COMPLETED" /\ n \notin closing'
    BY <1>1, <1>2, <1>4, <1>5 DEF OnceInv, MissionInv
  <1> QED BY <1>1, <1>4, <1>6, <1>7 DEF OnceInv, Typed, NewsInv, CheckinInv, AchievementInv,
                                        MissionInv

\* A new target leaves the rest of a row.
LEMMA RowWithTarget ==
  ASSUME NEW r, NEW focus, NEW wish, NEW checkin, NEW met, NEW t, NEW reached,
         r = [focus |-> focus, target |-> wish, checkin |-> checkin, met |-> met]
  PROVE  [r EXCEPT !.target = t, !.met = reached]
           = [focus |-> focus, target |-> t, checkin |-> checkin, met |-> reached]
  <1>1. r \in [focus : {focus}, target : {wish}, checkin : {checkin}, met : {met}]
    OBVIOUS
  <1>2. [r EXCEPT !.target = t, !.met = reached]
          \in [focus : {focus}, target : {t}, checkin : {checkin}, met : {reached}]
    BY <1>1
  <1>3. \A q \in [focus : {focus}, target : {t}, checkin : {checkin}, met : {reached}] :
          q = [focus |-> focus, target |-> t, checkin |-> checkin, met |-> reached]
    OBVIOUS
  <1> QED BY <1>2, <1>3

\* A new target leaves the check-in of the day as it is.
LEMMA TargetKeeps == ASSUME OnceInv, NEW t, SetDailyTarget(t) PROVE OnceInv'
  <1>1. UNCHANGED <<day, mission, told, unlocked, tick, closing>>
    BY DEF SetDailyTarget
  <1>2. day \in Days /\ IsRecord(daily[day]) BY DEF OnceInv, Typed
  <1> DEFINE new == DayWithTarget(t)
  <1>3. new.checkin = daily[day].checkin /\ IsRecord(new)
    <2>1. new = [focus |-> daily[day].focus, target |-> t,
                 checkin |-> daily[day].checkin, met |-> daily[day].focus >= t]
      <3> DEFINE r == daily[day]
      <3>2. new = [r EXCEPT !.target = t, !.met = r.focus >= t] BY DEF DayWithTarget
      <3>3. r = [focus |-> r.focus, target |-> r.target, checkin |-> r.checkin, met |-> r.met]
        BY <1>2 DEF IsRecord
      <3> HIDE DEF r, new
      <3>4. new = [focus |-> r.focus, target |-> t, checkin |-> r.checkin, met |-> r.focus >= t]
        BY <3>2, <3>3, RowWithTarget
      <3> QED BY <3>4 DEF r
    <2> HIDE DEF new
    <2> QED BY <1>2, <2>1 DEF IsRecord
  <1>4. daily' = [daily EXCEPT ![day] = new] BY DEF SetDailyTarget
  <1> HIDE DEF new
  <1>5. /\ DOMAIN daily' = Days /\ daily' = [d \in Days |-> daily'[d]]
        /\ \A d \in Days : daily'[d].checkin = daily[d].checkin /\ IsRecord(daily'[d])
    BY <1>2, <1>3, <1>4 DEF OnceInv, Typed
  <1>6. tick.news # {} => tick.d \in Days BY DEF OnceInv, Typed, NewsInv
  <1>7. NewsInv' BY <1>1, <1>5, <1>6 DEF OnceInv, NewsInv
  <1> QED BY <1>1, <1>5, <1>7 DEF OnceInv, Typed, CheckinInv, AchievementInv, MissionInv

\* Every step of MotivationLedger keeps the invariant.
LEMMA OnceStep == ASSUME MaxDay \in Nat PROVE OnceInv /\ [MNext]_mvars => OnceInv'
  <1> SUFFICES ASSUME OnceInv, [MNext]_mvars PROVE OnceInv'
    OBVIOUS
  <1>1. CASE Distracted \/ NotEligible \/ RedeemReward \/ UNCHANGED mvars
    BY <1>1 DEF Distracted, NotEligible, RedeemReward, mvars, OnceInv, Typed, NewsInv,
                CheckinInv, AchievementInv, MissionInv
  <1>2. CASE ReadTarget
    <2>1. UNCHANGED <<day, daily, mission, unlocked, told, closing>>
          /\ tick' = [step |-> "read", d |-> day, target |-> target', news |-> {}]
      BY <1>2 DEF ReadTarget
    <2> QED BY <2>1 DEF OnceInv, Typed, IsTick, NewsInv, CheckinInv, AchievementInv, MissionInv
  <1>3. CASE Credit BY <1>3, CreditKeeps
  <1>4. CASE AfterCredit BY <1>4, AfterCreditKeeps
  <1>5. ASSUME NEW p \in Actors, NEW a \in Achievements, Unlock(p, a) PROVE OnceInv'
    BY <1>5, UnlockKeeps
  <1>6. ASSUME NEW t \in Wishes, SetDailyTarget(t) PROVE OnceInv' BY <1>6, TargetKeeps
  <1>7. ASSUME NEW m \in Missions, CreateMission(m) \/ CompleteMission(m) \/ CancelMission(m)
        PROVE  OnceInv'
    BY <1>7, MissionKeeps
  <1>8. ASSUME NEW m \in Missions, AfterComplete(m) PROVE OnceInv'
    BY <1>8, AfterCompleteKeeps
  <1>9. CASE Midnight
    <2>1. day' \in Days BY <1>9 DEF Midnight, Days, OnceInv, Typed
    <2> QED BY <1>9, <2>1 DEF Midnight, OnceInv, Typed, NewsInv, CheckinInv, AchievementInv,
                              MissionInv
  <1>10. CASE Die
    <2>1. UNCHANGED <<day, daily, mission, unlocked, told>> /\ tick' = NoTick /\ closing' = {}
      BY <1>10 DEF Die
    <2> QED BY <2>1 DEF OnceInv, Typed, IsTick, NoTick, NewsInv, CheckinInv, AchievementInv,
                        MissionInv
  <1> QED BY <1>1, <1>2, <1>3, <1>4, <1>5, <1>6, <1>7, <1>8, <1>9, <1>10 DEF MNext

\* A check-in, an achievement and a completed mission are announced once at most
\* and only when the table holds them, for any missions, days, thresholds and
\* failures, however credits, retries and requests come between each other.  (The
\* daily target may be reached again after the user changed it, and is not one of
\* the Kinds.)
THEOREM AnnouncedOnce == ASSUME MaxDay \in Nat PROVE MSpec => []ToldOnce
  <1>1. MInit => OnceInv
    <2> SUFFICES ASSUME MInit PROVE OnceInv
      OBVIOUS
    <2>1. daily = [d \in Days |-> NoRecord] BY DEF MInit
    <2>2. IsRecord(NoRecord) BY DEF IsRecord, NoRecord
    <2>3. told = [k \in Kinds |-> 0] BY DEF MInit
    <2>4. \A k \in Kinds : told[k] = 0 BY <2>3
    <2>5. Typed BY <2>1, <2>2, <2>3 DEF MInit, Typed, Days, IsTick, NoTick
    <2> QED BY <2>4, <2>5, KindsAreApart DEF MInit, OnceInv, NewsInv, CheckinInv,
               AchievementInv, MissionInv, NoTick
  <1>2. OnceInv => ToldOnce
    <2>1. Typed => \A k \in Kinds : told[k] <= 1
      <3>1. Typed => \A k \in Kinds : told[k] \in {0, 1} BY DEF Typed
      <3> QED BY <3>1
    <2> QED BY <2>1 DEF OnceInv, CheckinInv, AchievementInv, MissionInv, ToldOnce
  <1> QED BY <1>1, <1>2, OnceStep, PTL DEF MSpec

-----------------------------------------------------------------------------
(***************************************************************************)
(* MotivationLedger's points. The balance is computed from the tables:     *)
(* focus over all days, missions paid, rewards redeemed. LedgerInv says    *)
(* that each is what the history of credits, completions and redemptions   *)
(* adds up to.                                                             *)
(***************************************************************************)
\* Rates are naturals (motivation.go's constants and the table's columns), days finite.
LedgerBounds ==
    /\ MaxDay \in Nat /\ Rate \in Nat /\ Hour \in Nat /\ Hour > 0 /\ Reward \in Nat /\ Cost \in Nat
    /\ OldMissions \subseteq Missions /\ IsFiniteSet(OldMissions)

Focused == [d \in Days |-> daily[d].focus]
\* What a day's row and the worker's tick are, as far as points go.
Credited ==
    /\ DOMAIN daily = Days /\ \A d \in Days : daily[d].focus \in Nat
    /\ day \in Days /\ (tick.step # "idle" => tick.d \in Days)
    /\ mission \in [Missions -> {"none", "OPEN", "COMPLETED", "CANCELLED"}]
    /\ redeemed \in Nat
Paid == paid = {m \in OldMissions : mission[m] = "COMPLETED"}
LedgerInv == Credited /\ Paid /\ Balance >= 0

\* There are finitely many days.
LEMMA DaysFact == ASSUME LedgerBounds PROVE IsFiniteSet(Days) /\ 0 \in Days
<1>1. IsFiniteSet(0 .. MaxDay)
  BY FS_Interval DEF LedgerBounds
<1> QED
  BY <1>1 DEF Days, LedgerBounds

\* The focus of all days, and points, grow with one.
LEMMA FocusFacts ==
    ASSUME LedgerBounds, \A d \in Days : daily[d].focus \in Nat
    PROVE  FocusOn(Days) \in Nat /\ FocusOn(Days) = SumOver(Focused, Days)
<1>1. FocusOn(Days) = SumOver(Focused, Days)
  BY SumOverIsSum DEF FocusOn, Focused
<1>2. \A d \in Days : Focused[d] \in Nat
  BY DEF Focused
<1>3. SumOver(Focused, Days) \in Nat
  BY <1>2, DaysFact, SumIsNat
<1> QED
  BY <1>1, <1>3

\* More focus never earns fewer points, whatever the rounding.
LEMMA DivFacts ==
    ASSUME NEW a \in Nat, NEW b \in Nat, a <= b, NEW r \in Nat, NEW h \in Nat, h > 0
    PROVE  /\ (a * r) \div h <= (b * r) \div h
           /\ (a * r) \div h \in Nat /\ (b * r) \div h \in Nat
<1>1. a * r <= b * r /\ a * r \in Nat /\ b * r \in Nat
  OBVIOUS
<1> DEFINE m == a * r
           n == b * r
<1>2. m \in Nat /\ n \in Nat /\ m <= n
  BY <1>1
<1> HIDE DEF m, n
<1>3. m \div h <= n \div h /\ m \div h \in Nat /\ n \div h \in Nat
  BY <1>2
<1> QED
  BY <1>3 DEF m, n

\* A balance is a number, and grows with focus and with what was paid.
LEMMA BalanceGrows ==
    ASSUME LedgerBounds, Credited, Credited', FocusOn(Days)' >= FocusOn(Days),
           paid \cap OldMissions \subseteq paid' \cap OldMissions, UNCHANGED redeemed
    PROVE  Balance \in Int /\ (Balance >= 0 => Balance' >= 0)
<1> DEFINE f == FocusOn(Days)
           g == FocusOn(Days)'
           p == Cardinality(paid \cap OldMissions)
           q == Cardinality(paid' \cap OldMissions)
           c == Cost * redeemed
<1>1. f \in Nat /\ g \in Nat /\ f <= g
  <2>1. f \in Nat
    BY FocusFacts DEF Credited
  <2>2. g \in Nat
    <3> DEFINE h == [d \in Days |-> daily'[d].focus]
    <3>1. g = SumOver(h, Days)
      BY SumOverIsSum DEF FocusOn
    <3>2. \A d \in Days : h[d] \in Nat
      BY DEF Credited
    <3> HIDE DEF h, g
    <3> QED
      BY <3>1, <3>2, DaysFact, SumIsNat
  <2> QED
    BY <2>1, <2>2
<1>2. p \in Nat /\ q \in Nat /\ p <= q
  <2>1. /\ IsFiniteSet(paid' \cap OldMissions) /\ IsFiniteSet(paid \cap OldMissions)
        /\ paid \cap OldMissions \in SUBSET (paid' \cap OldMissions)
    BY FS_Subset DEF LedgerBounds
  <2> QED
    BY <2>1, FS_Subset, FS_CardinalityType
<1>3. Rate \in Nat /\ Hour \in Nat /\ Hour > 0 /\ Reward \in Nat /\ Cost \in Nat /\ redeemed \in Nat
  BY DEF LedgerBounds, Credited
<1>4. /\ (f * Rate) \div Hour <= (g * Rate) \div Hour
      /\ (f * Rate) \div Hour \in Nat /\ (g * Rate) \div Hour \in Nat
  BY <1>1, <1>3, DivFacts
<1>5. Reward * p <= Reward * q /\ Reward * p \in Nat /\ Reward * q \in Nat
  BY <1>2, <1>3
<1>6. Cost * redeemed \in Nat
  BY <1>3
<1>7. Balance = (f * Rate) \div Hour + Reward * p - c
  BY DEF Balance
<1>8. Balance' = (g * Rate) \div Hour + Reward * q - c
  BY DEF Balance
<1> DEFINE x == (f * Rate) \div Hour
           y == (g * Rate) \div Hour
           u == Reward * p
           v == Reward * q
<1>9. x \in Nat /\ y \in Nat /\ u \in Nat /\ v \in Nat /\ c \in Nat /\ x <= y /\ u <= v
  BY <1>4, <1>5, <1>6
<1> HIDE DEF x, y, u, v, c
<1>10. Balance = x + u - c /\ Balance' = y + v - c
  BY <1>7, <1>8 DEF x, y, u, v
<1> QED
  BY <1>9, <1>10

\* Nothing is credited, paid or redeemed at first.
LEMMA LedgerInit == ASSUME LedgerBounds PROVE MInit => LedgerInv
<1> SUFFICES ASSUME MInit PROVE LedgerInv
  OBVIOUS
<1>1. Credited
  BY DaysFact DEF MInit, Credited, NoRecord, NoTick
<1>2. Paid
  BY DEF MInit, Paid, LedgerBounds
<1>3. FocusOn(Days) \in Nat
  BY <1>1, FocusFacts DEF Credited
<1>4. Balance >= 0
  <2>1. Cardinality(paid \cap OldMissions) = 0
    BY FS_EmptySet DEF MInit
  <2>2. (FocusOn(Days) * Rate) \div Hour \in Nat
    BY <1>3, DivFacts DEF LedgerBounds
  <2> DEFINE x == (FocusOn(Days) * Rate) \div Hour
  <2>3. Balance = x + Reward * 0 - Cost * 0
    BY <2>1 DEF Balance, MInit
  <2> HIDE DEF x
  <2>4. x \in Nat
    BY <2>2 DEF x
  <2> QED
    BY <2>3, <2>4 DEF LedgerBounds
<1> QED
  BY <1>1, <1>2, <1>4 DEF LedgerInv

\* The same rows have the same focus.
LEMMA SameFocus ==
    ASSUME LedgerBounds, Credited, Credited', \A d \in Days : daily'[d].focus = daily[d].focus
    PROVE  FocusOn(Days)' = FocusOn(Days) /\ FocusOn(Days) \in Nat
<1> DEFINE h == [d \in Days |-> daily'[d].focus]
<1>1. FocusOn(Days)' = SumOver(h, Days)
  BY SumOverIsSum DEF FocusOn
<1>2. FocusOn(Days) = SumOver(Focused, Days) /\ FocusOn(Days) \in Nat
  BY FocusFacts DEF Credited
<1>3. \A d \in Days : h[d] = Focused[d]
  BY DEF Focused
<1> HIDE DEF h
<1>4. SumOver(h, Days) = SumOver(Focused, Days)
  BY <1>3, DaysFact, SumSame
<1> QED
  BY <1>1, <1>2, <1>4

\* A credit makes one day's focus, and so that of all, one tick longer.
LEMMA CreditedFocus ==
    ASSUME LedgerBounds, Credited, Credited', NEW e \in Days,
           daily'[e].focus = daily[e].focus + 1,
           \A d \in Days : d # e => daily'[d].focus = daily[d].focus
    PROVE  FocusOn(Days)' >= FocusOn(Days)
<1> DEFINE h == [d \in Days |-> daily'[d].focus]
<1>1. FocusOn(Days)' = SumOver(h, Days)
  BY SumOverIsSum DEF FocusOn
<1>2. FocusOn(Days) = SumOver(Focused, Days)
  BY FocusFacts DEF Credited
<1>3. \A d \in Days : h[d] \in Nat /\ Focused[d] \in Nat
  BY DEF Focused, Credited
<1>4. \A d \in Days : d # e => h[d] = Focused[d]
  BY DEF Focused
<1>5. h[e] = Focused[e] + 1
  BY DEF Focused
<1> HIDE DEF h
<1>6. /\ SumOver(h, Days) - h[e] = SumOver(Focused, Days) - Focused[e]
      /\ SumOver(h, Days) \in Nat /\ SumOver(Focused, Days) \in Nat
  <2>1. IsFiniteSet(Days) /\ e \in Days
    BY DaysFact
  <2>2. \A d \in Days : Focused[d] \in Nat /\ h[d] \in Nat
    BY <1>3
  <2> HIDE DEF Focused
  <2> QED
    <3> DEFINE r == Days \ {e}
    <3>1. IsFiniteSet(r)
      BY <2>1, FS_RemoveElement
    <3>2. /\ SumOver(h, Days) = h[e] + SumOver(h, r)
          /\ SumOver(Focused, Days) = Focused[e] + SumOver(Focused, r)
      BY <2>1, <2>2, SumSplit
    <3>3. \A d \in r : h[d] = Focused[d] /\ h[d] \in Nat
      BY <1>4, <2>2
    <3> HIDE DEF r
    <3>4. SumOver(h, r) = SumOver(Focused, r) /\ SumOver(h, r) \in Nat
      BY <3>1, <3>3, SumSame, SumIsNat
    <3> QED
      BY <2>1, <2>2, <3>2, <3>4
<1> QED
  BY <1>1, <1>2, <1>3, <1>5, <1>6

\* Points that nothing changes.
LEMMA LedgerRests ==
    ASSUME LedgerBounds, LedgerInv, UNCHANGED <<daily, paid, redeemed, mission>>,
           day' \in Days, tick'.step # "idle" => tick'.d \in Days
    PROVE  LedgerInv'
<1>1. Credited'
  BY DEF LedgerInv, Credited
<1>2. Balance' = Balance
  BY DEF Balance, FocusOn
<1> QED
  BY <1>1, <1>2 DEF LedgerInv, Paid

\* Every step keeps what the balance adds up to, and it stays natural.
LEMMA LedgerStep == ASSUME LedgerBounds, LedgerInv, [MNext]_mvars PROVE LedgerInv'
<1>1. /\ DOMAIN daily = Days /\ \A d \in Days : daily[d].focus \in Nat
      /\ day \in Days /\ (tick.step # "idle" => tick.d \in Days)
      /\ mission \in [Missions -> {"none", "OPEN", "COMPLETED", "CANCELLED"}]
      /\ redeemed \in Nat /\ Paid /\ Credited /\ Balance >= 0
  BY DEF LedgerInv, Credited
<1>2. ASSUME UNCHANGED <<paid, redeemed, mission>>, Credited', FocusOn(Days)' >= FocusOn(Days)
      PROVE  LedgerInv'
  <2>1. Balance' >= 0
    BY <1>1, <1>2, BalanceGrows
  <2> QED
    BY <1>1, <1>2, <2>1 DEF LedgerInv, Paid
<1>3. CASE Credit
  <2>1. UNCHANGED <<day, paid, redeemed, mission>> /\ tick.d \in Days /\ tick.step = "read"
    BY <1>1, <1>3 DEF Credit
  <2>2. CASE Slip /\ tick' = NoTick /\ UNCHANGED daily
    BY <1>1, <2>1, <2>2, LedgerRests DEF NoTick
  <2>3. CASE ~(Slip /\ tick' = NoTick /\ UNCHANGED daily)
    <3> DEFINE old == daily[tick.d]
               total == old.focus + 1
               new == [focus |-> total, target |-> tick.target,
                       checkin |-> old.checkin \/ total >= CheckinAt,
                       met |-> old.met \/ total >= tick.target]
    <3>1. daily' = [daily EXCEPT ![tick.d] = new]
      BY <1>3, <2>3 DEF Credit
    <3>2. \E news : tick' = [tick EXCEPT !.step = "credited", !.news = news]
      BY <1>3, <2>3 DEF Credit
    <3>3. tick'.d = tick.d
      BY <3>2
    <3>4. new.focus = old.focus + 1
      OBVIOUS
    <3> HIDE DEF new
    <3>5. /\ DOMAIN daily' = Days /\ daily'[tick.d].focus = daily[tick.d].focus + 1
          /\ \A d \in Days : d # tick.d => daily'[d].focus = daily[d].focus
      BY <1>1, <2>1, <3>1, <3>4
    <3>6. Credited'
      BY <1>1, <2>1, <3>3, <3>5 DEF Credited
    <3>7. FocusOn(Days)' >= FocusOn(Days)
      BY <1>1, <2>1, <3>5, <3>6, CreditedFocus
    <3> QED
      BY <1>2, <2>1, <3>6, <3>7
  <2> QED
    BY <2>2, <2>3
<1>4. ASSUME NEW t \in Wishes, SetDailyTarget(t) PROVE LedgerInv'
  <2>1. /\ daily' = [daily EXCEPT ![day] = DayWithTarget(t)]
        /\ UNCHANGED <<day, paid, redeemed, mission, tick>>
    BY <1>4 DEF SetDailyTarget
  <2>2. DayWithTarget(t).focus = daily[day].focus
    BY DEF DayWithTarget
  <2>3. DOMAIN daily' = Days /\ \A d \in Days : daily'[d].focus = daily[d].focus
    BY <1>1, <2>1, <2>2
  <2>4. Credited'
    BY <1>1, <2>1, <2>3 DEF Credited
  <2>5. FocusOn(Days)' >= FocusOn(Days)
    BY <1>1, <2>3, <2>4, SameFocus
  <2> QED
    BY <1>2, <2>1, <2>4, <2>5
<1>5. ASSUME NEW m \in Missions, CompleteMission(m) PROVE LedgerInv'
  <2>1. /\ mission[m] = "OPEN" /\ mission' = [mission EXCEPT ![m] = "COMPLETED"]
        /\ paid' = IF m \in OldMissions THEN paid \cup {m} ELSE paid
        /\ UNCHANGED <<day, daily, redeemed, tick>>
    BY <1>5 DEF CompleteMission
  <2>2. mission' \in [Missions -> {"none", "OPEN", "COMPLETED", "CANCELLED"}]
    BY <1>1, <2>1
  <2>3. Credited'
    BY <1>1, <2>1, <2>2 DEF Credited
  <2>4. Paid'
    BY <1>1, <2>1 DEF Paid, LedgerBounds
  <2>5. FocusOn(Days)' >= FocusOn(Days)
    BY <1>1, <2>1, <2>3, SameFocus
  <2>6. paid \cap OldMissions \subseteq paid' \cap OldMissions
    BY <2>1
  <2>7. Balance' >= 0
    BY <1>1, <2>1, <2>3, <2>5, <2>6, BalanceGrows
  <2> QED
    BY <2>3, <2>4, <2>7 DEF LedgerInv
<1>6. ASSUME NEW m \in Missions, mission[m] # "COMPLETED",
             mission' \in {[mission EXCEPT ![m] = s] : s \in {"OPEN", "CANCELLED"}},
             UNCHANGED <<day, daily, paid, redeemed, tick>>
      PROVE  LedgerInv'
  <2>1. PICK s \in {"OPEN", "CANCELLED"} : mission' = [mission EXCEPT ![m] = s]
    BY <1>6
  <2>2. mission' \in [Missions -> {"none", "OPEN", "COMPLETED", "CANCELLED"}]
    BY <1>1, <2>1
  <2>3. \A o \in OldMissions : mission'[o] = "COMPLETED" <=> mission[o] = "COMPLETED"
    BY <1>1, <1>6, <2>1 DEF LedgerBounds
  <2>4. Credited' /\ Paid'
    BY <1>1, <1>6, <2>2, <2>3 DEF Credited, Paid
  <2>5. Balance' = Balance
    BY <1>6 DEF Balance, FocusOn
  <2> QED
    BY <1>1, <2>4, <2>5 DEF LedgerInv
<1>7. ASSUME NEW m \in Missions, CreateMission(m) PROVE LedgerInv'
  <2>1. mission' = [mission EXCEPT ![m] = "OPEN"] /\ mission[m] = "none"
    BY <1>7 DEF CreateMission
  <2> QED
    BY <1>6, <1>7, <2>1 DEF CreateMission
<1>8. ASSUME NEW m \in Missions, CancelMission(m) PROVE LedgerInv'
  <2>1. mission' = [mission EXCEPT ![m] = "CANCELLED"] /\ mission[m] = "OPEN"
    BY <1>8 DEF CancelMission, OpenMission
  <2> QED
    BY <1>6, <1>8, <2>1 DEF CancelMission
<1>9. CASE RedeemReward
  <2>1. Balance >= Cost /\ redeemed' = redeemed + 1 /\ UNCHANGED <<day, daily, mission, paid, tick>>
    BY <1>9 DEF RedeemReward
  <2>2. Credited' /\ Paid'
    BY <1>1, <2>1 DEF Credited, Paid
  <2>3. Balance' >= 0
    <3> DEFINE x == (FocusOn(Days) * Rate) \div Hour
               u == Reward * Cardinality(paid \cap OldMissions)
    <3>1. FocusOn(Days) \in Nat
      BY <1>1, FocusFacts
    <3>2. x \in Nat
      BY <3>1, DivFacts DEF LedgerBounds
    <3>3. u \in Nat
      <4>1. Cardinality(paid \cap OldMissions) \in Nat
        BY FS_Subset, FS_CardinalityType DEF LedgerBounds
      <4> QED
        BY <4>1 DEF LedgerBounds
    <3>4. Balance = x + u - Cost * redeemed
      BY DEF Balance
    <3>5. FocusOn(Days)' = FocusOn(Days)
      BY <2>1 DEF FocusOn
    <3>6. Balance' = x + u - Cost * (redeemed + 1)
      BY <2>1, <3>5 DEF Balance
    <3> HIDE DEF x, u
    <3>7. Cost * (redeemed + 1) = Cost * redeemed + Cost /\ Cost * redeemed \in Nat /\ Cost \in Nat
      BY <1>1 DEF LedgerBounds
    <3> QED
      BY <2>1, <3>2, <3>3, <3>4, <3>6, <3>7
  <2> QED
    BY <2>2, <2>3 DEF LedgerInv
<1>10. CASE ReadTarget
  BY <1>1, <1>10, LedgerRests DEF ReadTarget
<1>11. CASE Distracted \/ NotEligible \/ AfterCredit \/ Die
  BY <1>1, <1>11, LedgerRests DEF Distracted, NotEligible, AfterCredit, Die, NoTick
<1>12. ASSUME NEW p \in Actors, NEW a \in Achievements, Unlock(p, a) PROVE LedgerInv'
  BY <1>1, <1>12, LedgerRests DEF Unlock
<1>13. ASSUME NEW m \in Missions, AfterComplete(m) PROVE LedgerInv'
  BY <1>1, <1>13, LedgerRests DEF AfterComplete
<1>14. CASE Midnight
  <2>1. day' \in Days
    BY <1>1, <1>14 DEF Midnight, Days, LedgerBounds
  <2> QED
    BY <1>1, <1>14, <2>1, LedgerRests DEF Midnight
<1>15. CASE UNCHANGED mvars
  BY <1>1, <1>15, LedgerRests DEF mvars
<1> QED
  BY <1>3, <1>4, <1>5, <1>7, <1>8, <1>9, <1>10, <1>11, <1>12, <1>13, <1>14, <1>15 DEF MNext

\* The balance never falls below zero, and the completed missions are paid.
THEOREM PointsAddUp == ASSUME LedgerBounds PROVE MSpec => []LedgerAddsUp
<1>1. LedgerInv => LedgerAddsUp
  BY DEF LedgerInv, LedgerAddsUp, Paid
<1>2. LedgerInv /\ [MNext]_mvars => LedgerInv'
  BY LedgerStep
<1> QED
  BY <1>1, <1>2, LedgerInit, PTL DEF MSpec

\* The bounds of the ledger's types; the targets a user may set are numbers.
LedgerLimits == /\ MaxDay \in Nat /\ MaxFocus \in Nat /\ MaxRedeem \in Nat
                /\ Wishes \subseteq Nat /\ Wishes # {}

\* The row a tick is about to be credited to has room for it.
Roomy == /\ tick.step # "idle" => tick.d \in Days
         /\ tick.step = "read" => daily[tick.d].focus < MaxFocus
LedgerOk == TypeOK /\ IsTick(tick) /\ Roomy

\* The default target is one that the user may set.
LEMMA DefaultIsAWish == ASSUME LedgerLimits PROVE Default \in Wishes
<1>1. PICK x \in Wishes : \A y \in Wishes : x <= y
  BY LeastOf DEF LedgerLimits
<1> QED
  BY <1>1 DEF Default, Min

\* What is announced is counted.
LEMMA AnnounceTypes ==
    ASSUME TypeOK, NEW things, Announce(things)
    PROVE  told' \in [Kinds -> Nat]
<1>1. CASE told' = [k \in Kinds |-> IF k \in things THEN told[k] + 1 ELSE told[k]]
  BY <1>1 DEF TypeOK
<1>2. CASE told' = told
  BY <1>2 DEF TypeOK
<1> QED
  BY <1>1, <1>2 DEF Announce

\* A row of the table.
Row == [focus : 0..MaxFocus, target : Wishes \cup {Unset}, checkin : BOOLEAN, met : BOOLEAN]

\* A tick that is credited stays within the day's room.
LEMMA CreditTypes == ASSUME LedgerLimits, LedgerOk, Credit PROVE LedgerOk'
<1> DEFINE old == daily[tick.d]
           new == [focus |-> old.focus + 1, target |-> tick.target,
                   checkin |-> old.checkin \/ old.focus + 1 >= CheckinAt,
                   met |-> old.met \/ old.focus + 1 >= tick.target]
           news == IF new.checkin /\ ~old.checkin THEN {<<"checkin", tick.d>>} ELSE {}
<1>1. UNCHANGED <<day, target, comeback, mission, paid, redeemed, unlocked, told, closing, earned>>
  BY DEF Credit
<1>2. tick.step = "read" /\ tick.d \in Days
  BY DEF Credit, LedgerOk, Roomy
<1>3. daily \in [Days -> Row] /\ old \in Row /\ old.focus \in 0..MaxFocus /\ old.focus < MaxFocus
  BY <1>2 DEF LedgerOk, TypeOK, Roomy, Row
<1>4. new \in Row
  <2>1. old.focus + 1 \in 0..MaxFocus
    BY <1>3 DEF LedgerLimits
  <2>2. tick.target \in Wishes \cup {Unset}
    BY DEF LedgerOk, TypeOK
  <2>3. /\ (old.checkin \/ old.focus + 1 >= CheckinAt) \in BOOLEAN
        /\ (old.met \/ old.focus + 1 >= tick.target) \in BOOLEAN
    OBVIOUS
  <2> QED
    BY <2>1, <2>2, <2>3 DEF Row
<1>5. \/ /\ daily' = [daily EXCEPT ![tick.d] = new]
         /\ tick' = [tick EXCEPT !.step = "credited", !.news = news]
      \/ tick' = NoTick /\ UNCHANGED daily
  BY DEF Credit
<1> HIDE DEF old, new, news
<1>6. CASE /\ daily' = [daily EXCEPT ![tick.d] = new]
           /\ tick' = [tick EXCEPT !.step = "credited", !.news = news]
  <2>1. daily' \in [Days -> Row]
    BY <1>3, <1>4, <1>6
  <2>2. IsTick(tick) /\ tick.target \in Wishes \cup {Unset}
    BY DEF LedgerOk, TypeOK
  <2>3. tick' = [step |-> "credited", d |-> tick.d, target |-> tick.target, news |-> news]
    BY <1>6, <2>2 DEF IsTick
  <2> QED
    BY <1>1, <1>2, <2>1, <2>2, <2>3 DEF LedgerOk, TypeOK, Roomy, IsTick, Row
<1>7. CASE tick' = NoTick /\ UNCHANGED daily
  BY <1>1, <1>7 DEF LedgerOk, TypeOK, Roomy, IsTick, NoTick
<1> QED
  BY <1>5, <1>6, <1>7

\* So does what follows it.
LEMMA AfterCreditTypes == ASSUME LedgerLimits, LedgerOk, AfterCredit PROVE LedgerOk'
<1>1. /\ UNCHANGED <<day, daily, target, mission, paid, redeemed, unlocked, closing>>
      /\ tick' = NoTick
  BY DEF AfterCredit
<1>2. told' \in [Kinds -> Nat]
  BY AnnounceTypes DEF AfterCredit, LedgerOk
<1>3. comeback' \in [active : BOOLEAN, focus : 0..MaxFocus]
  <2>1. comeback \in [active : BOOLEAN, focus : 0..MaxFocus]
    BY DEF LedgerOk, TypeOK
  <2>2. CASE comeback.focus < MaxFocus /\ comeback' = [comeback EXCEPT !.focus = @ + 1]
    <3>1. comeback.focus + 1 \in 0..MaxFocus
      BY <2>1, <2>2 DEF LedgerLimits
    <3> QED
      BY <2>1, <2>2, <3>1
  <2> QED
    BY <2>1, <2>2 DEF AfterCredit
<1>4. earned' \in [Actors -> SUBSET Achievements]
  <2>1. PICK found \in SUBSET Achievements : earned' = [earned EXCEPT !["worker"] = found]
    BY DEF AfterCredit
  <2> QED
    BY <2>1 DEF LedgerOk, TypeOK
<1> QED
  BY <1>1, <1>2, <1>3, <1>4 DEF LedgerOk, TypeOK, Roomy, IsTick, NoTick

\* The target of the day is one of the wishes.
LEMMA TargetTypes == ASSUME LedgerLimits, LedgerOk, NEW t \in Wishes, SetDailyTarget(t) PROVE LedgerOk'
<1>1. /\ UNCHANGED <<day, comeback, mission, paid, redeemed, unlocked, told, tick, closing, earned>>
      /\ target' = t /\ daily' = [daily EXCEPT ![day] = DayWithTarget(t)]
  BY DEF SetDailyTarget
<1>2. daily \in [Days -> Row] /\ day \in Days /\ daily[day] \in Row
  BY DEF LedgerOk, TypeOK, Row
<1>3. DayWithTarget(t) \in Row /\ DayWithTarget(t).focus = daily[day].focus
  <2>1. (daily[day].focus >= t) \in BOOLEAN
    OBVIOUS
  <2> DEFINE r == daily[day]
             reached == daily[day].focus >= t
  <2>2. DayWithTarget(t) = [r EXCEPT !.target = t, !.met = reached]
    BY DEF DayWithTarget
  <2>3. r \in Row /\ reached \in BOOLEAN
    BY <1>2, <2>1
  <2> HIDE DEF r, reached
  <2>4. [r EXCEPT !.target = t, !.met = reached] \in Row
        /\ [r EXCEPT !.target = t, !.met = reached].focus = r.focus
    BY <2>3 DEF Row
  <2> QED
    BY <2>2, <2>4 DEF r
<1>4. daily' \in [Days -> Row] /\ \A d \in Days : daily'[d].focus = daily[d].focus
  BY <1>1, <1>2, <1>3
<1> QED
  BY <1>1, <1>4 DEF LedgerOk, TypeOK, Roomy, Row, IsTick

\* Every step keeps the ledger within its types.
LEMMA LedgerTypes == ASSUME LedgerLimits, LedgerOk, [MNext]_mvars PROVE LedgerOk'
<1>1. CASE Distracted \/ NotEligible
  <2>1. UNCHANGED <<day, daily, target, mission, paid, redeemed, unlocked, told, tick,
                    closing, earned>>
    BY <1>1 DEF Distracted, NotEligible
  <2>2. comeback' \in [active : BOOLEAN, focus : 0..MaxFocus]
    <3>1. 0 \in 0..MaxFocus /\ comeback \in [active : BOOLEAN, focus : 0..MaxFocus]
      BY DEF LedgerOk, TypeOK, LedgerLimits
    <3>2. CASE comeback' = [active |-> TRUE, focus |-> 0]
      BY <3>1, <3>2
    <3>3. CASE comeback' = [comeback EXCEPT !.focus = 0]
      BY <3>1, <3>3
    <3> QED
      BY <1>1, <3>2, <3>3 DEF Distracted, NotEligible
  <2> QED
    BY <2>1, <2>2 DEF LedgerOk, TypeOK, Roomy, IsTick
<1>2. CASE ReadTarget
  <2>1. /\ UNCHANGED <<day, daily, comeback, mission, paid, redeemed, unlocked, told, closing, earned>>
        /\ daily[day].focus < MaxFocus /\ target' = IF target = Unset THEN Default ELSE target
        /\ tick' = [step |-> "read", d |-> day, target |-> target', news |-> {}]
    BY <1>2 DEF ReadTarget
  <2>2. target' \in Wishes \cup {Unset}
    BY <2>1, DefaultIsAWish DEF LedgerOk, TypeOK
  <2> QED
    BY <2>1, <2>2 DEF LedgerOk, TypeOK, Roomy, IsTick
<1>3. CASE Credit
  BY <1>3, CreditTypes
<1>4. CASE AfterCredit
  BY <1>4, AfterCreditTypes
<1>5. ASSUME NEW p \in Actors, NEW a \in Achievements, Unlock(p, a) PROVE LedgerOk'
  <2>1. UNCHANGED <<day, daily, target, comeback, mission, paid, redeemed, tick, closing>>
        /\ earned' = [earned EXCEPT ![p] = @ \ {a}] /\ unlocked' \subseteq unlocked \cup {a}
    BY <1>5 DEF Unlock
  <2>2. told' \in [Kinds -> Nat]
    <3>1. CASE told' = told
      BY <3>1 DEF LedgerOk, TypeOK
    <3>2. CASE Announce(IF NewlyUnlocked(a) THEN {<<"achievement", a>>} ELSE {})
      BY <3>2, AnnounceTypes DEF LedgerOk
    <3> QED
      BY <1>5, <3>1, <3>2 DEF Unlock
  <2>3. earned' \in [Actors -> SUBSET Achievements]
    BY <2>1 DEF LedgerOk, TypeOK
  <2> QED
    BY <2>1, <2>2, <2>3 DEF LedgerOk, TypeOK, Roomy, IsTick
<1>6. ASSUME NEW t \in Wishes, SetDailyTarget(t) PROVE LedgerOk'
  BY <1>6, TargetTypes
<1>7. ASSUME NEW m \in Missions, CreateMission(m) \/ CompleteMission(m) \/ CancelMission(m)
      PROVE  LedgerOk'
  <2>1. /\ UNCHANGED <<day, daily, target, comeback, redeemed, unlocked, told, tick, earned>>
        /\ paid' \subseteq paid \cup {m} /\ closing' \subseteq closing \cup {m}
    BY <1>7 DEF CreateMission, CompleteMission, CancelMission
  <2>2. mission' \in [Missions -> {"none", "OPEN", "COMPLETED", "CANCELLED"}]
    BY <1>7 DEF CreateMission, CompleteMission, CancelMission, LedgerOk, TypeOK
  <2> QED
    BY <2>1, <2>2 DEF LedgerOk, TypeOK, Roomy, IsTick
<1>8. ASSUME NEW m \in Missions, AfterComplete(m) PROVE LedgerOk'
  <2>1. UNCHANGED <<day, daily, target, comeback, mission, paid, redeemed, unlocked, tick>>
        /\ closing' \subseteq closing
    BY <1>8 DEF AfterComplete
  <2>2. told' \in [Kinds -> Nat] /\ earned' \in [Actors -> SUBSET Achievements]
    <3>1. CASE UNCHANGED <<told, earned>>
      BY <3>1 DEF LedgerOk, TypeOK
    <3>2. CASE Announce({<<"mission", m>>}) /\ earned' = [earned EXCEPT ![m] = {a \in Achievements : Reached(a)}]
      <4>1. {a \in Achievements : Reached(a)} \subseteq Achievements
        OBVIOUS
      <4>2. earned' \in [Actors -> SUBSET Achievements]
        BY <3>2, <4>1 DEF LedgerOk, TypeOK
      <4> QED
        BY <3>2, <4>2, AnnounceTypes DEF LedgerOk
    <3> QED
      BY <1>8, <3>1, <3>2 DEF AfterComplete
  <2> QED
    BY <2>1, <2>2 DEF LedgerOk, TypeOK, Roomy, IsTick
<1>9. CASE RedeemReward
  <2>1. UNCHANGED <<day, daily, target, comeback, mission, paid, unlocked, told, tick, closing, earned>>
        /\ redeemed < MaxRedeem /\ redeemed' = redeemed + 1
    BY <1>9 DEF RedeemReward
  <2>2. redeemed' \in 0..MaxRedeem
    BY <2>1 DEF LedgerOk, TypeOK, LedgerLimits
  <2> QED
    BY <2>1, <2>2 DEF LedgerOk, TypeOK, Roomy, IsTick
<1>10. CASE Midnight
  <2>1. UNCHANGED <<daily, target, comeback, mission, paid, redeemed, unlocked, told, tick, closing, earned>>
        /\ day < MaxDay /\ day' = day + 1
    BY <1>10 DEF Midnight
  <2>2. day' \in Days
    BY <2>1 DEF LedgerOk, TypeOK, LedgerLimits, Days
  <2> QED
    BY <2>1, <2>2 DEF LedgerOk, TypeOK, Roomy, IsTick
<1>11. CASE Die
  <2>1. /\ UNCHANGED <<day, daily, target, comeback, mission, paid, redeemed, unlocked, told>>
        /\ tick' = NoTick /\ closing' = {} /\ earned' = [p \in Actors |-> {}]
    BY <1>11 DEF Die
  <2> QED
    BY <2>1 DEF LedgerOk, TypeOK, Roomy, IsTick, NoTick
<1>12. CASE UNCHANGED mvars
  BY <1>12 DEF mvars, LedgerOk, TypeOK, Roomy, IsTick
<1> QED
  BY <1>1, <1>2, <1>3, <1>4, <1>5, <1>6, <1>7, <1>8, <1>9, <1>10, <1>11, <1>12 DEF MNext

\* The tables of a day stay within their ranges: no tick is credited to a row that
\* has no room for it, whichever day it was read on, every target is one the user
\* may set, and no more is redeemed than the bound.
THEOREM LedgerTyped == ASSUME LedgerLimits PROVE MSpec => []TypeOK
<1>1. MInit => LedgerOk
  <2> SUFFICES ASSUME MInit PROVE LedgerOk
    OBVIOUS
  <2>1. 0 \in Days /\ 0 \in 0..MaxFocus /\ 0 \in 0..MaxRedeem
    BY DEF Days, LedgerLimits
  <2>2. NoRecord \in Row
    BY <2>1 DEF NoRecord, Row
  <2>3. daily \in [Days -> Row]
    BY <2>2 DEF MInit
  <2>4. told \in [Kinds -> Nat]
    BY DEF MInit
  <2>5. comeback \in [active : BOOLEAN, focus : 0..MaxFocus]
    BY <2>1 DEF MInit
  <2> QED
    BY <2>1, <2>3, <2>4, <2>5 DEF MInit, LedgerOk, TypeOK, Roomy, IsTick, NoTick, Row
<1>2. LedgerOk => TypeOK
  BY DEF LedgerOk
<1> QED
  BY <1>1, <1>2, LedgerTypes, PTL DEF MSpec

-----------------------------------------------------------------------------
(***************************************************************************)
(* CollectorDelivery.  A turn moves the revision after the transaction     *)
(* that makes it final, and its context is fixed before it is first sent,  *)
(* so that what the first final delivery decides holds for all later ones  *)
(* that read its flag: CountInv says what a request may still do.          *)
(***************************************************************************)
CONSTANTS MaxTurns, MaxV, MaxQueue, MaxTroubles
VARIABLES page, scanned, sent, frozen, chain, step, served, queue, table, counted, cut, unsure,
          troubles

C == INSTANCE CollectorDelivery

\* The bounds of the types of a delivery.
DeliveryLimits == MaxTurns \in Nat /\ MaxV \in Nat /\ MaxQueue \in Nat /\ MaxTroubles \in Nat

\* A message being delivered, and a row of the tables.
Message == [rest : (SUBSET C!Payload) \ {{}}, all : SUBSET C!Payload]
TurnRow == [v : 0..MaxV, final : BOOLEAN]
\* The worker handles a message it has, and acknowledges a payload it queued.
DeliveryOk == C!TypeOK /\ chain \in Seq(Message) /\ (step \in {"head", "ack"} => queue # <<>>)

\* A payload is of a turn, with a version.
LEMMA PayloadFacts ==
    ASSUME DeliveryLimits, NEW p \in C!Payload
    PROVE  p.t \in C!Turns /\ p.v \in 0..MaxV
  BY DEF C!Payload, C!Turns, DeliveryLimits

\* A message that has something left has a next payload.
LEMMA CurrentFacts ==
    ASSUME DeliveryLimits, chain \in Seq(Message), chain # <<>>
    PROVE  /\ C!Current \in Head(chain).rest /\ C!Current \in C!Payload
           /\ Head(chain) \in Message /\ Tail(chain) \in Seq(Message)
<1>1. Head(chain) \in Message /\ Tail(chain) \in Seq(Message)
  BY HeadTailProperties
<1> DEFINE rest == Head(chain).rest
           T == {p.t : p \in rest}
<1>2. rest \subseteq C!Payload /\ rest # {}
  BY <1>1 DEF Message
<1>3. T \subseteq Nat /\ T # {}
  BY <1>2 DEF C!Payload, C!Turns
<1>4. PICK k \in T : \A n \in T : k <= n
  <2> HIDE DEF T
  <2> QED
    BY <1>3, LeastOf
<1>5. PICK p \in rest : p.t = k
  BY <1>4
<1>6. \A q \in rest : p.t <= q.t
  BY <1>4, <1>5
<1>7. C!Current \in rest
  <2> HIDE DEF T
  <2> QED
    BY <1>5, <1>6 DEF C!Current
<1> QED
  BY <1>1, <1>2, <1>7

\* A message's parts, one by one.
LEMMA ChainFacts ==
    ASSUME NEW q \in Seq(Message)
    PROVE  \A i \in DOMAIN q : q[i].rest \subseteq C!Payload /\ q[i].rest # {}
<1>1. \A i \in 1..Len(q) : q[i] \in Message
  BY ElementOfSeq
<1>2. DOMAIN q = 1..Len(q)
  BY LenProperties
<1> QED
  BY <1>1, <1>2 DEF Message

\* The smallest of some numbers.
LEMMA MinIsOne ==
  ASSUME NEW I \in SUBSET Nat, I # {}
  PROVE  C!Min(I) \in I
  <1> DEFINE R == OpToRel(<, Nat)
  <1>1. IsWellFoundedOn(R, Nat) BY NatLessThanWellFounded
  <1>2. R = {pair \in Nat \X Nat : pair[1] < pair[2]} BY DEF OpToRel
  <1> HIDE DEF R
  <1>3. PICK x \in I : \A y \in I : ~(<<y, x>> \in R) BY <1>1, WFMin
  <1>4. \A y \in I : ~(y < x) BY <1>2, <1>3
  <1>5. \A y \in I : x <= y BY <1>4
  <1> QED BY <1>5 DEF C!Min

\* A queue over its limit loses an element and gets no other.
LEMMA LimitedFacts ==
  ASSUME MaxQueue \in Nat, NEW S, NEW q \in Seq(S)
  PROVE  C!Limited(q) \in Seq(S)
  <1>1. CASE Len(q) <= MaxQueue BY <1>1 DEF C!Limited
  <1>2. CASE ~(Len(q) <= MaxQueue) /\ \E i \in DOMAIN q : C!Final(q[i])
    <2> DEFINE I == {i \in 1..Len(q) : C!Final(q[i])}
               k == C!SelectInSeq(q, C!Final)
    <2>1. I \in SUBSET Nat /\ I # {} BY <1>2
    <2>2. k = C!Min(I) BY <2>1 DEF C!SelectInSeq
    <2>3. k \in 1..Len(q) BY <2>1, <2>2, MinIsOne
    <2>4. C!Limited(q) = C!RemoveAt(q, k) BY <1>2 DEF C!Limited
    <2> HIDE DEF k
    <2>5. \A i \in 1..Len(q) : q[i] \in S BY ElementOfSeq
    <2>6. SubSeq(q, 1, k - 1) \in Seq(S)
      <3>1. \A i \in 1..(k - 1) : q[i] \in S BY <2>3, <2>5
      <3> QED BY <2>3, <3>1, SubSeqProperties
    <2>7. SubSeq(q, k + 1, Len(q)) \in Seq(S)
      <3>1. \A i \in (k + 1)..Len(q) : q[i] \in S BY <2>3, <2>5
      <3>2. Len(q) \in Int /\ k + 1 \in Int BY <2>3, LenProperties
      <3> QED BY <3>1, <3>2, SubSeqProperties
    <2> QED BY <2>4, <2>6, <2>7, ConcatProperties DEF C!RemoveAt
  <1>3. CASE ~(Len(q) <= MaxQueue) /\ ~(\E i \in DOMAIN q : C!Final(q[i]))
    <2>1. C!Limited(q) = Tail(q) BY <1>3 DEF C!Limited
    <2>2. CASE q # <<>> BY <2>1, <2>2, HeadTailProperties
    <2>3. CASE q = <<>>
      <3>1. Len(q) = 0 BY <2>3
      <3> QED BY <1>3, <3>1
    <2> QED BY <2>2, <2>3
  <1> QED BY <1>1, <1>2, <1>3

\* A delivery that is over leaves messages with something left to deliver, and
\* the script remembers versions.
LEMMA FinishedTypes ==
    ASSUME DeliveryLimits, DeliveryOk, chain # <<>>, C!Finished
    PROVE  chain' \in Seq(Message) /\ sent' \in [C!Turns -> 0..MaxV] /\ step' = "idle"
<1> DEFINE m == Head(chain)
<1>1. m \in Message /\ Tail(chain) \in Seq(Message) /\ C!Current \in m.rest
  BY CurrentFacts DEF DeliveryOk
<1>2. sent \in [C!Turns -> 0..MaxV]
  BY DEF DeliveryOk, C!TypeOK
<1>3. CASE m.rest # {C!Current} /\ chain' = Append(Tail(chain), [m EXCEPT !.rest = @ \ {C!Current}])
           /\ UNCHANGED sent
  <2>1. m.rest \ {C!Current} # {} /\ m.rest \ {C!Current} \subseteq C!Payload
    BY <1>1, <1>3 DEF Message
  <2>2. [m EXCEPT !.rest = @ \ {C!Current}] \in Message
    <3> DEFINE left == m.rest \ {C!Current}
    <3>1. left \in (SUBSET C!Payload) \ {{}}
      BY <2>1
    <3> HIDE DEF left
    <3>2. [m EXCEPT !.rest = left] \in Message
      BY <1>1, <3>1 DEF Message
    <3> QED
      BY <3>2 DEF left
  <2>3. chain' \in Seq(Message)
    BY <1>1, <1>3, <2>2, AppendProperties
  <2> QED
    BY <1>2, <1>3, <2>3 DEF C!Finished
<1>4. CASE chain' = Tail(chain)
           /\ sent' = [t \in C!Turns |-> IF \E p \in m.all : p.t = t
                                         THEN (CHOOSE p \in m.all : p.t = t).v ELSE sent[t]]
  <2>1. \A p \in m.all : p.v \in 0..MaxV
    BY <1>1, PayloadFacts DEF Message
  <2>2. ASSUME NEW t \in C!Turns
        PROVE  (IF \E p \in m.all : p.t = t THEN (CHOOSE p \in m.all : p.t = t).v ELSE sent[t])
                 \in 0..MaxV
    <3>1. CASE \E p \in m.all : p.t = t
      <4>1. (CHOOSE p \in m.all : p.t = t) \in m.all
        BY <3>1
      <4> QED
        BY <2>1, <3>1, <4>1
    <3> QED
      BY <1>2, <3>1
  <2> QED
    BY <1>1, <1>4, <2>2 DEF C!Finished
<1> QED
  BY <1>3, <1>4 DEF C!Finished

\* A queue that is limited after each append never passes its limit.
LEMMA LimitedLength ==
    ASSUME MaxQueue \in Nat, NEW S, NEW q \in Seq(S), Len(q) <= MaxQueue + 1
    PROVE  Len(C!Limited(q)) <= MaxQueue
<1>1. CASE Len(q) <= MaxQueue
  BY <1>1 DEF C!Limited
<1>2. CASE ~(Len(q) <= MaxQueue) /\ \E i \in DOMAIN q : C!Final(q[i])
  <2> DEFINE I == {i \in 1..Len(q) : C!Final(q[i])}
             k == C!SelectInSeq(q, C!Final)
  <2>1. I \in SUBSET Nat /\ I # {}
    BY <1>2
  <2>2. k = C!Min(I)
    BY <2>1 DEF C!SelectInSeq
  <2>3. k \in 1..Len(q)
    BY <2>1, <2>2, MinIsOne
  <2>4. C!Limited(q) = C!RemoveAt(q, k)
    BY <1>2 DEF C!Limited
  <2> HIDE DEF k
  <2>5. \A i \in 1..Len(q) : q[i] \in S
    BY ElementOfSeq
  <2>6. SubSeq(q, 1, k - 1) \in Seq(S) /\ Len(SubSeq(q, 1, k - 1)) = k - 1
    <3>1. \A i \in 1..(k - 1) : q[i] \in S
      BY <2>3, <2>5
    <3> QED
      BY <2>3, <3>1, SubSeqProperties
  <2>7. SubSeq(q, k + 1, Len(q)) \in Seq(S) /\ Len(SubSeq(q, k + 1, Len(q))) = Len(q) - k
    <3>1. \A i \in (k + 1)..Len(q) : q[i] \in S
      BY <2>3, <2>5
    <3>2. Len(q) \in Int /\ k + 1 \in Int
      BY <2>3, LenProperties
    <3>3. /\ SubSeq(q, k + 1, Len(q)) \in Seq(S)
          /\ Len(SubSeq(q, k + 1, Len(q))) = IF k + 1 <= Len(q) THEN Len(q) - (k + 1) + 1 ELSE 0
      BY <3>1, <3>2, SubSeqProperties
    <3> QED
      BY ONLY <2>3, <3>2, <3>3
  <2>8. Len(C!Limited(q)) = (k - 1) + (Len(q) - k)
    BY <2>4, <2>6, <2>7, ConcatProperties DEF C!RemoveAt
  <2>9. Len(q) \in Nat
    BY LenProperties
  <2> QED
    BY ONLY <2>3, <2>8, <2>9, MaxQueue \in Nat, Len(q) <= MaxQueue + 1
<1>3. CASE ~(Len(q) <= MaxQueue) /\ ~(\E i \in DOMAIN q : C!Final(q[i]))
  <2>1. C!Limited(q) = Tail(q)
    BY <1>3 DEF C!Limited
  <2>2. q # <<>>
    BY <1>3
  <2>3. Len(Tail(q)) = Len(q) - 1
    BY <2>2, HeadTailProperties
  <2>4. Len(q) \in Nat
    BY LenProperties
  <2> QED
    BY ONLY <2>1, <2>3, <2>4, MaxQueue \in Nat, Len(q) <= MaxQueue + 1
<1> QED
  BY <1>1, <1>2, <1>3

\* The two requests, each of a turn or not there.
IsSlot(r) == r \in C!Served /\ (r.t = 0 <=> r.pc = "none")
SlotsTyped ==
    /\ served \in [C!Requests -> C!Served]
    /\ \A s \in C!Requests : served[s].t = 0 <=> served[s].pc = "none"
Stages == {"ok", "bad"} \cup C!Handling

\* A request that is there is of a turn.
LEMMA SlotTurns ==
    ASSUME DeliveryLimits, SlotsTyped, NEW s \in C!Requests, served[s].pc # "none"
    PROVE  served[s].t \in C!Turns /\ served[s].v \in 0..MaxV
<1>1. served[s] \in C!Served /\ served[s].t # 0
  BY DEF SlotsTyped
<1>2. served[s].t \in 0..MaxTurns /\ served[s].v \in 0..MaxV
  BY <1>1, Zenon DEF C!Served
<1> QED
  BY <1>1, <1>2 DEF C!Turns, DeliveryLimits

\* A request that is not there,
LEMMA NoRequestTypes == ASSUME DeliveryLimits PROVE IsSlot(C!NoRequest)
<1>1. FALSE \in BOOLEAN /\ 0 \in 0..MaxTurns /\ 0 \in 0..MaxV
  BY DEF DeliveryLimits
<1> QED
  BY <1>1 DEF IsSlot, C!NoRequest, C!Served

\* and one that goes on, with the flag it has or reads.
Staged(r, pc) == [r EXCEPT !.pc = pc]
Flagged(r, was) == [r EXCEPT !.pc = "ingest", !.was = was]
\* Its next stage changes nothing else of it.
LEMMA StageTypes ==
    ASSUME NEW r, IsSlot(r), r.pc # "none", NEW pc \in Stages
    PROVE  /\ IsSlot(Staged(r, pc)) /\ Staged(r, pc).pc = pc /\ Staged(r, pc).t = r.t
           /\ Staged(r, pc).v = r.v /\ Staged(r, pc).was = r.was
<1> DEFINE Pcs == {"none", "ok", "bad"} \cup C!Handling
           x == [r EXCEPT !.pc = pc]
<1>1. pc \in Pcs /\ pc # "none"
  BY DEF Stages, C!Handling
<1>2. r \in [pc : Pcs, t : 0..MaxTurns, v : 0..MaxV, was : BOOLEAN] /\ r.t # 0
  BY DEF IsSlot, C!Served
<1> HIDE DEF Pcs
<1>3. x \in [pc : Pcs, t : 0..MaxTurns, v : 0..MaxV, was : BOOLEAN]
      /\ x.pc = pc /\ x.t = r.t /\ x.v = r.v /\ x.was = r.was
  BY <1>1, <1>2, Zenon
<1> HIDE DEF x
<1>4. IsSlot(x)
  BY <1>1, <1>2, <1>3, Zenon DEF IsSlot, C!Served, Pcs
<1> QED
  BY <1>3, <1>4, Zenon DEF x, Staged
\* The same of the request whose flag is read.
LEMMA FlagTypes ==
    ASSUME NEW r, IsSlot(r), r.pc # "none", NEW was \in BOOLEAN
    PROVE  /\ IsSlot(Flagged(r, was)) /\ Flagged(r, was).pc = "ingest"
           /\ Flagged(r, was).t = r.t /\ Flagged(r, was).was = was
<1> DEFINE Pcs == {"none", "ok", "bad"} \cup C!Handling
           y == [r EXCEPT !.pc = "ingest", !.was = was]
<1>1. "ingest" \in Pcs /\ "ingest" # "none"
  BY DEF C!Handling
<1>2. r \in [pc : Pcs, t : 0..MaxTurns, v : 0..MaxV, was : BOOLEAN] /\ r.t # 0
  BY DEF IsSlot, C!Served
<1> HIDE DEF Pcs
<1>3. y \in [pc : Pcs, t : 0..MaxTurns, v : 0..MaxV, was : BOOLEAN]
      /\ y.pc = "ingest" /\ y.t = r.t /\ y.was = was
  BY <1>1, <1>2, Zenon
<1> HIDE DEF y
<1>4. IsSlot(y)
  BY <1>1, <1>2, <1>3, Zenon DEF IsSlot, C!Served, Pcs
<1> QED
  BY <1>3, <1>4, Zenon DEF y, Flagged

\* One request changes, the other does not.
LEMMA PutTypes ==
    ASSUME SlotsTyped, NEW s \in C!Requests, NEW q, IsSlot(q), served' = [served EXCEPT ![s] = q]
    PROVE  /\ SlotsTyped' /\ served'[s] = q
           /\ \A o \in C!Requests : o # s => served'[o] = served[o]
<1>1. q \in C!Served /\ (q.t = 0 <=> q.pc = "none")
  BY Zenon DEF IsSlot
<1> HIDE DEF C!Served
<1>2. /\ served' \in [C!Requests -> C!Served] /\ served'[s] = q
      /\ \A o \in C!Requests : o # s => served'[o] = served[o]
  BY <1>1, Zenon DEF SlotsTyped
<1> QED
  BY <1>1, <1>2, Zenon DEF SlotsTyped

\* A request is posted;
LEMMA PostTypes ==
    ASSUME DeliveryLimits, DeliveryOk, NEW p \in C!Payload, C!Post(p)
    PROVE  /\ SlotsTyped' /\ served'["awaited"].pc # "none" /\ unsure' \subseteq C!Turns
           /\ served'["awaited"] = [pc |-> "read", t |-> p.t, v |-> p.v, was |-> FALSE]
           /\ served'["lost"] = served["lost"]
<1> DEFINE q == [pc |-> "read", t |-> p.t, v |-> p.v, was |-> FALSE]
<1>1. p.t \in C!Turns /\ p.v \in 0..MaxV
  BY PayloadFacts
<1>2. p.t \in 0..MaxTurns /\ p.t # 0
  BY <1>1 DEF C!Turns, DeliveryLimits
<1>3. FALSE \in BOOLEAN /\ "read" \in {"none", "ok", "bad"} \cup C!Handling
  BY DEF C!Handling
<1>4. q \in C!Served
  BY <1>1, <1>2, <1>3, Zenon DEF C!Served
<1>5. q.t = p.t /\ q.pc = "read"
  OBVIOUS
<1>6. served' = [served EXCEPT !["awaited"] = q]
  BY DEF C!Post
<1> HIDE DEF q
<1>7. IsSlot(q)
  BY <1>2, <1>4, <1>5 DEF IsSlot
<1>8. "awaited" \in C!Requests /\ "lost" \in C!Requests /\ SlotsTyped
  BY DEF C!Requests, DeliveryOk, C!TypeOK, SlotsTyped
<1>9. SlotsTyped' /\ served'["awaited"] = q /\ served'["lost"] = served["lost"]
  BY <1>6, <1>7, <1>8, PutTypes
<1>10. unsure' \subseteq C!Turns
  BY <1>1 DEF C!Post, DeliveryOk, C!TypeOK
<1> QED
  BY <1>5, <1>9, <1>10 DEF q

\* it is no longer awaited;
LEMMA AbandonTypes ==
    ASSUME DeliveryLimits, DeliveryOk, C!Abandoned
    PROVE  /\ SlotsTyped' /\ served'["awaited"] = C!NoRequest /\ served'["awaited"].pc = "none"
           /\ cut' \subseteq C!Turns
           /\ \/ /\ served["lost"] = C!NoRequest /\ served'["lost"] = served["awaited"]
                 /\ cut' = cut
              \/ served'["lost"] = served["lost"] /\ C!Interrupted(served["awaited"])
<1>1. "awaited" \in C!Requests /\ "lost" \in C!Requests /\ SlotsTyped
      /\ cut \subseteq C!Turns /\ \A s \in C!Requests : s = "awaited" \/ s = "lost"
  BY DEF C!Requests, DeliveryOk, C!TypeOK, SlotsTyped
<1>2. C!NoRequest.pc = "none" /\ IsSlot(C!NoRequest)
  BY NoRequestTypes DEF C!NoRequest
<1>3. CASE /\ served["lost"] = C!NoRequest /\ cut' = cut
           /\ served' = [awaited |-> C!NoRequest, lost |-> served["awaited"]]
  <2> DEFINE n == C!NoRequest
             a == served["awaited"]
  <2>1. IsSlot(n) /\ IsSlot(a)
    BY <1>1, <1>2, Zenon DEF SlotsTyped, IsSlot
  <2>2. served' = [awaited |-> n, lost |-> a]
    BY <1>3
  <2> HIDE DEF n, a, C!Served
  <2>3. served'["awaited"] = n /\ served'["lost"] = a /\ DOMAIN served' = C!Requests
        /\ served' = [s \in DOMAIN served' |-> served'[s]]
    BY <2>2 DEF C!Requests
  <2>4. served' \in [C!Requests -> C!Served]
    BY <1>1, <2>1, <2>3 DEF IsSlot
  <2>5. SlotsTyped'
    BY <1>1, <2>1, <2>3, <2>4 DEF SlotsTyped, IsSlot
  <2> QED
    BY <1>1, <1>2, <1>3, <2>3, <2>5 DEF n, a
<1>4. CASE /\ served' = [served EXCEPT !["awaited"] = C!NoRequest]
           /\ C!Interrupted(served["awaited"])
  <2>1. /\ SlotsTyped' /\ served'["awaited"] = C!NoRequest /\ served'["lost"] = served["lost"]
    BY <1>1, <1>2, <1>4, PutTypes
  <2>2. cut' \subseteq C!Turns
    <3>1. served["awaited"].pc # "none" => served["awaited"].t \in C!Turns
      BY <1>1, SlotTurns
    <3>2. \/ cut' = cut
          \/ served["awaited"].pc = "bump" /\ cut' = cut \cup {served["awaited"].t}
      BY <1>4 DEF C!Interrupted
    <3> QED
      BY <1>1, <3>1, <3>2
  <2> QED
    BY <1>2, <1>4, <2>1, <2>2
<1> QED
  BY <1>3, <1>4 DEF C!Abandoned

\* and the supervisor handles it: its next stage, or nobody hears the answer.
LEMMA ReplyTypes ==
    ASSUME DeliveryLimits, SlotsTyped, NEW s \in C!Requests, served[s].pc # "none",
           NEW pc \in Stages, C!To(s, pc) \/ C!Reply(s, pc)
    PROVE  /\ SlotsTyped' /\ \A o \in C!Requests : o # s => served'[o] = served[o]
           /\ \/ served'[s] = C!NoRequest /\ s = "lost"
              \/ /\ served'[s].pc = pc /\ served'[s].t = served[s].t
                 /\ served'[s].was = served[s].was
<1> DEFINE r == served[s]
           q == Staged(r, pc)
<1>1. IsSlot(r) /\ r.pc # "none" /\ DOMAIN served = C!Requests
  BY Zenon DEF SlotsTyped, IsSlot
<1>2. IsSlot(q) /\ q.pc = pc /\ q.t = r.t /\ q.was = r.was
  <2> HIDE DEF r
  <2> QED
    BY <1>1, StageTypes
<1>3. \/ served' = [served EXCEPT ![s] = q]
      \/ s = "lost" /\ served' = [served EXCEPT ![s] = C!NoRequest]
  BY <1>1, Zenon DEF C!To, C!Reply, C!Requests, Staged
<1> HIDE DEF q
<1>4. CASE served' = [served EXCEPT ![s] = q]
  BY <1>2, <1>4, PutTypes, Zenon
<1>5. CASE s = "lost" /\ served' = [served EXCEPT ![s] = C!NoRequest]
  BY <1>5, NoRequestTypes, PutTypes, Zenon
<1> QED
  BY <1>3, <1>4, <1>5

\* What a stored turn leaves in the table.
LEMMA StoredTypes ==
    ASSUME DeliveryLimits, NEW r, r.t \in C!Turns, r.v \in 0..MaxV, C!Stored(r),
           table \in [C!Turns -> TurnRow]
    PROVE  /\ table' \in [C!Turns -> TurnRow]
           /\ \A t \in C!Turns : t # r.t => table'[t] = table[t]
           /\ table'[r.t].final = (table[r.t].final \/ C!Final(r))
<1> DEFINE final == table[r.t].final \/ C!Final(r)
           new == [v |-> r.v, final |-> final]
<1>1. final \in BOOLEAN
  BY Zenon
<1>2. new \in TurnRow /\ new.final = final
  BY <1>1, Zenon DEF TurnRow
<1>3. table' = [table EXCEPT ![r.t] = new]
  BY DEF C!Stored
<1> HIDE DEF new, final, TurnRow
<1>4. table' \in [C!Turns -> TurnRow] /\ table'[r.t] = new
      /\ \A t \in C!Turns : t # r.t => table'[t] = table[t]
  BY <1>2, <1>3
<1> QED
  BY <1>2, <1>4 DEF final

\* The supervisor's statements.
LEMMA HandleTypes ==
    ASSUME DeliveryLimits, DeliveryOk, C!Handle
    PROVE  /\ SlotsTyped' /\ (served'["awaited"].pc = "none" <=> served["awaited"].pc = "none")
           /\ table' \in [C!Turns -> TurnRow] /\ counted' \in [C!Turns -> Nat]
           /\ cut' \subseteq C!Turns /\ unsure' \subseteq C!Turns /\ troubles' \in 0..MaxTroubles
<1>1. /\ SlotsTyped /\ table \in [C!Turns -> TurnRow] /\ counted \in [C!Turns -> Nat]
      /\ cut \subseteq C!Turns /\ unsure \subseteq C!Turns /\ troubles \in 0..MaxTroubles
      /\ "awaited" \in C!Requests /\ "lost" \in C!Requests /\ "awaited" # "lost"
  BY DEF DeliveryOk, C!TypeOK, SlotsTyped, TurnRow, C!Requests
<1>2. C!Trouble => troubles' \in 0..MaxTroubles
  BY <1>1 DEF C!Trouble, DeliveryLimits
<1>3. \A s \in C!Requests : served[s].pc # "none" => served[s].t \in C!Turns /\ served[s].v \in 0..MaxV
  BY <1>1, SlotTurns
<1>4. {"ok", "bad", "ingest", "bump"} \subseteq Stages /\ C!NoRequest.pc = "none"
      /\ \A pc \in Stages : pc # "none"
  BY DEF Stages, C!Handling, C!NoRequest
<1>5. CASE C!Stop
  <2>1. served' = [served EXCEPT !["lost"] = C!NoRequest] /\ served["lost"].pc # "none"
        /\ C!Interrupted(served["lost"]) /\ UNCHANGED <<table, counted, unsure, troubles>>
    BY <1>5 DEF C!Stop
  <2>2. SlotsTyped' /\ served'["awaited"] = served["awaited"]
    BY <1>1, <2>1, NoRequestTypes, PutTypes
  <2>3. cut' \subseteq C!Turns
    BY <1>1, <1>3, <2>1 DEF C!Interrupted
  <2> QED
    BY <1>1, <2>1, <2>2, <2>3
<1>6. ASSUME NEW s \in C!Requests, NEW pc \in Stages, served[s].pc # "none",
             C!To(s, pc) \/ C!Reply(s, pc)
      PROVE  SlotsTyped' /\ (served'["awaited"].pc = "none" <=> served["awaited"].pc = "none")
  <2>1. /\ SlotsTyped' /\ \A o \in C!Requests : o # s => served'[o] = served[o]
        /\ \/ served'[s] = C!NoRequest /\ s = "lost"
           \/ served'[s].pc = pc
    BY <1>1, <1>6, ReplyTypes, Zenon
  <2> QED
    BY <1>1, <1>4, <1>6, <2>1, Zenon
<1>7. ASSUME NEW s \in C!Requests, C!ReadFlag(s)
      PROVE  /\ SlotsTyped' /\ (served'["awaited"].pc = "none" <=> served["awaited"].pc = "none")
             /\ unsure' \subseteq C!Turns /\ troubles' \in 0..MaxTroubles
  <2>1. served[s].pc = "read" /\ served[s].pc # "none"
    BY <1>7 DEF C!ReadFlag
  <2>2. CASE /\ served' = [served EXCEPT ![s].pc = "ingest", ![s].was = table[served[s].t].final]
             /\ UNCHANGED <<unsure, troubles>>
    <3> DEFINE r == served[s]
               was == table[r.t].final
               q == Flagged(r, was)
    <3>1. was \in BOOLEAN /\ IsSlot(r) /\ r.pc # "none"
      BY <1>1, <1>3, <2>1 DEF TurnRow, SlotsTyped, IsSlot
    <3>2. served' = [served EXCEPT ![s] = q]
      BY <2>2, Zenon DEF Flagged
    <3>3. IsSlot(q) /\ q.pc = "ingest"
      <4> HIDE DEF r, was
      <4> QED
        BY <3>1, FlagTypes
    <3> HIDE DEF q
    <3>4. SlotsTyped' /\ served'[s] = q /\ \A o \in C!Requests : o # s => served'[o] = served[o]
      BY <1>1, <3>2, <3>3, PutTypes, Zenon
    <3> QED
      BY <1>1, <2>1, <2>2, <3>3, <3>4
  <2>3. CASE C!Trouble /\ C!To(s, "ingest") /\ unsure' = unsure \cup {served[s].t}
    BY <1>1, <1>2, <1>3, <1>4, <1>6, <2>1, <2>3
  <2> QED
    BY <1>7, <2>2, <2>3 DEF C!ReadFlag
<1>8. ASSUME NEW s \in C!Requests, C!Ingest(s)
      PROVE  /\ SlotsTyped' /\ (served'["awaited"].pc = "none" <=> served["awaited"].pc = "none")
             /\ table' \in [C!Turns -> TurnRow] /\ troubles' \in 0..MaxTroubles
  <2>1. served[s].pc # "none"
    BY <1>8 DEF C!Ingest
  <2>2. \E pc \in Stages : C!To(s, pc) \/ C!Reply(s, pc)
    BY <1>4, <1>8, Zenon DEF C!Ingest
  <2>3. C!Stored(served[s]) \/ table' = table
    BY <1>8, Zenon DEF C!Ingest
  <2>4. C!Trouble \/ troubles' = troubles
    BY <1>8, Zenon DEF C!Ingest
  <2>5. C!Stored(served[s]) => table' \in [C!Turns -> TurnRow]
    BY <1>1, <1>3, <2>1, StoredTypes
  <2> QED
    BY <1>1, <1>2, <1>6, <2>1, <2>2, <2>3, <2>4, <2>5
<1>9. ASSUME NEW s \in C!Requests, C!Bump(s)
      PROVE  /\ SlotsTyped' /\ (served'["awaited"].pc = "none" <=> served["awaited"].pc = "none")
             /\ counted' \in [C!Turns -> Nat] /\ cut' \subseteq C!Turns
             /\ troubles' \in 0..MaxTroubles
  <2>1. served[s].pc # "none"
    BY <1>9 DEF C!Bump
  <2>2. \E pc \in Stages : C!To(s, pc) \/ C!Reply(s, pc)
    BY <1>4, <1>9, Zenon DEF C!Bump
  <2>3. counted' = [counted EXCEPT ![served[s].t] = @ + 1] \/ counted' = counted
    BY <1>9 DEF C!Bump
  <2>4. C!Trouble \/ troubles' = troubles
    BY <1>9, Zenon DEF C!Bump
  <2>5. cut' = cut \/ cut' = cut \cup {served[s].t}
    BY <1>9, Zenon DEF C!Bump
  <2>6. counted' \in [C!Turns -> Nat]
    BY <1>1, <1>3, <2>1, <2>3
  <2> QED
    BY <1>1, <1>2, <1>3, <1>6, <2>1, <2>2, <2>4, <2>5, <2>6
<1>10. ASSUME NEW s \in C!Requests, C!ReadFlag(s)
       PROVE  table' = table /\ counted' = counted /\ cut' = cut
  BY <1>10 DEF C!ReadFlag
<1>11. ASSUME NEW s \in C!Requests, C!Ingest(s)
       PROVE  counted' = counted /\ cut' = cut /\ unsure' = unsure
  BY <1>11 DEF C!Ingest
<1>12. ASSUME NEW s \in C!Requests, C!Bump(s) PROVE table' = table /\ unsure' = unsure
  BY <1>12 DEF C!Bump
<1> QED
  BY <1>1, <1>5, <1>7, <1>8, <1>9, <1>10, <1>11, <1>12 DEF C!Handle

\* Every step of a delivery keeps its state within its types.
LEMMA DeliveryTypes == ASSUME DeliveryLimits, DeliveryOk, [C!DNext]_(C!dvars) PROVE DeliveryOk'
<1> USE DEF DeliveryOk
<1>1. ASSUME NEW t \in C!Turns, C!Grow(t) PROVE DeliveryOk'
  <2>1. UNCHANGED <<scanned, sent, frozen, chain, step, served, queue, table, counted, cut, unsure, troubles>>
        /\ page' = [page EXCEPT ![t] = @ + 1] /\ page[t] < MaxV
    BY <1>1 DEF C!Grow, C!tables
  <2>2. page' \in [C!Turns -> 0..MaxV]
    <3>1. page[t] + 1 \in 0..MaxV
      BY <2>1 DEF C!TypeOK, DeliveryLimits
    <3> QED
      BY <2>1, <3>1 DEF C!TypeOK
  <2> QED
    BY <2>1, <2>2 DEF C!TypeOK
<1>2. CASE C!Scan
  <2>1. UNCHANGED <<page, sent, frozen, step, served, queue, table, counted, cut, unsure, troubles>>
        /\ scanned' = page
    BY <1>2 DEF C!Scan, C!tables
  <2>2. C!Candidates \subseteq C!Payload
    <3>1. ASSUME NEW t \in C!Turns, page[t] > 0 PROVE [t |-> t, v |-> page[t]] \in C!Payload
      <4>1. page[t] \in 1..MaxV
        BY <3>1 DEF C!TypeOK, DeliveryLimits
      <4> QED
        BY <4>1 DEF C!Payload
    <3> QED
      BY <3>1 DEF C!Candidates
  <2>3. chain' \in Seq(Message) /\ (chain # <<>> => chain' # <<>>)
    <3>1. CASE C!Candidates = {}
      BY <1>2, <3>1 DEF C!Scan
    <3>2. CASE C!Candidates # {}
      <4> DEFINE m == [rest |-> C!Candidates, all |-> C!Candidates]
      <4>1. m \in Message
        BY <2>2, <3>2 DEF Message
      <4>2. chain' = Append(chain, m)
        BY <1>2, <3>2 DEF C!Scan
      <4> HIDE DEF m
      <4> QED
        BY <4>1, <4>2, AppendProperties
    <3> QED
      BY <3>1, <3>2
  <2>4. \A i \in DOMAIN chain' : chain'[i].rest \subseteq C!Payload /\ chain'[i].rest # {}
    BY <2>3, ChainFacts
  <2> QED
    BY <2>1, <2>3, <2>4 DEF C!TypeOK
<1>3. CASE C!Build
  <2>1. UNCHANGED <<page, scanned, sent, chain, served, queue, table, counted, cut, unsure, troubles>>
        /\ chain # <<>> /\ step = "idle" /\ step' = "flush"
    BY <1>3 DEF C!Build, C!tables
  <2>2. frozen' \in [C!Turns -> {"none", "review", "other"}]
    <3>1. frozen \in [C!Turns -> {"none", "review", "other"}]
      BY DEF C!TypeOK
    <3>2. PICK c \in {"review", "other"} :
            frozen' = IF frozen[C!Current.t] = "none" THEN [frozen EXCEPT ![C!Current.t] = c] ELSE frozen
      BY <1>3 DEF C!Build
    <3> QED
      BY <3>1, <3>2
  <2> QED
    BY <2>1, <2>2 DEF C!TypeOK
<1>4. CASE C!FlushHead
  <2>1. /\ UNCHANGED <<page, scanned, sent, frozen, chain, queue, table, counted, cut, troubles>>
        /\ queue # <<>> /\ step = "flush" /\ step' = "head" /\ C!Post(Head(queue))
    BY <1>4 DEF C!FlushHead
  <2>2. Head(queue) \in C!Payload
    BY <2>1, HeadTailProperties DEF C!TypeOK
  <2>3. SlotsTyped' /\ served'["awaited"].pc # "none" /\ unsure' \subseteq C!Turns
    BY <2>1, <2>2, PostTypes
  <2> QED
    BY <2>1, <2>3 DEF C!TypeOK, SlotsTyped
<1>5. CASE C!AckHead
  <2>1. UNCHANGED <<page, scanned, sent, frozen, chain, served, table, counted, cut, unsure, troubles>>
        /\ step = "ack" /\ step' = "flush" /\ queue' = Tail(queue)
    BY <1>5 DEF C!AckHead, C!tables
  <2>2. queue \in Seq(C!Payload) /\ Len(queue) <= MaxQueue /\ queue # <<>>
    BY <2>1 DEF C!TypeOK
  <2>3. queue' \in Seq(C!Payload) /\ Len(queue') = Len(queue) - 1 /\ Len(queue) \in Nat
    BY <2>1, <2>2, HeadTailProperties, LenProperties
  <2>4. Len(queue') <= MaxQueue
    BY <2>2, <2>3 DEF DeliveryLimits
  <2> QED
    BY <2>1, <2>3, <2>4 DEF C!TypeOK
<1>6. CASE C!PostCurrent
  <2>1. /\ UNCHANGED <<page, scanned, sent, frozen, chain, queue, table, counted, cut, troubles>>
        /\ step = "flush" /\ step' = "current" /\ C!Post(C!Current)
    BY <1>6 DEF C!PostCurrent
  <2>2. chain # <<>>
    BY <2>1 DEF C!TypeOK
  <2>3. C!Current \in C!Payload
    BY <2>2, CurrentFacts
  <2>4. SlotsTyped' /\ served'["awaited"].pc # "none" /\ unsure' \subseteq C!Turns
    BY <2>1, <2>3, PostTypes
  <2> QED
    BY <2>1, <2>2, <2>4 DEF C!TypeOK, SlotsTyped
<1>7. CASE C!Enqueue
  <2>1. UNCHANGED <<page, scanned, frozen, served, table, counted, cut, unsure, troubles>> /\ chain # <<>>
        /\ step = "enqueue" /\ C!Finished /\ queue' = C!Limited(Append(queue, C!Current))
    BY <1>7 DEF C!Enqueue, C!TypeOK, C!tables
  <2>2. chain' \in Seq(Message) /\ sent' \in [C!Turns -> 0..MaxV] /\ step' = "idle"
    BY <2>1, FinishedTypes
  <2>3. \A i \in DOMAIN chain' : chain'[i].rest \subseteq C!Payload /\ chain'[i].rest # {}
    BY <2>2, ChainFacts
  <2>4. C!Current \in C!Payload
    BY <2>1, CurrentFacts
  <2>5. queue \in Seq(C!Payload) /\ Len(queue) <= MaxQueue /\ MaxQueue \in Nat
    BY DEF C!TypeOK, DeliveryLimits
  <2> DEFINE q == Append(queue, C!Current)
  <2>6. q \in Seq(C!Payload) /\ Len(q) = Len(queue) + 1 /\ Len(queue) \in Nat
    BY <2>4, <2>5, AppendProperties, LenProperties
  <2> HIDE DEF q
  <2>7. Len(q) <= MaxQueue + 1
    BY ONLY <2>5, <2>6
  <2>8. queue' \in Seq(C!Payload) /\ Len(queue') <= MaxQueue
    <3>1. queue' = C!Limited(q)
      BY <2>1 DEF q
    <3>2. C!Limited(q) \in Seq(C!Payload)
      BY <2>5, <2>6, LimitedFacts
    <3>3. Len(C!Limited(q)) <= MaxQueue
      BY <2>5, <2>6, <2>7, LimitedLength
    <3> QED
      BY <3>1, <3>2, <3>3
  <2> QED
    BY <2>1, <2>2, <2>3, <2>8 DEF C!TypeOK
<1>8. CASE C!KillWorker
  <2>1. /\ UNCHANGED <<page, scanned, sent, frozen, queue, table, counted, unsure>>
        /\ chain' = <<>> /\ step' = "idle" /\ C!Abandoned /\ C!Trouble
    BY <1>8 DEF C!KillWorker
  <2>2. troubles' \in 0..MaxTroubles
    BY <2>1 DEF C!Trouble, C!TypeOK, DeliveryLimits
  <2>3. SlotsTyped' /\ served'["awaited"].pc = "none" /\ cut' \subseteq C!Turns
    BY <2>1, AbandonTypes
  <2> QED
    BY <2>1, <2>2, <2>3 DEF C!TypeOK, SlotsTyped
<1>10. CASE C!Disconnect
  <2>1. /\ UNCHANGED <<page, scanned, sent, frozen, chain, queue, table, counted, unsure>>
        /\ step \in {"head", "current"} /\ step' = "enqueue" /\ C!Abandoned /\ C!Trouble
    BY <1>10 DEF C!Disconnect
  <2>2. troubles' \in 0..MaxTroubles
    BY <2>1 DEF C!Trouble, C!TypeOK, DeliveryLimits
  <2>3. SlotsTyped' /\ served'["awaited"].pc = "none" /\ cut' \subseteq C!Turns
    BY <2>1, AbandonTypes
  <2> QED
    BY <2>1, <2>2, <2>3 DEF C!TypeOK, SlotsTyped
<1>11. CASE C!Answer
  <2>1. /\ UNCHANGED <<page, scanned, frozen, queue, table, counted, cut, unsure, troubles>>
        /\ served' = [served EXCEPT !["awaited"] = C!NoRequest]
        /\ served["awaited"].pc # "none" /\ step \in {"head", "current"}
    BY <1>11 DEF C!Answer, C!TypeOK, C!tables
  <2>2. SlotsTyped' /\ served'["awaited"].pc = "none"
    BY <2>1, NoRequestTypes, PutTypes DEF SlotsTyped, C!TypeOK, C!NoRequest, C!Requests
  <2>3. chain # <<>>
    BY <2>1 DEF C!TypeOK
  <2>4. CASE C!Finished
    <3>1. chain' \in Seq(Message) /\ sent' \in [C!Turns -> 0..MaxV] /\ step' = "idle"
      BY <2>3, <2>4, FinishedTypes
    <3>2. \A i \in DOMAIN chain' : chain'[i].rest \subseteq C!Payload /\ chain'[i].rest # {}
      BY <3>1, ChainFacts
    <3> QED
      BY <2>1, <2>2, <3>1, <3>2 DEF C!TypeOK, SlotsTyped
  <2>5. CASE step' = "ack" /\ step = "head" /\ UNCHANGED <<chain, sent>>
    BY <2>1, <2>2, <2>3, <2>5 DEF C!TypeOK, SlotsTyped
  <2>6. CASE step' = "enqueue" /\ UNCHANGED <<chain, sent>>
    BY <2>1, <2>2, <2>3, <2>6 DEF C!TypeOK, SlotsTyped
  <2> QED
    BY <1>11, <2>4, <2>5, <2>6 DEF C!Answer
<1>12. CASE C!Handle
  <2>1. UNCHANGED <<page, scanned, sent, frozen, chain, step, queue>>
    BY <1>12 DEF C!Handle
  <2>2. /\ SlotsTyped' /\ (served'["awaited"].pc = "none" <=> served["awaited"].pc = "none")
        /\ table' \in [C!Turns -> TurnRow] /\ counted' \in [C!Turns -> Nat]
        /\ cut' \subseteq C!Turns /\ unsure' \subseteq C!Turns /\ troubles' \in 0..MaxTroubles
    BY <1>12, HandleTypes
  <2> QED
    BY <2>1, <2>2 DEF C!TypeOK, SlotsTyped, TurnRow
<1>9. CASE UNCHANGED C!dvars
  BY <1>9 DEF C!dvars, C!tables, C!TypeOK
<1> QED
  BY <1>1, <1>2, <1>3, <1>4, <1>5, <1>6, <1>7, <1>8, <1>9, <1>10, <1>11, <1>12 DEF C!DNext

\* The state at the beginning.
LEMMA DeliveryStart == ASSUME DeliveryLimits, C!DInit PROVE DeliveryOk
<1>1. 0 \in 0..MaxV /\ 0 \in 0..MaxTroubles /\ 0 <= MaxQueue
  BY DEF DeliveryLimits
<1>2. [t \in C!Turns |-> 0] \in [C!Turns -> 0..MaxV] /\ [t \in C!Turns |-> 0] \in [C!Turns -> Nat]
  BY <1>1
<1>3. [t \in C!Turns |-> C!Absent] \in [C!Turns -> [v : 0..MaxV, final : BOOLEAN]]
  BY <1>1 DEF C!Absent
<1>4. SlotsTyped /\ served["awaited"].pc = "none"
  <2>1. served = [s \in C!Requests |-> C!NoRequest] /\ C!NoRequest.pc = "none"
        /\ "awaited" \in C!Requests
    BY DEF C!DInit, C!NoRequest, C!Requests
  <2>2. C!NoRequest \in C!Served /\ (C!NoRequest.t = 0 <=> C!NoRequest.pc = "none")
    BY NoRequestTypes DEF IsSlot
  <2> QED
    BY <2>1, <2>2, Zenon DEF SlotsTyped
<1> QED
  BY <1>1, <1>2, <1>3, <1>4 DEF C!DInit, C!TypeOK, DeliveryOk, SlotsTyped

\* The collector's queue never passes its limit, no delivery is handled without a
\* message that waits for it, and every message in the chain has something left to
\* deliver, whatever fails and whenever the browser ends the worker.
THEOREM DeliveryTyped == ASSUME DeliveryLimits PROVE C!DSpec => []C!TypeOK
<1>1. C!DInit => DeliveryOk
  BY DeliveryStart
<1>2. DeliveryOk => C!TypeOK
  BY DEF DeliveryOk
<1> QED
  BY <1>1, <1>2, DeliveryTypes, PTL DEF C!DSpec
-----------------------------------------------------------------------------
(* The counting *)

\* A payload whose turn has its context.
Fixed(p) == p.t \in C!Turns => frozen[p.t] # "none"

\* Whatever is sent, or about to be, has its context.
QueuesInv ==
    /\ \E S : queue \in Seq(S) /\ \A p \in S : Fixed(p)
    /\ step # "idle" => Fixed(C!Current)

\* What is known of the turn of a request.
SlotOk(r) ==
    r.t \in C!Turns =>
        /\ frozen[r.t] # "none"
        /\ r.was => table[r.t].final
        /\ r.pc = "bump" => table[r.t].final /\ (r.t \notin unsure => counted[r.t] = 0)
        /\ r.pc = "ingest" /\ table[r.t].final => r.was \/ r.t \in unsure

Bumping(t) == \E s \in C!Requests : served[s].pc = "bump" /\ served[s].t = t
Apart ==
    /\ served["awaited"].t = served["lost"].t
    /\ served["lost"].t \in C!Turns
    => served["lost"].t \in unsure

TurnOk(t) ==
    /\ table[t].final => frozen[t] # "none"
    /\ t \notin unsure => counted[t] <= 1 /\ (counted[t] # 0 => table[t].final)
    /\ table[t].final /\ frozen[t] = "review" /\ t \notin cut /\ ~Bumping(t) => counted[t] >= 1

CountInv ==
    /\ \A s \in C!Requests : SlotOk(served[s])
    /\ Apart
    /\ \A t \in C!Turns : TurnOk(t)

DeliveryInv == DeliveryOk /\ QueuesInv /\ CountInv

\* The types the counting rests on.
LEMMA TableTypes ==
    ASSUME DeliveryOk
    PROVE  /\ table \in [C!Turns -> TurnRow] /\ counted \in [C!Turns -> Nat]
           /\ frozen \in [C!Turns -> {"none", "review", "other"}] /\ SlotsTyped
           /\ cut \subseteq C!Turns /\ unsure \subseteq C!Turns
           /\ "awaited" \in C!Requests /\ "lost" \in C!Requests
           /\ \A s \in C!Requests : s = "awaited" \/ s = "lost"
  BY DEF DeliveryOk, C!TypeOK, SlotsTyped, TurnRow, C!Requests

\* A step that leaves the rows and the counts alone: every request is as sound as
\* before, and one that was to move the revision still is, or is known to be cut.
LEMMA QuietKeeps ==
    ASSUME CountInv, UNCHANGED <<table, counted, frozen>>, unsure \subseteq unsure',
           cut \subseteq cut', Apart',
           \A s \in C!Requests : SlotOk(served'[s]) \/ SlotOk(served[s])',
           \A t \in C!Turns : Bumping(t) => Bumping(t)' \/ t \in cut'
    PROVE  CountInv'
<1>1. ASSUME NEW s \in C!Requests PROVE SlotOk(served[s])'
  BY <1>1, Zenon DEF SlotOk
<1>2. ASSUME NEW t \in C!Turns PROVE TurnOk(t)'
  <2>1. TurnOk(t)
    BY DEF CountInv
  <2>2. ~Bumping(t)' /\ t \notin cut' => ~Bumping(t) /\ t \notin cut
    OBVIOUS
  <2>3. t \notin unsure' => t \notin unsure
    OBVIOUS
  <2> HIDE DEF Bumping
  <2> QED
    BY <2>1, <2>2, <2>3, Zenon DEF TurnOk
<1> QED
  BY <1>1, <1>2, Zenon DEF CountInv

\* No request, and one that has just been posted, claims nothing.
LEMMA NewSlots ==
    ASSUME NEW q, q = C!NoRequest \/ (q.pc = "read" /\ ~q.was /\ Fixed(q))
    PROVE  SlotOk(q)
<1>1. CASE q = C!NoRequest
  <2>1. q.t = 0
    BY <1>1 DEF C!NoRequest
  <2>2. ~(0 \in C!Turns)
    BY DEF C!Turns
  <2> QED
    BY <2>1, <2>2 DEF SlotOk
<1>2. CASE q.pc = "read" /\ ~q.was /\ Fixed(q)
  BY <1>2 DEF SlotOk, Fixed
<1> QED
  BY <1>1, <1>2

\* A request is posted.
LEMMA PostCounts ==
    ASSUME DeliveryLimits, DeliveryOk, CountInv, NEW p \in C!Payload, Fixed(p), C!Post(p),
           served["awaited"].pc = "none",
           UNCHANGED <<table, counted, cut, frozen>>
    PROVE  CountInv'
<1>1. /\ served'["awaited"] = [pc |-> "read", t |-> p.t, v |-> p.v, was |-> FALSE]
      /\ served'["lost"] = served["lost"]
  BY PostTypes
<1>2. unsure' = IF served["lost"].t = p.t THEN unsure \cup {p.t} ELSE unsure
  BY DEF C!Post
<1> DEFINE q == [pc |-> "read", t |-> p.t, v |-> p.v, was |-> FALSE]
<1>3. q.pc = "read" /\ ~q.was /\ q.t = p.t
  OBVIOUS
<1> HIDE DEF q
<1>4. served'["awaited"] = q
  BY <1>1 DEF q
<1>5. SlotOk(q)
  BY <1>3, NewSlots DEF Fixed
<1>6. \A s \in C!Requests : s = "awaited" \/ s = "lost"
  BY TableTypes
<1>7. \A s \in C!Requests : SlotOk(served'[s])
  <2>1. SlotOk(served["lost"])
    BY DEF CountInv, C!Requests
  <2> QED
    BY <1>1, <1>4, <1>5, <1>6, <2>1
<1>8. Apart'
  BY <1>1, <1>2, <1>3, <1>4 DEF Apart, CountInv
<1>9. ASSUME NEW t \in C!Turns, Bumping(t) PROVE Bumping(t)'
  BY <1>1, <1>6, <1>9 DEF Bumping
<1> QED
  BY <1>2, <1>7, <1>8, <1>9, QuietKeeps

\* Requests that are answered, abandoned or stopped: none is new.
LEMMA DropCounts ==
    ASSUME DeliveryOk, CountInv, UNCHANGED <<table, counted, frozen, unsure>>,
           cut \subseteq cut',
           \A s \in C!Requests : served'[s] = C!NoRequest \/ \E o \in C!Requests : served'[s] = served[o],
           served'["awaited"] = C!NoRequest
             \/ (served'["awaited"] = served["awaited"] /\ served'["lost"] = C!NoRequest),
           \A s \in C!Requests : served[s].pc = "bump" =>
             served[s].t \in cut' \/ \E o \in C!Requests : served'[o] = served[s]
    PROVE  CountInv'
<1>1. ~(C!NoRequest.t \in C!Turns) /\ C!NoRequest.t = 0
  BY DEF C!NoRequest, C!Turns
<1>2. ASSUME NEW s \in C!Requests PROVE SlotOk(served'[s])
  <2>1. CASE served'[s] = C!NoRequest
    BY <2>1, NewSlots
  <2>2. CASE \E o \in C!Requests : served'[s] = served[o]
    BY <2>2 DEF CountInv
  <2> QED
    BY <2>1, <2>2
<1>3. Apart'
  BY <1>1 DEF Apart
<1>4. ASSUME NEW t \in C!Turns, Bumping(t) PROVE Bumping(t)' \/ t \in cut'
  BY <1>4 DEF Bumping
<1> QED
  BY <1>2, <1>3, <1>4, QuietKeeps

\* The flag is read, or could not be.
LEMMA ReadCounts ==
    ASSUME DeliveryLimits, DeliveryOk, CountInv, NEW s \in C!Requests, C!ReadFlag(s), frozen' = frozen
    PROVE  CountInv'
<1> DEFINE r == served[s]
           was == table[r.t].final
<1>1. /\ SlotsTyped /\ table \in [C!Turns -> TurnRow]
      /\ "awaited" \in C!Requests /\ "lost" \in C!Requests
      /\ \A o \in C!Requests : o = "awaited" \/ o = "lost"
  BY TableTypes
<1>2. r.pc = "read" /\ UNCHANGED <<table, counted, cut>>
  BY DEF C!ReadFlag
<1>3. IsSlot(r) /\ r.pc # "none" /\ r.t \in C!Turns
  <2>1. IsSlot(r) /\ r.pc # "none"
    BY <1>1, <1>2, Zenon DEF SlotsTyped, IsSlot
  <2> QED
    BY <1>1, <2>1, SlotTurns
<1>4. was \in BOOLEAN
  BY <1>1, <1>3 DEF TurnRow
<1>5. PICK q : /\ served' = [served EXCEPT ![s] = q] /\ IsSlot(q) /\ q.t = r.t /\ q.pc = "ingest"
               /\ \/ (q.was <=> was) /\ unsure' = unsure
                  \/ (q.was <=> r.was) /\ unsure' = unsure \cup {r.t}
  <2>1. CASE /\ served' = [served EXCEPT ![s].pc = "ingest", ![s].was = table[served[s].t].final]
             /\ UNCHANGED <<unsure, troubles>>
    <3>1. served' = [served EXCEPT ![s] = Flagged(r, was)]
      BY <2>1, Zenon DEF Flagged
    <3>2. IsSlot(Flagged(r, was)) /\ Flagged(r, was).pc = "ingest" /\ Flagged(r, was).t = r.t
          /\ Flagged(r, was).was = was
      <4> HIDE DEF r, was
      <4> QED
        BY <1>3, <1>4, FlagTypes
    <3> QED
      BY <2>1, <3>1, <3>2
  <2>2. CASE C!To(s, "ingest") /\ unsure' = unsure \cup {served[s].t}
    <3>1. served' = [served EXCEPT ![s] = Staged(r, "ingest")]
      BY <2>2, Zenon DEF Staged, C!To
    <3>2. "ingest" \in Stages
      BY DEF Stages, C!Handling
    <3>3. IsSlot(Staged(r, "ingest")) /\ Staged(r, "ingest").pc = "ingest"
          /\ Staged(r, "ingest").t = r.t /\ Staged(r, "ingest").was = r.was
      <4> HIDE DEF r
      <4> QED
        BY <1>3, <3>2, StageTypes
    <3> QED
      BY <2>2, <3>1, <3>3
  <2> QED
    BY <2>1, <2>2 DEF C!ReadFlag
<1>6. served'[s] = q /\ \A o \in C!Requests : o # s => served'[o] = served[o]
  BY <1>1, <1>5, PutTypes
<1>7. SlotOk(r) /\ \A o \in C!Requests : SlotOk(served[o])
  BY DEF CountInv
<1>8. SlotOk(q)'
  BY <1>2, <1>3, <1>5, <1>7 DEF SlotOk
<1>9. \A o \in C!Requests : SlotOk(served'[o]) \/ SlotOk(served[o])'
  BY <1>6, <1>7, <1>8
<1> HIDE DEF was
<1>10. Apart' /\ unsure \subseteq unsure'
  <2>1. \A o \in C!Requests : served'[o].t = served[o].t
    BY <1>5, <1>6
  <2>2. Apart /\ unsure \subseteq unsure'
    BY <1>5 DEF CountInv
  <2> QED
    BY <1>1, <2>1, <2>2 DEF Apart
<1>11. ASSUME NEW t \in C!Turns, Bumping(t) PROVE Bumping(t)'
  BY <1>2, <1>6, <1>11 DEF Bumping
<1> QED
  BY <1>2, <1>9, <1>10, <1>11, QuietKeeps

\* An answer or the next stage of a request.
LEMMA ReplyCounts ==
    ASSUME DeliveryLimits, SlotsTyped, NEW s \in C!Requests, served[s].pc # "none",
           NEW pc \in Stages, C!To(s, pc) \/ C!Reply(s, pc)
    PROVE  /\ \A o \in C!Requests : o # s => served'[o] = served[o]
           /\ served'[s].t \in C!Turns =>
                /\ served'[s].pc = pc /\ served'[s].t = served[s].t
                /\ (served'[s].was <=> served[s].was)
<1>1. ~(C!NoRequest.t \in C!Turns)
  BY DEF C!NoRequest, C!Turns
<1> QED
  BY <1>1, ReplyTypes

\* The next stage of a request whose connection stands.
LEMMA ToStage ==
    ASSUME SlotsTyped, NEW s \in C!Requests, served[s].pc # "none", C!To(s, "bump")
    PROVE  served'[s].pc = "bump" /\ served'[s].t = served[s].t
<1> DEFINE r == served[s]
<1>1. IsSlot(r) /\ r.pc # "none" /\ DOMAIN served = C!Requests /\ "bump" \in Stages
  BY Zenon DEF SlotsTyped, IsSlot, Stages, C!Handling
<1>2. served' = [served EXCEPT ![s] = Staged(r, "bump")]
  BY Zenon DEF C!To, Staged
<1>3. Staged(r, "bump").pc = "bump" /\ Staged(r, "bump").t = r.t
  <2> HIDE DEF r
  <2> QED
    BY <1>1, StageTypes
<1> QED
  BY <1>1, <1>2, <1>3

\* The transaction.
LEMMA IngestCounts ==
    ASSUME DeliveryLimits, DeliveryOk, CountInv, NEW s \in C!Requests, C!Ingest(s), frozen' = frozen
    PROVE  CountInv'
<1> DEFINE r == served[s]
           t == r.t
           q == served'[s]
<1>1. /\ SlotsTyped /\ table \in [C!Turns -> TurnRow] /\ counted \in [C!Turns -> Nat]
      /\ "awaited" \in C!Requests /\ "lost" \in C!Requests
      /\ \A o \in C!Requests : o = "awaited" \/ o = "lost"
  BY TableTypes
<1>2. r.pc = "ingest" /\ r.pc # "none" /\ UNCHANGED <<counted, cut, unsure>>
  BY DEF C!Ingest
<1>3. t \in C!Turns /\ r.v \in 0..MaxV
  BY <1>1, <1>2, SlotTurns
<1>4. \A o \in C!Requests : SlotOk(served[o])
  BY DEF CountInv
<1>5. \A u \in C!Turns : TurnOk(u)
  BY DEF CountInv
<1>6. "ok" \in Stages /\ "bad" \in Stages /\ "bump" \in Stages
  BY DEF Stages, C!Handling
<1>7. PICK pc \in Stages : /\ C!To(s, pc) \/ C!Reply(s, pc)
                           /\ pc \in {"ok", "bad", "bump"}
                           /\ (pc = "bump" => C!CountsNow(r) /\ C!Stored(r) /\ C!To(s, "bump"))
                           /\ (pc # "bump" => (C!Stored(r) /\ ~C!CountsNow(r)) \/ table' = table)
  BY <1>6, Zenon DEF C!Ingest
<1>8. /\ \A o \in C!Requests : o # s => served'[o] = served[o]
      /\ q.t \in C!Turns => q.pc = pc /\ q.t = t /\ (q.was <=> r.was)
  BY <1>1, <1>2, <1>7, ReplyCounts
<1>9. Apart'
  BY <1>1, <1>2, <1>3, <1>8 DEF Apart, CountInv
<1>10. \A u \in C!Turns : Bumping(u) => Bumping(u)'
  BY <1>2, <1>8 DEF Bumping
<1>11. CASE table' = table /\ pc # "bump"
  <2>1. SlotOk(q)
    BY <1>3, <1>4, <1>7, <1>8, <1>11 DEF SlotOk
  <2>2. \A o \in C!Requests : SlotOk(served'[o])
    BY <1>4, <1>8, <2>1
  <2> QED
    BY <1>2, <1>9, <1>10, <1>11, <2>2, QuietKeeps
<1>12. CASE C!Stored(r)
  <2> DEFINE final == C!Final(r)
  <2>1. /\ \A u \in C!Turns : u # t => table'[u] = table[u]
        /\ table'[t].final = (table[t].final \/ final)
    BY <1>1, <1>3, <1>12, StoredTypes
  <2>2. (pc = "bump") => final /\ frozen[t] = "review" /\ ~r.was
    BY <1>7 DEF C!CountsNow
  <2>3. (pc # "bump") => ~final \/ frozen[t] # "review" \/ r.was \/ table' = table
    BY <1>7 DEF C!CountsNow
  <2>4. /\ frozen[t] # "none" /\ (r.was => table[t].final)
        /\ (table[t].final => r.was \/ t \in unsure)
    BY <1>2, <1>3, <1>4 DEF SlotOk
  <2>5. /\ t \notin unsure => counted[t] <= 1 /\ (counted[t] # 0 => table[t].final)
        /\ table[t].final /\ frozen[t] = "review" /\ t \notin cut /\ ~Bumping(t) => counted[t] >= 1
    BY <1>3, <1>5 DEF TurnOk
  <2>6. counted[t] \in Nat
    BY <1>1, <1>3
  <2>7. table'[t].final <=> (table[t].final \/ final)
    BY <2>1
  <2>8. SlotOk(served[s])'
    <3>1. (q.pc = "bump" /\ q.t \in C!Turns) => final /\ ~r.was /\ q.t = t
      BY <1>8, <2>2
    <3>2. (~r.was /\ t \notin unsure) => counted[t] = 0
      BY <2>4, <2>5, <2>6
    <3> HIDE DEF final
    <3>3. q.t \in C!Turns => /\ q.t = t /\ q.pc \in {"ok", "bad", "bump"} /\ (q.was <=> r.was)
                             /\ q.pc = pc
      BY <1>7, <1>8
    <3> QED
      BY <1>2, <2>4, <2>7, <3>1, <3>2, <3>3 DEF SlotOk
  <2>9. ASSUME NEW o \in C!Requests, o # s PROVE SlotOk(served[o])'
    <3>1. served'[o] = served[o] /\ SlotOk(served[o])
      BY <1>4, <1>8, <2>9
    <3>2. CASE served[o].t # t
      BY <1>2, <2>1, <3>1, <3>2 DEF SlotOk
    <3>3. CASE served[o].t = t
      <4>1. t \in unsure
        BY <1>1, <1>3, <2>9, <3>3 DEF Apart, CountInv
      <4> HIDE DEF final
      <4> QED
        BY <1>2, <2>7, <3>1, <3>3, <4>1 DEF SlotOk
    <3> QED
      BY <3>2, <3>3
  <2>10. ASSUME NEW u \in C!Turns PROVE TurnOk(u)'
    <3>1. CASE u # t
      BY <1>2, <1>5, <1>10, <2>1, <3>1 DEF TurnOk
    <3>2. CASE u = t
      <4>1. pc = "bump" => Bumping(u)'
        <5>1. C!To(s, "bump") => served'[s].pc = "bump" /\ served'[s].t = u
          BY <1>1, <1>2, <3>2, ToStage
        <5> QED
          BY <1>7, <5>1, Zenon DEF Bumping
      <4> DEFINE now == table'[u].final
                 old == table[u].final
      <4>2. old => now
        BY <2>7, <3>2
      <4>3. now /\ frozen[u] = "review" => old \/ pc = "bump"
        BY <1>12, <2>3, <2>4, <2>7, <3>2
      <4>4. frozen[u] # "none" /\ frozen' = frozen
        BY <2>4, <3>2
      <4>5. /\ u \notin unsure => counted[u] <= 1 /\ (counted[u] # 0 => old)
            /\ old /\ frozen[u] = "review" /\ u \notin cut /\ ~Bumping(u) => counted[u] >= 1
        BY <2>5, <3>2
      <4>6. ~Bumping(u)' => ~Bumping(u)
        BY <1>10
      <4>7. now /\ frozen[u] = "review" /\ u \notin cut /\ ~Bumping(u)' => counted[u] >= 1
        <5> HIDE DEF now, old, Bumping
        <5> QED
          BY <4>1, <4>3, <4>5, <4>6, Zenon
      <4> HIDE DEF old, Bumping
      <4> QED
        BY <1>2, <4>2, <4>4, <4>5, <4>7, Zenon DEF TurnOk
    <3> QED
      BY <3>1, <3>2
  <2> QED
    BY <1>9, <2>8, <2>9, <2>10 DEF CountInv
<1> QED
  BY <1>7, <1>11, <1>12

\* The revision moves, or stays.
LEMMA BumpCounts ==
    ASSUME DeliveryLimits, DeliveryOk, CountInv, NEW s \in C!Requests, C!Bump(s), frozen' = frozen
    PROVE  CountInv'
<1> DEFINE t == served[s].t
           q == served'[s]
<1>1. /\ SlotsTyped /\ counted \in [C!Turns -> Nat]
      /\ "awaited" \in C!Requests /\ "lost" \in C!Requests
      /\ \A o \in C!Requests : o = "awaited" \/ o = "lost"
  BY TableTypes
<1>2. served[s].pc = "bump" /\ served[s].pc # "none" /\ UNCHANGED <<table, unsure>>
  BY DEF C!Bump
<1>3. t \in C!Turns
  BY <1>1, <1>2, SlotTurns
<1>4. \A o \in C!Requests : SlotOk(served[o])
  BY DEF CountInv
<1>5. \A u \in C!Turns : TurnOk(u)
  BY DEF CountInv
<1>6. "ok" \in Stages /\ "bad" \in Stages
  BY DEF Stages, C!Handling
<1>7. PICK pc \in {"ok", "bad"} : C!Reply(s, pc)
  BY Zenon DEF C!Bump
<1>8. /\ \A o \in C!Requests : o # s => served'[o] = served[o]
      /\ q.t \in C!Turns => q.pc \in {"ok", "bad"} /\ q.t = t /\ (q.was <=> served[s].was)
  BY <1>1, <1>2, <1>6, <1>7, ReplyCounts
<1>9. Apart'
  BY <1>1, <1>2, <1>3, <1>8 DEF Apart, CountInv
<1>10. /\ table[t].final /\ frozen[t] # "none" /\ (served[s].was => table[t].final)
       /\ (t \notin unsure => counted[t] = 0)
  BY <1>2, <1>3, <1>4 DEF SlotOk
<1>11. \A u \in C!Turns : u # t => (Bumping(u) => Bumping(u)')
  BY <1>8 DEF Bumping
<1>12. CASE counted' = counted /\ cut' = cut \cup {t}
  <2>1. SlotOk(q)
    BY <1>3, <1>8, <1>10 DEF SlotOk
  <2>2. \A o \in C!Requests : SlotOk(served'[o])
    BY <1>4, <1>8, <2>1
  <2>3. \A u \in C!Turns : Bumping(u) => Bumping(u)' \/ u \in cut'
    BY <1>11, <1>12
  <2> QED
    BY <1>2, <1>9, <1>12, <2>2, <2>3, QuietKeeps
<1>13. CASE counted' = [counted EXCEPT ![t] = @ + 1] /\ cut' = cut
  <2>1. /\ \A u \in C!Turns : u # t => counted'[u] = counted[u]
        /\ counted'[t] = counted[t] + 1 /\ counted[t] \in Nat
    BY <1>1, <1>3, <1>13
  <2>2. SlotOk(served[s])'
    BY <1>2, <1>8, <1>10 DEF SlotOk
  <2>3. ASSUME NEW o \in C!Requests, o # s PROVE SlotOk(served[o])'
    <3>1. served'[o] = served[o] /\ SlotOk(served[o])
      BY <1>4, <1>8, <2>3
    <3>2. CASE served[o].t # t
      BY <1>2, <2>1, <3>1, <3>2 DEF SlotOk
    <3>3. CASE served[o].t = t
      <4>1. t \in unsure
        BY <1>1, <1>3, <2>3, <3>3 DEF Apart, CountInv
      <4> QED
        BY <1>2, <3>1, <3>3, <4>1 DEF SlotOk
    <3> QED
      BY <3>2, <3>3
  <2>4. ASSUME NEW u \in C!Turns PROVE TurnOk(u)'
    <3>1. CASE u # t
      BY <1>2, <1>5, <1>11, <1>13, <2>1, <3>1 DEF TurnOk
    <3>2. CASE u = t
      BY <1>2, <1>10, <2>1, <3>2 DEF TurnOk
    <3> QED
      BY <3>1, <3>2
  <2> QED
    BY <1>9, <2>2, <2>3, <2>4 DEF CountInv
<1> QED
  BY <1>12, <1>13 DEF C!Bump

\* A lost request stops.
LEMMA StopCounts ==
    ASSUME DeliveryLimits, DeliveryOk, CountInv, C!Stop, frozen' = frozen
    PROVE  CountInv'
<1>1. /\ SlotsTyped /\ "awaited" \in C!Requests /\ "lost" \in C!Requests
      /\ \A o \in C!Requests : o = "awaited" \/ o = "lost"
  BY TableTypes
<1>2. /\ served' = [served EXCEPT !["lost"] = C!NoRequest] /\ C!Interrupted(served["lost"])
      /\ UNCHANGED <<table, counted, unsure>>
  BY DEF C!Stop
<1>3. served'["lost"] = C!NoRequest /\ served'["awaited"] = served["awaited"]
  BY <1>1, <1>2 DEF SlotsTyped
<1>4. cut' = IF served["lost"].pc = "bump" THEN cut \cup {served["lost"].t} ELSE cut
  BY <1>2 DEF C!Interrupted
<1>5. \A s \in C!Requests : served[s].pc = "bump" =>
        served[s].t \in cut' \/ \E o \in C!Requests : served'[o] = served[s]
  BY <1>1, <1>3, <1>4
<1>6. cut \subseteq cut'
  BY <1>4
<1> QED
  BY <1>1, <1>2, <1>3, <1>5, <1>6, DropCounts

\* Nobody awaits the request any more.
LEMMA AbandonCounts ==
    ASSUME DeliveryLimits, DeliveryOk, CountInv, C!Abandoned,
           UNCHANGED <<table, counted, unsure, frozen>>
    PROVE  CountInv'
<1>1. /\ "awaited" \in C!Requests /\ "lost" \in C!Requests
      /\ \A o \in C!Requests : o = "awaited" \/ o = "lost"
  BY TableTypes
<1>2. served'["awaited"] = C!NoRequest
  BY AbandonTypes
<1>3. \/ served["lost"] = C!NoRequest /\ served'["lost"] = served["awaited"] /\ cut' = cut
      \/ /\ served'["lost"] = served["lost"]
         /\ cut' = IF served["awaited"].pc = "bump" THEN cut \cup {served["awaited"].t} ELSE cut
  BY AbandonTypes DEF C!Interrupted
<1>4. C!NoRequest.pc # "bump"
  BY DEF C!NoRequest
<1>5. \A s \in C!Requests : served[s].pc = "bump" =>
        served[s].t \in cut' \/ \E o \in C!Requests : served'[o] = served[s]
  BY <1>1, <1>3, <1>4
<1>6. cut \subseteq cut'
  BY <1>3
<1>7. \A s \in C!Requests : served'[s] = C!NoRequest \/ \E o \in C!Requests : served'[s] = served[o]
  BY <1>1, <1>2, <1>3
<1> QED
  BY <1>2, <1>5, <1>6, <1>7, DropCounts

\* Whatever the supervisor does of a request.
LEMMA HandleCounts ==
    ASSUME DeliveryLimits, DeliveryOk, CountInv, C!Handle PROVE CountInv'
<1>1. frozen' = frozen
  BY DEF C!Handle
<1> QED
  BY <1>1, ReadCounts, IngestCounts, BumpCounts, StopCounts, Zenon DEF C!Handle

\* A step that leaves the supervisor alone.
LEMMA SameCounts ==
    ASSUME CountInv, UNCHANGED <<table, counted, cut, unsure, frozen, served>> PROVE CountInv'
  BY DEF CountInv, SlotOk, Apart, TurnOk, Bumping

\* Scanning puts messages behind the one being delivered.
LEMMA ScanKeeps == ASSUME DeliveryInv, C!Scan PROVE QueuesInv' /\ CountInv'
<1>1. UNCHANGED <<frozen, step, queue, served, table, counted, cut, unsure>>
  BY DEF C!Scan, C!tables
<1>2. chain \in Seq(Message) /\ (step # "idle" => chain # <<>>)
  BY DEF DeliveryInv, DeliveryOk, C!TypeOK
<1>3. chain' = chain \/ \E m : chain' = Append(chain, m)
  BY DEF C!Scan
<1>4. chain # <<>> => Head(chain') = Head(chain)
  <2>1. ASSUME NEW m, chain' = Append(chain, m), chain # <<>> PROVE Head(chain') = Head(chain)
    <3>1. chain \in Seq(Message \cup {m})
      BY <1>2, SeqMonotonic
    <3> QED
      BY <2>1, <3>1, HeadTailAppend
  <2> QED
    BY <1>3, <2>1
<1>5. step # "idle" => C!Current' = C!Current
  BY <1>2, <1>4 DEF C!Current
<1>6. QueuesInv'
  BY <1>1, <1>5 DEF DeliveryInv, QueuesInv, Fixed
<1> QED
  BY <1>1, <1>6, SameCounts DEF DeliveryInv

\* Building a payload fixes the context of its turn, and no other.
LEMMA BuildKeeps == ASSUME DeliveryInv, C!Build PROVE QueuesInv' /\ CountInv'
<1> DEFINE t == C!Current.t
<1>1. UNCHANGED <<chain, queue, served, table, counted, cut, unsure>>
  BY DEF C!Build, C!tables
<1>2. PICK c \in {"review", "other"} :
        frozen' = IF frozen[t] = "none" THEN [frozen EXCEPT ![t] = c] ELSE frozen
  BY DEF C!Build
<1>3. frozen \in [C!Turns -> {"none", "review", "other"}]
  BY TableTypes DEF DeliveryInv
<1> HIDE DEF t
<1>4. /\ \A u \in C!Turns : frozen[u] # "none" => frozen'[u] = frozen[u]
      /\ t \in C!Turns => frozen'[t] # "none"
  BY <1>2, <1>3
<1>5. C!Current' = C!Current
  BY <1>1 DEF C!Current
<1>6. Fixed(C!Current)'
  BY <1>4, <1>5 DEF Fixed, t
<1>7. \A p : Fixed(p) => Fixed(p)'
  BY <1>4 DEF Fixed
<1>8. QueuesInv'
  BY <1>1, <1>6, <1>7 DEF DeliveryInv, QueuesInv
<1>9. ASSUME NEW s \in C!Requests PROVE SlotOk(served[s])'
  <2>1. SlotOk(served[s])
    BY DEF DeliveryInv, CountInv
  <2> QED
    BY <1>1, <1>4, <2>1 DEF SlotOk
<1>10. ASSUME NEW u \in C!Turns PROVE TurnOk(u)'
  <2>1. TurnOk(u)
    BY DEF DeliveryInv, CountInv
  <2>2. Bumping(u)' <=> Bumping(u)
    BY <1>1 DEF Bumping
  <2>3. table[u].final => frozen'[u] = frozen[u]
    BY <1>4, <2>1 DEF TurnOk
  <2> HIDE DEF Bumping
  <2> QED
    BY <1>1, <2>1, <2>2, <2>3 DEF TurnOk
<1>11. Apart'
  BY <1>1 DEF DeliveryInv, CountInv, Apart
<1> QED
  BY <1>8, <1>9, <1>10, <1>11 DEF CountInv

\* Posting the head of the queue, or the current payload.
LEMMA FlushKeeps ==
    ASSUME DeliveryLimits, DeliveryInv, C!FlushHead \/ C!PostCurrent
    PROVE  QueuesInv' /\ CountInv'
<1>1. /\ UNCHANGED <<frozen, chain, queue, table, counted, cut>> /\ step = "flush"
      /\ \/ queue # <<>> /\ C!Post(Head(queue))
         \/ C!Post(C!Current)
  BY DEF C!FlushHead, C!PostCurrent
<1>2. DeliveryOk /\ chain # <<>> /\ served["awaited"].pc = "none"
  BY <1>1 DEF DeliveryInv, DeliveryOk, C!TypeOK
<1>3. PICK S : queue \in Seq(S) /\ \A p \in S : Fixed(p)
  BY DEF DeliveryInv, QueuesInv
<1>4. C!Current' = C!Current
  BY <1>1 DEF C!Current
<1>5. QueuesInv'
  BY <1>1, <1>4 DEF DeliveryInv, QueuesInv, Fixed
<1>6. CASE queue # <<>> /\ C!Post(Head(queue))
  <2>1. Fixed(Head(queue)) /\ Head(queue) \in C!Payload
    BY <1>2, <1>3, <1>6, HeadTailProperties DEF DeliveryOk, C!TypeOK
  <2> QED
    BY <1>1, <1>2, <1>5, <1>6, <2>1, PostCounts DEF DeliveryInv
<1>7. CASE C!Post(C!Current)
  <2>1. Fixed(C!Current) /\ C!Current \in C!Payload
    BY <1>1, <1>2, CurrentFacts DEF DeliveryInv, QueuesInv, DeliveryOk
  <2> QED
    BY <1>1, <1>2, <1>5, <1>7, <2>1, PostCounts DEF DeliveryInv
<1> QED
  BY <1>1, <1>6, <1>7

\* An answer, a payload that leaves the queue, and one that was not accepted.
LEMMA ClientKeeps ==
    ASSUME DeliveryLimits, DeliveryInv, C!Answer \/ C!AckHead \/ C!Enqueue
    PROVE  QueuesInv' /\ CountInv'
<1>0. DeliveryOk /\ CountInv
  BY DEF DeliveryInv
<1>1. PICK S : queue \in Seq(S) /\ \A p \in S : Fixed(p)
  BY DEF DeliveryInv, QueuesInv
<1>2. CASE C!Answer
  <2>1. /\ UNCHANGED <<frozen, queue, table, counted, cut, unsure>>
        /\ served' = [served EXCEPT !["awaited"] = C!NoRequest]
        /\ served["awaited"].pc \in {"ok", "bad"}
        /\ step' = "idle" \/ chain' = chain
    BY <1>2 DEF C!Answer, C!tables, C!Finished
  <2>2. /\ SlotsTyped /\ "awaited" \in C!Requests /\ "lost" \in C!Requests
        /\ \A o \in C!Requests : o = "awaited" \/ o = "lost"
    BY <1>0, TableTypes
  <2>3. served'["awaited"] = C!NoRequest /\ served'["lost"] = served["lost"]
    BY <2>1, <2>2 DEF SlotsTyped
  <2>4. \A s \in C!Requests : served[s].pc = "bump" => \E o \in C!Requests : served'[o] = served[s]
    BY <2>1, <2>2, <2>3
  <2>5. \A s \in C!Requests : served'[s] = C!NoRequest \/ \E o \in C!Requests : served'[s] = served[o]
    BY <2>2, <2>3
  <2>6. CountInv'
    BY <1>0, <2>1, <2>3, <2>4, <2>5, DropCounts
  <2>7. step # "idle"
    BY <1>0, <2>1 DEF DeliveryOk, C!TypeOK
  <2>8. step' # "idle" => C!Current' = C!Current
    BY <2>1 DEF C!Current
  <2>9. QueuesInv'
    BY <1>1, <2>1, <2>7, <2>8 DEF QueuesInv, Fixed, DeliveryInv
  <2> QED
    BY <2>6, <2>9
<1>3. CASE C!AckHead
  <2>1. /\ UNCHANGED <<frozen, chain, served, table, counted, cut, unsure>> /\ queue' = Tail(queue)
        /\ step = "ack"
    BY <1>3 DEF C!AckHead, C!tables
  <2>2. queue # <<>>
    BY <1>0, <2>1 DEF DeliveryOk
  <2>3. queue' \in Seq(S)
    BY <1>1, <2>1, <2>2, HeadTailProperties
  <2>4. C!Current' = C!Current
    BY <2>1 DEF C!Current
  <2>5. QueuesInv'
    BY <1>1, <2>1, <2>3, <2>4 DEF DeliveryInv, QueuesInv, Fixed
  <2> QED
    BY <1>0, <2>1, <2>5, SameCounts
<1>4. CASE C!Enqueue
  <2>1. /\ UNCHANGED <<frozen, served, table, counted, cut, unsure>> /\ step = "enqueue"
        /\ queue' = C!Limited(Append(queue, C!Current)) /\ step' = "idle"
    BY <1>4 DEF C!Enqueue, C!tables, C!Finished
  <2>2. Fixed(C!Current)
    BY <2>1 DEF DeliveryInv, QueuesInv
  <2> DEFINE T == S \cup {C!Current}
  <2>3. queue \in Seq(T)
    BY <1>1, SeqMonotonic
  <2>4. Append(queue, C!Current) \in Seq(T)
    BY <2>3, AppendProperties
  <2>5. queue' \in Seq(T)
    BY <2>1, <2>4, LimitedFacts DEF DeliveryLimits
  <2>6. \A p \in T : Fixed(p)'
    BY <1>1, <2>1, <2>2 DEF Fixed
  <2> HIDE DEF T
  <2>7. QueuesInv'
    BY <2>1, <2>5, <2>6 DEF QueuesInv
  <2> QED
    BY <1>0, <2>1, <2>7, SameCounts
<1> QED
  BY <1>2, <1>3, <1>4

\* Every step of CollectorDelivery keeps the invariant.
LEMMA DeliveryStep ==
    ASSUME DeliveryLimits, DeliveryInv, [C!DNext]_(C!dvars) PROVE DeliveryInv'
<1>1. DeliveryOk /\ CountInv /\ QueuesInv /\ DeliveryOk'
  BY DeliveryTypes DEF DeliveryInv
<1> SUFFICES QueuesInv' /\ CountInv'
  BY <1>1 DEF DeliveryInv
<1>2. ASSUME UNCHANGED <<frozen, chain, step, queue>> PROVE QueuesInv'
  <2>1. C!Current' = C!Current
    BY <1>2 DEF C!Current
  <2> QED
    BY <1>1, <1>2, <2>1 DEF QueuesInv, Fixed
<1>3. CASE UNCHANGED C!dvars
  BY <1>1, <1>2, <1>3, SameCounts DEF C!dvars, C!tables
<1>4. ASSUME NEW t \in C!Turns, C!Grow(t) PROVE QueuesInv' /\ CountInv'
  BY <1>1, <1>2, <1>4, SameCounts DEF C!Grow, C!tables
<1>5. CASE C!Handle
  <2>1. UNCHANGED <<frozen, chain, step, queue>>
    BY <1>5 DEF C!Handle
  <2> QED
    BY <1>1, <1>2, <1>5, <2>1, HandleCounts
<1>6. CASE C!KillWorker
  <2>1. UNCHANGED <<frozen, queue, table, counted, unsure>> /\ step' = "idle" /\ C!Abandoned
    BY <1>6 DEF C!KillWorker
  <2>2. QueuesInv'
    BY <1>1, <2>1 DEF QueuesInv, Fixed
  <2> QED
    BY <1>1, <2>1, <2>2, AbandonCounts
<1>7. CASE C!Disconnect
  <2>1. UNCHANGED <<frozen, chain, queue, table, counted, unsure>> /\ step # "idle" /\ C!Abandoned
    BY <1>7 DEF C!Disconnect
  <2>2. C!Current' = C!Current
    BY <2>1 DEF C!Current
  <2>3. QueuesInv'
    BY <1>1, <2>1, <2>2 DEF QueuesInv, Fixed
  <2> QED
    BY <1>1, <2>1, <2>3, AbandonCounts
<1> QED
  BY <1>3, <1>4, <1>5, <1>6, <1>7, ScanKeeps, BuildKeeps, FlushKeeps, ClientKeeps DEF C!DNext

\* A turn that is delivered again, after a lost answer, from the queue or after
\* the worker's end, moves the evidence revision once, as long as its old flag is
\* read and no two requests carry it at once; and a stored final turn has moved it,
\* or is about to, unless its request ended exactly there: for any number of turns
\* and versions, any queue and any trouble.
THEOREM TurnsCountOnce == ASSUME DeliveryLimits PROVE C!DSpec => []C!CountedOnce
<1>1. C!DInit => DeliveryInv
  <2> SUFFICES ASSUME C!DInit PROVE DeliveryInv
    OBVIOUS
  <2>1. DeliveryOk
    BY DeliveryStart
  <2>2. /\ table = [t \in C!Turns |-> C!Absent] /\ counted = [t \in C!Turns |-> 0]
        /\ served = [s \in C!Requests |-> C!NoRequest] /\ queue = <<>> /\ step = "idle"
    BY DEF C!DInit
  <2>3. \A t \in C!Turns : ~table[t].final /\ counted[t] = 0
    BY <2>2 DEF C!Absent
  <2>4. \A s \in C!Requests : served[s] = C!NoRequest
    BY <2>2
  <2>5. C!NoRequest.t \notin C!Turns
    BY DEF C!NoRequest, C!Turns
  <2>6. CountInv
    <3>1. ASSUME NEW t \in C!Turns PROVE TurnOk(t)
      <4>1. ~table[t].final /\ counted[t] = 0 /\ counted[t] <= 1
        BY <2>3
      <4> QED
        BY <4>1, Zenon DEF TurnOk
    <3>2. Apart
      BY <2>4, <2>5 DEF Apart, C!Requests
    <3>3. \A s \in C!Requests : SlotOk(served[s])
      BY <2>4, NewSlots, Zenon
    <3> QED
      BY <3>1, <3>2, <3>3, Zenon DEF CountInv
  <2>7. queue \in Seq({})
    BY <2>2
  <2>8. QueuesInv
    <3> DEFINE None == {}
    <3>1. queue \in Seq(None) /\ \A p \in None : Fixed(p)
      BY <2>7
    <3>2. \E S : queue \in Seq(S) /\ \A p \in S : Fixed(p)
      <4> HIDE DEF None, Fixed
      <4> QED
        BY <3>1, Zenon
    <3>3. step = "idle"
      BY <2>2
    <3> HIDE DEF Fixed
    <3> QED
      BY <3>2, <3>3, Zenon DEF QueuesInv
  <2> QED
    BY <2>1, <2>6, <2>8 DEF DeliveryInv
<1>2. DeliveryInv => C!CountedOnce
  <2> SUFFICES ASSUME CountInv PROVE C!CountedOnce
    BY DEF DeliveryInv
  <2>1. \A t \in C!Turns : TurnOk(t)
    BY DEF CountInv
  <2> QED
    BY <2>1, Zenon DEF TurnOk, Bumping, C!CountedOnce
<1> QED
  BY <1>1, <1>2, DeliveryStep, PTL DEF C!DSpec

-----------------------------------------------------------------------------
(***************************************************************************)
(* AISettings: the types, the order of a migration that never loses the    *)
(* only copy of a key (KeyInv), and the references that keep a deleted key *)
(* out of use (GoneInv).                                                   *)
(***************************************************************************)
CONSTANTS MaxKeys, MaxSaves, MaxFaults, MaxStarts
VARIABLES at, row, file, env, cfg, used, next, gone, keys, saves, faults, starts

K == INSTANCE AISettings

\* Two keys exist before the first one is entered; one start has happened.
SettingsBounds == /\ MaxKeys \in Nat \ {0, 1}
          /\ MaxSaves \in Nat /\ MaxFaults \in Nat /\ MaxStarts \in Nat \ {0}

SettingsStep == \/ K!Load \/ K!Secret \/ K!Rewrite \/ K!Boot \/ K!Save \/ K!Persist \/ K!Crash
        \/ (\E t \in K!Targets : K!PutSecret(t)) \/ (\E t \in K!Targets : K!DeleteSecret(t))

\* The file describes a configuration.
LEMMA BaseIsConfig == ASSUME SettingsBounds PROVE K!Base \in K!Config
  BY DEF SettingsBounds, K!Base, K!Config, K!Refs

SettingsRow == [form : {"none", "bad", "flat", "v2"}, cfg : K!Config, key : {K!None, K!LegacyKey},
        extra : BOOLEAN]

\* A row read again is a configuration, and a configuration a row.
LEMMA RowTypes ==
  ASSUME SettingsBounds
  PROVE  /\ \A r \in SettingsRow : K!Decoded(r) \in K!Config
         /\ \A c \in K!Config : K!Canonical(c) \in SettingsRow
  <1>1. \A r \in SettingsRow : K!Decoded(r) \in K!Config
    <2> TAKE r \in SettingsRow
    <2>1. r.cfg \in K!Config BY DEF SettingsRow
    <2>2. K!Base.ref \in [K!Targets -> K!Refs] BY DEF K!Base, K!Refs
    <2>3. [r.cfg EXCEPT !.ref = K!Base.ref] \in K!Config BY <2>1, <2>2 DEF K!Config
    <2> QED BY <2>1, <2>3 DEF K!Decoded
  <1>2. \A c \in K!Config : K!Canonical(c) \in SettingsRow BY DEF K!Canonical, SettingsRow, K!None
  <1> QED BY <1>1, <1>2

\* The providers are built with a key of a file, the environment's, or none.
LEMMA BuiltTypes ==
  ASSUME SettingsBounds, NEW c \in K!Config, file \in [K!Targets -> 0..MaxKeys], env \in BOOLEAN
  PROVE  /\ K!Built(c) \in [K!Targets -> 0..K!Env]
         /\ \A t \in K!Targets : c.ref[t] = "none" => K!Built(c)[t] \in {K!None, K!Env}
  <1>1. \A t \in K!Targets : K!Resolve(c, t) \in 0..K!Env
    BY DEF K!Resolve, SettingsBounds, K!Env, K!None, K!Config
  <1>2. \A t \in K!Targets : c.ref[t] = "none" => K!Resolve(c, t) \in {K!None, K!Env}
    BY DEF K!Resolve, K!Config
  <1> QED BY <1>1, <1>2 DEF K!Built

-----------------------------------------------------------------------------
(* Types *)

\* The types hold at the first start,
LEMMA SettingsTypeInit == ASSUME SettingsBounds PROVE K!Init => K!TypeOK
  <1> SUFFICES ASSUME K!Init PROVE K!TypeOK
    OBVIOUS
  <1>1. K!Base \in K!Config BY BaseIsConfig
  <1>2. row \in SettingsRow
    <2>1. K!NoRow \in SettingsRow /\ [K!NoRow EXCEPT !.form = "bad"] \in SettingsRow
      BY <1>1 DEF K!NoRow, SettingsRow, K!None
    <2>2. [K!Base EXCEPT !.on = TRUE] \in K!Config BY <1>1 DEF K!Config
    <2>3. \A r \in K!Refs : [v |-> 0, on |-> TRUE, ref |-> [t \in K!Targets |-> r]] \in K!Config
      BY DEF K!Config, SettingsBounds
    <2>4. [form : {"flat"}, cfg : {[K!Base EXCEPT !.on = TRUE]},
           key : {K!None, K!LegacyKey}, extra : {TRUE}] \subseteq SettingsRow
      BY <2>2 DEF SettingsRow
    <2>5. [form : {"v2"}, key : {K!None, K!LegacyKey}, extra : BOOLEAN,
           cfg : {[v |-> 0, on |-> TRUE, ref |-> [t \in K!Targets |-> r]] : r \in K!Refs}]
              \subseteq SettingsRow
      BY <2>3, ZenonT(60) DEF SettingsRow
    <2> QED BY <2>1, <2>4, <2>5 DEF K!Init
  <1>3. file \in [K!Targets -> 0..MaxKeys] BY DEF K!Init, SettingsBounds, K!None
  <1>4. used \in [K!Targets -> 0..K!Env] BY DEF K!Init, SettingsBounds, K!None, K!Env
  <1> QED BY <1>1, <1>2, <1>3, <1>4 DEF K!Init, K!TypeOK, SettingsRow, SettingsBounds

\* and after every step.
LEMMA SettingsTypeStep == ASSUME SettingsBounds PROVE K!TypeOK /\ [K!Next]_K!vars => K!TypeOK'
  <1> SUFFICES ASSUME K!TypeOK, [K!Next]_K!vars PROVE K!TypeOK'
    OBVIOUS
  <1> USE DEF K!TypeOK, SettingsBounds
  <1>b. K!Base \in K!Config BY BaseIsConfig
  <1>r. row \in SettingsRow BY DEF SettingsRow
  <1>1. CASE K!Load
    <2>1. K!Decoded(row) \in K!Config BY <1>r, RowTypes
    <2> QED BY <1>1, <1>b, <2>1 DEF K!Load, K!RunOnBase, K!Fault
  <1>2. CASE K!Secret
    <2>1. file["text"] \in 0..MaxKeys /\ K!KeptOrWritten \in 0..MaxKeys
      BY DEF K!KeptOrWritten, K!Targets, K!None, K!LegacyKey
    <2>2. [file EXCEPT !["text"] = K!KeptOrWritten] \in [K!Targets -> 0..MaxKeys] BY <2>1
    <2>3. [next EXCEPT !.ref["text"] = "managed"] \in K!Config BY DEF K!Config, K!Refs, K!Targets
    <2> QED BY <1>2, <1>b, <2>2, <2>3 DEF K!Secret, K!RunOnBase, K!Fault
  <1>3. CASE K!Rewrite
    <2>1. K!Canonical(next) \in SettingsRow BY RowTypes
    <2> QED BY <1>3, <1>b, <2>1 DEF K!Rewrite, K!RunOnBase, K!Fault, SettingsRow
  <1>4. CASE K!Boot
    BY <1>4, BuiltTypes DEF K!Boot, K!Apply
  <1>5. CASE K!Save
    <2>1. saves + 1 \in 0..MaxSaves BY <1>5 DEF K!Save
    <2>2. \A on \in BOOLEAN, n \in 0..MaxSaves : [cfg EXCEPT !.v = n, !.on = on] \in K!Config
      BY DEF K!Config
    <2>3. \A on \in BOOLEAN : [cfg EXCEPT !.v = saves + 1, !.on = on] \in K!Config
      BY <2>1, <2>2
    <2>4. next' \in K!Config BY <1>5, <2>3 DEF K!Save
    <2> QED BY <1>5, <2>1, <2>4 DEF K!Save
  <1>6. ASSUME NEW t \in K!Targets, K!PutSecret(t) PROVE K!TypeOK'
    <2>1. [cfg EXCEPT !.ref[t] = "managed"] \in K!Config BY DEF K!Config, K!Refs
    <2>2. [file EXCEPT ![t] = keys + 1] \in [K!Targets -> 0..MaxKeys] BY <1>6 DEF K!PutSecret
    <2> QED BY <1>6, <2>1, <2>2 DEF K!PutSecret
  <1>7. ASSUME NEW t \in K!Targets, K!DeleteSecret(t) PROVE K!TypeOK'
    <2>1. [cfg EXCEPT !.ref[t] = "none"] \in K!Config BY DEF K!Config, K!Refs
    <2>2. file' \in [K!Targets -> 0..MaxKeys] BY <1>7 DEF K!DeleteSecret, K!None
    <2> QED BY <1>7, <2>1, <2>2 DEF K!DeleteSecret, K!Fault
  <1>8. CASE K!Persist
    <2>1. K!Canonical(next) \in SettingsRow BY RowTypes
    <2>2. K!Built(next) \in [K!Targets -> 0..K!Env] BY BuiltTypes
    <2> QED BY <1>8, <2>1, <2>2 DEF K!Persist, K!Persisted, K!Apply, K!Fault, SettingsRow, K!Deleted
  <1>9. CASE K!Crash
    BY <1>9, <1>b DEF K!Crash, K!None, K!Env
  <1>10. CASE UNCHANGED K!vars BY <1>10 DEF K!vars
  <1> QED BY <1>1, <1>2, <1>3, <1>4, <1>5, <1>6, <1>7, <1>8, <1>9, <1>10 DEF K!Next

\* Rows, files and memory keep their types, whatever an older version left and
\* wherever a start or an operation fails or is cut short.
THEOREM SettingsTyped == ASSUME SettingsBounds PROVE K!Spec => []K!TypeOK
  BY SettingsTypeInit, SettingsTypeStep, PTL DEF K!Spec

-----------------------------------------------------------------------------
(* A migration keeps the key *)

\* The key is taken from the row before the row is rewritten: Secret runs only
\* for a key in the row, and Rewrite only when the file holds a key or the row
\* has none.
KeyInv ==
    /\ at = "secret" => row.key # K!None
    /\ at = "rewrite" => row.key = K!None \/ file["text"] # K!None

\* While a legacy key is being migrated it is in the row or in the file.
LEMMA KeyInvHolds == ASSUME SettingsBounds PROVE K!Spec => [](K!TypeOK /\ KeyInv)
  <1>1. K!Init => KeyInv BY DEF K!Init, KeyInv
  <1>2. K!TypeOK /\ KeyInv /\ [K!Next]_K!vars => KeyInv'
    <2> SUFFICES ASSUME K!TypeOK, KeyInv, [K!Next]_K!vars PROVE KeyInv'
      OBVIOUS
    <2>1. CASE K!Load BY <2>1 DEF K!Load, K!RunOnBase, KeyInv
    <2>2. CASE K!Secret
      <3>1. file["text"] # K!None \/ row.key # K!None BY <2>2 DEF KeyInv, K!Secret
      <3>2. K!KeptOrWritten # K!None BY <3>1 DEF K!KeptOrWritten
      <3>3. [file EXCEPT !["text"] = K!KeptOrWritten]["text"] # K!None
        BY <3>2 DEF K!TypeOK, K!Targets
      <3> QED BY <2>2, <3>3 DEF K!Secret, K!RunOnBase, KeyInv
    <2>3. CASE K!Rewrite \/ K!Boot \/ K!Save \/ K!Persist \/ K!Crash
      BY <2>3 DEF K!Rewrite, K!Boot, K!Save, K!Persist, K!Crash, K!RunOnBase, KeyInv
    <2>4. ASSUME NEW t \in K!Targets, K!PutSecret(t) \/ K!DeleteSecret(t) PROVE KeyInv'
      BY <2>4 DEF K!PutSecret, K!DeleteSecret, KeyInv
    <2>5. CASE UNCHANGED K!vars BY <2>5 DEF K!vars, KeyInv
    <2> QED BY <2>1, <2>2, <2>3, <2>4, <2>5 DEF K!Next
  <1> QED BY <1>1, <1>2, SettingsTyped, PTL DEF K!Spec

\* Until the user changes something, no start loses the only copy of a key, and
\* none replaces a key in the file: not when it fails or dies between moving the
\* key and rewriting the row.
THEOREM MigrationsKeepTheKey == ASSUME SettingsBounds PROVE K!Spec => K!StartKeepsTheKey
  <1>1. K!TypeOK /\ KeyInv /\ [K!Next]_K!vars => [K!KeyIsKept]_K!vars
    <2> SUFFICES ASSUME K!TypeOK, KeyInv, K!Next, at \notin {"idle", "persist"}, K!HasKey
                 PROVE  K!HasKey' /\ (file["text"] # K!None => file'["text"] = file["text"])
      BY DEF K!KeyIsKept
    <2>1. CASE K!Load \/ K!Boot \/ K!Crash
      BY <2>1 DEF K!Load, K!Boot, K!Crash, K!RunOnBase, K!HasKey
    <2>2. CASE K!Secret
      <3>1. K!KeptOrWritten # K!None BY DEF K!KeptOrWritten, K!HasKey
      <3>2. [file EXCEPT !["text"] = K!KeptOrWritten]["text"] = K!KeptOrWritten
        BY DEF K!TypeOK, K!Targets
      <3>3. file["text"] # K!None => K!KeptOrWritten = file["text"] BY DEF K!KeptOrWritten
      <3> QED BY <2>2, <3>1, <3>2, <3>3 DEF K!Secret, K!RunOnBase, K!HasKey
    <2>3. CASE K!Rewrite
      <3>1. file["text"] # K!None BY <2>3 DEF K!Rewrite, KeyInv, K!HasKey
      <3> QED BY <2>3, <3>1 DEF K!Rewrite, K!RunOnBase, K!HasKey
    <2> QED BY <2>1, <2>2, <2>3 DEF K!Next, K!Save, K!Persist, K!PutSecret, K!DeleteSecret
  <1> QED BY <1>1, KeyInvHolds, PTL DEF K!Spec, K!StartKeepsTheKey

-----------------------------------------------------------------------------
(* A deleted key is gone *)

\* Nothing refers to a deleted key: not the row, not the configuration in
\* memory, not the one an operation or a start is about to persist, whose next
\* step is not to migrate a key either.
GoneInv ==
    \A t \in gone :
        /\ row.form = "v2" /\ row.cfg.ref[t] = "none"
        /\ cfg.ref[t] = "none" /\ next.ref[t] = "none"
        /\ used[t] \in {K!None, K!Env}
        /\ t = "text" => at # "secret" /\ (row.key = K!None \/ ~row.extra)

\* Nothing that could bring back a deleted key refers to it.
LEMMA GoneStep ==
  ASSUME SettingsBounds, K!TypeOK, KeyInv, GoneInv, [K!Next]_K!vars
  PROVE  GoneInv'
  <1> DEFINE Clear(t) == /\ row.form = "v2" /\ row.cfg.ref[t] = "none"
                         /\ cfg.ref[t] = "none" /\ next.ref[t] = "none"
                         /\ used[t] \in {K!None, K!Env}
                         /\ t = "text" => at # "secret" /\ (row.key = K!None \/ ~row.extra)
  <1>0. \A t \in gone : t \in K!Targets /\ Clear(t) BY DEF GoneInv, K!TypeOK
  <1>g. (\A t \in gone' : Clear(t)') => GoneInv' BY DEF GoneInv
  <1>b. \A t \in K!Targets : K!Base.ref[t] = "none" BY DEF K!Base
  <1>c. \A t \in K!Targets : next.ref[t] = "none" => K!Built(next)[t] \in {K!None, K!Env}
    BY BuiltTypes DEF K!TypeOK
  <1>1. CASE K!Load
    <2> SUFFICES ASSUME NEW t \in gone' PROVE Clear(t)'
      BY <1>g
    <2>1. t \in gone /\ t \in K!Targets /\ Clear(t) BY <1>0, <1>1 DEF K!Load
    <2>2. K!Decoded(row) = row.cfg BY <2>1 DEF K!Decoded
    <2>3. next'.ref[t] = "none" BY <1>1, <1>b, <2>1, <2>2 DEF K!Load, K!RunOnBase
    <2>4. t = "text" => at' # "secret"
      BY <1>1, <2>1 DEF K!Load, K!RunOnBase, K!NeedsRewrite
    <2>5. UNCHANGED <<row, cfg, used>> BY <1>1 DEF K!Load, K!RunOnBase
    <2> QED BY <2>1, <2>3, <2>4, <2>5
  <1>2. CASE K!Secret
    <2> SUFFICES ASSUME NEW t \in gone' PROVE Clear(t)'
      BY <1>g
    <2>1. t \in gone /\ t \in K!Targets /\ Clear(t) BY <1>0, <1>2 DEF K!Secret
    <2>2. t # "text" BY <1>2, <2>1 DEF K!Secret
    <2>3. [next EXCEPT !.ref["text"] = "managed"].ref[t] = next.ref[t]
      BY <2>1, <2>2 DEF K!TypeOK, K!Config
    <2>4. next'.ref[t] = "none" BY <1>2, <1>b, <2>1, <2>3 DEF K!Secret, K!RunOnBase
    <2>5. UNCHANGED <<row, cfg, used>> BY <1>2 DEF K!Secret, K!RunOnBase
    <2> QED BY <2>1, <2>2, <2>4, <2>5
  <1>3. CASE K!Rewrite
    <2> SUFFICES ASSUME NEW t \in gone' PROVE Clear(t)'
      BY <1>g
    <2>1. t \in gone /\ t \in K!Targets /\ Clear(t) BY <1>0, <1>3 DEF K!Rewrite
    <2>2. next'.ref[t] = "none" /\ at' # "secret" /\ UNCHANGED <<cfg, used>>
      BY <1>3, <1>b, <2>1 DEF K!Rewrite, K!RunOnBase
    <2>3. row' = row \/ row' = K!Canonical(next) BY <1>3 DEF K!Rewrite, K!RunOnBase
    <2>4. K!Canonical(next).form = "v2" /\ K!Canonical(next).cfg.ref[t] = "none"
          /\ K!Canonical(next).key = K!None
      BY <2>1 DEF K!Canonical
    <2> QED BY <2>1, <2>2, <2>3, <2>4
  <1>4. CASE K!Boot
    BY <1>4, <1>0, <1>c, <1>g DEF K!Boot, K!Apply
  <1>5. CASE K!Save
    <2> SUFFICES ASSUME NEW t \in gone' PROVE Clear(t)'
      BY <1>g
    <2>1. t \in gone /\ Clear(t) BY <1>0, <1>5 DEF K!Save
    <2>2. \A on \in BOOLEAN : [cfg EXCEPT !.v = saves + 1, !.on = on].ref = cfg.ref
      BY DEF K!TypeOK, K!Config
    <2>3. next'.ref = cfg.ref BY <1>5, <2>2 DEF K!Save
    <2> QED BY <1>5, <2>1, <2>3 DEF K!Save
  <1>6. ASSUME NEW x \in K!Targets, K!PutSecret(x) PROVE GoneInv'
    <2> SUFFICES ASSUME NEW t \in gone' PROVE Clear(t)'
      BY <1>g
    <2>1. t \in gone /\ t \in K!Targets /\ t # x /\ Clear(t) BY <1>0, <1>6 DEF K!PutSecret
    <2>2. [cfg EXCEPT !.ref[x] = "managed"].ref[t] = cfg.ref[t]
      BY <2>1 DEF K!TypeOK, K!Config
    <2> QED BY <1>6, <2>1, <2>2 DEF K!PutSecret
  <1>7. ASSUME NEW x \in K!Targets, K!DeleteSecret(x) PROVE GoneInv'
    <2> SUFFICES ASSUME NEW t \in gone' PROVE Clear(t)'
      BY <1>g
    <2>1. t \in gone /\ t \in K!Targets /\ Clear(t) BY <1>0, <1>7 DEF K!DeleteSecret
    <2>2. [cfg EXCEPT !.ref[x] = "none"].ref[t] = "none"
      BY <2>1 DEF K!TypeOK, K!Config
    <2> QED BY <1>7, <2>1, <2>2 DEF K!DeleteSecret
  <1>8. CASE K!Persist
    <2> SUFFICES ASSUME NEW t \in gone' PROVE Clear(t)'
      BY <1>g
    <2>1. CASE UNCHANGED <<row, cfg, used, gone>>
      BY <1>8, <2>1, <1>0 DEF K!Persist
    <2>2. CASE row' = K!Canonical(next) /\ cfg' = next /\ used' = K!Built(next)
               /\ gone' = gone \cup K!Deleted
      <3>1. t \in K!Targets /\ next.ref[t] = "none" BY <2>2, <1>0 DEF K!Deleted
      <3>2. K!Built(next)[t] \in {K!None, K!Env} BY <3>1, <1>c
      <3>3. K!Canonical(next).form = "v2" /\ K!Canonical(next).cfg.ref[t] = "none"
            /\ K!Canonical(next).key = K!None
        BY <3>1 DEF K!Canonical
      <3>4. next' = next /\ at' = "idle" BY <1>8 DEF K!Persist
      <3> QED BY <2>2, <3>1, <3>2, <3>3, <3>4
    <2> QED BY <1>8, <2>1, <2>2 DEF K!Persist, K!Persisted, K!Apply
  <1>9. CASE K!Crash
    <2> SUFFICES ASSUME NEW t \in gone' PROVE Clear(t)'
      BY <1>g
    <2>1. t \in gone /\ t \in K!Targets /\ Clear(t) BY <1>0, <1>9 DEF K!Crash
    <2> QED BY <1>9, <1>b, <2>1 DEF K!Crash
  <1>10. CASE UNCHANGED K!vars BY <1>10, <1>0, <1>g DEF K!vars
  <1> QED BY <1>1, <1>2, <1>3, <1>4, <1>5, <1>6, <1>7, <1>8, <1>9, <1>10 DEF K!Next

\* A key whose deletion was confirmed is not used again until the user enters
\* one, whatever fails or crashes later and even if its file could not be
\* removed.
THEOREM DeletionsLast == ASSUME SettingsBounds PROVE K!Spec => []K!DeletedStaysDeleted
  <1>1. K!Init => GoneInv BY DEF K!Init, GoneInv
  <1>2. K!TypeOK /\ KeyInv /\ GoneInv /\ [K!Next]_K!vars => GoneInv' BY GoneStep
  <1>3. GoneInv => K!DeletedStaysDeleted
    BY DEF GoneInv, K!DeletedStaysDeleted, K!NeedsRewrite
  <1> QED BY <1>1, <1>2, <1>3, KeyInvHolds, PTL DEF K!Spec

=============================================================================
