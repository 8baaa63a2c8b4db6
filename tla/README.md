# study-guardian: verification of the Supervisor

The Supervisor is a Go process that runs beside a learner: it keeps the user's
mode (STANDBY, STUDY, BREAK, OFF), counts study time, starts and pauses study
sessions on its own, schedules eye-care breaks, and lets other processes (the
desktop pet, a browser collector) read and change its state over HTTP. All its
state survives in one SQLite file. These modules model the parts of it where
several goroutines, several storage calls and a restart meet.

## 1. The system

One process, three kinds of goroutines:

* the **worker loop** (`cmd/supervisor/main.go:222-490`), one iteration per
  ticker event: poll the sensors, expire an automation intent, tick the manager,
  feed the eye-care service, evaluate the automation controller, classify the
  screen, drive reminders;
* the **HTTP handlers** (`internal/api`), any number at a time, each calling one
  service;
* **background jobs**: the daily review, retention, the shutdown sequence.

| component | state | operations | works with |
|---|---|---|---|
| `state.Manager` | current session, day counters, `currentDate`, pending automation intent, manual override, pause snooze | `SetModeStudy/Break/Off`, eye-care transitions, intents, `TickWithClassification`, `Close`, recovery at start | storage (most errors ignored), worker, API, eye care |
| `eyecare.Service` | one `Status` (phase, revision, counters) in memory and in a table; settings; request ledger | `Act`, `Status`, `Observe`, `RecordComputerUse`, `SaveSettings`, reconciliation at start | manager (for the mode), storage, worker, API |
| storage | SQLite tables | one statement or one transaction per call | everybody |
| `automation.Controller` | evidence windows, cooldown, diagnostics | `Evaluate` on a snapshot of the manager's status | worker, manager |
| daily review | job per date, review row, Markdown file | `Start`, `Status`, `Generate`, `Exclude`, `Delete`, OFF trigger, backfill | evidence revisions, an AI provider |
| classifier | a chain of models with a cooldown each, a cache | `Classify`, `UpdateAI` | worker, AI settings |
| AI settings | settings row, key files, configuration in memory | start-up migration, `Save`, `PutSecret`, `DeleteSecret` | API, classifier, daily review |
| motivation | focus per day, missions, rewards, points ledger, achievements | credit a tick, set a target, create/complete/cancel, redeem | worker, API |
| distraction tracker, availability debouncer | open event, instants of what is pending; health of ActivityWatch | `Observe`, day's end, shutdown, attach | worker |
| reminder engine | baselines and cooldowns; the manager's counters and shown reminder | `Evaluate` | worker, manager |
| semantic service | the activity being watched, the last snapshot | observe | worker, evidence revisions |
| browser collector, chat ingest | what was scanned and delivered, an offline queue; turns and messages | scan, deliver, retry; one transaction per turn | API, evidence revisions |
| pet, screen sensor | user interface and sensors in other processes | send requests, deliver observations | API |

`PROJECT.json` lists every component with its sources and what is or is not
modelled of it.

What is hard here:

* *No lock covers a transition.* The manager, the eye-care service and SQLite
  each are consistent on their own; an eye-care break is a sequence of calls on
  all three, with a compensation when the last fails and a replay when the
  process died.
* *Claims and snapshots.* Automation intents are taken from the manager under
  one lock and applied under the next; the worker evaluates proposals and breaks
  on a status it read before.
* *Ignored errors.* The manager makes its storage calls one by one and ignores
  most of their results, so that the tables may lag behind or miss a step.
* *Dates.* Midnight is noticed lazily, by whoever calls next, with the clock
  reading of that caller; the ticker's reading may be old.
* *Restarts.* What is in memory only is lost, what is in the table is
  reinterpreted: the open session, the pending requests, the totals of the day.
* *Evidence over ticks.* What the controller, the tracker, the reminder engine
  and the segments conclude rests on instants kept over many observations, with
  clock slips, outages, changes of mode and restarts between them.
* *Files beside rows.* A review is a row and a Markdown file, written one after
  the other under a lock that the writers of its evidence, exclusions and
  deletions do not take.

What makes each part correct:

* *Eye care*: an eye-care break has its mode and its phase, or neither; it ends
  only by the user's wish or its own end and returns to the mode before; a
  request is decided once, whatever crashes; a break is due when it was earned
  and not before, and a due one has its prompt.
* *Sessions*: one row is open, ended rows stay as they are, totals never shrink
  and cover the sessions, what was completed is not recovered, a changed session
  is announced.
* *Automation*: a proposal is applied at most once, ends only the session it was
  made for, never a break of the user's, and is settled in the end.
* *Daily review*: what is shown as READY has seen all announced evidence (but
  for the window of `Get`, section 3) and no exclusion, matches its file, and a
  job does not promise more; OFF asks for one review of the right day.
* *Controller*: sessions start only on study without an interruption.
* *AI settings*: key and settings survive a failing or interrupted write; a key
  once deleted is not used again.
* *Classifier*: a model that fails for reasons of its own does not keep the next
  one from being asked.
* *Segments, distractions, reminders*: a snapshot, an event or a reminder rests
  on one uninterrupted stretch, whatever happened in between.
* *Motivation, chat ingest*: an achievement, a check-in or a mission is
  announced once, a turn delivered again counts once (as far as its old flag can
  be read in order, section 3), no point is spent that was not earned, and a
  newer text is not replaced by an older one.

`PROJECT.json` lists the hazards at their lines and the properties that answer
them.

## 2. The modules

### EyeCareProtocol: a break across service, manager and ledger

`mem`, `disk` are the status in memory and in `eye_care_state`; `canon`, `row`,
`mdate` the manager's session, the open session in the table and the manager's
date; `ret` the setting with the mode to return to; `ledger` the table
`eye_care_requests`. `act` is the `Act` call that holds the service mutex: it
goes through `ActBegin` (the checks and the PENDING record), `ActMode` (the
mode), `ActComplete` (state and ledger in one transaction), and on failure
`ActUndo` (compensation) and `ActFail`. Each of these is one storage transaction
of the code, and other goroutines and a crash may come between any two. `wk` is
the worker between its snapshot of the status and the calls that use it. `life`
takes the start-up through its stages in the order of the code: the manager, the
recovered session, reconciliation of requests one at a time, advance, restore.

Time is reduced to the local date, so a break timer or a snooze may run out at
any evaluation, and focus counters are reduced to the decision they may lead to:
the service may find a short or a long break due whenever it evaluates.

### SessionLedger: sessions, totals, revisions

An operation of the manager computes the new memory under its mutex and makes
storage calls one by one. In the module it sets the memory and queues its calls
in `todo`; `Write` performs or fails the next one, a crash drops the rest, and
the mutex is free when `todo` is empty. `tab`, `daily` and `rev` are the tables
`sessions`, `daily_state` and `evidence_revisions`. `LateTicks` and `LateCalls`
switch two schedules on that the code allows and that break a promise: a ticker
reading handled after midnight, and worker or API calls after `Manager.Close`.

### AutomationIntents: proposals, claims, application

The worker's five locked calls are the steps of `worker.pc`; an HTTP accept or
reject is `Accept`/`Reject` (claim) and `RequestApplies` (application). `fate`
records what became of each intent and `ended` which session it ended. `hasty`
remembers whether anybody acted between another one's claim or snapshot and the
application that followed; two properties are stated for histories in which
nobody did. The controller's thresholds, evidence windows and cooldown are left
to chance, deadlines are the fact that they have passed.

### ReviewGeneration: one date's daily review

`evidence` is what was recorded about the date (records and exclusions,
counted), `rev` its row in `evidence_revisions`, `owed` the records whose writer
has not moved `rev` yet. `row` and `file` are the row in `daily_reviews` and the
Markdown file, `job` the entry of the coordinator's map. `proc` holds the two
calls of `Service.Generate` that may be under way, the job's and the synchronous
API's; `Held` is the service's mutex. A call goes through the steps of the code:
the revision, the evidence, the previous review and the model (`Load`), the
plan, the PENDING row, the file, the publication, the comparison with the
revision, the announcement. Each step may find its context dead (a timeout, a
close) or fail; the fallback's context cannot die, although the real one has a
limit of its own, which then is one of the faults. `Exclude` and `Delete` are
two steps each, outside the mutex; `crossed` remembers that one of them met a
generation or was cut short. That compaction or hashing fails, and all texts,
are left out; so is the event of the publication. `Get` takes no mutex and is
three statements (`get`): the read of the revision (`Read` for a reader,
`Backfill` for the start-up's look at yesterday), the marking of a READY row
(`GetMarks`) and the look at the row (`GetLoads`); a generation may publish
between any two. One `Get` is under way at a time: two share nothing but the
row, and what one does to the other is to mark it STALE. `MarkStaleIfChanged`,
which holds the mutex, is one step.

### ReviewTrigger: OFF asks for a review

`pending`, `timer`, `running` are the trigger's fields. A timer that has run out
is a callback in `firing` until it gets the lock, and one in `ready` between its
decision and its call. `lost` counts timers that still run but that the trigger
has forgotten: a late callback sets `t.timer` to nil whosever it is
(`trigger.go:84`). `off` is the last reported mode. The call is the `Start` of
ReviewGeneration, for the date captured at the report.

### IntentLifecycle: what AutomationIntents implements

The abstract specification of an intent: it is conceived, asked about (one at a
time), taken by one party, acts at most once and is over. Threads, locks,
requests and sessions do not appear. `AutomationIntents` maps `pending` to
`asked`, the hands an intent may be in to its `stage` and the sessions the
intents ended to `done`, and states the mapping as the property
`LifecycleIsKept`; `AutomationIntentsProofs` proves it.

### AISettings: a key and a row

`row` is the row of the settings table (absent, damaged, an old version's with a
key in it, or `v2`), `file` the managed key file of each endpoint, `cfg` the
configuration in memory, `used` the keys the providers were built with. `at`
goes through the start-up (decode, secure the old key, rewrite the row, build
providers) and through `Save`, `PutSecret` and `DeleteSecret` with their
rollbacks, one write per step. `gone` remembers which endpoints' keys the user
deleted. `extra` says that the row has a field of the old shape: a row of
version 2 whose text endpoint alone carries a key has none, is not rewritten
(`persistence.go:202`), and keeps the key unused.

### ModelChain: who answers a classification

`cool` and `fails` are each model's cooldown and its failures in a row, `call`
the classification under way with what each model has said, `cache` the answers
still served, with the chain that gave them. `Update` replaces the chain while a
model is answering. An attempt ends in an answer or in one of the scopes of
`ai.ClassifyError`.

### EvidenceWindow and its settings

One action per tick of the worker: `samples` are the controller's evidence, its
instants are kept as ages. Which of the paths of `Evaluate` a tick takes, what
it proposes and what it resets is modelled with the windows, the grace, the
cooldown and a clock that may go back; `Save` validates nothing, since its
inputs are valid settings, but may fail. `worked` is the reference: the study
seen since something interrupted it.

### DistractionTracker and ActivityHealth

`track` is the tracker's memory, `events` the table, `health` the debouncer
(module ActivityHealth, the pure function of `availability.go`). A tick is
observed through the debouncer; an outage suspends the open event, recovery and
unknown activity have their timers, a new day closes the event, and a start
attaches to the newest open row. Writes may fail and the process may stop or
die. `since` is the reference: the first of the observations that all were
distracted. `currentDate` is the manager's day: the first tick of a new one finds the
user in STANDBY (`manager.go:1001`, `1219`) and tells the tracker so, unless
Study was pressed after midnight and before that tick (`Study`, which makes the
reset itself). `NewEventIsLong` leaves out one kind of event besides those that
begin at midnight: when the write that closes the event at midnight fails, the
tracker has forgotten the event but not the instant it began, and a later tick
opens it again from the day before.

### ReminderEngine

The manager's counters, the engine's baselines and the reminder shown. A tick
moves the counters and asks the engine except in an eye-care break; modes
change, quiet times begin and end, settings are saved and feedback given in
between. `fresh` counts ticks since the baseline had to begin anew, and is full
after a save of the settings, from when to the next change of mode or quiet time
nothing is claimed. The
configuration does not say that the warning comes before the strong warning, so
what a reminder of study needs is the smaller of the two.

### SemanticSegments

`pending` and `last` are the service's, `rows` the table. An observation is
stored when it was stable long enough and due; a failing write leaves `last` as
it was, a restart and a clock that goes back forget. `seen` is the reference.

### MotivationLedger

`tick` is the worker's credit of one tick, statement by statement (target and
focus, flags, events, achievements), `closing` and `earned` the requests that
complete a mission and evaluate achievements meanwhile. Transactions are steps.
The balance is derived from `daily`, `paid` and `redeemed`, as in the code.

### CollectorDelivery

From the page to the table: `Scan` compares with the last snapshot and sends
what changed, `chain` and `step` are the serializer and the delivery it is at,
`queue` the offline queue, `table` the rows. `served` is what the handler does
with the request the worker awaits and with one that nobody awaits any more,
because its connection broke or the browser ended the worker: it reads the old
final flag, ingests in one transaction and moves the revision, one statement
after the other, until its cancelled context stops it, while the next request is
already served. Each statement may fail; an error of the flag's read counts as
not yet final (`collector.go:150`). `counted` remembers how often a turn moved
the evidence revision, `cut` the turns whose move was lost with a request, and
`unsure` those whose flag could not be read or that two requests carried at
once.

### EyeCareRhythm: when a break is due and told

The other half of the eye-care service: `st` holds the counters of use, the
refusal, the snooze, the rest and the next prompt, of which EyeCareProtocol
keeps only what phase they lead to. `Advanced` is `advanceLocked` in its order
(new date, break whose mode is gone, end of the rest, end of the snooze), `Tick`
the worker's iteration (`Record` after it), `Claim` `TakePendingNotification`.
`owed` is the use whose write failed; it lives in memory, over midnight and
over breaks, until a write takes it along or five minutes away clear it. The
reference is `done`: what was really used since the last rest, the last long
rest and the last refusal, each unit once. An `Act` is one step here, since its
protocol is EyeCareProtocol's. The module shows two consequences of the code
that the repository promises nothing about: use owed at midnight is counted to
the new day, and an `OFF` in a break leaves the counters, so that the next unit
of use makes the break due again.

### SupervisorParts: ten parts in one state space

The last nine of these and ReviewTrigger share no variable with each other in
the code: no call of one reads what another keeps. A product of them would only
multiply independent steps, so SupervisorParts lets each behaviour follow one
part, chosen at the beginning, and keeps the variables of the others at 0. It is
no more than the runs of its parts side by side, and its properties are theirs,
stated for the part followed. It also fixes their constants (thresholds of a few
units, which keep the order the configuration has).

The first three modules overlap on purpose: each contains as much of the manager
as its question needs. The daily reset, for instance, is a change of mode in
EyeCareProtocol, a queue of storage calls in SessionLedger and a new session
number in AutomationIntents.

## 3. What is checked

| run | question | bounds | states |
|---|---|---|---|
| `eyecare_core` | does a break survive crash, fault and midnight; who may end it; are requests decided once | 2 requests, 1 snooze, 1 midnight, 1 fault, 1 crash | 3.4 M |
| `eyecare_live` | is an abandoned break noticed, is every request decided | 2 requests, 1 fault, actions overlap the worker | 0.3 M |
| `eyecare_overlap` | (violated) the worker never ends a break | 2 requests, actions overlap the worker | |
| `sessions_core` | tables, totals, revisions and recovery; does the new day begin | 7 session ids, 1 midnight, 1 fault, 1 crash | 1.2 M |
| `sessions_late_tick` | (violated) totals never shrink | a ticker reading from before midnight | |
| `sessions_late_call` | (violated) a completed session is not recovered | calls after `Close` | |
| `intents_core` | does every intent follow its lifecycle, end its own session, respect the user, and settle | 2 intents, 1 mode change, 1 midnight, 1 crash | 0.5 M |
| `review_core` | is what is shown READY complete, does it match its file, does an exclusion hold, do jobs tell the truth | 1 record, 1 exclusion or deletion, 2 requests, 1 fault, 1 exit or crash | 4.5 M |
| `parts_core` | the ten parts of SupervisorParts | below | 0.7 M |
| `chain_cooldown` | (violated) the local rules answer only after every model was asked | 2 models, 1 change of settings | |
| `collector_overtake` | (violated) an older text never replaces a newer one | 2 turns of 2 versions, no failures | |
| `distraction_midnight` | (violated) midnight closes a distraction | 9 instants, midnight at 6, no failures | |

Why these bounds are enough to be interesting: two requests are needed for one
to be retried, replayed or to collide with another, one fault puts every call of
a protocol in turn into its error path, and one crash falls between any two of
them. Seven session ids leave room for two mode changes, a midnight and a
recovery; SessionLedger also begins with a pause of the automation that is
recovered, so that it may be resumed. With two intents one can be claimed while
the next is proposed. Each
property is broken by a small mutation of a mapped definition (`PROJECT.json`,
`mutants`; the operators marked *Mutant* in the modules), within the same
bounds.

For the review, one record that arrives during the generation is the interesting
one, two requests let a synchronous call and a job compete for the mutex or a
second generation follow the first.

The parts: four reports of a mode and two dates for the trigger (a timer is set
while two callbacks are late); three keys, two faults and three starts for the
settings (the migration can die, be retried and fail again); two models, a
longest shift of two and one change of the chain (three units after a rejected
key, two as a `Retry-After`); one unit per award,
three redemptions, as far as the balance goes, two missions, two days and one mishap for motivation; two turns
and a queue of two with two troubles (statements that fail, broken connections, ends
of the worker) for the collector, so that a turn can be redelivered while its
lost request still runs; three
samples, a gap of two, one clock slip, one save and one restart for the
evidence windows, so that samples are dropped for age, for number and for a gap;
nine instants, three events, two faults and two starts for distractions (with
two, the close at midnight can fail and be followed by another failing write),
with thresholds of two and three ticks; counters of two ticks and one change of
settings for reminders; eight instants, two activities, one slip, one fault and
one start for segments; for the eye care thresholds of three and four units, a
refusal of two, two units between prompts and away, one snooze, two faults, one
midnight and one restart, so that use may be owed twice and a long break become
due while a short one is.

`CHECK_DEADLOCK` is on in every passing run but `parts_core`: no state without a
successor is reachable. The parts stop when their bounds are used up, and
ReviewTrigger when the last report is made and no timer runs, as the trigger
does when nobody presses a button.

### Fairness

* EyeCareProtocol: weak fairness of the steps of an `Act` call (it is a running
  goroutine), of the worker's steps (a ticker) and of the start-up. None of the
  user.
* SessionLedger: weak fairness of `Write` (storage calls return) and of the
  worker.
* ReviewTrigger (and SupervisorParts): weak fairness of timers, of callbacks
  waiting for the lock, and of calls, which only take the coordinator's lock and
  start a goroutine.
* AutomationIntents: weak fairness of the worker, of a request that has claimed
  an intent, and of the passing of a deadline. Go's mutexes do not starve a
  waiter.

Weak fairness is enough throughout: none of these actions is disabled again and
again by others. The user need never do anything; a crash need not happen. The
other modules have no liveness property: their steps are ticks and requests, and
what they promise is what a tick may never conclude.

### Where the code and its documents disagree

* `eyecare_overlap`: the worker's snapshot of the mode is taken outside the
  service mutex; a break that starts before it is used is aborted by the worker
  (`service.go:757`), while the manager stays in BREAK/EYE_CARE, where no action
  applies.
* `sessions_late_tick`: a ticker reading from before midnight, handled after a
  mode change from after it, takes the manager back to yesterday and overwrites
  yesterday's total with zero.
* `sessions_late_call`: `Close` leaves the session current; a last tick reopens
  its row and the next start recovers its mode.
* `chain_cooldown`: a model that is cooling down refuses with an error that
  counts as one of the transport, so that the chain stops there: the ready
  fallback models are not asked and the local rules answer.
* `collector_overtake`: a message of several turns holds one place in the
  serializer at a time; a newer message of one of these turns gets in between,
  and the older text arrives last.
* `distraction_midnight`: the instant a distraction began is not forgotten when
  its event opens, so the tick that closes the event at midnight begins the next
  one at the old instant, on the old day, and so does every tick after it. The
  schedule is a narrow one: the first call of the new day puts the manager in
  STANDBY, and if a tick makes it, the event ends as `STUDY_ENDED` and the
  instant is forgotten (`manager.go:1001`, `tracker.go:106`). It needs the user
  to press Study between midnight and the next tick (`manager.go:322`).

More deserve a reader's attention, although no run is spent on them:

* With two failing calls a request of the eye care can stay pending over later
  actions; the next start replays it without comparing revisions
  (`service.go:917`) and overwrites the phase of a later break. A snooze or skip
  left over like this (`StaleRefusal`) is what `CrashKeepsBreak` excludes; the
  proof shows that it is the only case, for any number of faults, while
  `eyecare_core` has one.
* With a failing storage call `CompletedNeverRecovered` does not hold: when the
  write that ends a session is lost (`manager.go:1253`), the row stays open and
  comes back after an orderly exit; the property is stated for runs without
  faults.
* Without `~hasty`, `EndsItsOwnSession` does not hold: a pause claimed by an
  accept is applied to whatever study session is current when the lock is taken
  again (`manager.go:757`), also one that the user began in between.
* `review_core` starts from a date that has a record (`InitRev = 1`). With
  `InitRev = 0`, `ShownIsComplete` fails: an evidence revision of 0 is read
  again when the review is stored (`review/service.go:264-269`), so that the
  first record of a date, made while the model is writing, counts as seen,
  against `DEVELOPMENT.md:93`.
* Without `~crossed`, `ExclusionHolds` and `ArtifactMatches` do not hold: an
  exclusion after the evidence is read and before the row is stored finds no
  review to mark (`review/service.go:385`), and the review with the excluded
  conversation is published READY; a deletion (`:388`) may remove the file of a
  review that is being generated.
* `PutSecret` replaces the key file before the row (`aisettings/service.go:221`):
  when the row fails, the call fails and the next start uses the new key.
* A late callback of the trigger may forget a timer set after its own
  (`trigger.go:84`) and start the review early, of the right day.
* `Get` marks a READY row and looks at the row in two statements outside the
  mutex (`review/service.go:371`, `storage/review.go:187`): a review published
  between them is shown READY although evidence announced before is missing in
  it, against `DEVELOPMENT.md:93`, until the generation's own comparison marks
  it a moment later. `ShownIsComplete` leaves out a row `published` there.
* The collector's handler reads the old final flag before its transaction and
  drops an error of that read (`collector.go:149-153`): a final turn redelivered
  while that read fails, or while its first, lost request still runs, moves the
  evidence revision twice, and a READY review becomes STALE for no new
  evidence. `CountedOnce` leaves out what is in `unsure`.
* After a save of the settings, reminders count from a zero baseline
  (`reminder/engine.go:60-74`), so that one may come at once;
  `RemindersStartAnew` claims nothing there.
* The daily target is announced whenever its flag is set, also again after the
  user changed it (`motivation/service.go:118`); `ToldOnce` is about check-ins,
  achievements and missions.
* A completed mission whose revision could not be moved is never told
  (`storage/motivation.go:367`): the retry finds it closed.

## 4. What is proved

With TLAPS, for all values of the constants and behaviours of any length:

| module | theorem | states |
|---|---|---|
| EyeCareProtocolProofs | `TypeCorrect` | `TypeOK` |
| | `NoRequestForgotten`, `DecisionsAreFinal` | `NothingForgotten`, `DecidedIsFinal` |
| | `BreaksReturn`, `CrashesKeepBreaks` | `ReturnsToModeBefore`, `CrashKeepsBreak` |
| | `UsersEndBreaks`, `EveryModeHasItsBreak` (`~Overlap`) | `OnlyTheUserEndsABreak`, `NoOrphanBreak` |
| SessionLedgerProofs | `TypeCorrect` | `TypeOK` |
| | `ExactlyOneOpenRow`, `FinishedSessionsAreAnnounced` | `OneOpenRow`, `EvidenceMoves` |
| | `CompletedStayCompleted` (`~LateCalls`, no failed call) | `CompletedNeverRecovered` |
| | `TotalsOnlyGrow` (`~LateTicks`, no failed call) | `TotalsNeverShrink` |
| | `SessionsWithinTotals` (`~LateTicks`, no failed call) | `DailyCoversSessions` |
| AutomationIntentsProofs | `TypeCorrect`, `UsersBreaksAreSafe` | `TypeOK`, `UsersBreakIsKept` |
| | `OwnSessionEnds`, `RejectionIsRespected` (both for histories that were not `hasty`) | `EndsItsOwnSession`, `SnoozeIsKept` |
| | `ExactlyOnce`, `NoIntentIsReplaced`, `SettlementIsFinal` | `AppliedOnce`, `NothingElsePending`, `SettledIsFinal` |
| | `ImplementsLifecycle` | `LifecycleIsKept` (refinement of IntentLifecycle) |
| ReviewGenerationProofs | `TypeCorrect` | `TypeOK` |
| | `PublishedArtifact`, `ExclusionIsKept` (both unless `crossed`), `ReportedJobs` (nothing failed or deleted) | `ArtifactMatches`, `ExclusionHolds`, `JobIsTrue` |
| | `ShownReviewsAreComplete` (`InitRev > 0`, no failed call, not `published` within the `Get`) | `ShownIsComplete` |
| RecordProofs | `AnnouncedOnce`, `PointsAddUp` (of MotivationLedger) | `ToldOnce`, `LedgerAddsUp` |
| | `TurnsCountOnce` (of CollectorDelivery; not what is `unsure`) | `CountedOnce` |
| | `LedgerTyped`, `DeliveryTyped`, `SettingsTyped` | `TypeOK` of these two and of AISettings |
| | `MigrationsKeepTheKey`, `DeletionsLast` (of AISettings) | `StartKeepsTheKey`, `DeletedStaysDeleted` |
| WatchProofs | `DueBreaksAreTold`, `DueBreaksAreEarned` (of EyeCareRhythm) | `DueIsTold`, `DueIsEarned` |
| | `StartsNeedEvidence` (of EvidenceWindow) | `StartNeedsEvidence` |
| | `RemindersAreDue` (of ReminderEngine; not between a save and the next mode or quiet time) | `RemindersStartAnew` |
| | `ShortSwitchesPass` (of DistractionTracker) | `ShortSwitchIsNoEvent` |
| | `SnapshotsAreStable` (of SemanticSegments) | `SnapshotIsStable` |
| | `RhythmTyped`, `EvidenceTyped`, `RemindersTyped`, `EventsTyped`, `SegmentsTyped` | `TypeOK` of these five |
| SupervisorPartsProofs | `ReviewedOnce`, `OnlyOffStarts` (of ReviewTrigger) | `OneReviewPerOff`, `StartsOnlyWhenOff` |
| | `TriggerTyped`, `ModelsTyped` | `TypeOK` of ReviewTrigger and of ModelChain |
| | `PartsTyped` | `PartsTypeOK` |
| | `PartsKeepTheKey`, `PartsDeletionsLast` | `StartKeepsTheKey`, `DeletedStaysDeleted` |
| | `PartsTellTheirBreaks`, `PartsEarnTheirBreaks` | `DueIsTold`, `DueIsEarned` |
| | `PartsAnnounceOnce`, `PartsAddUp` | `ToldOnce`, `LedgerAddsUp` |
| | `PartsCountOnce`, `PartsStartOnEvidence` | `CountedOnce`, `StartNeedsEvidence` |
| | `PartsRemindWhenDue`, `PartsIgnoreShortSwitches` | `RemindersStartAnew`, `ShortSwitchIsNoEvent` |
| | `PartsWatchLongEnough` | `SnapshotIsStable` |

The eighth module, SumTheorems, has no result of its own: it states what a sum
over a finite set is, for the two properties about sums.

The parts have their general theorems in RecordProofs (what is kept: awards,
turns, keys) and WatchProofs (what is concluded from observations), for every
value of their constants. SupervisorPartsProofs carries these over to the
properties of the same names that the run of SupervisorParts checks, with the
bounds that module chooses. The theorems of the two others, ReviewTrigger and
ModelChain, are in SupervisorPartsProofs itself.

Most of these properties are checked by a run too, so that each was seen to
hold on an instance before it was proved. Not listed by a run are the `TypeOK`
of SessionLedger and ReviewGeneration (those of the parts are in
`PartsTypeOK`), `AppliedOnce`, `NothingElsePending` and
`SettledIsFinal`: proved for all bounds they need no instance of their own, and
what the last three say of intents the lifecycle says as well.

**Assumptions.** The bounds are natural numbers, request ids are natural numbers
(their order is the order of `created_at`), flags are Boolean. SessionLedger
needs two session ids, because it also begins with two sessions; AISettings two
keys and one start, for the same reason. The hypotheses in brackets are the
schedules that a violated run shows to break the promise (`~Overlap`:
`eyecare_overlap`, `~LateTicks`, `~LateCalls`: the two of the sessions) and
`InitRev > 0`, the date without a record of section 3. The modules of the parts
give their constants no assumption of their own; there a theorem takes what it
needs as a named hypothesis, and nothing else:

* `SettingsBounds`, `Bounds` (EyeCareRhythm): the bounds and thresholds are
  natural numbers.
* `LedgerBounds` (MotivationLedger): the missions that carry a reward are among
  the missions and finitely many (rows of a table), and rewards, costs, the rate
  and the hour are natural numbers, the hour positive (constants of
  `storage/motivation.go`).
* `ReminderBounds`: thresholds, cooldowns and bounds are natural numbers; no order
  of the thresholds is assumed, because none is validated.
* `DistractionBounds`: midnight, the gap and the threshold are integers.
* `EvidenceBounds`: there is a configuration that can be saved, finitely many of
  them, and their numbers are natural (the API validates their ranges); the
  bounds on samples and gaps are natural numbers.
* `LedgerLimits`, `DeliveryLimits`, `RemindingBounds`, `SemanticBounds`,
  `EventBounds`, `EvidenceLimits`: what the types need besides, that the bounds of
  the checking are natural numbers, positive where the count begins at 1, and
  that there is a daily target a user may set.
* `MissionsAssumption` (SupervisorParts): as for `LedgerBounds`, for the two
  constants that module leaves open.

**The arguments.** Few of these properties are inductive. What each needs
besides:

* *Eye care.* That memory and table are equal (`WriteThrough`, a lemma) is in the
  actions themselves, which change both or neither. For `NoRequestForgotten`,
  `LedgerInv` adds that the call's own request is
  the only pending one, that a compensation implies a fault, and that start-up
  leaves its reconciliation only with nothing pending. `BreaksReturn` needs
  `ReturnInv`: the setting is right not only while the break runs but while its
  row would be recovered and between the mode change and the commit of an action
  that ends it. A crash is followed through the stages of the start-up by
  `CrashInv`, which needs `RowInv` (where the session is at each stage) and
  `PlanInv` (a replayed start leads to a break). `WorkerInv` says that the
  worker's snapshot is never behind a break's beginning, which only holds
  without `Overlap`; `RefusalInv` that a snooze or skip is committed over no
  break; `OrphanInv`, without faults, that an eye-care session, also one still
  to be recovered, has its phase on disk or a pending start.
* *Sessions.* The manager's memory is set at once and the table follows call by
  call, so an invariant must speak of what the queue `todo` will still do.
  `Opens` and `Closes` say so for one call; `Leads` for the queue of an
  operation, and one lemma per operation shows that what it queues leads from
  the old session to the new one. `Base` has the types and that the next id is
  unused; `UpInv` that the queue makes the current session the only open one,
  whose instance for an empty queue is `OneOpenRow`; `SettledInv` that no row
  still open, or to be opened, is older than the last orderly exit; `TotInv`
  that a queued total is the counter and the counter not behind its table;
  `EvInv` counts, per date, the finished sessions, with one that a queued
  transition is about to finish without an announcement of its own (`Silent`),
  against the revision, the announcement next in the queue (`Owed`), crashes and
  failures.
  `SecsInv` bounds the study time of a date's rows by the stored total. The sum
  over the date's study rows is first shown to be one over all rows
  (`StudiedIsTheSum`), so that a write changes one summand. Then the queue is
  followed again: every call in it writes the current session as it is, or a row
  without time of study (`Light`, `Fit`), except after a second of study, where
  the total goes before the row (`Raising`) and pays for what the row will add.
* *Intents.* `Hands` says that an intent is in one hand at a time (pending,
  claimed by a request, claimed by the worker, proposed) and that its fate names
  it, `Ledger` that an intent that ended a session is in none.
  `DecidesTheUndecided` then shows that every change of `fate` is at one intent
  that was in some hand. While nobody was hasty, `Calm` says that one intent at
  most is in any hand, that it was made for the current session unless the day
  has ended (`Fits`), and that it is no pause while pauses are snoozed.
  The refinement needs `Hands` as well: because an intent is in one hand, the
  mapped `stage` changes at one intent per step, and each action of the detailed
  module is one of `Conceive`, `Ask`, `Take`, `Withdraw`, `Act`, `Refuse`, `Die`
  or a stutter, one proof step per action of `Next`.
* *Daily review.* `IInv` follows a call of `Generate` from step to step:
  `OneHolder` is the mutex, `CallsHaveTheirRow` what row and file are before the
  publication, `InputIsCurrent` that the exclusions read are those of now unless
  an exclusion crossed the call, `CallsMoveOn` that row revisions grow while
  nothing failed and nothing was deleted (so that a job that saw its review
  published is not contradicted), and `RevisionBeforeInput` with `Announcements`
  that a call counts the revision before it reads the records, so that a later
  record shows in the comparison before the publication is believed.
* *The parts together.* A behaviour of `PSpec` that follows a part is a
  behaviour of that part's module, so its general theorem applies. The theorems
  are about a second instance of the module, with the same constants;
  `SameSettings`, `SameRhythm`, `SameMotivation` and `SameCollector` (with
  `SameWorker` and `SameHandler` for its actions) show the
  two instances equal, and so do the lemmas for the other parts. `PartsTyped`
  puts the types of the parts together: a behaviour follows one of the ten.
* *Types.* Few of them are inductive as they stand, because they are the bounds
  of what the code keeps and not only its shape. A tick of the motivation
  service must still have room in the row it read (`Roomy`); the worker of the
  collector acknowledges only what it queued (`DeliveryOk`); a break's seconds
  to rest are within the longer of the two breaks for every status computed on
  the way (`Ranged`); the outages excluded from an event are over by now, or by
  the start of the present one, so that no time of the tracker passes the run
  (`Clocked`); a trimmed window weighs no more than its length, because what is
  trimmed is what was too old (`EvidenceRest`, with `AfterIsSum` for the time a
  suffix of the samples stands for); a call asks the next model only if its
  chain has one (`ModelsOk`).
* *The trigger.* `PendingIsFresh`: what is pending is of the date of the last
  report, that report was OFF, and no start was decided since. The lock alone
  makes it inductive, whatever became of the timers.
* *AI settings.* `KeyInv`: the row is rewritten only when the file holds a key or
  the row has none. `GoneInv`: no row, configuration, half-made operation or
  provider refers to a deleted key, and no step is left that would migrate one.
* *Eye-care rhythm.* `Told` and `Counted` relate every status that the code
  computes on the way, not only the stored one, to the reference history, so
  that each operator (`Advanced`, recording, acting, claiming) has one lemma;
  `Counted` says that counters plus owed use never exceed what was really used.
* *Once only.* An announcement is repeated only if its fact is established
  again; `OnceInv` says that a told fact is in its table, and where news still on
  their way are. For a turn, `QueuesInv` says that its context is fixed before
  it is sent for the first time, in every queue it may wait in, and `CountInv`
  what each request being served may still do: two never carry one turn unless
  it is `unsure` (`Apart`), so a request that read no flag is the one that sets
  it, and the revision moves once, when it is set.
* *Points.* `LedgerInv`: the balance is not negative and the rewards paid are
  those of the completed missions. The balance is derived from a sum over the
  days: a tick adds to one day's focus and to no other (`CreditedFocus`), so the
  sum, the points rounded down from it (`DivFacts`) and the balance grow or stay;
  a redemption spends what the balance of its moment has.
* *Evidence.* `WorkedInv`: what the samples of study weigh, each with the time it
  stands for, is at most the study since the last interruption (`worked`), or
  `worked` is at its cap. A window is a part of the samples and weighs no more
  (`TotalFacts`), a cut by age or number makes them lighter (`TrimFacts`), and a
  gap, a slip or an interruption empties both.
* *Reminders.* `RemInv`: every count has grown by at most `fresh` since its
  baseline, the ticks since the baseline had to begin anew, or began itself anew
  meanwhile; so what passes a threshold by the first passes it by the second.
* *Distractions.* `TrackInv`: what is pending, and the open event, began no
  earlier than the first of the last samples that were all distracted, or before
  a midnight after which a write failed.
* *Segments.* The activity held is the one seen, from an instant not before it
  was seen first.
* *Sums.* The library's induction over finite sets takes an operator as a
  parameter and cannot be used. SumTheorems therefore argues with a least
  counterexample: the set with the fewest elements on which a claim about sums
  fails (`SmallestOf`, from the well-foundedness of the natural numbers) is not
  empty, and the same set without one element refutes it. From the existence and
  uniqueness of the table that the library's sum chooses (`TableExists`,
  `TablesAgree`) follow the type of a sum, splitting off an element, equality,
  monotony, and the sums of a prefix and of a shifted sequence.

**Only model-checked.** All liveness properties (`AbandonedBreakIsNoticed`,
`RequestsAreDecided`, `NewDayBegins`, `EveryIntentSettles`, `OffIsReviewed`):
liveness under fairness and `ENABLED` are beyond the prover. Every safety
property of a passing run is proved. Of ModelChain the types are proved for the
constants that SupervisorParts gives it (two models, a shift of two): that a
power of 2 is a natural number for every exponent is an induction over data. No
RECURSIVE operator is used.

## 5. What is not modelled

* In EyeCareProtocol: pruning of requests older than 90 days, the reply payloads
  of failed requests, statistics, an ambiguous result of a commit (a
  transaction happens or fails), `SetTask`, audits.
* In EyeCareRhythm: changed lengths and thresholds, the hours of quiet (a claim
  is made outside them), several seconds in one tick, the failing claim, which
  changes nothing.
* In SessionLedger: four of the five totals, which are handled like the study
  time; the repair of old durations (`sqlite.go:580-715`); feedback. A start
  that cannot read the day's totals (`manager.go:135`) begins at zero and
  overwrites them: reads do not fail in the module. `CloseOpenSessions` ends a
  study session without moving the evidence revision (`sqlite.go:1214`);
  `EvidenceMoves` counts only the sessions that the manager ends.
* In ReviewGeneration: compaction, sanitizing, prompts, validation and
  providers; the event of the publication, and that a failing announcement fails
  a call whose review is published (`review/service.go:303`); `RunDue` of the
  trigger, which only tests call.
* In AutomationIntents and EvidenceWindow: diagnostics and their audit.
* In ModelChain: local rules, prompts, the decision to look at the screen and
  the screenshot's own chain, which is built alike.
* In MotivationLedger: pruning of the event list, links of missions, editing of
  the catalogue, the history view.
* In CollectorDelivery: parsing of the page, the baseline of turns older than
  the page, conversation epochs, the cached mode; retention.
* In SemanticSegments: the tables that classify an activity, the live view.
* In ReminderEngine: texts and the computation of quiet hours.
* Without a module: the ActivityWatch client, configuration (defaults and
  validation before any state exists), rules and privacy gate (keyword tables),
  the aggregation of evidence and the compaction of a review (pure functions of
  texts), task presets (one table), the sensors, the desktop pet, the scripts.
* Hazards known and not answered by a property: an OFF between a resumed mode
  and its compensation (`eyecare/service.go:861`), a study session resumed on
  the date before midnight (`manager.go:455`), and the cap of the controller's
  256 samples, which is in the module with a bound of three.

## 6. Plan

Done: EyeCareProtocol, SessionLedger, AutomationIntents with IntentLifecycle,
ReviewGeneration, ReviewTrigger, and the parts of SupervisorParts.

Open:

1. The composition of ReviewGeneration with SessionLedger's revisions.
