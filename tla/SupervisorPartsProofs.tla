----------------------- MODULE SupervisorPartsProofs -----------------------
(***************************************************************************)
(* Theorems of SupervisorParts.  Of ReviewTrigger, that the trigger asks   *)
(* for a review only while the user is OFF, for the right day and once,    *)
(* with any number of dates and reports.  Of the parts that are followed,  *)
(* what RecordProofs and WatchProofs prove of their modules for all        *)
(* constants: a behaviour that follows a part is a behaviour of its        *)
(* module.                                                                 *)
(***************************************************************************)
EXTENDS SupervisorParts, Sequences, TLAPS

-----------------------------------------------------------------------------
(* The trigger *)

\* What is pending belongs to the last report, which was OFF, and has not been
\* asked for yet.
PendingIsFresh == pending # None => pending \in Dates /\ off = pending /\ asked = 0

IInv == PendingIsFresh /\ asked \in 0 .. 1 /\ day \in Dates /\ ready \in [Dates -> Nat]

\* None is no date.
LEMMA DatesFact == None \notin Dates /\ Dates \subseteq Nat
  BY BoundsAssumption DEF None, Dates

\* The invariant holds initially,
LEMMA InitFact == Init => IInv
  BY BoundsAssumption DEF Init, IInv, PendingIsFresh, Dates, None

\* and every step keeps it: only Fire uses up what is pending, only a report of
\* OFF sets it.
LEMMA StepFact == IInv /\ [Next]_vars => IInv'
<1> SUFFICES ASSUME IInv, [Next]_vars PROVE IInv'
  OBVIOUS
<1> USE DatesFact DEF IInv, PendingIsFresh
<1>1. CASE ModeOff
  BY <1>1 DEF ModeOff, Report, Armed
<1>2. CASE ModeOther
  BY <1>2 DEF ModeOther, Report, Stopped
<1>3. CASE TimerFires
  BY <1>3 DEF TimerFires
<1>4. CASE Fire
  <2>1. CASE pending = None
    BY <1>4, <2>1 DEF Fire
  <2>2. CASE pending # None
    <3>1. pending' = None /\ asked' = asked + 1 /\ UNCHANGED day
      BY <1>4, <2>2 DEF Fire, NotPending
    <3>2. ready' = [ready EXCEPT ![pending] = @ + 1]
      BY <1>4, <2>2 DEF Fire
    <3>3. pending \in Dates
      BY <2>2
    <3>4. ready[pending] \in Nat
      BY <3>3
    <3>5. ready[pending] + 1 \in Nat
      BY <3>4
    <3>6. ready' \in [Dates -> Nat]
      BY <3>2, <3>5
    <3> QED
      BY <2>2, <3>1, <3>6
  <2> QED
    BY <2>1, <2>2
<1>5. CASE Run
  <2>1. PICK d \in Dates : ready[d] > 0 /\ ready' = [ready EXCEPT ![d] = @ - 1]
    BY <1>5 DEF Run
  <2>2. ready' \in [Dates -> Nat]
    BY <2>1
  <2> QED
    BY <1>5, <2>2 DEF Run
<1>6. CASE RunEnds
  BY <1>6 DEF RunEnds
<1>7. CASE Close
  BY <1>7 DEF Close, Stopped
<1>8. CASE Midnight
  BY <1>8, BoundsAssumption DEF Midnight, Dates
<1>9. CASE UNCHANGED vars
  BY <1>9 DEF vars
<1> QED
  BY <1>1, <1>2, <1>3, <1>4, <1>5, <1>6, <1>7, <1>8, <1>9 DEF Next

\* At any time, going OFF has asked for one review at most.
THEOREM ReviewedOnce == Spec => []OneReviewPerOff
<1>1. IInv => OneReviewPerOff
  BY DEF IInv, OneReviewPerOff
<1> QED
  BY <1>1, InitFact, StepFact, PTL DEF Spec

\* No callback starts a review of a day the user is not OFF on.
StartsWhenOff == \A d \in Dates : ready'[d] > ready[d] => off = d

\* Only Fire decides a start, of what is pending.
LEMMA StartFact == IInv /\ [Next]_vars => StartsWhenOff \/ UNCHANGED vars
<1> SUFFICES ASSUME IInv, Next, NEW d \in Dates, ready'[d] > ready[d] PROVE off = d
  BY DEF StartsWhenOff
<1> USE DatesFact DEF IInv, PendingIsFresh
<1>1. ready[d] \in Nat
  OBVIOUS
<1>2. CASE Fire
  <2>1. pending # None /\ ready' = [ready EXCEPT ![pending] = @ + 1]
    BY <1>1, <1>2 DEF Fire
  <2>2. pending = d
    BY <1>1, <2>1
  <2> QED
    BY <2>1, <2>2
<1>3. CASE Run
  <2>1. PICK e \in Dates : ready' = [ready EXCEPT ![e] = @ - 1]
    BY <1>3 DEF Run
  <2>2. ready'[d] = ready[d] \/ ready'[d] = ready[d] - 1
    BY <2>1
  <2> QED
    BY <1>1, <2>2
<1>4. CASE UNCHANGED ready
  BY <1>1, <1>4
<1> QED
  BY <1>2, <1>3, <1>4
  DEF Next, ModeOff, ModeOther, Report, TimerFires, RunEnds, Close, Midnight

\* A callback that decides late, after the user came back or after midnight,
\* starts nothing, or the review of the day on which the user went OFF.
THEOREM OnlyOffStarts == Spec => StartsOnlyWhenOff
<1>1. IInv /\ [Next]_vars => [StartsWhenOff]_vars
  BY StartFact
<1> QED
  BY <1>1, InitFact, StepFact, PTL DEF Spec, StartsOnlyWhenOff, StartsWhenOff

\* A mode report, a timer and a callback leave the trigger's state typed: a timer
\* it can still stop runs only while a review is pending.
LEMMA TriggerTypes == TypeOK /\ [Next]_vars => TypeOK'
<1> SUFFICES ASSUME TypeOK, [Next]_vars PROVE TypeOK'
  OBVIOUS
<1>0. /\ None \notin Dates /\ day \in Dates /\ off \in Dates \cup {None}
      /\ pending \in Dates \cup {None} /\ running \in Dates \cup {None}
      /\ lost \in Nat /\ firing \in Nat /\ asked \in Nat /\ presses \in Nat
      /\ ready \in [Dates -> Nat]
  BY BoundsAssumption DEF TypeOK, None, Dates
<1>1. CASE ModeOff
  BY <1>0, <1>1 DEF ModeOff, Report, Armed, TypeOK
<1>2. CASE ModeOther
  <2>1. /\ off' = None /\ pending' = None /\ timer' = FALSE /\ asked' = 0 /\ presses' = presses + 1
        /\ UNCHANGED <<day, life, lost, firing, ready, running>>
    BY <1>2 DEF ModeOther, Report, Stopped
  <2>2. presses' \in Nat /\ asked' \in Nat
    BY <1>0, <2>1
  <2>3. timer' \in BOOLEAN /\ ~timer'
    BY <2>1
  <2>4. {off', pending', running'} \subseteq Dates \cup {None}
    BY <1>0, <2>1
  <2> QED
    BY <1>0, <2>1, <2>2, <2>3, <2>4 DEF TypeOK
<1>3. CASE TimerFires
  <2>1. lost' \in Nat /\ firing' \in Nat
    BY <1>0, <1>3 DEF TimerFires
  <2>2. timer' \in BOOLEAN /\ (timer' => timer)
    <3>1. timer \in BOOLEAN
      BY DEF TypeOK
    <3>2. timer' = FALSE \/ timer' = timer
      BY <1>3 DEF TimerFires
    <3>3. CASE timer' = FALSE
      BY <3>3
    <3>4. CASE timer' = timer
      BY <3>1, <3>4
    <3> QED
      BY <3>2, <3>3, <3>4
  <2> QED
    BY <1>3, <2>1, <2>2 DEF TimerFires, TypeOK
<1>4. CASE Fire
  <2>1. firing' \in Nat /\ UNCHANGED <<day, life, off, running, presses>>
    BY <1>0, <1>4 DEF Fire
  <2>2. CASE pending = None
    BY <1>4, <2>1, <2>2 DEF Fire, TypeOK
  <2>3. CASE pending # None
    <3>1. /\ pending' = None /\ timer' = FALSE /\ asked' = asked + 1
          /\ lost' = lost + (IF timer THEN 1 ELSE 0)
          /\ ready' = [ready EXCEPT ![pending] = @ + 1]
      BY <1>4, <2>3 DEF Fire, NotPending
    <3>2. asked' \in Nat
      BY <1>0, <3>1
    <3>3. lost' \in Nat
      BY <1>0, <3>1
    <3>4. ready' \in [Dates -> Nat]
      BY <1>0, <2>3, <3>1
    <3> QED
      BY <2>1, <3>1, <3>2, <3>3, <3>4 DEF TypeOK
  <2> QED
    BY <2>2, <2>3
<1>5. CASE Run
  <2>1. PICK d \in Dates : /\ ready[d] > 0 /\ ready' = [ready EXCEPT ![d] = @ - 1]
                           /\ running' = IF running = None THEN d ELSE running
    BY <1>5 DEF Run
  <2>2. ready' \in [Dates -> Nat] /\ running' \in Dates \cup {None}
    BY <1>0, <2>1
  <2> QED
    BY <1>5, <2>2 DEF Run, TypeOK
<1>6. CASE RunEnds
  BY <1>6 DEF RunEnds, TypeOK
<1>7. CASE Close
  BY <1>7 DEF Close, Stopped, TypeOK
<1>8. CASE Midnight
  <2>1. day' \in Dates
    BY <1>0, <1>8, BoundsAssumption DEF Midnight, Dates
  <2> QED
    BY <1>8, <2>1 DEF Midnight, TypeOK
<1>9. CASE UNCHANGED vars
  BY <1>9 DEF vars, TypeOK
<1> QED
  BY <1>1, <1>2, <1>3, <1>4, <1>5, <1>6, <1>7, <1>8, <1>9 DEF Next

\* It is typed at the start.
LEMMA TriggerInit == Init => TypeOK
<1> SUFFICES ASSUME Init PROVE TypeOK
  OBVIOUS
<1>1. 0 \in Dates /\ ready \in [Dates -> Nat]
  BY BoundsAssumption DEF Init, Dates
<1>2. timer \in BOOLEAN /\ ~timer
  BY DEF Init
<1> QED
  BY <1>1, <1>2 DEF Init, TypeOK

\* At any time, what the trigger keeps has its type: whatever is pending, running or
\* last reported is a date or None, and no date is None.
THEOREM TriggerTyped == Spec => []TypeOK
  BY TriggerInit, TriggerTypes, PTL DEF Spec

-----------------------------------------------------------------------------
(* The chain of models, with the constants that SupervisorParts gives it *)

\* The state within its bounds, with the length of the chain that a call or a cached
\* result was made for.
Chain == 0..2
Failure == [n : 0..4, last : Models!Outcomes \cup {"none"}]
Entry == [len : Chain, left : 0..2]
Call == [w : Windows \cup {"none"}, len : Chain, tried : Seq(Models!Outcomes), old : BOOLEAN]
ModelsOk ==
    /\ len \in Chain /\ cooling \in [Models!Models -> 0..3] /\ fails \in [Models!Models -> Failure]
    /\ call \in Call /\ Len(call.tried) <= call.len
    /\ cache \in [Windows -> Entry]
    /\ result \in {"none", "rules", "cache", "ai"} /\ updates \in 0..1

\* A model cools down no longer than the longest delay, however often it failed.
LEMMA DelayFacts ==
    ASSUME NEW o, NEW n \in 0..4, NEW d \in Models!Delays(o, n + 1)
    PROVE  d \in 0..3
<1>1. Models!Backoff(n + 1) \in 0..3
  <2>1. CASE n = 0
    BY <2>1 DEF Models!Backoff
  <2>2. CASE n # 0
    <3>1. Models!Min2((n + 1) - 1, 2) \in 1..2
      BY <2>2 DEF Models!Min2
    <3>2. Models!Backoff(n + 1) = 2 ^ (Models!Min2((n + 1) - 1, 2) - 1)
      BY <2>2 DEF Models!Backoff
    <3>3. 2 ^ 0 = 1 /\ 2 ^ 1 = 2
      OBVIOUS
    <3> DEFINE shift == Models!Min2((n + 1) - 1, 2) - 1
    <3>4. shift = 0 \/ shift = 1
      BY <3>1
    <3>5. Models!Backoff(n + 1) = 2 ^ shift
      BY <3>2
    <3> HIDE DEF shift
    <3>6. Models!Backoff(n + 1) = 2 ^ 0 \/ Models!Backoff(n + 1) = 2 ^ 1
      BY <3>4, <3>5, Zenon
    <3> QED
      BY <3>3, <3>6
  <2> QED
    BY <2>1, <2>2
<1> QED
  BY <1>1 DEF Models!Delays

\* What is recorded of an attempt keeps its type, also of a model that an update of
\* the settings removed.
LEMMA RecordedTypes ==
    ASSUME ModelsOk, NEW i, NEW o \in Models!Outcomes, Models!Recorded(i, o)
    PROVE  cooling' \in [Models!Models -> 0..3] /\ fails' \in [Models!Models -> Failure]
<1>1. cooling \in [Models!Models -> 0..3] /\ fails \in [Models!Models -> Failure]
  BY DEF ModelsOk
<1>2. CASE UNCHANGED <<cooling, fails>>
  BY <1>1, <1>2
<1>3. CASE cooling' = [cooling EXCEPT ![i] = 0] /\ fails' = [fails EXCEPT ![i] = Models!NoFailure]
  <2> DEFINE none == Models!NoFailure
  <2>1. none \in Failure
    BY DEF Models!NoFailure, Failure
  <2>2. fails' = [fails EXCEPT ![i] = none]
    BY <1>3
  <2> HIDE DEF none
  <2>3. fails' \in [Models!Models -> Failure]
    BY <1>1, <2>1, <2>2
  <2>4. cooling' \in [Models!Models -> 0..3]
    <3>1. \A j \in Models!Models : cooling[j] \in 0..3 /\ cooling'[j] \in {cooling[j], 0}
      BY <1>1, <1>3
    <3>2. DOMAIN cooling' = Models!Models /\ cooling' = [j \in Models!Models |-> cooling'[j]]
      BY <1>1, <1>3
    <3>3. \A j \in Models!Models : cooling'[j] \in 0..3
      BY <3>1
    <3> QED
      BY <3>2, <3>3
  <2> QED
    BY <2>3, <2>4
<1>4. CASE /\ fails' = [fails EXCEPT ![i] = [n |-> Models!Min2(@.n + 1, 2 + 2), last |-> o]]
           /\ \E d \in Models!Delays(o, fails[i].n + 1) : cooling' = [cooling EXCEPT ![i] = d]
  <2>1. CASE i \notin Models!Models
    BY <1>1, <1>4, <2>1
  <2>2. CASE i \in Models!Models
    <3>1. fails[i].n \in 0..4
      BY <1>1, <2>2 DEF Failure
    <3>2. Models!Min2(fails[i].n + 1, 2 + 2) \in 0..4
      BY <3>1 DEF Models!Min2
    <3>3. [n |-> Models!Min2(fails[i].n + 1, 2 + 2), last |-> o] \in Failure
      BY <3>2 DEF Failure
    <3>4. fails' \in [Models!Models -> Failure]
      BY <1>1, <1>4, <2>2, <3>3
    <3>5. PICK d \in Models!Delays(o, fails[i].n + 1) : cooling' = [cooling EXCEPT ![i] = d]
      BY <1>4
    <3>6. d \in 0..3
      BY <3>1, DelayFacts
    <3> QED
      BY <1>1, <3>4, <3>5, <3>6
  <2> QED
    BY <2>1, <2>2
<1>5. CASE call.old
  BY <1>2, <1>5 DEF Models!Recorded
<1>6. CASE ~call.old /\ o \in {"answer", "unsure"}
  BY <1>3, <1>6 DEF Models!Recorded
<1>7. CASE ~call.old /\ o \notin {"answer", "unsure"}
  <2>1. fails' = [fails EXCEPT ![i] = [n |-> Models!Min2(@.n + 1, 2 + 2), last |-> o]]
    BY <1>7 DEF Models!Recorded
  <2>2. \E d \in Models!Delays(o, fails[i].n + 1) : cooling' = [cooling EXCEPT ![i] = d]
    BY <1>7, Zenon DEF Models!Recorded
  <2> QED
    BY <1>4, <2>1, <2>2
<1> QED
  BY <1>5, <1>6, <1>7

\* No call, and a call under way, have a chain and the outcomes of its models.
LEMMA CallFacts ==
    ASSUME ModelsOk
    PROVE  /\ Models!NoCall \in Call /\ Len(Models!NoCall.tried) <= Models!NoCall.len
           /\ call.len \in Chain /\ call.tried \in Seq(Models!Outcomes) /\ Len(call.tried) \in Nat
<1>1. <<>> \in Seq(Models!Outcomes) /\ Len(<<>>) = 0
  OBVIOUS
<1>2. Models!NoCall \in Call
  BY <1>1 DEF Models!NoCall, Call, Chain
<1>3. Len(Models!NoCall.tried) <= Models!NoCall.len
  BY <1>1 DEF Models!NoCall
<1>4. call.len \in Chain /\ call.tried \in Seq(Models!Outcomes)
  BY DEF ModelsOk, Call
<1>5. Len(call.tried) \in Nat
  BY <1>4
<1> QED
  BY <1>2, <1>3, <1>4, <1>5

\* A failed attempt asks the next model, of which there is one, or leaves the answer
\* to the rules.
LEMMA FailTypes ==
    ASSUME ModelsOk, NEW o \in Models!Outcomes, Models!Fail(o)
    PROVE  /\ call' \in Call /\ Len(call'.tried) <= call'.len /\ cache' = cache
           /\ result' \in {"none", "rules", "cache", "ai"}
<1>1. CASE Models!Asked < call.len /\ call' = [call EXCEPT !.tried = Append(@, o)] /\ UNCHANGED result
  <2> DEFINE q == Append(call.tried, o)
  <2>1. q \in Seq(Models!Outcomes) /\ Len(q) = Len(call.tried) + 1
    BY CallFacts
  <2> HIDE DEF q
  <2>2. call' = [call EXCEPT !.tried = q]
    BY <1>1 DEF q
  <2>3. call' \in Call /\ call'.tried = q /\ call'.len = call.len
    BY <2>1, <2>2 DEF ModelsOk, Call
  <2>4. Len(q) <= call.len
    BY <1>1, <2>1, CallFacts DEF Models!Asked, Chain
  <2> QED
    BY <1>1, <2>3, <2>4 DEF Models!Fail, ModelsOk
<1>2. CASE call' = Models!NoCall /\ result' = "rules"
  BY <1>2, CallFacts DEF Models!Fail
<1> QED
  BY <1>1, <1>2 DEF Models!Fail

\* Every step of a classification, an update and the clock keeps the types.
LEMMA ModelsTypes == ModelsOk /\ [Models!Next]_(Models!vars) => ModelsOk'
<1> SUFFICES ASSUME ModelsOk, [Models!Next]_(Models!vars) PROVE ModelsOk'
  OBVIOUS
<1>1. ASSUME NEW w \in Windows, Models!Classify(w) PROVE ModelsOk'
  <2>1. UNCHANGED <<len, cooling, fails, cache, updates>>
    BY <1>1 DEF Models!Classify
  <2>2. result' \in {"none", "rules", "cache", "ai"}
    BY <1>1 DEF Models!Classify, ModelsOk
  <2>3. call' \in Call /\ Len(call'.tried) <= call'.len
    <3>1. CASE call' = call
      BY <3>1 DEF ModelsOk
    <3>2. CASE call' = [w |-> w, len |-> len, tried |-> <<>>, old |-> FALSE]
      <4>1. <<>> \in Seq(Models!Outcomes) /\ Len(<<>>) = 0
        OBVIOUS
      <4>2. len \in Chain /\ FALSE \in BOOLEAN
        BY DEF ModelsOk
      <4>3. call' \in Call
        BY <3>2, <4>1, <4>2 DEF Call
      <4>4. call'.tried = <<>> /\ call'.len = len
        BY <3>2
      <4> QED
        BY <4>1, <4>2, <4>3, <4>4 DEF Chain
    <3> QED
      BY <1>1, <3>1, <3>2 DEF Models!Classify
  <2> QED
    BY <2>1, <2>2, <2>3 DEF ModelsOk
<1>2. CASE Models!Attempt
  <2>1. PICK o \in Models!Outcomes :
          /\ Models!Recorded(Models!Asked, o)
          /\ IF o \in {"answer", "unsure"} THEN Models!Answer(o) ELSE Models!Fail(o)
    BY <1>2 DEF Models!Attempt
  <2>2. cooling' \in [Models!Models -> 0..3] /\ fails' \in [Models!Models -> Failure]
    BY <2>1, RecordedTypes
  <2>3. CASE Models!Answer(o)
    <3>1. call' \in Call /\ Len(call'.tried) <= call'.len /\ result' \in {"none", "rules", "cache", "ai"}
      BY <2>3, CallFacts DEF Models!Answer
    <3>2. cache' \in [Windows -> Entry]
      <4>1. CASE cache' = cache
        BY <4>1 DEF ModelsOk
      <4>2. CASE cache' = [cache EXCEPT ![call.w] = [len |-> call.len, left |-> 2]]
        <5>1. [len |-> call.len, left |-> 2] \in Entry
          BY CallFacts DEF Entry
        <5> QED
          BY <4>2, <5>1 DEF ModelsOk
      <4> QED
        BY <2>3, <4>1, <4>2 DEF Models!Answer
    <3> QED
      BY <1>2, <2>2, <3>1, <3>2 DEF Models!Attempt, ModelsOk
  <2>4. CASE Models!Fail(o)
    BY <1>2, <2>2, <2>4, FailTypes DEF Models!Attempt, ModelsOk
  <2> QED
    BY <2>1, <2>3, <2>4
<1>3. CASE Models!Refused
  <2>1. "transport" \in Models!Outcomes
    BY DEF Models!Outcomes, Models!OtherFailures
  <2> QED
    BY <1>3, <2>1, FailTypes DEF Models!Refused, ModelsOk
<1>4. CASE Models!Cancelled
  <2>1. PICK o \in Models!Outcomes : Models!Recorded(Models!Asked, o)
    BY <1>4 DEF Models!Cancelled, Models!Outcomes, Models!OtherFailures
  <2>2. cooling' \in [Models!Models -> 0..3] /\ fails' \in [Models!Models -> Failure]
    BY <2>1, RecordedTypes
  <2> QED
    BY <1>4, <2>2, CallFacts DEF Models!Cancelled, ModelsOk
<1>5. ASSUME NEW n \in 0..2, Models!UpdateAI(n) PROVE ModelsOk'
  <2>1. /\ updates' \in 0..1 /\ len' \in Chain /\ UNCHANGED <<cache, result>>
    BY <1>5 DEF Models!UpdateAI, ModelsOk, Chain
  <2>2. cooling' \in [Models!Models -> 0..3]
    BY <1>5 DEF Models!UpdateAI, Models!NotCooling
  <2>3. fails' \in [Models!Models -> Failure]
    <3>1. Models!NoFailure \in Failure
      BY DEF Models!NoFailure, Failure
    <3> QED
      BY <1>5, <3>1 DEF Models!UpdateAI, Models!NotFailed
  <2>4. call' \in Call /\ call'.tried = call.tried /\ call'.len = call.len
    <3> DEFINE calling == Models!Calling
    <3>1. calling \in BOOLEAN
      BY DEF Models!Calling
    <3>2. call' = [call EXCEPT !.old = calling]
      BY <1>5 DEF Models!UpdateAI
    <3> HIDE DEF calling
    <3> QED
      BY <3>1, <3>2 DEF ModelsOk, Call
  <2> QED
    BY <2>1, <2>2, <2>3, <2>4 DEF ModelsOk
<1>6. CASE Models!Tick
  <2>1. UNCHANGED <<len, fails, call, result, updates>>
    BY <1>6 DEF Models!Tick
  <2>2. cooling' \in [Models!Models -> 0..3]
    <3>1. ASSUME NEW i \in Models!Models PROVE Models!Lower(cooling[i]) \in 0..3
      BY DEF ModelsOk, Models!Lower
    <3> QED
      BY <1>6, <3>1 DEF Models!Tick
  <2>3. cache' \in [Windows -> Entry]
    <3>1. ASSUME NEW w \in Windows
          PROVE  (IF cache[w].left <= 1 THEN Models!Uncached ELSE [cache[w] EXCEPT !.left = @ - 1])
                   \in Entry
      <4>1. cache[w] \in Entry /\ Models!Uncached \in Entry
        BY DEF ModelsOk, Models!Uncached, Entry, Chain
      <4>2. CASE ~(cache[w].left <= 1)
        <5>1. cache[w].left - 1 \in 0..2
          BY <4>1, <4>2 DEF Entry
        <5> QED
          BY <4>1, <4>2, <5>1 DEF Entry
      <4> QED
        BY <4>1, <4>2
    <3> QED
      BY <1>6, <3>1 DEF Models!Tick
  <2> QED
    BY <2>1, <2>2, <2>3 DEF ModelsOk
<1>7. CASE UNCHANGED Models!vars
  BY <1>7 DEF Models!vars, ModelsOk
<1> QED
  BY <1>1, <1>2, <1>3, <1>4, <1>5, <1>6, <1>7 DEF Models!Next

\* At any time, no call has asked more models than its chain has, and no model cools
\* down longer than the longest delay.
THEOREM ModelsTyped == Models!Spec => []Models!TypeOK
<1>1. Models!Init => ModelsOk
  <2> SUFFICES ASSUME Models!Init PROVE ModelsOk
    OBVIOUS
  <2>1. /\ Models!NoFailure \in Failure /\ Models!Uncached \in Entry
    BY DEF Models!NoFailure, Failure, Models!Uncached, Entry, Chain
  <2>2. cooling \in [Models!Models -> 0..3] /\ fails \in [Models!Models -> Failure]
    BY <2>1 DEF Models!Init, Models!NotCooling, Models!NotFailed
  <2>3. call \in Call /\ Len(call.tried) <= call.len
    <3>1. <<>> \in Seq(Models!Outcomes) /\ Len(<<>>) = 0
      OBVIOUS
    <3>2. call = [w |-> "none", len |-> 0, tried |-> <<>>, old |-> FALSE]
      BY DEF Models!Init, Models!NoCall
    <3>3. call \in Call
      BY <3>1, <3>2 DEF Call, Chain
    <3> QED
      BY <3>1, <3>2, <3>3
  <2> QED
    BY <2>1, <2>2, <2>3 DEF Models!Init, ModelsOk, Chain
<1>2. ModelsOk => Models!TypeOK
  <2> SUFFICES ASSUME ModelsOk PROVE Models!TypeOK
    OBVIOUS
  <2>1. Models!Longest = 3
    BY DEF Models!Longest
  <2>2. cooling \in [Models!Models -> Nat] /\ \A i \in Models!Models : cooling[i] <= Models!Longest
    BY <2>1 DEF ModelsOk
  <2>3. call.w \in Windows \cup {"none"} /\ call.len \in 0..2 /\ Len(call.tried) <= call.len
    BY DEF ModelsOk, Call, Chain
  <2>4. \A w \in Windows : cache[w].left \in 0..2
    BY DEF ModelsOk, Entry
  <2> QED
    BY <2>2, <2>3, <2>4 DEF ModelsOk, Models!TypeOK, Chain, Failure
<1> QED
  BY <1>1, <1>2, ModelsTypes, PTL DEF Models!Spec

-----------------------------------------------------------------------------
(***************************************************************************)
(* The parts.  A second instance of a part's module, with the facts proved *)
(* of it, has the same substitution as the instance in SupervisorParts, so *)
(* that with every definition expanded the two say the same.               *)
(***************************************************************************)

Record == INSTANCE RecordProofs
        WITH day <- today, slips <- mishaps, Reward <- 1, Cost <- 1, Rate <- 2, Hour <- 3,
             Wishes <- {1, 2}, CheckinAt <- 1, MaxDay <- 1, MaxFocus <- 1, MaxSets <- 1,
             MaxRedeem <- 3, MaxSlips <- 1,
             Goal <- [a \in {"FIRST_30", "DAILY_120", "STREAK", "WEEK_600", "MISSION_10",
                             "COMEBACK"} |-> Goals(a)],
             troubles <- requests, MaxTurns <- 2, MaxV <- 2, MaxQueue <- 2, MaxTroubles <- 2,
             cfg <- config, saves <- edits,
             MaxKeys <- 3, MaxSaves <- 1, MaxFaults <- 2, MaxStarts <- 3
Watch == INSTANCE WatchProofs
        WITH st <- rhythm, mode <- userMode, mdate <- modeDate, day <- date, done <- credit,
             faults <- losses, starts <- boots,
             FocusFor <- 3, LongAfter <- 4, ShortFor <- 1, LongFor <- 2, SnoozeFor <- 1,
             MaxSnoozes <- 1, Refusal <- 2, Repeat <- 2, Idle <- 2,
             MaxUse <- 6, MaxFaults <- 2, MaxStarts <- 1,
             current <- mode, Warn <- 1, Strong <- 2, Active <- 2, Cooldown <- 1, Again <- 2,
             RecoveryFor <- 1, MaxCount <- 2, MaxSettings <- 1,
             snapshots <- rows, watched <- seen, Keys <- Activities, StableFor <- 2,
             MinPersist <- 3, Heartbeat <- 5, MaxClock <- 8, MaxStep <- 2, MaxSlips <- 1,
             MaxBroken <- 1, MaxBoots <- 1,
             FailureThreshold <- 3, FailureWindow <- 4, RecoverySuccesses <- 2,
             DistractedFor <- 2, RecoveredFor <- 2, UnknownFor <- 3, DayEnds <- 6,
             MaxNow <- 9, MaxGap <- 2, MaxEvents <- 3, MaxFailing <- 2, MaxLaunches <- 2,
             Configs <- {Settings, [Settings EXCEPT !.allow = FALSE, !.unclassified = 4]},
             MaxSamples <- 3, MaxBetween <- 2, MaxBack <- 1, MaxSaves <- 1, MaxRestarts <- 1

\* AISettings, instantiated twice.
LEMMA SameSettings ==
    /\ AI!Init = Record!K!Init
    /\ AI!Next = Record!K!Next
    /\ AI!vars = Record!K!vars
    /\ AI!KeyIsKept = Record!K!KeyIsKept
    /\ AI!DeletedStaysDeleted = Record!K!DeletedStaysDeleted
<1>1. AI!Init = Record!K!Init
  BY DEF AI!Base, Record!K!Base, AI!Init, Record!K!Init, AI!LegacyKey,
         Record!K!LegacyKey, AI!NoRow, Record!K!NoRow, AI!None, Record!K!None,
         AI!Refs, Record!K!Refs, AI!Targets, Record!K!Targets
<1>2. AI!vars = Record!K!vars
  BY DEF AI!vars, Record!K!vars
<1>3. AI!KeyIsKept = Record!K!KeyIsKept
  BY DEF AI!HasKey, Record!K!HasKey, AI!KeyIsKept, Record!K!KeyIsKept, AI!None,
         Record!K!None
<1>4. AI!DeletedStaysDeleted = Record!K!DeletedStaysDeleted
  BY DEF AI!DeletedStaysDeleted, Record!K!DeletedStaysDeleted, AI!Env,
         Record!K!Env, AI!NeedsRewrite, Record!K!NeedsRewrite, AI!None,
         Record!K!None
<1>5. AI!Load = Record!K!Load
  BY DEF AI!Base, Record!K!Base, AI!Decoded, Record!K!Decoded, AI!Fault,
         Record!K!Fault, AI!Load, Record!K!Load, AI!NeedsRewrite,
         Record!K!NeedsRewrite, AI!None, Record!K!None, AI!Readable,
         Record!K!Readable, AI!RunOnBase, Record!K!RunOnBase, AI!Targets,
         Record!K!Targets
<1>6. AI!Secret = Record!K!Secret
  BY DEF AI!Base, Record!K!Base, AI!Fault, Record!K!Fault, AI!KeptOrWritten,
         Record!K!KeptOrWritten, AI!None, Record!K!None, AI!RunOnBase,
         Record!K!RunOnBase, AI!Secret, Record!K!Secret, AI!Targets,
         Record!K!Targets
<1>7. AI!Rewrite = Record!K!Rewrite
  BY DEF AI!Base, Record!K!Base, AI!Canonical, Record!K!Canonical, AI!Fault,
         Record!K!Fault, AI!None, Record!K!None, AI!Rewrite, Record!K!Rewrite,
         AI!RunOnBase, Record!K!RunOnBase, AI!Targets, Record!K!Targets
<1>8. AI!Boot = Record!K!Boot
  BY DEF AI!Apply, Record!K!Apply, AI!Boot, Record!K!Boot, AI!Built,
         Record!K!Built, AI!Env, Record!K!Env, AI!None, Record!K!None, AI!Resolve,
         Record!K!Resolve, AI!Targets, Record!K!Targets
<1>9. AI!Save = Record!K!Save
  BY DEF AI!Save, Record!K!Save
<1>10. AI!Persist = Record!K!Persist
  BY DEF AI!Apply, Record!K!Apply, AI!Built, Record!K!Built, AI!Canonical,
         Record!K!Canonical, AI!Deleted, Record!K!Deleted, AI!Env, Record!K!Env,
         AI!Fault, Record!K!Fault, AI!None, Record!K!None, AI!Persist,
         Record!K!Persist, AI!Persisted, Record!K!Persisted, AI!Resolve,
         Record!K!Resolve, AI!Targets, Record!K!Targets
<1>11. \A t : AI!PutSecret(t) = Record!K!PutSecret(t)
  BY DEF AI!PutSecret, Record!K!PutSecret
<1>12. \A t : AI!DeleteSecret(t) = Record!K!DeleteSecret(t)
  BY DEF AI!DeleteSecret, Record!K!DeleteSecret, AI!Fault, Record!K!Fault,
         AI!None, Record!K!None
<1>13. AI!Crash = Record!K!Crash
  BY DEF AI!Base, Record!K!Base, AI!Crash, Record!K!Crash, AI!None, Record!K!None,
         AI!Targets, Record!K!Targets
<1>14. AI!Next = Record!K!Next
  BY <1>5, <1>6, <1>7, <1>8, <1>9, <1>10, <1>11, <1>12, <1>13
  DEF AI!Next, Record!K!Next, AI!Targets, Record!K!Targets
<1> QED
  BY <1>1, <1>14, <1>2, <1>3, <1>4

\* EyeCareRhythm, instantiated twice.
LEMMA SameRhythm ==
    /\ Rhythm!YInit = Watch!YInit
    /\ Rhythm!YNext = Watch!YNext
    /\ Rhythm!yvars = Watch!yvars
    /\ Rhythm!EarnedDue = Watch!EarnedDue
    /\ Rhythm!DueIsTold = Watch!DueIsTold
<1>1. Rhythm!YInit = Watch!YInit
  BY DEF Rhythm!YInit, Watch!YInit
<1>2. Rhythm!yvars = Watch!yvars
  BY DEF Rhythm!yvars, Watch!yvars
<1>3. Rhythm!EarnedDue = Watch!EarnedDue
  BY DEF Rhythm!EarnedDue, Watch!EarnedDue, Rhythm!NewlyDue,
         Watch!NewlyDue
<1>4. Rhythm!DueIsTold = Watch!DueIsTold
  BY DEF Rhythm!Due, Watch!Due, Rhythm!DueIsTold, Watch!DueIsTold
<1>5. \A s, time : Rhythm!After(s, time) = Watch!After(s, time)
  BY DEF Rhythm!After, Watch!After, Rhythm!Left, Watch!Left
<1>6. \A s, m : Rhythm!Advanced(s, m) = Watch!Advanced(s, m)
  BY DEF Rhythm!Aborted, Watch!Aborted, Rhythm!Advanced,
         Watch!Advanced, Rhythm!Closed, Watch!Closed, Rhythm!Due,
         Watch!Due, Rhythm!NewDay, Watch!NewDay, Rhythm!Refused,
         Watch!Refused, Rhythm!Rested, Watch!Rested, Rhythm!Resting,
         Watch!Resting, Rhythm!Settled, Watch!Settled, Rhythm!Woken,
         Watch!Woken
<1>7. \A s, m : Rhythm!Noted(s, m) = Watch!Noted(s, m)
  BY DEF Rhythm!Aborted, Watch!Aborted, Rhythm!Due, Watch!Due,
         Rhythm!NewDay, Watch!NewDay, Rhythm!Noted, Watch!Noted,
         Rhythm!Rested, Watch!Rested
<1>8. \A s, h, input : Rhythm!Record(s, h, input) = Watch!Record(s, h, input)
  BY DEF Rhythm!Closed, Watch!Closed, Rhythm!Credited,
         Watch!Credited, Rhythm!Due, Watch!Due, Rhythm!Fault,
         Watch!Fault, Rhythm!Interrupt, Watch!Interrupt,
         Rhythm!More, Watch!More, Rhythm!Record, Watch!Record,
         Rhythm!Repaid, Watch!Repaid, Rhythm!Resting, Watch!Resting,
         Rhythm!Smaller, Watch!Smaller, Rhythm!Use, Watch!Use
<1>9. \A input : Rhythm!Tick(input) = Watch!Tick(input)
  BY <1>5, <1>6, <1>7, <1>8 DEF Rhythm!Smaller, Watch!Smaller,
         Rhythm!Tick, Watch!Tick
<1>10. Rhythm!Midnight = Watch!Midnight
  BY DEF Rhythm!Midnight, Watch!Midnight
<1>11. Rhythm!Poll = Watch!Poll
  <2>1. Rhythm!Advanced(rhythm, userMode) = Watch!Advanced(rhythm, userMode)
    BY <1>6
  <2>2. Rhythm!Noted(rhythm, userMode) = Watch!Noted(rhythm, userMode)
    BY <1>7
  <2> QED
    BY <2>1, <2>2 DEF Rhythm!Poll, Watch!Poll, Rhythm!Advance, Watch!Advance
<1>12. Rhythm!Claim = Watch!Claim
  <2>1. Rhythm!Advanced(rhythm, userMode) = Watch!Advanced(rhythm, userMode)
    BY <1>6
  <2>2. Rhythm!Noted(rhythm, userMode) = Watch!Noted(rhythm, userMode)
    BY <1>7
  <2> QED
    BY <2>1, <2>2 DEF Rhythm!Claim, Watch!Claim, Rhythm!Due, Watch!Due
<1>13. Rhythm!Act = Watch!Act
  BY DEF Rhythm!Aborted, Watch!Aborted, Rhythm!Act, Watch!Act,
         Rhythm!Advanced, Watch!Advanced, Rhythm!Closed,
         Watch!Closed, Rhythm!Due, Watch!Due, Rhythm!NewDay,
         Watch!NewDay, Rhythm!RefuseNow, Watch!RefuseNow,
         Rhythm!Refused, Watch!Refused, Rhythm!Rested, Watch!Rested,
         Rhythm!Resting, Watch!Resting, Rhythm!Settled,
         Watch!Settled, Rhythm!Snoozed, Watch!Snoozed, Rhythm!Woken,
         Watch!Woken
<1>14. Rhythm!Switch = Watch!Switch
  BY DEF Rhythm!Resting, Watch!Resting, Rhythm!Switch, Watch!Switch
<1>15. \A m : Rhythm!SetMode(m) = Watch!SetMode(m)
  BY DEF Rhythm!SetMode, Watch!SetMode
<1>16. \A time : Rhythm!Restart(time) = Watch!Restart(time)
  BY <1>5, <1>6, <1>7 DEF Rhythm!Restart, Watch!Restart
<1>17. Rhythm!YNext = Watch!YNext
  BY <1>9, <1>10, <1>11, <1>12, <1>13, <1>14, <1>15, <1>16
  DEF Rhythm!YNext, Watch!YNext
<1> QED
  BY <1>1, <1>17, <1>2, <1>3, <1>4

\* MotivationLedger, instantiated twice.
LEMMA SameMotivation ==
    /\ Motivation!MInit = Record!MInit
    /\ Motivation!MNext = Record!MNext
    /\ Motivation!mvars = Record!mvars
    /\ Motivation!ToldOnce = Record!ToldOnce
    /\ Motivation!LedgerAddsUp = Record!LedgerAddsUp
<1>1. Motivation!MInit = Record!MInit
  BY DEF Motivation!Achievements, Record!Achievements, Motivation!Actors,
         Record!Actors, Motivation!Days, Record!Days, Motivation!Kinds,
         Record!Kinds, Motivation!MInit, Record!MInit,
         Motivation!NoRecord, Record!NoRecord, Motivation!NoTick,
         Record!NoTick, Motivation!Unset, Record!Unset
<1>2. Motivation!mvars = Record!mvars
  BY DEF Motivation!mvars, Record!mvars
<1>3. Motivation!ToldOnce = Record!ToldOnce
  BY DEF Motivation!Achievements, Record!Achievements, Motivation!Days,
         Record!Days, Motivation!Kinds, Record!Kinds, Motivation!ToldOnce,
         Record!ToldOnce
<1>4. \A dates : Motivation!FocusOn(dates) = Record!FocusOn(dates)
  BY DEF Motivation!Days, Record!Days, Motivation!FocusOn, Record!FocusOn,
         Motivation!FoldFunctionOnSet, Record!FoldFunctionOnSet,
         Motivation!MapThenFoldSet, Record!MapThenFoldSet,
         Motivation!SumFunctionOnSet, Record!SumFunctionOnSet
<1>5. Motivation!Distracted = Record!Distracted
  BY DEF Motivation!Distracted, Record!Distracted
<1>6. Motivation!NotEligible = Record!NotEligible
  BY DEF Motivation!NotEligible, Record!NotEligible
<1>7. Motivation!ReadTarget = Record!ReadTarget
  BY DEF Motivation!Default, Record!Default, Motivation!Min, Record!Min,
         Motivation!ReadTarget, Record!ReadTarget, Motivation!Unset,
         Record!Unset
<1>8. Motivation!Credit = Record!Credit
  BY DEF Motivation!Credit, Record!Credit, Motivation!NoTick,
         Record!NoTick, Motivation!Slip, Record!Slip, Motivation!Unset,
         Record!Unset
<1>9. Motivation!AfterCredit = Record!AfterCredit
  BY DEF Motivation!Achievements, Record!Achievements,
         Motivation!AfterCredit, Record!AfterCredit, Motivation!Announce,
         Record!Announce, Motivation!Cardinality, Record!Cardinality,
         Motivation!Days, Record!Days, Motivation!FocusOn, Record!FocusOn,
         Motivation!FoldFunctionOnSet, Record!FoldFunctionOnSet,
         Motivation!Kinds, Record!Kinds, Motivation!MapThenFoldSet,
         Record!MapThenFoldSet, Motivation!Max, Record!Max,
         Motivation!NoTick, Record!NoTick, Motivation!Reached,
         Record!Reached, Motivation!Slip, Record!Slip, Motivation!Streak,
         Record!Streak, Motivation!SumFunctionOnSet,
         Record!SumFunctionOnSet, Motivation!Unset, Record!Unset
<1>10. \A p, a : Motivation!Unlock(p, a) = Record!Unlock(p, a)
  BY DEF Motivation!Achievements, Record!Achievements, Motivation!Announce,
         Record!Announce, Motivation!Days, Record!Days, Motivation!Kinds,
         Record!Kinds, Motivation!NewlyUnlocked, Record!NewlyUnlocked,
         Motivation!Slip, Record!Slip, Motivation!Unlock, Record!Unlock
<1>11. \A t : Motivation!SetDailyTarget(t) = Record!SetDailyTarget(t)
  BY DEF Motivation!DayWithTarget, Record!DayWithTarget,
         Motivation!SetDailyTarget, Record!SetDailyTarget
<1>12. \A m : Motivation!CreateMission(m) = Record!CreateMission(m)
  BY DEF Motivation!CreateMission, Record!CreateMission
<1>13. \A m : Motivation!CompleteMission(m) = Record!CompleteMission(m)
  BY DEF Motivation!CompleteMission, Record!CompleteMission
<1>14. \A m : Motivation!AfterComplete(m) = Record!AfterComplete(m)
  BY DEF Motivation!Achievements, Record!Achievements,
         Motivation!AfterComplete, Record!AfterComplete, Motivation!Announce,
         Record!Announce, Motivation!Cardinality, Record!Cardinality,
         Motivation!Days, Record!Days, Motivation!FocusOn, Record!FocusOn,
         Motivation!FoldFunctionOnSet, Record!FoldFunctionOnSet,
         Motivation!Kinds, Record!Kinds, Motivation!MapThenFoldSet,
         Record!MapThenFoldSet, Motivation!Max, Record!Max,
         Motivation!Reached, Record!Reached, Motivation!Slip, Record!Slip,
         Motivation!Streak, Record!Streak, Motivation!SumFunctionOnSet,
         Record!SumFunctionOnSet
<1>15. \A m : Motivation!CancelMission(m) = Record!CancelMission(m)
  BY DEF Motivation!CancelMission, Record!CancelMission,
         Motivation!OpenMission, Record!OpenMission
<1>16. Motivation!Balance = Record!Balance
  BY <1>4 DEF Motivation!Balance, Record!Balance, Motivation!Cardinality,
         Record!Cardinality, Motivation!Days, Record!Days
<1>17. Motivation!RedeemReward = Record!RedeemReward
  BY <1>16 DEF Motivation!RedeemReward, Record!RedeemReward
<1>18. Motivation!Midnight = Record!Midnight
  BY DEF Motivation!Midnight, Record!Midnight
<1>19. Motivation!Die = Record!Die
  BY DEF Motivation!Actors, Record!Actors, Motivation!Die, Record!Die,
         Motivation!NoTick, Record!NoTick, Motivation!Slip, Record!Slip,
         Motivation!Unset, Record!Unset
<1>20. Motivation!MNext = Record!MNext
  BY <1>5, <1>6, <1>7, <1>8, <1>9, <1>10, <1>11, <1>12, <1>13, <1>14, <1>15,
     <1>17, <1>18, <1>19
  DEF Motivation!MNext, Record!MNext, Motivation!Achievements,
      Record!Achievements, Motivation!Actors, Record!Actors
<1>21. Motivation!LedgerAddsUp = Record!LedgerAddsUp
  BY <1>16 DEF Motivation!LedgerAddsUp, Record!LedgerAddsUp
<1> QED
  BY <1>1, <1>20, <1>21, <1>2, <1>3

\* CollectorDelivery, instantiated twice: the page and the worker,
LEMMA SameWorker ==
    /\ \A t : Collector!Grow(t) = Record!C!Grow(t)
    /\ Collector!Scan = Record!C!Scan
    /\ Collector!Build = Record!C!Build
    /\ Collector!FlushHead = Record!C!FlushHead
    /\ Collector!PostCurrent = Record!C!PostCurrent
    /\ Collector!Answer = Record!C!Answer
    /\ Collector!AckHead = Record!C!AckHead
    /\ Collector!Enqueue = Record!C!Enqueue
    /\ Collector!Disconnect = Record!C!Disconnect
    /\ Collector!KillWorker = Record!C!KillWorker
<1>1. Collector!NoRequest = Record!C!NoRequest
  BY DEF Collector!NoRequest, Record!C!NoRequest
<1>2. Collector!Current = Record!C!Current
  BY DEF Collector!Current, Record!C!Current
<1>3. Collector!Finished = Record!C!Finished
  BY <1>2 DEF Collector!Finished, Record!C!Finished, Collector!Turns, Record!C!Turns
<1>4. \A p : Collector!Post(p) = Record!C!Post(p)
  BY DEF Collector!Post, Record!C!Post
<1>5. Collector!Trouble = Record!C!Trouble
  BY DEF Collector!Trouble, Record!C!Trouble
<1>6. Collector!Abandoned = Record!C!Abandoned
  BY <1>1 DEF Collector!Abandoned, Record!C!Abandoned, Collector!Interrupted,
              Record!C!Interrupted, Collector!Handling, Record!C!Handling
<1>7. \A t : Collector!Grow(t) = Record!C!Grow(t)
  BY DEF Collector!Grow, Record!C!Grow, Collector!tables, Record!C!tables
<1>8. Collector!Scan = Record!C!Scan
  BY DEF Collector!Candidates, Record!C!Candidates, Collector!Scan, Record!C!Scan,
         Collector!Turns, Record!C!Turns, Collector!tables, Record!C!tables
<1>9. Collector!Build = Record!C!Build
  BY <1>2 DEF Collector!Build, Record!C!Build, Collector!tables, Record!C!tables
<1>10. Collector!FlushHead = Record!C!FlushHead
  BY <1>4 DEF Collector!FlushHead, Record!C!FlushHead
<1>11. Collector!PostCurrent = Record!C!PostCurrent
  BY <1>2, <1>4 DEF Collector!PostCurrent, Record!C!PostCurrent
<1>12. Collector!Answer = Record!C!Answer
  BY <1>1, <1>3 DEF Collector!Answer, Record!C!Answer, Collector!tables, Record!C!tables
<1>13. Collector!AckHead = Record!C!AckHead
  BY DEF Collector!AckHead, Record!C!AckHead, Collector!tables, Record!C!tables
<1>14. Collector!Enqueue = Record!C!Enqueue
  BY <1>2, <1>3
  DEF Collector!Enqueue, Record!C!Enqueue, Collector!Final, Record!C!Final,
      Collector!Limited, Record!C!Limited, Collector!Min, Record!C!Min,
      Collector!RemoveAt, Record!C!RemoveAt, Collector!SelectInSeq, Record!C!SelectInSeq, Collector!tables,
      Record!C!tables
<1>15. Collector!Disconnect = Record!C!Disconnect
  BY <1>5, <1>6 DEF Collector!Disconnect, Record!C!Disconnect
<1>16. Collector!KillWorker = Record!C!KillWorker
  BY <1>5, <1>6 DEF Collector!KillWorker, Record!C!KillWorker
<1> QED
  BY <1>7, <1>8, <1>9, <1>10, <1>11, <1>12, <1>13, <1>14, <1>15, <1>16

\* the handler of its requests,
LEMMA SameHandler == Collector!Handle = Record!C!Handle
<1>1. Collector!NoRequest = Record!C!NoRequest
  BY DEF Collector!NoRequest, Record!C!NoRequest
<1>2. Collector!Trouble = Record!C!Trouble
  BY DEF Collector!Trouble, Record!C!Trouble
<1>3. \A s, pc : Collector!To(s, pc) = Record!C!To(s, pc)
  BY DEF Collector!To, Record!C!To
<1>4. \A s, pc : Collector!Reply(s, pc) = Record!C!Reply(s, pc)
  BY <1>1, <1>3 DEF Collector!Reply, Record!C!Reply
<1>5. \A s : Collector!ReadFlag(s) = Record!C!ReadFlag(s)
  BY <1>2, <1>3 DEF Collector!ReadFlag, Record!C!ReadFlag
<1>6. \A s : Collector!Ingest(s) = Record!C!Ingest(s)
  BY <1>2, <1>3, <1>4
  DEF Collector!Ingest, Record!C!Ingest, Collector!CountsNow, Record!C!CountsNow,
      Collector!Stored, Record!C!Stored, Collector!Final, Record!C!Final
<1>7. \A s : Collector!Bump(s) = Record!C!Bump(s)
  BY <1>2, <1>4 DEF Collector!Bump, Record!C!Bump
<1>8. Collector!Stop = Record!C!Stop
  BY <1>1 DEF Collector!Stop, Record!C!Stop, Collector!Interrupted, Record!C!Interrupted
<1> QED
  BY <1>5, <1>6, <1>7, <1>8
  DEF Collector!Handle, Record!C!Handle, Collector!Requests, Record!C!Requests

\* and with them the whole of it.
LEMMA SameCollector ==
    /\ Collector!DInit = Record!C!DInit
    /\ Collector!DNext = Record!C!DNext
    /\ Collector!dvars = Record!C!dvars
    /\ Collector!CountedOnce = Record!C!CountedOnce
<1>1. Collector!DInit = Record!C!DInit
  BY DEF Collector!Absent, Record!C!Absent, Collector!DInit, Record!C!DInit, Collector!Turns,
         Record!C!Turns, Collector!NoRequest, Record!C!NoRequest, Collector!Requests,
         Record!C!Requests
<1>2. Collector!dvars = Record!C!dvars
  BY DEF Collector!dvars, Record!C!dvars, Collector!tables, Record!C!tables
<1>3. Collector!CountedOnce = Record!C!CountedOnce
  BY DEF Collector!CountedOnce, Record!C!CountedOnce, Collector!Turns, Record!C!Turns,
         Collector!Requests, Record!C!Requests
<1>4. Collector!DNext = Record!C!DNext
  BY SameWorker, SameHandler DEF Collector!DNext, Record!C!DNext, Collector!Turns, Record!C!Turns
<1> QED
  BY <1>1, <1>2, <1>3, <1>4

\* SemanticSegments, instantiated twice.
LEMMA SameSemantic ==
    /\ Semantic!GInit = Watch!Sem!GInit
    /\ Semantic!GNext = Watch!Sem!GNext
    /\ Semantic!gvars = Watch!Sem!gvars
    /\ Semantic!NewRowIsStable = Watch!Sem!NewRowIsStable
<1>1. \A key, gap : Semantic!Observe(key, gap) = Watch!Sem!Observe(key, gap)
  BY DEF Semantic!Due, Watch!Sem!Due, Semantic!Earlier, Watch!Sem!Earlier, Semantic!Eligible,
         Watch!Sem!Eligible, Semantic!Never, Watch!Sem!Never, Semantic!None, Watch!Sem!None,
         Semantic!Observe, Watch!Sem!Observe, Semantic!Persist, Watch!Sem!Persist,
         Semantic!ResetPending, Watch!Sem!ResetPending, Semantic!Row, Watch!Sem!Row
<1>2. Semantic!SlipBack = Watch!Sem!SlipBack
  BY DEF Semantic!SlipBack, Watch!Sem!SlipBack
<1>3. Semantic!Restart = Watch!Sem!Restart
  BY DEF Semantic!Never, Watch!Sem!Never, Semantic!None, Watch!Sem!None, Semantic!Restart,
         Watch!Sem!Restart
<1>4. Semantic!GInit = Watch!Sem!GInit
  BY DEF Semantic!GInit, Watch!Sem!GInit, Semantic!Never, Watch!Sem!Never, Semantic!None,
         Watch!Sem!None
<1>5. Semantic!GNext = Watch!Sem!GNext
  BY <1>1, <1>2, <1>3
  DEF Semantic!GNext, Watch!Sem!GNext, Semantic!None, Watch!Sem!None
<1>6. Semantic!gvars = Watch!Sem!gvars
  BY DEF Semantic!gvars, Watch!Sem!gvars
<1>7. Semantic!NewRowIsStable = Watch!Sem!NewRowIsStable
  BY DEF Semantic!NewRowIsStable, Watch!Sem!NewRowIsStable
<1> QED
  BY <1>4, <1>5, <1>6, <1>7


\* ReminderEngine, instantiated twice.
LEMMA SameReminder ==
    /\ Reminder!RInit = Watch!Rem!RInit
    /\ Reminder!RNext = Watch!Rem!RNext
    /\ Reminder!rvars = Watch!Rem!rvars
    /\ Reminder!RemindedLater = Watch!Rem!RemindedLater
<1>1. \A m : Reminder!SetMode(m) = Watch!Rem!SetMode(m)
  BY DEF Reminder!Nothing, Watch!Rem!Nothing, Reminder!Quietly, Watch!Rem!Quietly,
         Reminder!SetMode, Watch!Rem!SetMode
<1>2. Reminder!NewDay = Watch!Rem!NewDay
  BY DEF Reminder!NewDay, Watch!Rem!NewDay, Reminder!Nothing, Watch!Rem!Nothing,
         Reminder!Quietly, Watch!Rem!Quietly
<1>3. Reminder!SetSettings = Watch!Rem!SetSettings
  BY DEF Reminder!NoBase, Watch!Rem!NoBase, Reminder!Quietly, Watch!Rem!Quietly,
         Reminder!SetSettings, Watch!Rem!SetSettings
<1>4. \A n : Reminder!Level(n) = Watch!Rem!Level(n)
  BY DEF Reminder!Level, Watch!Rem!Level
<1>5. \A s, quiet : Reminder!Tick(s, quiet) = Watch!Rem!Tick(s, quiet)
  <2>1. \A s : Reminder!Counted(s) = Watch!Rem!Counted(s)
    BY DEF Reminder!Counted, Watch!Rem!Counted, Reminder!Ran, Watch!Rem!Ran,
        Reminder!Quietly, Watch!Rem!Quietly
  <2>2. Reminder!Now = Watch!Rem!Now
    BY DEF Reminder!Now, Watch!Rem!Now
  <2>3. \A b : Reminder!Kept(b) = Watch!Rem!Kept(b)
    BY <2>2 DEF Reminder!Kept, Watch!Rem!Kept, Reminder!Quietly, Watch!Rem!Quietly
  <2>4. \A b : Reminder!Elapsed(b) = Watch!Rem!Elapsed(b)
    BY <2>2, <2>3 DEF Reminder!Elapsed, Watch!Rem!Elapsed
  <2>5. \A e : Reminder!Called(e) = Watch!Rem!Called(e)
    BY <1>4, <2>2 DEF Reminder!Called, Watch!Rem!Called
  <2>6. Reminder!Cooled = Watch!Rem!Cooled
    BY DEF Reminder!Cooled, Watch!Rem!Cooled, Reminder!Categories, Watch!Rem!Categories,
        Reminder!Kinds, Watch!Rem!Kinds, Reminder!Levels, Watch!Rem!Levels, Reminder!Less,
        Watch!Rem!Less
  <2>7. \A s : Reminder!Silent(s) = Watch!Rem!Silent(s)
    BY <2>6 DEF Reminder!Silent, Watch!Rem!Silent, Reminder!Cleared, Watch!Rem!Cleared,
        Reminder!Recovering, Watch!Rem!Recovering, Reminder!Nothing, Watch!Rem!Nothing
  <2>8. \A s, c : Reminder!Remind(s, c) = Watch!Rem!Remind(s, c)
    BY <2>6 DEF Reminder!Remind, Watch!Rem!Remind, Reminder!Wait, Watch!Rem!Wait
  <2>9. \A s, b, n : Reminder!Measured(s, b, n) = Watch!Rem!Measured(s, b, n)
    BY <2>3, <2>4, <2>5, <2>6, <2>7, <2>8 DEF Reminder!Measured, Watch!Rem!Measured
  <2>10. /\ Reminder!Changed = Watch!Rem!Changed
         /\ Reminder!Capture = Watch!Rem!Capture
         /\ \A b : Reminder!QuietEnds(b) = Watch!Rem!QuietEnds(b)
    BY <2>2 DEF Reminder!Changed, Watch!Rem!Changed, Reminder!Capture, Watch!Rem!Capture,
        Reminder!QuietEnds, Watch!Rem!QuietEnds
  <2>11. \A s, quiet : Reminder!Evaluate(s, quiet) = Watch!Rem!Evaluate(s, quiet)
    BY <2>2, <2>7, <2>9, <2>10 DEF Reminder!Evaluate, Watch!Rem!Evaluate
  <2> QED
    BY <2>1, <2>7, <2>11 DEF Reminder!Tick, Watch!Rem!Tick
<1>6. Reminder!RInit = Watch!Rem!RInit
  BY DEF Reminder!Categories, Watch!Rem!Categories, Reminder!Kinds, Watch!Rem!Kinds,
         Reminder!Levels, Watch!Rem!Levels, Reminder!NoBase, Watch!Rem!NoBase,
         Reminder!Nothing, Watch!Rem!Nothing, Reminder!Quietly, Watch!Rem!Quietly,
         Reminder!RInit, Watch!Rem!RInit
<1>7. Reminder!RNext = Watch!Rem!RNext
  BY <1>1, <1>2, <1>3, <1>5
  DEF Reminder!Modes, Watch!Rem!Modes, Reminder!RNext, Watch!Rem!RNext, Reminder!Seen,
      Watch!Rem!Seen
<1>8. Reminder!rvars = Watch!Rem!rvars
  BY DEF Reminder!rvars, Watch!Rem!rvars
<1>9. Reminder!RemindedLater = Watch!Rem!RemindedLater
  BY DEF Reminder!Categories, Watch!Rem!Categories, Reminder!Kinds, Watch!Rem!Kinds,
         Reminder!Levels, Watch!Rem!Levels, Reminder!Needed, Watch!Rem!Needed,
         Reminder!RemindedLater, Watch!Rem!RemindedLater
<1> QED
  BY <1>6, <1>7, <1>8, <1>9

\* DistractionTracker, instantiated twice.
LEMMA SameDistraction ==
    /\ Distraction!XInit = Watch!Dis!XInit
    /\ Distraction!XNext = Watch!Dis!XNext
    /\ Distraction!xvars = Watch!Dis!xvars
    /\ Distraction!NewEventIsLong = Watch!Dis!NewEventIsLong
<1>1. \A t, rs, time : Distraction!UpdateOpen(t, rs, time) = Watch!Dis!UpdateOpen(t, rs, time)
  BY DEF Distraction!Duration, Watch!Dis!Duration, Distraction!Spend, Watch!Dis!Spend,
         Distraction!UpdateOpen, Watch!Dis!UpdateOpen, Distraction!Written, Watch!Dis!Written
<1>2. \A t, rs, time : Distraction!CloseOpen(t, rs, time) = Watch!Dis!CloseOpen(t, rs, time)
  BY DEF Distraction!CloseFails, Watch!Dis!CloseFails, Distraction!CloseOpen,
         Watch!Dis!CloseOpen, Distraction!Dropped, Watch!Dis!Dropped, Distraction!Duration,
         Watch!Dis!Duration, Distraction!Spend, Watch!Dis!Spend, Distraction!Written,
         Watch!Dis!Written
<1>3. \A t, rs, time : Distraction!Create(t, rs, time) = Watch!Dis!Create(t, rs, time)
  BY <1>1 DEF Distraction!Create, Watch!Dis!Create, Distraction!Spend, Watch!Dis!Spend
<1>4. \A t0, rs, time : Distraction!Distracted(t0, rs, time)
          = Watch!Dis!Distracted(t0, rs, time)
  BY <1>1, <1>3 DEF Distraction!Distracted, Watch!Dis!Distracted, Distraction!Only,
                    Watch!Dis!Only
<1>5. \A t0, rs, time : Distraction!Focused(t0, rs, time) = Watch!Dis!Focused(t0, rs, time)
  BY <1>1, <1>2 DEF Distraction!Focused, Watch!Dis!Focused, Distraction!Only, Watch!Dis!Only,
                    Distraction!PendingCleared, Watch!Dis!PendingCleared
<1>6. \A t0, rs, time : Distraction!Unknown(t0, rs, time) = Watch!Dis!Unknown(t0, rs, time)
  BY <1>1, <1>2 DEF Distraction!Only, Watch!Dis!Only, Distraction!PendingCleared,
                    Watch!Dis!PendingCleared, Distraction!Unknown, Watch!Dis!Unknown
<1>7. \A sample, h, time :
        Distraction!Outcomes(sample, h, time) = Watch!Dis!Outcomes(sample, h, time)
  BY DEF Distraction!Outcomes, Watch!Dis!Outcomes, Distraction!Relations, Watch!Dis!Relations,
         Distraction!Day, Watch!Dis!Day
<1>8. \A outcome, time : Distraction!Observe(outcome, time) = Watch!Dis!Observe(outcome, time)
  BY <1>2, <1>4, <1>5, <1>6
  DEF Distraction!CloseFails, Watch!Dis!CloseFails, Distraction!Day, Watch!Dis!Day,
      Distraction!Dropped, Watch!Dis!Dropped, Distraction!Duration, Watch!Dis!Duration,
      Distraction!Observe, Watch!Dis!Observe, Distraction!Only, Watch!Dis!Only,
      Distraction!PendingCleared, Watch!Dis!PendingCleared, Distraction!Quieted,
      Watch!Dis!Quieted, Distraction!Relate, Watch!Dis!Relate, Distraction!Related,
      Watch!Dis!Related, Distraction!Relations, Watch!Dis!Relations, Distraction!Sampled,
      Watch!Dis!Sampled, Distraction!Spend, Watch!Dis!Spend, Distraction!Written,
      Watch!Dis!Written
<1>9. \A sample, gap : Distraction!Tick(sample, gap) = Watch!Dis!Tick(sample, gap)
  BY <1>7, <1>8 DEF Distraction!AtMost, Watch!Dis!AtMost, Distraction!Failed,
                    Watch!Dis!Failed, Distraction!Healthy, Watch!Dis!Healthy,
                    Distraction!Observed, Watch!Dis!Observed, Distraction!Succeeded,
                    Watch!Dis!Succeeded, Distraction!Tick, Watch!Dis!Tick,
                    Distraction!Day, Watch!Dis!Day
<1>10. Distraction!Shutdown = Watch!Dis!Shutdown
  BY <1>2 DEF Distraction!Shutdown, Watch!Dis!Shutdown
<1>11. Distraction!Crash = Watch!Dis!Crash
  BY DEF Distraction!Crash, Watch!Dis!Crash
<1>12. \A gap : Distraction!Start(gap) = Watch!Dis!Start(gap)
  BY DEF Distraction!Healthy, Watch!Dis!Healthy, Distraction!Idle, Watch!Dis!Idle,
         Distraction!Newest, Watch!Dis!Newest, Distraction!OpenRows, Watch!Dis!OpenRows,
         Distraction!Spend, Watch!Dis!Spend, Distraction!Start, Watch!Dis!Start,
         Distraction!Day, Watch!Dis!Day
<1>13. \A gap : Distraction!Study(gap) = Watch!Dis!Study(gap)
  BY DEF Distraction!Study, Watch!Dis!Study, Distraction!Day, Watch!Dis!Day
<1>14. Distraction!XInit = Watch!Dis!XInit
  BY DEF Distraction!Healthy, Watch!Dis!Healthy, Distraction!Idle, Watch!Dis!Idle,
         Distraction!XInit, Watch!Dis!XInit, Distraction!Day, Watch!Dis!Day
<1>15. Distraction!XNext = Watch!Dis!XNext
  BY <1>9, <1>10, <1>11, <1>12, <1>13
  DEF Distraction!Samples, Watch!Dis!Samples, Distraction!XNext, Watch!Dis!XNext
<1>16. Distraction!xvars = Watch!Dis!xvars
  BY DEF Distraction!xvars, Watch!Dis!xvars
<1>17. Distraction!NewEventIsLong = Watch!Dis!NewEventIsLong
  BY DEF Distraction!Day, Watch!Dis!Day, Distraction!NewEventIsLong, Watch!Dis!NewEventIsLong
<1> QED
  BY <1>14, <1>15, <1>16, <1>17

\* EvidenceWindow, instantiated twice.
LEMMA SameEvidence ==
    /\ Evidence!EInit = Watch!Ev!EInit
    /\ Evidence!ENext = Watch!Ev!ENext
    /\ Evidence!evars = Watch!Ev!evars
    /\ Evidence!StartNeedsEvidence = Watch!Ev!StartNeedsEvidence
<1>1. \A S : Evidence!Cardinality(S) = Watch!Ev!Cardinality(S)
  BY DEF Evidence!Cardinality, Watch!Ev!Cardinality
<1>2. Evidence!Cap = Watch!Ev!Cap
  BY DEF Evidence!Cap, Watch!Ev!Cap, Evidence!Max, Watch!Ev!Max
<1>3. \A s, i : Evidence!After(s, i) = Watch!Ev!After(s, i)
  BY DEF Evidence!After, Watch!Ev!After
<1>4. \A s, w, i : Evidence!Within(s, w, i) = Watch!Ev!Within(s, w, i)
  BY <1>3 DEF Evidence!Larger, Watch!Ev!Larger, Evidence!Smaller, Watch!Ev!Smaller,
              Evidence!Within, Watch!Ev!Within
<1>5. \A s, w, kinds : Evidence!Total(s, w, kinds) = Watch!Ev!Total(s, w, kinds)
  BY <1>4, ZenonT(40) DEF Evidence!Total, Watch!Ev!Total
<1>6. \A s : Evidence!Ready(s) = Watch!Ev!Ready(s)
  BY <1>5 DEF Evidence!Ready, Watch!Ev!Ready
<1>7. \A s, w : Evidence!Trimmed(s, w) = Watch!Ev!Trimmed(s, w)
  <2> SUFFICES ASSUME NEW s, NEW w PROVE Evidence!Trimmed(s, w) = Watch!Ev!Trimmed(s, w)
    OBVIOUS
  <2>1. {i \in DOMAIN s : Evidence!Within(s, w, i) > 0}
          = {i \in DOMAIN s : Watch!Ev!Within(s, w, i) > 0}
    BY <1>4
  <2>2. \A t, m : Evidence!Tail_(t, m) = Watch!Ev!Tail_(t, m)
    BY DEF Evidence!Tail_, Watch!Ev!Tail_
  <2>3. Evidence!Cardinality({i \in DOMAIN s : Evidence!Within(s, w, i) > 0})
          = Watch!Ev!Cardinality({i \in DOMAIN s : Watch!Ev!Within(s, w, i) > 0})
    BY <1>1, <2>1
  <2> QED
    BY <1>4, <2>2, <2>3 DEF Evidence!Trimmed, Watch!Ev!Trimmed
<1>8. \A kind, gap : Evidence!Advanced(kind, gap) = Watch!Ev!Advanced(kind, gap)
  BY <1>7 DEF Evidence!Advanced, Watch!Ev!Advanced, Evidence!Tail_, Watch!Ev!Tail_
<1>9. \A ages, gap : Evidence!Aged(ages, gap) = Watch!Ev!Aged(ages, gap)
  BY <1>2 DEF Evidence!Aged, Watch!Ev!Aged, Evidence!Smaller, Watch!Ev!Smaller
<1>10. \A signal : Evidence!SignalKind(signal) = Watch!Ev!SignalKind(signal)
  BY DEF Evidence!SignalKind, Watch!Ev!SignalKind
<1>11. \A gap : Evidence!Cooling(gap) = Watch!Ev!Cooling(gap)
  BY <1>9 DEF Evidence!Cooling, Watch!Ev!Cooling, Evidence!Reached, Watch!Ev!Reached,
              Evidence!Unset, Watch!Ev!Unset
<1>12. \A gap : Evidence!Suppressed(gap) = Watch!Ev!Suppressed(gap)
  BY <1>9 DEF Evidence!Ages, Watch!Ev!Ages, Evidence!Quiet, Watch!Ev!Quiet,
              Evidence!ResetEvidence, Watch!Ev!ResetEvidence, Evidence!Suppressed,
              Watch!Ev!Suppressed
<1>13. \A gap : Evidence!Running(gap) = Watch!Ev!Running(gap)
  BY <1>9, <1>11
  DEF Evidence!Locking, Watch!Ev!Locking, Evidence!Pausing, Watch!Ev!Pausing,
      Evidence!Propose, Watch!Ev!Propose, Evidence!Quiet, Watch!Ev!Quiet, Evidence!Reached,
      Watch!Ev!Reached, Evidence!ResetEvidence, Watch!Ev!ResetEvidence, Evidence!Resuming,
      Watch!Ev!Resuming, Evidence!Running, Watch!Ev!Running, Evidence!Snoozing,
      Watch!Ev!Snoozing, Evidence!Unset, Watch!Ev!Unset
<1>14. \A gap : Evidence!Standing(gap) = Watch!Ev!Standing(gap)
  BY <1>9 DEF Evidence!Blocked, Watch!Ev!Blocked, Evidence!NotResuming, Watch!Ev!NotResuming,
              Evidence!Quiet, Watch!Ev!Quiet, Evidence!ResetEvidence, Watch!Ev!ResetEvidence,
              Evidence!Standing, Watch!Ev!Standing, Evidence!Unset, Watch!Ev!Unset
<1>15. \A gap : Evidence!Beginning(gap) = Watch!Ev!Beginning(gap)
  BY <1>9 DEF Evidence!Beginning, Watch!Ev!Beginning, Evidence!NotResuming,
              Watch!Ev!NotResuming, Evidence!Quiet, Watch!Ev!Quiet, Evidence!Unset,
              Watch!Ev!Unset
<1>16. \A kind, gap : Evidence!Gathering(kind, gap) = Watch!Ev!Gathering(kind, gap)
  BY <1>2, <1>6, <1>8, <1>9, <1>11
  DEF Evidence!Gathering, Watch!Ev!Gathering, Evidence!NotResuming, Watch!Ev!NotResuming,
      Evidence!Propose, Watch!Ev!Propose, Evidence!Quiet, Watch!Ev!Quiet, Evidence!Smaller,
      Watch!Ev!Smaller, Evidence!Unset, Watch!Ev!Unset
<1>17. \A gap : Evidence!Evaluate(gap) = Watch!Ev!Evaluate(gap)
  BY <1>10, <1>12, <1>13, <1>14, <1>15, <1>16
  DEF Evidence!Begins, Watch!Ev!Begins, Evidence!Evaluate, Watch!Ev!Evaluate,
      Evidence!Signals, Watch!Ev!Signals
<1>18. \A c : Evidence!SaveSettings(c) = Watch!Ev!SaveSettings(c)
  BY DEF Evidence!Fresh, Watch!Ev!Fresh, Evidence!ResetEvidence, Watch!Ev!ResetEvidence,
         Evidence!SaveSettings, Watch!Ev!SaveSettings, Evidence!Unset, Watch!Ev!Unset
<1>19. \A f : Evidence!Restart(f) = Watch!Ev!Restart(f)
  BY DEF Evidence!Fresh, Watch!Ev!Fresh, Evidence!ResetEvidence, Watch!Ev!ResetEvidence,
         Evidence!Restart, Watch!Ev!Restart, Evidence!Unset, Watch!Ev!Unset
<1>20. Evidence!EInit = Watch!Ev!EInit
  BY DEF Evidence!EInit, Watch!Ev!EInit, Evidence!Unset, Watch!Ev!Unset
<1>21. Evidence!ENext = Watch!Ev!ENext
  BY <1>17, <1>18, <1>19
  DEF Evidence!ENext, Watch!Ev!ENext
<1>22. Evidence!evars = Watch!Ev!evars
  BY DEF Evidence!evars, Watch!Ev!evars
<1>23. Evidence!StartNeedsEvidence = Watch!Ev!StartNeedsEvidence
  BY DEF Evidence!Smaller, Watch!Ev!Smaller, Evidence!StartNeedsEvidence,
         Watch!Ev!StartNeedsEvidence
<1> QED
  BY <1>20, <1>21, <1>22, <1>23

\* The types of the parts, instantiated twice.
LEMMA SameTypes ==
    /\ AI!TypeOK = Record!K!TypeOK
    /\ Motivation!TypeOK = Record!TypeOK
    /\ Collector!TypeOK = Record!C!TypeOK
    /\ Evidence!TypeOK = Watch!Ev!TypeOK
    /\ Distraction!TypeOK = Watch!Dis!TypeOK
    /\ Reminder!TypeOK = Watch!Rem!TypeOK
    /\ Semantic!TypeOK = Watch!Sem!TypeOK
    /\ Rhythm!TypeOK = Watch!TypeOK
<1>1. AI!TypeOK = Record!K!TypeOK
  BY DEF AI!TypeOK, Record!K!TypeOK, AI!Config, Record!K!Config, AI!Targets, Record!K!Targets,
         AI!Refs, Record!K!Refs, AI!None, Record!K!None, AI!LegacyKey, Record!K!LegacyKey,
         AI!Env, Record!K!Env
<1>2. Motivation!TypeOK = Record!TypeOK
  BY DEF Motivation!TypeOK, Record!TypeOK, Motivation!Days, Record!Days, Motivation!Unset,
         Record!Unset, Motivation!Achievements, Record!Achievements, Motivation!Actors,
         Record!Actors, Motivation!Kinds, Record!Kinds
<1>3. Collector!TypeOK = Record!C!TypeOK
  BY DEF Collector!TypeOK, Record!C!TypeOK, Collector!Turns, Record!C!Turns,
         Collector!Payload, Record!C!Payload, Collector!Requests, Record!C!Requests,
         Collector!Served, Record!C!Served, Collector!Handling, Record!C!Handling
<1>4. \A s, i : Evidence!After(s, i) = Watch!Ev!After(s, i)
  BY DEF Evidence!After, Watch!Ev!After
<1>5. Evidence!Cap = Watch!Ev!Cap
  BY DEF Evidence!Cap, Watch!Ev!Cap, Evidence!Max, Watch!Ev!Max
<1>6. Evidence!TypeOK = Watch!Ev!TypeOK
  BY <1>4, <1>5 DEF Evidence!TypeOK, Watch!Ev!TypeOK, Evidence!Signals, Watch!Ev!Signals,
         Evidence!Since, Watch!Ev!Since, Evidence!Unset, Watch!Ev!Unset
<1>7. Distraction!TypeOK = Watch!Dis!TypeOK
  BY DEF Distraction!TypeOK, Watch!Dis!TypeOK, Distraction!Times, Watch!Dis!Times,
         Distraction!Phases, Watch!Dis!Phases
<1>8. Reminder!TypeOK = Watch!Rem!TypeOK
  BY DEF Reminder!TypeOK, Watch!Rem!TypeOK, Reminder!Modes, Watch!Rem!Modes, Reminder!Runs,
         Watch!Rem!Runs, Reminder!Categories, Watch!Rem!Categories, Reminder!Kinds,
         Watch!Rem!Kinds, Reminder!Levels, Watch!Rem!Levels, Reminder!Wait, Watch!Rem!Wait
<1>9. Semantic!TypeOK = Watch!Sem!TypeOK
  BY DEF Semantic!TypeOK, Watch!Sem!TypeOK, Semantic!Held, Watch!Sem!Held, Semantic!None,
         Watch!Sem!None
<1>10. Rhythm!TypeOK = Watch!TypeOK
  BY DEF Rhythm!TypeOK, Watch!TypeOK, Rhythm!Phases, Watch!Phases, Rhythm!Span, Watch!Span,
         Rhythm!Longer, Watch!Longer
<1> QED
  BY <1>1, <1>2, <1>3, <1>6, <1>7, <1>8, <1>9, <1>10

\* A behaviour follows one part, with its steps.
LEMMA PartsSteps ==
    ASSUME [PNext]_pvars
    PROVE  /\ followed' = followed
           /\ followed = "settings" => [AI!Next]_settingsVars
           /\ followed = "rhythm" => [Rhythm!YNext]_rhythmVars
           /\ followed = "motivation" => [Motivation!MNext]_motivationVars
           /\ followed = "collector" => [Collector!DNext]_collectorVars
           /\ followed = "reminder" => [Reminder!RNext]_reminderVars
           /\ followed = "semantic" => [Semantic!GNext]_semanticVars
           /\ followed = "distraction" => [Distraction!XNext]_distractionVars
           /\ followed = "evidence" => [Evidence!ENext]_evidenceVars
           /\ followed = "models" => [Models!Next]_modelsVars
           /\ followed = "trigger" => [Next]_vars
<1>1. CASE UNCHANGED pvars
  BY <1>1 DEF pvars
<1>2. CASE PNext
  BY <1>2 DEF PNext, Follow
<1> QED
  BY <1>1, <1>2

\* AISettings: no start of the supervisor, at whatever step its migration fails
\* or the process dies, loses the only copy of a key.
THEOREM PartsKeepTheKey == PSpec => StartKeepsTheKey
<1>1. PInit /\ followed = "settings" => Record!K!Init
  BY SameSettings DEF PInit
<1>2. [PNext]_pvars /\ followed = "settings" => [Record!K!Next]_(Record!K!vars)
  BY PartsSteps, SameSettings DEF settingsVars, AI!vars, Record!K!vars
<1>3. [PNext]_pvars => (followed = "settings" <=> (followed = "settings")')
  BY PartsSteps
<1>4. Record!K!Spec => Record!K!StartKeepsTheKey
  BY Record!MigrationsKeepTheKey DEF Record!SettingsBounds
<1>5. [Record!K!KeyIsKept]_(Record!K!vars)
        => [followed = "settings" => AI!KeyIsKept]_settingsVars
  BY SameSettings DEF settingsVars, AI!vars, Record!K!vars
<1>6. followed # "settings" => [followed = "settings" => AI!KeyIsKept]_settingsVars
  OBVIOUS
<1> QED
  BY <1>1, <1>2, <1>3, <1>4, <1>5, <1>6, PTL
  DEF PSpec, Record!K!Spec, Record!K!StartKeepsTheKey, StartKeepsTheKey

\* AISettings: a key whose deletion was confirmed to the user is not used again,
\* by no provider and after no start, before the user enters one.
THEOREM PartsDeletionsLast == PSpec => []DeletedStaysDeleted
<1>1. PInit /\ followed = "settings" => Record!K!Init
  BY SameSettings DEF PInit
<1>2. [PNext]_pvars /\ followed = "settings" => [Record!K!Next]_(Record!K!vars)
  BY PartsSteps, SameSettings DEF settingsVars, AI!vars, Record!K!vars
<1>3. [PNext]_pvars => (followed = "settings" <=> (followed = "settings")')
  BY PartsSteps
<1>4. Record!K!Spec => []Record!K!DeletedStaysDeleted
  BY Record!DeletionsLast DEF Record!SettingsBounds
<1>5. (followed = "settings" => Record!K!DeletedStaysDeleted) => DeletedStaysDeleted
  BY SameSettings DEF DeletedStaysDeleted
<1> QED
  BY <1>1, <1>2, <1>3, <1>4, <1>5, PTL DEF PSpec, Record!K!Spec

\* EyeCareRhythm: a break becomes due only after the use it takes since the last
\* rest and refusal, although a failed write leaves use that is counted later.
THEOREM PartsEarnTheirBreaks == PSpec => DueIsEarned
<1>1. PInit /\ followed = "rhythm" => Watch!YInit
  BY SameRhythm DEF PInit
<1>2. [PNext]_pvars /\ followed = "rhythm" => [Watch!YNext]_(Watch!yvars)
  BY PartsSteps, SameRhythm DEF rhythmVars, Rhythm!yvars, Watch!yvars
<1>3. [PNext]_pvars => (followed = "rhythm" <=> (followed = "rhythm")')
  BY PartsSteps
<1>4. Watch!YSpec => Watch!DueIsEarned
  BY BoundsAssumption, Watch!DueBreaksAreEarned DEF Watch!Bounds
<1>5. [Watch!EarnedDue]_(Watch!yvars)
        => [followed = "rhythm" => Rhythm!EarnedDue]_rhythmVars
  BY SameRhythm DEF rhythmVars, Rhythm!yvars, Watch!yvars
<1>6. followed # "rhythm" => [followed = "rhythm" => Rhythm!EarnedDue]_rhythmVars
  OBVIOUS
<1> QED
  BY <1>1, <1>2, <1>3, <1>4, <1>5, <1>6, PTL
  DEF PSpec, Watch!YSpec, Watch!DueIsEarned, DueIsEarned

\* EyeCareRhythm: while a break is due a next prompt is set, so that the user
\* hears of it, through failed writes, midnight and restarts.
THEOREM PartsTellTheirBreaks == PSpec => []DueIsTold
<1>1. PInit /\ followed = "rhythm" => Watch!YInit
  BY SameRhythm DEF PInit
<1>2. [PNext]_pvars /\ followed = "rhythm" => [Watch!YNext]_(Watch!yvars)
  BY PartsSteps, SameRhythm DEF rhythmVars, Rhythm!yvars, Watch!yvars
<1>3. [PNext]_pvars => (followed = "rhythm" <=> (followed = "rhythm")')
  BY PartsSteps
<1>4. Watch!YSpec => []Watch!DueIsTold
  BY BoundsAssumption, Watch!DueBreaksAreTold DEF Watch!Bounds
<1>5. (followed = "rhythm" => Watch!DueIsTold) => DueIsTold
  BY SameRhythm DEF DueIsTold
<1> QED
  BY <1>1, <1>2, <1>3, <1>4, <1>5, PTL DEF PSpec, Watch!YSpec

\* MotivationLedger: check-ins, achievements and missions are announced once at
\* most, and only when the table holds them.  (Reaching the daily target, which the
\* user may change and reach again, is not among them.)
THEOREM PartsAnnounceOnce == PSpec => []ToldOnce
<1>1. PInit /\ followed = "motivation" => Record!MInit
  BY SameMotivation DEF PInit
<1>2. [PNext]_pvars /\ followed = "motivation" => [Record!MNext]_(Record!mvars)
  BY PartsSteps, SameMotivation DEF motivationVars, Motivation!mvars, Record!mvars
<1>3. [PNext]_pvars => (followed = "motivation" <=> (followed = "motivation")')
  BY PartsSteps
<1>4. Record!MSpec => []Record!ToldOnce
  BY Record!AnnouncedOnce
<1>5. (followed = "motivation" => Record!ToldOnce) => ToldOnce
  BY SameMotivation DEF ToldOnce
<1> QED
  BY <1>1, <1>2, <1>3, <1>4, <1>5, PTL DEF PSpec, Record!MSpec

\* CollectorDelivery: a turn delivered again, because its answer was lost or the
\* queue was sent twice, moves the evidence revision once, as long as its old flag
\* is read and no two requests carry it at once.
THEOREM PartsCountOnce == PSpec => []CountedOnce
<1>1. PInit /\ followed = "collector" => Record!C!DInit
  BY SameCollector DEF PInit
<1>2. [PNext]_pvars /\ followed = "collector" => [Record!C!DNext]_(Record!C!dvars)
  BY PartsSteps, SameCollector DEF collectorVars, Collector!dvars, Collector!tables, Record!C!dvars, Record!C!tables
<1>3. [PNext]_pvars => (followed = "collector" <=> (followed = "collector")')
  BY PartsSteps
<1>4. Record!C!DSpec => []Record!C!CountedOnce
  BY Record!TurnsCountOnce DEF Record!DeliveryLimits
<1>5. (followed = "collector" => Record!C!CountedOnce) => CountedOnce
  BY SameCollector DEF CountedOnce
<1> QED
  BY <1>1, <1>2, <1>3, <1>4, <1>5, PTL DEF PSpec, Record!C!DSpec

\* SemanticSegments: a snapshot covers one activity, watched long enough, although
\* the clock may go back, writes fail and the process start again.
THEOREM PartsWatchLongEnough == PSpec => SnapshotIsStable
<1>1. PInit /\ followed = "semantic" => Watch!Sem!GInit
  BY SameSemantic DEF PInit
<1>2. [PNext]_pvars /\ followed = "semantic" => [Watch!Sem!GNext]_(Watch!Sem!gvars)
  BY PartsSteps, SameSemantic DEF semanticVars, Semantic!gvars, Watch!Sem!gvars
<1>3. [PNext]_pvars => (followed = "semantic" <=> (followed = "semantic")')
  BY PartsSteps
<1>4. Watch!Sem!GSpec => Watch!Sem!SnapshotIsStable
  BY Watch!SnapshotsAreStable
<1>5. [Watch!Sem!NewRowIsStable]_(Watch!Sem!gvars)
        => [followed = "semantic" => Semantic!NewRowIsStable]_semanticVars
  BY SameSemantic DEF semanticVars, Semantic!gvars, Watch!Sem!gvars
<1>6. followed # "semantic" => [followed = "semantic" => Semantic!NewRowIsStable]_semanticVars
  OBVIOUS
<1> QED
  BY <1>1, <1>2, <1>3, <1>4, <1>5, <1>6, PTL
  DEF PSpec, Watch!Sem!GSpec, Watch!Sem!SnapshotIsStable, SnapshotIsStable

\* ReminderEngine: when something reminds, as many ticks as it needs have passed
\* since the last change of the mode and the last quiet time, unless the settings
\* were saved since.
THEOREM PartsRemindWhenDue == PSpec => RemindersStartAnew
<1>1. PInit /\ followed = "reminder" => Watch!Rem!RInit
  BY SameReminder DEF PInit
<1>2. [PNext]_pvars /\ followed = "reminder" => [Watch!Rem!RNext]_(Watch!Rem!rvars)
  BY PartsSteps, SameReminder DEF reminderVars, Reminder!rvars, Watch!Rem!rvars
<1>3. [PNext]_pvars => (followed = "reminder" <=> (followed = "reminder")')
  BY PartsSteps
<1>4. Watch!Rem!RSpec => Watch!Rem!RemindersStartAnew
  BY Watch!RemindersAreDue DEF Watch!ReminderBounds
<1>5. [Watch!Rem!RemindedLater]_(Watch!Rem!rvars)
        => [followed = "reminder" => Reminder!RemindedLater]_reminderVars
  BY SameReminder DEF reminderVars, Reminder!rvars, Watch!Rem!rvars
<1>6. followed # "reminder" => [followed = "reminder" => Reminder!RemindedLater]_reminderVars
  OBVIOUS
<1> QED
  BY <1>1, <1>2, <1>3, <1>4, <1>5, <1>6, PTL
  DEF PSpec, Watch!Rem!RSpec, Watch!Rem!RemindersStartAnew, RemindersStartAnew

\* DistractionTracker: an event is begun only of a distraction that lasted, unless
\* it goes on after midnight.
THEOREM PartsIgnoreShortSwitches == PSpec => ShortSwitchIsNoEvent
<1>1. PInit /\ followed = "distraction" => Watch!Dis!XInit
  BY SameDistraction DEF PInit
<1>2. [PNext]_pvars /\ followed = "distraction" => [Watch!Dis!XNext]_(Watch!Dis!xvars)
  BY PartsSteps, SameDistraction DEF distractionVars, Distraction!xvars, Watch!Dis!xvars
<1>3. [PNext]_pvars => (followed = "distraction" <=> (followed = "distraction")')
  BY PartsSteps
<1>4. Watch!Dis!XSpec => Watch!Dis!ShortSwitchIsNoEvent
  BY Watch!ShortSwitchesPass DEF Watch!DistractionBounds
<1>5. [Watch!Dis!NewEventIsLong]_(Watch!Dis!xvars)
        => [followed = "distraction" => Distraction!NewEventIsLong]_distractionVars
  BY SameDistraction DEF distractionVars, Distraction!xvars, Watch!Dis!xvars
<1>6. followed # "distraction"
        => [followed = "distraction" => Distraction!NewEventIsLong]_distractionVars
  OBVIOUS
<1> QED
  BY <1>1, <1>2, <1>3, <1>4, <1>5, <1>6, PTL
  DEF PSpec, Watch!Dis!XSpec, Watch!Dis!ShortSwitchIsNoEvent, ShortSwitchIsNoEvent

\* MotivationLedger: the points add up, so that none is spent that was not earned.
THEOREM PartsAddUp == PSpec => []LedgerAddsUp
<1>1. PInit /\ followed = "motivation" => Record!MInit
  BY SameMotivation DEF PInit
<1>2. [PNext]_pvars /\ followed = "motivation" => [Record!MNext]_(Record!mvars)
  BY PartsSteps, SameMotivation DEF motivationVars, Motivation!mvars, Record!mvars
<1>3. [PNext]_pvars => (followed = "motivation" <=> (followed = "motivation")')
  BY PartsSteps
<1>4. Record!MSpec => []Record!LedgerAddsUp
  <2>1. IsFiniteSet(OldMissions) => Record!IsFiniteSet(OldMissions)
    BY DEF IsFiniteSet, Record!IsFiniteSet
  <2> QED
    BY <2>1, MissionsAssumption, Record!PointsAddUp DEF Record!LedgerBounds
<1>5. (followed = "motivation" => Record!LedgerAddsUp) => LedgerAddsUp
  BY SameMotivation DEF LedgerAddsUp
<1> QED
  BY <1>1, <1>2, <1>3, <1>4, <1>5, PTL DEF PSpec, Record!MSpec

\* The settings that the evidence is checked with are two, with times.
LEMMA SettingsFacts ==
    LET C == {Settings, [Settings EXCEPT !.allow = FALSE, !.unclassified = 4]}
    IN  /\ Watch!IsFiniteSet(C) /\ C # {}
        /\ \A c \in C : /\ c.focused \in Nat /\ c.unclassified \in Nat /\ c.grace \in Nat
                         /\ c.cooldown \in Nat /\ c.locked \in Nat /\ c.resume \in Nat
<1> DEFINE C == {Settings, [Settings EXCEPT !.allow = FALSE, !.unclassified = 4]}
<1>1. Watch!IsFiniteSet(C) /\ C # {}
  BY Watch!PairIsFinite
<1>2. \A c \in C : /\ c.focused \in Nat /\ c.unclassified \in Nat /\ c.grace \in Nat
                   /\ c.cooldown \in Nat /\ c.locked \in Nat /\ c.resume \in Nat
  <2>1. ASSUME NEW c, c = [Settings EXCEPT !.allow = FALSE, !.unclassified = 4]
        PROVE  /\ c.focused = 2 /\ c.unclassified = 4 /\ c.grace = 1
               /\ c.cooldown = 2 /\ c.locked = 1 /\ c.resume = 2
    BY <2>1 DEF Settings
  <2>2. /\ Settings.focused = 2 /\ Settings.unclassified = 3 /\ Settings.grace = 1
        /\ Settings.cooldown = 2 /\ Settings.locked = 1 /\ Settings.resume = 2
    BY DEF Settings
  <2> QED
    BY <2>1, <2>2
<1> QED
  BY <1>1, <1>2

\* EvidenceWindow: a session is proposed only on study seen for the required time
\* since the last interruption.
THEOREM PartsStartOnEvidence == PSpec => []StartNeedsEvidence
<1>1. PInit /\ followed = "evidence" => Watch!Ev!EInit
  BY SameEvidence DEF PInit
<1>2. [PNext]_pvars /\ followed = "evidence" => [Watch!Ev!ENext]_(Watch!Ev!evars)
  BY PartsSteps, SameEvidence DEF evidenceVars, Evidence!evars, Watch!Ev!evars
<1>3. [PNext]_pvars => (followed = "evidence" <=> (followed = "evidence")')
  BY PartsSteps
<1>4. Watch!Ev!ESpec => []Watch!Ev!StartNeedsEvidence
  BY SettingsFacts, Watch!StartsNeedEvidence DEF Watch!EvidenceBounds
<1>5. (followed = "evidence" => Watch!Ev!StartNeedsEvidence) => StartNeedsEvidence
  BY SameEvidence DEF StartNeedsEvidence
<1> QED
  BY <1>1, <1>2, <1>3, <1>4, <1>5, PTL DEF PSpec, Watch!Ev!ESpec

\* AISettings, while it is followed, keeps its types.
LEMMA SettingsPart == PSpec => [](followed = "settings" => AI!TypeOK)
<1>1. PInit /\ followed = "settings" => Record!K!Init
  BY SameSettings DEF PInit
<1>2. [PNext]_pvars /\ followed = "settings" => [Record!K!Next]_(Record!K!vars)
  BY PartsSteps, SameSettings DEF settingsVars, AI!vars, Record!K!vars
<1>3. [PNext]_pvars => (followed = "settings" <=> (followed = "settings")')
  BY PartsSteps
<1>4. Record!K!Spec => []Record!K!TypeOK
  BY Record!SettingsTyped DEF Record!SettingsBounds
<1>5. (followed = "settings" => Record!K!TypeOK) => (followed = "settings" => AI!TypeOK)
  BY SameTypes
<1> QED
  BY <1>1, <1>2, <1>3, <1>4, <1>5, PTL DEF PSpec, Record!K!Spec

\* MotivationLedger does.
LEMMA MotivationPart == PSpec => [](followed = "motivation" => Motivation!TypeOK)
<1>1. PInit /\ followed = "motivation" => Record!MInit
  BY SameMotivation DEF PInit
<1>2. [PNext]_pvars /\ followed = "motivation" => [Record!MNext]_(Record!mvars)
  BY PartsSteps, SameMotivation DEF motivationVars, Motivation!mvars, Record!mvars
<1>3. [PNext]_pvars => (followed = "motivation" <=> (followed = "motivation")')
  BY PartsSteps
<1>4. Record!MSpec => []Record!TypeOK
  BY Record!LedgerTyped DEF Record!LedgerLimits
<1>5. (followed = "motivation" => Record!TypeOK) => (followed = "motivation" => Motivation!TypeOK)
  BY SameTypes
<1> QED
  BY <1>1, <1>2, <1>3, <1>4, <1>5, PTL DEF PSpec, Record!MSpec

\* CollectorDelivery does.
LEMMA CollectorPart == PSpec => [](followed = "collector" => Collector!TypeOK)
<1>1. PInit /\ followed = "collector" => Record!C!DInit
  BY SameCollector DEF PInit
<1>2. [PNext]_pvars /\ followed = "collector" => [Record!C!DNext]_(Record!C!dvars)
  BY PartsSteps, SameCollector DEF collectorVars, Collector!dvars, Collector!tables, Record!C!dvars, Record!C!tables
<1>3. [PNext]_pvars => (followed = "collector" <=> (followed = "collector")')
  BY PartsSteps
<1>4. Record!C!DSpec => []Record!C!TypeOK
  BY Record!DeliveryTyped DEF Record!DeliveryLimits
<1>5. (followed = "collector" => Record!C!TypeOK) => (followed = "collector" => Collector!TypeOK)
  BY SameTypes
<1> QED
  BY <1>1, <1>2, <1>3, <1>4, <1>5, PTL DEF PSpec, Record!C!DSpec

\* EvidenceWindow does.
LEMMA EvidencePart == PSpec => [](followed = "evidence" => Evidence!TypeOK)
<1>1. PInit /\ followed = "evidence" => Watch!Ev!EInit
  BY SameEvidence DEF PInit
<1>2. [PNext]_pvars /\ followed = "evidence" => [Watch!Ev!ENext]_(Watch!Ev!evars)
  BY PartsSteps, SameEvidence DEF evidenceVars, Evidence!evars, Watch!Ev!evars
<1>3. [PNext]_pvars => (followed = "evidence" <=> (followed = "evidence")')
  BY PartsSteps
<1>4. Watch!Ev!ESpec => []Watch!Ev!TypeOK
  BY SettingsFacts, Watch!EvidenceTyped DEF Watch!EvidenceLimits, Watch!EvidenceBounds
<1>5. (followed = "evidence" => Watch!Ev!TypeOK) => (followed = "evidence" => Evidence!TypeOK)
  BY SameTypes
<1> QED
  BY <1>1, <1>2, <1>3, <1>4, <1>5, PTL DEF PSpec, Watch!Ev!ESpec

\* DistractionTracker does.
LEMMA DistractionPart == PSpec => [](followed = "distraction" => Distraction!TypeOK)
<1>1. PInit /\ followed = "distraction" => Watch!Dis!XInit
  BY SameDistraction DEF PInit
<1>2. [PNext]_pvars /\ followed = "distraction" => [Watch!Dis!XNext]_(Watch!Dis!xvars)
  BY PartsSteps, SameDistraction DEF distractionVars, Distraction!xvars, Watch!Dis!xvars
<1>3. [PNext]_pvars => (followed = "distraction" <=> (followed = "distraction")')
  BY PartsSteps
<1>4. Watch!Dis!XSpec => []Watch!Dis!TypeOK
  BY Watch!EventsTyped DEF Watch!EventBounds
<1>5. (followed = "distraction" => Watch!Dis!TypeOK) => (followed = "distraction" => Distraction!TypeOK)
  BY SameTypes
<1> QED
  BY <1>1, <1>2, <1>3, <1>4, <1>5, PTL DEF PSpec, Watch!Dis!XSpec

\* ReminderEngine does.
LEMMA ReminderPart == PSpec => [](followed = "reminder" => Reminder!TypeOK)
<1>1. PInit /\ followed = "reminder" => Watch!Rem!RInit
  BY SameReminder DEF PInit
<1>2. [PNext]_pvars /\ followed = "reminder" => [Watch!Rem!RNext]_(Watch!Rem!rvars)
  BY PartsSteps, SameReminder DEF reminderVars, Reminder!rvars, Watch!Rem!rvars
<1>3. [PNext]_pvars => (followed = "reminder" <=> (followed = "reminder")')
  BY PartsSteps
<1>4. Watch!Rem!RSpec => []Watch!Rem!TypeOK
  BY Watch!RemindersTyped DEF Watch!RemindingBounds, Watch!ReminderBounds
<1>5. (followed = "reminder" => Watch!Rem!TypeOK) => (followed = "reminder" => Reminder!TypeOK)
  BY SameTypes
<1> QED
  BY <1>1, <1>2, <1>3, <1>4, <1>5, PTL DEF PSpec, Watch!Rem!RSpec

\* SemanticSegments does.
LEMMA SemanticPart == PSpec => [](followed = "semantic" => Semantic!TypeOK)
<1>1. PInit /\ followed = "semantic" => Watch!Sem!GInit
  BY SameSemantic DEF PInit
<1>2. [PNext]_pvars /\ followed = "semantic" => [Watch!Sem!GNext]_(Watch!Sem!gvars)
  BY PartsSteps, SameSemantic DEF semanticVars, Semantic!gvars, Watch!Sem!gvars
<1>3. [PNext]_pvars => (followed = "semantic" <=> (followed = "semantic")')
  BY PartsSteps
<1>4. Watch!Sem!GSpec => []Watch!Sem!TypeOK
  BY Watch!SegmentsTyped DEF Watch!SemanticBounds
<1>5. (followed = "semantic" => Watch!Sem!TypeOK) => (followed = "semantic" => Semantic!TypeOK)
  BY SameTypes
<1> QED
  BY <1>1, <1>2, <1>3, <1>4, <1>5, PTL DEF PSpec, Watch!Sem!GSpec

\* EyeCareRhythm does.
LEMMA RhythmPart == PSpec => [](followed = "rhythm" => Rhythm!TypeOK)
<1>1. PInit /\ followed = "rhythm" => Watch!YInit
  BY SameRhythm DEF PInit
<1>2. [PNext]_pvars /\ followed = "rhythm" => [Watch!YNext]_(Watch!yvars)
  BY PartsSteps, SameRhythm DEF rhythmVars, Rhythm!yvars, Watch!yvars
<1>3. [PNext]_pvars => (followed = "rhythm" <=> (followed = "rhythm")')
  BY PartsSteps
<1>4. Watch!YSpec => []Watch!TypeOK
  BY BoundsAssumption, Watch!RhythmTyped DEF Watch!Bounds
<1>5. (followed = "rhythm" => Watch!TypeOK) => (followed = "rhythm" => Rhythm!TypeOK)
  BY SameTypes
<1> QED
  BY <1>1, <1>2, <1>3, <1>4, <1>5, PTL DEF PSpec, Watch!YSpec

\* ModelChain does.
LEMMA ModelsPart == PSpec => [](followed = "models" => Models!TypeOK)
<1>1. PInit /\ followed = "models" => Models!Init
  BY DEF PInit
<1>2. [PNext]_pvars /\ followed = "models" => [Models!Next]_(Models!vars)
  BY PartsSteps DEF modelsVars, Models!vars
<1>3. [PNext]_pvars => (followed = "models" <=> (followed = "models")')
  BY PartsSteps
<1> QED
  BY <1>1, <1>2, <1>3, ModelsTyped, PTL DEF PSpec, Models!Spec

\* And ReviewTrigger does.
LEMMA TriggerPart == PSpec => [](followed = "trigger" => TypeOK)
<1>1. PInit => TypeOK
  BY TriggerInit DEF PInit
<1>2. TypeOK /\ [PNext]_pvars /\ followed = "trigger" => TypeOK'
  BY PartsSteps, TriggerTypes
<1>3. [PNext]_pvars => (followed = "trigger" <=> (followed = "trigger")')
  BY PartsSteps
<1> QED
  BY <1>1, <1>2, <1>3, PTL DEF PSpec

\* At any time, the part that is followed has its types: its counters, queues and
\* instants stay within the bounds its module names.
THEOREM PartsTyped == PSpec => []PartsTypeOK
<1>1. PInit => followed \in Parts
  BY DEF PInit
<1>2. followed \in Parts /\ [PNext]_pvars => (followed \in Parts)'
  BY PartsSteps
<1>3. /\ followed \in Parts
      /\ followed = "settings" => AI!TypeOK
      /\ followed = "models" => Models!TypeOK
      /\ followed = "motivation" => Motivation!TypeOK
      /\ followed = "collector" => Collector!TypeOK
      /\ followed = "evidence" => Evidence!TypeOK
      /\ followed = "distraction" => Distraction!TypeOK
      /\ followed = "reminder" => Reminder!TypeOK
      /\ followed = "semantic" => Semantic!TypeOK
      /\ followed = "rhythm" => Rhythm!TypeOK
      /\ followed = "trigger" => TypeOK
      => PartsTypeOK
  BY DEF Parts, PartsTypeOK
<1> QED
  BY <1>1, <1>2, <1>3, SettingsPart, ModelsPart, MotivationPart, CollectorPart, EvidencePart,
     DistractionPart, ReminderPart, SemanticPart, RhythmPart, TriggerPart, PTL DEF PSpec

=============================================================================
