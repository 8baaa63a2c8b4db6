---------------------- MODULE AutomationIntentsProofs ----------------------
(***************************************************************************)
(* Proofs about AutomationIntents, for every bound and with all overlaps:  *)
(* an intent is applied at most once, what became of it is final, and no   *)
(* break of the user is ended by the automation.                           *)
(*                                                                         *)
(* None of these is inductive: a second application is excluded because    *)
(* the intent is, at any time, in one hand only.  The strengthening Hands  *)
(* says so: the fate of an intent tells who holds it (the manager as       *)
(* pending, a request, the worker after a claim, the worker with a         *)
(* proposal), so that two holders would give it two fates.  Ledger adds    *)
(* that an intent that ended a session is held by none.  Calm is the       *)
(* invariant of histories in which no call overtook another.  The last     *)
(* part proves that the module implements IntentLifecycle.                 *)
(***************************************************************************)
EXTENDS AutomationIntents, TLAPS

Hands ==
    /\ pending # None => fate[pending] = "pending"
    /\ \A i \in claimed : fate[i] = "claimed"
    /\ worker.pc = "apply" => /\ fate[worker.intent] = "claimed"
                              /\ worker.intent \notin claimed
    /\ worker.pc = "propose" => /\ fate[worker.intent] = "proposed"
                                /\ pending = None

Ledger ==
    \A e \in ended : /\ e.by \in Ids /\ fate[e.by] = "applied"
                     /\ e.ses.mode = "BREAK" => e.ses.origin = "AUTOMATION"

IInv == TypeOK /\ Hands /\ Ledger /\ AppliedOnce

----------------------------------------------------------------------------
(* Facts about the operators *)

\* The daily reset leaves a well-formed session.
LEMMA RolledType ==
    ASSUME TypeOK, NEW d \in Dates
    PROVE  Rolled(d) \in Session
BY DEF Rolled, TypeOK, Session, Modes, Origins

LEMMA BeginType ==
    ASSUME TypeOK, NEW mode \in Modes, NEW origin \in Origins, Begin(mode, origin)
    PROVE  cur' \in Session /\ date' \in Dates
<1>1. today \in Dates
  BY DEF TypeOK
<1>2. Rolled(today).n + 1 \in Nat
  BY <1>1, RolledType DEF Session
<1> QED
  BY <1>1, <1>2 DEF Begin, Session

\* Deciding an intent that did not end a session keeps the ledger.
LEMMA DecisionKeepsLedger ==
    ASSUME TypeOK, Ledger, NEW i \in Ids, NEW f, fate[i] # "applied",
           fate' = [fate EXCEPT ![i] = f], ended' = ended
    PROVE  Ledger'
BY DEF TypeOK, Ledger

\* What applying an intent does, given that nobody decided it before.
LEMMA Application ==
    ASSUME TypeOK, Ledger, AppliedOnce, NEW i \in Ids, NEW kind,
           fate[i] \notin Settled, ApplyNow(i, kind)
    PROVE  /\ cur' \in Session /\ date' \in Dates
           /\ override' \in BOOLEAN /\ snoozed' \in BOOLEAN
           /\ fate' \in {[fate EXCEPT ![i] = "refused"], [fate EXCEPT ![i] = "applied"]}
           /\ \A e \in ended' : e.ses \in Session /\ e.by \in Ids
           /\ Ledger' /\ AppliedOnce'
<1> fate[i] # "applied"
  BY DEF Settled
<1> today \in Dates /\ Rolled(today) \in Session
  BY RolledType DEF TypeOK
<1>1. CASE kind = "START" /\ override
  <2>1. /\ fate' = [fate EXCEPT ![i] = "refused"]
        /\ UNCHANGED <<cur, date, ended, override, snoozed>>
    BY <1>1 DEF ApplyNow, Settle
  <2>2. Ledger'
    BY <2>1, DecisionKeepsLedger
  <2> QED
    BY <2>1, <2>2 DEF TypeOK, AppliedOnce
<1>2. CASE ~(kind = "START" /\ override) /\ ~Allowed(kind, Rolled(today))
  <2>1. /\ fate' = [fate EXCEPT ![i] = "refused"]
        /\ cur' = Rolled(today) /\ date' = today
        /\ UNCHANGED <<ended, override, snoozed>>
    BY <1>2 DEF ApplyNow, Settle, Roll
  <2>2. Ledger'
    BY <2>1, DecisionKeepsLedger
  <2> QED
    BY <2>1, <2>2 DEF TypeOK, AppliedOnce
<1>3. CASE ~(kind = "START" /\ override) /\ Allowed(kind, Rolled(today))
  <2> DEFINE mode == IF kind = "PAUSE" THEN "BREAK" ELSE "STUDY"
             new == [ses |-> Rolled(today), by |-> i]
  <2>1. /\ fate' = [fate EXCEPT ![i] = "applied"]
        /\ Begin(mode, "AUTOMATION")
        /\ ended' = ended \cup {new}
        /\ override' = (override /\ kind # "PAUSE")
        /\ snoozed' = (snoozed /\ kind # "PAUSE")
    BY <1>3 DEF ApplyNow, Settle
  <2>2. mode \in Modes /\ "AUTOMATION" \in Origins
    BY DEF Modes, Origins
  <2>3. cur' \in Session /\ date' \in Dates
    <3> HIDE DEF mode
    <3> QED BY <2>1, <2>2, BeginType
  <2>4. override' \in BOOLEAN /\ snoozed' \in BOOLEAN
    BY <2>1 DEF TypeOK
  <2>5. new.ses.mode = "BREAK" => new.ses.origin = "AUTOMATION"
    BY <1>3 DEF Allowed
  <2>6. fate'[i] = "applied" /\ \A j \in Ids : j # i => fate'[j] = fate[j]
    BY <2>1 DEF TypeOK
  <2>7. Ledger'
    BY <2>1, <2>5, <2>6 DEF Ledger
  <2>8. AppliedOnce'
    BY <2>1, <2>6 DEF AppliedOnce, Ledger
  <2>9. \A e \in ended' : e.ses \in Session /\ e.by \in Ids
    BY <2>1 DEF TypeOK
  <2> QED
    BY <2>1, <2>3, <2>4, <2>7, <2>8, <2>9
<1> QED
  BY <1>1, <1>2, <1>3

----------------------------------------------------------------------------
(* The invariant *)

LEMMA InitInvariant == Init => IInv
<1> SUFFICES ASSUME Init PROVE IInv
  OBVIOUS
<1> USE DEF Init
<1>1. TypeOK
  <2>1. 0 \in Dates /\ presses \in 0 .. MaxPresses /\ crashes \in 0 .. MaxCrashes
    BY BoundsAssumption DEF Dates
  <2>2. cur \in Session /\ back \in Modes
    BY <2>1 DEF Session, Modes, Origins
  <2>3. /\ worker \in Worker
        /\ worker.pc \in Holding <=> worker.intent # None
    BY <2>1 DEF Worker, RestWorker, Points, Holding
  <2>4. intents \in [Ids -> Intent \cup {NoIntent}] /\ fate \in [Ids -> Fates]
    BY DEF Fates
  <2> QED
    BY <2>1, <2>2, <2>3, <2>4 DEF TypeOK
<1> QED
  BY <1>1 DEF IInv, Hands, Ledger, AppliedOnce, RestWorker, None

\* A mode change of the user: what is pending is cleared.
LEMMA ClearingKeeps ==
    ASSUME IInv, Cleared, UNCHANGED <<claimed, worker, ended>>
    PROVE  /\ pending' \in Ids \cup {None} /\ late' \in BOOLEAN
           /\ fate' \in [Ids -> Fates]
           /\ Hands' /\ Ledger' /\ AppliedOnce'
<1> USE DEF IInv
<1>1. CASE pending = None
  BY <1>1 DEF Cleared, TypeOK, Hands, Ledger, AppliedOnce
<1>2. CASE pending # None
  <2>1. /\ pending \in Ids /\ fate[pending] = "pending"
        /\ pending' = None /\ late' = FALSE
        /\ fate' = [fate EXCEPT ![pending] = "cleared"]
    BY <1>2 DEF Cleared, Settle, TypeOK, Hands
  <2>2. Ledger'
    BY <2>1, DecisionKeepsLedger
  <2>3. fate' \in [Ids -> Fates]
    BY <2>1 DEF TypeOK, Fates, Settled
  <2>4. Hands'
    BY <2>1 DEF Hands, TypeOK, Worker, Holding
  <2> QED
    BY <2>1, <2>2, <2>3, <2>4 DEF AppliedOnce
<1> QED
  BY <1>1, <1>2

\* Taking the pending intent out of the manager.
LEMMA TakingKeeps ==
    ASSUME IInv, pending # None, NEW f \in {"claimed", "dismissed", "rejected", "cancelled"},
           Take(pending, f), UNCHANGED ended
    PROVE  /\ pending \in Ids /\ pending' = None /\ late' = FALSE
           /\ fate' \in [Ids -> Fates] /\ fate'[pending] = f
           /\ \A i \in Ids : i # pending => fate'[i] = fate[i]
           /\ fate[pending] = "pending"
           /\ pending \notin claimed
           /\ worker.intent # pending
           /\ Ledger' /\ AppliedOnce'
<1> USE DEF IInv
<1>1. /\ pending \in Ids /\ fate[pending] = "pending"
      /\ pending' = None /\ late' = FALSE
      /\ fate' = [fate EXCEPT ![pending] = f]
  BY DEF Take, Settle, TypeOK, Hands
<1>2. Ledger'
  BY <1>1, DecisionKeepsLedger
<1>3. pending \notin claimed
  BY <1>1 DEF Hands
<1>4. worker.intent # pending
  <2>1. CASE worker.pc = "apply"
    BY <2>1, <1>1 DEF Hands
  <2>2. CASE worker.pc = "propose"
    BY <2>2 DEF Hands
  <2>3. CASE worker.pc \notin Holding
    BY <2>3 DEF TypeOK
  <2> QED
    BY <2>1, <2>2, <2>3 DEF Holding
<1>5. fate' \in [Ids -> Fates]
  BY <1>1 DEF TypeOK, Fates, Settled
<1>6. fate'[pending] = f /\ \A i \in Ids : i # pending => fate'[i] = fate[i]
  BY <1>1 DEF TypeOK
<1> QED
  BY <1>1, <1>2, <1>3, <1>4, <1>5, <1>6 DEF AppliedOnce

LEMMA HastyType ==
    ASSUME TypeOK, [Next]_vars
    PROVE  hasty' \in BOOLEAN
<1>1. hasty \in BOOLEAN
  BY DEF TypeOK
<1>2. CASE WorkerStep
  BY <1>2 DEF WorkerStep, Act
<1>3. CASE \/ \E mode \in Modes \ {"STANDBY"} : SetMode(mode)
           \/ EyeCareBreak \/ EyeCareResume
  BY <1>3 DEF SetMode, EyeCareBreak, EyeCareResume, Press, Act, Counted
<1>4. CASE Accept \/ Reject
  BY <1>4 DEF Accept, Reject, Request, Act
<1>5. CASE UNCHANGED hasty
  BY <1>1, <1>5
<1>6. CASE (\E i \in Ids : RequestApplies(i)) \/ Restart \/ UNCHANGED vars
  BY <1>5, <1>6 DEF RequestApplies, Restart, vars
<1>7. CASE NextDay \/ IntentExpires \/ OverrideEnds \/ SnoozeEnds
  BY <1>5, <1>7 DEF NextDay, IntentExpires, OverrideEnds, SnoozeEnds
<1> QED
  BY <1>2, <1>3, <1>4, <1>6, <1>7 DEF Next

LEMMA UserStep ==
    ASSUME IInv, hasty' \in BOOLEAN,
           \/ \E mode \in Modes \ {"STANDBY"} : SetMode(mode)
           \/ EyeCareBreak \/ EyeCareResume
    PROVE  IInv'
<1> USE DEF IInv, Press
<1> today \in Dates /\ Rolled(today) \in Session /\ Rolled(today).mode \in Modes
  BY RolledType DEF TypeOK, Session
<1>1. presses' \in 0 .. MaxPresses
  BY BoundsAssumption DEF TypeOK, SetMode, EyeCareBreak, EyeCareResume, Counted
<1>2. CASE \E mode \in Modes \ {"STANDBY"} : SetMode(mode)
  <2> PICK mode \in Modes \ {"STANDBY"} : SetMode(mode)
    BY <1>2
  <2>1. cur' \in Session /\ date' \in Dates
    <3>1. Begin(mode, "MANUAL") /\ "MANUAL" \in Origins
      BY DEF SetMode, Origins
    <3> QED BY <3>1, BeginType
  <2>2. /\ pending' \in Ids \cup {None} /\ late' \in BOOLEAN
        /\ fate' \in [Ids -> Fates]
        /\ Hands' /\ Ledger' /\ AppliedOnce'
    <3>1. Cleared /\ UNCHANGED <<claimed, worker, ended>>
      BY DEF SetMode
    <3> QED BY <3>1, ClearingKeeps
  <2> QED
    BY <1>1, <2>1, <2>2 DEF SetMode, TypeOK
<1>3. CASE EyeCareBreak
  <2>1. cur' \in Session /\ date' \in Dates
    <3>1. Begin("BREAK", "EYE_CARE") /\ "EYE_CARE" \in Origins /\ "BREAK" \in Modes
      BY <1>3 DEF EyeCareBreak, Origins, Modes
    <3> QED BY <3>1, BeginType
  <2>2. /\ pending' \in Ids \cup {None} /\ late' \in BOOLEAN
        /\ fate' \in [Ids -> Fates]
        /\ Hands' /\ Ledger' /\ AppliedOnce'
    <3>1. Cleared /\ UNCHANGED <<claimed, worker, ended>>
      BY <1>3 DEF EyeCareBreak
    <3> QED BY <3>1, ClearingKeeps
  <2> QED
    BY <1>1, <1>3, <2>1, <2>2 DEF EyeCareBreak, TypeOK
<1>4. CASE EyeCareResume
  <2>1. cur' \in Session
    BY <1>4 DEF EyeCareResume, TypeOK, Session, Origins
  <2>2. /\ UNCHANGED <<today, date, back, snoozed, pending, late, claimed, worker,
                       intents, fate, ended, crashes>>
        /\ override' \in BOOLEAN
    BY <1>4 DEF EyeCareResume
  <2>3. TypeOK'
    BY <1>1, <2>1, <2>2 DEF TypeOK
  <2> QED
    BY <2>2, <2>3 DEF Hands, Ledger, AppliedOnce
<1> QED
  BY <1>2, <1>3, <1>4

LEMMA RequestStep ==
    ASSUME IInv, hasty' \in BOOLEAN, Accept \/ Reject
    PROVE  IInv'
<1> USE DEF IInv
<1>1. /\ pending # None
      /\ UNCHANGED <<today, date, cur, back, override, worker, intents, ended,
                     presses, crashes>>
      /\ snoozed' \in BOOLEAN
  BY DEF Accept, Reject, Request, TypeOK
<1>2. CASE Take(pending, "claimed") /\ claimed' = claimed \cup {pending}
  <2>1. /\ pending \in Ids /\ pending' = None /\ late' = FALSE
        /\ fate' \in [Ids -> Fates] /\ fate'[pending] = "claimed"
        /\ \A i \in Ids : i # pending => fate'[i] = fate[i]
        /\ fate[pending] = "pending" /\ pending \notin claimed /\ worker.intent # pending
        /\ Ledger' /\ AppliedOnce'
    BY <1>1, <1>2, TakingKeeps
  <2>2. TypeOK'
    BY <1>1, <1>2, <2>1 DEF TypeOK
  <2>3. Hands'
    BY <1>1, <1>2, <2>1 DEF Hands, TypeOK, Worker, Holding, None
  <2> QED BY <2>1, <2>2, <2>3
<1>3. CASE /\ \E f \in {"dismissed", "rejected"} : Take(pending, f)
           /\ UNCHANGED claimed
  <2> PICK f \in {"dismissed", "rejected"} : Take(pending, f)
    BY <1>3
  <2>1. /\ pending \in Ids /\ pending' = None /\ late' = FALSE
        /\ fate' \in [Ids -> Fates]
        /\ \A i \in Ids : i # pending => fate'[i] = fate[i]
        /\ fate[pending] = "pending" /\ pending \notin claimed /\ worker.intent # pending
        /\ Ledger' /\ AppliedOnce'
    BY <1>1, TakingKeeps
  <2>2. TypeOK'
    BY <1>1, <1>3, <2>1 DEF TypeOK
  <2>3. Hands'
    BY <1>1, <1>3, <2>1 DEF Hands, TypeOK, Worker, Holding, None
  <2> QED BY <2>1, <2>2, <2>3
<1>4. CASE Accept
  BY <1>2, <1>3, <1>4 DEF Accept
<1>5. CASE Reject
  BY <1>2, <1>3, <1>5 DEF Reject, Rejected
<1> QED
  BY <1>4, <1>5

LEMMA RequestAppliesStep ==
    ASSUME IInv, hasty' \in BOOLEAN, NEW i \in Ids, RequestApplies(i)
    PROVE  IInv'
<1> USE DEF IInv
<1>1. /\ i \in claimed /\ claimed' = claimed \ {i}
      /\ ApplyNow(i, intents[i].kind)
      /\ UNCHANGED <<today, back, pending, late, worker, intents, presses, crashes>>
  BY DEF RequestApplies
<1>2. fate[i] = "claimed" /\ fate[i] \notin Settled
  BY <1>1 DEF Hands, Settled
<1>3. /\ cur' \in Session /\ date' \in Dates
      /\ override' \in BOOLEAN /\ snoozed' \in BOOLEAN
      /\ fate' \in {[fate EXCEPT ![i] = "refused"], [fate EXCEPT ![i] = "applied"]}
      /\ \A e \in ended' : e.ses \in Session /\ e.by \in Ids
      /\ Ledger' /\ AppliedOnce'
  BY <1>1, <1>2, Application
<1>4. /\ fate' \in [Ids -> Fates]
      /\ \A j \in Ids : j # i => fate'[j] = fate[j]
  BY <1>3 DEF TypeOK, Fates, Settled
<1>5. TypeOK'
  BY <1>1, <1>3, <1>4 DEF TypeOK
<1>6. Hands'
  BY <1>1, <1>2, <1>4 DEF Hands, TypeOK, Worker, Holding, None
<1> QED
  BY <1>3, <1>5, <1>6

LEMMA WorkerExpireStep ==
    ASSUME IInv, hasty' \in BOOLEAN, WorkerExpire
    PROVE  IInv'
<1> USE DEF IInv
<1>1. /\ worker.pc = "expire" /\ worker.intent = None
      /\ UNCHANGED <<today, claimed, presses, crashes, date, cur, back, override,
                     snoozed, intents, ended>>
  BY DEF WorkerExpire, Elsewhere, TypeOK, Holding
<1>2. CASE Goto("tick") /\ UNCHANGED <<pending, late, fate>>
  <2>1. worker' = [worker EXCEPT !.pc = "tick"]
    BY <1>2 DEF Goto
  <2>2. TypeOK'
    BY <1>1, <1>2, <2>1 DEF TypeOK, Worker, Points, Holding
  <2>3. Hands'
    BY <1>1, <1>2, <2>1 DEF Hands, TypeOK, Worker
  <2> QED
    BY <1>1, <1>2, <2>2, <2>3 DEF Ledger, AppliedOnce
<1>3. CASE /\ pending # None /\ Take(pending, "claimed")
           /\ worker' = [worker EXCEPT !.pc = "apply", !.intent = pending]
  <2>1. /\ pending \in Ids /\ pending' = None /\ late' = FALSE
        /\ fate' \in [Ids -> Fates] /\ fate'[pending] = "claimed"
        /\ \A i \in Ids : i # pending => fate'[i] = fate[i]
        /\ fate[pending] = "pending" /\ pending \notin claimed
        /\ Ledger' /\ AppliedOnce'
    BY <1>1, <1>3, TakingKeeps
  <2>2. TypeOK'
    BY <1>1, <1>3, <2>1 DEF TypeOK, Worker, Points, Holding
  <2>3. worker'.pc = "apply" /\ worker'.intent = pending
    BY <1>3 DEF TypeOK, Worker
  <2>4. Hands'
    BY <1>1, <2>1, <2>3 DEF Hands, TypeOK
  <2> QED BY <2>1, <2>2, <2>4
<1>4. CASE pending # None /\ Take(pending, "dismissed") /\ Goto("tick")
  <2>1. /\ pending \in Ids /\ pending' = None /\ late' = FALSE
        /\ fate' \in [Ids -> Fates]
        /\ \A i \in Ids : i # pending => fate'[i] = fate[i]
        /\ pending \notin claimed
        /\ Ledger' /\ AppliedOnce'
    BY <1>1, <1>4, TakingKeeps
  <2>2. worker' = [worker EXCEPT !.pc = "tick"]
    BY <1>4 DEF Goto
  <2>3. TypeOK'
    BY <1>1, <2>1, <2>2 DEF TypeOK, Worker, Points, Holding
  <2>4. Hands'
    BY <1>1, <2>1, <2>2 DEF Hands, TypeOK, Worker
  <2> QED BY <2>1, <2>3, <2>4
<1> QED
  BY <1>2, <1>3, <1>4 DEF WorkerExpire, ExpiredAt

LEMMA WorkerApplyStep ==
    ASSUME IInv, hasty' \in BOOLEAN, WorkerApply
    PROVE  IInv'
<1> USE DEF IInv
<1> DEFINE i == worker.intent
<1>1. /\ worker.pc = "apply" /\ i \in Ids
      /\ fate[i] = "claimed" /\ fate[i] \notin Settled /\ i \notin claimed
  BY DEF WorkerApply, TypeOK, Worker, Holding, Hands, Settled
<1>2. /\ ApplyNow(i, intents[i].kind)
      /\ worker' = [worker EXCEPT !.pc = "tick", !.intent = None]
      /\ UNCHANGED <<today, claimed, presses, crashes, back, pending, late, intents>>
  BY DEF WorkerApply, Drop, Elsewhere
<1> HIDE DEF i
<1>3. /\ cur' \in Session /\ date' \in Dates
      /\ override' \in BOOLEAN /\ snoozed' \in BOOLEAN
      /\ fate' \in {[fate EXCEPT ![i] = "refused"], [fate EXCEPT ![i] = "applied"]}
      /\ \A e \in ended' : e.ses \in Session /\ e.by \in Ids
      /\ Ledger' /\ AppliedOnce'
  BY <1>1, <1>2, Application
<1>4. /\ fate' \in [Ids -> Fates]
      /\ \A j \in Ids : j # i => fate'[j] = fate[j]
  BY <1>1, <1>3 DEF TypeOK, Fates, Settled
<1>5. worker' \in Worker /\ worker'.pc = "tick" /\ worker'.intent = None
  BY <1>2 DEF TypeOK, Worker, Points
<1>6. TypeOK'
  BY <1>2, <1>3, <1>4, <1>5 DEF TypeOK, Holding
<1>7. Hands'
  <2>1. pending # None => pending # i
    BY <1>1 DEF Hands
  <2> QED
    BY <1>1, <1>2, <1>4, <1>5, <2>1 DEF Hands, TypeOK
<1> QED
  BY <1>3, <1>6, <1>7

LEMMA WorkerTickStep ==
    ASSUME IInv, hasty' \in BOOLEAN, WorkerTick
    PROVE  IInv'
<1> USE DEF IInv
<1> PICK away \in BOOLEAN :
      /\ worker' = [worker EXCEPT !.pc = "look", !.away = away]
      /\ Roll(worker.day)
      /\ IF ~away /\ pending # None /\ intents[pending].kind = "PAUSE"
         THEN Take(pending, "cancelled")
         ELSE UNCHANGED <<pending, late, fate>>
  BY DEF WorkerTick
<1>1. /\ worker.pc = "tick" /\ worker.intent = None
      /\ UNCHANGED <<today, claimed, presses, crashes, back, override, snoozed,
                     intents, ended>>
  BY DEF WorkerTick, Elsewhere, TypeOK, Holding
<1>2. cur' \in Session /\ date' \in Dates
  <2>1. worker.day \in Dates
    BY DEF TypeOK, Worker
  <2> QED
    BY <2>1, RolledType DEF Roll
<1>3. worker' \in Worker /\ worker'.pc = "look" /\ worker'.intent = None
  BY <1>1 DEF TypeOK, Worker, Points
<1>4. CASE UNCHANGED <<pending, late, fate>>
  <2>1. TypeOK'
    BY <1>1, <1>2, <1>3, <1>4 DEF TypeOK, Holding
  <2>2. Hands'
    BY <1>1, <1>3, <1>4 DEF Hands
  <2> QED
    BY <1>1, <1>4, <2>1, <2>2 DEF Ledger, AppliedOnce
<1>5. CASE pending # None /\ Take(pending, "cancelled")
  <2>1. /\ pending \in Ids /\ pending' = None /\ late' = FALSE
        /\ fate' \in [Ids -> Fates]
        /\ \A i \in Ids : i # pending => fate'[i] = fate[i]
        /\ pending \notin claimed
        /\ Ledger' /\ AppliedOnce'
    BY <1>1, <1>5, TakingKeeps
  <2>2. TypeOK'
    BY <1>1, <1>2, <1>3, <2>1 DEF TypeOK, Holding
  <2>3. Hands'
    BY <1>1, <1>3, <2>1 DEF Hands, TypeOK
  <2> QED BY <2>1, <2>2, <2>3
<1> QED
  BY <1>4, <1>5

LEMMA WorkerLookStep ==
    ASSUME IInv, hasty' \in BOOLEAN, WorkerLook
    PROVE  IInv'
<1> USE DEF IInv
<1>1. /\ worker.pc = "look" /\ worker.intent = None
      /\ UNCHANGED <<today, claimed, presses, crashes, date, cur, back, override,
                     snoozed, pending, late, ended>>
  BY DEF WorkerLook, Elsewhere, Manager, TypeOK, Holding
<1>2. CASE Goto("wake") /\ UNCHANGED <<intents, fate>>
  <2>1. /\ worker' = [worker EXCEPT !.pc = "wake"]
        /\ worker' \in Worker
    BY <1>2 DEF Goto, TypeOK, Worker, Points
  <2>2. TypeOK'
    BY <1>1, <1>2, <2>1 DEF TypeOK, Worker, Holding
  <2>3. Hands'
    BY <1>1, <1>2, <2>1 DEF Hands, TypeOK, Worker
  <2> QED
    BY <1>1, <1>2, <2>2, <2>3 DEF Ledger, AppliedOnce
<1>3. ASSUME NEW i \in Ids, NEW kind \in Kinds, NEW confirm \in BOOLEAN,
             NextId(i), Proposable(kind),
             intents' = [intents EXCEPT ![i] =
                            [kind |-> kind, on |-> cur.n, confirm |-> confirm]],
             Settle(i, "proposed"),
             worker' = [worker EXCEPT !.pc = "propose", !.intent = i]
      PROVE  IInv'
  <2>1. /\ fate[i] = "none" /\ pending = None
        /\ fate' = [fate EXCEPT ![i] = "proposed"]
    BY <1>3 DEF NextId, Proposable, Settle
  <2>2. fate' \in [Ids -> Fates] /\ fate'[i] = "proposed"
    BY <2>1 DEF TypeOK, Fates
  <2>3. \A j \in Ids : j # i => fate'[j] = fate[j]
    BY <2>1 DEF TypeOK
  <2>4. intents' \in [Ids -> Intent \cup {NoIntent}]
    BY <1>3 DEF TypeOK, Intent, Session
  <2>5. worker' \in Worker /\ worker'.pc = "propose" /\ worker'.intent = i
    BY <1>3 DEF TypeOK, Worker, Points
  <2>6. i # None
    BY DEF Ids, None
  <2>7. TypeOK'
    BY <1>1, <2>2, <2>4, <2>5, <2>6 DEF TypeOK, Holding
  <2>8. Hands'
    BY <1>1, <2>1, <2>2, <2>3, <2>5 DEF Hands, TypeOK
  <2>9. Ledger'
    BY <1>1, <2>1, DecisionKeepsLedger
  <2> QED
    BY <1>1, <2>7, <2>8, <2>9 DEF AppliedOnce
<1> QED
  BY <1>2, <1>3 DEF WorkerLook

LEMMA WorkerProposeStep ==
    ASSUME IInv, hasty' \in BOOLEAN, WorkerPropose
    PROVE  IInv'
<1> USE DEF IInv
<1> DEFINE i == worker.intent
<1>1. /\ worker.pc = "propose" /\ i \in Ids /\ i # None
      /\ fate[i] = "proposed" /\ fate[i] \notin Settled /\ pending = None
      /\ i \notin claimed
  BY DEF WorkerPropose, TypeOK, Worker, Holding, Hands, Settled
<1>2. /\ worker' = [worker EXCEPT !.pc = "wake", !.intent = None]
      /\ UNCHANGED <<today, claimed, presses, crashes, back, intents>>
  BY DEF WorkerPropose, Drop, Elsewhere
<1>3. worker' \in Worker /\ worker'.pc = "wake" /\ worker'.intent = None
  BY <1>2 DEF TypeOK, Worker, Points
<1>4. CASE /\ pending' = i /\ late' = FALSE /\ Settle(i, "pending")
           /\ UNCHANGED <<date, cur, override, snoozed, ended>>
  <2> HIDE DEF i
  <2>1. fate' = [fate EXCEPT ![i] = "pending"]
    BY <1>4 DEF Settle
  <2>2. /\ fate' \in [Ids -> Fates] /\ fate'[i] = "pending"
        /\ \A j \in Ids : j # i => fate'[j] = fate[j]
    BY <1>1, <2>1 DEF TypeOK, Fates
  <2>3. TypeOK'
    BY <1>1, <1>2, <1>3, <1>4, <2>2 DEF TypeOK, Holding
  <2>4. Hands'
    BY <1>1, <1>2, <1>3, <1>4, <2>2 DEF Hands, TypeOK
  <2>5. Ledger'
    BY <1>1, <1>4, <2>1, DecisionKeepsLedger
  <2> QED
    BY <1>4, <2>3, <2>4, <2>5 DEF AppliedOnce
<1>5. CASE ApplyNow(i, intents[i].kind) /\ UNCHANGED <<pending, late>>
  <2> HIDE DEF i
  <2>1. /\ cur' \in Session /\ date' \in Dates
        /\ override' \in BOOLEAN /\ snoozed' \in BOOLEAN
        /\ fate' \in {[fate EXCEPT ![i] = "refused"], [fate EXCEPT ![i] = "applied"]}
        /\ \A e \in ended' : e.ses \in Session /\ e.by \in Ids
        /\ Ledger' /\ AppliedOnce'
    BY <1>1, <1>5, Application
  <2>2. /\ fate' \in [Ids -> Fates]
        /\ \A j \in Ids : j # i => fate'[j] = fate[j]
    BY <1>1, <2>1 DEF TypeOK, Fates, Settled
  <2>3. TypeOK'
    BY <1>2, <1>3, <1>5, <2>1, <2>2 DEF TypeOK, Holding
  <2>4. Hands'
    BY <1>1, <1>2, <1>3, <1>5, <2>2 DEF Hands, TypeOK
  <2> QED BY <2>1, <2>3, <2>4
<1> QED
  BY <1>4, <1>5 DEF WorkerPropose

LEMMA RestartStep ==
    ASSUME IInv, hasty' \in BOOLEAN, Restart
    PROVE  IInv'
<1> USE DEF IInv
<1>1. /\ cur' \in Session /\ date' \in Dates /\ crashes' \in 0 .. MaxCrashes
      /\ override' = FALSE /\ snoozed' = FALSE /\ pending' = None /\ late' = FALSE
      /\ claimed' = {}
      /\ UNCHANGED <<today, back, intents, ended, presses>>
  <2>1. cur.n + 1 \in Nat /\ today \in Dates
    BY DEF TypeOK, Session
  <2>2. cur' \in Session
    BY <2>1 DEF Restart, TypeOK, Session, Modes, Origins
  <2> QED
    BY <2>1, <2>2, BoundsAssumption DEF Restart, TypeOK
<1>2. worker' \in Worker /\ worker'.pc = "wake" /\ worker'.intent = None
  BY DEF Restart, WorkerAfterCrash, RestWorker, TypeOK, Worker, Points
<1>3. fate' \in [Ids -> Fates]
  BY DEF Restart, TypeOK, Fates, Settled
<1>4. \A i \in Ids : fate[i] \in Settled => fate'[i] = fate[i]
  BY DEF Restart
<1>5. TypeOK'
  BY <1>1, <1>2, <1>3 DEF TypeOK, Holding
<1>6. Hands'
  BY <1>1, <1>2 DEF Hands
<1>7. Ledger'
  BY <1>1, <1>4 DEF Ledger, Settled
<1> QED
  BY <1>1, <1>5, <1>6, <1>7 DEF AppliedOnce

LEMMA PassiveStep ==
    ASSUME IInv, hasty' \in BOOLEAN,
           \/ WorkerWake \/ NextDay \/ IntentExpires \/ OverrideEnds \/ SnoozeEnds
           \/ UNCHANGED vars
    PROVE  IInv' /\ fate' = fate
<1> USE DEF IInv
<1>1. CASE WorkerWake
  <2>1. /\ worker.intent = None
        /\ UNCHANGED <<date, cur, back, override, snoozed, pending, late, today,
                       claimed, presses, crashes, intents, fate, ended>>
    BY <1>1 DEF WorkerWake, Manager, Elsewhere, TypeOK, Holding
  <2>2. worker' \in Worker /\ worker'.pc = "expire" /\ worker'.intent = None
    BY <1>1, <2>1 DEF WorkerWake, TypeOK, Worker, Points
  <2> QED
    BY <2>1, <2>2 DEF TypeOK, Hands, Ledger, AppliedOnce, Holding
<1>2. CASE NextDay
  BY <1>2, BoundsAssumption
     DEF NextDay, Manager, Dates, TypeOK, Hands, Ledger, AppliedOnce
<1>3. CASE IntentExpires \/ OverrideEnds \/ SnoozeEnds
  BY <1>3 DEF IntentExpires, OverrideEnds, SnoozeEnds, TypeOK, Hands, Ledger, AppliedOnce
<1>4. CASE UNCHANGED vars
  BY <1>4 DEF vars, TypeOK, Hands, Ledger, AppliedOnce
<1> QED
  BY <1>1, <1>2, <1>3, <1>4

LEMMA StepInvariant == IInv /\ [Next]_vars => IInv'
<1> SUFFICES ASSUME IInv, [Next]_vars PROVE IInv'
  OBVIOUS
<1> hasty' \in BOOLEAN
  BY HastyType DEF IInv
<1>1. CASE \/ \E mode \in Modes \ {"STANDBY"} : SetMode(mode)
           \/ EyeCareBreak \/ EyeCareResume
  BY <1>1, UserStep
<1>2. CASE Accept \/ Reject
  BY <1>2, RequestStep
<1>3. CASE \E i \in Ids : RequestApplies(i)
  BY <1>3, RequestAppliesStep
<1>4. CASE WorkerStep
  BY <1>4, PassiveStep, WorkerExpireStep, WorkerApplyStep, WorkerTickStep,
     WorkerLookStep, WorkerProposeStep DEF WorkerStep
<1>5. CASE NextDay \/ IntentExpires \/ OverrideEnds \/ SnoozeEnds \/ UNCHANGED vars
  BY <1>5, PassiveStep
<1>6. CASE Restart
  BY <1>6, RestartStep
<1> QED
  BY <1>1, <1>2, <1>3, <1>4, <1>5, <1>6 DEF Next

LEMMA Invariance == Spec => []IInv
BY InitInvariant, StepInvariant, PTL DEF Spec

----------------------------------------------------------------------------
(* Theorems *)

\* The manager's variables keep their types, and the worker holds an intent
\* exactly while it is to apply or record one.
THEOREM TypeCorrect == Spec => []TypeOK
<1>1. IInv => TypeOK
  BY DEF IInv
<1> QED
  BY <1>1, Invariance, PTL

\* No intent changes the mode twice, whatever the number of requests that
\* accept or reject it while the worker finds it expired.
THEOREM ExactlyOnce == Spec => []AppliedOnce
<1>1. IInv => AppliedOnce
  BY DEF IInv
<1> QED
  BY <1>1, Invariance, PTL

\* The automation ends none but its own breaks.
THEOREM UsersBreaksAreSafe == Spec => []UsersBreakIsKept
<1>1. IInv => UsersBreakIsKept
  BY DEF IInv, Ledger, UsersBreakIsKept
<1> QED
  BY <1>1, Invariance, PTL

\* A snapshot in which nothing is pending is still good when the worker acts
\* on it: nobody else records intents.
THEOREM NoIntentIsReplaced == Spec => []NothingElsePending
<1>1. IInv => NothingElsePending
  BY DEF IInv, Hands, NothingElsePending
<1> QED
  BY <1>1, Invariance, PTL

LEMMA DecidesTheUndecided ==
    ASSUME IInv, [Next]_vars
    PROVE  \A i \in Ids : fate[i] \in Settled => fate'[i] = fate[i]
<1> USE DEF IInv
<1> hasty' \in BOOLEAN
  BY HastyType
\* Whatever changes fate does so at one intent, which is not settled.
<1> DEFINE Decides(i) == \E f : fate' = [fate EXCEPT ![i] = f]
<1>1. ASSUME NEW j \in Ids, fate[j] \notin Settled, Decides(j)
      PROVE  \A i \in Ids : fate[i] \in Settled => fate'[i] = fate[i]
  BY <1>1 DEF TypeOK
<1>2. pending # None => pending \in Ids /\ fate[pending] \notin Settled
  BY DEF TypeOK, Hands, Settled
<1>3. ASSUME Cleared
      PROVE  \A i \in Ids : fate[i] \in Settled => fate'[i] = fate[i]
  <2>1. CASE pending = None
    BY <1>3, <2>1 DEF Cleared
  <2>2. CASE pending # None
    <3>1. Decides(pending)
      BY <1>3, <2>2 DEF Cleared, Settle
    <3> QED BY <1>1, <1>2, <2>2, <3>1
  <2> QED BY <2>1, <2>2
<1>4. ASSUME pending # None, NEW f, Take(pending, f)
      PROVE  \A i \in Ids : fate[i] \in Settled => fate'[i] = fate[i]
  <2>1. Decides(pending)
    BY <1>4 DEF Take, Settle
  <2> QED BY <1>1, <1>2, <1>4, <2>1
<1>5. ASSUME NEW j \in Ids, NEW kind, fate[j] \notin Settled, ApplyNow(j, kind)
      PROVE  \A i \in Ids : fate[i] \in Settled => fate'[i] = fate[i]
  <2>1. Decides(j)
    BY <1>5 DEF ApplyNow, Settle
  <2> QED BY <1>1, <1>5, <2>1
<1>6. CASE (\E mode \in Modes \ {"STANDBY"} : SetMode(mode)) \/ EyeCareBreak
  BY <1>3, <1>6 DEF SetMode, EyeCareBreak
<1>7. CASE EyeCareResume
  BY <1>7 DEF EyeCareResume
<1>8. CASE Accept \/ Reject
  BY <1>4, <1>8 DEF Accept, Reject, Rejected, Request
<1>9. CASE \E i \in Ids : RequestApplies(i)
  <2> PICK j \in Ids : RequestApplies(j)
    BY <1>9
  <2>1. ApplyNow(j, intents[j].kind) /\ fate[j] \notin Settled
    BY DEF RequestApplies, Hands, Settled
  <2> QED BY <1>5, <2>1
<1>10. CASE WorkerExpire
  BY <1>4, <1>10 DEF WorkerExpire, ExpiredAt
<1>11. CASE WorkerApply
  <2>1. /\ worker.intent \in Ids /\ fate[worker.intent] \notin Settled
        /\ ApplyNow(worker.intent, intents[worker.intent].kind)
    BY <1>11 DEF WorkerApply, TypeOK, Worker, Holding, Hands, Settled
  <2> QED BY <1>5, <2>1
<1>12. CASE WorkerTick
  BY <1>4, <1>12 DEF WorkerTick
<1>13. CASE WorkerLook
  <2>1. CASE UNCHANGED fate
    BY <2>1
  <2>2. CASE \E j \in Ids : NextId(j) /\ Settle(j, "proposed")
    <3> PICK j \in Ids : NextId(j) /\ Settle(j, "proposed")
      BY <2>2
    <3>1. fate[j] \notin Settled /\ Decides(j)
      BY DEF NextId, Settle, Settled
    <3> QED BY <1>1, <3>1
  <2> QED BY <1>13, <2>1, <2>2 DEF WorkerLook
<1>14. CASE WorkerPropose
  <2>1. worker.intent \in Ids /\ fate[worker.intent] \notin Settled
    BY <1>14 DEF WorkerPropose, TypeOK, Worker, Holding, Hands, Settled
  <2>2. CASE Settle(worker.intent, "pending")
    <3>1. Decides(worker.intent)
      BY <2>2 DEF Settle
    <3> QED BY <1>1, <2>1, <3>1
  <2>3. CASE ApplyNow(worker.intent, intents[worker.intent].kind)
    BY <1>5, <2>1, <2>3
  <2> QED BY <1>14, <2>2, <2>3 DEF WorkerPropose
<1>15. CASE WorkerWake \/ NextDay \/ IntentExpires \/ OverrideEnds \/ SnoozeEnds
            \/ UNCHANGED vars
  BY <1>15, PassiveStep
<1>16. CASE Restart
  BY <1>16 DEF Restart
<1> HIDE DEF Decides
<1> QED
  BY <1>6, <1>7, <1>8, <1>9, <1>10, <1>11, <1>12, <1>13, <1>14, <1>15, <1>16
     DEF Next, WorkerStep

\* A rejected, cancelled, dismissed, cleared, refused, lost or applied intent
\* stays so: no claimed copy of it comes back.
THEOREM SettlementIsFinal == Spec => SettledIsFinal
<1>1. IInv /\ [Next]_vars
        => [\A i \in Ids : fate[i] \in Settled => fate'[i] = fate[i]]_vars
  BY DecidesTheUndecided
<1> QED
  BY <1>1, Invariance, PTL DEF Spec, SettledIsFinal

----------------------------------------------------------------------------
(* When nobody is overtaken                                                *)
(* As long as no call fell between another's two (~hasty), one intent at   *)
(* most is in anybody's hand, the current session is still the one it was  *)
(* proposed for (or the day has ended), and while a pause is snoozed no    *)
(* pause is.                                                               *)

HeldNow == {i \in Ids : i \in claimed \/ i \in {pending, worker.intent}}
Fits(i) ==
    \/ intents[i].kind = "START"
    \/ cur.mode = "STANDBY"
    \/ intents[i].on = cur.n /\ Allowed(intents[i].kind, cur)

Calm ==
    ~hasty => /\ \A i, j \in HeldNow : i = j
              /\ \A i \in HeldNow : Fits(i)
              /\ snoozed => \A i \in HeldNow : intents[i].kind # "PAUSE"
              /\ \A e \in ended : intents[e.by].kind # "START"
                                   => e.ses.n = intents[e.by].on

\* hasty is never taken back, and tells what the step overtook.
LEMMA HastyGrows ==
    ASSUME TypeOK, [Next]_vars, ~hasty'
    PROVE  /\ ~hasty
           /\ (\E mode \in Modes \ {"STANDBY"} : SetMode(mode)) \/ EyeCareBreak \/ EyeCareResume
                \/ Accept \/ Reject => Quiet
           /\ WorkerStep => claimed = {}
<1>1. WorkerStep => ~hasty /\ claimed = {}
  BY DEF WorkerStep, Act
<1>2. (\E mode \in Modes \ {"STANDBY"} : SetMode(mode)) \/ EyeCareBreak \/ EyeCareResume
        => ~hasty /\ Quiet
  BY DEF SetMode, EyeCareBreak, EyeCareResume, Press, Act
<1>3. Accept \/ Reject => ~hasty /\ Quiet
  BY DEF Accept, Reject, Request, Act
<1>4. (\E i \in Ids : RequestApplies(i)) \/ Restart \/ UNCHANGED vars => ~hasty
  BY DEF RequestApplies, Restart, vars
<1>5. NextDay \/ IntentExpires \/ OverrideEnds \/ SnoozeEnds => ~hasty
  BY DEF NextDay, IntentExpires, OverrideEnds, SnoozeEnds
<1> QED
  BY <1>1, <1>2, <1>3, <1>4, <1>5 DEF Next

\* A step after which no more is in hand than before, in the same session or
\* after the end of the day, keeps Calm.
LEMMA LessInHand ==
    ASSUME IInv, Calm, ~hasty,
           HeldNow' \subseteq HeldNow, UNCHANGED <<ended, intents>>,
           \/ cur' = cur \/ cur'.mode = "STANDBY"
           \/ \A i \in HeldNow' : intents[i].kind = "START",
           snoozed' => snoozed \/ HeldNow' = {}
    PROVE  Calm'
<1>1. \A i \in HeldNow' : Fits(i)'
  BY DEF Calm, Fits, Allowed
<1> QED
  BY <1>1 DEF Calm

\* Once an intent is applied nothing is in hand; it ended its own session.
LEMMA AppliedInCalm ==
    ASSUME IInv, Calm, ~hasty, NEW i \in HeldNow, ApplyNow(i, intents[i].kind),
           HeldNow' = {}, intents' = intents
    PROVE  /\ Calm'
           /\ snoozed => \A e \in ended' \ ended : intents[e.by].kind # "PAUSE"
<1> DEFINE new == [ses |-> Rolled(today), by |-> i]
<1>1. ended' = ended
      \/ (ended' = ended \cup {new} /\ Allowed(intents[i].kind, Rolled(today)))
  BY DEF ApplyNow
<1>2. /\ \A e \in ended : intents[e.by].kind # "START" => e.ses.n = intents[e.by].on
      /\ Fits(i) /\ (snoozed => intents[i].kind # "PAUSE")
  BY DEF Calm
<1>3. Allowed(intents[i].kind, Rolled(today)) /\ intents[i].kind # "START"
        => Rolled(today) = cur /\ cur.mode # "STANDBY"
  BY DEF Allowed, Rolled
<1>4. ended' = ended \cup {new} /\ intents[i].kind # "START" => new.ses.n = intents[i].on
  BY <1>1, <1>2, <1>3 DEF Fits
<1>5. \A e \in ended' : intents[e.by].kind # "START" => e.ses.n = intents[e.by].on
  BY <1>1, <1>2, <1>4
<1>6. snoozed => \A e \in ended' \ ended : intents[e.by].kind # "PAUSE"
  BY <1>1, <1>2
<1> QED
  BY <1>5, <1>6 DEF Calm

\* What the user does while nobody is between two calls.
LEMMA UserInCalm ==
    ASSUME IInv, Calm, ~hasty, Quiet,
           \/ \E mode \in Modes \ {"STANDBY"} : SetMode(mode)
           \/ EyeCareBreak \/ EyeCareResume \/ Accept \/ Reject
    PROVE  Calm' /\ ended' = ended
<1>1. claimed = {} /\ worker.intent = None /\ None \notin Ids
  BY DEF Quiet, IInv, TypeOK, None, Ids
<1>2. CASE (\E mode \in Modes \ {"STANDBY"} : SetMode(mode)) \/ EyeCareBreak
  <2>1. UNCHANGED <<claimed, worker, intents, ended>> /\ pending' = None
    BY <1>2 DEF SetMode, EyeCareBreak, Press, Cleared
  <2>2. HeldNow' = {}
    BY <1>1, <2>1 DEF HeldNow
  <2> QED
    BY <2>1, <2>2, LessInHand
<1>3. CASE EyeCareResume
  <2>1. UNCHANGED <<claimed, worker, intents, ended, pending, snoozed>> /\ IsEye(cur)
    BY <1>3 DEF EyeCareResume, Press
  <2>2. HeldNow' = HeldNow
    BY <2>1 DEF HeldNow
  <2>3. \A i \in HeldNow : intents[i].kind = "START"
    BY <2>1 DEF Calm, Fits, Allowed, IsEye
  <2> QED
    BY <2>1, <2>2, <2>3, LessInHand
<1>4. CASE Accept \/ Reject
  <2>1. /\ pending # None /\ pending' = None
        /\ UNCHANGED <<cur, worker, intents, ended>>
        /\ claimed' = claimed \/ claimed' = claimed \cup {pending}
        /\ snoozed' = snoozed \/ claimed' = claimed
    BY <1>4 DEF Accept, Reject, Rejected, Request, Take
  <2>2. HeldNow' \subseteq HeldNow /\ (claimed' = claimed => HeldNow' = {})
    BY <1>1, <2>1 DEF HeldNow
  <2> QED
    BY <2>1, <2>2, LessInHand
<1> QED
  BY <1>2, <1>3, <1>4

\* What the worker does while no request is between its two calls.
LEMMA WorkerInCalm ==
    ASSUME IInv, Calm, ~hasty, claimed = {}, WorkerStep
    PROVE  /\ Calm'
           /\ snoozed => \A e \in ended' \ ended : intents[e.by].kind # "PAUSE"
<1>1. /\ None \notin Ids /\ claimed' = {} /\ worker \in Worker
      /\ worker.pc \in Holding <=> worker.intent # None
      /\ pending \in Ids \cup {None}
  <2>1. UNCHANGED claimed
    BY DEF WorkerStep, WorkerWake, WorkerExpire, WorkerApply, WorkerTick, WorkerLook,
           WorkerPropose, Elsewhere
  <2> QED
    BY <2>1 DEF IInv, TypeOK, None, Ids
<1>2. CASE WorkerWake
  <2>1. /\ worker'.intent = worker.intent
        /\ UNCHANGED <<cur, snoozed, pending, intents, ended>>
    BY <1>1, <1>2 DEF WorkerWake, Manager, Worker
  <2> QED
    BY <1>1, <2>1, LessInHand DEF HeldNow
<1>3. CASE WorkerExpire
  <2>1. /\ UNCHANGED <<cur, snoozed, intents, ended>>
        /\ \/ pending' = pending /\ worker'.intent = worker.intent
           \/ pending' = None /\ worker'.intent \in {pending, worker.intent}
    BY <1>1, <1>3 DEF WorkerExpire, Goto, Take, Worker
  <2> QED
    BY <1>1, <2>1, LessInHand DEF HeldNow
<1>4. CASE WorkerApply
  <2>1. /\ worker.intent \in HeldNow /\ ApplyNow(worker.intent, intents[worker.intent].kind)
        /\ worker'.intent = None /\ pending' = pending /\ intents' = intents
        /\ fate[worker.intent] = "claimed"
    BY <1>1, <1>4 DEF WorkerApply, Drop, HeldNow, Worker, Holding, IInv, Hands
  <2>2. pending # worker.intent
    BY <1>1, <2>1 DEF IInv, Hands, HeldNow
  <2>3. HeldNow' = {}
    BY <1>1, <2>1, <2>2 DEF Calm, HeldNow
  <2> QED
    BY <2>1, <2>3, AppliedInCalm
<1>5. CASE WorkerTick
  <2>1. /\ UNCHANGED <<snoozed, intents, ended>> /\ worker'.intent = worker.intent
        /\ pending' \in {pending, None}
        /\ cur' = cur \/ cur'.mode = "STANDBY"
    BY <1>1, <1>5 DEF WorkerTick, Roll, Rolled, Take, Worker
  <2> QED
    BY <1>1, <2>1, LessInHand DEF HeldNow
<1>6. CASE WorkerLook
  <2>1. UNCHANGED <<cur, snoozed, pending, ended>>
    BY <1>6 DEF WorkerLook, Manager
  <2>2. CASE worker'.intent = worker.intent /\ intents' = intents
    BY <1>1, <2>1, <2>2, LessInHand DEF HeldNow
  <2>3. ASSUME NEW i \in Ids, NEW kind \in Kinds, NEW confirm \in BOOLEAN,
               NextId(i), Proposable(kind),
               intents' = [intents EXCEPT ![i] =
                              [kind |-> kind, on |-> cur.n, confirm |-> confirm]],
               worker' = [worker EXCEPT !.pc = "propose", !.intent = i]
        PROVE  Calm' /\ ended' = ended
    <3>1. /\ intents'[i].kind = kind /\ intents'[i].on = cur.n
          /\ \A j \in Ids : j # i => intents'[j] = intents[j]
      BY <2>3 DEF IInv, TypeOK
    <3>2. HeldNow' = {i}
      BY <1>1, <2>1, <2>3 DEF HeldNow, Proposable, Worker
    <3>3. kind = "START" \/ Allowed(kind, cur)
      BY <2>3 DEF Proposable, Allowed, Kinds
    <3>4. Fits(i)'
      BY <2>1, <3>1, <3>3 DEF Fits
    <3>5. snoozed' => intents'[i].kind # "PAUSE"
      BY <2>1, <2>3, <3>1 DEF Proposable
    <3>6. \A e \in ended : e.by \in Ids /\ e.by # i
      BY <2>3 DEF IInv, Ledger, NextId
    <3>7. \A e \in ended' : intents'[e.by].kind # "START" => e.ses.n = intents'[e.by].on
      BY <2>1, <3>1, <3>6 DEF Calm
    <3> QED
      BY <2>1, <3>2, <3>4, <3>5, <3>7 DEF Calm
  <2> QED
    BY <1>1, <1>6, <2>1, <2>2, <2>3 DEF WorkerLook, Goto, Worker
<1>7. CASE WorkerPropose
  <2> DEFINE i == worker.intent
  <2>1. /\ i \in HeldNow /\ pending = None /\ worker'.intent = None /\ intents' = intents
    BY <1>1, <1>7 DEF WorkerPropose, Drop, HeldNow, Worker, Holding, IInv, Hands
  <2>2. CASE pending' = i /\ UNCHANGED <<cur, snoozed, ended>>
    <3>1. HeldNow' \subseteq HeldNow
      BY <1>1, <2>1, <2>2 DEF HeldNow
    <3> QED
      BY <2>1, <2>2, <3>1, LessInHand
  <2>3. CASE ApplyNow(i, intents[i].kind) /\ pending' = pending
    <3>1. HeldNow' = {}
      BY <1>1, <2>1, <2>3 DEF HeldNow
    <3> QED
      BY <2>1, <2>3, <3>1, AppliedInCalm
  <2> QED
    BY <1>7, <2>2, <2>3 DEF WorkerPropose
<1> QED
  BY <1>2, <1>3, <1>4, <1>5, <1>6, <1>7 DEF WorkerStep

\* Every step keeps Calm, and while a pause is snoozed none is applied.
LEMMA CalmStep ==
    ASSUME IInv, Calm, [Next]_vars
    PROVE  /\ Calm'
           /\ snoozed /\ ~hasty'
                => \A e \in ended' \ ended : intents[e.by].kind # "PAUSE"
<1>1. CASE hasty'
  BY <1>1 DEF Calm
<1>2. CASE ~hasty'
  <2>1. ~hasty
    BY <1>2, HastyGrows DEF IInv
  <2>2. CASE \/ \E mode \in Modes \ {"STANDBY"} : SetMode(mode)
             \/ EyeCareBreak \/ EyeCareResume \/ Accept \/ Reject
    BY <1>2, <2>1, <2>2, HastyGrows, UserInCalm DEF IInv
  <2>3. CASE WorkerStep
    BY <1>2, <2>1, <2>3, HastyGrows, WorkerInCalm DEF IInv
  <2>4. CASE \E i \in Ids : RequestApplies(i)
    <3> PICK i \in Ids : RequestApplies(i)
      BY <2>4
    <3>1. /\ i \in claimed /\ claimed' = claimed \ {i}
          /\ ApplyNow(i, intents[i].kind) /\ UNCHANGED <<pending, worker, intents>>
      BY DEF RequestApplies
    <3>2. i \in HeldNow /\ fate[i] = "claimed"
      BY <3>1 DEF HeldNow, IInv, Hands
    <3>3. i # pending /\ i # worker.intent
      BY <3>1, <3>2 DEF IInv, Hands, TypeOK, Worker, Holding, None, Ids
    <3>4. HeldNow' = {}
      BY <2>1, <3>1, <3>2, <3>3 DEF Calm, HeldNow
    <3> QED
      BY <2>1, <3>1, <3>2, <3>4, AppliedInCalm
  <2>5. CASE NextDay \/ IntentExpires \/ OverrideEnds \/ SnoozeEnds \/ UNCHANGED vars
    <3>1. /\ UNCHANGED <<cur, pending, claimed, worker, intents, ended>>
          /\ snoozed' => snoozed
      BY <2>5 DEF NextDay, IntentExpires, OverrideEnds, SnoozeEnds, Manager, vars
    <3>2. HeldNow' = HeldNow
      BY <3>1 DEF HeldNow
    <3> QED
      BY <2>1, <3>1, <3>2, LessInHand
  <2>6. CASE Restart
    <3>1. /\ claimed' = {} /\ pending' = None /\ worker'.intent = None
          /\ UNCHANGED <<intents, ended>> /\ snoozed' = FALSE
      BY <2>6 DEF Restart, WorkerAfterCrash, RestWorker
    <3>2. HeldNow' = {}
      BY <3>1 DEF HeldNow, None, Ids
    <3> QED
      BY <2>1, <3>1, <3>2, LessInHand
  <2> QED
    BY <2>2, <2>3, <2>4, <2>5, <2>6 DEF Next
<1> QED
  BY <1>1, <1>2

LEMMA CalmInvariance == Spec => [](IInv /\ Calm)
<1>1. Init => Calm
  BY DEF Init, Calm, HeldNow, RestWorker, None, Ids
<1>2. IInv /\ Calm /\ [Next]_vars => Calm'
  BY CalmStep
<1> QED
  BY <1>1, <1>2, InitInvariant, StepInvariant, PTL DEF Spec

\* A pause or a resumption ends the session the controller proposed it for, as
\* long as nobody acts between another's claim or snapshot and the application.
THEOREM OwnSessionEnds == Spec => []EndsItsOwnSession
<1>1. Calm => EndsItsOwnSession
  BY DEF Calm, EndsItsOwnSession
<1> QED
  BY <1>1, CalmInvariance, PTL

\* While the pause the user rejected is snoozed no pause is applied, not even one
\* that was claimed or proposed before; in histories in which nobody has acted
\* between another's claim or snapshot and the application (~hasty).
THEOREM RejectionIsRespected == Spec => SnoozeIsKept
<1>1. IInv /\ Calm /\ [Next]_vars
        => [snoozed /\ ~hasty' => \A e \in ended' \ ended :
                     intents[e.by].kind # "PAUSE"]_vars
  BY CalmStep
<1> QED
  BY <1>1, CalmInvariance, PTL DEF Spec, SnoozeIsKept

----------------------------------------------------------------------------
(* The refinement: each step of the manager, its worker and the requests is, *)
(* on one intent, a step of IntentLifecycle, or leaves it as it is.  IInv     *)
(* says which stage an intent in some hand is in; without it the application  *)
(* of an intent might find it over already, or still asked about.             *)

LStep == [Lifecycle!LNext]_(Lifecycle!ivars)

----------------------------------------------------------------------------
(* One lemma per step of the life cycle *)

\* A new fate of one intent is a new stage of that intent.
LEMMA FateIsStage ==
    ASSUME TypeOK, NEW i \in Ids, NEW f, fate' = [fate EXCEPT ![i] = f]
    PROVE  Lifecycle!Becomes(i, StageOf(f))
<1> DEFINE S == [j \in Ids |-> StageOf(fate[j])]
           T == [j \in Ids |-> StageOf(fate'[j])]
<1>1. \A j \in Ids : fate'[j] = IF j = i THEN f ELSE fate[j]
  BY DEF TypeOK
<1>2. T = [S EXCEPT ![i] = StageOf(f)]
  <2> HIDE DEF StageOf
  <2>1. \A j \in Ids : T[j] = [S EXCEPT ![i] = StageOf(f)][j]
    BY <1>1
  <2> QED
    BY <2>1
<1> QED
  BY <1>2 DEF Lifecycle!Becomes

\* Nothing the life cycle is about changes.
LEMMA Stutters ==
    ASSUME UNCHANGED <<pending, fate, ended>>
    PROVE  LStep
BY DEF LStep, Lifecycle!ivars

\* The pending intent leaves the manager: claimed, or over.
LEMMA TakingIsAStep ==
    ASSUME TypeOK, pending # None,
           NEW f \in {"claimed", "dismissed", "rejected", "cancelled", "cleared"},
           fate' = [fate EXCEPT ![pending] = f], pending' = None, ended' = ended
    PROVE  LStep
<1>1. pending \in Ids
  BY DEF TypeOK
<1>2. Lifecycle!Becomes(pending, StageOf(f))
  BY <1>1, FateIsStage
<1>3. CASE f = "claimed"
  <2>1. Lifecycle!Take(pending)
    BY <1>2, <1>3 DEF Lifecycle!Take, StageOf
  <2> QED
    BY <1>1, <2>1 DEF LStep, Lifecycle!LNext
<1>4. CASE f # "claimed"
  <2>1. StageOf(f) = "over"
    BY <1>4 DEF StageOf
  <2>2. Lifecycle!Withdraw(pending)
    BY <1>2, <2>1 DEF Lifecycle!Withdraw, Lifecycle!Ends
  <2> QED
    BY <1>1, <2>2 DEF LStep, Lifecycle!LNext
<1> QED
  BY <1>3, <1>4

\* An intent that some thread holds acts or is refused.
LEMMA ApplyingIsAStep ==
    ASSUME TypeOK, NEW i \in Ids, NEW kind, fate[i] \in {"claimed", "proposed"},
           pending # i, pending' = pending, ApplyNow(i, kind)
    PROVE  LStep
<1>1. Lifecycle!InHand(i)
  BY DEF Lifecycle!InHand, StageOf
<1>2. ASSUME NEW f \in {"refused", "applied"}, fate' = [fate EXCEPT ![i] = f]
      PROVE  Lifecycle!Ends(i)
  <2>1. Lifecycle!Becomes(i, StageOf(f)) /\ StageOf(f) = "over"
    BY <1>2, FateIsStage DEF StageOf
  <2> QED
    BY <2>1 DEF Lifecycle!Ends
<1>3. CASE fate' = [fate EXCEPT ![i] = "refused"] /\ ended' = ended
  <2>1. Lifecycle!Refuse(i)
    BY <1>1, <1>2, <1>3 DEF Lifecycle!Refuse
  <2> QED
    BY <2>1 DEF LStep, Lifecycle!LNext
<1>4. CASE /\ fate' = [fate EXCEPT ![i] = "applied"]
           /\ ended' = ended \cup {[ses |-> Rolled(today), by |-> i]}
  <2>1. \E deed \in ended' : deed.by = i /\ ended' = ended \cup {deed}
    BY <1>4
  <2>2. Lifecycle!Act(i)
    BY <1>1, <1>2, <1>4, <2>1 DEF Lifecycle!Act
  <2> QED
    BY <2>2 DEF LStep, Lifecycle!LNext
<1> QED
  BY <1>3, <1>4 DEF ApplyNow, Settle

----------------------------------------------------------------------------
(* Every step *)

LEMMA UserStepRefines ==
    ASSUME IInv,
           \/ \E mode \in Modes \ {"STANDBY"} : SetMode(mode)
           \/ EyeCareBreak \/ EyeCareResume
    PROVE  LStep
<1> USE DEF IInv
<1>1. ended' = ended
  BY DEF SetMode, EyeCareBreak, EyeCareResume, Press
<1>2. CASE Cleared
  <2>1. CASE pending = None
    BY <1>1, <1>2, <2>1, Stutters DEF Cleared
  <2>2. CASE pending # None
    <3>1. fate' = [fate EXCEPT ![pending] = "cleared"] /\ pending' = None
      BY <1>2, <2>2 DEF Cleared, Settle
    <3> QED
      BY <1>1, <2>2, <3>1, TakingIsAStep
  <2> QED
    BY <2>1, <2>2
<1>3. CASE EyeCareResume
  BY <1>1, <1>3, Stutters DEF EyeCareResume
<1> QED
  BY <1>2, <1>3 DEF SetMode, EyeCareBreak

LEMMA RequestStepRefines ==
    ASSUME IInv, Accept \/ Reject
    PROVE  LStep
<1>1. TypeOK /\ pending # None /\ ended' = ended
  BY DEF IInv, Accept, Reject, Request
<1>2. \E f \in {"claimed", "dismissed", "rejected"} : Take(pending, f)
  BY DEF Accept, Reject, Rejected
<1> QED
  BY <1>1, <1>2, TakingIsAStep DEF Take, Settle

LEMMA WorkerStepRefines ==
    ASSUME IInv, WorkerStep
    PROVE  LStep
<1> USE DEF IInv
<1>1. CASE WorkerWake
  BY <1>1, Stutters DEF WorkerWake, Manager
<1>2. CASE WorkerExpire
  <2>1. ended' = ended
    BY <1>2 DEF WorkerExpire
  <2>2. CASE UNCHANGED <<pending, late, fate>>
    BY <2>1, <2>2, Stutters
  <2>3. CASE pending # None /\ \E f \in {"claimed", "dismissed"} : Take(pending, f)
    BY <2>1, <2>3, TakingIsAStep DEF Take, Settle
  <2> QED
    BY <1>2, <2>2, <2>3 DEF WorkerExpire, ExpiredAt
<1>3. CASE WorkerApply
  <2> DEFINE i == worker.intent
  <2>1. i \in Ids /\ fate[i] = "claimed"
    BY <1>3 DEF WorkerApply, TypeOK, Worker, Holding, Hands
  <2>2. pending # i
    BY <2>1 DEF Hands, Ids, None
  <2>3. ApplyNow(i, intents[i].kind) /\ pending' = pending
    BY <1>3 DEF WorkerApply
  <2> HIDE DEF i
  <2> QED
    BY <2>1, <2>2, <2>3, ApplyingIsAStep
<1>4. CASE WorkerTick
  <2>1. ended' = ended
    BY <1>4 DEF WorkerTick
  <2>2. CASE UNCHANGED <<pending, late, fate>>
    BY <2>1, <2>2, Stutters
  <2>3. CASE pending # None /\ Take(pending, "cancelled")
    BY <2>1, <2>3, TakingIsAStep DEF Take, Settle
  <2> QED
    BY <1>4, <2>2, <2>3 DEF WorkerTick
<1>5. CASE WorkerLook
  <2>1. pending' = pending /\ ended' = ended
    BY <1>5 DEF WorkerLook, Manager
  <2>2. CASE UNCHANGED fate
    BY <2>1, <2>2, Stutters
  <2>3. CASE \E i \in Ids : NextId(i) /\ Settle(i, "proposed")
    <3> PICK i \in Ids : NextId(i) /\ Settle(i, "proposed")
      BY <2>3
    <3>1. Lifecycle!Becomes(i, StageOf("proposed"))
      BY FateIsStage DEF Settle
    <3>2. Lifecycle!Conceive(i)
      BY <2>1, <3>1 DEF Lifecycle!Conceive, NextId, StageOf
    <3> QED
      BY <3>2 DEF LStep, Lifecycle!LNext
  <2> QED
    BY <1>5, <2>2, <2>3 DEF WorkerLook
<1>6. CASE WorkerPropose
  <2> DEFINE i == worker.intent
  <2>1. i \in Ids /\ fate[i] = "proposed" /\ pending = None
    BY <1>6 DEF WorkerPropose, TypeOK, Worker, Holding, Hands
  <2>2. pending # i
    BY <2>1 DEF Ids, None
  <2>3. CASE pending' = i /\ Settle(i, "pending") /\ UNCHANGED ended
    <3> HIDE DEF i
    <3>1. UNCHANGED [j \in Ids |-> StageOf(fate[j])]
      <4>1. \A j \in Ids : StageOf(fate'[j]) = StageOf(fate[j])
        BY <2>1, <2>3 DEF Settle, TypeOK, StageOf
      <4> QED
        BY <4>1
    <3>2. StageOf(fate[i]) = "open"
      BY <2>1 DEF StageOf
    <3>3. Lifecycle!Ask(i)
      BY <2>1, <2>3, <3>1, <3>2 DEF Lifecycle!Ask
    <3> QED
      BY <2>1, <3>3 DEF LStep, Lifecycle!LNext
  <2>4. CASE ApplyNow(i, intents[i].kind) /\ pending' = pending
    <3> HIDE DEF i
    <3> QED
      BY <2>1, <2>2, <2>4, ApplyingIsAStep
  <2> QED
    BY <1>6, <2>3, <2>4 DEF WorkerPropose
<1> QED
  BY <1>1, <1>2, <1>3, <1>4, <1>5, <1>6 DEF WorkerStep

LEMMA RestartRefines ==
    ASSUME IInv, Restart
    PROVE  LStep
<1>1. pending' = None /\ ended' = ended
  BY DEF Restart
<1>2. \A i \in Ids : StageOf(fate'[i])
                       = IF StageOf(fate[i]) = "new" THEN "new" ELSE "over"
  <2> TAKE i \in Ids
  <2>1. fate[i] \in Fates
    BY DEF IInv, TypeOK
  <2>2. fate'[i] = IF fate[i] \in Settled \cup {"none"} THEN fate[i] ELSE "lost"
    BY DEF Restart
  <2> QED
    BY <2>1, <2>2 DEF Fates, Settled, StageOf
<1>3. Lifecycle!Die
  BY <1>1, <1>2 DEF Lifecycle!Die
<1> QED
  BY <1>3 DEF LStep, Lifecycle!LNext

LEMMA StepRefines == IInv /\ [Next]_vars => LStep
<1> SUFFICES ASSUME IInv, [Next]_vars PROVE LStep
  OBVIOUS
<1>1. CASE \/ \E mode \in Modes \ {"STANDBY"} : SetMode(mode)
           \/ EyeCareBreak \/ EyeCareResume
  BY <1>1, UserStepRefines
<1>2. CASE Accept \/ Reject
  BY <1>2, RequestStepRefines
<1>3. CASE \E i \in Ids : RequestApplies(i)
  <2> PICK i \in Ids : RequestApplies(i)
    BY <1>3
  <2>1. /\ fate[i] = "claimed" /\ ApplyNow(i, intents[i].kind)
        /\ pending' = pending
    BY DEF RequestApplies, IInv, Hands
  <2>2. pending # i
    BY <2>1 DEF IInv, Hands, Ids, None
  <2> QED
    BY <2>1, <2>2, ApplyingIsAStep DEF IInv
<1>4. CASE WorkerStep
  BY <1>4, WorkerStepRefines
<1>5. CASE NextDay \/ IntentExpires \/ OverrideEnds \/ SnoozeEnds \/ UNCHANGED vars
  BY <1>5, Stutters
     DEF NextDay, Manager, IntentExpires, OverrideEnds, SnoozeEnds, vars
<1>6. CASE Restart
  BY <1>6, RestartRefines
<1> QED
  BY <1>1, <1>2, <1>3, <1>4, <1>5, <1>6 DEF Next

\* However the worker, the requests, the buttons and the crashes interleave,
\* an intent is asked about alone, acts at most once and never while the user
\* is still asked, and is over for good when it is over.
THEOREM ImplementsLifecycle == Spec => LifecycleIsKept
<1>1. Init => Lifecycle!LInit
  BY DEF Init, Lifecycle!LInit, StageOf
<1>2. IInv /\ [Next]_vars => [Lifecycle!LNext]_(Lifecycle!ivars)
  BY StepRefines DEF LStep
<1> QED
  BY <1>1, <1>2, Invariance, PTL DEF Spec, LifecycleIsKept, Lifecycle!LSpec

=============================================================================
