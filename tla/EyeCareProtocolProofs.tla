----------------------- MODULE EyeCareProtocolProofs -----------------------
(***************************************************************************)
(* Theorems of EyeCareProtocol, for every set of requests, every bound     *)
(* and both values of Overlap, except UsersEndBreaks and                   *)
(* EveryModeHasItsBreak, which need ~Overlap.  The lemmas give the types   *)
(* of what the service and the manager compute; TypeCorrect is the base of *)
(* the others.                                                             *)
(***************************************************************************)
EXTENDS EyeCareProtocol, TLAPS

\* What an evaluation makes of a status is a status.
LEMMA AdvancedType ==
    ASSUME NEW s \in Status, NEW eye \in BOOLEAN, NEW d \in Nat,
           NEW t \in Advanced(s, eye, d)
    PROVE  t \in Status
<1>1. RestPhase \in Phases
  BY DEF RestPhase, Phases
<1>2. ASSUME NEW u \in Status PROVE Rested(u) \in Status
  BY <1>1 DEF Rested, Status
<1>3. RollDate(s, d) \in Status
  BY <1>2 DEF RollDate, Status
<1>4. \A e \in Evolved(s, eye, d) : e \in Status
  BY <1>2, <1>3, ZenonT(60) DEF Evolved, Status, Phases
<1>5. PICK e \in Evolved(s, eye, d) :
        t = IF e = s THEN s ELSE [e EXCEPT !.rev = s.rev + 1]
  BY DEF Advanced
<1>6. e \in Status
  BY <1>4, <1>5
<1> QED
  BY <1>5, <1>6 DEF Status

\* What an action plans is a status.
LEMMA PlannedType ==
    ASSUME NEW s \in Status, NEW a \in Actions
    PROVE  Planned(a, s) \in Status
<1>1. s.rev + 1 \in Nat /\ s.snoozes + 1 \in Nat
  BY DEF Status
<1> QED
  BY <1>1 DEF Planned, Status, Phases, Actions, Starts, Ends

\* What the focus counters lead to is a status.
LEMMA RecordedType ==
    ASSUME NEW s \in Status, NEW t \in Recorded(s)
    PROVE  t \in Status
<1>1. \/ t = s
      \/ \E p \in Phases : t = [s EXCEPT !.phase = p, !.snoozes = 0,
                                       !.snoozed = FALSE, !.rev = s.rev + 1]
  BY DEF Recorded, Phases
<1>2. s.rev + 1 \in Nat
  BY DEF Status
<1>3. ASSUME NEW p \in Phases
      PROVE  [s EXCEPT !.phase = p, !.snoozes = 0, !.snoozed = FALSE,
                       !.rev = s.rev + 1] \in Status
  BY <1>2 DEF Status
<1> QED
  BY <1>1, <1>3

\* The sessions the manager makes up.
LEMMA SessionTypes ==
    ASSUME NEW d \in Nat, NEW m \in Modes, NEW long \in BOOLEAN,
           NEW e \in BOOLEAN, NEW p \in {"NONE", "INACTIVE"}
    PROVE  /\ Manual(m, d) \in Session
           /\ Automatic(m, p, e, d) \in Session
           /\ EyeCare(long, d) \in Session
  BY DEF Manual, Automatic, EyeCare, Session, Modes

LEMMA AfterMidnightType ==
    ASSUME canon \in Session, NEW d \in Nat
    PROVE  AfterMidnight(d) \in Session
  BY DEF AfterMidnight, Manual, Session, Modes

LEMMA ReturnModeType ==
    ASSUME ret \in Modes \cup {"unset"}
    PROVE  ReturnMode \in Modes
  BY DEF ReturnMode, Modes


\* A write, done or failed, keeps the types.
LEMMA TryCommitType ==
    ASSUME TypeOK, NEW s \in Status, TryCommit(s)
    PROVE  mem' \in Status /\ disk' \in Status /\ faults' \in Nat
  BY DEF TypeOK, TryCommit, Commit, KeepOnFault, Fail

(***************************************************************************)
(* Type correctness.                                                       *)
(***************************************************************************)
\* The initial state is well-typed.
LEMMA InitType == Init => TypeOK
<1>1. SUFFICES ASSUME Init PROVE TypeOK
  OBVIOUS
<1>2. mem \in Status
  BY <1>1 DEF Init, FreshStatus, Status, Phases
<1>3. NewRequest \in Request
  BY DEF NewRequest, FreshStatus, Request, Actions, Starts, Ends, Status, Phases
<1>4. canon \in Session /\ row \in Session
  BY <1>1 DEF Init, Manual, Session, Modes
<1>5. /\ act \in [pc: {"idle", "mode", "complete", "undo", "fail"},
                  req: Req \cup {0}, long: BOOLEAN]
      /\ act.pc = "idle"
  BY <1>1 DEF Init, Idle
<1>6. wk \in [pc: {"wake", "tick", "snapshot", "observe", "record"},
              now: Nat, eye: BOOLEAN]
  BY <1>1 DEF Init, Asleep
<1>7. ledger \in [Req -> Request]
  BY <1>1, <1>3 DEF Init
<1> QED
  BY <1>1, <1>2, <1>4, <1>5, <1>6, <1>7 DEF Init, TypeOK, Modes

\* Every step of the user keeps the types.
LEMMA UserType ==
    ASSUME TypeOK, User
    PROVE  TypeOK'
<1>1. CASE Poll
  <2>1. PICK s \in Advanced(mem, IsEye(canon), day) : TryCommit(s)
    BY <1>1 DEF Poll
  <2>2. s \in Status
    BY <2>1, AdvancedType DEF TypeOK, IsEye
  <2>3. mem' \in Status /\ disk' \in Status /\ faults' \in Nat
    BY <2>1, <2>2, TryCommitType
  <2> QED
    BY <1>1, <2>3 DEF Poll, TypeOK, mgr
<1>2. CASE \E on \in BOOLEAN : SaveSettings(on)
  <2>1. PICK on \in BOOLEAN : SaveSettings(on)
    BY <1>2
  <2> DEFINE s == [mem EXCEPT
                     !.rev = mem.rev + 1,
                     !.snoozed = on /\ mem.snoozed,
                     !.phase = IF ~on THEN "DISABLED"
                               ELSE IF mem.phase = "DISABLED" THEN "FOCUSING"
                               ELSE mem.phase]
  <2>2. s \in Status
    <3>1. mem \in Status /\ mem.rev + 1 \in Nat /\ mem.snoozed \in BOOLEAN
      BY DEF TypeOK, Status
    <3>2. (on /\ mem.snoozed) \in BOOLEAN
      OBVIOUS
    <3>3. (IF ~on THEN "DISABLED" ELSE IF mem.phase = "DISABLED" THEN "FOCUSING"
             ELSE mem.phase) \in Phases
      BY <3>1 DEF Status, Phases
    <3> QED
      BY <3>1, <3>2, <3>3 DEF Status
  <2>3. \/ Commit(s) /\ enabled' = on
        \/ KeepOnFault /\ UNCHANGED enabled
    BY <2>1 DEF SaveSettings
  <2> HIDE DEF s
  <2>4. mem' \in Status /\ disk' \in Status /\ faults' \in Nat /\ enabled' \in BOOLEAN
    BY <2>2, <2>3 DEF TypeOK, Commit, KeepOnFault, Fail
  <2> QED
    BY <2>1, <2>4 DEF SaveSettings, TypeOK, mgr
<1>3. CASE \E r \in Req, a \in Actions : ActBegin(r, a)
  <2>1. PICK r \in Req, a \in Actions : ActBegin(r, a)
    BY <1>3
  <2>2. Planned(a, mem) \in Status
    BY PlannedType DEF TypeOK
  <2>3. [status |-> "PENDING", action |-> a, plan |-> Planned(a, mem)] \in Request
    BY <2>2 DEF Request
  <2>4. ledger' \in [Req -> Request]
    BY <2>1, <2>3 DEF ActBegin, TypeOK
  <2>5. /\ act' \in [pc: {"idle", "mode", "complete", "undo", "fail"},
                     req: Req \cup {0}, long: BOOLEAN]
        /\ act'.req \in Req
    BY <2>1 DEF ActBegin
  <2> QED
    BY <2>1, <2>4, <2>5 DEF ActBegin, TypeOK, svc, mgr
<1>4. CASE SetModeStudy
  BY <1>4, SessionTypes DEF SetModeStudy, Switch, TypeOK, svc, Modes
<1>5. CASE SetModeBreak
  BY <1>5, SessionTypes DEF SetModeBreak, Switch, TypeOK, svc, Modes
<1>6. CASE SetModeOff
  BY <1>6, SessionTypes DEF SetModeOff, Switch, Fail, TypeOK, svc, mgr, Modes
<1> QED
  BY <1>1, <1>2, <1>3, <1>4, <1>5, <1>6 DEF User

\* Ending a break, or failing to, keeps the types.
LEMMA EndBreakType ==
    ASSUME TypeOK, NEW failed, EndBreak("complete", failed) \/ EndBreak("fail", failed),
           failed \in [pc: {"idle", "mode", "complete", "undo", "fail"},
                       req: Req \cup {0}, long: BOOLEAN],
           failed.pc # "idle" => failed.req \in Req,
           act.pc # "idle"
    PROVE  /\ canon' \in Session /\ row' \in Session \cup {NoSession}
           /\ mdate' \in Nat /\ faults' \in Nat
           /\ act' \in [pc: {"idle", "mode", "complete", "undo", "fail"},
                        req: Req \cup {0}, long: BOOLEAN]
           /\ act'.pc # "idle" => act'.req \in Req
<1>1. Manual(ReturnMode, day) \in Session
  BY ReturnModeType, SessionTypes DEF TypeOK
<1>2. Goto("complete") \/ Goto("fail") =>
        /\ act' \in [pc: {"idle", "mode", "complete", "undo", "fail"},
                     req: Req \cup {0}, long: BOOLEAN]
        /\ act'.pc # "idle" => act'.req \in Req
  BY DEF Goto, TypeOK
<1> QED
  BY <1>1, <1>2 DEF EndBreak, Switch, Fail, TypeOK, mgr

\* Every step of an action keeps the types.
LEMMA ActStepType ==
    ASSUME TypeOK, ActStep
    PROVE  TypeOK'
<1> DEFINE Acts == [pc: {"idle", "mode", "complete", "undo", "fail"},
                   req: Req \cup {0}, long: BOOLEAN]
<1>1. Idle \in Acts /\ Idle.pc = "idle"
  BY DEF Idle
<1>2. ASSUME NEW pc \in {"complete", "undo", "fail"}, act.pc # "idle", Goto(pc)
      PROVE  act' \in Acts /\ (act'.pc # "idle" => act'.req \in Req)
  BY <1>2 DEF Goto, TypeOK
<1>3. AfterMidnight(day) \in Session
  BY AfterMidnightType DEF TypeOK
<1>4. EyeCare(act.long, day) \in Session
  BY SessionTypes DEF TypeOK, Modes
<1>5. CASE ActMode
  <2>1. CASE StartBreak /\ UNCHANGED <<day, life, svc, ledger, wk, crashes, atCrash>>
    <3>1. act.pc # "idle"
      BY <1>5 DEF ActMode
    <3>2. act' \in Acts /\ (act'.pc # "idle" => act'.req \in Req)
      BY <1>2, <2>1, <3>1 DEF StartBreak
    <3>3. /\ canon' \in Session /\ row' \in Session \cup {NoSession}
          /\ mdate' \in Nat /\ faults' \in Nat
      BY <1>3, <1>4, <2>1 DEF StartBreak, Switch, Fail, TypeOK, mgr
    <3>4. ret' \in Modes \cup {"unset"} /\ before' \in Modes
      BY <1>3, <2>1 DEF StartBreak, Session, TypeOK
    <3> QED
      BY <2>1, <3>2, <3>3, <3>4 DEF TypeOK, svc
  <2>2. CASE /\ EndBreak("complete", [act EXCEPT !.pc = "fail"])
             /\ UNCHANGED <<ret, before>>
             /\ UNCHANGED <<day, life, svc, ledger, wk, crashes, atCrash>>
    <3>1. act.pc # "idle"
      BY <1>5 DEF ActMode
    <3>2. /\ [act EXCEPT !.pc = "fail"] \in Acts
          /\ [act EXCEPT !.pc = "fail"].req \in Req
      BY <3>1 DEF TypeOK
    <3>3. /\ canon' \in Session /\ row' \in Session \cup {NoSession}
          /\ mdate' \in Nat /\ faults' \in Nat
          /\ act' \in Acts /\ (act'.pc # "idle" => act'.req \in Req)
      BY <2>2, <3>1, <3>2, EndBreakType
    <3> QED
      BY <2>2, <3>3 DEF TypeOK, svc
  <2> QED
    BY <1>5, <2>1, <2>2 DEF ActMode
<1>6. CASE ActComplete
  <2>1. act.req \in Req /\ ledger[act.req] \in Request
    BY <1>6 DEF ActComplete, TypeOK
  <2>2. ledger[act.req].plan \in Status
    BY <2>1 DEF Request
  <2>3. [ledger[act.req] EXCEPT !.status = "APPLIED"] \in Request
    BY <2>1 DEF Request
  <2>4. ledger' \in [Req -> Request]
    BY <1>6, <2>1, <2>3 DEF ActComplete, TypeOK
  <2>5. mem' \in Status /\ disk' \in Status /\ faults' \in Nat
    BY <1>6, <2>2 DEF ActComplete, Commit, KeepOnFault, Fail, TypeOK
  <2>6. act' \in Acts /\ (act'.pc # "idle" => act'.req \in Req)
    BY <1>1, <1>2, <1>6 DEF ActComplete
  <2> QED
    BY <1>6, <2>4, <2>5, <2>6 DEF ActComplete, TypeOK, mgr
<1>7. CASE ActUndo
  <2>1. act.pc # "idle"
    BY <1>7 DEF ActUndo
  <2>2. CASE EndBreak("fail", Idle)
    <3>1. /\ canon' \in Session /\ row' \in Session \cup {NoSession}
          /\ mdate' \in Nat /\ faults' \in Nat
          /\ act' \in Acts /\ (act'.pc # "idle" => act'.req \in Req)
      BY <1>1, <2>1, <2>2, EndBreakType
    <3> QED
      BY <1>7, <3>1 DEF ActUndo, TypeOK, svc
  <2>3. CASE RestoreBreak
    <3>1. act' \in Acts /\ (act'.pc # "idle" => act'.req \in Req)
      BY <1>1, <1>2, <2>1, <2>3 DEF RestoreBreak
    <3>2. /\ canon' \in Session /\ row' \in Session \cup {NoSession}
          /\ mdate' \in Nat /\ faults' \in Nat
      BY <1>3, <1>4, <2>3 DEF RestoreBreak, Switch, Fail, TypeOK, mgr
    <3> QED
      BY <1>7, <3>1, <3>2 DEF ActUndo, TypeOK, svc
  <2> QED
    BY <1>7, <2>2, <2>3 DEF ActUndo
<1>8. CASE ActFail
  <2>1. act.req \in Req /\ ledger[act.req] \in Request
    BY <1>8 DEF ActFail, TypeOK
  <2>2. [ledger[act.req] EXCEPT !.status = "FAILED"] \in Request
    BY <2>1 DEF Request
  <2>3. ledger' \in [Req -> Request]
    BY <1>8, <2>1, <2>2 DEF ActFail, TypeOK
  <2> QED
    BY <1>1, <1>8, <2>3 DEF ActFail, Fail, TypeOK, svc, mgr
<1> QED
  BY <1>5, <1>6, <1>7, <1>8 DEF ActStep

\* Every step of the worker keeps the types.
LEMMA WorkerType ==
    ASSUME TypeOK, Worker
    PROVE  TypeOK'
<1> DEFINE Wk == [pc: {"wake", "tick", "snapshot", "observe", "record"},
                 now: Nat, eye: BOOLEAN]
<1>1. wk \in Wk /\ wk.now \in Nat /\ wk.eye \in BOOLEAN /\ Asleep \in Wk
  BY DEF TypeOK, Asleep
<1>2. CASE WorkerWake
  <2>1. wk' \in Wk
    BY <1>2 DEF WorkerWake, TypeOK
  <2> QED
    BY <1>2, <2>1 DEF WorkerWake, TypeOK, svc, mgr
<1>3. CASE WorkerTick
  <2>1. wk' \in Wk
    BY <1>3 DEF WorkerTick, TypeOK
  <2>2. AfterMidnight(wk.now) \in Session
    BY <1>1, AfterMidnightType DEF TypeOK
  <2> QED
    BY <1>1, <1>3, <2>1, <2>2 DEF WorkerTick, Switch, TypeOK, svc
<1>4. CASE WorkerSnapshot
  <2>1. wk' \in Wk
    BY <1>4 DEF WorkerSnapshot, TypeOK, IsEye
  <2> QED
    BY <1>4, <2>1 DEF WorkerSnapshot, TypeOK, svc, mgr
<1>5. CASE WorkerObserve
  <2>1. wk' \in Wk
    BY <1>5 DEF WorkerObserve, TypeOK
  <2>2. PICK s \in Advanced(mem, wk.eye, wk.now) : TryCommit(s)
    BY <1>5 DEF WorkerObserve
  <2>3. mem' \in Status /\ disk' \in Status /\ faults' \in Nat
    BY <1>1, <2>2, AdvancedType, TryCommitType DEF TypeOK
  <2> QED
    BY <1>5, <2>1, <2>3 DEF WorkerObserve, TypeOK, mgr
<1>6. CASE WorkerRecord
  <2>1. PICK s \in Advanced(mem, wk.eye, wk.now) :
          \/ s # mem /\ KeepOnFault
          \/ Commit(s)
          \/ Budget /\ \E t \in Recorded(s) :
               \/ Commit(t)
               \/ t # s /\ Fail /\ mem' = s /\ disk' = s
    BY <1>6 DEF WorkerRecord
  <2>2. s \in Status /\ \A t \in Recorded(s) : t \in Status
    BY <1>1, AdvancedType, RecordedType DEF TypeOK
  <2>3. mem' \in Status /\ disk' \in Status /\ faults' \in Nat
    BY <2>1, <2>2 DEF TypeOK, Commit, KeepOnFault, Fail
  <2> QED
    BY <1>1, <1>6, <2>3 DEF WorkerRecord, TypeOK, mgr
<1> QED
  BY <1>2, <1>3, <1>4, <1>5, <1>6 DEF Worker

\* Every step of the start-up keeps the types.
LEMMA BootType ==
    ASSUME TypeOK, Boot
    PROVE  TypeOK'
<1>1. CASE BootManager
  BY <1>1, SessionTypes DEF BootManager, TypeOK, svc, Modes
<1>2. CASE BootSession
  BY <1>2 DEF BootSession, TypeOK
<1>3. CASE \E r \in Req : Reconcile(r)
  <2>1. PICK r \in Req : Reconcile(r)
    BY <1>3
  <2>2. ledger[r] \in Request /\ ledger[r].plan \in Status
    BY DEF TypeOK, Request
  <2>3. /\ [ledger[r] EXCEPT !.status = "APPLIED"] \in Request
        /\ [ledger[r] EXCEPT !.status = "FAILED"] \in Request
    BY <2>2 DEF Request
  <2>4. ledger' \in [Req -> Request]
    BY <2>1, <2>3 DEF Reconcile, TypeOK
  <2>5. /\ mem' \in Status /\ disk' \in Status /\ faults' \in Nat
        /\ life' \in {"reconcile", "advance"}
    BY <2>1, <2>2 DEF Reconcile, Commit, KeepOnFault, Fail, TypeOK
  <2> QED
    BY <2>1, <2>4, <2>5 DEF Reconcile, TypeOK, mgr
<1>4. CASE Reconciled
  BY <1>4 DEF Reconciled, TypeOK, svc, mgr
<1>5. CASE BootAdvance
  <2>1. PICK s \in Advanced(mem, IsEye(canon), day) : TryCommit(s)
    BY <1>5 DEF BootAdvance
  <2>2. mem' \in Status /\ disk' \in Status /\ faults' \in Nat
    BY <2>1, AdvancedType, TryCommitType DEF TypeOK, IsEye
  <2> QED
    BY <1>5, <2>2 DEF BootAdvance, TypeOK, mgr
<1>6. CASE BootRestore
  <2>1. mem \in Status /\ [mem EXCEPT !.rev = mem.rev + 1] \in Status
    BY DEF TypeOK, Status
  <2>2. mem' \in Status /\ disk' \in Status /\ faults' \in Nat
    BY <1>6, <2>1 DEF BootRestore, TryCommit, Commit, KeepOnFault, Fail, TypeOK
  <2> QED
    BY <1>6, <2>2 DEF BootRestore, TypeOK, mgr
<1> QED
  BY <1>1, <1>2, <1>3, <1>4, <1>5, <1>6 DEF Boot

\* Every step keeps the types.
LEMMA NextType == TypeOK /\ [Next]_vars => TypeOK'
<1> SUFFICES ASSUME TypeOK, [Next]_vars PROVE TypeOK'
  OBVIOUS
<1>1. CASE User
  BY <1>1, UserType
<1>2. CASE ActStep
  BY <1>2, ActStepType
<1>3. CASE Automation
  <2>1. AfterMidnight(day) \in Session
    BY AfterMidnightType DEF TypeOK
  <2>2. /\ Automatic("STUDY", "NONE", FALSE, day) \in Session
        /\ Automatic("BREAK", "INACTIVE", TRUE, day) \in Session
    BY DEF Automatic, Session, Modes, TypeOK
  <2>3. canon' \in Session /\ row' \in Session /\ mdate' \in Nat
    BY <1>3, <2>1, <2>2 DEF Automation, Switch, TypeOK
  <2> QED
    BY <1>3, <2>3 DEF Automation, TypeOK, svc
<1>4. CASE Worker
  BY <1>4, WorkerType
<1>5. CASE Midnight
  BY <1>5 DEF Midnight, TypeOK, svc, mgr
<1>6. CASE Crash
  BY <1>6 DEF Crash, Stopped, Idle, Asleep, Unlocked, Running, Resting, IsEye, TypeOK, svc, mgr
<1>7. CASE Exit
  BY <1>7 DEF Exit, Stopped, Idle, Asleep, TypeOK, svc
<1>8. CASE Boot
  BY <1>8, BootType
<1>9. CASE UNCHANGED vars
  BY <1>9 DEF vars, svc, mgr, TypeOK
<1> QED
  BY <1>1, <1>2, <1>3, <1>4, <1>5, <1>6, <1>7, <1>8, <1>9 DEF Next

\* Every variable keeps its type, whatever the requests and the bounds are.
THEOREM TypeCorrect == Spec => []TypeOK
<1>1. Init => TypeOK
  BY InitType
<1>2. TypeOK /\ [Next]_vars => TypeOK'
  BY NextType
<1> QED
  BY <1>1, <1>2, PTL DEF Spec

(***************************************************************************)
(* The service's memory and its table.                                     *)
(***************************************************************************)
\* While the program runs, memory and table are equal.  The actions say so
\* themselves, because persistCandidateLocked assigns the memory only after the
\* write: a tool for what follows and no result.
WriteThrough == life \notin {"manager", "session"} => mem = disk

\* A write, done or failed, leaves memory and table equal if they were.
LEMMA TryCommitKeeps ==
    ASSUME NEW s, TryCommit(s), mem = disk
    PROVE  mem' = disk'
  BY DEF TryCommit, Commit, KeepOnFault

\* Every action keeps it, also when its write fails.
LEMMA MemoryIsTable == Spec => []WriteThrough
<1>1. Init => WriteThrough
  BY DEF Init, WriteThrough
<1>2. WriteThrough /\ [Next]_vars => WriteThrough'
  <2> SUFFICES ASSUME WriteThrough, [Next]_vars PROVE WriteThrough'
    OBVIOUS
  <2>1. CASE User
    <3>1. CASE Poll
      BY <3>1, TryCommitKeeps DEF Poll, Unlocked, Running, WriteThrough
    <3>2. CASE \E on \in BOOLEAN : SaveSettings(on)
      BY <3>2 DEF SaveSettings, Commit, KeepOnFault, Unlocked, Running, WriteThrough
    <3>3. CASE \E r \in Req, a \in Actions : ActBegin(r, a)
      BY <3>3 DEF ActBegin, WriteThrough, svc
    <3>4. CASE SetModeStudy \/ SetModeBreak \/ SetModeOff
      BY <3>4 DEF SetModeStudy, SetModeBreak, SetModeOff, WriteThrough, svc
    <3> QED
      BY <2>1, <3>1, <3>2, <3>3, <3>4 DEF User
  <2>2. CASE ActStep
    <3>1. CASE ActComplete
      BY <3>1 DEF ActComplete, Commit, KeepOnFault, Running, WriteThrough
    <3>2. CASE ActMode \/ ActUndo \/ ActFail
      BY <3>2 DEF ActMode, ActUndo, ActFail, WriteThrough, svc
    <3> QED
      BY <2>2, <3>1, <3>2 DEF ActStep
  <2>3. CASE Automation
    BY <2>3 DEF Automation, WriteThrough, svc
  <2>4. CASE Worker
    <3>1. CASE WorkerObserve
      BY <3>1, TryCommitKeeps DEF WorkerObserve, Unlocked, Running, WriteThrough
    <3>2. CASE WorkerRecord
      BY <3>2 DEF WorkerRecord, Commit, KeepOnFault, Unlocked, Running, WriteThrough
    <3>3. CASE WorkerWake \/ WorkerTick \/ WorkerSnapshot
      BY <3>3 DEF WorkerWake, WorkerTick, WorkerSnapshot, WriteThrough, svc
    <3> QED
      BY <2>4, <3>1, <3>2, <3>3 DEF Worker
  <2>5. CASE Midnight
    BY <2>5 DEF Midnight, WriteThrough, svc
  <2>6. CASE Crash \/ Exit
    BY <2>6 DEF Crash, Exit, Stopped, WriteThrough
  <2>7. CASE Boot
    <3>1. CASE BootManager \/ BootSession
      BY <3>1 DEF BootManager, BootSession, WriteThrough
    <3>2. CASE \E r \in Req : Reconcile(r)
      BY <3>2 DEF Reconcile, Commit, KeepOnFault, WriteThrough
    <3>3. CASE Reconciled
      BY <3>3 DEF Reconciled, WriteThrough, svc
    <3>4. CASE BootAdvance
      BY <3>4, TryCommitKeeps DEF BootAdvance, WriteThrough
    <3>5. CASE BootRestore
      BY <3>5 DEF BootRestore, TryCommit, Commit, KeepOnFault, WriteThrough
    <3> QED
      BY <2>7, <3>1, <3>2, <3>3, <3>4, <3>5 DEF Boot
  <2>8. CASE UNCHANGED vars
    BY <2>8 DEF vars, svc, WriteThrough
  <2> QED
    BY <2>1, <2>2, <2>3, <2>4, <2>5, <2>6, <2>7, <2>8 DEF Next
<1> QED
  BY <1>1, <1>2, PTL DEF Spec

(***************************************************************************)
(* The request ledger.  The strengthening says where an undecided request  *)
(* can be: in the hands of the running Act call, in the hands of the next  *)
(* start-up, or left behind by a storage failure.                          *)
(***************************************************************************)
LedgerInv ==
    /\ act.pc # "idle" => Running /\ ledger[act.req].status = "PENDING"
    /\ act.pc = "undo" => faults > 0
    /\ faults = 0 /\ Running => Pending \subseteq {act.req}
    /\ faults = 0 /\ Running /\ act.pc = "idle" => Pending = {}
    /\ faults = 0 /\ life \in {"advance", "restore"} => Pending = {}

\* A step that touches neither ledger, act, life nor lowers faults.
LEMMA LedgerUntouched ==
    ASSUME TypeOK, TypeOK', LedgerInv, UNCHANGED <<ledger, act, life>>,
           faults' = faults \/ faults' = faults + 1
    PROVE  LedgerInv'
  BY DEF TypeOK, LedgerInv, Running, Pending

\* Resolving the request an Act call works on leaves no other one open.
LEMMA RequestResolved ==
    ASSUME TypeOK, LedgerInv, act.pc # "idle", UNCHANGED <<life, faults>>, act' = Idle,
           NEW st \in {"APPLIED", "FAILED"},
           ledger' = [ledger EXCEPT ![act.req].status = st]
    PROVE  LedgerInv'
<1>1. act'.pc = "idle" /\ act.req \in Req
  BY DEF Idle, TypeOK
<1>2. \A r \in Req : ledger'[r].status = IF r = act.req THEN st ELSE ledger[r].status
  BY <1>1 DEF TypeOK, Request
<1>3. Pending' = Pending \ {act.req}
  BY <1>1, <1>2 DEF Pending
<1>4. Running
  BY DEF LedgerInv
<1> QED
  BY <1>1, <1>3, <1>4 DEF LedgerInv, Running

\* LedgerInv is inductive.
LEMMA LedgerStep == TypeOK /\ TypeOK' /\ LedgerInv /\ [Next]_vars => LedgerInv'
<1> SUFFICES ASSUME TypeOK, TypeOK', LedgerInv, [Next]_vars PROVE LedgerInv'
  OBVIOUS
<1>0. faults \in Nat
  BY DEF TypeOK
<1>1. CASE User
  <2>1. CASE \E r \in Req, a \in Actions : ActBegin(r, a)
    <3>1. PICK r \in Req, a \in Actions : ActBegin(r, a)
      BY <2>1
    <3>2. act'.pc \in {"mode", "complete"} /\ act'.req = r
      BY <3>1 DEF ActBegin
    <3>3. \A q \in Req : ledger'[q].status = IF q = r THEN "PENDING" ELSE ledger[q].status
      BY <3>1 DEF ActBegin, TypeOK, Request
    <3>4. Pending' = Pending \cup {r}
      BY <3>3 DEF Pending
    <3> QED
      BY <3>1, <3>2, <3>3, <3>4 DEF ActBegin, Unlocked, Running, LedgerInv
  <2>2. CASE Poll
    BY <2>2, LedgerUntouched DEF Poll, TryCommit, Commit, KeepOnFault, Fail
  <2>3. CASE \E on \in BOOLEAN : SaveSettings(on)
    BY <2>3, LedgerUntouched DEF SaveSettings, Commit, KeepOnFault, Fail
  <2>4. CASE SetModeStudy \/ SetModeBreak \/ SetModeOff
    BY <2>4, LedgerUntouched DEF SetModeStudy, SetModeBreak, SetModeOff, Fail
  <2> QED
    BY <1>1, <2>1, <2>2, <2>3, <2>4 DEF User
<1>2. CASE ActStep
  <2>1. CASE ActMode
    <3>1. /\ act.pc = "mode" /\ UNCHANGED <<ledger, life>>
          /\ \/ Goto("complete") \/ Goto("fail")
          /\ faults' \in {faults, faults + 1}
      BY <2>1 DEF ActMode, StartBreak, EndBreak, Goto, Fail
    <3>2. act'.pc \in {"complete", "fail"} /\ act'.req = act.req
      BY <3>1 DEF Goto, TypeOK
    <3> QED
      BY <1>0, <3>1, <3>2 DEF LedgerInv, Running, Pending
  <2>2. CASE ActComplete
    <3>1. CASE Commit(ledger[act.req].plan)
               /\ ledger' = [ledger EXCEPT ![act.req].status = "APPLIED"]
               /\ act' = Idle
      BY <2>2, <3>1, RequestResolved DEF ActComplete, Commit
    <3>2. CASE /\ KeepOnFault
               /\ Goto(IF CurrentAction \in Starts \cup Ends THEN "undo" ELSE "fail")
               /\ UNCHANGED ledger
      <4>1. act'.pc \in {"undo", "fail"} /\ act'.req = act.req
        BY <3>2 DEF Goto, TypeOK
      <4> QED
        BY <1>0, <2>2, <3>2, <4>1 DEF ActComplete, KeepOnFault, Fail, LedgerInv, Running, Pending
    <3> QED
      BY <2>2, <3>1, <3>2 DEF ActComplete
  <2>3. CASE ActUndo
    <3>1. /\ act.pc = "undo" /\ UNCHANGED <<ledger, life>>
          /\ Goto("fail") \/ act' = Idle
          /\ faults' \in {faults, faults + 1}
      BY <2>3 DEF ActUndo, RestoreBreak, EndBreak, Goto, Fail
    <3>2. faults > 0 /\ faults' > 0
      BY <1>0, <3>1 DEF LedgerInv
    <3>3. act'.pc = "idle" \/ (act'.pc = "fail" /\ act'.req = act.req)
      BY <3>1 DEF Goto, Idle, TypeOK
    <3> QED
      BY <3>1, <3>2, <3>3 DEF LedgerInv, Running
  <2>4. CASE ActFail
    <3>1. CASE ledger' = [ledger EXCEPT ![act.req].status = "FAILED"] /\ UNCHANGED faults
      BY <2>4, <3>1, RequestResolved DEF ActFail
    <3>2. CASE Fail /\ UNCHANGED ledger
      <4>1. faults' > 0 /\ act'.pc = "idle"
        BY <1>0, <2>4, <3>2 DEF ActFail, Fail, Idle
      <4> QED
        BY <4>1 DEF LedgerInv
    <3> QED
      BY <2>4, <3>1, <3>2 DEF ActFail
  <2> QED
    BY <1>2, <2>1, <2>2, <2>3, <2>4 DEF ActStep
<1>3. CASE Automation
  BY <1>3, LedgerUntouched DEF Automation
<1>4. CASE Worker
  BY <1>4, LedgerUntouched DEF Worker, WorkerWake, WorkerTick, WorkerSnapshot,
     WorkerObserve, WorkerRecord, TryCommit, Commit, KeepOnFault, Fail
<1>5. CASE Midnight
  BY <1>5, LedgerUntouched DEF Midnight
<1>6. CASE Crash \/ Exit
  BY <1>6 DEF Crash, Exit, Stopped, Idle, Running, LedgerInv
<1>7. CASE Boot
  <2>1. CASE BootManager \/ BootSession \/ Reconciled \/ BootAdvance \/ BootRestore
    <3>1. /\ UNCHANGED <<ledger, act>> /\ faults' \in {faults, faults + 1}
          /\ life # "up" /\ life' # "manager"
          /\ life' \in {"advance", "restore", "up"} /\ life # "reconcile"
               => life \in {"advance", "restore"}
          /\ life = "reconcile" => Pending = {}
      BY <2>1 DEF BootManager, BootSession, Reconciled, BootAdvance, BootRestore,
         TryCommit, Commit, KeepOnFault, Fail
    <3>2. act.pc = "idle"
      BY <3>1 DEF LedgerInv, Running
    <3>3. Pending' = Pending
      BY <3>1 DEF Pending
    <3> QED
      BY <1>0, <3>1, <3>2, <3>3 DEF LedgerInv, Running, TypeOK
  <2>2. CASE \E r \in Req : Reconcile(r)
    <3>1. PICK r \in Req : Reconcile(r)
      BY <2>2
    <3>2. act.pc = "idle"
      BY <3>1 DEF Reconcile, LedgerInv, Running
    <3>3. \/ life' = "reconcile"
          \/ life' = "advance" /\ faults' > 0
      BY <1>0, <3>1 DEF Reconcile, KeepOnFault, Fail, Commit
    <3> QED
      BY <3>1, <3>2, <3>3 DEF Reconcile, LedgerInv, Running
  <2> QED
    BY <1>7, <2>1, <2>2 DEF Boot
<1>8. CASE UNCHANGED vars
  BY <1>8, LedgerUntouched DEF vars
<1> QED
  BY <1>1, <1>2, <1>3, <1>4, <1>5, <1>6, <1>7, <1>8 DEF Next

\* Every reachable state satisfies the strengthening.
LEMMA LedgerInvariant == Spec => [](TypeOK /\ LedgerInv)
<1>1. Init => LedgerInv
  <2> SUFFICES ASSUME Init PROVE LedgerInv
    OBVIOUS
  <2>1. act.pc = "idle" /\ Pending = {}
    BY DEF Init, Idle, Pending, NewRequest
  <2> QED
    BY <2>1 DEF LedgerInv
<1>2. TypeOK /\ LedgerInv /\ [Next]_vars => (TypeOK /\ LedgerInv)'
  BY NextType, LedgerStep
<1> QED
  BY <1>1, <1>2, InitType, PTL DEF Spec

\* While the storage works, no begun request is left undecided when the next
\* one may begin, crashes included.
THEOREM NoRequestForgotten == Spec => []NothingForgotten
<1>1. LedgerInv => NothingForgotten
  BY DEF LedgerInv, NothingForgotten, Unlocked
<1> QED
  BY <1>1, LedgerInvariant, PTL

\* A step leaves every decided request as it is.
LEMMA DecidedStep ==
    ASSUME TypeOK, LedgerInv, [Next]_vars,
           NEW r \in Req, ledger[r].status \in {"APPLIED", "FAILED"}
    PROVE  ledger'[r] = ledger[r]
<1>1. CASE \E q \in Req, a \in Actions : ActBegin(q, a)
  BY <1>1 DEF ActBegin, TypeOK
<1>2. CASE ActComplete \/ ActFail
  <2>1. act.pc # "idle"
    BY <1>2 DEF ActComplete, ActFail
  <2>2. act.req # r
    BY <2>1 DEF LedgerInv
  <2> QED
    BY <1>2, <2>2 DEF ActComplete, ActFail, TypeOK
<1>3. CASE \E q \in Req : Reconcile(q)
  BY <1>3 DEF Reconcile, Pending, TypeOK
<1>4. CASE UNCHANGED ledger
  BY <1>4
<1> QED
  BY <1>1, <1>2, <1>3, <1>4 DEF Next, User, Poll, SaveSettings, SetModeStudy,
     SetModeBreak, SetModeOff, ActStep, ActMode, ActUndo, Automation, Worker,
     WorkerWake, WorkerTick, WorkerSnapshot, WorkerObserve, WorkerRecord, Midnight,
     Crash, Exit, Boot, BootManager, BootSession, Reconciled, BootAdvance,
     BootRestore, vars

\* A decided request is never decided again, so a retry gets the first answer.
THEOREM DecisionsAreFinal == Spec => DecidedIsFinal
<1>1. TypeOK /\ LedgerInv /\ [Next]_vars =>
        [\A r \in Req : ledger[r].status \in {"APPLIED", "FAILED"}
                          => ledger'[r] = ledger[r]]_vars
  BY DecidedStep
<1> QED
  BY <1>1, LedgerInvariant, PTL DEF Spec, DecidedIsFinal

(***************************************************************************)
(* The mode a break returns to.  The manager only remembers it in a        *)
(* setting of its own; what makes it the right one is that every eye-care  *)
(* session, in memory or in the table, was opened after the setting was    *)
(* last written, or reopened by an action that still holds the service.    *)
(***************************************************************************)
ReturnInv ==
    /\ IsEye(canon) => ret = before
    /\ IsEye(row) => ret = before
    /\ act.pc \in {"complete", "undo"} /\ CurrentAction \in Ends => ret = before
    /\ act.pc # "idle" => Running

\* Sessions the manager opens on its own account are no eye-care breaks.
LEMMA NotEye ==
    ASSUME NEW d, NEW m, NEW p, NEW e
    PROVE  ~IsEye(Manual(m, d)) /\ ~IsEye(Automatic(m, p, e, d)) /\ ~IsEye(NoSession)
  BY DEF IsEye, Manual, Automatic, NoSession

\* A step that does not touch ret, before and act, opens no eye-care session
\* and forgets none of the requests.
LEMMA ReturnUntouched ==
    ASSUME ReturnInv, UNCHANGED <<ret, before, act, life>>,
           act.pc # "idle" => ledger' = ledger,
           IsEye(canon') => canon' \in {canon, row} \/ ret = before,
           IsEye(row') => row' \in {canon, row} \/ ret = before
    PROVE  ReturnInv'
  BY DEF ReturnInv, IsEye, Running, CurrentAction

\* ReturnInv is inductive.
LEMMA ReturnStep == TypeOK /\ ReturnInv /\ [Next]_vars => ReturnInv'
<1> SUFFICES ASSUME TypeOK, ReturnInv, [Next]_vars PROVE ReturnInv'
  OBVIOUS
<1>1. \A d : AfterMidnight(d) = canon \/ ~IsEye(AfterMidnight(d))
  BY NotEye DEF AfterMidnight
<1>2. CASE Poll \/ (\E on \in BOOLEAN : SaveSettings(on)) \/ Midnight
           \/ WorkerWake \/ WorkerSnapshot \/ WorkerObserve \/ WorkerRecord
           \/ UNCHANGED vars
  BY <1>2, ReturnUntouched DEF Poll, SaveSettings, Midnight, WorkerWake,
     WorkerSnapshot, WorkerObserve, WorkerRecord, vars, mgr
<1>3. CASE SetModeStudy \/ SetModeBreak \/ SetModeOff
  <2>1. UNCHANGED <<ret, before, act, life, ledger>>
    BY <1>3 DEF SetModeStudy, SetModeBreak, SetModeOff
  <2>2. (canon' = canon /\ row' = row) \/ (~IsEye(canon') /\ ~IsEye(row'))
    BY <1>3, NotEye DEF SetModeStudy, SetModeBreak, SetModeOff, Switch, mgr, IsEye, Manual
  <2> QED
    BY <2>1, <2>2, ReturnUntouched
<1>4. CASE Automation \/ WorkerTick
  <2>1. UNCHANGED <<ret, before, act, life, ledger>>
    BY <1>4 DEF Automation, WorkerTick
  <2>2. canon' = row' /\ (canon' = canon \/ ~IsEye(canon'))
    <3>1. \A m, p, e, d : ~IsEye(Automatic(m, p, e, d))
      BY DEF IsEye, Automatic
    <3> QED
      BY <1>1, <1>4, <3>1 DEF Automation, WorkerTick, Switch
  <2> QED
    BY <2>1, <2>2, ReturnUntouched
<1>5. CASE \E r \in Req, a \in Actions : ActBegin(r, a)
  <2>1. PICK r \in Req, a \in Actions : ActBegin(r, a)
    BY <1>5
  <2>2. act'.req = r /\ act'.pc = IF a \in Starts \cup Ends THEN "mode" ELSE "complete"
    BY <2>1 DEF ActBegin
  <2>3. ledger'[r].action = a
    BY <2>1 DEF ActBegin, TypeOK
  <2>4. UNCHANGED <<canon, row, ret, before, life>> /\ Running
    BY <2>1 DEF ActBegin, mgr, Unlocked
  <2> QED
    BY <2>2, <2>3, <2>4 DEF ReturnInv, CurrentAction, IsEye, Running
<1>6. CASE ActMode
  <2>1. /\ act.pc = "mode" /\ UNCHANGED <<ledger, life>> /\ Running
        /\ Goto("complete") \/ Goto("fail")
    BY <1>6 DEF ActMode, StartBreak, EndBreak, Goto
  <2>2. act'.req = act.req
    BY <2>1 DEF Goto, TypeOK
  <2>3. CASE StartBreak /\ CurrentAction \in Starts
    <3>1. \/ ret' = before'
          \/ (~IsEye(canon') /\ ~IsEye(row'))
          \/ UNCHANGED <<canon, row, ret, before>>
      BY <1>1, <2>3 DEF StartBreak, Switch, mgr
    <3>2. CurrentAction' \notin Ends
      BY <2>1, <2>2, <2>3 DEF CurrentAction, Starts, Ends
    <3> QED
      BY <2>1, <3>1, <3>2 DEF ReturnInv, IsEye, Running
  <2>4. CASE /\ EndBreak("complete", [act EXCEPT !.pc = "fail"])
             /\ UNCHANGED <<ret, before>>
    <3>1. CASE act' = [act EXCEPT !.pc = "fail"] /\ UNCHANGED mgr
      <4>1. act'.pc = "fail"
        BY <3>1 DEF TypeOK
      <4> QED
        BY <2>1, <2>4, <3>1, <4>1 DEF ReturnInv, IsEye, Running, mgr
    <3>2. CASE IsEye(canon) /\ Switch(Manual(ReturnMode, day), mdate)
      <4>1. ~IsEye(canon') /\ ~IsEye(row')
        BY <3>2 DEF Switch, IsEye, Manual
      <4> QED
        BY <2>1, <2>4, <3>2, <4>1 DEF ReturnInv, Running
    <3> QED
      BY <2>4, <3>1, <3>2 DEF EndBreak
  <2> QED
    BY <1>6, <2>3, <2>4 DEF ActMode
<1>7. CASE ActComplete
  <2>1. /\ UNCHANGED <<canon, row, ret, before, life>> /\ Running
        /\ act.pc = "complete"
    BY <1>7 DEF ActComplete, mgr
  <2>2. \/ act'.pc \in {"idle", "fail"}
        \/ (act'.req = act.req /\ UNCHANGED ledger)
    BY <1>7 DEF ActComplete, Goto, Idle, TypeOK
  <2> QED
    BY <2>1, <2>2 DEF ReturnInv, IsEye, Running, CurrentAction
<1>8. CASE ActUndo
  <2>1. /\ UNCHANGED <<ret, before, life, ledger>> /\ Running /\ act.pc = "undo"
    BY <1>8 DEF ActUndo
  <2>2. act'.pc \in {"idle", "fail"}
    BY <1>8 DEF ActUndo, EndBreak, RestoreBreak, Goto, Idle, TypeOK
  <2>3. CASE CurrentAction \in Starts /\ EndBreak("fail", Idle)
    <3>1. UNCHANGED <<canon, row>> \/ (~IsEye(canon') /\ ~IsEye(row'))
      BY <2>3 DEF EndBreak, Switch, IsEye, Manual, mgr
    <3> QED
      BY <2>1, <2>2, <3>1 DEF ReturnInv, IsEye, Running
  <2>4. CASE CurrentAction \in Ends
    <3>1. ret = before
      BY <2>1, <2>4 DEF ReturnInv
    <3> QED
      BY <2>1, <2>2, <3>1 DEF ReturnInv, Running
  <2> QED
    BY <1>8, <2>3, <2>4 DEF ActUndo
<1>9. CASE ActFail
  <2>1. UNCHANGED <<canon, row, ret, before, life>> /\ act'.pc = "idle"
    BY <1>9 DEF ActFail, Idle, mgr
  <2> QED
    BY <2>1 DEF ReturnInv, IsEye
<1>10. CASE Crash \/ Exit
  <2>1. /\ UNCHANGED <<canon, ret, before>> /\ act'.pc = "idle"
        /\ row' \in {row, NoSession}
    BY <1>10 DEF Crash, Exit, Stopped, Idle, mgr
  <2>2. ~IsEye(NoSession)
    BY DEF IsEye, NoSession
  <2> QED
    BY <2>1, <2>2 DEF ReturnInv, IsEye
<1>11. CASE Boot
  <2>1. UNCHANGED <<act, ret, before>> /\ act.pc = "idle"
    BY <1>11 DEF Boot, BootManager, BootSession, Reconcile, Reconciled,
       BootAdvance, BootRestore, ReturnInv, Running
  <2>2. /\ canon' \in {canon, row} \/ ~IsEye(canon')
        /\ row' \in {canon, row} \/ ~IsEye(row')
    BY <1>11 DEF Boot, BootManager, BootSession, Reconcile, Reconciled,
       BootAdvance, BootRestore, IsEye, Manual, NoSession, mgr
  <2> QED
    BY <2>1, <2>2 DEF ReturnInv, IsEye
<1> QED
  BY <1>2, <1>3, <1>4, <1>5, <1>6, <1>7, <1>8, <1>9, <1>10, <1>11
  DEF Next, User, ActStep, Worker

\* Every reachable state satisfies the strengthening.
LEMMA ReturnInvariant == Spec => [](TypeOK /\ ReturnInv)
<1>1. Init => ReturnInv
  <2> SUFFICES ASSUME Init PROVE ReturnInv
    OBVIOUS
  <2>1. act.pc = "idle" /\ ~IsEye(canon) /\ ~IsEye(row)
    BY DEF Init, Idle, IsEye, Manual
  <2> QED
    BY <2>1 DEF ReturnInv
<1>2. TypeOK /\ ReturnInv /\ [Next]_vars => (TypeOK /\ ReturnInv)'
  BY NextType, ReturnStep
<1> QED
  BY <1>1, <1>2, InitType, PTL DEF Spec

\* The step of an Act call that takes the user out of a break leads to the
\* mode the break began in.
LEMMA ReturnsStep ==
    ASSUME TypeOK, ReturnInv, [Next]_vars, IsEye(canon), ~IsEye(canon'),
           act.pc \in {"mode", "undo"}, act' # act, life' = "up"
    PROVE  canon'.mode = before
<1>1. ret = before /\ before \in Modes /\ ret # "unset"
  BY DEF ReturnInv, TypeOK, Modes
<1>2. ReturnMode = before
  BY <1>1 DEF ReturnMode
<1>3. CASE ActMode \/ ActUndo
  <2>1. ASSUME NEW f, EndBreak("complete", f) \/ EndBreak("fail", f)
        PROVE  canon' = Manual(ReturnMode, day)
    BY <2>1 DEF EndBreak, Switch, mgr, IsEye
  <2>2. canon' = Manual(ReturnMode, day)
    BY <1>3, <2>1 DEF ActMode, ActUndo, StartBreak, RestoreBreak, mgr, IsEye
  <2> QED
    BY <1>2, <2>2 DEF Manual
<1>4. CASE ActComplete \/ ActFail
  BY <1>4 DEF ActComplete, ActFail
<1>5. CASE Crash \/ Exit
  BY <1>5 DEF Crash, Exit, Stopped
<1>6. CASE UNCHANGED act
  BY <1>6
<1>7. CASE \E r \in Req, a \in Actions : ActBegin(r, a)
  BY <1>7 DEF ActBegin, Unlocked
<1> QED
  BY <1>3, <1>4, <1>5, <1>6, <1>7 DEF Next, User, Poll, SaveSettings, SetModeStudy,
     SetModeBreak, SetModeOff, ActStep, Automation, Worker, WorkerWake, WorkerTick,
     WorkerSnapshot, WorkerObserve, WorkerRecord, Midnight, Boot, BootManager,
     BootSession, Reconcile, Reconciled, BootAdvance, BootRestore, vars

\* A break the user ends leads back to the mode it was started from, over
\* compensations, crashes and restarts.
THEOREM BreaksReturn == Spec => ReturnsToModeBefore
<1>1. TypeOK /\ ReturnInv /\ [Next]_vars =>
        [IsEye(canon) /\ ~IsEye(canon') /\ act.pc \in {"mode", "undo"} /\ act' # act
          /\ life' = "up" => canon'.mode = before]_vars
  BY ReturnsStep
<1> QED
  BY <1>1, ReturnInvariant, PTL DEF Spec, ReturnsToModeBefore

(***************************************************************************)
(* A break across a crash.  CrashInv follows the session and the phase of  *)
(* an interrupted break through the start-up; RowInv says where the        *)
(* session is, PlanInv that a replayed start leads to a break.             *)
(***************************************************************************)
RowInv ==
    /\ life \in {"up", "reconcile", "advance", "restore"} => row = canon
    /\ life = "session" => row = NoSession

PlanInv ==
    \A r \in Req : ledger[r].status = "PENDING" /\ ledger[r].action \in Starts
                     => ledger[r].plan.phase \in Timed

CrashInv ==
    atCrash /\ ~Running =>
      /\ IsEye(canon) /\ disk.phase \in BreakPhases
      /\ life = "manager" => row = canon
      /\ ~StaleRefusal

\* An evaluation that sees the break's mode keeps the break.
LEMMA BreakEvolves ==
    ASSUME NEW s \in Status, NEW eye \in BOOLEAN, eye, NEW d \in Nat,
           NEW t \in Advanced(s, eye, d), s.phase \in BreakPhases
    PROVE  t.phase \in BreakPhases
<1> DEFINE r == RollDate(s, d)
<1>1. r \in Status /\ r.phase = s.phase
  <2>1. ASSUME s.date # d
        PROVE  r = [[s EXCEPT !.snoozes = 0, !.snoozed = FALSE] EXCEPT !.date = d]
    BY <2>1 DEF RollDate
  <2> QED
    BY <2>1 DEF RollDate, Status
<1> HIDE DEF r
<1>2. \A e \in Evolved(s, eye, d) : e \in Status /\ e.phase \in BreakPhases
  <2>1. ASSUME NEW e \in Evolved(s, eye, d)
        PROVE  e \in {r, [r EXCEPT !.phase = "WAITING"], [r EXCEPT !.snoozed = FALSE]}
    BY <2>1 DEF Evolved, r
  <2>2. /\ [r EXCEPT !.phase = "WAITING"] \in Status
        /\ [r EXCEPT !.phase = "WAITING"].phase = "WAITING"
        /\ [r EXCEPT !.snoozed = FALSE] \in Status
        /\ [r EXCEPT !.snoozed = FALSE].phase = r.phase
    BY <1>1 DEF Status, Phases
  <2> QED
    BY <1>1, <2>1, <2>2 DEF BreakPhases
<1>3. PICK e \in Evolved(s, eye, d) :
        t = IF e = s THEN s ELSE [e EXCEPT !.rev = s.rev + 1]
  BY DEF Advanced
<1>4. [e EXCEPT !.rev = s.rev + 1].phase = e.phase
  BY <1>2 DEF Status
<1> QED
  BY <1>2, <1>3, <1>4

\* A write, done or failed, of a status with a break leaves a break.
LEMMA BreakWritten ==
    ASSUME NEW s, s.phase \in BreakPhases, TryCommit(s), mem.phase \in BreakPhases,
           disk.phase \in BreakPhases
    PROVE  mem'.phase \in BreakPhases /\ disk'.phase \in BreakPhases
  BY DEF TryCommit, Commit, KeepOnFault

\* The memory of the manager and the table agree on the session.
LEMMA RowStep == LedgerInv /\ RowInv /\ [Next]_vars => RowInv'
<1> SUFFICES ASSUME LedgerInv, RowInv, [Next]_vars PROVE RowInv'
  OBVIOUS
<1>1. CASE UNCHANGED <<mgr, life>>
  BY <1>1 DEF RowInv, mgr
<1>2. CASE UNCHANGED life /\ Running /\ \E c, d : Switch(c, d)
  BY <1>2 DEF RowInv, Switch, Running
<1>3. CASE Crash \/ Exit
  BY <1>3 DEF Crash, Exit, Stopped, RowInv
<1>4. CASE Boot
  BY <1>4 DEF Boot, BootManager, BootSession, Reconcile, Reconciled, BootAdvance,
     BootRestore, RowInv, mgr
<1>5. CASE ActMode
  BY <1>1, <1>2, <1>5 DEF ActMode, StartBreak, EndBreak
<1>6. CASE ActUndo
  BY <1>1, <1>2, <1>6 DEF ActUndo, RestoreBreak, EndBreak
<1>7. CASE SetModeStudy \/ SetModeBreak \/ SetModeOff
  BY <1>1, <1>2, <1>7 DEF SetModeStudy, SetModeBreak, SetModeOff
<1>8. CASE Automation \/ WorkerTick
  BY <1>2, <1>8 DEF Automation, WorkerTick
<1>9. CASE UNCHANGED vars
  BY <1>1, <1>9 DEF vars, mgr
<1> QED
  BY <1>1, <1>3, <1>4, <1>5, <1>6, <1>7, <1>8, <1>9 DEF Next, User, Poll,
     SaveSettings, ActBegin, ActStep, ActComplete, ActFail, Worker, WorkerWake,
     WorkerSnapshot, WorkerObserve, WorkerRecord, Midnight

\* The plan of a request to start a break has the break.
LEMMA PlannedBreak ==
    ASSUME NEW s \in Status, NEW a \in Starts
    PROVE  Planned(a, s).phase \in Timed
  BY DEF Planned, Status, Starts, Timed

\* What a step may do to the requests: begin one, decide one.
LEMMA RequestsMove ==
    ASSUME TypeOK, [Next]_vars
    PROVE  \/ UNCHANGED ledger
           \/ \E r \in Req, a \in Actions :
                /\ ActBegin(r, a)
                /\ ledger' = [ledger EXCEPT ![r] =
                     [status |-> "PENDING", action |-> a, plan |-> Planned(a, mem)]]
           \/ /\ ActComplete \/ ActFail
              /\ act.req \in Req /\ \E st \in {"APPLIED", "FAILED"} :
                   ledger' = [ledger EXCEPT ![act.req].status = st]
           \/ \E r \in Req, st \in {"APPLIED", "FAILED"} :
                Reconcile(r) /\ ledger' = [ledger EXCEPT ![r].status = st]
<1>1. CASE ActComplete \/ ActFail
  BY <1>1 DEF ActComplete, ActFail, TypeOK
<1>2. CASE \E r \in Req : Reconcile(r)
  BY <1>2 DEF Reconcile
<1>3. CASE \E r \in Req, a \in Actions : ActBegin(r, a)
  BY <1>3 DEF ActBegin
<1> QED
  BY <1>1, <1>2, <1>3 DEF Next, User, Poll, SaveSettings, SetModeStudy,
     SetModeBreak, SetModeOff, ActStep, ActMode, ActUndo, Automation, Worker,
     WorkerWake, WorkerTick, WorkerSnapshot, WorkerObserve, WorkerRecord, Midnight,
     Crash, Exit, Boot, BootManager, BootSession, Reconciled, BootAdvance,
     BootRestore, vars

\* Deciding a request leaves the other ones, and its own action and plan.
LEMMA DecidedRequest ==
    ASSUME TypeOK, NEW r \in Req, NEW st \in {"APPLIED", "FAILED"},
           ledger' = [ledger EXCEPT ![r].status = st]
    PROVE  \A q \in Req :
             /\ ledger'[q].action = ledger[q].action
             /\ ledger'[q].plan = ledger[q].plan
             /\ ledger'[q].status = IF q = r THEN st ELSE ledger[q].status
  BY DEF TypeOK, Request

LEMMA PlanStep == TypeOK /\ PlanInv /\ [Next]_vars => PlanInv'
<1> SUFFICES ASSUME TypeOK, PlanInv, [Next]_vars PROVE PlanInv'
  OBVIOUS
<1>1. ASSUME NEW r \in Req, NEW st \in {"APPLIED", "FAILED"},
             ledger' = [ledger EXCEPT ![r].status = st]
      PROVE  PlanInv'
  BY <1>1, DecidedRequest DEF PlanInv
<1>2. ASSUME NEW r \in Req, NEW a \in Actions,
             ledger' = [ledger EXCEPT ![r] =
               [status |-> "PENDING", action |-> a, plan |-> Planned(a, mem)]]
      PROVE  PlanInv'
  <2>1. \A q \in Req : q # r => ledger'[q] = ledger[q]
    BY <1>2 DEF TypeOK
  <2>2. ledger'[r].action = a /\ ledger'[r].plan = Planned(a, mem)
    BY <1>2 DEF TypeOK
  <2>3. a \in Starts => Planned(a, mem).phase \in Timed
    BY PlannedBreak DEF TypeOK
  <2> QED
    BY <2>1, <2>2, <2>3 DEF PlanInv
<1> QED
  BY <1>1, <1>2, RequestsMove DEF PlanInv

\* An interrupted break stays in the table, and its mode in the manager,
\* until the program is up again.
LEMMA CrashStep ==
    TypeOK /\ WriteThrough /\ RowInv /\ PlanInv /\ CrashInv /\ [Next]_vars => CrashInv'
<1> SUFFICES ASSUME TypeOK, WriteThrough, RowInv, PlanInv, CrashInv, [Next]_vars,
                    (atCrash /\ ~Running)'
             PROVE  /\ IsEye(canon') /\ disk'.phase \in BreakPhases
                    /\ life' = "manager" => row' = canon'
                    /\ ~StaleRefusal'
  BY DEF CrashInv
<1>1. CASE Crash
  <2>1. Running /\ mem.phase \in BreakPhases /\ IsEye(canon) /\ ~StaleRefusal
    BY <1>1 DEF Crash, Unlocked, Resting
  <2>2. mem = disk /\ row = canon
    BY <2>1 DEF WriteThrough, RowInv, Running
  <2> QED
    BY <1>1, <2>1, <2>2 DEF Crash, svc, mgr, StaleRefusal, Pending
<1>2. CASE Exit
  BY <1>2 DEF Exit
<1>3. CASE BootManager \/ BootSession \/ Reconciled \/ Midnight \/ UNCHANGED vars
  <2>1. atCrash /\ ~Running /\ UNCHANGED <<disk, ledger>>
    BY <1>3 DEF BootManager, BootSession, Reconciled, Midnight, vars, svc, Running
  <2>2. IsEye(canon) /\ disk.phase \in BreakPhases /\ ~StaleRefusal
    BY <2>1 DEF CrashInv
  <2>3. canon # NoSession
    BY <2>2 DEF IsEye, NoSession
  <2>4. canon' = canon /\ (life' = "manager" => row' = canon')
    BY <1>3, <2>1, <2>3 DEF CrashInv, BootManager, BootSession, Reconciled, Midnight,
       vars, mgr
  <2> QED
    BY <2>1, <2>2, <2>4 DEF StaleRefusal, Pending
<1>4. CASE BootAdvance \/ BootRestore \/ \E r \in Req : Reconcile(r)
  <2>1. atCrash /\ ~Running /\ UNCHANGED canon /\ mem = disk
        /\ life \in {"reconcile", "advance", "restore"} /\ life' # "manager"
    BY <1>4 DEF BootAdvance, BootRestore, Reconcile, WriteThrough, mgr, Running
  <2>2. IsEye(canon) /\ mem.phase \in BreakPhases /\ ~StaleRefusal
    BY <2>1 DEF CrashInv
  <2>3. CASE BootAdvance
    <3>1. PICK s \in Advanced(mem, IsEye(canon), day) : TryCommit(s)
      BY <2>3 DEF BootAdvance
    <3>2. s.phase \in BreakPhases
      BY <2>2, <3>1, BreakEvolves DEF TypeOK, IsEye
    <3> QED
      BY <2>1, <2>2, <2>3, <3>1, <3>2, BreakWritten DEF BootAdvance, StaleRefusal, Pending
  <2>4. CASE BootRestore
    BY <2>4 DEF BootRestore, Running
  <2>5. CASE \E r \in Req : Reconcile(r)
    <3>1. PICK r \in Req : Reconcile(r)
      BY <2>5
    <3>2. r \in Pending /\ ledger[r].action \in Starts \cup Ends
      BY <2>2, <3>1 DEF Reconcile, StaleRefusal
    <3>3. disk'.phase \in BreakPhases
      <4>1. CASE ledger[r].action \in Ends
        BY <2>1, <2>2, <3>1, <4>1 DEF Reconcile, Refused, KeepOnFault
      <4>2. CASE ledger[r].action \in Starts
        BY <2>1, <2>2, <3>1, <3>2, <4>2 DEF Reconcile, Commit, KeepOnFault, PlanInv,
           Pending, BreakPhases
      <4> QED
        BY <3>2, <4>1, <4>2
    <3>4. ~StaleRefusal'
      <4>1. CASE UNCHANGED ledger
        BY <2>2, <4>1 DEF StaleRefusal, Pending
      <4>2. ASSUME NEW st \in {"APPLIED", "FAILED"},
                   ledger' = [ledger EXCEPT ![r].status = st]
            PROVE  ~StaleRefusal'
        BY <2>2, <4>2, DecidedRequest DEF StaleRefusal, Pending
      <4> QED
        BY <3>1, <4>1, <4>2 DEF Reconcile
    <3> QED
      BY <2>1, <2>2, <3>3, <3>4
  <2> QED
    BY <1>4, <2>3, <2>4, <2>5
<1> QED
  <2>1. CASE User \/ ActStep \/ Automation \/ Worker
    <3>1. Running /\ life' = life
      BY <2>1 DEF User, Poll, SaveSettings, ActBegin, SetModeStudy,
         SetModeBreak, SetModeOff, ActStep, ActMode, ActComplete, ActUndo, ActFail,
         Automation, Worker, WorkerWake, WorkerTick, WorkerSnapshot, WorkerObserve,
         WorkerRecord, Unlocked
    <3> QED
      BY <3>1 DEF Running
  <2> QED
    BY <1>1, <1>2, <1>3, <1>4, <2>1 DEF Next, Boot

\* Every reachable state satisfies the strengthening.
LEMMA CrashInvariant ==
    Spec => [](TypeOK /\ LedgerInv /\ WriteThrough /\ RowInv /\ PlanInv /\ CrashInv)
<1>1. Init => RowInv /\ PlanInv /\ CrashInv
  BY DEF Init, RowInv, PlanInv, CrashInv, NewRequest, Running
<1>2. TypeOK /\ LedgerInv /\ WriteThrough /\ RowInv /\ PlanInv /\ CrashInv /\ [Next]_vars
        => (RowInv /\ PlanInv /\ CrashInv)'
  BY RowStep, PlanStep, CrashStep
<1> QED
  BY <1>1, <1>2, LedgerInvariant, MemoryIsTable, PTL DEF Spec

\* The last step of a start finds an interrupted break as it was.
LEMMA RestoredStep ==
    ASSUME TypeOK, WriteThrough, CrashInv, [Next]_vars, life = "restore", atCrash
    PROVE  Resting'
<1>1. IsEye(canon) /\ mem.phase \in BreakPhases /\ mem = disk
  BY DEF CrashInv, WriteThrough, Running
<1>2. CASE BootRestore
  <2>1. [mem EXCEPT !.rev = mem.rev + 1].phase = mem.phase
    BY DEF TypeOK, Status
  <2> QED
    BY <1>1, <1>2, <2>1, BreakWritten DEF BootRestore, Resting, mgr
<1>3. CASE Crash \/ Midnight \/ UNCHANGED vars
  BY <1>1, <1>3 DEF Crash, Midnight, vars, svc, mgr, Resting
<1> QED
  BY <1>2, <1>3 DEF Next, User, Poll, SaveSettings, ActBegin, SetModeStudy,
     SetModeBreak, SetModeOff, ActStep, ActMode, ActComplete, ActUndo, ActFail,
     Automation, Worker, WorkerWake, WorkerTick, WorkerSnapshot, WorkerObserve,
     WorkerRecord, Unlocked, Running, Exit, Boot, BootManager, BootSession,
     Reconcile, Reconciled, BootAdvance

\* A crash in a quiet break leads back into the break, whatever storage calls
\* fail before, between and after, and whether or not actions overlap the worker.
THEOREM CrashesKeepBreaks == Spec => CrashKeepsBreak
<1>1. TypeOK /\ WriteThrough /\ CrashInv /\ [Next]_vars =>
        [life = "restore" /\ atCrash => Resting']_vars
  BY RestoredStep
<1> QED
  BY <1>1, CrashInvariant, PTL DEF Spec, CrashKeepsBreak

(***************************************************************************)
(* Who ends a break.  Every theorem above holds with and without Overlap;  *)
(* the following two do not, since the worker may hold a snapshot of the   *)
(* mode from before the break (run eyecare_overlap).  Without Overlap      *)
(* WorkerInv says that its snapshot is never behind a break's beginning,   *)
(* RefusalInv that a refusal is committed over no break.                   *)
(***************************************************************************)
WorkerInv ==
    /\ wk.pc # "wake" => Running /\ act.pc = "idle"
    /\ wk.pc \in {"observe", "record"} /\ IsEye(canon) => wk.eye = TRUE

RefusalInv ==
    act.pc = "complete" /\ CurrentAction \notin Starts \cup Ends
      => mem.phase \in DuePhases

\* While the program is up, only the mode step and the compensation of an Act
\* call open an eye-care session.
LEMMA OnlyActsBreak ==
    ASSUME [Next]_vars, Running, act.pc \notin {"mode", "undo"}
    PROVE  canon' = canon \/ ~IsEye(canon')
<1>1. \A m, p, e, d : ~IsEye(Manual(m, d)) /\ ~IsEye(Automatic(m, p, e, d))
  BY DEF IsEye, Manual, Automatic
<1>2. \A d : AfterMidnight(d) = canon \/ ~IsEye(AfterMidnight(d))
  BY <1>1 DEF AfterMidnight
<1>3. CASE SetModeStudy \/ SetModeBreak \/ SetModeOff
  BY <1>1, <1>3 DEF SetModeStudy, SetModeBreak, SetModeOff, Switch, mgr
<1>4. CASE Automation \/ WorkerTick
  BY <1>1, <1>2, <1>4 DEF Automation, WorkerTick, Switch
<1>5. CASE UNCHANGED vars
  BY <1>5 DEF vars
<1> QED
  BY <1>3, <1>4, <1>5 DEF Next, User, Poll, SaveSettings, ActBegin, ActStep, ActMode,
     ActComplete, ActUndo, ActFail, Worker, WorkerWake, WorkerSnapshot, WorkerObserve,
     WorkerRecord, Midnight, Crash, Exit, Boot, BootManager, BootSession, Reconcile,
     Reconciled, BootAdvance, BootRestore, Running, mgr

\* The worker's snapshot misses no break when actions wait for the worker.
LEMMA WorkerStep ==
    ASSUME ~Overlap
    PROVE  TypeOK /\ LedgerInv /\ WorkerInv /\ [Next]_vars => WorkerInv'
<1> SUFFICES ASSUME TypeOK, LedgerInv, WorkerInv, [Next]_vars PROVE WorkerInv'
  OBVIOUS
<1>1. CASE User \/ Automation \/ Midnight \/ UNCHANGED vars
  <2>1. /\ UNCHANGED <<wk, life>>
        /\ act' = act \/ wk.pc = "wake"
    BY <1>1 DEF User, Poll, SaveSettings, ActBegin, SetModeStudy, SetModeBreak,
       SetModeOff, Automation, Midnight, vars
  <2>2. CASE wk.pc = "wake"
    BY <2>1, <2>2 DEF WorkerInv
  <2>3. CASE wk.pc # "wake"
    <3>1. Running /\ act.pc = "idle" /\ act' = act
      BY <2>1, <2>3 DEF WorkerInv
    <3>2. canon' = canon \/ ~IsEye(canon')
      BY <3>1, OnlyActsBreak
    <3> QED
      BY <2>1, <3>1, <3>2 DEF WorkerInv, Running, IsEye
  <2> QED
    BY <2>2, <2>3
<1>2. CASE ActStep
  <2>1. act.pc # "idle" /\ UNCHANGED wk
    BY <1>2 DEF ActStep, ActMode, ActComplete, ActUndo, ActFail
  <2> QED
    BY <2>1 DEF WorkerInv
<1>3. CASE WorkerWake
  <2>1. wk'.pc = "tick" /\ act.pc = "idle" /\ UNCHANGED <<act, life>> /\ Running
    BY <1>3 DEF WorkerWake, TypeOK
  <2> QED
    BY <2>1 DEF WorkerInv, Running
<1>4. CASE WorkerTick
  <2>1. wk'.pc = "snapshot" /\ wk.pc = "tick" /\ UNCHANGED <<act, life>>
    BY <1>4 DEF WorkerTick, TypeOK
  <2> QED
    BY <2>1 DEF WorkerInv, Running
<1>5. CASE WorkerSnapshot
  <2>1. /\ wk'.pc = "observe" /\ wk'.eye = IsEye(canon) /\ wk.pc = "snapshot"
        /\ UNCHANGED <<act, life, canon>>
    BY <1>5 DEF WorkerSnapshot, TypeOK, mgr
  <2> QED
    BY <2>1 DEF WorkerInv, Running, IsEye
<1>6. CASE WorkerObserve
  <2>1. /\ wk'.pc = "record" /\ wk'.eye = wk.eye /\ wk.pc = "observe"
        /\ UNCHANGED <<act, life, canon>>
    BY <1>6 DEF WorkerObserve, TypeOK, mgr
  <2> QED
    BY <2>1 DEF WorkerInv, Running, IsEye
<1>7. CASE WorkerRecord \/ Crash \/ Exit
  <2>1. wk'.pc = "wake"
    BY <1>7 DEF WorkerRecord, Crash, Exit, Stopped, Asleep
  <2> QED
    BY <2>1 DEF WorkerInv
<1>8. CASE Boot
  <2>1. ~Running /\ UNCHANGED wk
    BY <1>8 DEF Boot, BootManager, BootSession, Reconcile, Reconciled, BootAdvance,
       BootRestore, Running
  <2> QED
    BY <2>1 DEF WorkerInv
<1> QED
  BY <1>1, <1>2, <1>3, <1>4, <1>5, <1>6, <1>7, <1>8 DEF Next, Worker

\* The prompt a refusal answers stays until the refusal is committed, since the
\* call holds the service.
LEMMA RefusalStep == TypeOK /\ LedgerInv /\ RefusalInv /\ [Next]_vars => RefusalInv'
<1> SUFFICES ASSUME TypeOK, LedgerInv, RefusalInv, [Next]_vars,
                    act'.pc = "complete", CurrentAction' \notin Starts \cup Ends
             PROVE  mem'.phase \in DuePhases
  BY DEF RefusalInv
<1>1. CASE UNCHANGED <<act, mem, ledger>>
  BY <1>1 DEF RefusalInv, CurrentAction
<1>2. CASE act.pc = "idle" /\ UNCHANGED act
  BY <1>2
<1>3. CASE \E r \in Req, a \in Actions : ActBegin(r, a)
  <2>1. PICK r \in Req, a \in Actions : ActBegin(r, a)
    BY <1>3
  <2>2. act'.req = r /\ ledger'[r].action = a /\ mem' = mem
    BY <2>1 DEF ActBegin, TypeOK, svc
  <2>3. a \in {"SNOOZE", "SKIP"}
    BY <2>2 DEF CurrentAction, Actions
  <2>4. CanAct(a, mem, canon)
    BY <2>1 DEF ActBegin
  <2> QED
    BY <2>2, <2>3, <2>4 DEF CanAct
<1>4. CASE ActMode
  <2>1. act'.req = act.req /\ ledger' = ledger /\ CurrentAction \in Starts \cup Ends
    BY <1>4 DEF ActMode, StartBreak, EndBreak, Goto, TypeOK
  <2> QED
    BY <2>1 DEF CurrentAction
<1>5. CASE ActComplete \/ ActUndo \/ ActFail \/ Crash \/ Exit
  <2>1. act'.pc # "complete"
    BY <1>5 DEF ActComplete, ActUndo, RestoreBreak, EndBreak, ActFail, Crash, Exit,
       Stopped, Goto, Idle, TypeOK
  <2> QED
    BY <2>1
<1>6. CASE Boot
  <2>1. ~Running /\ UNCHANGED act
    BY <1>6 DEF Boot, BootManager, BootSession, Reconcile, Reconciled, BootAdvance,
       BootRestore, Running
  <2> QED
    BY <1>2, <2>1 DEF LedgerInv
<1>7. CASE UNCHANGED vars
  BY <1>1, <1>7 DEF vars
<1> QED
  BY <1>1, <1>2, <1>3, <1>4, <1>5, <1>6, <1>7 DEF Next, User, Poll, SaveSettings,
     SetModeStudy, SetModeBreak, SetModeOff, ActStep, Automation, Worker, WorkerWake,
     WorkerTick, WorkerSnapshot, WorkerObserve, WorkerRecord, Midnight, Unlocked, svc

\* Every reachable state satisfies the strengthening.
LEMMA BreakInvariant ==
    ASSUME ~Overlap
    PROVE  Spec => [](/\ TypeOK /\ LedgerInv /\ WriteThrough /\ RowInv /\ PlanInv
                      /\ RefusalInv /\ WorkerInv)
<1>1. Init => RefusalInv /\ WorkerInv
  BY DEF Init, Idle, Asleep, RefusalInv, WorkerInv
<1>2. TypeOK /\ LedgerInv /\ RefusalInv /\ WorkerInv /\ [Next]_vars
        => (RefusalInv /\ WorkerInv)'
  BY RefusalStep, WorkerStep
<1> QED
  BY <1>1, <1>2, CrashInvariant, PTL DEF Spec

\* A status in which a break was recorded is recorded as it is.
LEMMA BreakRecorded ==
    ASSUME NEW s, s.phase \in BreakPhases
    PROVE  Recorded(s) = {s}
  BY DEF Recorded

\* The worker ends no break whose mode its snapshot shows.
LEMMA WorkerKeeps ==
    ASSUME TypeOK, WriteThrough, WorkerInv, IsEye(canon), mem.phase \in BreakPhases,
           WorkerObserve \/ WorkerRecord
    PROVE  mem'.phase \in BreakPhases /\ disk'.phase \in BreakPhases
<1>1. wk.eye = TRUE /\ wk.eye \in BOOLEAN /\ wk.now \in Nat /\ Running
  BY DEF WorkerInv, WorkerObserve, WorkerRecord, TypeOK, Unlocked
<1>2. \A s \in Advanced(mem, wk.eye, wk.now) : s.phase \in BreakPhases
  BY <1>1, BreakEvolves DEF TypeOK
<1>3. disk.phase \in BreakPhases
  BY <1>1 DEF WriteThrough, Running
<1>4. CASE WorkerObserve
  BY <1>2, <1>3, <1>4, BreakWritten DEF WorkerObserve
<1>5. CASE WorkerRecord
  <2>1. PICK s \in Advanced(mem, wk.eye, wk.now) :
          \/ s # mem /\ KeepOnFault
          \/ Commit(s)
          \/ Budget /\ \E t \in Recorded(s) :
               \/ Commit(t)
               \/ t # s /\ Fail /\ mem' = s /\ disk' = s
    BY <1>5 DEF WorkerRecord
  <2>2. s.phase \in BreakPhases /\ Recorded(s) = {s}
    BY <1>2, BreakRecorded
  <2> QED
    BY <1>3, <2>1, <2>2 DEF Commit, KeepOnFault
<1> QED
  BY <1>4, <1>5

\* Polls and settings end no break that has its mode.
LEMMA ServiceKeeps ==
    ASSUME TypeOK, WriteThrough, IsEye(canon), mem.phase \in BreakPhases,
           Poll \/ \E on \in BOOLEAN : SaveSettings(on)
    PROVE  mem'.phase \in BreakPhases /\ disk'.phase \in BreakPhases
<1>1. disk.phase \in BreakPhases
  BY DEF Poll, SaveSettings, Unlocked, Running, WriteThrough
<1>2. CASE Poll
  <2>1. PICK s \in Advanced(mem, IsEye(canon), day) : TryCommit(s)
    BY <1>2 DEF Poll
  <2>2. s.phase \in BreakPhases
    BY <2>1, BreakEvolves DEF TypeOK, IsEye
  <2> QED
    BY <1>1, <2>1, <2>2, BreakWritten
<1>3. CASE \E on \in BOOLEAN : SaveSettings(on)
  <2>1. PICK on \in BOOLEAN : SaveSettings(on)
    BY <1>3
  <2>2. on /\ mem.phase # "DISABLED"
    BY <2>1 DEF SaveSettings, BreakPhases, Timed
  <2> DEFINE s == [mem EXCEPT
                     !.rev = mem.rev + 1,
                     !.snoozed = on /\ mem.snoozed,
                     !.phase = IF ~on THEN "DISABLED"
                               ELSE IF mem.phase = "DISABLED" THEN "FOCUSING"
                               ELSE mem.phase]
  <2>3. s.phase = mem.phase
    BY <2>2 DEF TypeOK, Status
  <2>4. Commit(s) \/ KeepOnFault
    BY <2>1 DEF SaveSettings
  <2> HIDE DEF s
  <2> QED
    BY <1>1, <2>3, <2>4 DEF Commit, KeepOnFault
<1> QED
  BY <1>2, <1>3

\* A step that takes the user out of a break is the user's or the new day's.
LEMMA BreakEndsStep ==
    ASSUME TypeOK, LedgerInv, WriteThrough, PlanInv, RefusalInv, WorkerInv, [Next]_vars,
           Resting, Running, life' = "up"
    PROVE  Resting' \/ UserEndsBreak \/ mdate' # mdate
<1>0. mem.phase \in BreakPhases /\ IsEye(canon)
  BY DEF Resting
<1>1. CASE UNCHANGED <<mem, canon>>
  BY <1>0, <1>1 DEF Resting
<1>2. CASE Poll \/ (\E on \in BOOLEAN : SaveSettings(on)) \/ WorkerObserve \/ WorkerRecord
  <2>1. mem'.phase \in BreakPhases
    BY <1>0, <1>2, ServiceKeeps, WorkerKeeps
  <2>2. canon' = canon
    BY <1>2 DEF Poll, SaveSettings, WorkerObserve, WorkerRecord, mgr
  <2> QED
    BY <1>0, <2>1, <2>2 DEF Resting
<1>3. CASE SetModeStudy \/ SetModeBreak \/ SetModeOff
  <2>1. ~SetModeStudy /\ ~SetModeBreak
    BY <1>0 DEF SetModeStudy, SetModeBreak, IsEye
  <2>2. UNCHANGED <<mem, canon>> \/ canon'.mode = "OFF"
    BY <1>3, <2>1 DEF SetModeOff, Switch, Manual, svc, mgr
  <2> QED
    BY <1>1, <2>2 DEF UserEndsBreak
<1>4. CASE Automation \/ WorkerTick
  <2>1. UNCHANGED mem
    BY <1>4 DEF Automation, WorkerTick, svc
  <2>2. mdate' # mdate \/ canon' = canon
    BY <1>0, <1>4 DEF Automation, WorkerTick, Switch, AfterMidnight, IsEye
  <2> QED
    BY <1>1, <2>1, <2>2
<1>5. CASE ActMode \/ ActUndo
  <2>1. UNCHANGED mem
    BY <1>5 DEF ActMode, ActUndo, svc
  <2>2. UserEndsBreak \/ canon' = canon
    BY <1>0, <1>5 DEF ActMode, ActUndo, StartBreak, RestoreBreak, UserEndsBreak, mgr
  <2> QED
    BY <1>1, <2>1, <2>2
<1>6. CASE ActComplete
  <2>1. act.pc = "complete" /\ UNCHANGED canon /\ act.req \in Req
    BY <1>6 DEF ActComplete, mgr, TypeOK
  <2>2. CASE CurrentAction \in Ends
    BY <2>1, <2>2 DEF UserEndsBreak
  <2>3. CASE CurrentAction \in Starts
    <3>1. ledger[act.req].plan.phase \in Timed
      BY <2>1, <2>3 DEF PlanInv, LedgerInv, CurrentAction
    <3>2. mem' = ledger[act.req].plan \/ mem' = mem
      BY <1>6 DEF ActComplete, Commit, KeepOnFault
    <3> QED
      BY <1>0, <2>1, <3>1, <3>2 DEF Resting, BreakPhases
  <2>4. CASE CurrentAction \notin Starts \cup Ends
    BY <1>0, <2>1, <2>4 DEF RefusalInv, DuePhases, BreakPhases, Timed
  <2> QED
    BY <2>2, <2>3, <2>4
<1>7. CASE Crash \/ Exit \/ Boot
  BY <1>7 DEF Crash, Exit, Stopped, Boot, BootManager, BootSession, Reconcile,
     Reconciled, BootAdvance, BootRestore, Running
<1>8. CASE UNCHANGED vars
  BY <1>1, <1>8 DEF vars
<1> QED
  BY <1>1, <1>2, <1>3, <1>4, <1>5, <1>6, <1>7, <1>8 DEF Next, User, ActBegin, ActStep,
     ActFail, Worker, WorkerWake, WorkerSnapshot, Midnight, svc, mgr

\* When actions wait for the worker's iteration, a break ends by the user's
\* click, OFF or the new day, and by nothing else, under every storage failure.
THEOREM UsersEndBreaks ==
    ASSUME ~Overlap
    PROVE  Spec => OnlyTheUserEndsABreak
<1>1. TypeOK /\ LedgerInv /\ WriteThrough /\ PlanInv /\ RefusalInv /\ WorkerInv
        /\ [Next]_vars
        => [Resting /\ Running /\ life' = "up"
              => Resting' \/ UserEndsBreak \/ mdate' # mdate]_vars
  BY BreakEndsStep
<1> QED
  BY <1>1, BreakInvariant, PTL DEF Spec, OnlyTheUserEndsABreak

(***************************************************************************)
(* No mode without its break.  Shown is the session that is, or after the  *)
(* start will be, the canonical one.  While the storage works, an eye-care *)
(* session has its break in the table or in a request that is undecided    *)
(* and will be applied; refusals and ends are under way only without one.  *)
(***************************************************************************)
Shown == IF life = "manager" THEN row ELSE canon

StartPending == \E r \in Pending : ledger[r].action \in Starts

OrphanInv ==
    faults = 0 =>
      /\ IsEye(Shown) => disk.phase \in BreakPhases \/ StartPending
      /\ IsEye(Shown) => ~StaleRefusal
      /\ act.pc \in {"mode", "fail"} /\ CurrentAction \in Starts => ~IsEye(canon)
      /\ act.pc = "complete" /\ CurrentAction \in Ends => ~IsEye(canon)

\* A step that decides nothing, opens no eye-care session and keeps the break of
\* the one there is.
LEMMA OrphanUntouched ==
    ASSUME OrphanInv, UNCHANGED ledger, faults' = 0 => faults = 0,
           act' = act \/ act'.pc = "idle",
           IsEye(canon') => IsEye(canon) \/ act'.pc = "idle",
           IsEye(Shown') => /\ IsEye(Shown)
                            /\ disk.phase \in BreakPhases => disk'.phase \in BreakPhases
    PROVE  OrphanInv'
  BY DEF OrphanInv, StartPending, StaleRefusal, Pending, CurrentAction

\* While the program is up and the storage works, an eye-care mode outside of a
\* call has its break.
LEMMA HasItsBreak ==
    ASSUME LedgerInv, WriteThrough, OrphanInv, Unlocked, faults = 0, IsEye(canon)
    PROVE  mem.phase \in BreakPhases
<1>1. life = "up" /\ Shown = canon /\ mem = disk /\ Pending = {}
  BY DEF Unlocked, Running, Shown, WriteThrough, LedgerInv
<1> QED
  BY <1>1 DEF OrphanInv, StartPending

\* Counting faults.
LEMMA FaultsGrow ==
    ASSUME TypeOK, [Next]_vars
    PROVE  faults' = faults \/ (faults' = faults + 1 /\ faults' # 0)
<1>1. faults \in Nat
  BY DEF TypeOK
<1>2. Fail => faults' = faults + 1
  BY DEF Fail
<1>3. \A s : TryCommit(s) => faults' = faults \/ Fail
  BY DEF TryCommit, Commit, KeepOnFault
<1>4. faults' = faults \/ Fail
  BY <1>3 DEF Next, User, Poll, SaveSettings, ActBegin, SetModeStudy, SetModeBreak,
     SetModeOff, ActStep, ActMode, StartBreak, EndBreak, ActComplete, ActUndo,
     RestoreBreak, ActFail, Automation, Worker, WorkerWake, WorkerTick,
     WorkerSnapshot, WorkerObserve, WorkerRecord, Midnight, Crash, Exit, Boot,
     BootManager, BootSession, Reconcile, Reconciled, BootAdvance, BootRestore,
     Commit, KeepOnFault, vars
<1> QED
  BY <1>1, <1>2, <1>4

\* A request is begun with no other one open, so its precondition speaks of the
\* break there is.
LEMMA OrphanBegin ==
    ASSUME TypeOK, LedgerInv, WriteThrough, OrphanInv, NEW r \in Req, NEW a \in Actions,
           ActBegin(r, a)
    PROVE  OrphanInv'
<1>1. SUFFICES ASSUME faults = 0 PROVE OrphanInv'
  BY DEF OrphanInv, ActBegin
<1>2. /\ UNCHANGED <<canon, row, disk, mem, life>> /\ life = "up" /\ CanAct(a, mem, canon)
      /\ Pending = {} /\ Unlocked
  BY <1>1 DEF ActBegin, svc, mgr, Unlocked, Running, LedgerInv
<1>3. act'.req = r /\ ledger'[r].action = a
      /\ act'.pc = IF a \in Starts \cup Ends THEN "mode" ELSE "complete"
  BY DEF ActBegin, TypeOK
<1>4. \A q \in Req : ledger'[q].status = IF q = r THEN "PENDING" ELSE ledger[q].status
  BY DEF ActBegin, TypeOK, Request
<1>5. Pending' = {r}
  BY <1>2, <1>4 DEF Pending
<1>6. IsEye(canon) => mem.phase \in BreakPhases /\ mem = disk
  BY <1>1, <1>2, HasItsBreak DEF WriteThrough
<1>7. a \notin Ends => ~IsEye(canon)
  BY <1>2, <1>6 DEF CanAct, Actions, Starts, Ends, DuePhases, BreakPhases, Timed
<1>8. Shown' = canon /\ canon' = canon /\ CurrentAction' = a
  BY <1>2, <1>3 DEF Shown, CurrentAction
<1>9. IsEye(Shown') => disk'.phase \in BreakPhases
  BY <1>2, <1>6, <1>8
<1>10. IsEye(Shown') => ~StaleRefusal'
  BY <1>3, <1>5, <1>7, <1>8 DEF StaleRefusal
<1>11. act'.pc \in {"mode", "fail"} /\ CurrentAction' \in Starts => ~IsEye(canon')
  BY <1>7, <1>8 DEF Starts, Ends
<1>12. act'.pc = "complete" => CurrentAction' \notin Ends
  BY <1>3, <1>8
<1> QED
  BY <1>9, <1>10, <1>11, <1>12 DEF OrphanInv

\* The mode step: a break begins under its request, or ends under its request.
LEMMA OrphanMode ==
    ASSUME TypeOK, LedgerInv, OrphanInv, ActMode
    PROVE  OrphanInv'
<1>1. SUFFICES ASSUME faults' = 0 PROVE OrphanInv'
  BY DEF OrphanInv
<1>2. faults = 0
  BY <1>1 DEF ActMode, StartBreak, EndBreak, Fail, TypeOK
<1>3. faults' = faults /\ ~Fail
  BY <1>1, <1>2 DEF Fail
<1>4. /\ life = "up" /\ life' = "up" /\ UNCHANGED <<disk, ledger>> /\ act.pc = "mode"
      /\ act.req \in Req /\ ledger[act.req].status = "PENDING"
      /\ Pending \subseteq {act.req} /\ Pending' = Pending
  BY <1>2 DEF ActMode, Running, svc, TypeOK, LedgerInv, Pending
<1>5. act'.req = act.req /\ act'.pc \in {"complete", "fail"} /\ CurrentAction' = CurrentAction
  BY <1>4 DEF ActMode, StartBreak, EndBreak, Goto, TypeOK, CurrentAction
<1>6. Shown = canon /\ Shown' = canon'
  BY <1>4 DEF Shown
<1>7. CASE CurrentAction \in Starts /\ StartBreak
  <2>1. ~IsEye(canon)
    BY <1>2, <1>4, <1>7 DEF OrphanInv
  <2>2. act'.pc = "complete"
    BY <1>3, <1>4, <1>7, <2>1 DEF StartBreak, Goto, TypeOK
  <2>3. act.req \in Pending
    BY <1>4 DEF Pending
  <2>4. StartPending' /\ ~StaleRefusal'
    BY <1>4, <1>7, <2>3 DEF StartPending, StaleRefusal, CurrentAction
  <2>5. CurrentAction' \notin Ends
    BY <1>5, <1>7 DEF Starts, Ends
  <2> QED
    BY <2>2, <2>4, <2>5 DEF OrphanInv
<1>8. CASE CurrentAction \in Ends /\ EndBreak("complete", [act EXCEPT !.pc = "fail"])
  <2>1. ~IsEye(canon')
    BY <1>3, <1>8 DEF EndBreak, Switch, Manual, IsEye, mgr
  <2> QED
    BY <1>6, <2>1 DEF OrphanInv
<1> QED
  BY <1>7, <1>8 DEF ActMode

\* The decision of a call: what it commits has the break, or there is no mode.
LEMMA OrphanDecision ==
    ASSUME TypeOK, LedgerInv, WriteThrough, PlanInv, RefusalInv, OrphanInv,
           ActComplete \/ ActFail
    PROVE  OrphanInv'
<1>1. SUFFICES ASSUME faults' = 0 PROVE OrphanInv'
  BY DEF OrphanInv
<1>2. faults = 0
  BY <1>1 DEF ActComplete, ActFail, Commit, KeepOnFault, Fail, TypeOK
<1>3. faults' = faults /\ ~Fail
  BY <1>1, <1>2 DEF Fail
<1>4. /\ life = "up" /\ life' = "up" /\ UNCHANGED canon /\ act.pc \in {"complete", "fail"}
      /\ act.req \in Req /\ ledger[act.req].status = "PENDING"
      /\ Pending \subseteq {act.req} /\ act.req \in Pending /\ mem = disk
  BY <1>2 DEF ActComplete, ActFail, Running, mgr, TypeOK, LedgerInv, Pending, WriteThrough
<1>5. act'.pc = "idle" /\ \E st \in {"APPLIED", "FAILED"} :
                            ledger' = [ledger EXCEPT ![act.req].status = st]
  BY <1>3 DEF ActComplete, ActFail, KeepOnFault, Idle
<1>6. Pending' = {}
  <2>1. PICK st \in {"APPLIED", "FAILED"} : ledger' = [ledger EXCEPT ![act.req].status = st]
    BY <1>5
  <2>2. \A q \in Req : ledger'[q].status = IF q = act.req THEN st ELSE ledger[q].status
    BY <1>4, <2>1, DecidedRequest, ZenonT(60)
  <2> QED
    BY <1>4, <2>2 DEF Pending
<1>7. Shown = canon /\ Shown' = canon
  BY <1>4 DEF Shown
<1>8. ASSUME IsEye(canon) PROVE disk'.phase \in BreakPhases
  <2>1. CurrentAction \in Starts \cup Ends
    BY <1>2, <1>4, <1>7, <1>8 DEF OrphanInv, StaleRefusal, CurrentAction
  <2>2. CASE ActComplete
    <3>1. CurrentAction \in Starts /\ disk' = ledger[act.req].plan
      BY <1>2, <1>3, <1>8, <2>1, <2>2 DEF ActComplete, OrphanInv, KeepOnFault, Commit
    <3> QED
      BY <1>4, <3>1 DEF PlanInv, CurrentAction, BreakPhases
  <2>3. CASE ActFail
    <3>1. act.pc = "fail" /\ disk' = disk
      BY <2>3 DEF ActFail, svc
    <3>2. CurrentAction \notin Starts
      BY <1>2, <1>8, <3>1 DEF OrphanInv
    <3>3. ~StartPending
      BY <1>4, <3>2 DEF StartPending, CurrentAction
    <3> QED
      BY <1>2, <1>7, <1>8, <3>1, <3>3 DEF OrphanInv
  <2> QED
    BY <2>2, <2>3
<1>9. ~StaleRefusal'
  BY <1>6 DEF StaleRefusal
<1> QED
  BY <1>5, <1>7, <1>8, <1>9 DEF OrphanInv

\* The reconciliation of a start: with an eye-care session a begun break is
\* completed and an end refused.
LEMMA OrphanReconcile ==
    ASSUME TypeOK, LedgerInv, WriteThrough, PlanInv, OrphanInv, NEW r \in Req, Reconcile(r)
    PROVE  OrphanInv'
<1>1. SUFFICES ASSUME faults' = 0 PROVE OrphanInv'
  BY DEF OrphanInv
<1>2. faults = 0
  BY <1>1 DEF Reconcile, Commit, KeepOnFault, Fail, TypeOK
<1>3. faults' = faults /\ ~Fail
  BY <1>1, <1>2 DEF Fail
<1>4. /\ life = "reconcile" /\ life' = "reconcile" /\ UNCHANGED <<canon, act>>
      /\ act.pc = "idle" /\ r \in Pending /\ mem = disk
  BY <1>3 DEF Reconcile, KeepOnFault, mgr, LedgerInv, Running, WriteThrough
<1>5. \E st \in {"APPLIED", "FAILED"} : ledger' = [ledger EXCEPT ![r].status = st]
  BY <1>3 DEF Reconcile, KeepOnFault
<1>6. Pending' = Pending \ {r} /\ \A q \in Req : ledger'[q].action = ledger[q].action
  BY <1>5, DecidedRequest, ZenonT(60) DEF Pending
<1>7. Shown = canon /\ Shown' = canon
  BY <1>4 DEF Shown
<1>8. IsEye(canon) => ~StaleRefusal'
  BY <1>2, <1>6, <1>7 DEF OrphanInv, StaleRefusal, Pending
<1>9. ASSUME IsEye(canon) PROVE disk'.phase \in BreakPhases \/ StartPending'
  <2>1. ledger[r].action \in Starts \cup Ends
    BY <1>2, <1>4, <1>7, <1>9 DEF OrphanInv, StaleRefusal
  <2>2. CASE ledger[r].action \in Starts
    <3>1. disk' = ledger[r].plan
      BY <1>3, <1>9, <2>2 DEF Reconcile, Refused, Commit, KeepOnFault, Starts, Ends
    <3> QED
      BY <1>4, <2>2, <3>1 DEF PlanInv, Pending, BreakPhases
  <2>3. CASE ledger[r].action \in Ends
    <3>1. disk' = disk
      BY <1>3, <1>9, <2>3 DEF Reconcile, Refused, KeepOnFault
    <3>2. ledger[r].action \notin Starts
      BY <2>3 DEF Starts, Ends
    <3>3. StartPending => StartPending'
      BY <1>6, <3>2 DEF StartPending, Pending
    <3> QED
      BY <1>2, <1>7, <1>9, <3>1, <3>3 DEF OrphanInv
  <2> QED
    BY <2>1, <2>2, <2>3
<1> QED
  BY <1>4, <1>7, <1>8, <1>9 DEF OrphanInv

\* OrphanInv is inductive, given the invariants above.
LEMMA OrphanStep ==
    TypeOK /\ LedgerInv /\ WriteThrough /\ RowInv /\ PlanInv /\ RefusalInv /\ WorkerInv
      /\ OrphanInv /\ [Next]_vars => OrphanInv'
<1> SUFFICES ASSUME TypeOK, LedgerInv, WriteThrough, RowInv, PlanInv, RefusalInv,
                    WorkerInv, OrphanInv, [Next]_vars, faults = 0
             PROVE  OrphanInv'
  BY FaultsGrow DEF OrphanInv
<1>0. faults' = 0 => faults = 0
  OBVIOUS
<1>1. CASE \E r \in Req, a \in Actions : ActBegin(r, a)
  BY <1>1, OrphanBegin
<1>2. CASE ActMode
  BY <1>2, OrphanMode
<1>3. CASE ActComplete \/ ActFail
  BY <1>3, OrphanDecision
<1>4. CASE ActUndo
  <2>1. FALSE
    BY <1>4 DEF ActUndo, LedgerInv, TypeOK
  <2> QED
    BY <2>1
<1>5. CASE \E r \in Req : Reconcile(r)
  BY <1>5, OrphanReconcile
<1>6. CASE Poll \/ (\E on \in BOOLEAN : SaveSettings(on)) \/ WorkerObserve \/ WorkerRecord
  <2>1. /\ UNCHANGED <<ledger, act, canon, row, life>> /\ Unlocked /\ mem = disk
    BY <1>6 DEF Poll, SaveSettings, WorkerObserve, WorkerRecord, mgr, Unlocked, Running,
       WriteThrough
  <2>2. IsEye(canon) => disk'.phase \in BreakPhases
    BY <1>6, <2>1, HasItsBreak, ServiceKeeps, WorkerKeeps
  <2>3. Shown = canon /\ Shown' = canon
    BY <2>1 DEF Shown, Unlocked, Running
  <2> QED
    BY <1>0, <2>1, <2>2, <2>3, OrphanUntouched
<1>7. CASE SetModeStudy \/ SetModeBreak \/ SetModeOff \/ Automation \/ WorkerTick
  <2>1. UNCHANGED <<ledger, act, disk, life>> /\ Running
    BY <1>7 DEF SetModeStudy, SetModeBreak, SetModeOff, Automation, WorkerTick, svc
  <2>2. canon' = canon \/ ~IsEye(canon')
    <3>1. \A m, p, e, d : ~IsEye(Manual(m, d)) /\ ~IsEye(Automatic(m, p, e, d))
      BY DEF IsEye, Manual, Automatic
    <3>2. \A d : AfterMidnight(d) = canon \/ ~IsEye(AfterMidnight(d))
      BY <3>1 DEF AfterMidnight
    <3> QED
      BY <1>7, <3>1, <3>2 DEF SetModeStudy, SetModeBreak, SetModeOff, Automation,
         WorkerTick, Switch, mgr
  <2>3. Shown = canon /\ Shown' = canon'
    BY <2>1 DEF Shown, Running
  <2> QED
    BY <1>0, <2>1, <2>2, <2>3, OrphanUntouched
<1>8. CASE WorkerWake \/ WorkerSnapshot \/ Midnight \/ Reconciled \/ UNCHANGED vars
  <2>1. UNCHANGED <<ledger, act, disk, canon, row>> /\ (life' = life \/ Reconciled)
    BY <1>8 DEF WorkerWake, WorkerSnapshot, Midnight, Reconciled, svc, mgr, vars
  <2>2. Shown' = Shown
    BY <2>1 DEF Shown, Reconciled
  <2> QED
    BY <1>0, <2>1, <2>2, OrphanUntouched
<1>9. CASE Crash \/ Exit
  <2>1. /\ act'.pc = "idle" /\ UNCHANGED <<ledger, disk, canon>> /\ life' = "manager"
        /\ row' \in {row, NoSession}
    BY <1>9 DEF Crash, Exit, Stopped, Idle, svc, mgr
  <2>2. ~IsEye(NoSession)
    BY DEF IsEye, NoSession
  <2>3. IsEye(row) => Shown = row
    BY <2>2 DEF Shown, RowInv, TypeOK
  <2>4. Shown' = row'
    BY <2>1 DEF Shown
  <2>5. IsEye(Shown') => IsEye(Shown)
    BY <2>1, <2>2, <2>3, <2>4 DEF IsEye
  <2> QED
    BY <1>0, <2>1, <2>5, OrphanUntouched
<1>10. CASE BootManager \/ BootSession
  <2>1. /\ UNCHANGED <<ledger, disk, act>> /\ act.pc = "idle"
        /\ life' \in {"session", "reconcile"} /\ life \in {"manager", "session"}
    BY <1>10 DEF BootManager, BootSession, LedgerInv, Running, svc
  <2>2. ~IsEye(Manual("STANDBY", day))
    BY DEF IsEye, Manual
  <2>3. canon' \in {Shown, Manual("STANDBY", day)} /\ Shown' = canon'
    BY <1>10, <2>1 DEF BootManager, BootSession, Shown
  <2>4. IsEye(Shown') => IsEye(Shown)
    BY <2>2, <2>3
  <2> QED
    BY <1>0, <2>1, <2>4, OrphanUntouched
<1>11. CASE BootAdvance \/ BootRestore
  <2>1. /\ UNCHANGED <<ledger, act, canon>> /\ act.pc = "idle" /\ mem = disk
        /\ life \in {"advance", "restore"} /\ life' \in {"restore", "up"}
    BY <1>11 DEF BootAdvance, BootRestore, mgr, LedgerInv, Running, WriteThrough
  <2>2. Shown = canon /\ Shown' = canon
    BY <2>1 DEF Shown
  <2>3. ASSUME IsEye(canon), disk.phase \in BreakPhases
        PROVE  disk'.phase \in BreakPhases
    <3>1. CASE BootAdvance
      <4>1. PICK s \in Advanced(mem, IsEye(canon), day) : TryCommit(s)
        BY <3>1 DEF BootAdvance
      <4>2. s.phase \in BreakPhases
        BY <2>1, <2>3, <4>1, BreakEvolves DEF TypeOK, IsEye
      <4> QED
        BY <2>1, <2>3, <4>1, <4>2, BreakWritten
    <3>2. CASE BootRestore
      <4>1. [mem EXCEPT !.rev = mem.rev + 1].phase = mem.phase
        BY DEF TypeOK, Status
      <4> QED
        BY <2>1, <2>3, <3>2, <4>1, BreakWritten DEF BootRestore
    <3> QED
      BY <1>11, <3>1, <3>2
  <2> QED
    BY <1>0, <2>1, <2>2, <2>3, OrphanUntouched
<1> QED
  BY <1>1, <1>2, <1>3, <1>4, <1>5, <1>6, <1>7, <1>8, <1>9, <1>10, <1>11
  DEF Next, User, ActStep, Worker, Boot

\* While the storage works and actions wait for the worker, every eye-care mode
\* has its break, over crashes between any two writes of a call or of a start.
THEOREM EveryModeHasItsBreak ==
    ASSUME ~Overlap
    PROVE  Spec => []NoOrphanBreak
<1> DEFINE Base == TypeOK /\ LedgerInv /\ WriteThrough /\ RowInv /\ PlanInv
                   /\ RefusalInv /\ WorkerInv
<1>1. Init => OrphanInv
  <2> SUFFICES ASSUME Init PROVE OrphanInv
    OBVIOUS
  <2>1. act.pc = "idle" /\ life = "up" /\ ~IsEye(canon)
    BY DEF Init, Idle, IsEye, Manual
  <2> QED
    BY <2>1 DEF OrphanInv, Shown
<1>2. Base /\ OrphanInv /\ [Next]_vars => OrphanInv'
  BY OrphanStep
<1>3. Base /\ OrphanInv => NoOrphanBreak
  BY HasItsBreak DEF NoOrphanBreak
<1>4. Spec => []Base
  BY BreakInvariant, PTL
<1> HIDE DEF Base
<1> QED
  BY <1>1, <1>2, <1>3, <1>4, PTL DEF Spec

=============================================================================
