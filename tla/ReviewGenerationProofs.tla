----------------------- MODULE ReviewGenerationProofs -----------------------
(***************************************************************************)
(* Theorems of ReviewGeneration, for every number of records, exclusions,  *)
(* deletions, requests, faults and stops.  IInv says, step by step of a    *)
(* call of Generate, what the row, the file and the evidence already are.  *)
(***************************************************************************)
EXTENDS ReviewGeneration, TLAPS

\* Service.mutex: of two calls that hold it there is only one.
OneHolder == \A c, d \in Callers : proc[c].pc \in Steps /\ proc[d].pc \in Steps => c = d

\* A call's row is as it saved it until it is published, and its file is there
\* before that, unless a deletion met it; the deletion of a row no call met
\* leaves none.
CallsHaveTheirRow ==
    /\ deleting => deletes > 0
    /\ deleting /\ ~crossed => row.status = "NONE"
    /\ \A c \in Callers : proc[c].pc \in {"file", "publish"} /\ (~crossed \/ deletes = 0)
         => row = [status |-> "PENDING", revision |-> proc[c].revision,
                   gen |-> proc[c].gen, input |-> proc[c].input]
    /\ \A c \in Callers : proc[c].pc = "publish" /\ ~crossed
         => file = [revision |-> proc[c].revision, input |-> proc[c].input]

\* A call no exclusion met has read the exclusions of now.
InputIsCurrent ==
    \A c \in Callers : proc[c].pc \in {"load", "plan", "save", "file", "publish"} /\ ~crossed
      => proc[c].input.excluded = evidence.excluded

\* Without faults and deletions row revisions only grow: the row is what call p
\* published, or a later one.
Published(p) == /\ row.revision >= p.revision
                /\ row.revision = p.revision => row.status \in {"READY", "STALE"}
CallsMoveOn ==
    deletes = 0 /\ faults = 0 => \A c \in Callers :
      /\ proc[c].pc = "save" /\ proc[c].ctx # "dead" => proc[c].revision = row.revision + 1
      /\ proc[c].pc \in {"check", "announce", "good"} => Published(proc[c])

\* The revision counts announced records, and a call counts it before it reads
\* the records.
Announcements ==
    /\ InitRev <= rev
    /\ rev + owed <= InitRev + evidence.records
Revised(p) ==
    /\ p.pc = "build" /\ p.ctx # "dead" => p.gen \in InitRev .. rev
    /\ p.pc \in {"load", "plan", "save", "file", "publish"}
         => p.gen \in InitRev .. InitRev + p.input.records
RevisionBeforeInput ==
    InitRev > 0 /\ faults = 0 =>
      /\ \A c \in Callers : Revised(proc[c])
      /\ row.gen <= InitRev + row.input.records

IInv == /\ TypeOK /\ OneHolder
        /\ CallsHaveTheirRow /\ ArtifactMatches
        /\ InputIsCurrent /\ ExclusionHolds
        /\ CallsMoveOn /\ JobIsTrue
        /\ Announcements /\ RevisionBeforeInput

(***************************************************************************)
(* The steps of a call of Generate.                                        *)
(***************************************************************************)
\* What a call may become is typed.
LEMMA CallTypes ==
    /\ \A r \in Nat : Good(r) \in Proc /\ Good(r).pc = "good" /\ Good(r).revision = r
    /\ Failed \in Proc /\ Failed.pc = "failed"
    /\ NoProc \in Proc /\ NoProc.pc = "none"
    /\ NoEvidence \in Evidence /\ NoRow \in Row /\ NoRow.status = "NONE"
    /\ NoFile \in [revision: Nat, input: Evidence]
  BY DEF Good, Failed, NoProc, Proc, NoEvidence, Evidence, Steps, NoRow, Row, NoFile

\* No call of Get is typed.
LEMMA NoGetType == NoGet \in Get /\ NoGet.pc = "none"
  BY DEF NoGet, Get

\* A step of Generate leaves a call of Get a call of Get.
LEMMA GetType ==
    ASSUME TypeOK, Around
    PROVE  get' \in Get
<1> DEFINE b == get.published \/ (get.pc = "load" /\ Publishes(row, row'))
<1>1. get \in Get /\ get' = [get EXCEPT !.published = b]
  BY DEF TypeOK, Around
<1>2. b \in BOOLEAN
  BY DEF Publishes
<1> HIDE DEF b
<1> QED
  BY <1>1, <1>2 DEF Get

\* A step of call c, to p, leaves the other call alone, which holds no mutex.
LEMMA OneCallMoves ==
    ASSUME TypeOK, OneHolder, NEW c \in Callers, NEW p \in Proc, To(c, p),
           proc[c].pc \in Steps \/ (proc[c].pc = "wait" /\ ~Held), p.pc # "none",
           job' = job
    PROVE  /\ proc' \in [Callers -> Proc] /\ OneHolder'
           /\ job'.state = "PENDING" <=> proc'["job"].pc # "none"
           /\ p.pc \in Steps => proc'[c] = p
           /\ proc'[c] \in {p, Failed, NoProc}
           /\ \A d \in Callers : d # c => proc'[d] = proc[d] /\ proc[d].pc \notin Steps
<1>1. proc \in [Callers -> Proc] /\ "job" \in Callers /\ proc[c].pc # "none"
  BY DEF TypeOK, Callers, Steps
<1>2. \A d \in Callers : d # c => proc'[d] = proc[d] /\ proc[d].pc \notin Steps
  BY <1>1 DEF To, OneHolder, Held
<1>3. /\ p.pc \in Steps => proc'[c] = p
      /\ proc'[c] \in {p, Failed, NoProc}
  BY <1>1 DEF To, Steps
<1>4. proc' \in [Callers -> Proc]
  BY <1>1, <1>3, CallTypes DEF To
<1>5. OneHolder'
  BY <1>2 DEF OneHolder
<1>6. c = "job" => proc'["job"].pc # "none"
  BY <1>1, CallTypes DEF To
<1>7. job'.state = "PENDING" <=> proc'["job"].pc # "none"
  BY <1>1, <1>2, <1>6 DEF TypeOK
<1> QED
  BY <1>2, <1>3, <1>4, <1>5, <1>7

\* A read or write of call c that fails: because of a fault, or it leaves a call
\* whose context is dead.
LEMMA Failing ==
    ASSUME TypeOK, NEW c \in Callers, NEW p \in Proc, Fails(c, p)
    PROVE  \E q \in Proc : /\ To(c, q) /\ faults' \in Nat /\ (faults' = 0 => faults = 0)
                           /\ q.pc = p.pc /\ q.gen = p.gen /\ q.input = p.input
                           /\ q.revision = p.revision
                           /\ faults' = 0 => q.ctx = "dead"
<1>1. CASE proc[c].ctx # "own" /\ To(c, [p EXCEPT !.ctx = "dead"]) /\ UNCHANGED faults
  <2> DEFINE q == [p EXCEPT !.ctx = "dead"]
  <2>1. /\ q \in Proc /\ q.ctx = "dead" /\ q.pc = p.pc /\ q.gen = p.gen
        /\ q.input = p.input /\ q.revision = p.revision
    BY DEF Proc
  <2> QED
    BY <1>1, <2>1 DEF TypeOK
<1>2. CASE To(c, p) /\ Fault
  BY <1>2 DEF Fault, TypeOK
<1> QED
  BY <1>1, <1>2 DEF Fails

\* A step of a call that leaves the file and the history alone and at most marks
\* the row STALE.
LEMMA RowStays ==
    ASSUME IInv, NEW c \in Callers, NEW p \in Proc, To(c, p), Around,
           proc[c].pc \in Steps \/ (proc[c].pc = "wait" /\ ~Held),
           p.pc \in {"revision", "build", "load", "plan", "save", "announce", "good",
                    "failed"},
           row' = row \/ row' = Stale(row), file' = file, crossed' = crossed,
           faults' \in Nat, faults' = 0 => faults = 0,
           p.pc \in {"load", "plan", "save"} /\ ~crossed
             => p.input.excluded = evidence.excluded,
           deletes = 0 /\ faults' = 0 /\ p.pc = "save" /\ p.ctx # "dead"
             => p.revision = row.revision + 1,
           deletes = 0 /\ faults' = 0 /\ p.pc \in {"announce", "good"} => Published(p),
           InitRev > 0 /\ faults' = 0 => Revised(p)
    PROVE  IInv'
<1> USE DEF IInv
<1>1. /\ proc' \in [Callers -> Proc] /\ OneHolder'
      /\ job'.state = "PENDING" <=> proc'["job"].pc # "none"
      /\ p.pc \in Steps => proc'[c] = p
      /\ proc'[c] \in {p, Failed, NoProc}
      /\ \A d \in Callers : d # c => proc'[d] = proc[d] /\ proc[d].pc \notin Steps
  BY OneCallMoves DEF Steps, Around
<1>2. /\ row' \in Row /\ row'.revision = row.revision /\ row'.input = row.input
      /\ row'.gen = row.gen
      /\ (row'.status = row.status \/ (row.status = "READY" /\ row'.status = "STALE"))
  BY DEF TypeOK, Row, Stale
<1>3. TypeOK'
  BY <1>1, <1>2, GetType DEF TypeOK, Around, world, counts
<1>4. CallsHaveTheirRow'
  BY <1>1, <1>2, CallTypes DEF CallsHaveTheirRow, Around, counts, Steps
<1>5. ArtifactMatches'
  BY <1>2 DEF ArtifactMatches
<1>6. InputIsCurrent'
  BY <1>1, CallTypes DEF InputIsCurrent, Around, world, Steps
<1>7. ExclusionHolds'
  BY <1>2 DEF ExclusionHolds, Around, world
<1>8. CallsMoveOn'
  BY <1>1, <1>2, CallTypes DEF CallsMoveOn, Published, Around, counts, Steps
<1>9. JobIsTrue'
  BY <1>2 DEF JobIsTrue, Around, counts
<1>10. Announcements'
  BY DEF Announcements, Around, world
<1>11. RevisionBeforeInput'
  BY <1>1, <1>2, CallTypes DEF RevisionBeforeInput, Revised, Around, world, Steps
<1> QED
  BY <1>1, <1>3, <1>4, <1>5, <1>6, <1>7, <1>8, <1>9, <1>10, <1>11

\* The steps up to the plan.
LEMMA LockStep ==
    ASSUME IInv, NEW c \in Callers, Around, Lock(c)
    PROVE  IInv'
<1>1. At(c, "revision") \in Proc /\ At(c, "revision").pc = "revision"
  BY DEF IInv, TypeOK, At, Proc, Steps
<1> QED
  BY <1>1, RowStays DEF Lock, IInv, TypeOK, Revised

LEMMA ReadRevisionStep ==
    ASSUME IInv, NEW c \in Callers, Around, ReadRevision(c)
    PROVE  IInv'
<1>1. /\ At(c, "build") \in Proc /\ At(c, "build").pc = "build"
      /\ [At(c, "build") EXCEPT !.gen = rev] \in Proc
      /\ [At(c, "build") EXCEPT !.gen = rev].pc = "build"
      /\ [At(c, "build") EXCEPT !.gen = rev].gen = rev
  BY DEF IInv, TypeOK, At, Proc, Steps
<1>2. PICK p \in Proc : /\ To(c, p) /\ p.pc = "build" /\ faults' \in Nat
                        /\ faults' = 0 => faults = 0 /\ (p.ctx = "dead" \/ p.gen = rev)
  <2> DEFINE p == At(c, "build")
             read == [p EXCEPT !.gen = rev]
  <2>1. CASE Works(c, read)
    BY <1>1, <2>1 DEF Works, IInv, TypeOK
  <2>2. CASE Fails(c, p)
    BY <1>1, <2>2, Failing DEF IInv
  <2> QED
    BY <2>1, <2>2 DEF ReadRevision
<1>3. InitRev > 0 /\ faults' = 0 => Revised(p)
  BY <1>2 DEF Revised, IInv, Announcements, TypeOK
<1> QED
  BY <1>2, <1>3, RowStays DEF ReadRevision, Steps

LEMMA BuildStep ==
    ASSUME IInv, NEW c \in Callers, Around, Build(c)
    PROVE  IInv'
<1>1. /\ [At(c, "load") EXCEPT !.input = evidence] \in Proc
      /\ [At(c, "load") EXCEPT !.input = evidence].pc = "load"
      /\ [At(c, "load") EXCEPT !.input = evidence].input = evidence
      /\ [At(c, "load") EXCEPT !.input = evidence].gen = proc[c].gen
  BY DEF IInv, TypeOK, At, Proc, Steps
<1>2. PICK p \in Proc : /\ To(c, p) /\ faults' \in Nat /\ (faults' = 0 => faults = 0)
                        /\ \/ /\ p.pc = "load" /\ p.input = evidence
                              /\ p.gen = proc[c].gen /\ proc[c].ctx # "dead"
                           \/ p.pc = "failed"
  <2> DEFINE p == [At(c, "load") EXCEPT !.input = evidence]
  <2>1. CASE Works(c, p)
    BY <1>1, <2>1 DEF Works, IInv, TypeOK
  <2>2. CASE Fails(c, Failed)
    BY <2>2, Failing, CallTypes DEF IInv
  <2> QED
    BY <2>1, <2>2 DEF Build
<1>3. InitRev > 0 /\ faults' = 0 => Revised(p)
  <2>1. rev \in Nat /\ owed \in Nat /\ evidence.records \in Nat
    BY DEF IInv, TypeOK, Evidence
  <2>2. rev <= InitRev + evidence.records
    BY <2>1, InitRevAssumption DEF IInv, Announcements
  <2>3. InitRev > 0 /\ faults' = 0 /\ p.pc = "load" => proc[c].gen \in InitRev .. rev
    BY <1>2 DEF IInv, RevisionBeforeInput, Revised, Build
  <2> QED
    BY <1>2, <2>1, <2>2, <2>3, InitRevAssumption DEF Revised
<1> QED
  BY <1>2, <1>3, RowStays DEF Build, Steps

LEMMA LoadStep ==
    ASSUME IInv, NEW c \in Callers, Around, Load(c)
    PROVE  IInv'
<1> DEFINE asked == At(c, "plan")
           fallback == [asked EXCEPT !.ctx = "own"]
<1>1. row.revision \in Nat
  BY DEF IInv, TypeOK, Row
<1>2. /\ asked \in Proc /\ asked.pc = "plan" /\ asked.input = proc[c].input
      /\ fallback \in Proc /\ fallback.pc = "plan" /\ fallback.input = proc[c].input
      /\ asked.gen = proc[c].gen /\ fallback.gen = proc[c].gen
  BY DEF IInv, TypeOK, At, Proc, Steps
<1>3. ~crossed => proc[c].input.excluded = evidence.excluded
  BY DEF IInv, InputIsCurrent, Load
<1>4. InitRev > 0 /\ faults = 0
        => proc[c].gen \in InitRev .. InitRev + proc[c].input.records
  BY DEF IInv, RevisionBeforeInput, Revised, Load
<1>5. CASE Works(c, Good(row.revision)) /\ row.status = "READY" /\ UNCHANGED row
  <2>1. Published(Good(row.revision))
    BY <1>1, <1>5, CallTypes DEF Published
  <2>2. Revised(Good(row.revision))
    BY <1>1, CallTypes DEF Revised
  <2> QED
    BY <1>1, <1>5, <2>1, <2>2, CallTypes, RowStays DEF Load, Works, Steps, IInv, TypeOK
<1>6. CASE /\ To(c, asked) \/ To(c, fallback)
           /\ row' = row \/ row' = Stale(row)
           /\ faults' = faults \/ Fault
  <2>1. faults' \in Nat /\ (faults' = 0 => faults = 0)
    BY <1>6 DEF Fault, IInv, TypeOK
  <2>2. InitRev > 0 /\ faults' = 0 => Revised(asked) /\ Revised(fallback)
    BY <1>2, <1>4, <2>1 DEF Revised
  <2> QED
    BY <1>2, <1>3, <1>6, <2>1, <2>2, RowStays DEF Load, Steps
<1> QED
  BY <1>5, <1>6 DEF Load, Works

LEMMA PlanStep ==
    ASSUME IInv, NEW c \in Callers, Around, Plan(c)
    PROVE  IInv'
<1>1. /\ row.revision \in Nat /\ rev \in Nat /\ 0 \in Nat
      /\ proc[c].gen \in Nat /\ proc[c].input \in Evidence
  BY DEF IInv, TypeOK, Row, Proc
<1>2. ASSUME NEW g \in Nat, NEW known \in Nat
      PROVE  /\ Planned(c, g, known) \in Proc /\ Planned(c, g, known).pc = "save"
             /\ Planned(c, g, known).input = proc[c].input
             /\ Planned(c, g, known).revision = known + 1
             /\ Planned(c, g, known).gen = g
  <2>1. known + 1 \in Nat /\ proc[c] \in Proc
    BY DEF IInv, TypeOK
  <2> QED
    BY <2>1 DEF Planned, At, Proc, Steps
<1>3. \E g, known \in Nat : /\ \/ Works(c, Planned(c, g, known)) /\ known = row.revision
                               \/ Fails(c, Planned(c, g, known))
                            /\ proc[c].gen # 0 => g = proc[c].gen
  BY <1>1 DEF Plan
<1>4. PICK p \in Proc :
         /\ To(c, p) /\ faults' \in Nat /\ (faults' = 0 => faults = 0)
         /\ p.pc = "save" /\ p.input = proc[c].input
         /\ proc[c].gen # 0 => p.gen = proc[c].gen
         /\ faults' = 0 => p.ctx = "dead" \/ p.revision = row.revision + 1
  <2>1. PICK g \in Nat, known \in Nat :
          /\ \/ Works(c, Planned(c, g, known)) /\ known = row.revision
             \/ Fails(c, Planned(c, g, known))
          /\ proc[c].gen # 0 => g = proc[c].gen
    BY <1>3
  <2> DEFINE q == Planned(c, g, known)
  <2>2. /\ q \in Proc /\ q.pc = "save" /\ q.input = proc[c].input
        /\ q.revision = known + 1 /\ (proc[c].gen # 0 => q.gen = proc[c].gen)
    BY <1>2, <2>1
  <2> HIDE DEF q
  <2>3. CASE Works(c, q) /\ known = row.revision
    BY <2>2, <2>3 DEF Works, IInv, TypeOK
  <2>4. CASE Fails(c, q)
    <3>1. TypeOK
      BY DEF IInv
    <3> QED
      BY <2>2, <2>4, <3>1, Failing
  <2> QED
    BY <2>1, <2>3, <2>4 DEF q
<1>5. ~crossed => p.input.excluded = evidence.excluded
  BY <1>4 DEF IInv, InputIsCurrent, Plan
<1>6. InitRev > 0 /\ faults' = 0 => Revised(p)
  <2>1. InitRev > 0 /\ faults' = 0
          => proc[c].gen \in InitRev .. InitRev + proc[c].input.records
    BY <1>4 DEF IInv, RevisionBeforeInput, Revised, Plan
  <2>2. InitRev > 0 /\ faults' = 0 => p.gen = proc[c].gen
    BY <1>1, <1>4, <2>1, InitRevAssumption
  <2> QED
    BY <1>4, <2>1, <2>2 DEF Revised
<1> QED
  BY <1>4, <1>5, <1>6, RowStays DEF Plan, Steps

\* A call that gives up leaves what the others rely on alone.
LEMMA GivingUp ==
    ASSUME IInv, NEW c \in Callers, Around, Fails(c, Failed) \/ Works(c, Failed),
           proc[c].pc \in Steps, UNCHANGED <<row, file, crossed>>
    PROVE  IInv'
<1>1. PICK p \in Proc : /\ To(c, p) /\ p.pc = "failed" /\ faults' \in Nat
                        /\ faults' = 0 => faults = 0
  BY Failing, CallTypes DEF Works, IInv, TypeOK
<1> QED
  BY <1>1, RowStays DEF Revised

\* Saving takes the next revision of the row.
LEMMA SaveStep ==
    ASSUME IInv, NEW c \in Callers, Around, Save(c)
    PROVE  IInv'
<1>1. CASE Fails(c, Failed) /\ UNCHANGED <<row, crossed>>
  BY <1>1, GivingUp DEF Save, Steps
<1>2. CASE /\ Works(c, At(c, "file"))
           /\ row' = [status |-> "PENDING", revision |-> proc[c].revision,
                      gen |-> proc[c].gen, input |-> proc[c].input]
           /\ crossed' = (crossed \/ deleting)
  <2> USE DEF IInv
  <2>1. /\ At(c, "file") \in Proc /\ At(c, "file").pc = "file" /\ proc[c] \in Proc
        /\ At(c, "file").revision = proc[c].revision /\ At(c, "file").gen = proc[c].gen
        /\ At(c, "file").input = proc[c].input
        /\ proc[c].pc = "save" /\ proc[c].ctx # "dead"
    BY <1>2 DEF TypeOK, At, Proc, Steps, Save, Works
  <2>2. /\ proc' \in [Callers -> Proc] /\ OneHolder'
        /\ job'.state = "PENDING" <=> proc'["job"].pc # "none"
        /\ proc'[c] = At(c, "file")
        /\ \A d \in Callers : d # c => proc'[d] = proc[d] /\ proc[d].pc \notin Steps
    BY <1>2, <2>1, OneCallMoves DEF Steps, Around, Works
  <2>3. /\ row' \in Row /\ row'.status = "PENDING" /\ row'.revision = proc[c].revision
        /\ row'.gen = proc[c].gen /\ row'.input = proc[c].input
        /\ faults' = faults /\ file' = file
    BY <1>2, <2>1 DEF Proc, Row, Save, Works
  <2>4. TypeOK'
    BY <1>2, <2>2, <2>3, GetType DEF TypeOK, Around, world, counts
  <2>5. CallsHaveTheirRow'
    BY <1>2, <2>1, <2>2, <2>3, ZenonT(60) DEF CallsHaveTheirRow, Around, counts, Steps
  <2>6. ArtifactMatches' /\ ExclusionHolds'
    BY <2>3 DEF ArtifactMatches, ExclusionHolds
  <2>7. InputIsCurrent'
    BY <1>2, <2>1, <2>2 DEF InputIsCurrent, Around, world, Steps, TypeOK
  <2>8. deletes = 0 /\ faults = 0 => row'.revision = row.revision + 1 /\ row.revision \in Nat
    BY <2>1, <2>3 DEF CallsMoveOn, TypeOK, Row
  <2>9. CallsMoveOn'
    BY <2>1, <2>2, <2>3, <2>8 DEF CallsMoveOn, Published, Around, counts, Steps, TypeOK, Proc
  <2>10. JobIsTrue'
    BY <2>3, <2>8 DEF JobIsTrue, Around, counts, TypeOK, Job
  <2>11. Announcements'
    BY DEF Announcements, Around, world
  <2>12. RevisionBeforeInput'
    <3>1. InitRev > 0 /\ faults = 0
            => proc[c].gen \in InitRev .. InitRev + proc[c].input.records
      BY <2>1 DEF RevisionBeforeInput, Revised
    <3> QED
      BY <2>1, <2>2, <2>3, <3>1 DEF RevisionBeforeInput, Revised, Around, world, Steps
  <2> QED
    BY <2>2, <2>4, <2>5, <2>6, <2>7, <2>9, <2>10, <2>11, <2>12
<1> QED
  BY <1>1, <1>2 DEF Save

\* The file of the row that is saved but not published yet.
LEMMA WriteFileStep ==
    ASSUME IInv, NEW c \in Callers, Around, WriteFile(c)
    PROVE  IInv'
<1> USE DEF IInv
<1>1. /\ At(c, "publish") \in Proc /\ At(c, "publish").pc = "publish" /\ proc[c] \in Proc
      /\ At(c, "publish").revision = proc[c].revision /\ At(c, "publish").gen = proc[c].gen
      /\ At(c, "publish").input = proc[c].input
      /\ proc[c].pc = "file" /\ row' = row /\ crossed' = crossed
  BY DEF TypeOK, At, Proc, Steps, WriteFile
<1>2. PICK p \in Proc :
        /\ To(c, p) /\ faults' \in Nat /\ (faults' = 0 => faults = 0)
        /\ \/ p.pc = "failed" /\ file' = file
           \/ /\ p = At(c, "publish")
              /\ file' = [revision |-> proc[c].revision, input |-> proc[c].input]
  BY <1>1, CallTypes DEF WriteFile, Fault, TypeOK
<1>3. /\ proc' \in [Callers -> Proc] /\ OneHolder'
      /\ job'.state = "PENDING" <=> proc'["job"].pc # "none"
      /\ \/ proc'[c].pc \in {"failed", "none"} /\ file' = file
         \/ /\ proc'[c] = At(c, "publish")
            /\ file' = [revision |-> proc[c].revision, input |-> proc[c].input]
      /\ \A d \in Callers : d # c => proc'[d] = proc[d] /\ proc[d].pc \notin Steps
  BY <1>1, <1>2, OneCallMoves, CallTypes DEF Steps, Around
<1>4. file' \in [revision: Nat, input: Evidence]
  BY <1>1, <1>3 DEF Proc, TypeOK
<1>5. TypeOK'
  BY <1>1, <1>2, <1>3, <1>4, GetType DEF TypeOK, Around, world, counts
<1>6. CallsHaveTheirRow'
  BY <1>1, <1>3 DEF CallsHaveTheirRow, Around, counts, Steps
<1>7. ArtifactMatches'
  <2>1. ~crossed => row.status = "PENDING"
    BY <1>1 DEF CallsHaveTheirRow
  <2> QED
    BY <1>1, <2>1 DEF ArtifactMatches
<1>8. InputIsCurrent' /\ ExclusionHolds'
  BY <1>1, <1>3 DEF InputIsCurrent, ExclusionHolds, Around, world, Steps
<1>9. CallsMoveOn' /\ JobIsTrue'
  BY <1>1, <1>2, <1>3 DEF CallsMoveOn, Published, JobIsTrue, Around, counts, Steps
<1>10. Announcements'
  BY DEF Announcements, Around, world
<1>11. RevisionBeforeInput'
  BY <1>1, <1>2, <1>3 DEF RevisionBeforeInput, Revised, Around, world, Steps
<1> QED
  BY <1>3, <1>5, <1>6, <1>7, <1>8, <1>9, <1>10, <1>11

\* What is published is the call's own row, whose file is there.
LEMMA PublishStep ==
    ASSUME IInv, NEW c \in Callers, Around, Publish(c)
    PROVE  IInv'
<1>1. CASE (Fails(c, Failed) \/ Works(c, Failed)) /\ UNCHANGED row
  BY <1>1, GivingUp DEF Publish, Steps
<1>2. CASE /\ Works(c, At(c, "check")) /\ row.status = "PENDING"
           /\ row.revision = proc[c].revision
           /\ row' = [row EXCEPT !.status = "READY"]
  <2> USE DEF IInv
  <2>1. /\ At(c, "check") \in Proc /\ At(c, "check").pc = "check" /\ proc[c] \in Proc
        /\ At(c, "check").revision = proc[c].revision
        /\ proc[c].pc = "publish" /\ file' = file /\ crossed' = crossed /\ faults' = faults
    BY <1>2 DEF TypeOK, At, Proc, Steps, Publish, Works
  <2>2. /\ proc' \in [Callers -> Proc] /\ OneHolder'
        /\ job'.state = "PENDING" <=> proc'["job"].pc # "none"
        /\ proc'[c] = At(c, "check")
        /\ \A d \in Callers : d # c => proc'[d] = proc[d] /\ proc[d].pc \notin Steps
    BY <1>2, <2>1, OneCallMoves DEF Steps, Around, Works
  <2>3. /\ row' \in Row /\ row'.status = "READY" /\ row'.revision = row.revision
        /\ row'.input = row.input /\ row'.gen = row.gen
    BY <1>2 DEF TypeOK, Row
  <2>4. TypeOK'
    BY <2>1, <2>2, <2>3, GetType DEF TypeOK, Around, world, counts
  <2>5. ~crossed => /\ ~deleting
                    /\ row.input = proc[c].input
                    /\ file = [revision |-> row.revision, input |-> row.input]
    BY <1>2, <2>1 DEF CallsHaveTheirRow
  <2>6. CallsHaveTheirRow'
    BY <2>1, <2>2, <2>5 DEF CallsHaveTheirRow, Around, counts, Steps
  <2>7. ArtifactMatches'
    BY <2>1, <2>3, <2>5 DEF ArtifactMatches
  <2>8. InputIsCurrent' /\ ExclusionHolds'
    BY <2>1, <2>2, <2>3, <2>5 DEF InputIsCurrent, ExclusionHolds, Around, world, Steps
  <2>9. CallsMoveOn' /\ JobIsTrue'
    BY <1>2, <2>1, <2>2, <2>3
       DEF CallsMoveOn, Published, JobIsTrue, Around, counts, Steps, TypeOK, Row
  <2>10. Announcements'
    BY DEF Announcements, Around, world
  <2>11. RevisionBeforeInput'
    BY <2>1, <2>2, <2>3 DEF RevisionBeforeInput, Revised, Around, world, Steps
  <2> QED
    BY <2>2, <2>4, <2>6, <2>7, <2>8, <2>9, <2>10, <2>11
<1> QED
  BY <1>1, <1>2 DEF Publish

LEMMA CheckStep ==
    ASSUME IInv, NEW c \in Callers, Around, Check(c)
    PROVE  IInv'
<1>1. CASE Fails(c, Failed) /\ UNCHANGED row
  BY <1>1, GivingUp DEF Check, Steps
<1>2. CASE /\ Works(c, At(c, "announce")) \/ Fails(c, At(c, "announce"))
           /\ row' = row \/ row' = Stale(row)
  <2> DEFINE q == At(c, "announce")
  <2>1. q \in Proc /\ q.pc = "announce" /\ q.revision = proc[c].revision
    BY DEF IInv, TypeOK, At, Proc, Steps
  <2> HIDE DEF q
  <2>2. PICK p \in Proc : /\ To(c, p) /\ p.pc = "announce" /\ p.revision = proc[c].revision
                          /\ faults' \in Nat /\ (faults' = 0 => faults = 0)
    <3>1. TypeOK
      BY DEF IInv
    <3>2. CASE Works(c, q)
      BY <2>1, <3>1, <3>2 DEF Works, TypeOK
    <3>3. CASE Fails(c, q)
      BY <2>1, <3>1, <3>3, Failing
    <3> QED
      BY <1>2, <3>2, <3>3 DEF q
  <2>3. deletes = 0 /\ faults' = 0 => Published(p)
    BY <2>2 DEF IInv, CallsMoveOn, Published, Check
  <2> QED
    BY <1>2, <2>2, <2>3, RowStays DEF Check, Steps, Revised
<1> QED
  BY <1>1, <1>2 DEF Check

LEMMA AnnounceStep ==
    ASSUME IInv, NEW c \in Callers, Around, Announce(c)
    PROVE  IInv'
<1>1. proc[c].revision \in Nat /\ proc[c].pc = "announce"
  BY DEF IInv, TypeOK, Proc, Announce
<1>2. CASE Fails(c, Failed)
  BY <1>2, GivingUp DEF Announce, Steps
<1>3. CASE Works(c, Good(proc[c].revision))
  <2>1. deletes = 0 /\ faults' = 0 => Published(Good(proc[c].revision))
    BY <1>1, <1>3, CallTypes DEF IInv, CallsMoveOn, Published, Works
  <2> QED
    BY <1>1, <1>3, <2>1, CallTypes, RowStays DEF Announce, Works, Steps, IInv, TypeOK, Revised
<1> QED
  BY <1>2, <1>3 DEF Announce

\* Every step of a call keeps the invariant.
LEMMA GenerationStep == ASSUME IInv, Generation PROVE IInv'
<1>1. PICK c \in Callers : Around /\ (Lock(c) \/ Generate(c))
  BY DEF Generation
<1> QED
  BY <1>1, LockStep, ReadRevisionStep, BuildStep, LoadStep, PlanStep, SaveStep,
     WriteFileStep, PublishStep, CheckStep, AnnounceStep DEF Generate

(***************************************************************************)
(* The steps around the calls.                                             *)
(***************************************************************************)
\* A step that leaves the calls' own work, the file and the exclusions alone and
\* at most marks the row STALE.
LEMMA OthersKeep ==
    ASSUME IInv, TypeOK', row' = row \/ row' = Stale(row), file' = file,
           deletes' = deletes, faults' = 0 => faults = 0,
           crossed => crossed', deleting' => deleting,
           ~excluding' /\ ~crossed' /\ row'.status = "READY" => ~excluding,
           evidence'.excluded = evidence.excluded, Announcements', rev' \in {rev, rev + 1},
           job'.state = "READY" =>
             \/ job' = job
             \/ deletes = 0 /\ faults = 0 => Published(job'),
           \A c \in Callers : \/ proc'[c] = proc[c]
                             \/ proc'[c] = [proc[c] EXCEPT !.ctx = "dead"]
                             \/ proc'[c].pc \in {"none", "wait"}
    PROVE  IInv'
<1> USE DEF IInv
<1>1. /\ row' \in Row /\ row'.revision = row.revision /\ row'.input = row.input
      /\ row.status = "PENDING" => row' = row
      /\ row'.gen = row.gen
      /\ (row'.status = row.status \/ (row.status = "READY" /\ row'.status = "STALE"))
  BY DEF TypeOK, Row, Stale
<1>2. \A c \in Callers :
        \/ proc'[c].pc \in {"none", "wait"}
        \/ /\ proc'[c].pc = proc[c].pc /\ proc'[c].revision = proc[c].revision
           /\ proc'[c].gen = proc[c].gen /\ proc'[c].input = proc[c].input
           /\ proc'[c].ctx # "dead" => proc[c].ctx # "dead"
  BY DEF TypeOK, Proc
<1>3. OneHolder'
  BY <1>2 DEF OneHolder, Steps
<1>4. CallsHaveTheirRow'
  BY <1>1, <1>2 DEF CallsHaveTheirRow
<1>5. ArtifactMatches'
  BY <1>1 DEF ArtifactMatches
<1>6. InputIsCurrent' /\ ExclusionHolds'
  BY <1>1, <1>2 DEF InputIsCurrent, ExclusionHolds
<1>7. CallsMoveOn'
  BY <1>1, <1>2 DEF CallsMoveOn, Published
<1>8. JobIsTrue'
  BY <1>1 DEF JobIsTrue, Published
<1>9. RevisionBeforeInput'
  <2>1. \A c \in Callers : Revised(proc[c]) => Revised(proc[c])'
    BY <1>2, InitRevAssumption DEF Revised, TypeOK, Proc
  <2> QED
    BY <1>1, <2>1 DEF RevisionBeforeInput
<1> QED
  BY <1>3, <1>4, <1>5, <1>6, <1>7, <1>8, <1>9

\* A job is joined or starts to wait.
LEMMA StartType ==
    ASSUME TypeOK, Start
    PROVE  /\ job' \in Job /\ proc' \in [Callers -> Proc]
           /\ job'.state = "PENDING" <=> proc'["job"].pc # "none"
           /\ job' = job \/ job'.state = "PENDING"
           /\ \A c \in Callers : proc'[c] = proc[c] \/ proc'[c].pc = "wait"
  BY DEF TypeOK, Start, gen, Job, NoJob, Proc, NoProc, NoEvidence, Evidence, Callers

\* Requests for a review.
LEMMA RequestStep ==
    ASSUME IInv, RequestJob \/ RequestSync
    PROVE  IInv'
<1> USE DEF IInv
<1>1. CASE RequestJob
  <2>1. TypeOK'
    BY <1>1, StartType DEF RequestJob, Request, TypeOK, world, doc, cuts
  <2> QED
    BY <1>1, <2>1, StartType, OthersKeep
       DEF RequestJob, Request, world, doc, cuts, Announcements
<1>2. CASE RequestSync
  <2>1. /\ proc' = [proc EXCEPT !["api"] = At("api", "wait")]
        /\ At("api", "wait") \in Proc /\ At("api", "wait").pc = "wait"
    BY <1>2 DEF RequestSync, To, At, TypeOK, Proc, Callers
  <2>2. TypeOK'
    BY <1>2, <2>1 DEF RequestSync, Request, TypeOK, world, doc, cuts, Callers
  <2> QED
    BY <1>2, <2>1, <2>2, OthersKeep
       DEF RequestSync, Request, world, doc, cuts, Announcements, TypeOK, Callers
<1> QED
  BY <1>1, <1>2

\* The steps of Get: a job may begin to wait, and the row may become STALE.
LEMMA GetStep ==
    ASSUME IInv, Read \/ Backfill \/ GetMarks \/ GetLoads
    PROVE  IInv'
<1> USE DEF IInv
<1>1. get' \in Get
  <2>1. NoGet \in Get
    BY DEF NoGet, Get
  <2>2. \A by \in {"reader", "startup"} : Reads(by) => get' \in Get
    BY DEF Reads, Get, TypeOK
  <2>3. [get EXCEPT !.pc = "load"] \in Get
    BY DEF TypeOK, Get
  <2> QED
    BY <2>1, <2>2, <2>3 DEF Read, Backfill, GetMarks, GetLoads, Shown, TypeOK
<1>2. /\ Start \/ UNCHANGED gen
      /\ row' = row \/ row' = Stale(row)
      /\ faults' \in Nat /\ (faults' = 0 => faults = 0)
      /\ backfill' \in BOOLEAN /\ UNCHANGED <<life, world, file, cuts, counts>>
  <2>1. faults' = faults \/ Fault
    BY DEF Read, Backfill, GetMarks, GetLoads
  <2>2. faults' \in Nat /\ (faults' = 0 => faults = 0)
    BY <2>1 DEF Fault, TypeOK
  <2>3. Start \/ UNCHANGED gen
    BY DEF Read, Backfill, GetMarks, GetLoads, Shown
  <2>4. row' = row \/ row' = Stale(row)
    BY DEF Read, Backfill, GetMarks, GetLoads, Outdated, doc
  <2> QED
    BY <2>2, <2>3, <2>4 DEF Read, Backfill, GetMarks, GetLoads, doc, TypeOK
<1>3. row' \in Row
  BY <1>2 DEF TypeOK, Row, Stale
<1>4. /\ job' \in Job /\ proc' \in [Callers -> Proc]
      /\ job'.state = "PENDING" <=> proc'["job"].pc # "none"
      /\ job' = job \/ job'.state = "PENDING"
      /\ \A c \in Callers : proc'[c] = proc[c] \/ proc'[c].pc = "wait"
  BY <1>2, StartType DEF gen, TypeOK
<1>5. TypeOK'
  BY <1>1, <1>2, <1>3, <1>4 DEF TypeOK, world, cuts, counts
<1> QED
  BY <1>2, <1>4, <1>5, OthersKeep DEF world, cuts, counts, Announcements

\* The end of a job: what it reports was published.
LEMMA JobEndsStep ==
    ASSUME IInv, JobEnds
    PROVE  IInv'
<1> USE DEF IInv
<1>1. /\ job' \in Job /\ job'.state # "PENDING"
      /\ job'.state = "READY"
          => proc["job"].pc = "good" /\ job'.revision = proc["job"].revision
  BY DEF JobEnds, Ends, TypeOK, Job, Proc, Callers
<1>2. /\ proc' \in [Callers -> Proc] /\ proc'["job"].pc = "none"
      /\ \A c \in Callers : proc'[c] = proc[c] \/ proc'[c].pc = "none"
  BY CallTypes DEF JobEnds, TypeOK, Callers
<1>3. TypeOK'
  BY <1>1, <1>2 DEF JobEnds, TypeOK, world, doc, cuts, counts
<1>4. job'.state = "READY" /\ deletes = 0 /\ faults = 0 => Published(job')
  BY <1>1 DEF CallsMoveOn, Published, Callers
<1> QED
  BY <1>2, <1>3, <1>4, OthersKeep DEF JobEnds, world, doc, cuts, counts, Announcements

\* Writers of evidence, and the row marked STALE after them.
LEMMA EvidenceStep ==
    ASSUME IInv, Record \/ Announced \/ MarkStaleIfChanged
    PROVE  IInv'
<1> USE DEF IInv
<1>1. CASE Record
  <2>1. /\ evidence.records \in Nat /\ evidence' \in Evidence
        /\ evidence'.records = evidence.records + 1
        /\ evidence'.excluded = evidence.excluded
    BY <1>1 DEF Record, TypeOK, Evidence
  <2>2. TypeOK'
    BY <1>1, <2>1 DEF Record, TypeOK, doc, gen, cuts, counts
  <2>3. Announcements'
    BY <1>1, <2>1, InitRevAssumption DEF Record, Announcements, TypeOK
  <2> QED
    BY <1>1, <2>1, <2>2, <2>3, OthersKeep DEF Record, doc, gen, cuts, counts
<1>2. CASE Announced
  <2>1. /\ rev' \in Nat /\ owed' \in Nat /\ rev' \in {rev, rev + 1}
        /\ faults' \in Nat /\ (faults' = 0 => faults = 0) /\ evidence' = evidence
    BY <1>2 DEF Announced, TypeOK, Fault
  <2>2. TypeOK'
    BY <1>2, <2>1 DEF Announced, TypeOK, doc, gen, cuts, counts
  <2>3. rev \in Nat /\ owed \in Nat /\ evidence.records \in Nat
    BY DEF TypeOK, Evidence
  <2>4. InitRev <= rev /\ rev + owed <= InitRev + evidence.records
    BY DEF Announcements
  <2>5. InitRev <= rev' /\ rev' + owed' <= InitRev + evidence.records
    <3>1. /\ rev' = rev + 1 \/ rev' = rev
          /\ owed' = owed - 1
      BY <1>2 DEF Announced
    <3> QED
      BY <2>3, <2>4, <3>1, InitRevAssumption
  <2>6. Announcements'
    BY <2>1, <2>5 DEF Announcements
  <2> QED
    BY <1>2, <2>1, <2>2, <2>6, OthersKeep DEF Announced, doc, gen, cuts, counts
<1>3. CASE MarkStaleIfChanged
  <2>1. row' = row \/ row' = Stale(row)
    BY <1>3 DEF MarkStaleIfChanged
  <2>2. row' \in Row
    BY <2>1 DEF TypeOK, Row, Stale
  <2>3. TypeOK'
    BY <1>3, <2>2 DEF MarkStaleIfChanged, TypeOK, world, gen, cuts, counts
  <2> QED
    BY <1>3, <2>1, <2>3, OthersKeep
       DEF MarkStaleIfChanged, world, gen, cuts, counts, Announcements
<1> QED
  BY <1>1, <1>2, <1>3

\* Exclusion and deletion: a call they meet is not relied upon any more.
LEMMA ExclusionStep ==
    ASSUME IInv, Exclude \/ ExcludeMarks
    PROVE  IInv'
<1> USE DEF IInv
<1>1. CASE Exclude
  <2> USE <1>1 DEF Exclude
  <2>0. crossed' \in BOOLEAN /\ (~crossed' => ~crossed /\ ~Held)
    BY DEF TypeOK
  <2>1. /\ evidence' \in Evidence /\ evidence'.records = evidence.records
        /\ UNCHANGED <<row, file, proc, deleting, deletes, faults, rev, owed, job>>
        /\ excluding' = TRUE
    BY DEF TypeOK, Evidence, doc, gen, counts
  <2>2. TypeOK'
    BY <2>0, <2>1 DEF TypeOK, doc, gen, counts, Held
  <2>3. OneHolder' /\ CallsMoveOn' /\ JobIsTrue' /\ Announcements' /\ RevisionBeforeInput'
    BY <2>1 DEF OneHolder, CallsMoveOn, Published, JobIsTrue, Announcements,
       RevisionBeforeInput, Revised
  <2>4. CallsHaveTheirRow' /\ ArtifactMatches' /\ ExclusionHolds'
    BY <2>0, <2>1 DEF CallsHaveTheirRow, ArtifactMatches, ExclusionHolds
  <2>5. InputIsCurrent'
    BY <2>0, <2>1 DEF InputIsCurrent, Held, Steps
  <2> QED
    BY <2>2, <2>3, <2>4, <2>5
<1>2. CASE ExcludeMarks
  <2>1. /\ row' = row \/ row' = Stale(row)
        /\ faults' \in Nat /\ (faults' = 0 => faults = 0)
        /\ crossed' \in BOOLEAN /\ (crossed => crossed')
        /\ ~crossed' => row' = Stale(row)
    <3>1. CASE row' = Marked /\ UNCHANGED <<crossed, faults>>
      BY <3>1 DEF Marked, TypeOK
    <3>2. CASE Fault /\ crossed' = TRUE /\ UNCHANGED row
      BY <3>2 DEF Fault, TypeOK
    <3> QED
      BY <1>2, <3>1, <3>2 DEF ExcludeMarks
  <2>2. row' \in Row /\ (~crossed' => row'.status # "READY")
    BY <2>1 DEF TypeOK, Row, Stale
  <2>3. TypeOK'
    BY <1>2, <2>1, <2>2 DEF ExcludeMarks, TypeOK, world, gen, counts
  <2> QED
    BY <1>2, <2>1, <2>2, <2>3, OthersKeep DEF ExcludeMarks, world, gen, counts, Announcements
<1> QED
  BY <1>1, <1>2

LEMMA DeletionStep ==
    ASSUME IInv, Delete \/ DeleteFile
    PROVE  IInv'
<1> USE DEF IInv
<1>1. CASE Delete
  <2> USE <1>1 DEF Delete
  <2>0. crossed' \in BOOLEAN /\ (~crossed' => ~crossed /\ ~Held)
    BY DEF TypeOK
  <2>1. /\ row' \in Row /\ row'.status = "NONE" /\ row' = NoRow /\ deletes' \in Nat /\ deletes' > 0
        /\ UNCHANGED <<file, evidence, rev, owed, job, proc, excluding>>
    BY CallTypes DEF TypeOK, world, gen
  <2>2. TypeOK'
    BY <2>0, <2>1 DEF TypeOK, Held
  <2>3. OneHolder' /\ CallsMoveOn' /\ JobIsTrue' /\ Announcements' /\ RevisionBeforeInput'
    BY <2>1, CallTypes, InitRevAssumption
       DEF OneHolder, CallsMoveOn, JobIsTrue, Announcements, RevisionBeforeInput, Revised,
       NoRow, NoEvidence
  <2>4. CallsHaveTheirRow'
    BY <2>0, <2>1 DEF CallsHaveTheirRow, Held, Steps
  <2>5. ArtifactMatches' /\ ExclusionHolds' /\ InputIsCurrent'
    BY <2>0, <2>1 DEF ArtifactMatches, ExclusionHolds, InputIsCurrent
  <2> QED
    BY <2>2, <2>3, <2>4, <2>5
<1>2. CASE DeleteFile
  <2> USE <1>2 DEF DeleteFile
  <2>0. crossed' \in BOOLEAN /\ (~crossed' => ~crossed /\ ~Held)
    BY DEF TypeOK
  <2>1. /\ UNCHANGED <<row, evidence, rev, owed, job, proc, excluding, deletes>>
        /\ file' \in [revision: Nat, input: Evidence]
        /\ faults' \in Nat /\ (faults' = 0 => faults = 0)
    BY CallTypes DEF TypeOK, world, gen, counts, Fault
  <2>2. TypeOK'
    BY <2>0, <2>1 DEF TypeOK, world, gen, counts, Held
  <2>3. OneHolder' /\ CallsMoveOn' /\ JobIsTrue' /\ Announcements' /\ RevisionBeforeInput'
    BY <2>1 DEF OneHolder, CallsMoveOn, Published, JobIsTrue, Announcements,
       RevisionBeforeInput, Revised
  <2>4. CallsHaveTheirRow' /\ ArtifactMatches'
    BY <2>0, <2>1 DEF CallsHaveTheirRow, ArtifactMatches, Held, Steps
  <2>5. ExclusionHolds' /\ InputIsCurrent'
    BY <2>0, <2>1 DEF ExclusionHolds, InputIsCurrent
  <2> QED
    BY <2>2, <2>3, <2>4, <2>5
<1> QED
  BY <1>1, <1>2

\* Shutdown, crash and start-up: an interrupted exclusion counts as met.
LEMMA StopStep ==
    ASSUME IInv, Close \/ Exit \/ Crash \/ Boot
    PROVE  IInv'
<1> USE DEF IInv
<1>1. CASE Close
  <2>1. /\ proc' \in [Callers -> Proc]
        /\ \A c \in Callers : proc'[c] = proc[c] \/ proc'[c] = [proc[c] EXCEPT !.ctx = "dead"]
        /\ proc'["job"].pc = proc["job"].pc
    BY <1>1 DEF Close, TypeOK, Proc, Callers
  <2>2. TypeOK'
    BY <1>1, <2>1 DEF Close, TypeOK, world, doc, cuts
  <2> QED
    BY <1>1, <2>1, <2>2, OthersKeep DEF Close, world, doc, cuts, Announcements
<1>2. CASE Exit \/ Crash
  <2>1. Gone /\ stops' \in Nat
    BY <1>2 DEF Exit, Crash, TypeOK
  <2>2. /\ proc' \in [Callers -> Proc] /\ \A c \in Callers : proc'[c].pc = "none"
        /\ job' \in Job /\ job'.state = "IDLE"
    BY <2>1, CallTypes DEF Gone, NoJob, Job, Callers
  <2>3. TypeOK'
    BY <2>1, <2>2, NoGetType DEF Gone, TypeOK, doc, Callers
  <2>4. Announcements'
    <3>1. /\ rev \in Nat /\ owed \in Nat /\ evidence.records \in Nat
          /\ InitRev <= rev /\ rev + owed <= InitRev + evidence.records
      BY DEF TypeOK, Evidence, Announcements
    <3>2. rev + 0 <= InitRev + evidence.records
      BY <3>1, InitRevAssumption
    <3> QED
      BY <2>1, <3>1, <3>2 DEF Gone, Announcements
  <2> QED
    BY <2>1, <2>2, <2>3, <2>4, OthersKeep DEF Gone, doc, TypeOK
<1>3. CASE Boot
  <2>1. TypeOK'
    BY <1>3 DEF Boot, TypeOK, world, doc, gen, cuts, counts
  <2> QED
    BY <1>3, <2>1, OthersKeep DEF Boot, world, doc, gen, cuts, counts, Announcements
<1> QED
  BY <1>1, <1>2, <1>3

\* The invariant holds initially, and every step keeps it.
LEMMA InitFact == Init => IInv
<1> SUFFICES ASSUME Init PROVE IInv
  OBVIOUS
<1>1. TypeOK
  <2>1. /\ NoJob \in Job /\ NoJob.state = "IDLE" /\ "job" \in Callers
        /\ proc \in [Callers -> Proc] /\ proc["job"].pc = "none"
    BY CallTypes DEF Init, NoJob, Job, Callers
  <2>2. {requests, deletes, faults, stops} \subseteq Nat
    BY DEF Init
  <2>3. job \in Job /\ job.state = "IDLE" /\ rev \in Nat /\ owed \in Nat
    BY <2>1, InitRevAssumption DEF Init
  <2> QED
    BY <2>1, <2>2, <2>3, CallTypes, NoGetType DEF Init, TypeOK
<1>2. proc["job"].pc = "none" /\ proc["api"].pc = "none"
  BY CallTypes DEF Init, Callers
<1>3. \A c \in Callers : proc[c].pc \notin {"file", "publish", "load", "plan", "save", "check",
                                          "announce", "good"} \cup Steps
  BY <1>2 DEF Callers, Steps
<1>4. row.status = "NONE" /\ job.state # "READY" /\ ~deleting
  BY CallTypes DEF Init, NoJob
<1>5. Announcements
  BY InitRevAssumption DEF Init, Announcements, NoEvidence
<1>6. RevisionBeforeInput
  BY <1>3, InitRevAssumption DEF Init, RevisionBeforeInput, Revised, NoRow, NoEvidence, Steps
<1> QED
  BY <1>1, <1>3, <1>4, <1>5, <1>6 DEF IInv, OneHolder, CallsHaveTheirRow, ArtifactMatches,
     InputIsCurrent, ExclusionHolds, CallsMoveOn, JobIsTrue

LEMMA StepFact == IInv /\ [Next]_vars => IInv'
<1> SUFFICES ASSUME IInv, [Next]_vars PROVE IInv'
  OBVIOUS
<1>1. CASE UNCHANGED vars
  <2>1. UNCHANGED <<life, evidence, rev, owed, row, file, job, proc, backfill, get, excluding,
                    deleting, crossed, requests, deletes, faults, stops>>
    BY <1>1 DEF vars, world, doc, gen, cuts, counts
  <2> QED
    BY <2>1 DEF IInv, TypeOK, OneHolder, CallsHaveTheirRow, ArtifactMatches,
       InputIsCurrent, ExclusionHolds, CallsMoveOn, Published, JobIsTrue, Announcements,
       RevisionBeforeInput, Revised
<1> QED
  BY <1>1, GenerationStep, RequestStep, GetStep, JobEndsStep, EvidenceStep, ExclusionStep,
     DeletionStep, StopStep DEF Next

LEMMA Invariance == Spec => []IInv
  BY InitFact, StepFact, PTL DEF Spec

(***************************************************************************)
(* Readers, who do not take the mutex.                                     *)
(***************************************************************************)
\* Between the marking and the look a row that claims less than the revision the
\* reader began with becomes READY only by a publication.
MarkedIsCurrent ==
    get.pc = "load" /\ ~get.published /\ row.status = "READY" => get.rev <= row.gen

\* What a step may make of the row.
LEMMA RowSteps ==
    ASSUME IInv, Next
    PROVE  \/ row' = row \/ row' = Stale(row)
           \/ row'.status # "READY"
           \/ Generation /\ row.status = "PENDING"
           \/ GetMarks
<1>1. CASE Generation
  <2>1. PICK c \in Callers : Lock(c) \/ Generate(c)
    BY <1>1 DEF Generation
  <2>2. CASE Save(c)
    BY <2>2 DEF Save
  <2>3. CASE Publish(c)
    BY <1>1, <2>3 DEF Publish
  <2>4. CASE Lock(c) \/ ReadRevision(c) \/ Build(c) \/ Load(c) \/ Plan(c) \/ WriteFile(c)
             \/ Check(c) \/ Announce(c)
    BY <2>4 DEF Lock, ReadRevision, Build, Load, Plan, WriteFile, Check, Announce
  <2> QED
    BY <2>1, <2>2, <2>3, <2>4 DEF Generate
<1>2. CASE Delete
  BY <1>2, CallTypes DEF Delete
<1>3. CASE MarkStaleIfChanged \/ ExcludeMarks
  BY <1>3 DEF MarkStaleIfChanged, ExcludeMarks, Marked
<1>4. CASE RequestJob \/ JobEnds \/ RequestSync \/ Backfill \/ Read \/ GetLoads \/ Record
           \/ Announced \/ Exclude \/ DeleteFile \/ Close \/ Exit \/ Crash \/ Boot
  BY <1>4 DEF RequestJob, JobEnds, RequestSync, Backfill, Read, GetLoads, Record, Announced,
     Exclude, DeleteFile, Close, Exit, Crash, Boot, Gone, doc
<1> QED
  BY <1>1, <1>2, <1>3, <1>4 DEF Next

\* And what of the call of Get, if it is still to look then.
LEMMA GetSteps ==
    ASSUME IInv, Next, get'.pc = "load", ~GetMarks
    PROVE  /\ get.pc = "load" /\ get'.rev = get.rev
           /\ ~get'.published => ~get.published
           /\ Generation /\ ~get'.published => ~Publishes(row, row')
<1>1. CASE Generation
  <2> DEFINE b == get.published \/ (get.pc = "load" /\ Publishes(row, row'))
  <2>1. get \in Get /\ get' = [get EXCEPT !.published = b]
    BY <1>1 DEF Generation, Around, IInv, TypeOK
  <2>2. get'.pc = get.pc /\ get'.rev = get.rev /\ get'.published = b
    <3> HIDE DEF b
    <3> QED
      BY <2>1 DEF Get
  <2> QED
    BY <2>2
<1>2. CASE get' = get /\ ~Generation
  BY <1>2
<1>3. CASE get' = NoGet
  BY <1>3, NoGetType
<1>4. CASE Reads("reader") \/ Reads("startup")
  BY <1>4 DEF Reads
<1> QED
  BY <1>1, <1>2, <1>3, <1>4
     DEF Next, RequestJob, JobEnds, RequestSync, Backfill, Read, GetMarks, GetLoads, Shown,
     Record, Announced, MarkStaleIfChanged, Exclude, ExcludeMarks, Delete, DeleteFile, Close,
     Exit, Crash, Gone, Boot

\* Readers keep it, with every step.
LEMMA MarkedStep == IInv /\ MarkedIsCurrent /\ [Next]_vars => MarkedIsCurrent'
<1> SUFFICES ASSUME IInv, MarkedIsCurrent, [Next]_vars,
                    get'.pc = "load", ~get'.published, row'.status = "READY"
             PROVE  get'.rev <= row'.gen
  BY DEF MarkedIsCurrent
<1>1. row \in Row /\ get \in Get
  BY DEF IInv, TypeOK
<1>2. Stale(row).status # "READY"
  BY <1>1 DEF Stale, Row
<1>3. CASE UNCHANGED vars
  BY <1>3 DEF vars, doc, MarkedIsCurrent
<1>4. CASE GetMarks
  <2>1. get'.pc = "load" => get'.rev = get.rev /\ row' = Outdated(row, get.rev)
    BY <1>1, <1>4, NoGetType DEF GetMarks, Shown, Get
  <2>2. row' = row /\ ~(row.gen < get.rev)
    BY <1>1, <1>2, <2>1 DEF Outdated
  <2> QED
    BY <1>1, <2>1, <2>2 DEF Row, Get
<1>5. CASE Next /\ ~GetMarks
  <2>1. /\ get.pc = "load" /\ get'.rev = get.rev /\ ~get.published
        /\ ~(Generation /\ row.status = "PENDING")
    BY <1>5, GetSteps DEF Publishes
  <2>2. row' = row
    BY <1>2, <1>5, <2>1, RowSteps
  <2> QED
    BY <2>1, <2>2 DEF MarkedIsCurrent
<1> QED
  BY <1>3, <1>4, <1>5

\* Type correctness, for all bounds; and a job is pending exactly while its call
\* of Generate runs (Coordinator.Start, run).
THEOREM TypeCorrect == Spec => []TypeOK
<1>1. IInv => TypeOK
  BY DEF IInv
<1> QED
  BY <1>1, Invariance, PTL

\* The published row and the Markdown file are the same document, whichever
\* writes of Generate fail and wherever it is interrupted, unless a deletion met
\* the generation.
THEOREM PublishedArtifact == Spec => []ArtifactMatches
<1>1. IInv => ArtifactMatches
  BY DEF IInv
<1> QED
  BY <1>1, Invariance, PTL

\* Exclude's two statements keep what the user excluded out of every READY
\* review, although they do not take Service.mutex.
THEOREM ExclusionIsKept == Spec => []ExclusionHolds
<1>1. IInv => ExclusionHolds
  BY DEF IInv
<1> QED
  BY <1>1, Invariance, PTL

\* As long as nothing failed and nothing was deleted: a job the coordinator
\* reports as READY has been published, although calls of the synchronous API,
\* timeouts, exits and crashes come between and readers mark the same row.
THEOREM ReportedJobs == Spec => []JobIsTrue
<1>1. IInv => JobIsTrue
  BY DEF IInv
<1> QED
  BY <1>1, Invariance, PTL

\* A review shown as READY has seen every record announced when its reader began,
\* whenever the record came and whatever generation was under way, if none was
\* published between the statements of Get and no read or write failed; and if the
\* date had a revision before, as Service.Generate reads a revision of 0 again,
\* after the records.
THEOREM ShownReviewsAreComplete ==
    ASSUME InitRev > 0
    PROVE  Spec => []ShownIsComplete
<1>1. Init => MarkedIsCurrent
  BY NoGetType DEF Init, MarkedIsCurrent
<1>2. IInv /\ MarkedIsCurrent => ShownIsComplete
  <2> SUFFICES ASSUME IInv, MarkedIsCurrent, faults = 0, get.pc = "load", ~get.published,
                      row.status = "READY"
               PROVE  Seen(row, get.rev)
    BY DEF ShownIsComplete
  <2>1. row.gen \in Nat /\ get.rev \in Nat /\ row.input.records \in Nat
    BY DEF IInv, TypeOK, Row, Evidence, Get
  <2>2. get.rev <= row.gen
    BY DEF MarkedIsCurrent
  <2>3. row.gen <= InitRev + row.input.records
    BY DEF IInv, RevisionBeforeInput
  <2> QED
    BY <2>1, <2>2, <2>3, InitRevAssumption DEF Seen
<1> QED
  BY <1>1, <1>2, Invariance, MarkedStep, PTL DEF Spec

=============================================================================
