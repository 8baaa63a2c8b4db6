-------------------------- MODULE ReviewGeneration --------------------------
(***************************************************************************)
(* The daily review of one date: review.Coordinator, review.Service and    *)
(* the table daily_reviews.                                                *)
(*                                                                         *)
(* A generation reads the evidence of the date, asks a model for a         *)
(* document (or builds one itself), saves the row as PENDING, writes a     *)
(* Markdown file, publishes the row as READY and announces it.  It holds   *)
(* the service's mutex, so generations do not interleave; but writers of   *)
(* evidence, exclusions, deletions and readers of the row do not take it.  *)
(* Generations are started by hand, by the OFF trigger (see ReviewTrigger) *)
(* and, for yesterday, at start-up, all through the coordinator; the       *)
(* synchronous API calls the service directly.                             *)
(*                                                                         *)
(* Abstractions: evidence is the number of records and of exclusions, and  *)
(* an input hash is what it hashes.  A record's writer moves the date's    *)
(* evidence revision in a second statement.  That compacting or hashing    *)
(* itself fails is left out, as are prompts, providers and texts.          *)
(***************************************************************************)
EXTENDS Naturals

CONSTANTS
    InitRev,        \* evidence records announced before the first step
    MaxRecords,     \* bounds: records written,
    MaxEdits,       \* exclusions and deletions by the user, together,
    MaxRequests,    \* requests for a review,
    MaxFaults,      \* failing reads and writes,
    MaxStops        \* exits and crashes

ASSUME InitRevAssumption == InitRev \in Nat
ASSUME BoundsAssumption ==
    {MaxRecords, MaxEdits, MaxRequests, MaxFaults, MaxStops} \subseteq Nat

VARIABLES
    life,       \* "up", "closing" from Coordinator.Close to the exit, "down"
    evidence,   \* the date's evidence
    rev,        \* its row in evidence_revisions
    owed,       \* records whose writer has not moved the revision yet
    row,        \* its row in daily_reviews
    file,       \* its Markdown file
    job,        \* Coordinator.jobs: the date's last job
    proc,       \* the calls of Service.Generate: the job's and the API's
    backfill,   \* the start-up still has to look at the date
    get,        \* the call of Service.Get under way
    excluding,  \* Exclude is between its two statements
    deleting,   \* Delete is between the row and the file
    crossed,    \* history: an exclusion or a deletion met a generation
    requests, deletes, faults, stops

world == <<evidence, rev, owed>>
doc == <<row, file>>
gen == <<job, proc>>
cuts == <<excluding, deleting, crossed>>
counts == <<requests, deletes, stops>>
vars == <<life, world, doc, gen, backfill, get, cuts, counts, faults>>

Callers == {"job", "api"}
Evidence == [records: Nat, excluded: Nat]
NoEvidence == [records |-> 0, excluded |-> 0]
Row == [status: {"NONE", "PENDING", "READY", "STALE"}, revision: Nat, gen: Nat,
        input: Evidence]
NoRow == [status |-> "NONE", revision |-> 0, gen |-> 0, input |-> NoEvidence]
NoFile == [revision |-> 0, input |-> NoEvidence]
Job == [state: {"IDLE", "PENDING", "READY", "FAILED"}, revision: Nat]
NoJob == [state |-> "IDLE", revision |-> 0]

\* A call of Generate waits for the mutex, is about to make the named step, or
\* is back ("good", "failed") for the coordinator to see.  Its context is "live",
\* "dead" after a timeout or cancellation, or the fallback's "own".
Steps == {"revision", "build", "load", "plan", "save", "file", "publish", "check",
          "announce"}
Proc == [pc: {"none", "wait", "good", "failed"} \cup Steps, ctx: {"live", "dead", "own"},
         gen: Nat, input: Evidence, revision: Nat]
NoProc == [pc |-> "none", ctx |-> "live", gen |-> 0, input |-> NoEvidence, revision |-> 0]
Good(r) == [NoProc EXCEPT !.pc = "good", !.revision = r]
Failed == [NoProc EXCEPT !.pc = "failed"]

\* A call of Get has read the date's revision and is about to mark the row or to
\* look at it, for a reader or for the start-up.  History: whether a row was
\* published after the marking.
Get == [pc: {"none", "mark", "load"}, by: {"reader", "startup"}, rev: Nat,
        published: BOOLEAN]
NoGet == [pc |-> "none", by |-> "reader", rev |-> 0, published |-> FALSE]

Held == \E c \in Callers : proc[c].pc \in Steps
Running == life # "down"

Fault == faults < MaxFaults /\ faults' = faults + 1
Request == /\ life = "up" /\ requests < MaxRequests
           /\ requests' = requests + 1 /\ UNCHANGED <<deletes, stops>>

To(c, p) ==
    proc' = [proc EXCEPT ![c] = IF c = "api" /\ p.pc \in {"good", "failed"} THEN NoProc
                                ELSE IF p.pc = "failed" THEN Failed ELSE p]
At(c, pc) == [proc[c] EXCEPT !.pc = pc]
\* A read or write under the context of call c works and leads to p; or it
\* fails, because the context is dead or something else is the matter.
Works(c, p) == proc[c].ctx # "dead" /\ To(c, p) /\ UNCHANGED faults
Fails(c, p) ==
    \/ proc[c].ctx # "own" /\ To(c, [p EXCEPT !.ctx = "dead"]) /\ UNCHANGED faults
    \/ proc[c].ctx # "dead" /\ To(c, p) /\ Fault

Stale(r) == IF r.status = "READY" THEN [r EXCEPT !.status = "STALE"] ELSE r

----------------------------------------------------------------------------
(* Service.Generate, step by step *)

Lock(c) ==
    /\ Running /\ proc[c].pc = "wait" /\ ~Held
    /\ To(c, At(c, "revision"))
    /\ UNCHANGED <<row, file, crossed, faults>>

\* Aggregator.Build reads the revision first and takes an error for 0.
ReadRevision(c) ==
    /\ proc[c].pc = "revision"
    /\ \/ Works(c, [At(c, "build") EXCEPT !.gen = rev])
       \/ Fails(c, At(c, "build"))
    /\ UNCHANGED <<row, file, crossed>>

Build(c) ==
    /\ proc[c].pc = "build"
    /\ \/ Works(c, [At(c, "load") EXCEPT !.input = evidence])
       \/ Fails(c, Failed)
    /\ UNCHANGED <<row, file, crossed>>

\* A READY review of the same input is returned; one of another input becomes
\* STALE.  Errors are ignored.  Then the model is asked: it answers with a valid
\* document or, for whatever reason, a fallback is built, which is stored under
\* a context of its own.
Load(c) ==
    LET same == row.status = "READY" /\ row.input = proc[c].input
        asked == At(c, "plan")
        fallback == [asked EXCEPT !.ctx = "own"]
    IN /\ proc[c].pc = "load"
       /\ \/ Works(c, Good(row.revision)) /\ same /\ UNCHANGED row
          \/ (Works(c, asked) \/ Works(c, fallback)) /\ ~same /\ row' = Stale(row)
          \* the context is dead, or only this read fails
          \/ To(c, fallback) /\ UNCHANGED <<row, faults>>
          \/ proc[c].ctx = "live" /\ Fault /\ To(c, asked) /\ UNCHANGED row
       /\ UNCHANGED <<file, crossed>>

Planned(c, g, known) == [At(c, "save") EXCEPT !.gen = g, !.revision = known + 1]
\* Mutant: the review gets the revision of the time it is stored.
PlanFresh(c) ==
    /\ proc[c].pc = "plan" /\ Works(c, Planned(c, rev, row.revision))
    /\ UNCHANGED <<row, file, crossed>>
\* A revision of 0 is read again; a row that cannot be loaded counts as missing.
Plan(c) ==
    LET Else0(current) == IF proc[c].gen = 0 THEN current ELSE proc[c].gen IN
    /\ proc[c].pc = "plan"
    /\ \/ Works(c, Planned(c, Else0(rev), row.revision))
       \/ Fails(c, Planned(c, Else0(0), row.revision))
       \/ Fails(c, Planned(c, Else0(rev), 0))
       \/ Fails(c, Planned(c, Else0(0), 0))
    /\ UNCHANGED <<row, file, crossed>>

Save(c) ==
    /\ proc[c].pc = "save"
    /\ \/ /\ Works(c, At(c, "file"))
          /\ row' = [status |-> "PENDING", revision |-> proc[c].revision,
                     gen |-> proc[c].gen, input |-> proc[c].input]
          /\ crossed' = (crossed \/ deleting)
       \/ Fails(c, Failed) /\ UNCHANGED <<row, crossed>>
    /\ UNCHANGED file

\* Mutant: a file that cannot be written does not stop the publication.
WriteFileTries(c) ==
    /\ proc[c].pc = "file" /\ To(c, At(c, "publish"))
    /\ \/ file' = [revision |-> proc[c].revision, input |-> proc[c].input] /\ UNCHANGED faults
       \/ Fault /\ UNCHANGED file
    /\ UNCHANGED <<row, crossed>>
\* writeMarkdownAtomic knows no context.
WriteFile(c) ==
    /\ proc[c].pc = "file"
    /\ \/ /\ file' = [revision |-> proc[c].revision, input |-> proc[c].input]
          /\ To(c, At(c, "publish")) /\ UNCHANGED faults
       \/ Fault /\ To(c, Failed) /\ UNCHANGED file
    /\ UNCHANGED <<row, crossed>>

\* MarkDailyReviewReady, only for this attempt's own PENDING row.
Publish(c) ==
    LET mine == row.status = "PENDING" /\ row.revision = proc[c].revision IN
    /\ proc[c].pc = "publish"
    /\ \/ Works(c, At(c, "check")) /\ mine /\ row' = [row EXCEPT !.status = "READY"]
       \/ Works(c, Failed) /\ ~mine /\ UNCHANGED row
       \/ Fails(c, Failed) /\ UNCHANGED row
    /\ UNCHANGED <<file, crossed>>

\* Evidence that came during the generation makes the review STALE at once.  An
\* error of the read skips the comparison, one of the write ends the call.
Check(c) ==
    /\ proc[c].pc = "check"
    /\ \/ /\ Works(c, At(c, "announce"))
          /\ row' = IF rev > proc[c].gen THEN Stale(row) ELSE row
       \/ Fails(c, At(c, "announce")) /\ UNCHANGED row
       \/ rev > proc[c].gen /\ Fails(c, Failed) /\ UNCHANGED row
    /\ UNCHANGED <<file, crossed>>

\* RecordDailyReviewReady; the event itself is left out.
Announce(c) ==
    /\ proc[c].pc = "announce"
    /\ Works(c, Good(proc[c].revision)) \/ Fails(c, Failed)
    /\ UNCHANGED <<row, file, crossed>>

Generate(c) ==
    /\ Running
    /\ \/ ReadRevision(c) \/ Build(c) \/ Load(c) \/ Plan(c) \/ Save(c)
       \/ WriteFile(c) \/ Publish(c) \/ Check(c) \/ Announce(c)

Publishes(r, next) == r.status = "PENDING" /\ next.status = "READY"
Around ==
    /\ get' = [get EXCEPT !.published = @ \/ (get.pc = "load" /\ Publishes(row, row'))]
    /\ UNCHANGED <<life, world, job, backfill, excluding, deleting, counts>>
Generation == (\E c \in Callers : Lock(c) \/ Generate(c)) /\ Around

----------------------------------------------------------------------------
(* Coordinator and the synchronous API *)

\* Mutant: a failed generation is reported as READY.
EndsAnyway(p, j) == [state |-> "READY", revision |-> p.revision]
\* run, after Generate.
Ends(p, j) ==
    IF p.pc = "failed" \/ life = "closing" THEN [state |-> "FAILED", revision |-> 0]
    ELSE [state |-> "READY", revision |-> p.revision]
JobEnds ==
    /\ Running /\ proc["job"].pc \in {"good", "failed"}
    /\ job' = Ends(proc["job"], job)
    /\ proc' = [proc EXCEPT !["job"] = NoProc]
    /\ UNCHANGED <<life, world, doc, backfill, get, cuts, counts, faults>>

\* A running job is joined; a closed coordinator refuses.
Start ==
    IF job.state = "PENDING" \/ life # "up" THEN UNCHANGED gen
    ELSE /\ job' = [NoJob EXCEPT !.state = "PENDING"]
         /\ proc' = [proc EXCEPT !["job"] = [NoProc EXCEPT !.pc = "wait"]]

RequestJob ==
    /\ Request /\ Start
    /\ UNCHANGED <<life, world, doc, backfill, get, cuts, faults>>

RequestSync ==
    /\ Request /\ proc["api"].pc = "none" /\ To("api", At("api", "wait"))
    /\ UNCHANGED <<life, world, doc, job, backfill, get, cuts, faults>>

----------------------------------------------------------------------------
(* Service.Get: three statements without the mutex.  One call at a time: all *)
(* that another could do to it is to mark the row STALE.                     *)

\* The call is over.  A reader is shown the row; the start-up has a review made
\* unless it was READY, and takes an error for a missing row.
Shown(status) ==
    /\ get' = NoGet
    /\ IF get.by = "startup" /\ status # "READY" THEN Start ELSE UNCHANGED gen

Reads(by) == get' = [pc |-> "mark", by |-> by, rev |-> rev, published |-> FALSE]

\* The read of the revision, for a reader; an error shows nothing.
Read ==
    /\ Running /\ get.pc = "none" /\ Reads("reader")
    /\ UNCHANGED <<life, world, doc, gen, backfill, cuts, counts, faults>>

\* StartPreviousDayIfNeeded: without evidence, or if it cannot be read, nothing;
\* else the read of the revision.
Backfill ==
    /\ Running /\ backfill /\ backfill' = FALSE /\ get.pc = "none"
    /\ \/ rev + evidence.records = 0 /\ UNCHANGED <<get, gen, faults>>
       \/ rev + evidence.records > 0 /\ Reads("startup") /\ UNCHANGED <<gen, faults>>
       \/ Fault /\ UNCHANGED get /\ (Start \/ UNCHANGED gen)
    /\ UNCHANGED <<life, world, doc, cuts, counts>>

\* MarkDailyReviewStaleIfRevisionChanged, with the revision read before.
Outdated(r, revision) == IF r.gen < revision THEN Stale(r) ELSE r
GetMarks ==
    /\ Running /\ get.pc = "mark"
    /\ \/ /\ row' = Outdated(row, get.rev) /\ get' = [get EXCEPT !.pc = "load"]
          /\ UNCHANGED <<gen, faults>>
       \/ Fault /\ Shown("NONE") /\ UNCHANGED row
    /\ UNCHANGED <<life, world, file, backfill, cuts, counts>>

\* LoadDailyReview.
GetLoads ==
    /\ Running /\ get.pc = "load"
    /\ \/ Shown(row.status) /\ UNCHANGED faults
       \/ Shown("NONE") /\ Fault
    /\ UNCHANGED <<life, world, doc, backfill, cuts, counts>>

----------------------------------------------------------------------------
(* Evidence, exclusion and deletion *)

Record ==
    /\ Running /\ evidence.records < MaxRecords
    /\ evidence' = [evidence EXCEPT !.records = @ + 1]
    /\ owed' = owed + 1
    /\ UNCHANGED <<life, rev, doc, gen, backfill, get, cuts, counts, faults>>
\* BumpEvidenceRevision.  After an error the record stays unannounced.
Announced ==
    /\ Running /\ owed > 0 /\ owed' = owed - 1
    /\ \/ rev' = rev + 1 /\ UNCHANGED faults
       \/ Fault /\ UNCHANGED rev
    /\ UNCHANGED <<life, evidence, doc, gen, backfill, get, cuts, counts>>

\* MarkStaleIfChanged, after OFF and after a chat turn, with the mutex.
MarkStaleIfChanged ==
    /\ Running /\ ~Held
    /\ row' = IF (row.gen > 0 /\ rev > row.gen) \/ row.input # evidence
              THEN Stale(row) ELSE row
    /\ UNCHANGED <<life, world, file, gen, backfill, get, cuts, counts, faults>>

\* Exclude: first the exclusion, then the row, without the mutex.
Exclude ==
    /\ Running /\ ~excluding /\ evidence.excluded + deletes < MaxEdits
    /\ evidence' = [evidence EXCEPT !.excluded = @ + 1]
    /\ excluding' = TRUE /\ crossed' = (crossed \/ Held)
    /\ UNCHANGED <<life, rev, owed, doc, gen, backfill, get, deleting, counts, faults>>
\* Mutant: the exclusion leaves the review alone.
NotMarked == row
Marked == Stale(row)
ExcludeMarks ==
    /\ Running /\ excluding /\ excluding' = FALSE
    /\ \/ row' = Marked /\ UNCHANGED <<crossed, faults>>
       \/ Fault /\ crossed' = TRUE /\ UNCHANGED row
    /\ UNCHANGED <<life, world, file, gen, backfill, get, deleting, counts>>

\* Delete: first the row, then the file, without the mutex.
Delete ==
    /\ Running /\ ~deleting /\ evidence.excluded + deletes < MaxEdits /\ deletes' = deletes + 1
    /\ row' = NoRow
    /\ deleting' = TRUE /\ crossed' = (crossed \/ Held)
    /\ UNCHANGED <<life, world, file, gen, backfill, get, excluding, requests, stops, faults>>
DeleteFile ==
    /\ Running /\ deleting /\ deleting' = FALSE
    /\ \/ file' = NoFile /\ UNCHANGED faults
       \/ Fault /\ UNCHANGED file
    /\ crossed' = (crossed \/ Held)
    /\ UNCHANGED <<life, world, row, gen, backfill, get, excluding, counts>>

----------------------------------------------------------------------------
(* Shutdown, crash, start-up *)

\* Coordinator.Close: the job's context dies, but a fallback under its own goes on.
Close ==
    /\ life = "up" /\ life' = "closing"
    /\ stops < MaxStops /\ stops' = stops + 1
    /\ proc' = [proc EXCEPT !["job"].ctx = IF @ = "live" THEN "dead" ELSE @]
    /\ UNCHANGED <<world, doc, job, backfill, get, cuts, requests, deletes, faults>>

\* What is in memory is gone.
Gone ==
    /\ life' = "down"
    /\ owed' = 0 /\ job' = NoJob /\ proc' = [c \in Callers |-> NoProc]
    /\ backfill' = FALSE /\ get' = NoGet
    /\ excluding' = FALSE /\ deleting' = FALSE /\ crossed' = (crossed \/ excluding)
    /\ UNCHANGED <<evidence, rev, doc, requests, deletes, faults>>

\* The exit waits for the job, but for nothing else beyond three seconds.
Exit == life = "closing" /\ proc["job"].pc = "none" /\ Gone /\ UNCHANGED stops
Crash == Running /\ stops < MaxStops /\ stops' = stops + 1 /\ Gone

\* The start-up looks at yesterday, if it is told to.
Boot ==
    /\ life = "down" /\ life' = "up"
    /\ backfill' \in BOOLEAN
    /\ UNCHANGED <<world, doc, gen, get, cuts, counts, faults>>

Init ==
    /\ life = "up"
    /\ evidence = NoEvidence /\ rev = InitRev /\ owed = 0
    /\ row = NoRow /\ file = NoFile
    /\ job = NoJob /\ proc = [c \in Callers |-> NoProc]
    /\ backfill = FALSE /\ get = NoGet
    /\ excluding = FALSE /\ deleting = FALSE /\ crossed = FALSE
    /\ requests = 0 /\ deletes = 0 /\ faults = 0 /\ stops = 0

Next == \/ Generation \/ RequestJob \/ JobEnds \/ RequestSync
        \/ Backfill \/ Read \/ GetMarks \/ GetLoads
        \/ Record \/ Announced \/ MarkStaleIfChanged
        \/ Exclude \/ ExcludeMarks \/ Delete \/ DeleteFile
        \/ Close \/ Exit \/ Crash \/ Boot

Spec == Init /\ [][Next]_vars

----------------------------------------------------------------------------
(* Properties *)

TypeOK ==
    /\ life \in {"up", "closing", "down"}
    /\ evidence \in Evidence /\ rev \in Nat /\ owed \in Nat
    /\ row \in Row /\ file \in [revision: Nat, input: Evidence]
    /\ job \in Job /\ proc \in [Callers -> Proc]
    /\ backfill \in BOOLEAN /\ get \in Get
    /\ excluding \in BOOLEAN /\ deleting \in BOOLEAN
    /\ crossed \in BOOLEAN
    /\ {requests, deletes, faults, stops} \subseteq Nat
    /\ job.state = "PENDING" <=> proc["job"].pc # "none"

\* The records announced by revision n are in the input of review r.
Seen(r, n) == n <= InitRev + r.input.records

\* A review shown as READY has seen every record announced when its reader
\* began, whenever that record came: the stored revision never claims more than
\* the review saw.  Unless it was published between the reader's marking and its
\* look: Get has no mutex, and shows such a review as READY although evidence
\* came while it was made.
ShownIsComplete ==
    faults = 0 /\ get.pc = "load" /\ ~get.published /\ row.status = "READY"
      => Seen(row, get.rev)

\* A published review and its Markdown file are the same document, whatever
\* write failed and wherever the program stopped; unless a deletion met it.
ArtifactMatches ==
    ~crossed /\ row.status \in {"READY", "STALE"}
      => file = [revision |-> row.revision, input |-> row.input]

\* What the user has excluded is in no READY review, unless the exclusion met a
\* generation or was cut short.
ExclusionHolds ==
    ~excluding /\ ~crossed /\ row.status = "READY"
      => row.input.excluded = evidence.excluded

\* As long as nothing failed and nothing was deleted, a job reported as READY was
\* published and has at most been superseded.
JobIsTrue ==
    job.state = "READY" /\ deletes = 0 /\ faults = 0 =>
      /\ row.revision >= job.revision
      /\ row.revision = job.revision => row.status \in {"READY", "STALE"}

=============================================================================
