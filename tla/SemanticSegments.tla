--------------------------- MODULE SemanticSegments ---------------------------
(***************************************************************************)
(* internal/semantic and RecordSemanticSnapshot (storage/review.go): which *)
(* of the observed activities become snapshots, the day's record of what   *)
(* was studied.                                                            *)
(*                                                                         *)
(* The worker offers an observation each tick; its key is the activity     *)
(* with its task, topic and window, and none when it is not a fresh, sure, *)
(* public and focused study activity.  The write inserts the row and then  *)
(* moves the evidence revision, and either may fail.                       *)
(***************************************************************************)
EXTENDS Integers, Sequences

CONSTANTS
    Keys,
    StableFor, MinPersist, Heartbeat,    \* Timing
    MaxNow, MaxGap,
    MaxSlips,        \* times the clock goes back, by two
    MaxFaults, MaxStarts

VARIABLES
    clock,
    pending,    \* pendingKey and pendingSince
    last,       \* lastKey and lastPersistAt, 0 for the zero time
    rows,       \* semantic_snapshots of the day
    seen,       \* history: the key all last observations had, and the first of them
    troubles    \* clock slips, failing writes and starts so far

gvars == <<clock, pending, last, rows, seen, troubles>>

None == "none"
Never == [key |-> None, at |-> 0]
Earlier(a, b) == IF a < b THEN a ELSE b

\* Mutant: an observation that cannot be stored leaves the pending one alone.
PendingKept == UNCHANGED pending
ResetPending == pending' = Never

Row(key, time) == [key |-> key, first |-> pending.at, at |-> time]
\* A first snapshot, a heartbeat of the stored activity, or another one.
Due(key, time) ==
    \/ last.at = 0
    \/ time - last.at >= (IF last.key = key THEN Heartbeat ELSE MinPersist)

\* RecordSemanticSnapshot, and lastKey only when all of it went well.
Persist(key, time) ==
    \/ rows' = Append(rows, Row(key, time)) /\ last' = [key |-> key, at |-> time] /\ UNCHANGED troubles
    \/ /\ troubles.faults < MaxFaults /\ troubles' = [troubles EXCEPT !.faults = @ + 1]
       /\ rows' \in {rows, Append(rows, Row(key, time))}
       /\ UNCHANGED last

\* persistIfEligibleLocked
Eligible(key, time) ==
    \/ /\ key # pending.key \/ time < pending.at
       /\ pending' = [key |-> key, at |-> time] /\ UNCHANGED <<last, rows, troubles>>
    \/ /\ key = pending.key /\ time >= pending.at
       /\ UNCHANGED pending
       /\ IF time - pending.at >= StableFor /\ Due(key, time)
          THEN Persist(key, time)
          ELSE UNCHANGED <<last, rows, troubles>>

Observe(key, gap) ==
    /\ clock + gap <= MaxNow /\ clock' = clock + gap
    /\ seen' = [key |-> key, at |-> IF key # seen.key THEN clock + gap ELSE Earlier(seen.at, clock + gap)]
    /\ \/ key = None /\ ResetPending /\ UNCHANGED <<last, rows, troubles>>
       \/ key # None /\ Eligible(key, clock + gap)

SlipBack ==
    /\ clock > 2 /\ troubles.slips < MaxSlips
    /\ clock' = clock - 2 /\ troubles' = [troubles EXCEPT !.slips = @ + 1]
    /\ UNCHANGED <<pending, last, rows, seen>>

Restart ==
    /\ troubles.starts < MaxStarts /\ troubles' = [troubles EXCEPT !.starts = @ + 1]
    /\ pending' = Never /\ last' = Never /\ seen' = Never
    /\ UNCHANGED <<clock, rows>>

GInit ==
    /\ clock = 1 /\ pending = Never /\ last = Never /\ rows = <<>> /\ seen = Never
    /\ troubles = [slips |-> 0, faults |-> 0, starts |-> 0]

GNext ==
    \/ \E key \in Keys \cup {None}, gap \in 1..MaxGap : Observe(key, gap)
    \/ SlipBack \/ Restart

GSpec == GInit /\ [][GNext]_gvars

----------------------------------------------------------------------------
(* Properties *)

Held == [key : Keys \cup {None}, at : 0..MaxNow]
TypeOK ==
    /\ clock \in 1..MaxNow
    /\ pending \in Held /\ last \in Held /\ seen \in Held
    /\ \A i \in DOMAIN rows : rows[i] \in [key : Keys, first : 1..MaxNow, at : 1..MaxNow]
    /\ troubles \in [slips : 0..MaxSlips, faults : 0..MaxFaults, starts : 0..MaxStarts]

\* A snapshot claims a stretch of one activity: every observation of it was of
\* that activity, and it lasted StableFor at least, over clock slips, failing
\* writes, looks at other windows and restarts.
NewRowIsStable ==
    Len(rows') > Len(rows) =>
        LET row == rows'[Len(rows')]
        IN  /\ row.key = seen'.key /\ row.first >= seen'.at
            /\ row.at - row.first >= StableFor
SnapshotIsStable == [][NewRowIsStable]_gvars

===============================================================================
