---------------------------- MODULE ActivityHealth ----------------------------
(***************************************************************************)
(* activitywatch.AvailabilityDebouncer: when ActivityWatch counts as gone, *)
(* from the samples that failed and succeeded so far.                      *)
(***************************************************************************)
EXTENDS Integers

CONSTANTS FailureThreshold, FailureWindow, RecoverySuccesses   \* AvailabilityTiming

\* since is unavailableSince, 0 for the zero time.
Healthy == [failures |-> 0, successes |-> 0, since |-> 0, stable |-> TRUE, phase |-> "AVAILABLE"]
Phases == {"AVAILABLE", "DEGRADED", "UNAVAILABLE"}

AtMost(n, limit) == IF n > limit THEN limit ELSE n

\* Observe of a successful sample.
Succeeded(h) ==
    LET n == AtMost(h.successes + 1, RecoverySuccesses)
    IN  IF n >= RecoverySuccesses /\ h.phase # "AVAILABLE"
        THEN [Healthy EXCEPT !.successes = n]
        ELSE [h EXCEPT !.failures = 0, !.successes = n,
                       !.phase = IF h.stable THEN @ ELSE "DEGRADED"]

\* Observe of a failure: after some in a row, or a window of them, the watcher
\* is given up until it has answered several times in a row.
Failed(h, time) ==
    LET n == AtMost(h.failures + 1, FailureThreshold)
        first == IF h.since = 0 THEN time ELSE h.since
        lost == ~h.stable \/ n >= FailureThreshold \/ time - first >= FailureWindow
    IN  [failures |-> n, successes |-> 0, since |-> first, stable |-> ~lost,
         phase |-> IF lost THEN "UNAVAILABLE" ELSE "DEGRADED"]

Observed(h, time, success) == IF success THEN Succeeded(h) ELSE Failed(h, time)

===============================================================================
