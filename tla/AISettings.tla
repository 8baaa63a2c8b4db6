------------------------------ MODULE AISettings ------------------------------
(***************************************************************************)
(* The AI settings of internal/aisettings: a settings row, a key file per  *)
(* endpoint, the configuration in memory and the providers built from it.  *)
(*                                                                         *)
(* At start LoadAndMigratePersistedAI decodes the row, puts a key an older *)
(* version left in it into a file and rewrites the row; while running,     *)
(* Save, PutSecret and DeleteSecret change file, row and memory in that    *)
(* order under the service's lock.  Every write may fail and the process   *)
(* may die between any two.  Endpoints, models and proxies are one version *)
(* number; keys are numbers, the old version's is key 1.                   *)
(***************************************************************************)
EXTENDS Naturals

CONSTANTS
    MaxKeys,     \* keys the user ever enters are numbered up to this
    MaxSaves,    \* settings the user ever saves
    MaxFaults,   \* failing writes or reads
    MaxStarts    \* starts of the process

None == 0
LegacyKey == 1
Env == MaxKeys + 1
Targets == {"text", "vision"}
Refs == {"none", "managed"}

VARIABLES
    at,      \* where the start or the operation in progress is
    row,     \* the settings table's row
    file,    \* the managed key file of each endpoint
    env,     \* whether the provider's environment variable holds a key
    cfg,     \* the configuration in memory
    used,    \* the key the providers of each endpoint were built with
    next,    \* the configuration the operation is about to persist
    gone,    \* history: endpoints whose key was deleted and not entered again
    keys, saves, faults, starts

vars == <<at, row, file, env, cfg, used, next, gone, keys, saves, faults, starts>>

Config == [v : 0..MaxSaves, on : BOOLEAN, ref : [Targets -> Refs]]
\* The configuration file's AI part, used when the row cannot be.
Base == [v |-> 0, on |-> FALSE, ref |-> [t \in Targets |-> "none"]]

\* What EncodePersistedAIConfig writes: no key, nothing to rewrite.
Canonical(c) == [form |-> "v2", cfg |-> c, key |-> None, extra |-> FALSE]
NoRow == [form |-> "none", cfg |-> Base, key |-> None, extra |-> FALSE]

\* A row that is no JSON, lacks a field or has an illegal value is not used.
Readable(r) == r.form \in {"flat", "v2"}

\* DecodePersisted of a readable row: the old flat shape has no references and
\* is always rewritten, schema 2 only when a field of the old shape is left.
Decoded(r) == IF r.form = "flat" THEN [r.cfg EXCEPT !.ref = Base.ref] ELSE r.cfg
NeedsRewrite(r) == r.form = "flat" \/ r.extra

\* resolveKey, for providers.New: the environment comes before the file, and
\* nothing is built while AI is off.
Resolve(c, t) ==
    CASE ~c.on -> None
      [] c.on /\ env -> Env
      [] c.on /\ ~env -> IF c.ref[t] = "managed" THEN file[t] ELSE None

Built(c) == [t \in Targets |-> Resolve(c, t)]

\* applyLocked: memory, the classifier's and the review's providers.
Apply(c) == cfg' = c /\ used' = Built(c)

Fault == faults < MaxFaults /\ faults' = faults + 1

----------------------------------------------------------------------------
(* Start *)

\* The row cannot be used: the configuration file's values run, the row stays.
RunOnBase == next' = Base /\ at' = "boot" /\ UNCHANGED <<row, file>>

Load ==
    /\ at = "load"
    /\ \/ Fault /\ RunOnBase
       \/ ~Readable(row) /\ RunOnBase /\ UNCHANGED faults
       \/ /\ Readable(row)
          /\ next' = Decoded(row)
          /\ at' = CASE ~NeedsRewrite(row) -> "boot"
                     [] NeedsRewrite(row) /\ row.key # None -> "secret"
                     [] NeedsRewrite(row) /\ row.key = None -> "rewrite"
          /\ UNCHANGED <<row, file, faults>>
    /\ UNCHANGED <<env, cfg, used, gone, keys, saves, starts>>

\* Mutant: the old key replaces the one in the file.
AlwaysWritten == row.key
\* MigrateLegacySecret: a key already in the file wins.
KeptOrWritten == IF file["text"] # None THEN file["text"] ELSE row.key

Secret ==
    /\ at = "secret"
    /\ \/ /\ file' = [file EXCEPT !["text"] = KeptOrWritten]
          /\ next' = [next EXCEPT !.ref["text"] = "managed"]
          /\ at' = "rewrite" /\ UNCHANGED <<row, faults>>
       \/ Fault /\ RunOnBase
    /\ UNCHANGED <<env, cfg, used, gone, keys, saves, starts>>

Rewrite ==
    /\ at = "rewrite"
    /\ \/ row' = Canonical(next) /\ at' = "boot" /\ UNCHANGED <<file, next, faults>>
       \/ Fault /\ RunOnBase
    /\ UNCHANGED <<env, cfg, used, gone, keys, saves, starts>>

\* New
Boot ==
    /\ at = "boot" /\ at' = "idle" /\ Apply(next)
    /\ UNCHANGED <<row, file, env, next, gone, keys, saves, faults, starts>>

----------------------------------------------------------------------------
(* Operations: each holds the lock from its first step to Persist. *)

Save ==
    /\ at = "idle" /\ saves < MaxSaves
    /\ \E on \in BOOLEAN : next' = [cfg EXCEPT !.v = saves + 1, !.on = on]
    /\ saves' = saves + 1 /\ at' = "persist"
    /\ UNCHANGED <<row, file, env, cfg, used, gone, keys, faults, starts>>

\* The new key is in the file before the row refers to it.
PutSecret(t) ==
    /\ at = "idle" /\ keys < MaxKeys
    /\ keys' = keys + 1
    /\ gone' = gone \ {t}
    /\ file' = [file EXCEPT ![t] = keys + 1]
    /\ next' = [cfg EXCEPT !.ref[t] = "managed"]
    /\ at' = "persist"
    /\ UNCHANGED <<row, env, cfg, used, saves, faults, starts>>

\* The file is removed first, if it is the one referred to; that it could not
\* be is ignored.
DeleteSecret(t) ==
    /\ at = "idle"
    /\ \/ Fault /\ UNCHANGED file
       \/ /\ file' = [file EXCEPT ![t] = IF cfg.ref[t] = "managed" THEN None ELSE @]
          /\ UNCHANGED faults
    /\ next' = [cfg EXCEPT !.ref[t] = "none"]
    /\ at' = "persist"
    /\ UNCHANGED <<row, env, cfg, used, gone, keys, saves, starts>>

\* Mutant: an old version's key is carried over into the new row.
PersistedWithKey == row' = [Canonical(next) EXCEPT !.key = row.key, !.extra = row.key # None]
Persisted == row' = Canonical(next)

Deleted == {t \in Targets : cfg.ref[t] = "managed" /\ next.ref[t] = "none"}
\* persistLocked, then applyLocked; without the row nothing is applied.
Persist ==
    /\ at = "persist" /\ at' = "idle"
    /\ \/ /\ Persisted /\ Apply(next)
          /\ gone' = gone \cup Deleted /\ UNCHANGED faults
       \/ Fault /\ UNCHANGED <<row, cfg, used, gone>>
    /\ UNCHANGED <<file, env, next, keys, saves, starts>>

Crash ==
    /\ starts < MaxStarts /\ starts' = starts + 1
    /\ at' = "load" /\ cfg' = Base /\ next' = Base /\ used' = [t \in Targets |-> None]
    /\ UNCHANGED <<row, file, env, gone, keys, saves, faults>>

----------------------------------------------------------------------------
\* Rows of this version, of the one before (with its key and the references it
\* did not know), an unreadable one, and none.
Init ==
    /\ at = "load" /\ cfg = Base /\ next = Base /\ used = [t \in Targets |-> None]
    /\ file \in [Targets -> {None, 2}]
    /\ env \in BOOLEAN
    /\ row \in {NoRow, [NoRow EXCEPT !.form = "bad"]}
             \cup [form : {"flat"}, cfg : {[Base EXCEPT !.on = TRUE]},
                   key : {None, LegacyKey}, extra : {TRUE}]
             \cup [form : {"v2"}, key : {None, LegacyKey}, extra : BOOLEAN,
                   cfg : {[v |-> 0, on |-> TRUE, ref |-> [t \in Targets |-> r]] : r \in Refs}]
    /\ gone = {} /\ keys = 2 /\ saves = 0 /\ faults = 0 /\ starts = 1

Next ==
    \/ Load \/ Secret \/ Rewrite \/ Boot
    \/ Save \/ Persist
    \/ \E t \in Targets : PutSecret(t)
    \/ \E t \in Targets : DeleteSecret(t)
    \/ Crash

Spec == Init /\ [][Next]_vars

----------------------------------------------------------------------------
(* Properties *)

\* The types, whatever rows and key files older versions left.
TypeOK ==
    /\ at \in {"load", "secret", "rewrite", "boot", "idle", "persist"}
    /\ row \in [form : {"none", "bad", "flat", "v2"}, cfg : Config,
                key : {None, LegacyKey}, extra : BOOLEAN]
    /\ file \in [Targets -> 0..MaxKeys]
    /\ env \in BOOLEAN
    /\ cfg \in Config /\ next \in Config
    /\ used \in [Targets -> 0..Env]
    /\ gone \subseteq Targets
    /\ keys \in 0..MaxKeys /\ saves \in 0..MaxSaves
    /\ faults \in 0..MaxFaults /\ starts \in 0..MaxStarts

\* A migration cut short or failing at any step never loses the only copy of the
\* key: until the user changes something it is in the row or a key is in the file
\* (the recoverable order LoadAndMigratePersistedAI promises).
HasKey == row.key # None \/ file["text"] # None
KeyIsKept ==
    at \notin {"idle", "persist"} /\ HasKey
        => HasKey' /\ (file["text"] # None => file'["text"] = file["text"])
StartKeepsTheKey == [][KeyIsKept]_vars

\* A key whose deletion was confirmed is not used again, not after a failing
\* operation, a crash or a restart either, until the user enters one: removing
\* the file may have failed silently, but neither row nor memory refers to it
\* and no old version's key can be migrated again.
DeletedStaysDeleted ==
    \A t \in gone :
        /\ used[t] \in {None, Env}
        /\ row.form = "v2" /\ row.cfg.ref[t] = "none"
        /\ t = "text" => ~(row.key # None /\ NeedsRewrite(row))

===============================================================================
