------------------------------ MODULE ModelChain ------------------------------
(***************************************************************************)
(* How the classifier asks its models: Service.Classify, the chain of      *)
(* ModelFallbackProvider, the cooldown each OpenAICompatibleProvider keeps *)
(* for its model, and the scopes ai.ClassifyError gives to failures.       *)
(*                                                                         *)
(* The worker makes one call at a time; while a model is answering, the    *)
(* user may save other AI settings, and UpdateAI replaces the chain by a   *)
(* new one without the old one's cooldowns.  Window contents are model     *)
(* values; a chain is as long as its list of models and named by it.  The  *)
(* chains for text and for screenshots are built alike; this is one.       *)
(***************************************************************************)
EXTENDS Naturals, Sequences

CONSTANTS
    Windows,        \* window contents to classify that no local rule decides
    MaxModels,      \* the primary model and its fallback models
    MaxShift,       \* failures in a row after which a delay grows no longer
    AuthDelay,      \* cooldown after a rejected key
    RateDelay,      \* cooldown after a rate limit, or what Retry-After says
    CacheLife,      \* how long an answer is served from the cache
    MaxUpdates      \* AI settings saved

Models == 1..MaxModels

\* What an attempt may end in, by the scope of the failure: the model's own, of
\* the account, the provider or the transport.
ModelFailures == {"model_unavailable", "model_rate_limited", "invalid_output"}
OtherFailures == {"authentication", "account_rate_limited", "provider", "transport"}
Outcomes == {"answer", "unsure"} \cup ModelFailures \cup OtherFailures

VARIABLES
    len,      \* models in the configured chain, 0 without a provider
    cool,     \* time until a model may be asked again
    fails,    \* failures of a model in a row, and the last one
    call,     \* the classification being made
    cache,    \* window -> the chain that answered and for how long it serves
    result,   \* where the last classification came from
    updates

vars == <<len, cool, fails, call, cache, result, updates>>

\* tried: what the models of the chain said so far; old: the settings changed.
NoCall == [w |-> "none", len |-> 0, tried |-> <<>>, old |-> FALSE]
Calling == call.w # "none"
Uncached == [len |-> 0, left |-> 0]
NoFailure == [n |-> 0, last |-> "none"]
NotCooling == [i \in Models |-> 0]
NotFailed == [i \in Models |-> NoFailure]

----------------------------------------------------------------------------
(* One model *)

Min2(a, b) == IF a < b THEN a ELSE b

\* Mutant: the delay doubles for ever.
BackoffUncapped(n) == IF n > 1 THEN 2 ^ (n - 2) ELSE 1
\* recordFailure, in units of two seconds: 1, 1, 2, 4, 8, 8, ...
Backoff(n) == IF n > 1 THEN 2 ^ (Min2(n - 1, MaxShift) - 1) ELSE 1

\* The delay goes by the HTTP status, the scope of the failure first by the code
\* in the answer: with a status any delay may come with any scope.
Delays(o, n) ==
    IF o \in {"transport", "invalid_output"} THEN {Backoff(n)}
    ELSE {Backoff(n), AuthDelay, RateDelay}

\* recordFailure and recordSuccess, unless the model is of a replaced chain.
Recorded(i, o) ==
    IF call.old THEN UNCHANGED <<cool, fails>>
    ELSE IF o \in {"answer", "unsure"}
         THEN cool' = [cool EXCEPT ![i] = 0] /\ fails' = [fails EXCEPT ![i] = NoFailure]
         ELSE /\ fails' = [fails EXCEPT ![i] = [n |-> Min2(@.n + 1, MaxShift + 2), last |-> o]]
              /\ \E d \in Delays(o, fails[i].n + 1) : cool' = [cool EXCEPT ![i] = d]

----------------------------------------------------------------------------
(* One classification *)

\* Service.Classify: the cache first, then the providers as they are now.
Classify(w) ==
    /\ ~Calling
    /\ IF cache[w].left > 0 /\ cache[w].len = len
       THEN result' = "cache" /\ UNCHANGED call
       ELSE IF len = 0 THEN result' = "rules" /\ UNCHANGED call
       ELSE call' = [w |-> w, len |-> len, tried |-> <<>>, old |-> FALSE] /\ UNCHANGED result
    /\ UNCHANGED <<len, cool, fails, cache, updates>>

Asked == Len(call.tried) + 1
\* ShouldFallbackModel: a failure of the model's own, and only then.
FallsBack(o) == o \in ModelFailures

\* An answer ends the call, one of some confidence is cached for its window.
Answer(o) ==
    /\ call' = NoCall /\ result' = "ai"
    /\ cache' = IF o = "unsure" THEN cache
                ELSE [cache EXCEPT ![call.w] = [len |-> call.len, left |-> CacheLife]]
\* A failure ends it with the rules' result, or the next model is asked.
Fail(o) ==
    /\ IF FallsBack(o) /\ Asked < call.len
       THEN call' = [call EXCEPT !.tried = Append(@, o)] /\ UNCHANGED result
       ELSE call' = NoCall /\ result' = "rules"
    /\ UNCHANGED cache

\* A model asked and answering or failing; what a model of a replaced chain has
\* cooling down is no longer known.
Attempt ==
    /\ Calling /\ (call.old \/ cool[Asked] = 0)
    /\ \E o \in Outcomes :
         /\ Recorded(Asked, o)
         /\ IF o \in {"answer", "unsure"} THEN Answer(o) ELSE Fail(o)
    /\ UNCHANGED <<len, updates>>

\* A model that is cooling down refuses with an error of no kind, which
\* ClassifyError counts as the transport's.
Refused ==
    /\ Calling /\ (call.old \/ cool[Asked] > 0)
    /\ Fail("transport")
    /\ UNCHANGED <<len, cool, fails, updates>>

\* The call's context ends with the request in flight: no fallback, whatever the
\* failure.
Cancelled ==
    /\ Calling /\ (call.old \/ cool[Asked] = 0)
    /\ \E o \in ModelFailures \cup {"transport"} : Recorded(Asked, o)
    /\ call' = NoCall /\ result' = "rules"
    /\ UNCHANGED <<len, cache, updates>>

----------------------------------------------------------------------------
(* Settings and time *)

\* UpdateAI with a registry built anew, also for the same models.
UpdateAI(n) ==
    /\ updates < MaxUpdates /\ updates' = updates + 1
    /\ len' = n
    /\ cool' = NotCooling /\ fails' = NotFailed
    /\ call' = [call EXCEPT !.old = Calling]
    /\ UNCHANGED <<cache, result>>

Lower(n) == IF n > 0 THEN n - 1 ELSE 0
Tick ==
    /\ cool' = [i \in Models |-> Lower(cool[i])]
    /\ cache' = [w \in Windows |->
                   IF cache[w].left <= 1 THEN Uncached ELSE [cache[w] EXCEPT !.left = @ - 1]]
    /\ UNCHANGED <<len, fails, call, result, updates>>

Init ==
    /\ len \in 0..MaxModels
    /\ cool = NotCooling /\ fails = NotFailed
    /\ call = NoCall /\ cache = [w \in Windows |-> Uncached]
    /\ result = "none" /\ updates = 0

Next ==
    \/ \E w \in Windows : Classify(w)
    \/ Attempt \/ Refused \/ Cancelled
    \/ \E n \in 0..MaxModels : UpdateAI(n)
    \/ Tick

Spec == Init /\ [][Next]_vars

----------------------------------------------------------------------------
(* Properties *)

\* However often a model fails, it is asked again within the longest delay: the
\* shift is capped, a rejected key and a rate limit have their own.
Longest == IF AuthDelay > RateDelay THEN AuthDelay ELSE RateDelay
TypeOK ==
    /\ len \in 0..MaxModels
    /\ cool \in [Models -> Nat]
    /\ \A i \in Models : cool[i] <= Longest \/ cool[i] <= Backoff(MaxShift + 1)
    /\ fails \in [Models -> [n : 0..(MaxShift + 2), last : Outcomes \cup {"none"}]]
    /\ call.w \in Windows \cup {"none"} /\ call.len \in 0..MaxModels /\ Len(call.tried) <= call.len
    /\ \A w \in Windows : cache[w].left \in 0..CacheLife
    /\ result \in {"none", "rules", "cache", "ai"} /\ updates \in 0..MaxUpdates

\* "Each model of the live chain keeps a cooldown of its own; only when the whole
\* chain has failed are the local rules used" (docs/AI_PROVIDERS.md:72): a model
\* cooling down after a failure of its own does not keep a ready fallback model
\* from being asked.
RulesOnlyAfterChain ==
    [][Calling /\ ~call.old /\ ~Calling' /\ result' = "rules" /\ Asked < call.len
         => ~(/\ cool[Asked] > 0 /\ fails[Asked].last \in ModelFailures
              /\ UNCHANGED fails
              /\ cool[Asked + 1] = 0)]_vars

===============================================================================
