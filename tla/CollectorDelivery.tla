-------------------------- MODULE CollectorDelivery --------------------------
(***************************************************************************)
(* How a turn of a chat reaches the database: the content script that      *)
(* scans the page, the extension's worker with its serialised deliveries   *)
(* and its offline queue (browser/chatgpt-collector), and the supervisor's *)
(* handler with its transaction (api/collector.go, storage/chat.go).       *)
(*                                                                         *)
(* Each turn grows through the versions 1..MaxV of its text, the last one  *)
(* is final.  The browser may end the worker at any moment; each statement *)
(* of a request may fail, and its connection may break: the handler then   *)
(* goes on until its cancelled context stops it, one such lost request at  *)
(* a time, while the next request is already served.                       *)
(***************************************************************************)
EXTENDS Naturals, Sequences, SequencesExt

CONSTANTS
    MaxTurns,     \* turns of the conversation, numbered as they appear
    MaxV,         \* versions of a turn; the last is final
    MaxQueue,     \* payloads the offline queue holds
    MaxTroubles   \* statements that fail, broken connections, ends of the worker

Turns == 1..MaxTurns
Absent == [v |-> 0, final |-> FALSE]

VARIABLES
    page,      \* version of each turn on the page, 0 before it appears
    scanned,   \* lastSnapshot: what the last scan saw
    sent,      \* deliveredTurns: the version the script remembers as delivered
    frozen,    \* context a turn was first sent with
    chain,     \* DeliverySerializer: a delivery of each message being handled
    step,      \* where the first of them is
    served,    \* what the supervisor is doing with a request
    queue,     \* the offline queue, in chrome.storage
    table,     \* chat_turns and chat_messages: version and the sticky final flag
    counted,   \* history: evidence revisions a turn has moved
    cut,       \* history: turns whose revision was lost with a failing request
    unsure,    \* history: turns whose flag could not be read, or that two requests
               \* carried at once
    troubles

tables == <<table, counted, cut, unsure>>
dvars == <<page, scanned, sent, frozen, chain, step, served, queue, tables, troubles>>

Payload == [t : Turns, v : 1..MaxV]
Final(p) == p.v = MaxV
\* The request the worker awaits, and one that nobody awaits any more.  The
\* handler is about to read the old flag, to ingest or to move the revision, or
\* has answered; was is the flag it read.
Requests == {"awaited", "lost"}
Handling == {"read", "ingest", "bump"}
Served == [pc : {"none", "ok", "bad"} \cup Handling, t : 0..MaxTurns, v : 0..MaxV, was : BOOLEAN]
NoRequest == [pc |-> "none", t |-> 0, v |-> 0, was |-> FALSE]

Trouble == troubles < MaxTroubles /\ troubles' = troubles + 1

----------------------------------------------------------------------------
(* The page *)

\* One answer is written at a time.
Grow(t) ==
    /\ page[t] < MaxV /\ \A s \in 1..(t - 1) : page[s] = MaxV
    /\ page' = [page EXCEPT ![t] = @ + 1]
    /\ UNCHANGED <<scanned, sent, frozen, chain, step, served, queue, tables, troubles>>

\* The turns whose version is not the delivered one.
Candidates ==
    {[t |-> t, v |-> page[t]] : t \in {s \in Turns : page[s] > 0 /\ page[s] # sent[s]}}

\* scan and emitCandidates: the message's loop puts one delivery at a time into
\* the serializer's chain.
Scan ==
    /\ page # scanned /\ scanned' = page
    /\ chain' = IF Candidates = {} THEN chain
                ELSE Append(chain, [rest |-> Candidates, all |-> Candidates])
    /\ UNCHANGED <<page, sent, frozen, step, served, queue, tables, troubles>>

----------------------------------------------------------------------------
(* The worker *)

\* A message's candidates are delivered in the page's order.
Current == CHOOSE p \in Head(chain).rest : \A q \in Head(chain).rest : p.t <= q.t

\* buildTurnPayload: a new turn takes the context of the moment, or none that
\* can be trusted, and keeps it.
Build ==
    /\ chain # <<>> /\ step = "idle" /\ step' = "flush"
    /\ \E c \in {"review", "other"} :
         frozen' = IF frozen[Current.t] = "none" THEN [frozen EXCEPT ![Current.t] = c] ELSE frozen
    /\ UNCHANGED <<page, scanned, sent, chain, served, queue, tables, troubles>>

\* The current delivery is over: the message's next candidate goes to the end of
\* the chain; after its last one the script remembers them all.
Finished ==
    LET m == Head(chain)
    IN /\ step' = "idle"
       /\ IF m.rest # {Current}
          THEN chain' = Append(Tail(chain), [m EXCEPT !.rest = @ \ {Current}]) /\ UNCHANGED sent
          ELSE /\ chain' = Tail(chain)
               /\ sent' = [t \in Turns |->
                             IF \E p \in m.all : p.t = t
                             THEN (CHOOSE p \in m.all : p.t = t).v ELSE sent[t]]

\* flushQueuedPayloads posts the head of the queue, and posts the current payload
\* after the last of them.
Post(p) ==
    /\ served' = [served EXCEPT !["awaited"] =
                     [pc |-> "read", t |-> p.t, v |-> p.v, was |-> FALSE]]
    /\ unsure' = IF served["lost"].t = p.t THEN unsure \cup {p.t} ELSE unsure

FlushHead ==
    /\ step = "flush" /\ queue # <<>> /\ step' = "head"
    /\ Post(Head(queue))
    /\ UNCHANGED <<page, scanned, sent, frozen, chain, queue, table, counted, cut, troubles>>

PostCurrent ==
    /\ step = "flush" /\ queue = <<>> /\ step' = "current"
    /\ Post(Current)
    /\ UNCHANGED <<page, scanned, sent, frozen, chain, queue, table, counted, cut, troubles>>

\* What was accepted leaves the queue, or is delivered; when a request is refused,
\* the current payload is queued.
Answer ==
    /\ \/ served["awaited"].pc = "ok" /\ step = "head" /\ step' = "ack" /\ UNCHANGED <<chain, sent>>
       \/ served["awaited"].pc = "ok" /\ step = "current" /\ Finished
       \/ served["awaited"].pc = "bad" /\ step' = "enqueue" /\ UNCHANGED <<chain, sent>>
    /\ served' = [served EXCEPT !["awaited"] = NoRequest]
    /\ UNCHANGED <<page, scanned, frozen, queue, tables, troubles>>

AckHead ==
    /\ step = "ack" /\ step' = "flush"
    /\ queue' = Tail(queue)
    /\ UNCHANGED <<page, scanned, sent, frozen, chain, served, tables, troubles>>

\* A request ended by its context before the revision has moved.
Interrupted(r) == cut' = IF r.pc = "bump" THEN cut \cup {r.t} ELSE cut

\* The worker awaits nothing any more: the request goes on, or stops at once.
Abandoned ==
    \/ /\ served["awaited"].pc \in Handling /\ served["lost"] = NoRequest
       /\ served' = [awaited |-> NoRequest, lost |-> served["awaited"]] /\ UNCHANGED cut
    \/ /\ served' = [served EXCEPT !["awaited"] = NoRequest]
       /\ Interrupted(served["awaited"])

Disconnect ==
    /\ step \in {"head", "current"} /\ Trouble /\ step' = "enqueue"
    /\ Abandoned
    /\ UNCHANGED <<page, scanned, sent, frozen, chain, queue, table, counted, unsure>>

\* Over the limit a payload with a final answer goes first, else the oldest.
Limited(q) ==
    IF Len(q) <= MaxQueue THEN q
    ELSE IF \E i \in DOMAIN q : Final(q[i])
         THEN RemoveAt(q, SelectInSeq(q, Final)) ELSE Tail(q)

Enqueue ==
    /\ step = "enqueue"
    /\ queue' = Limited(Append(queue, Current))
    /\ Finished
    /\ UNCHANGED <<page, scanned, frozen, served, tables, troubles>>

\* The browser ends the worker: its messages are never answered.
KillWorker ==
    /\ chain # <<>> /\ Trouble
    /\ chain' = <<>> /\ step' = "idle"
    /\ Abandoned
    /\ UNCHANGED <<page, scanned, sent, frozen, queue, table, counted, unsure>>

----------------------------------------------------------------------------
(* The supervisor: ingestCollectorTurn on request s, statement by statement. *)

To(s, pc) == served' = [served EXCEPT ![s].pc = pc]
\* Nobody hears the answer to a lost request.
Reply(s, pc) == IF s = "awaited" THEN To(s, pc) ELSE served' = [served EXCEPT ![s] = NoRequest]

\* LoadChatTurn.  An error counts as a turn not yet final.
ReadFlag(s) ==
    /\ served[s].pc = "read"
    /\ \/ /\ served' = [served EXCEPT ![s].pc = "ingest", ![s].was = table[served[s].t].final]
          /\ UNCHANGED <<unsure, troubles>>
       \/ Trouble /\ To(s, "ingest") /\ unsure' = unsure \cup {served[s].t}
    /\ UNCHANGED <<table, counted, cut>>

\* Mutant: a final turn is counted each time it arrives.
EveryFinal(r) == Final(r) /\ frozen[r.t] = "review"
\* The revision is moved for a review turn that is final and was not.
CountsNow(r) == Final(r) /\ frozen[r.t] = "review" /\ ~r.was
Stored(r) == table' = [table EXCEPT ![r.t] = [v |-> r.v, final |-> @.final \/ Final(r)]]

\* The transaction, or nothing of it.  The last statement of a request that
\* counts nothing, MarkStaleIfChanged, may fail too.
Ingest(s) ==
    LET r == served[s] IN
    /\ r.pc = "ingest"
    /\ \/ CountsNow(r) /\ Stored(r) /\ To(s, "bump") /\ UNCHANGED troubles
       \/ ~CountsNow(r) /\ Stored(r) /\ Reply(s, "ok") /\ UNCHANGED troubles
       \/ ~CountsNow(r) /\ Stored(r) /\ Reply(s, "bad") /\ Trouble
       \/ Reply(s, "bad") /\ Trouble /\ UNCHANGED table
    /\ UNCHANGED <<counted, cut, unsure>>

\* BumpEvidenceRevision: it works and so does the rest, or only the rest fails, or
\* the revision stays.
Bump(s) ==
    LET t == served[s].t IN
    /\ served[s].pc = "bump"
    /\ \/ counted' = [counted EXCEPT ![t] = @ + 1] /\ Reply(s, "ok") /\ UNCHANGED <<cut, troubles>>
       \/ counted' = [counted EXCEPT ![t] = @ + 1] /\ Reply(s, "bad") /\ Trouble /\ UNCHANGED cut
       \/ cut' = cut \cup {t} /\ Reply(s, "bad") /\ Trouble /\ UNCHANGED counted
    /\ UNCHANGED <<table, unsure>>

\* The context of a lost request ends it.
Stop ==
    /\ served["lost"].pc # "none"
    /\ served' = [served EXCEPT !["lost"] = NoRequest]
    /\ Interrupted(served["lost"])
    /\ UNCHANGED <<table, counted, unsure, troubles>>

Handle ==
    /\ Stop \/ \E s \in Requests : ReadFlag(s) \/ Ingest(s) \/ Bump(s)
    /\ UNCHANGED <<page, scanned, sent, frozen, chain, step, queue>>

DInit ==
    /\ page = [t \in Turns |-> 0] /\ scanned = page /\ sent = page
    /\ frozen = [t \in Turns |-> "none"]
    /\ chain = <<>> /\ step = "idle" /\ queue = <<>>
    /\ served = [s \in Requests |-> NoRequest]
    /\ table = [t \in Turns |-> Absent]
    /\ counted = page /\ cut = {} /\ unsure = {} /\ troubles = 0

DNext ==
    \/ \E t \in Turns : Grow(t)
    \/ Scan \/ Build \/ FlushHead \/ PostCurrent \/ Answer \/ AckHead \/ Enqueue
    \/ Disconnect \/ KillWorker \/ Handle

DSpec == DInit /\ [][DNext]_dvars

----------------------------------------------------------------------------
(* Properties *)

TypeOK ==
    /\ page \in [Turns -> 0..MaxV] /\ scanned \in [Turns -> 0..MaxV] /\ sent \in [Turns -> 0..MaxV]
    /\ frozen \in [Turns -> {"none", "review", "other"}]
    /\ \A i \in DOMAIN chain : chain[i].rest \subseteq Payload /\ chain[i].rest # {}
    /\ step \in {"idle", "flush", "head", "current", "ack", "enqueue"}
    /\ step # "idle" => chain # <<>>
    /\ served \in [Requests -> Served]
    /\ \A s \in Requests : served[s].t = 0 <=> served[s].pc = "none"
    /\ step \in {"head", "current"} <=> served["awaited"].pc # "none"
    /\ queue \in Seq(Payload) /\ Len(queue) <= MaxQueue
    /\ table \in [Turns -> [v : 0..MaxV, final : BOOLEAN]]
    /\ counted \in [Turns -> Nat] /\ cut \subseteq Turns /\ unsure \subseteq Turns
    /\ troubles \in 0..MaxTroubles

\* A turn that is delivered more than once, after a lost answer, a full queue or
\* the worker's end, moves the evidence revision once, unless its old flag could
\* not be read or two requests carried it at once; and a stored final turn for the
\* review has moved it, or is about to, unless its request ended exactly there.
CountedOnce ==
    \A t \in Turns :
        /\ t \notin unsure => counted[t] <= 1
        /\ /\ table[t].final /\ frozen[t] = "review" /\ t \notin cut
           /\ \A s \in Requests : served[s].pc = "bump" => served[s].t # t
           => counted[t] >= 1

\* "A slow H and a fast He: no new snapshot may overtake"
\* (docs/DAILY_REVIEW_FIX_PACK_v1_2_2.md:24): with one global chain for all
\* deliveries, what the database holds of a turn is never replaced by an older
\* version.
NeverOvertaken == [][\A t \in Turns : table'[t].v >= table[t].v]_dvars

===============================================================================
