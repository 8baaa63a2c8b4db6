------------------------ MODULE SessionLedgerProofs ------------------------
(***************************************************************************)
(* Theorems of SessionLedger, for every value of its constants.  What an   *)
(* operation still has to store is a queue of calls; the proofs rest on    *)
(* what every suffix of such a queue does to the table: Opens and Closes   *)
(* say which sessions a call opens and closes, Leads what the queue of an  *)
(* operation does as a whole.                                              *)
(***************************************************************************)
EXTENDS SessionLedger, SequenceTheorems, SumTheorems

Call ==
    {Save(c) : c \in Session} \cup {SaveEnded(c, why) : c \in Session, why \in Ends}
      \cup {Bump(d) : d \in Dates} \cup {UpdateDaily(d, s) : d \in Dates, s \in Nat}
      \cup {CloseOpenSessions}
      \cup {Transition(c, why, n, b) : c \in Session, why \in Ends, n \in Session, b \in BOOLEAN}

\* The sessions a call opens, and the ids of those it closes.
Opens(w) ==
    CASE w.call = "save" -> {w.row.ses} [] w.call = "move" -> {w.to} [] OTHER -> {}
Closes(w) ==
    CASE w.call \in {"end", "move"} -> {w.row.ses.id}
      [] w.call = "recover" -> Ids [] OTHER -> {}

TypesInv == TypeOK /\ todo \in Seq(Call) /\ (life = "down" => todo = <<>>)

\* The constants.
LEMMA Bounds ==
    /\ MaxSess \in Nat /\ MaxSess > 1 /\ MaxSecs \in Nat /\ MaxDay \in Nat
    /\ LateTicks \in BOOLEAN /\ LateCalls \in BOOLEAN
  BY SessAssumption, BoundsAssumption, FlagsAssumption

(***************************************************************************)
(* Calls and queues of calls.                                              *)
(***************************************************************************)
LEMMA SaveFacts ==
    ASSUME NEW c
    PROVE  /\ Save(c).call = "save" /\ Save(c).row = [ses |-> c, end |-> "OPEN"]
           /\ Opens(Save(c)) = {c} /\ Closes(Save(c)) = {}
  BY DEF Save, Opens, Closes

LEMMA EndFacts ==
    ASSUME NEW c, NEW why
    PROVE  /\ SaveEnded(c, why).call = "end"
           /\ SaveEnded(c, why).row.ses = c /\ SaveEnded(c, why).row.end = why
           /\ Opens(SaveEnded(c, why)) = {} /\ Closes(SaveEnded(c, why)) = {c.id}
  BY DEF SaveEnded, Opens, Closes

LEMMA BumpFacts ==
    ASSUME NEW d
    PROVE  /\ Bump(d).call = "bump" /\ Bump(d).date = d
           /\ Opens(Bump(d)) = {} /\ Closes(Bump(d)) = {}
  BY DEF Bump, Opens, Closes

LEMMA DailyFacts ==
    ASSUME NEW d, NEW s
    PROVE  /\ UpdateDaily(d, s).call = "daily"
           /\ UpdateDaily(d, s).date = d /\ UpdateDaily(d, s).secs = s
           /\ Opens(UpdateDaily(d, s)) = {} /\ Closes(UpdateDaily(d, s)) = {}
  BY DEF UpdateDaily, Opens, Closes

LEMMA RecoverFacts ==
    /\ CloseOpenSessions.call = "recover"
    /\ Opens(CloseOpenSessions) = {} /\ Closes(CloseOpenSessions) = Ids
  BY DEF CloseOpenSessions, Opens, Closes

LEMMA MoveFacts ==
    ASSUME NEW c, NEW why, NEW n, NEW b
    PROVE  /\ Transition(c, why, n, b).call = "move"
           /\ Transition(c, why, n, b).row.ses = c /\ Transition(c, why, n, b).row.end = why
           /\ Transition(c, why, n, b).to = n /\ Transition(c, why, n, b).bump = b
           /\ Opens(Transition(c, why, n, b)) = {n}
           /\ Closes(Transition(c, why, n, b)) = {c.id}
  BY DEF Transition, Opens, Closes

\* What is in a call of each kind.
LEMMA CallCases ==
    ASSUME NEW w \in Call
    PROVE  \/ \E c \in Session : w = Save(c)
           \/ \E c \in Session, why \in Ends : w = SaveEnded(c, why)
           \/ \E d \in Dates : w = Bump(d)
           \/ \E d \in Dates, s \in Nat : w = UpdateDaily(d, s)
           \/ w = CloseOpenSessions
           \/ \E c \in Session, why \in Ends, n \in Session, b \in BOOLEAN :
                w = Transition(c, why, n, b)
  BY DEF Call

LEMMA CallParts ==
    ASSUME NEW w \in Call
    PROVE  /\ w.call \in {"save", "end", "bump", "daily", "recover", "move"}
           /\ w.call = "save" => w.row.ses \in Session /\ w.row.end = "OPEN" /\ w.row \in Row
           /\ w.call = "end" => w.row.ses \in Session /\ w.row.end \in Ends /\ w.row \in Row
           /\ w.call = "bump" => w.date \in Dates
           /\ w.call = "daily" => w.date \in Dates /\ w.secs \in Nat
           /\ w.call = "move" => /\ w.row.ses \in Session /\ w.row.end \in Ends
                                 /\ w.row \in Row /\ w.to \in Session /\ w.bump \in BOOLEAN
<1>1. \A c \in Session, e \in Ends \cup {"OPEN"} : [ses |-> c, end |-> e] \in Row
  BY DEF Row
<1>2. CASE \E c \in Session : w = Save(c)
  BY <1>1, <1>2 DEF Save
<1>3. CASE \E c \in Session, why \in Ends : w = SaveEnded(c, why)
  BY <1>1, <1>3 DEF SaveEnded
<1>4. CASE \E d \in Dates : w = Bump(d)
  BY <1>4 DEF Bump
<1>5. CASE \E d \in Dates, s \in Nat : w = UpdateDaily(d, s)
  BY <1>5 DEF UpdateDaily
<1>6. CASE w = CloseOpenSessions
  BY <1>6 DEF CloseOpenSessions
<1>7. CASE \E c \in Session, why \in Ends, n \in Session, b \in BOOLEAN :
             w = Transition(c, why, n, b)
  BY <1>1, <1>7 DEF Transition
<1> QED
  BY <1>2, <1>3, <1>4, <1>5, <1>6, <1>7, CallCases

\* Every call made of well-typed parts is a call.
LEMMA CallTypes ==
    /\ \A c \in Session : Save(c) \in Call
    /\ \A c \in Session, why \in Ends : SaveEnded(c, why) \in Call
    /\ \A d \in Dates : Bump(d) \in Call
    /\ \A d \in Dates, s \in Nat : UpdateDaily(d, s) \in Call
    /\ CloseOpenSessions \in Call
    /\ \A c \in Session, why \in Ends, n \in Session, b \in BOOLEAN :
         Transition(c, why, n, b) \in Call
  BY DEF Call

LEMMA NewSession ==
    ASSUME NEW id \in Ids, NEW m \in Modes, NEW o \in Origins, NEW d \in Dates
    PROVE  /\ New(id, m, o, d) \in Session
           /\ New(id, m, o, d).id = id /\ New(id, m, o, d).mode = m
           /\ New(id, m, o, d).origin = o /\ New(id, m, o, d).date = d
           /\ New(id, m, o, d).secs = 0
  BY Bounds DEF New, Session

\* What closes a session, one call after the other.
LEMMA ClosingQueue ==
    ASSUME NEW c \in Session, NEW why \in Ends
    PROVE  /\ Closing(c, why) \in Seq(Call)
           /\ Closing(c, why)[1] = SaveEnded(c, why)
           /\ c.mode = "STUDY" => /\ Len(Closing(c, why)) = 2
                                  /\ Closing(c, why)[2] = Bump(c.date)
           /\ c.mode # "STUDY" => Len(Closing(c, why)) = 1
<1>1. c.date \in Dates /\ SaveEnded(c, why) \in Call /\ Bump(c.date) \in Call
  BY DEF Session, Call
<1>2. <<SaveEnded(c, why)>> \in Seq(Call) /\ <<Bump(c.date)>> \in Seq(Call) /\ <<>> \in Seq(Call)
  BY <1>1
<1>3. CASE c.mode = "STUDY"
  <2>1. Closing(c, why) = <<SaveEnded(c, why)>> \o <<Bump(c.date)>>
    BY <1>3 DEF Closing
  <2>2. /\ Closing(c, why) \in Seq(Call) /\ Len(Closing(c, why)) = 2
        /\ \A i \in 1 .. 2 : Closing(c, why)[i] =
             IF i <= 1 THEN <<SaveEnded(c, why)>>[i] ELSE <<Bump(c.date)>>[i - 1]
    BY <1>2, <2>1, ConcatProperties
  <2> QED
    BY <1>3, <2>2
<1>4. CASE c.mode # "STUDY"
  <2>1. Closing(c, why) = <<SaveEnded(c, why)>> \o <<>>
    BY <1>4 DEF Closing
  <2>2. Closing(c, why) = <<SaveEnded(c, why)>>
    BY <1>2, <2>1, ConcatEmptySeq
  <2> QED
    BY <1>2, <1>4, <2>2
<1> QED
  BY <1>3, <1>4

LEMMA LastOf ==
    ASSUME NEW q \in Seq(Call), NEW w \in Call
    PROVE  /\ q \o <<w>> \in Seq(Call) /\ Len(q \o <<w>>) = Len(q) + 1
           /\ (q \o <<w>>)[Len(q) + 1] = w
           /\ \A k \in 1 .. Len(q) : (q \o <<w>>)[k] = q[k]
<1>1. <<w>> \in Seq(Call) /\ Len(<<w>>) = 1 /\ <<w>>[1] = w /\ Len(q) \in Nat
  OBVIOUS
<1> QED
  BY <1>1, ConcatProperties

(***************************************************************************)
(* The queues of the operations.  A queue that leads from session x to     *)
(* session n closes x, unless n is x with more time, opens n and in the    *)
(* end nothing else; d and s are what it may store as the day's total.     *)
(***************************************************************************)
Same(a, b) == a.mode = b.mode /\ a.origin = b.origin /\ a.date = b.date

ClosedIn(q, i) == \E k \in 1 .. Len(q) : i \in Closes(q[k])
OpenedIn(q, i) == \E k \in 1 .. Len(q) : \E c \in Opens(q[k]) : c.id = i
ClosedAfter(q, k, i) == \E m \in 1 .. Len(q) : m > k /\ i \in Closes(q[m])
MovesLast(q) == \A k \in 1 .. Len(q) : q[k].call = "move" => k = Len(q)

\* The end of a study session is followed by its announcement.
Announced(q) ==
    \A k \in 1 .. Len(q) : q[k].call = "end" /\ q[k].row.ses.mode = "STUDY"
      => k < Len(q) /\ q[k + 1] = Bump(q[k].row.ses.date)

Leads(q, x, n, d, s) ==
    /\ q \in Seq(Call) /\ x.id <= n.id
    /\ x.id = n.id => Same(x, n)
    /\ x.id # n.id => ClosedIn(q, x.id) /\ OpenedIn(q, n.id)
    /\ \A k \in 1 .. Len(q) : \A i \in Closes(q[k]) : i < n.id
    /\ \A k \in 1 .. Len(q) : \A c \in Opens(q[k]) :
         /\ x.id <= c.id /\ c.id <= n.id
         /\ c.id = n.id => Same(c, n)
         /\ c.id # n.id => ClosedAfter(q, k, c.id)
    /\ \A k \in 1 .. Len(q) : q[k].call = "end" => q[k].row.end # "SHUTDOWN"
    /\ Announced(q)
    /\ MovesLast(q)
    /\ \A k \in 1 .. Len(q) : q[k].call = "daily" => q[k].date = d /\ q[k].secs = s

LEMMA SessionIds ==
    ASSUME NEW c \in Session
    PROVE  c.id \in Nat /\ c.id \in Ids /\ c.secs \in Nat /\ c.date \in Dates
  BY Bounds DEF Session, Ids

LEMMA LeadsNothing ==
    ASSUME NEW x \in Session, NEW d, NEW s
    PROVE  Leads(<<>>, x, x, d, s)
<1>1. <<>> \in Seq(Call) /\ Len(<<>>) = 0
  OBVIOUS
<1>2. \A k \in 1 .. 0 : FALSE
  OBVIOUS
<1> QED
  BY <1>1, <1>2, SessionIds DEF Leads, Same, Announced, MovesLast

\* Close x, save n.
LEMMA LeadsSwitch ==
    ASSUME NEW x \in Session, NEW n \in Session, NEW why \in Ends, why # "SHUTDOWN",
           x.id < n.id, NEW d, NEW s
    PROVE  Leads(Closing(x, why) \o <<Save(n)>>, x, n, d, s)
<1> DEFINE q == Closing(x, why) \o <<Save(n)>>
<1>1. Save(n) \in Call /\ Closing(x, why) \in Seq(Call) /\ x.id \in Nat /\ n.id \in Nat
  BY ClosingQueue, SessionIds DEF Call
<1>2. CASE x.mode = "STUDY"
  <2>1. /\ q \in Seq(Call) /\ Len(q) = 3
        /\ q[1] = SaveEnded(x, why) /\ q[2] = Bump(x.date) /\ q[3] = Save(n)
    BY <1>1, <1>2, ClosingQueue, LastOf
  <2> HIDE DEF q
  <2>2. /\ q[1].call = "end" /\ q[1].row.ses = x /\ q[1].row.end = why
        /\ Opens(q[1]) = {} /\ Closes(q[1]) = {x.id}
    BY <2>1, EndFacts
  <2>3. q[2].call = "bump" /\ Opens(q[2]) = {} /\ Closes(q[2]) = {}
    BY <2>1, BumpFacts
  <2>4. q[3].call = "save" /\ Opens(q[3]) = {n} /\ Closes(q[3]) = {}
    BY <2>1, SaveFacts
  <2>5. \A k \in 1 .. Len(q) : k = 1 \/ k = 2 \/ k = 3
    BY <2>1
  <2>6. Announced(q)
    BY <2>1, <2>2, <2>3, <2>4, <2>5 DEF Announced
  <2>7. ClosedIn(q, x.id) /\ OpenedIn(q, n.id)
    BY <2>1, <2>2, <2>4 DEF ClosedIn, OpenedIn
  <2>8. \A k \in 1 .. Len(q) : \A i \in Closes(q[k]) : i < n.id
    BY <2>2, <2>3, <2>4, <2>5
  <2>9. \A k \in 1 .. Len(q) : \A c \in Opens(q[k]) : c = n
    BY <2>2, <2>3, <2>4, <2>5
  <2>10. MovesLast(q)
    BY <2>2, <2>3, <2>4, <2>5 DEF MovesLast
  <2>11. \A k \in 1 .. Len(q) : /\ q[k].call = "end" => q[k].row.end # "SHUTDOWN"
                                /\ q[k].call # "daily"
    BY <2>2, <2>3, <2>4, <2>5
  <2>12. Leads(q, x, n, d, s)
    BY <1>1, <2>1, <2>6, <2>7, <2>8, <2>9, <2>10, <2>11 DEF Leads, Same
  <2> QED
    BY <2>12 DEF q
<1>3. CASE x.mode # "STUDY"
  <2>1. /\ q \in Seq(Call) /\ Len(q) = 2
        /\ q[1] = SaveEnded(x, why) /\ q[2] = Save(n)
    BY <1>1, <1>3, ClosingQueue, LastOf
  <2> HIDE DEF q
  <2>2. /\ q[1].call = "end" /\ q[1].row.ses = x /\ q[1].row.end = why
        /\ Opens(q[1]) = {} /\ Closes(q[1]) = {x.id}
    BY <2>1, EndFacts
  <2>3. q[2].call = "save" /\ Opens(q[2]) = {n} /\ Closes(q[2]) = {}
    BY <2>1, SaveFacts
  <2>4. \A k \in 1 .. Len(q) : k = 1 \/ k = 2
    BY <2>1
  <2>5. Announced(q)
    BY <1>3, <2>1, <2>2, <2>3, <2>4 DEF Announced
  <2>6. ClosedIn(q, x.id) /\ OpenedIn(q, n.id)
    BY <2>1, <2>2, <2>3 DEF ClosedIn, OpenedIn
  <2>7. \A k \in 1 .. Len(q) : \A i \in Closes(q[k]) : i < n.id
    BY <2>2, <2>3, <2>4
  <2>8. \A k \in 1 .. Len(q) : \A c \in Opens(q[k]) : c = n
    BY <2>2, <2>3, <2>4
  <2>9. MovesLast(q)
    BY <2>2, <2>3, <2>4 DEF MovesLast
  <2>10. \A k \in 1 .. Len(q) : /\ q[k].call = "end" => q[k].row.end # "SHUTDOWN"
                                /\ q[k].call # "daily"
    BY <2>2, <2>3, <2>4
  <2>11. Leads(q, x, n, d, s)
    BY <1>1, <2>1, <2>5, <2>6, <2>7, <2>8, <2>9, <2>10 DEF Leads, Same
  <2> QED
    BY <2>11 DEF q
<1> QED
  BY <1>2, <1>3

\* One transaction that closes x and opens n.
LEMMA LeadsMove ==
    ASSUME NEW x \in Session, NEW n \in Session, NEW why \in Ends, NEW b \in BOOLEAN,
           x.id < n.id, NEW d, NEW s
    PROVE  Leads(<<Transition(x, why, n, b)>>, x, n, d, s)
<1> DEFINE q == <<Transition(x, why, n, b)>>
<1>1. x.id \in Nat /\ n.id \in Nat /\ Transition(x, why, n, b) \in Call
  BY SessionIds DEF Call
<1>2. q \in Seq(Call) /\ Len(q) = 1 /\ q[1] = Transition(x, why, n, b)
  BY <1>1
<1> HIDE DEF q
<1>3. q[1].call = "move" /\ Opens(q[1]) = {n} /\ Closes(q[1]) = {x.id}
  BY <1>2, MoveFacts
<1>4. \A k \in 1 .. Len(q) : k = 1
  BY <1>2
<1>5. Announced(q) /\ MovesLast(q) /\ ClosedIn(q, x.id) /\ OpenedIn(q, n.id)
  BY <1>2, <1>3, <1>4 DEF Announced, MovesLast, ClosedIn, OpenedIn
<1>6. Leads(q, x, n, d, s)
  BY <1>1, <1>2, <1>3, <1>4, <1>5 DEF Leads, Same
<1> QED
  BY <1>6 DEF q

\* The total of the day and the same session with more time.
LEMMA LeadsTick ==
    ASSUME NEW x \in Session, NEW c \in Session, c.id = x.id, Same(x, c),
           NEW d \in Dates, NEW s \in Nat
    PROVE  Leads(<<UpdateDaily(d, s), Save(c)>>, x, c, d, s)
<1> DEFINE q == <<UpdateDaily(d, s), Save(c)>>
<1>1. x.id \in Nat /\ UpdateDaily(d, s) \in Call /\ Save(c) \in Call
  BY SessionIds DEF Call
<1>2. q \in Seq(Call) /\ Len(q) = 2 /\ q[1] = UpdateDaily(d, s) /\ q[2] = Save(c)
  BY <1>1
<1> HIDE DEF q
<1>3. /\ q[1].call = "daily" /\ q[1].date = d /\ q[1].secs = s
      /\ Opens(q[1]) = {} /\ Closes(q[1]) = {}
  BY <1>2, DailyFacts
<1>4. q[2].call = "save" /\ Opens(q[2]) = {c} /\ Closes(q[2]) = {}
  BY <1>2, SaveFacts
<1>5. \A k \in 1 .. Len(q) : k = 1 \/ k = 2
  BY <1>2
<1>6. Announced(q) /\ MovesLast(q)
  BY <1>2, <1>3, <1>4, <1>5 DEF Announced, MovesLast
<1>7. \A k \in 1 .. Len(q) : q[k].call # "end" /\ Closes(q[k]) = {} /\ Opens(q[k]) \subseteq {c}
  BY <1>2, <1>3, <1>4, <1>5
<1>8. \A k \in 1 .. Len(q) : q[k].call = "daily" => q[k].date = d /\ q[k].secs = s
  BY <1>2, <1>3, <1>4, <1>5
<1>9. Leads(q, x, c, d, s)
  BY <1>1, <1>2, <1>6, <1>7, <1>8 DEF Leads, Same
<1> QED
  BY <1>9 DEF q

\* One queue after the other.
LEMMA LeadsOn ==
    ASSUME NEW x \in Session, NEW y \in Session, NEW n \in Session, NEW d, NEW s,
           NEW q, NEW r, Leads(q, x, y, d, s), Leads(r, y, n, d, s),
           \A k \in 1 .. Len(q) : q[k].call # "move"
    PROVE  Leads(q \o r, x, n, d, s)
<1> DEFINE t == q \o r
<1>1. q \in Seq(Call) /\ r \in Seq(Call) /\ Len(q) \in Nat /\ Len(r) \in Nat
  BY DEF Leads
<1>2. x.id \in Nat /\ y.id \in Nat /\ n.id \in Nat
  BY SessionIds
<1>3. /\ t \in Seq(Call) /\ Len(t) = Len(q) + Len(r)
      /\ \A k \in 1 .. Len(t) : t[k] = IF k <= Len(q) THEN q[k] ELSE r[k - Len(q)]
  BY <1>1, ConcatProperties
<1> HIDE DEF t
<1>4. \A k \in 1 .. Len(q) : k \in 1 .. Len(t) /\ t[k] = q[k]
  BY <1>1, <1>3
<1>5. \A k \in 1 .. Len(r) : Len(q) + k \in 1 .. Len(t) /\ t[Len(q) + k] = r[k]
  BY <1>1, <1>3, SMTT(40)
<1>6. \A k \in 1 .. Len(t) : \/ k \in 1 .. Len(q)
                             \/ \E j \in 1 .. Len(r) : k = Len(q) + j
  <2> SUFFICES ASSUME NEW k \in 1 .. Len(t), k > Len(q)
               PROVE  \E j \in 1 .. Len(r) : k = Len(q) + j
    BY <1>1, <1>3
  <2>1. k - Len(q) \in 1 .. Len(r) /\ k = Len(q) + (k - Len(q))
    BY <1>1, <1>3
  <2> QED
    BY <2>1
<1>7. /\ x.id <= y.id /\ (x.id = y.id => Same(x, y))
      /\ (x.id # y.id => ClosedIn(q, x.id) /\ OpenedIn(q, y.id))
      /\ y.id <= n.id /\ (y.id = n.id => Same(y, n))
      /\ (y.id # n.id => ClosedIn(r, y.id) /\ OpenedIn(r, n.id))
  BY DEF Leads
<1>8. x.id <= n.id /\ (x.id = n.id => Same(x, n))
  BY <1>2, <1>7 DEF Same
<1>9. \A i : ClosedIn(q, i) \/ ClosedIn(r, i) => ClosedIn(t, i)
  BY <1>4, <1>5 DEF ClosedIn
<1>10. \A i : OpenedIn(q, i) \/ OpenedIn(r, i) => OpenedIn(t, i)
  BY <1>4, <1>5 DEF OpenedIn
<1>11. x.id # n.id => ClosedIn(t, x.id) /\ OpenedIn(t, n.id)
  BY <1>7, <1>9, <1>10
<1>12. \A k \in 1 .. Len(t) : \A i \in Closes(t[k]) : i < n.id
  <2>1. \A k \in 1 .. Len(q) : \A i \in Closes(t[k]) : i < n.id
    <3> SUFFICES ASSUME NEW k \in 1 .. Len(q), NEW i \in Closes(t[k]) PROVE i < n.id
      OBVIOUS
    <3>1. t[k] \in Call /\ t[k] = q[k]
      BY <1>3, <1>4
    <3>2. i \in Nat
      BY <3>1, CallParts, Bounds, SessionIds DEF Closes, Ids
    <3>3. i < y.id
      BY <3>1 DEF Leads
    <3> QED
      BY <1>2, <1>7, <3>2, <3>3
  <2>2. \A k \in 1 .. Len(r) : \A i \in Closes(t[Len(q) + k]) : i < n.id
    BY <1>5 DEF Leads
  <2> QED
    BY <1>6, <2>1, <2>2
<1>13. \A k \in 1 .. Len(t) : \A c \in Opens(t[k]) :
         /\ x.id <= c.id /\ c.id <= n.id
         /\ c.id = n.id => Same(c, n)
         /\ c.id # n.id => ClosedAfter(t, k, c.id)
  <2>1. ASSUME NEW k \in 1 .. Len(q), NEW c \in Opens(t[k])
        PROVE  /\ x.id <= c.id /\ c.id <= n.id
               /\ c.id = n.id => Same(c, n)
               /\ c.id # n.id => ClosedAfter(t, k, c.id)
    <3>1. t[k] \in Call /\ t[k] = q[k]
      BY <1>3, <1>4
    <3>2. c \in Session /\ c.id \in Nat
      BY <3>1, CallParts, SessionIds DEF Opens
    <3>3. /\ x.id <= c.id /\ c.id <= y.id
          /\ (c.id = y.id => Same(c, y))
          /\ (c.id # y.id => ClosedAfter(q, k, c.id))
      BY <3>1 DEF Leads
    <3>4. c.id # y.id => ClosedAfter(t, k, c.id)
      BY <1>4, <3>3 DEF ClosedAfter
    <3>5. c.id = y.id /\ y.id # n.id => ClosedAfter(t, k, c.id)
      <4> SUFFICES ASSUME c.id = y.id, y.id # n.id PROVE ClosedAfter(t, k, c.id)
        OBVIOUS
      <4>1. PICK m \in 1 .. Len(r) : y.id \in Closes(r[m])
        BY <1>7 DEF ClosedIn
      <4>2. Len(q) + m > k
        BY <1>1
      <4> QED
        BY <1>5, <4>1, <4>2 DEF ClosedAfter
    <3>6. c.id = n.id => Same(c, n)
      BY <1>2, <1>7, <3>2, <3>3 DEF Same
    <3> QED
      BY <1>2, <1>7, <3>2, <3>3, <3>4, <3>5, <3>6
  <2>2. ASSUME NEW j \in 1 .. Len(r), NEW c \in Opens(t[Len(q) + j])
        PROVE  /\ x.id <= c.id /\ c.id <= n.id
               /\ c.id = n.id => Same(c, n)
               /\ c.id # n.id => ClosedAfter(t, Len(q) + j, c.id)
    <3>1. r[j] \in Call /\ t[Len(q) + j] = r[j]
      BY <1>1, <1>5
    <3>2. c \in Session /\ c.id \in Nat
      BY <3>1, CallParts, SessionIds DEF Opens
    <3>3. /\ y.id <= c.id /\ c.id <= n.id
          /\ (c.id = n.id => Same(c, n))
          /\ (c.id # n.id => ClosedAfter(r, j, c.id))
      BY <3>1 DEF Leads
    <3>4. c.id # n.id => ClosedAfter(t, Len(q) + j, c.id)
      <4> SUFFICES ASSUME c.id # n.id PROVE ClosedAfter(t, Len(q) + j, c.id)
        OBVIOUS
      <4>1. PICK m \in 1 .. Len(r) : m > j /\ c.id \in Closes(r[m])
        BY <3>3 DEF ClosedAfter
      <4>2. Len(q) + m > Len(q) + j
        BY <1>1, <4>1
      <4> QED
        BY <1>5, <4>1, <4>2 DEF ClosedAfter
    <3> QED
      BY <1>2, <1>7, <3>2, <3>3, <3>4
  <2> QED
    BY <1>6, <2>1, <2>2
<1>14. \A k \in 1 .. Len(t) : t[k].call = "end" => t[k].row.end # "SHUTDOWN"
  <2>1. \A k \in 1 .. Len(q) : t[k].call = "end" => t[k].row.end # "SHUTDOWN"
    BY <1>4 DEF Leads
  <2>2. \A k \in 1 .. Len(r) : t[Len(q) + k].call = "end" => t[Len(q) + k].row.end # "SHUTDOWN"
    BY <1>5 DEF Leads
  <2> QED
    BY <1>6, <2>1, <2>2
<1>15. Announced(t)
  <2>1. ASSUME NEW k \in 1 .. Len(q), t[k].call = "end", t[k].row.ses.mode = "STUDY"
        PROVE  k < Len(t) /\ t[k + 1] = Bump(t[k].row.ses.date)
    <3>1. k < Len(q) /\ q[k + 1] = Bump(q[k].row.ses.date)
      BY <1>4, <2>1 DEF Leads, Announced
    <3>2. k + 1 \in 1 .. Len(q)
      BY <1>1, <3>1
    <3> QED
      BY <1>1, <1>3, <1>4, <3>1, <3>2
  <2>2. ASSUME NEW k \in 1 .. Len(r), t[Len(q) + k].call = "end",
               t[Len(q) + k].row.ses.mode = "STUDY"
        PROVE  /\ Len(q) + k < Len(t)
               /\ t[Len(q) + k + 1] = Bump(t[Len(q) + k].row.ses.date)
    <3>1. k < Len(r) /\ r[k + 1] = Bump(r[k].row.ses.date)
      BY <1>5, <2>2 DEF Leads, Announced
    <3>2. k + 1 \in 1 .. Len(r) /\ Len(q) + (k + 1) = Len(q) + k + 1
      BY <1>1, <3>1
    <3> QED
      BY <1>1, <1>3, <1>5, <3>1, <3>2
  <2> QED
    BY <1>6, <2>1, <2>2 DEF Announced
<1>16. MovesLast(t)
  <2>1. \A k \in 1 .. Len(q) : t[k].call # "move"
    BY <1>4
  <2>2. \A k \in 1 .. Len(r) : t[Len(q) + k].call = "move" => Len(q) + k = Len(t)
    BY <1>3, <1>5 DEF Leads, MovesLast
  <2> QED
    BY <1>6, <2>1, <2>2 DEF MovesLast
<1>17. \A k \in 1 .. Len(t) : t[k].call = "daily" => t[k].date = d /\ t[k].secs = s
  <2>1. \A k \in 1 .. Len(q) : t[k].call = "daily" => t[k].date = d /\ t[k].secs = s
    BY <1>4 DEF Leads
  <2>2. \A k \in 1 .. Len(r) : t[Len(q) + k].call = "daily"
          => t[Len(q) + k].date = d /\ t[Len(q) + k].secs = s
    BY <1>5 DEF Leads
  <2> QED
    BY <1>6, <2>1, <2>2
<1>18. Leads(t, x, n, d, s)
  BY <1>3, <1>8, <1>11, <1>12, <1>13, <1>14, <1>15, <1>16, <1>17 DEF Leads
<1> QED
  BY <1>18 DEF t

LEMMA LastOfBoth ==
    ASSUME NEW q \in Seq(Call), NEW r \in Seq(Call), r # <<>>
    PROVE  /\ q \o r \in Seq(Call) /\ q \o r # <<>>
           /\ (q \o r)[Len(q \o r)] = r[Len(r)]
<1>1. Len(q) \in Nat /\ Len(r) \in Nat /\ Len(r) # 0
  BY EmptySeq
<1>2. /\ q \o r \in Seq(Call) /\ Len(q \o r) = Len(q) + Len(r)
      /\ \A i \in 1 .. Len(q) + Len(r) :
           (q \o r)[i] = IF i <= Len(q) THEN q[i] ELSE r[i - Len(q)]
  BY ConcatProperties
<1>3. q \o r # <<>>
  BY <1>1, <1>2
<1>4. Len(q) + Len(r) \in 1 .. Len(q) + Len(r) /\ ~(Len(q) + Len(r) <= Len(q))
  BY <1>1
<1>5. (q \o r)[Len(q) + Len(r)] = r[(Len(q) + Len(r)) - Len(q)]
  BY <1>2, <1>4
<1> QED
  BY <1>1, <1>2, <1>3, <1>5

(***************************************************************************)
(* What the operations have in common: after the check of the date, the    *)
(* queue leads from the current session to the goal of the operation.      *)
(***************************************************************************)
GoalOf(q, c) == IF q # <<>> /\ q[Len(q)].call = "move" THEN q[Len(q)].to ELSE c
Goal == GoalOf(todo, cur)

Begun(r) ==
    /\ r.cur \in Session /\ r.date \in Dates /\ r.study \in Nat /\ r.next \in Nat
    /\ r.cur.id < r.next /\ cur.id <= r.cur.id /\ next <= r.next /\ r.next <= next + 1
    /\ \A e, s : Leads(r.calls, cur, r.cur, e, s)
    /\ \A k \in 1 .. Len(r.calls) : r.calls[k].call # "move"
    /\ r.study = IF r.date = mdate THEN study ELSE 0

LEMMA BegunUnrolled ==
    ASSUME TypesInv, cur.id < next
    PROVE  Begun(Unrolled)
<1>1. cur \in Session /\ next \in Nat /\ study \in Nat /\ mdate \in Dates
  BY Bounds DEF TypesInv, TypeOK
<1>2. \A e, s : Leads(<<>>, cur, cur, e, s)
  BY <1>1, LeadsNothing
<1>3. Len(<<>>) = 0 /\ \A k \in 1 .. 0 : FALSE
  OBVIOUS
<1> QED
  BY <1>1, <1>2, <1>3, SessionIds DEF Begun, Unrolled

LEMMA BegunRolled ==
    ASSUME TypesInv, cur.id < next, NEW d \in Dates, mdate = d \/ next \in Ids
    PROVE  Begun(Rolled(d)) /\ Rolled(d).date = d
<1>1. cur \in Session /\ next \in Nat /\ study \in Nat /\ mdate \in Dates /\ cur.id \in Nat
  BY Bounds, SessionIds DEF TypesInv, TypeOK
<1>2. CASE mdate = d
  BY <1>2, BegunUnrolled DEF Rolled, Unrolled
<1>3. CASE mdate # d
  <2> DEFINE n == New(next, "STANDBY", "MANUAL", d)
             q == Closing(cur, "DAILY_RESET") \o <<Save(n)>>
  <2>1. n \in Session /\ n.id = next
    BY <1>3, NewSession DEF Modes, Origins
  <2>2. \A e, s : Leads(q, cur, n, e, s)
    BY <1>1, <2>1, LeadsSwitch DEF Ends
  <2>3. /\ Rolled(d).cur = n /\ Rolled(d).calls = q /\ Rolled(d).next = next + 1
        /\ Rolled(d).study = 0 /\ Rolled(d).date = d
    BY <1>3 DEF Rolled
  <2>4. Save(n) \in Call /\ Closing(cur, "DAILY_RESET") \in Seq(Call)
    BY <1>1, <2>1, ClosingQueue DEF Call, Ends
  <2>5. \A k \in 1 .. Len(q) : q[k].call = "move" => k = Len(q)
    BY <2>2 DEF Leads, MovesLast
  <2>6. q[Len(q)] = Save(n)
    BY <2>4, LastOf
  <2> HIDE DEF n, q
  <2>7. \A k \in 1 .. Len(q) : q[k].call # "move"
    BY <2>5, <2>6, SaveFacts
  <2>8. n.id < next + 1 /\ cur.id <= n.id /\ next <= next + 1
    BY <1>1, <2>1
  <2> QED
    BY <1>1, <1>3, <2>1, <2>2, <2>3, <2>7, <2>8 DEF Begun
<1> QED
  BY <1>2, <1>3

Served ==
    /\ Serving /\ todo = <<>> /\ todo' # <<>>
    /\ \E n \in Session :
         /\ Leads(todo', cur, n, mdate', study') /\ GoalOf(todo', cur') = n
         /\ cur' \in Session /\ cur.id <= cur'.id /\ cur'.id <= n.id /\ n.id < next'
    /\ next' \in Nat /\ next <= next' /\ next' <= MaxSess + 1
    /\ mdate' \in Dates /\ mdate' \in {mdate, day, tick}
    /\ study' \in Nat /\ (mdate' = mdate => study' >= study)
    /\ faults' \in Nat /\ faults' >= faults
    /\ \A k \in 1 .. Len(todo') :
         todo'[k].call = "move" /\ ~todo'[k].bump /\ todo'[k].row.ses.mode = "STUDY"
           => faults' > faults
    /\ tick' \in {tick, NoTick}
    /\ UNCHANGED <<day, life, tab, daily, rev, settled, crashes>>

LEMMA ReplaceServes ==
    ASSUME TypesInv, cur.id < next, NEW m \in Modes, NEW o \in Origins,
           NEW why \in Ends, why # "SHUTDOWN", Replace(m, o, why)
    PROVE  Served
<1> DEFINE r == Rolled(day)
           n == New(r.next, m, o, day)
           q == Closing(r.cur, why) \o <<Save(n)>>
<1>1. /\ cur \in Session /\ next \in Nat /\ day \in Dates /\ cur.id \in Nat
      /\ MaxSess \in Nat /\ MaxDay \in Nat /\ faults \in Nat /\ next >= 2 /\ study \in Nat
  BY Bounds, SessionIds DEF TypesInv, TypeOK
<1>2. next + 2 + 2 * MaxDay <= MaxSess
  BY DEF Replace, Spare
<1>3. next \in Ids /\ next + 1 \in Ids /\ next + 2 <= MaxSess + 1
  BY <1>1, <1>2 DEF Ids
<1>4. Begun(r) /\ r.date = day
  BY <1>1, <1>3, BegunRolled
<1>5. /\ todo' = r.calls \o Closing(r.cur, why) \o <<Save(n)>>
      /\ cur' = n /\ mdate' = r.date /\ study' = r.study /\ next' = r.next + 1
      /\ Serving /\ todo = <<>>
      /\ UNCHANGED <<day, life, tab, daily, rev, tick, settled, faults, crashes>>
  BY DEF Replace, Free
<1> HIDE DEF r
<1>6. /\ r.cur \in Session /\ r.next \in Nat /\ r.cur.id < r.next /\ cur.id <= r.cur.id
      /\ next <= r.next /\ r.next <= next + 1 /\ r.study \in Nat
      /\ r.study = IF day = mdate THEN study ELSE 0
      /\ \A e, s : Leads(r.calls, cur, r.cur, e, s)
      /\ \A k \in 1 .. Len(r.calls) : r.calls[k].call # "move"
  BY <1>4 DEF Begun
<1>7. r.cur.id \in Nat /\ r.next \in Ids
  BY <1>1, <1>3, <1>6, SessionIds DEF Ids
<1>8. n \in Session /\ n.id = r.next
  BY <1>1, <1>7, NewSession
<1>9. /\ r.calls \in Seq(Call) /\ Closing(r.cur, why) \in Seq(Call)
      /\ <<Save(n)>> \in Seq(Call)
  <2>1. Save(n) \in Call
    BY <1>8, CallTypes
  <2> QED
    BY <1>6, <2>1, ClosingQueue DEF Leads
<1>10. todo' = r.calls \o q
  <2> HIDE DEF n
  <2>1. (r.calls \o Closing(r.cur, why)) \o <<Save(n)>>
          = r.calls \o (Closing(r.cur, why) \o <<Save(n)>>)
    <3>1. \A a, b, c \in Seq(Call) : (a \o b) \o c = a \o (b \o c)
      BY ConcatAssociative
    <3> QED
      BY <1>9, <3>1, Zenon
  <2> QED
    BY <1>5, <2>1
<1>11. Save(n) \in Call /\ q \in Seq(Call) /\ Len(q) = Len(Closing(r.cur, why)) + 1
       /\ q[Len(q)] = Save(n) /\ q # <<>>
  BY <1>8, <1>9, LastOf DEF Call
<1>12. \A e, s : Leads(q, r.cur, n, e, s)
  BY <1>6, <1>8, LeadsSwitch
<1> HIDE DEF n, q
<1>13. Leads(todo', cur, n, mdate', study')
  BY <1>1, <1>6, <1>8, <1>10, <1>12, LeadsOn
<1>14. todo' # <<>> /\ todo'[Len(todo')] = Save(n)
  BY <1>9, <1>10, <1>11, LastOfBoth
<1>15. GoalOf(todo', cur') = n
  BY <1>5, <1>14, SaveFacts DEF GoalOf
<1>16. \A k \in 1 .. Len(todo') : todo'[k].call # "move"
  BY <1>13, <1>14, SaveFacts DEF Leads, MovesLast
<1>17. cur.id <= n.id /\ n.id < next' /\ next' \in Nat /\ next <= next' /\ next' <= MaxSess + 1
  BY <1>1, <1>3, <1>5, <1>6, <1>7, <1>8
<1>18. mdate' = day /\ (mdate' = mdate => study' = study)
  BY <1>4, <1>5, <1>6
<1>19. \E x \in Session :
         /\ Leads(todo', cur, x, mdate', study') /\ GoalOf(todo', cur') = x
         /\ cur' \in Session /\ cur.id <= cur'.id /\ cur'.id <= x.id /\ x.id < next'
  <2>1. n.id \in Nat /\ n.id <= n.id
    BY <1>8, SessionIds
  <2> QED
    BY <1>5, <1>8, <1>13, <1>15, <1>17, <2>1
<1>20. mdate' \in Dates /\ mdate' \in {mdate, day, tick} /\ tick' \in {tick, NoTick}
  BY <1>1, <1>5, <1>18
<1>21. faults' \in Nat /\ faults' >= faults
  BY <1>1, <1>5
<1>22. study' \in Nat /\ (mdate' = mdate => study' >= study)
  BY <1>1, <1>5, <1>6, <1>18
<1> QED
  BY <1>5, <1>14, <1>16, <1>17, <1>19, <1>20, <1>21, <1>22 DEF Served

LEMMA MoveServes ==
    ASSUME TypesInv, cur.id < next, NEW m \in Modes, NEW o \in Origins,
           NEW why \in Ends, NEW b \in BOOLEAN, NEW r, Begun(r),
           r.date \in {mdate, day}, Move(m, o, why, r, b),
           \/ faults' = faults /\ (b \/ r.cur.mode # "STUDY")
           \/ faults' = faults + 1
    PROVE  Served
<1> DEFINE n == New(r.next, m, o, day)
           w == Transition(r.cur, why, n, b)
<1>1. /\ cur \in Session /\ next \in Nat /\ day \in Dates /\ cur.id \in Nat
      /\ MaxSess \in Nat /\ MaxDay \in Nat /\ faults \in Nat /\ next >= 2 /\ study \in Nat
  BY Bounds, SessionIds DEF TypesInv, TypeOK
<1>2. next + 2 + 2 * MaxDay <= MaxSess
  BY DEF Move, Spare
<1>3. next \in Ids /\ next + 1 \in Ids /\ next + 2 <= MaxSess + 1
  BY <1>1, <1>2 DEF Ids
<1>4. /\ todo' = r.calls \o <<w>>
      /\ cur' = r.cur /\ mdate' = r.date /\ study' = r.study /\ next' = r.next + 1
      /\ Serving /\ todo = <<>>
      /\ UNCHANGED <<day, life, tab, daily, rev, tick, settled, crashes>>
  BY DEF Move, Free
<1>5. /\ r.cur \in Session /\ r.next \in Nat /\ r.cur.id < r.next /\ cur.id <= r.cur.id
      /\ next <= r.next /\ r.next <= next + 1 /\ r.study \in Nat /\ r.date \in Dates
      /\ r.study = IF r.date = mdate THEN study ELSE 0
      /\ \A e, s : Leads(r.calls, cur, r.cur, e, s)
      /\ \A k \in 1 .. Len(r.calls) : r.calls[k].call # "move"
  BY DEF Begun
<1>6. r.cur.id \in Nat /\ r.next \in Ids
  BY <1>1, <1>3, <1>5, SessionIds DEF Ids
<1>7. n \in Session /\ n.id = r.next
  BY <1>1, <1>6, NewSession
<1>8. r.calls \in Seq(Call) /\ w \in Call
  BY <1>5, <1>7, CallTypes DEF Leads
<1>9. \A e, s : Leads(<<w>>, r.cur, n, e, s)
  BY <1>5, <1>7, LeadsMove
<1>10. w.call = "move" /\ w.row.ses = r.cur /\ w.to = n /\ w.bump = b
  BY MoveFacts
<1> HIDE DEF n, w
<1>11. Leads(todo', cur, n, mdate', study')
  BY <1>1, <1>4, <1>5, <1>7, <1>9, LeadsOn
<1>12. todo' # <<>> /\ todo'[Len(todo')] = w
  BY <1>4, <1>8, LastOf
<1>13. GoalOf(todo', cur') = n
  BY <1>10, <1>12 DEF GoalOf
<1>14. \A k \in 1 .. Len(todo') : todo'[k].call = "move" => todo'[k] = w
  BY <1>11, <1>12 DEF Leads, MovesLast
<1>15. /\ cur.id <= cur'.id /\ cur'.id <= n.id /\ n.id < next'
       /\ next' \in Nat /\ next <= next' /\ next' <= MaxSess + 1
  BY <1>1, <1>3, <1>4, <1>5, <1>6, <1>7
<1>16. \E x \in Session :
         /\ Leads(todo', cur, x, mdate', study') /\ GoalOf(todo', cur') = x
         /\ cur' \in Session /\ cur.id <= cur'.id /\ cur'.id <= x.id /\ x.id < next'
  BY <1>4, <1>5, <1>7, <1>11, <1>13, <1>15
<1>17. faults' \in Nat /\ faults' >= faults
  BY <1>1
<1>18. \A k \in 1 .. Len(todo') :
         todo'[k].call = "move" /\ ~todo'[k].bump /\ todo'[k].row.ses.mode = "STUDY"
           => faults' > faults
  BY <1>1, <1>10, <1>14
<1>19. mdate' = mdate => study' >= study
  BY <1>1, <1>4, <1>5
<1> QED
  BY <1>4, <1>5, <1>12, <1>15, <1>16, <1>17, <1>18, <1>19 DEF Served

LEMMA TickServes ==
    ASSUME TypesInv, cur.id < next, NEW credit \in {0, 1}, Tick(credit)
    PROVE  Served
<1> DEFINE r == Rolled(tick)
           c == [r.cur EXCEPT !.secs = @ + credit]
           s == r.study + (IF r.cur.mode = "STUDY" THEN credit ELSE 0)
           q == <<UpdateDaily(r.date, s), Save(c)>>
<1>1. /\ cur \in Session /\ next \in Nat /\ tick \in Dates /\ cur.id \in Nat
      /\ MaxSess \in Nat /\ faults \in Nat /\ next >= 2 /\ study \in Nat /\ mdate \in Dates
  BY Bounds, SessionIds DEF TypesInv, TypeOK, Tick
<1>2. /\ c.secs <= MaxSecs /\ r.next <= MaxSess + 1
      /\ cur' = c /\ study' = s /\ next' = r.next /\ mdate' = r.date
      /\ todo' = r.calls \o q /\ Serving /\ todo = <<>>
      /\ tick' = NoTick
      /\ UNCHANGED <<day, life, tab, daily, rev, settled, faults, crashes>>
  BY DEF Tick, Free
<1>3. mdate = tick \/ next \in Ids
  BY <1>1, <1>2 DEF Rolled, Ids
<1>4. Begun(r) /\ r.date = tick
  BY <1>1, <1>3, BegunRolled
<1> HIDE DEF r
<1>5. /\ r.cur \in Session /\ r.next \in Nat /\ r.cur.id < r.next /\ cur.id <= r.cur.id
      /\ next <= r.next /\ r.study \in Nat /\ r.date \in Dates
      /\ r.study = IF r.date = mdate THEN study ELSE 0
      /\ \A e, t : Leads(r.calls, cur, r.cur, e, t)
      /\ \A k \in 1 .. Len(r.calls) : r.calls[k].call # "move"
  BY <1>4 DEF Begun
<1>6. s \in Nat /\ s >= r.study
  BY <1>5
<1>7. c \in Session /\ c.id = r.cur.id /\ Same(r.cur, c)
  <2>1. c.secs = r.cur.secs + credit
    BY <1>5 DEF Session
  <2>2. c.secs \in 0 .. MaxSecs
    <3>1. r.cur.secs \in Nat
      BY <1>5, SessionIds
    <3> QED
      BY <1>2, <2>1, <3>1, Bounds
  <2> QED
    BY <1>5, <2>2 DEF Session, Same
<1>8. r.calls \in Seq(Call) /\ UpdateDaily(r.date, s) \in Call /\ Save(c) \in Call
  BY <1>5, <1>6, <1>7, CallTypes DEF Leads
<1>9. q \in Seq(Call) /\ q # <<>> /\ Len(q) = 2 /\ q[2] = Save(c)
  BY <1>8
<1>10. Leads(q, r.cur, c, r.date, s)
  BY <1>5, <1>6, <1>7, LeadsTick
<1> HIDE DEF c, s, q
<1>11. Leads(todo', cur, c, mdate', study')
  BY <1>1, <1>2, <1>5, <1>7, <1>10, LeadsOn
<1>12. todo' # <<>> /\ todo'[Len(todo')] = Save(c)
  BY <1>2, <1>8, <1>9, LastOfBoth
<1>13. GoalOf(todo', cur') = c
  BY <1>2, <1>12, SaveFacts DEF GoalOf
<1>14. \A k \in 1 .. Len(todo') : todo'[k].call # "move"
  BY <1>11, <1>12, SaveFacts DEF Leads, MovesLast
<1>15. \E x \in Session :
         /\ Leads(todo', cur, x, mdate', study') /\ GoalOf(todo', cur') = x
         /\ cur' \in Session /\ cur.id <= cur'.id /\ cur'.id <= x.id /\ x.id < next'
  BY <1>2, <1>5, <1>7, <1>11, <1>13, SessionIds
<1>16. mdate' = mdate => study' >= study
  BY <1>1, <1>2, <1>5, <1>6
<1>17. faults' \in Nat /\ faults' >= faults /\ study' \in Nat
  BY <1>1, <1>2, <1>6
<1>18. mdate' \in Dates /\ mdate' = tick /\ next' \in Nat /\ next <= next' /\ next' <= MaxSess + 1
  BY <1>2, <1>4, <1>5
<1> QED
  BY <1>2, <1>12, <1>14, <1>15, <1>16, <1>17, <1>18 DEF Served

\* Every step is an operation of the manager or one of the steps below.
LEMMA Operations ==
    ASSUME TypesInv, cur.id < next, Next
    PROVE  Served \/ TickerFires \/ Write \/ Midnight \/ Close \/ Exit \/ Crash \/ Boot
<1>1. day \in Dates /\ cur \in Session /\ next \in Nat
  BY Bounds DEF TypesInv, TypeOK
<1>2. CASE SetModeStudy
  BY <1>2, ReplaceServes DEF SetModeStudy, Modes, Origins, Ends
<1>3. CASE SetModeBreak
  BY <1>3, ReplaceServes DEF SetModeBreak, Modes, Origins, Ends
<1>4. ASSUME NEW m, NEW o, NEW why, NEW r, NEW b, Move(m, o, why, r, b)
      PROVE  next \in Ids
  BY <1>1, <1>4, Bounds DEF Move, Spare, TypesInv, TypeOK, Ids
<1>5. CASE SetModeOff
  <2>1. CASE Replace("OFF", "MANUAL", "USER_SWITCH")
    BY <2>1, ReplaceServes DEF Modes, Origins, Ends
  <2>2. CASE /\ IsEye(Rolled(day).cur) /\ Move("OFF", "MANUAL", "USER_SWITCH", Rolled(day), FALSE)
             /\ UNCHANGED faults
    <3>1. Begun(Rolled(day)) /\ Rolled(day).date = day
      BY <1>1, <1>4, <2>2, BegunRolled
    <3>2. Rolled(day).cur.mode # "STUDY"
      BY <2>2 DEF IsEye
    <3> QED
      BY <2>2, <3>1, <3>2, MoveServes DEF Modes, Origins, Ends
  <2> QED
    BY <1>5, <2>1, <2>2 DEF SetModeOff
<1>6. CASE Automation
  BY <1>6, ReplaceServes DEF Automation, Modes, Origins, Ends
<1>7. ASSUME NEW restore \in BOOLEAN, EyeCareBreak(restore) PROVE Served
  <2>1. Move("BREAK", "EYE_CARE", "EYE_CARE", Rolled(day), ~restore)
    BY <1>7 DEF EyeCareBreak
  <2>2. Begun(Rolled(day)) /\ Rolled(day).date = day
    BY <1>1, <1>4, <2>1, BegunRolled
  <2>3. (faults' = faults /\ ~restore) \/ faults' = faults + 1
    BY <1>7 DEF EyeCareBreak
  <2>4. (~restore) \in BOOLEAN
    OBVIOUS
  <2> QED
    BY <2>1, <2>2, <2>3, <2>4, MoveServes DEF Modes, Origins, Ends
<1>8. ASSUME NEW mode \in Modes, ResumeEyeCare(mode) PROVE Served
  <2>1. /\ IsEye(cur) /\ Move(mode, "MANUAL", "EYE_CARE", Unrolled, FALSE)
        /\ faults' = faults
    BY <1>8 DEF ResumeEyeCare
  <2>2. Unrolled.cur.mode # "STUDY" /\ Unrolled.date = mdate
    BY <2>1 DEF IsEye, Unrolled
  <2> QED
    BY <2>1, <2>2, BegunUnrolled, MoveServes DEF Modes, Origins, Ends
<1>9. ASSUME NEW c \in {0, 1}, Tick(c) PROVE Served
  BY <1>9, TickServes
<1> QED
  BY <1>2, <1>3, <1>5, <1>6, <1>7, <1>8, <1>9 DEF Next, User, Worker

(***************************************************************************)
(* The storage calls.                                                      *)
(***************************************************************************)
LEMMA TailFacts ==
    ASSUME NEW q \in Seq(Call), q # <<>>
    PROVE  /\ Len(q) \in Nat \ {0} /\ Head(q) \in Call /\ Head(q) = q[1]
           /\ Tail(q) \in Seq(Call) /\ Len(Tail(q)) = Len(q) - 1
           /\ \A k \in 1 .. Len(Tail(q)) : k + 1 \in 1 .. Len(q) /\ Tail(q)[k] = q[k + 1]
           /\ \A k \in 1 .. Len(q) :
                k = 1 \/ (k - 1 \in 1 .. Len(Tail(q)) /\ Tail(q)[k - 1] = q[k])
           /\ Tail(q) = <<>> <=> Len(q) = 1
           /\ Announced(q) => Announced(Tail(q))
           /\ MovesLast(q) => MovesLast(Tail(q))
<1>1. /\ Len(q) \in Nat \ {0} /\ Head(q) = q[1] /\ 1 \in 1 .. Len(q) /\ Head(q) \in Call
      /\ Tail(q) \in Seq(Call) /\ Len(Tail(q)) = Len(q) - 1
      /\ \A k \in 1 .. Len(Tail(q)) : Tail(q)[k] = q[k + 1]
  BY HeadTailProperties, EmptySeq
<1>2. \A k \in 1 .. Len(Tail(q)) : k + 1 \in 1 .. Len(q)
  BY <1>1
<1>3. \A k \in 1 .. Len(q) : k = 1 \/ k - 1 \in 1 .. Len(Tail(q))
  BY <1>1
<1>4. \A k \in 1 .. Len(q) : k = 1 \/ Tail(q)[k - 1] = q[k]
  <2> SUFFICES ASSUME NEW k \in 1 .. Len(q), k # 1 PROVE Tail(q)[k - 1] = q[k]
    OBVIOUS
  <2>1. k - 1 \in 1 .. Len(Tail(q)) /\ (k - 1) + 1 = k
    BY <1>3
  <2> QED
    BY <1>1, <2>1
<1>5. Tail(q) = <<>> <=> Len(q) = 1
  BY <1>1, EmptySeq, SMTT(40)
<1>6. ASSUME Announced(q) PROVE Announced(Tail(q))
  <2> DEFINE t == Tail(q)
  <2> SUFFICES ASSUME NEW k \in 1 .. Len(t), t[k].call = "end", t[k].row.ses.mode = "STUDY"
               PROVE  k < Len(t) /\ t[k + 1] = Bump(t[k].row.ses.date)
    BY DEF Announced
  <2>1. t[k] = q[k + 1] /\ k + 1 \in 1 .. Len(q)
    BY <1>1, <1>2
  <2>2. k + 1 < Len(q) /\ q[(k + 1) + 1] = Bump(t[k].row.ses.date)
    BY <1>6, <2>1 DEF Announced
  <2>3. k + 1 \in 1 .. Len(t)
    BY <1>1, <2>2
  <2> QED
    BY <1>1, <2>2, <2>3
<1>7. ASSUME MovesLast(q) PROVE MovesLast(Tail(q))
  <2> SUFFICES ASSUME NEW k \in 1 .. Len(Tail(q)), Tail(q)[k].call = "move"
               PROVE  k = Len(Tail(q))
    BY DEF MovesLast
  <2>1. k + 1 \in 1 .. Len(q) /\ q[k + 1].call = "move"
    BY <1>1, <1>2
  <2>2. k + 1 = Len(q)
    BY <1>7, <2>1 DEF MovesLast
  <2>3. Len(q) \in Nat /\ Len(Tail(q)) = Len(q) - 1 /\ k \in Nat
    BY <1>1
  <2> QED
    BY <2>2, <2>3
<1> QED
  BY <1>1, <1>2, <1>3, <1>4, <1>5, <1>6, <1>7

LEMMA MaxOfTwo ==
    ASSUME NEW a \in Nat, NEW b \in Nat
    PROVE  Max({a, b}) = IF a >= b THEN a ELSE b
<1> DEFINE m == IF a >= b THEN a ELSE b
<1>1. m \in {a, b} /\ \A y \in {a, b} : m >= y
  OBVIOUS
<1>2. \A x \in {a, b} : (\A y \in {a, b} : x >= y) => x = m
  OBVIOUS
<1> HIDE DEF m
<1>3. (CHOOSE x \in {a, b} : \A y \in {a, b} : x >= y) = m
  BY <1>1, <1>2
<1> QED
  BY <1>3 DEF Max, m

\* What a call that succeeds does to the table of sessions, row by row.
LEMMA RowsAfter ==
    ASSUME TypesInv, NEW w \in Call, Done(w)
    PROVE  /\ tab' \in [Ids -> Row]
           /\ w.call \in {"save", "end"} =>
                \A i \in Ids : tab'[i] = IF i = w.row.ses.id THEN w.row ELSE tab[i]
           /\ w.call = "move" =>
                \A i \in Ids : tab'[i] = IF i = w.to.id THEN [ses |-> w.to, end |-> "OPEN"]
                                         ELSE IF i = w.row.ses.id THEN w.row ELSE tab[i]
           /\ w.call = "recover" =>
                \A i \in Ids : /\ tab'[i].ses = tab[i].ses
                               /\ tab'[i].end = IF i \in OpenRows THEN "RESTART_RECOVERY"
                                                ELSE tab[i].end
           /\ w.call \in {"bump", "daily"} => tab' = tab
<1>1. tab \in [Ids -> Row]
  BY DEF TypesInv, TypeOK
<1>2. /\ w.call \in {"save", "end"} => w.row \in Row /\ w.row.ses.id \in Ids
      /\ w.call = "move" => /\ w.row \in Row /\ w.row.ses.id \in Ids /\ w.to \in Session
                            /\ w.to.id \in Ids /\ [ses |-> w.to, end |-> "OPEN"] \in Row
  BY CallParts, SessionIds DEF Row
<1>3. w.call \in {"save", "end", "bump", "daily", "recover", "move"}
  BY CallParts
<1>4. CASE w.call \in {"save", "end"}
  <2>1. tab' = [tab EXCEPT ![w.row.ses.id] = w.row]
    BY <1>4 DEF Done
  <2> QED
    BY <1>1, <1>2, <1>4, <2>1
<1>5. CASE w.call = "move"
  <2>1. tab' = [tab EXCEPT ![w.row.ses.id] = w.row,
                           ![w.to.id] = [ses |-> w.to, end |-> "OPEN"]]
    BY <1>5 DEF Done
  <2> QED
    BY <1>1, <1>2, <1>5, <2>1
<1>6. CASE w.call = "recover"
  <2>1. tab' = [i \in Ids |-> IF i \in OpenRows THEN [tab[i] EXCEPT !.end = "RESTART_RECOVERY"]
                              ELSE tab[i]]
    BY <1>6 DEF Done
  <2>2. \A i \in OpenRows : tab[i].end = "OPEN" /\ tab[i] \in [ses : Session, end : Ends \cup {"OPEN"}]
    BY <1>1 DEF OpenRows, Row, NoRow
  <2>3. \A i \in OpenRows : /\ [tab[i] EXCEPT !.end = "RESTART_RECOVERY"] \in Row
                            /\ [tab[i] EXCEPT !.end = "RESTART_RECOVERY"].ses = tab[i].ses
                            /\ [tab[i] EXCEPT !.end = "RESTART_RECOVERY"].end = "RESTART_RECOVERY"
    BY <2>2 DEF Row, Ends
  <2> QED
    BY <1>1, <1>6, <2>1, <2>3
<1>7. CASE w.call \in {"bump", "daily"}
  <2>1. tab' = tab
    BY <1>7 DEF Done
  <2> QED
    BY <1>1, <1>7, <2>1
<1> QED
  BY <1>3, <1>4, <1>5, <1>6, <1>7

\* The open rows: those that were and are not closed, and those opened.
LEMMA OpenAfter ==
    ASSUME TypesInv, NEW w \in Call, Done(w)
    PROVE  /\ \A c \in Opens(w) : /\ c \in Session /\ c.id \in OpenRows'
                                  /\ tab'[c.id].ses = c
           /\ \A i \in OpenRows' : \/ \E c \in Opens(w) : c.id = i
                                   \/ /\ i \in OpenRows /\ i \notin Closes(w)
                                      /\ tab'[i].ses = tab[i].ses
           /\ \A i \in OpenRows : i \notin Closes(w) => i \in OpenRows'
<1>1. /\ w.call \in {"save", "end"} =>
           /\ w.row.ses \in Session /\ w.row.ses.id \in Ids
           /\ (w.call = "save" => w.row.end = "OPEN") /\ (w.call = "end" => w.row.end # "OPEN")
      /\ w.call = "move" => /\ w.row.ses.id \in Ids /\ w.to \in Session
                            /\ w.to.id \in Ids /\ w.row.end # "OPEN"
  BY CallParts, SessionIds DEF Ends
<1>2. w.call \in {"save", "end", "bump", "daily", "recover", "move"}
  BY CallParts
<1>3. CASE w.call = "save"
  <2>1. Opens(w) = {w.row.ses} /\ Closes(w) = {}
    BY <1>3 DEF Opens, Closes
  <2>2. \A i \in Ids : tab'[i] = IF i = w.row.ses.id THEN w.row ELSE tab[i]
    BY <1>3, RowsAfter
  <2> QED
    BY <1>1, <1>3, <2>1, <2>2 DEF OpenRows
<1>4. CASE w.call = "end"
  <2>1. Opens(w) = {} /\ Closes(w) = {w.row.ses.id}
    BY <1>4 DEF Opens, Closes
  <2>2. \A i \in Ids : tab'[i] = IF i = w.row.ses.id THEN w.row ELSE tab[i]
    BY <1>4, RowsAfter
  <2> QED
    BY <1>1, <1>4, <2>1, <2>2 DEF OpenRows
<1>5. CASE w.call = "move"
  <2>1. Opens(w) = {w.to} /\ Closes(w) = {w.row.ses.id}
    BY <1>5 DEF Opens, Closes
  <2>2. \A i \in Ids : tab'[i] = IF i = w.to.id THEN [ses |-> w.to, end |-> "OPEN"]
                                 ELSE IF i = w.row.ses.id THEN w.row ELSE tab[i]
    BY <1>5, RowsAfter
  <2> QED
    BY <1>1, <1>5, <2>1, <2>2 DEF OpenRows
<1>6. CASE w.call = "recover"
  <2>1. Opens(w) = {} /\ Closes(w) = Ids
    BY <1>6 DEF Opens, Closes
  <2>2. \A i \in Ids : tab'[i].end # "OPEN"
    BY <1>6, RowsAfter DEF OpenRows
  <2> QED
    BY <2>1, <2>2 DEF OpenRows
<1>7. CASE w.call \in {"bump", "daily"}
  BY <1>7, RowsAfter DEF Opens, Closes, OpenRows
<1> QED
  BY <1>2, <1>3, <1>4, <1>5, <1>6, <1>7

\* What a start-up brings: a successor of an open row of the day, or STANDBY.
LEMMA RecoveredFacts ==
    ASSUME TypesInv, next \in Ids
    PROVE  /\ Recovered \in Session /\ Recovered.id = next
           /\ \/ Recovered.mode = "STANDBY"
              \/ \E i \in OpenRows : tab[i].ses.mode = Recovered.mode
<1> DEFINE newest == {i \in OpenRows : \A j \in OpenRows :
                        tab[j].ses.date < tab[i].ses.date
                          \/ (tab[j].ses.date = tab[i].ses.date /\ j <= i)}
           found == {i \in newest : tab[i].ses.date = day}
           x == CHOOSE i \in found : TRUE
<1>1. day \in Dates /\ tab \in [Ids -> Row]
  BY DEF TypesInv, TypeOK
<1>2. \A i \in found : i \in OpenRows /\ tab[i].ses \in Session
  BY <1>1 DEF OpenRows, Row, NoRow
<1>3. Recovered = IF found = {} THEN New(next, "STANDBY", "MANUAL", day)
                  ELSE New(next, tab[x].ses.mode, tab[x].ses.origin, day)
  BY DEF Recovered
<1>4. found # {} => x \in found
  OBVIOUS
<1> HIDE DEF newest, found, x
<1>5. CASE found = {}
  BY <1>1, <1>3, <1>5, NewSession DEF Modes, Origins
<1>6. CASE found # {}
  <2>1. tab[x].ses.mode \in Modes /\ tab[x].ses.origin \in Origins /\ x \in OpenRows
    BY <1>2, <1>4, <1>6 DEF Session
  <2> QED
    BY <1>1, <1>3, <1>6, <2>1, NewSession
<1> QED
  BY <1>5, <1>6

LEMMA BootFacts ==
    ASSUME TypesInv, Boot
    PROVE  /\ next \in Ids /\ cur' \in Session /\ cur'.id = next
           /\ todo' \in Seq(Call) /\ Len(todo') = 2
           /\ todo'[1] = CloseOpenSessions /\ todo'[2] = Save(cur')
           /\ study' \in Nat /\ faults' \in Nat /\ faults' >= faults
           /\ faults' = 0 => study' = daily[day] /\ cur' = Recovered
<1>1. /\ day \in Dates /\ daily \in [Dates -> Nat] /\ faults \in Nat /\ next \in Ids
  BY Bounds DEF TypesInv, TypeOK, Boot, Ids
<1>2. New(next, "STANDBY", "MANUAL", day) \in Session
      /\ New(next, "STANDBY", "MANUAL", day).id = next
  BY <1>1, NewSession DEF Modes, Origins
<1>3. PICK lost \in {{}, {"total"}, {"session"}, {"total", "session"}} :
        /\ faults' = faults + Cardinality(lost)
        /\ study' = IF "total" \in lost THEN 0 ELSE LoadedTotal
        /\ cur' = IF "session" \in lost THEN New(next, "STANDBY", "MANUAL", day)
                  ELSE Recovered
  BY DEF Boot
<1>4. IsFiniteSet(lost)
  <2>1. IsFiniteSet({}) /\ IsFiniteSet({"total"}) /\ IsFiniteSet({"session"})
    BY FS_EmptySet, FS_Singleton
  <2>2. IsFiniteSet({"total"} \cup {"session"})
    BY <2>1, FS_AddElement
  <2>3. {"total"} \cup {"session"} = {"total", "session"}
    OBVIOUS
  <2> QED
    BY <1>3, <2>1, <2>2, <2>3
<1>5. Cardinality(lost) \in Nat /\ (Cardinality(lost) = 0 => lost = {})
  BY <1>4, FS_CardinalityType, FS_EmptySet
<1>6. cur' \in Session /\ cur'.id = next /\ study' \in Nat
  BY <1>1, <1>2, <1>3, RecoveredFacts DEF LoadedTotal
<1>7. todo' = <<CloseOpenSessions>> \o <<Save(cur')>>
  BY DEF Boot, BootCalls
<1>8. CloseOpenSessions \in Call /\ Save(cur') \in Call
  BY <1>6, CallTypes
<1>9. /\ todo' \in Seq(Call) /\ Len(todo') = 2
      /\ todo'[1] = CloseOpenSessions /\ todo'[2] = Save(cur')
  <2>1. /\ <<CloseOpenSessions>> \in Seq(Call) /\ Len(<<CloseOpenSessions>>) = 1
        /\ <<CloseOpenSessions>>[1] = CloseOpenSessions
    BY <1>8
  <2> QED
    BY <1>7, <1>8, <2>1, LastOf
<1>10. faults' \in Nat /\ faults' >= faults /\ (faults' = 0 => lost = {})
  BY <1>1, <1>3, <1>5
<1> QED
  BY <1>1, <1>3, <1>6, <1>9, <1>10 DEF LoadedTotal

\* An orderly stop only closes the current session.
LEMMA CloseFacts ==
    ASSUME NEW c \in Session
    PROVE  LET q == Closing(c, "SHUTDOWN") IN
           /\ q \in Seq(Call) /\ q # <<>> /\ Announced(q) /\ MovesLast(q)
           /\ \A k \in 1 .. Len(q) : /\ Opens(q[k]) = {} /\ Closes(q[k]) \subseteq {c.id}
                                     /\ q[k].call \in {"end", "bump"}
<1> DEFINE q == Closing(c, "SHUTDOWN")
<1>1. /\ q \in Seq(Call) /\ q[1] = SaveEnded(c, "SHUTDOWN")
      /\ c.mode = "STUDY" => Len(q) = 2 /\ q[2] = Bump(c.date)
      /\ c.mode # "STUDY" => Len(q) = 1
  BY ClosingQueue DEF Ends
<1> HIDE DEF q
<1>2. q # <<>>
  BY <1>1, EmptySeq
<1>3. /\ q[1].call = "end" /\ q[1].row.ses = c /\ Opens(q[1]) = {} /\ Closes(q[1]) = {c.id}
  BY <1>1, EndFacts
<1>4. c.mode = "STUDY" => q[2].call = "bump" /\ Opens(q[2]) = {} /\ Closes(q[2]) = {}
  BY <1>1, BumpFacts
<1>5. \A k \in 1 .. Len(q) : k = 1 \/ (k = 2 /\ c.mode = "STUDY")
  <2>1. CASE c.mode = "STUDY"
    <3>1. Len(q) = 2
      BY <1>1, <2>1
    <3> QED
      BY <2>1, <3>1
  <2>2. CASE c.mode # "STUDY"
    <3>1. Len(q) = 1
      BY <1>1, <2>2
    <3> QED
      BY <3>1
  <2> QED
    BY <2>1, <2>2
<1>6. Announced(q)
  BY <1>1, <1>3, <1>4, <1>5 DEF Announced
<1>7. \A k \in 1 .. Len(q) : /\ Opens(q[k]) = {} /\ Closes(q[k]) \subseteq {c.id}
                             /\ q[k].call \in {"end", "bump"}
  BY <1>3, <1>4, <1>5
<1>8. MovesLast(q)
  BY <1>7 DEF MovesLast
<1> QED
  BY <1>1, <1>2, <1>6, <1>7, <1>8 DEF q

(***************************************************************************)
(* Types, and the ids in use: next is fresh.                               *)
(***************************************************************************)
IdsInv ==
    /\ cur.id < next
    /\ \A i \in OpenRows : i < next
    /\ \A k \in 1 .. Len(todo) : \A c \in Opens(todo[k]) : c.id < next
    /\ MovesLast(todo)

Base == TypesInv /\ IdsInv

LEMMA EmptyQueue ==
    /\ <<>> \in Seq(Call) /\ Len(<<>>) = 0 /\ \A k \in 1 .. Len(<<>>) : FALSE
  OBVIOUS

LEMMA BaseInit == Init => Base
<1> SUFFICES ASSUME Init PROVE Base
  OBVIOUS
<1>1. /\ 1 \in Ids /\ 2 \in Ids /\ 0 \in Dates /\ MaxSess \in Nat /\ MaxSess > 1
      /\ MaxDay \in Nat
  BY Bounds DEF Ids, Dates
<1>2. /\ New(1, "STANDBY", "MANUAL", 0) \in Session /\ New(1, "STANDBY", "MANUAL", 0).id = 1
      /\ New(2, "BREAK", "AUTOMATION", 0) \in Session
      /\ New(2, "BREAK", "AUTOMATION", 0).id = 2
  BY <1>1, NewSession DEF Modes, Origins
<1>3. /\ day = 0 /\ mdate = 0 /\ life = "up" /\ todo = <<>> /\ tick = NoTick
      /\ study = 0 /\ next = cur.id + 1 /\ settled = cur.id
      /\ daily = [d \in Dates |-> 0] /\ rev = [d \in Dates |-> 0]
      /\ faults = 0 /\ crashes = 0
  BY DEF Init
<1>4. /\ cur \in Session /\ cur.id \in {1, 2} /\ tab \in [Ids -> Row]
      /\ \A i \in Ids : tab[i].end = "OPEN" => i = cur.id
  <2>1. CASE /\ cur = New(1, "STANDBY", "MANUAL", 0)
             /\ tab = [i \in Ids |-> IF i = 1 THEN [ses |-> cur, end |-> "OPEN"] ELSE NoRow]
    <3>1. cur \in Session /\ cur.id = 1
      BY <1>2, <2>1
    <3>2. [ses |-> cur, end |-> "OPEN"] \in Row /\ NoRow \in Row /\ NoRow.end # "OPEN"
      BY <3>1 DEF Row, NoRow
    <3>3. /\ tab \in [Ids -> Row]
          /\ \A i \in Ids : i # 1 => tab[i] = NoRow
      BY <2>1, <3>2
    <3> QED
      BY <3>1, <3>2, <3>3
  <2>2. CASE /\ cur = New(2, "BREAK", "AUTOMATION", 0)
             /\ tab = [i \in Ids |->
                      CASE i = 1 -> [ses |-> [cur EXCEPT !.id = 1], end |-> "RESTART_RECOVERY"]
                        [] i = 2 -> [ses |-> cur, end |-> "OPEN"]
                        [] OTHER -> NoRow]
    <3>1. cur \in Session /\ cur.id = 2 /\ [cur EXCEPT !.id = 1] \in Session
      BY <1>1, <1>2, <2>2 DEF Session
    <3> DEFINE c1 == [cur EXCEPT !.id = 1]
    <3>2. /\ [ses |-> cur, end |-> "OPEN"] \in Row /\ NoRow \in Row /\ NoRow.end # "OPEN"
          /\ [ses |-> c1, end |-> "RESTART_RECOVERY"] \in Row
      BY <3>1 DEF Row, NoRow, Ends
    <3> HIDE DEF c1
    <3>3. tab = [i \in Ids |-> CASE i = 1 -> [ses |-> c1, end |-> "RESTART_RECOVERY"]
                                 [] i = 2 -> [ses |-> cur, end |-> "OPEN"]
                                 [] OTHER -> NoRow]
      BY <2>2 DEF c1
    <3>4. \A i \in Ids : /\ i = 1 => tab[i] = [ses |-> c1, end |-> "RESTART_RECOVERY"]
                         /\ i = 2 => tab[i] = [ses |-> cur, end |-> "OPEN"]
                         /\ i \notin {1, 2} => tab[i] = NoRow
      BY <3>3
    <3>5. \A i \in Ids : tab[i] \in Row /\ (tab[i].end = "OPEN" => i = 2)
      BY <3>2, <3>4
    <3>6. tab \in [Ids -> Row]
      BY <3>3, <3>5
    <3> QED
      BY <3>1, <3>5, <3>6
  <2> QED
    BY <2>1, <2>2 DEF Init
<1>5. /\ next \in 2 .. MaxSess + 1 /\ settled \in 1 .. MaxSess + 1 /\ cur.id < next
      /\ cur.id \in Nat
  BY <1>1, <1>3, <1>4
<1>6. TypeOK
  BY <1>1, <1>3, <1>4, <1>5 DEF TypeOK, NoTick
<1>7. IdsInv
  BY <1>3, <1>4, <1>5, EmptyQueue DEF IdsInv, MovesLast, OpenRows
<1> QED
  BY <1>3, <1>6, <1>7, EmptyQueue DEF Base, TypesInv

LEMMA BaseServed == ASSUME Base, Served PROVE Base'
<1>1. TypeOK /\ cur.id \in Nat /\ next \in 2 .. MaxSess + 1 /\ MaxSess \in Nat
  BY Bounds, SessionIds DEF Base, TypesInv, TypeOK
<1>2. PICK n \in Session :
        /\ Leads(todo', cur, n, mdate', study')
        /\ cur' \in Session /\ cur'.id <= n.id /\ n.id < next'
  BY DEF Served
<1>3. cur'.id \in Nat /\ n.id \in Nat
  BY <1>2, SessionIds
<1>4. /\ next' \in Nat /\ next <= next' /\ next' <= MaxSess + 1
      /\ mdate' \in Dates /\ study' \in Nat /\ faults' \in Nat /\ tick' \in {tick, NoTick}
      /\ UNCHANGED <<day, life, tab, daily, rev, settled, crashes>>
      /\ life # "down"
  BY DEF Served, Serving
<1>5. TypeOK'
  BY <1>1, <1>2, <1>4 DEF TypeOK
<1>6. OpenRows' = OpenRows
  BY <1>4 DEF OpenRows
<1>7. \A i \in OpenRows' : i < next'
  <2>1. \A i \in OpenRows : i < next /\ i \in Nat
    BY DEF Base, IdsInv, OpenRows, Ids
  <2> QED
    BY <1>1, <1>4, <1>6, <2>1
<1>8. todo' \in Seq(Call) /\ MovesLast(todo')
  BY <1>2 DEF Leads
<1>9. \A k \in 1 .. Len(todo') : \A c \in Opens(todo'[k]) : c.id < next'
  <2> SUFFICES ASSUME NEW k \in 1 .. Len(todo'), NEW c \in Opens(todo'[k]) PROVE c.id < next'
    OBVIOUS
  <2>1. todo'[k] \in Call /\ c.id <= n.id
    BY <1>2, <1>8 DEF Leads
  <2>2. c.id \in Nat
    BY <2>1, CallParts, SessionIds DEF Opens
  <2> QED
    BY <1>2, <1>3, <1>4, <2>1, <2>2
<1>10. cur'.id < next'
  BY <1>2, <1>3, <1>4
<1>11. IdsInv'
  BY <1>7, <1>8, <1>9, <1>10 DEF IdsInv
<1> QED
  BY <1>4, <1>5, <1>8, <1>11 DEF Base, TypesInv

\* What a call that succeeds does besides the table of sessions.
LEMMA DoneFacts ==
    ASSUME TypesInv, NEW w \in Call, Done(w)
    PROVE  /\ rev' \in [Dates -> Nat] /\ daily' \in [Dates -> Nat]
           /\ cur' = (IF w.call = "move" THEN w.to ELSE cur) /\ cur' \in Session
           /\ todo' = Tail(todo) /\ faults' = faults
           /\ w.call = "bump" => /\ w.date \in Dates
                                 /\ \A d \in Dates : rev'[d] = IF d = w.date THEN rev[d] + 1
                                                               ELSE rev[d]
           /\ w.call = "move" =>
                \A d \in Dates :
                  rev'[d] = IF w.bump /\ w.row.ses.mode = "STUDY" /\ d = w.row.ses.date
                            THEN rev[d] + 1 ELSE rev[d]
           /\ w.call \in {"save", "end", "daily", "recover"} => rev' = rev
           /\ w.call = "daily" =>
                \A d \in Dates : daily'[d] = IF d = w.date THEN w.secs ELSE daily[d]
           /\ w.call # "daily" => daily' = daily
<1>1. /\ rev \in [Dates -> Nat] /\ daily \in [Dates -> Nat] /\ cur \in Session
  BY DEF TypesInv, TypeOK
<1>2. /\ w.call \in {"save", "end", "bump", "daily", "recover", "move"}
      /\ w.call = "bump" => w.date \in Dates
      /\ w.call = "daily" => w.date \in Dates /\ w.secs \in Nat
      /\ w.call = "move" => /\ w.row.ses.date \in Dates /\ w.to \in Session
                            /\ w.bump \in BOOLEAN
  BY CallParts, SessionIds
<1>3. /\ cur' = (IF w.call = "move" THEN w.to ELSE cur) /\ todo' = Tail(todo)
      /\ faults' = faults
      /\ daily' = IF w.call = "daily" THEN [daily EXCEPT ![w.date] = w.secs] ELSE daily
  BY DEF Done
<1>4. rev' = CASE w.call = "bump" -> [rev EXCEPT ![w.date] = @ + 1]
               [] w.call = "move" /\ w.bump /\ w.row.ses.mode = "STUDY" ->
                    [rev EXCEPT ![w.row.ses.date] = @ + 1]
               [] OTHER -> rev
  BY DEF Done
<1>5. CASE w.call = "bump"
  <2>1. rev' = [rev EXCEPT ![w.date] = @ + 1]
    BY <1>4, <1>5
  <2> QED
    BY <1>1, <1>2, <1>3, <1>5, <2>1
<1>6. CASE w.call = "move" /\ w.bump /\ w.row.ses.mode = "STUDY"
  <2>1. rev' = [rev EXCEPT ![w.row.ses.date] = @ + 1]
    BY <1>4, <1>6
  <2> QED
    BY <1>1, <1>2, <1>3, <1>6, <2>1
<1>7. CASE w.call = "move" /\ ~(w.bump /\ w.row.ses.mode = "STUDY")
  <2>1. rev' = rev
    BY <1>4, <1>7
  <2> QED
    BY <1>1, <1>2, <1>3, <1>7, <2>1
<1>8. CASE w.call \in {"save", "end", "daily", "recover"}
  <2>1. rev' = rev
    BY <1>4, <1>8
  <2> QED
    BY <1>1, <1>2, <1>3, <1>8, <2>1
<1> QED
  BY <1>2, <1>5, <1>6, <1>7, <1>8

\* What a failing call leaves.
LEMMA FailedFacts ==
    ASSUME TypesInv, todo # <<>>, Failed(Head(todo))
    PROVE  /\ faults' = faults + 1 /\ faults' # 0
           /\ UNCHANGED <<tab, rev, daily, cur>>
           /\ \/ todo' = Tail(todo)
              \/ Tail(todo) # <<>> /\ todo' = Tail(Tail(todo)) /\ Head(todo).call = "end"
<1>1. faults \in Nat /\ faults' = faults + 1 /\ UNCHANGED <<tab, rev, daily, cur>>
  BY DEF TypesInv, TypeOK, Failed
<1> QED
  BY <1>1 DEF Failed

LEMMA SettledType ==
    ASSUME NEW a \in 1 .. MaxSess + 1, NEW b \in 1 .. MaxSess + 1
    PROVE  Max({a, b}) \in 1 .. MaxSess + 1
  BY Bounds, MaxOfTwo

LEMMA BaseWrite == ASSUME Base, Write PROVE Base'
<1> DEFINE w == Head(todo)
<1>1. /\ todo \in Seq(Call) /\ todo # <<>> /\ TypesInv /\ TypeOK /\ life # "down"
      /\ cur \in Session
  BY DEF Base, TypesInv, TypeOK, Write
<1>2. /\ w \in Call /\ w = todo[1] /\ 1 \in 1 .. Len(todo)
      /\ Tail(todo) \in Seq(Call) /\ MovesLast(Tail(todo))
      /\ \A k \in 1 .. Len(Tail(todo)) : k + 1 \in 1 .. Len(todo) /\ Tail(todo)[k] = todo[k + 1]
  BY <1>1, TailFacts DEF Base, IdsInv
<1>3. UNCHANGED <<day, life, mdate, study, next, tick, crashes>>
  BY DEF Write
<1>4. next \in 2 .. MaxSess + 1 /\ cur.id < next /\ MaxSess \in Nat /\ settled \in 1 .. MaxSess + 1
  BY <1>1, Bounds DEF TypeOK, Base, IdsInv
<1>5. \A k \in 1 .. Len(todo) : \A c \in Opens(todo[k]) : c.id < next
  BY DEF Base, IdsInv
<1>6. \A k \in 1 .. Len(Tail(todo)) : \A c \in Opens(Tail(todo)[k]) : c.id < next
  BY <1>2, <1>5
<1>7. \A c \in Session : c.id \in 1 .. MaxSess + 1 /\ c.id + 1 \in 1 .. MaxSess + 1
  BY <1>4, SessionIds DEF Ids
<1>8. CASE Done(w)
  <2>1. /\ rev' \in [Dates -> Nat] /\ daily' \in [Dates -> Nat] /\ cur' \in Session
        /\ cur' = (IF w.call = "move" THEN w.to ELSE cur)
        /\ todo' = Tail(todo) /\ faults' = faults
    BY <1>1, <1>2, <1>8, DoneFacts
  <2>2. tab' \in [Ids -> Row]
    BY <1>1, <1>2, <1>8, RowsAfter
  <2>3. cur'.id < next
    BY <1>2, <1>4, <1>5, <2>1 DEF Opens
  <2>4. settled' \in 1 .. MaxSess + 1
    <3> DEFINE shut == w.call = "end" /\ w.row.end = "SHUTDOWN"
               b == IF shut THEN w.row.ses.id + 1 ELSE IF todo' = <<>> THEN cur'.id ELSE 1
    <3>1. settled' = Max({settled, b}) \/ settled' = Max({settled, IF todo' = <<>> THEN cur.id ELSE 1})
      BY DEF Write
    <3>2. b \in 1 .. MaxSess + 1
      BY <1>2, <1>4, <1>7, <2>1, CallParts
    <3>3. (IF todo' = <<>> THEN cur.id ELSE 1) \in 1 .. MaxSess + 1
      BY <1>1, <1>4, <1>7
    <3> HIDE DEF b
    <3> QED
      BY <1>4, <3>1, <3>2, <3>3, SettledType
  <2>5. \A i \in OpenRows' : i < next
    <3> SUFFICES ASSUME NEW i \in OpenRows' PROVE i < next
      OBVIOUS
    <3>1. (\E c \in Opens(w) : c.id = i) \/ i \in OpenRows
      BY <1>1, <1>2, <1>8, OpenAfter
    <3> QED
      BY <1>2, <1>5, <3>1 DEF Base, IdsInv
  <2>6. TypeOK'
    BY <1>1, <1>3, <2>1, <2>2, <2>4 DEF TypeOK
  <2>7. IdsInv'
    BY <1>2, <1>3, <1>6, <2>1, <2>3, <2>5 DEF IdsInv
  <2> QED
    BY <1>1, <1>2, <1>3, <2>1, <2>6, <2>7 DEF Base, TypesInv
<1>9. CASE Failed(w)
  <2>1. /\ faults' = faults + 1 /\ UNCHANGED <<tab, rev, daily, cur>>
        /\ \/ todo' = Tail(todo)
           \/ Tail(todo) # <<>> /\ todo' = Tail(Tail(todo))
    BY <1>1, <1>9, FailedFacts
  <2>2. /\ todo' \in Seq(Call) /\ MovesLast(todo')
        /\ \A k \in 1 .. Len(todo') : \A c \in Opens(todo'[k]) : c.id < next
    <3>1. CASE todo' = Tail(todo)
      BY <1>2, <1>6, <3>1
    <3>2. CASE Tail(todo) # <<>> /\ todo' = Tail(Tail(todo))
      <4>1. /\ Tail(Tail(todo)) \in Seq(Call) /\ MovesLast(Tail(Tail(todo)))
            /\ \A k \in 1 .. Len(Tail(Tail(todo))) :
                 /\ k + 1 \in 1 .. Len(Tail(todo))
                 /\ Tail(Tail(todo))[k] = Tail(todo)[k + 1]
        BY <1>2, <3>2, TailFacts
      <4> QED
        BY <1>6, <3>2, <4>1
    <3> QED
      BY <2>1, <3>1, <3>2
  <2>3. settled' \in 1 .. MaxSess + 1
    <3> DEFINE shut == w.call = "end" /\ w.row.end = "SHUTDOWN"
               b == IF shut THEN w.row.ses.id + 1 ELSE IF todo' = <<>> THEN cur'.id ELSE 1
    <3>1. settled' = Max({settled, b}) \/ settled' = Max({settled, IF todo' = <<>> THEN cur.id ELSE 1})
      BY DEF Write
    <3>2. b \in 1 .. MaxSess + 1
      BY <1>1, <1>2, <1>4, <1>7, <2>1, CallParts
    <3>3. (IF todo' = <<>> THEN cur.id ELSE 1) \in 1 .. MaxSess + 1
      BY <1>1, <1>4, <1>7
    <3> HIDE DEF b
    <3> QED
      BY <1>4, <3>1, <3>2, <3>3, SettledType
  <2>4. TypeOK'
    BY <1>1, <1>3, <2>1, <2>3 DEF TypeOK
  <2>5. OpenRows' = OpenRows
    BY <2>1 DEF OpenRows
  <2>6. IdsInv'
    BY <1>3, <1>4, <2>1, <2>2, <2>5 DEF IdsInv, Base
  <2> QED
    BY <1>1, <1>3, <2>2, <2>4, <2>6 DEF Base, TypesInv
<1> QED
  BY <1>8, <1>9 DEF Write

LEMMA BaseOthers ==
    ASSUME Base, TickerFires \/ Midnight \/ Close \/ Exit \/ Crash
    PROVE  Base'
<1>1. TypeOK /\ TypesInv /\ IdsInv /\ cur \in Session /\ todo \in Seq(Call)
  BY DEF Base, TypesInv, TypeOK
<1>2. CASE TickerFires
  BY <1>1, <1>2 DEF Base, TypesInv, TypeOK, IdsInv, MovesLast, OpenRows, TickerFires, Serving
<1>3. CASE Midnight
  <2>1. day' \in Dates
    BY <1>1, <1>3, Bounds DEF Midnight, TypeOK, Dates
  <2> QED
    BY <1>1, <1>3, <2>1 DEF Base, TypesInv, TypeOK, IdsInv, MovesLast, OpenRows, Midnight
<1>4. CASE Close
  <2>1. /\ todo' = Closing(cur, "SHUTDOWN") /\ life' = "closing"
        /\ UNCHANGED <<day, cur, mdate, study, next, tab, daily, rev, tick, settled,
                       faults, crashes>>
    BY <1>4 DEF Close
  <2>2. /\ todo' \in Seq(Call) /\ MovesLast(todo')
        /\ \A k \in 1 .. Len(todo') : Opens(todo'[k]) = {}
    BY <1>1, <2>1, CloseFacts
  <2>3. TypeOK'
    BY <1>1, <2>1 DEF TypeOK
  <2>4. OpenRows' = OpenRows
    BY <2>1 DEF OpenRows
  <2>5. IdsInv'
    BY <1>1, <2>1, <2>2, <2>4 DEF IdsInv
  <2> QED
    BY <2>1, <2>2, <2>3, <2>5 DEF Base, TypesInv
<1>5. CASE Exit
  BY <1>1, <1>5 DEF Base, TypesInv, TypeOK, IdsInv, MovesLast, OpenRows, Exit
<1>6. CASE Crash
  <2>1. TypeOK'
    BY <1>1, <1>6 DEF TypeOK, Crash
  <2>2. OpenRows' = OpenRows /\ todo' = <<>> /\ life' = "down" /\ UNCHANGED <<cur, next>>
    BY <1>6 DEF OpenRows, Crash
  <2>3. IdsInv'
    BY <1>1, <2>2, EmptyQueue DEF IdsInv, MovesLast
  <2> QED
    BY <2>1, <2>2, <2>3, EmptyQueue DEF Base, TypesInv
<1> QED
  BY <1>2, <1>3, <1>4, <1>5, <1>6

LEMMA BaseBoot == ASSUME Base, Boot PROVE Base'
<1>1. TypeOK /\ TypesInv /\ IdsInv /\ next \in 2 .. MaxSess + 1 /\ MaxSess \in Nat
  BY Bounds DEF Base, TypesInv, TypeOK
<1>2. /\ next \in Ids /\ cur' \in Session /\ cur'.id = next
      /\ todo' \in Seq(Call) /\ Len(todo') = 2
      /\ todo'[1] = CloseOpenSessions /\ todo'[2] = Save(cur')
      /\ study' \in Nat /\ faults' \in Nat
  BY <1>1, BootFacts
<1>3. /\ next' = next + 1 /\ mdate' = day /\ life' = "up"
      /\ UNCHANGED <<day, tab, daily, rev, tick, settled, crashes>>
  BY DEF Boot
<1>4. next' \in 2 .. MaxSess + 1
  BY <1>1, <1>2, <1>3 DEF Ids
<1>5. TypeOK'
  BY <1>1, <1>2, <1>3, <1>4 DEF TypeOK
<1>6. OpenRows' = OpenRows
  BY <1>3 DEF OpenRows
<1>7. \A i \in OpenRows' : i < next'
  <2>1. \A i \in OpenRows : i < next /\ i \in Nat
    BY <1>1 DEF IdsInv, OpenRows, Ids
  <2> QED
    BY <1>1, <1>3, <1>6, <2>1
<1>8. \A k \in 1 .. Len(todo') : k = 1 \/ k = 2
  BY <1>2
<1>9. /\ \A k \in 1 .. Len(todo') : todo'[k].call # "move" /\ Opens(todo'[k]) \subseteq {cur'}
  BY <1>2, <1>8, RecoverFacts, SaveFacts
<1>10. IdsInv'
  BY <1>1, <1>2, <1>3, <1>7, <1>9 DEF IdsInv, MovesLast
<1> QED
  BY <1>2, <1>3, <1>5, <1>10 DEF Base, TypesInv

LEMMA BaseInvariant == Spec => []Base
<1>1. Init => Base
  BY BaseInit
<1>2. ASSUME Base, [Next]_vars PROVE Base'
  <2>1. CASE UNCHANGED vars
    BY <1>2, <2>1
      DEF vars, Base, TypesInv, TypeOK, IdsInv, MovesLast, OpenRows
  <2>2. CASE Next
    <3>1. TypesInv /\ cur.id < next
      BY <1>2 DEF Base, IdsInv
    <3> QED
      BY <1>2, <2>2, <3>1, Operations, BaseServed, BaseWrite, BaseOthers, BaseBoot
  <2> QED
    BY <1>2, <2>1, <2>2
<1> QED
  BY <1>1, <1>2, PTL DEF Spec

\* The memory of the manager and its tables stay what the code takes them for,
\* whatever fails and whenever the program stops.
THEOREM TypeCorrect == Spec => []TypeOK
<1>1. Base => TypeOK
  BY DEF Base, TypesInv
<1> QED
  BY <1>1, BaseInvariant, PTL

(***************************************************************************)
(* The open row.  While the manager is up and the storage works, what is   *)
(* left of an operation's queue takes the table to one open row, that of   *)
(* the goal: every other row is still closed, the goal is open or still    *)
(* opened, and opened as it is.                                            *)
(***************************************************************************)
Completes(q, g) ==
    /\ \A i \in OpenRows : i = g.id \/ ClosedIn(q, i)
    /\ \A k \in 1 .. Len(q) : \A c \in Opens(q[k]) :
         /\ c.id = g.id \/ ClosedAfter(q, k, c.id)
         /\ c.id = g.id => Same(c, g)
    /\ g.id \in OpenRows \/ OpenedIn(q, g.id)
    /\ \A k \in 1 .. Len(q) : g.id \in Closes(q[k]) =>
         \E m \in 1 .. Len(q) : m > k /\ \E c \in Opens(q[m]) : c.id = g.id
    /\ g.id \in OpenRows => Same(tab[g.id].ses, g)

UpInv == life = "up" /\ faults = 0 => Completes(todo, Goal)

LEMMA QuietTable ==
    ASSUME Base, UpInv, life = "up", faults = 0, todo = <<>>
    PROVE  OpenRows = {cur.id} /\ Same(tab[cur.id].ses, cur)
<1>1. Completes(<<>>, cur)
  BY DEF UpInv, Goal, GoalOf
<1>2. Len(<<>>) = 0
  OBVIOUS
<1>3. \A i : ~ClosedIn(<<>>, i) /\ ~OpenedIn(<<>>, i)
  BY <1>2, EmptyQueue DEF ClosedIn, OpenedIn
<1> QED
  BY <1>1, <1>3 DEF Completes

LEMMA UpServed == ASSUME Base, UpInv, Served PROVE UpInv'
<1> SUFFICES ASSUME life' = "up", faults' = 0 PROVE Completes(todo, Goal)'
  BY DEF UpInv
<1>1. /\ UNCHANGED <<life, tab>> /\ todo = <<>> /\ faults' >= faults /\ faults \in Nat
  BY DEF Served, Base, TypesInv, TypeOK
<1>2. OpenRows = {cur.id} /\ Same(tab[cur.id].ses, cur) /\ OpenRows' = OpenRows
  BY <1>1, QuietTable DEF OpenRows
<1>3. PICK n \in Session : Leads(todo', cur, n, mdate', study') /\ GoalOf(todo', cur') = n
  BY DEF Served
<1>4. Goal' = n /\ n.id \in Nat /\ todo' \in Seq(Call)
  BY <1>3, SessionIds DEF Goal, Leads
<1>5. /\ cur.id = n.id => Same(cur, n)
      /\ cur.id # n.id => ClosedIn(todo', cur.id) /\ OpenedIn(todo', n.id)
      /\ \A k \in 1 .. Len(todo') : \A i \in Closes(todo'[k]) : i < n.id
      /\ \A k \in 1 .. Len(todo') : \A c \in Opens(todo'[k]) :
           /\ c.id = n.id => Same(c, n)
           /\ c.id # n.id => ClosedAfter(todo', k, c.id)
  BY <1>3 DEF Leads
<1>6. \A i \in OpenRows' : i = n.id \/ ClosedIn(todo', i)
  BY <1>2, <1>5
<1>7. n.id \in OpenRows' \/ OpenedIn(todo', n.id)
  BY <1>2, <1>5
<1>8. \A k \in 1 .. Len(todo') : n.id \notin Closes(todo'[k])
  <2> SUFFICES ASSUME NEW k \in 1 .. Len(todo'), n.id \in Closes(todo'[k]) PROVE FALSE
    OBVIOUS
  <2>1. n.id < n.id
    BY <1>5
  <2> QED
    BY <1>4, <2>1
<1>9. n.id \in OpenRows' => Same(tab'[n.id].ses, n)
  BY <1>1, <1>2, <1>5 DEF Same
<1> QED
  BY <1>4, <1>5, <1>6, <1>7, <1>8, <1>9 DEF Completes

LEMMA GoalStays ==
    ASSUME Base, Write, Done(Head(todo))
    PROVE  Goal' = Goal
<1> DEFINE w == Head(todo)
<1>1. todo \in Seq(Call) /\ todo # <<>> /\ TypesInv /\ MovesLast(todo)
  BY DEF Base, TypesInv, IdsInv, Write
<1>2. /\ Len(todo) \in Nat \ {0} /\ w \in Call /\ w = todo[1] /\ 1 \in 1 .. Len(todo)
      /\ Tail(todo) \in Seq(Call) /\ Len(Tail(todo)) = Len(todo) - 1
      /\ \A k \in 1 .. Len(Tail(todo)) : Tail(todo)[k] = todo[k + 1]
      /\ (Tail(todo) = <<>> <=> Len(todo) = 1)
  BY <1>1, TailFacts
<1>3. todo' = Tail(todo) /\ cur' = (IF w.call = "move" THEN w.to ELSE cur)
  BY <1>1, <1>2, DoneFacts, SMTT(40)
<1>4. w.call = "move" => Len(todo) = 1
  BY <1>1, <1>2 DEF MovesLast
<1>5. CASE Len(todo) = 1
  <2>1. todo' = <<>> /\ todo[Len(todo)] = w
    BY <1>2, <1>3, <1>5
  <2> QED
    BY <1>1, <1>3, <2>1 DEF Goal, GoalOf
<1>6. CASE Len(todo) # 1
  <2>1. Len(Tail(todo)) \in 1 .. Len(Tail(todo)) /\ Len(Tail(todo)) + 1 = Len(todo)
    BY <1>2, <1>6
  <2>2. todo' # <<>> /\ todo'[Len(todo')] = todo[Len(todo)] /\ cur' = cur
    BY <1>2, <1>3, <1>4, <1>6, <2>1
  <2> QED
    BY <1>1, <2>2 DEF Goal, GoalOf
<1> QED
  BY <1>5, <1>6

LEMMA UpDone == ASSUME Base, UpInv, Write, Done(Head(todo)) PROVE UpInv'
<1> DEFINE w == Head(todo)
           g == Goal
<1> SUFFICES ASSUME life' = "up", faults' = 0 PROVE Completes(todo, Goal)'
  BY DEF UpInv
<1>1. /\ todo \in Seq(Call) /\ todo # <<>> /\ TypesInv /\ MovesLast(todo)
      /\ life = "up"
  BY DEF Base, TypesInv, IdsInv, Write
<1>2. /\ w \in Call /\ w = todo[1] /\ Len(todo) \in Nat \ {0} /\ 1 \in 1 .. Len(todo)
      /\ \A k \in 1 .. Len(Tail(todo)) : k + 1 \in 1 .. Len(todo) /\ Tail(todo)[k] = todo[k + 1]
      /\ \A k \in 1 .. Len(todo) :
           k = 1 \/ (k - 1 \in 1 .. Len(Tail(todo)) /\ Tail(todo)[k - 1] = todo[k])
  BY <1>1, TailFacts
<1>3. todo' = Tail(todo) /\ faults = 0 /\ Goal' = g
  BY <1>1, <1>2, DoneFacts, GoalStays
<1> DEFINE t == Tail(todo)
<1>4. /\ \A k \in 1 .. Len(t) : k + 1 \in 1 .. Len(todo) /\ t[k] = todo[k + 1] /\ k \in Nat
      /\ \A k \in 1 .. Len(todo) : k = 1 \/ (k - 1 \in 1 .. Len(t) /\ t[k - 1] = todo[k])
  BY <1>2
<1> HIDE DEF t, w, g
<1>5. Completes(todo, g)
  BY <1>1, <1>3 DEF UpInv, g
<1>6. /\ \A c \in Opens(w) : /\ c \in Session /\ c.id \in OpenRows' /\ tab'[c.id].ses = c
      /\ \A i \in OpenRows' : \/ \E c \in Opens(w) : c.id = i
                              \/ /\ i \in OpenRows /\ i \notin Closes(w)
                                 /\ tab'[i].ses = tab[i].ses
      /\ \A i \in OpenRows : i \notin Closes(w) => i \in OpenRows'
  BY <1>1, <1>2, OpenAfter DEF w
<1>7. \A i : ClosedIn(todo, i) => i \in Closes(w) \/ ClosedIn(t, i)
  BY <1>2, <1>4 DEF ClosedIn
<1>8. \A i : OpenedIn(todo, i) => (\E c \in Opens(w) : c.id = i) \/ OpenedIn(t, i)
  BY <1>2, <1>4, ZenonT(60) DEF OpenedIn
<1>9. \A i : ClosedAfter(todo, 1, i) => ClosedIn(t, i)
  <2> SUFFICES ASSUME NEW i, ClosedAfter(todo, 1, i) PROVE ClosedIn(t, i)
    OBVIOUS
  <2>1. PICK m \in 1 .. Len(todo) : m > 1 /\ i \in Closes(todo[m])
    BY DEF ClosedAfter
  <2> QED
    BY <1>4, <2>1 DEF ClosedIn
<1>10. \A k \in 1 .. Len(t) : \A i : ClosedAfter(todo, k + 1, i) => ClosedAfter(t, k, i)
  <2> SUFFICES ASSUME NEW k \in 1 .. Len(t), NEW i, ClosedAfter(todo, k + 1, i)
               PROVE  ClosedAfter(t, k, i)
    OBVIOUS
  <2>1. PICK m \in 1 .. Len(todo) : m > k + 1 /\ i \in Closes(todo[m])
    BY DEF ClosedAfter
  <2>2. m # 1 /\ m - 1 > k
    BY <1>4, <2>1
  <2> QED
    BY <1>4, <2>1, <2>2 DEF ClosedAfter
<1>11. \A i \in OpenRows' : i = g.id \/ ClosedIn(t, i)
  <2> SUFFICES ASSUME NEW i \in OpenRows', i # g.id PROVE ClosedIn(t, i)
    OBVIOUS
  <2>1. CASE \E c \in Opens(w) : c.id = i
    BY <1>2, <1>5, <1>9, <2>1 DEF Completes
  <2>2. CASE i \in OpenRows /\ i \notin Closes(w)
    BY <1>5, <1>7, <2>2 DEF Completes
  <2> QED
    BY <1>6, <2>1, <2>2
<1>12. \A k \in 1 .. Len(t) : \A c \in Opens(t[k]) :
         /\ c.id = g.id \/ ClosedAfter(t, k, c.id)
         /\ c.id = g.id => Same(c, g)
  BY <1>4, <1>5, <1>10 DEF Completes
<1>13. g.id \in OpenRows' \/ OpenedIn(t, g.id)
  <2>1. CASE g.id \in Closes(w)
    <3>1. PICK m \in 1 .. Len(todo) : m > 1 /\ \E c \in Opens(todo[m]) : c.id = g.id
      BY <1>2, <1>5, <2>1 DEF Completes
    <3> QED
      BY <1>4, <3>1 DEF OpenedIn
  <2>2. CASE g.id \notin Closes(w)
    BY <1>5, <1>6, <1>8, <2>2 DEF Completes
  <2> QED
    BY <2>1, <2>2
<1>14. \A k \in 1 .. Len(t) : g.id \in Closes(t[k]) =>
         \E m \in 1 .. Len(t) : m > k /\ \E c \in Opens(t[m]) : c.id = g.id
  <2> SUFFICES ASSUME NEW k \in 1 .. Len(t), g.id \in Closes(t[k])
               PROVE  \E m \in 1 .. Len(t) : m > k /\ \E c \in Opens(t[m]) : c.id = g.id
    OBVIOUS
  <2>1. PICK m \in 1 .. Len(todo) : m > k + 1 /\ \E c \in Opens(todo[m]) : c.id = g.id
    BY <1>4, <1>5 DEF Completes
  <2>2. m # 1 /\ m - 1 > k
    BY <1>4, <2>1
  <2> QED
    BY <1>4, <2>1, <2>2
<1>15. g.id \in OpenRows' => Same(tab'[g.id].ses, g)
  <2>1. ASSUME NEW c \in Opens(w), c.id = g.id PROVE Same(tab'[g.id].ses, g)
    BY <1>2, <1>5, <1>6, <2>1 DEF Completes
  <2>2. ASSUME g.id \in OpenRows, tab'[g.id].ses = tab[g.id].ses
        PROVE  Same(tab'[g.id].ses, g)
    BY <1>5, <2>2 DEF Completes
  <2> QED
    BY <1>6, <2>1, <2>2
<1>16. todo' = t
  BY <1>3 DEF t
<1> QED
  BY <1>3, <1>11, <1>12, <1>13, <1>14, <1>15, <1>16 DEF Completes

LEMMA UpBoot == ASSUME Base, Boot PROVE UpInv'
<1>1. TypesInv /\ next \in Nat /\ \A i \in OpenRows : i < next
  BY Bounds DEF Base, TypesInv, TypeOK, IdsInv
<1>2. /\ cur' \in Session /\ cur'.id = next /\ todo' \in Seq(Call) /\ Len(todo') = 2
      /\ todo'[1] = CloseOpenSessions /\ todo'[2] = Save(cur')
  BY <1>1, BootFacts
<1>3. tab' = tab /\ OpenRows' = OpenRows
  BY DEF Boot, OpenRows
<1>4. /\ Opens(todo'[1]) = {} /\ Closes(todo'[1]) = Ids
      /\ Opens(todo'[2]) = {cur'} /\ Closes(todo'[2]) = {} /\ todo'[2].call = "save"
  BY <1>2, RecoverFacts, SaveFacts
<1>5. Goal' = cur'
  BY <1>2, <1>4 DEF Goal, GoalOf
<1>6. 1 \in 1 .. Len(todo') /\ 2 \in 1 .. Len(todo') /\ \A k \in 1 .. Len(todo') : k = 1 \/ k = 2
  BY <1>2
<1>7. \A i \in OpenRows' : ClosedIn(todo', i)
  BY <1>3, <1>4, <1>6 DEF ClosedIn, OpenRows
<1>8. cur'.id \notin OpenRows'
  BY <1>1, <1>2, <1>3
<1>9. OpenedIn(todo', cur'.id)
  BY <1>4, <1>6 DEF OpenedIn
<1>10. \A k \in 1 .. Len(todo') : \A c \in Opens(todo'[k]) : c = cur'
  BY <1>4, <1>6
<1>11. \A k \in 1 .. Len(todo') : cur'.id \in Closes(todo'[k]) =>
         \E m \in 1 .. Len(todo') : m > k /\ \E c \in Opens(todo'[m]) : c.id = cur'.id
  <2>1. \A k \in 1 .. Len(todo') : cur'.id \in Closes(todo'[k]) => k = 1
    BY <1>4, <1>6
  <2>2. 2 > 1 /\ \E c \in Opens(todo'[2]) : c.id = cur'.id
    BY <1>4
  <2> QED
    BY <1>6, <2>1, <2>2
<1> QED
  BY <1>5, <1>7, <1>8, <1>9, <1>10, <1>11 DEF UpInv, Completes, Same

LEMMA UpInit == Init => UpInv
<1> SUFFICES ASSUME Init PROVE UpInv
  OBVIOUS
<1>1. todo = <<>> /\ Goal = cur
  BY DEF Init, Goal, GoalOf
<1>2. \A k \in 1 .. Len(todo) : FALSE
  BY <1>1, EmptyQueue
<1>3. 1 \in Ids /\ 2 \in Ids
  BY Bounds DEF Ids
<1>4. OpenRows = {cur.id} /\ tab[cur.id].ses = cur
  <2>1. CASE /\ cur = New(1, "STANDBY", "MANUAL", 0)
             /\ tab = [i \in Ids |-> IF i = 1 THEN [ses |-> cur, end |-> "OPEN"] ELSE NoRow]
    <3>1. cur.id = 1
      BY <2>1 DEF New
    <3>2. \A i \in Ids : tab[i] = IF i = 1 THEN [ses |-> cur, end |-> "OPEN"] ELSE NoRow
      BY <2>1
    <3> QED
      BY <1>3, <3>1, <3>2 DEF OpenRows, NoRow
  <2>2. CASE /\ cur = New(2, "BREAK", "AUTOMATION", 0)
             /\ tab = [i \in Ids |->
                      CASE i = 1 -> [ses |-> [cur EXCEPT !.id = 1], end |-> "RESTART_RECOVERY"]
                        [] i = 2 -> [ses |-> cur, end |-> "OPEN"]
                        [] OTHER -> NoRow]
    <3>1. cur.id = 2
      BY <2>2 DEF New
    <3> DEFINE c1 == [cur EXCEPT !.id = 1]
    <3>2. tab = [i \in Ids |-> CASE i = 1 -> [ses |-> c1, end |-> "RESTART_RECOVERY"]
                                 [] i = 2 -> [ses |-> cur, end |-> "OPEN"]
                                 [] OTHER -> NoRow]
      BY <2>2
    <3> HIDE DEF c1
    <3>3. \A i \in Ids : /\ i = 1 => tab[i] = [ses |-> c1, end |-> "RESTART_RECOVERY"]
                         /\ i = 2 => tab[i] = [ses |-> cur, end |-> "OPEN"]
                         /\ i \notin {1, 2} => tab[i] = NoRow
      BY <3>2
    <3> QED
      BY <1>3, <3>1, <3>3 DEF OpenRows, NoRow
  <2> QED
    BY <2>1, <2>2 DEF Init
<1> QED
  BY <1>1, <1>2, <1>4 DEF UpInv, Completes, Same

LEMMA UpStep == ASSUME Base, UpInv, [Next]_vars PROVE UpInv'
<1>1. TypesInv /\ cur.id < next /\ faults \in Nat
  BY DEF Base, IdsInv, TypesInv, TypeOK
<1>2. CASE UNCHANGED <<life, tab, todo, cur, faults>>
  BY <1>2 DEF UpInv, Completes, Goal, GoalOf, OpenRows
<1>3. CASE TickerFires \/ Midnight
  BY <1>2, <1>3 DEF TickerFires, Midnight
<1>4. CASE Write
  <2>1. CASE Failed(Head(todo))
    BY <1>1, <1>4, <2>1, FailedFacts DEF UpInv, Write
  <2> QED
    BY <1>4, <2>1, UpDone DEF Write
<1>5. CASE Close \/ Exit \/ Crash
  BY <1>5 DEF UpInv, Close, Exit, Crash
<1>6. CASE UNCHANGED vars
  BY <1>2, <1>6 DEF vars
<1> QED
  BY <1>1, <1>3, <1>4, <1>5, <1>6, Operations, UpServed, UpBoot

LEMMA UpInvariant == Spec => [](Base /\ UpInv)
<1>1. Init => UpInv
  BY UpInit
<1>2. Base /\ UpInv /\ [Next]_vars => UpInv'
  BY UpStep
<1> QED
  BY <1>1, <1>2, BaseInvariant, PTL DEF Spec

\* Between two operations exactly the manager's session is open in the table,
\* in the manager's mode: whatever the order of operations, ticks, midnights,
\* crashes and restarts.
THEOREM ExactlyOneOpenRow == Spec => []OneOpenRow
<1>1. Base /\ UpInv => OneOpenRow
  BY QuietTable DEF OneOpenRow, Quiet, Same
<1> QED
  BY <1>1, UpInvariant, PTL

(***************************************************************************)
(* Completed sessions.  Without calls after Close, every row that is still *)
(* open, or will be opened, is not among the completed ones.               *)
(***************************************************************************)
SettledInv ==
    faults = 0 =>
      /\ \A i \in OpenRows : settled <= i
      /\ settled <= next
      /\ life = "up" =>
           /\ settled <= cur.id
           /\ \A k \in 1 .. Len(todo) :
                /\ \A c \in Opens(todo[k]) : settled <= c.id
                /\ todo[k].call = "end" => todo[k].row.end # "SHUTDOWN"
      /\ life = "closing" =>
           /\ OpenRows \subseteq {cur.id}
           /\ \A k \in 1 .. Len(todo) : Opens(todo[k]) = {} /\ Closes(todo[k]) \subseteq {cur.id}

LEMMA SettledServed ==
    ASSUME Base, SettledInv, Served, ~LateCalls
    PROVE  SettledInv'
<1> SUFFICES ASSUME faults' = 0
             PROVE  /\ \A i \in OpenRows' : settled' <= i
                    /\ settled' <= next' /\ life' = "up" /\ settled' <= cur'.id
                    /\ \A k \in 1 .. Len(todo') :
                         /\ \A c \in Opens(todo'[k]) : settled' <= c.id
                         /\ todo'[k].call = "end" => todo'[k].row.end # "SHUTDOWN"
  BY DEF SettledInv
<1>1. /\ UNCHANGED <<life, tab, settled>> /\ life = "up" /\ faults = 0
      /\ next <= next' /\ next' \in Nat
  BY DEF Served, Serving, Base, TypesInv, TypeOK
<1>2. PICK n \in Session : /\ Leads(todo', cur, n, mdate', study')
                           /\ cur' \in Session /\ cur.id <= cur'.id
  BY DEF Served
<1>3. /\ settled \in Nat /\ next \in Nat /\ cur.id \in Nat /\ cur'.id \in Nat
  BY <1>2, Bounds, SessionIds DEF Base, TypesInv, TypeOK
<1>4. OpenRows' = OpenRows
  BY <1>1 DEF OpenRows
<1>5. settled <= next /\ settled <= cur.id /\ \A i \in OpenRows : settled <= i
  BY <1>1 DEF SettledInv
<1>6. settled' <= next' /\ settled' <= cur'.id /\ \A i \in OpenRows' : settled' <= i
  BY <1>1, <1>2, <1>3, <1>4, <1>5
<1>7. ASSUME NEW k \in 1 .. Len(todo')
      PROVE  /\ \A c \in Opens(todo'[k]) : settled' <= c.id
             /\ todo'[k].call = "end" => todo'[k].row.end # "SHUTDOWN"
  <2>1. /\ todo'[k] \in Call
        /\ \A c \in Opens(todo'[k]) : cur.id <= c.id
        /\ todo'[k].call = "end" => todo'[k].row.end # "SHUTDOWN"
    BY <1>2 DEF Leads
  <2>2. \A c \in Opens(todo'[k]) : c.id \in Nat
    BY <2>1, CallParts, SessionIds DEF Opens
  <2> QED
    BY <1>1, <1>3, <1>5, <2>1, <2>2
<1> QED
  BY <1>1, <1>6, <1>7

LEMMA SettledWrite ==
    ASSUME Base, UpInv, SettledInv, Write
    PROVE  SettledInv'
<1> DEFINE w == Head(todo)
           shut == w.call = "end" /\ w.row.end = "SHUTDOWN"
           b == IF shut THEN w.row.ses.id + 1 ELSE IF todo' = <<>> THEN cur'.id ELSE 1
<1> SUFFICES ASSUME faults' = 0 PROVE SettledInv'
  BY DEF SettledInv
<1>1. /\ todo \in Seq(Call) /\ todo # <<>> /\ TypesInv /\ life \in {"up", "closing"}
      /\ settled \in Nat /\ settled >= 1 /\ next \in Nat /\ cur \in Session
      /\ cur.id \in Nat /\ cur.id < next /\ \A i \in OpenRows : i < next /\ i \in Nat /\ i >= 1
  BY Bounds, SessionIds DEF Base, TypesInv, TypeOK, IdsInv, Write, OpenRows, Ids
<1>2. ~Failed(w)
  BY <1>1, FailedFacts
<1>3. Done(w) /\ settled' = Max({settled, b}) /\ UNCHANGED <<life, next>>
  BY <1>2 DEF Write
<1>4. /\ w \in Call /\ w = todo[1] /\ 1 \in 1 .. Len(todo)
      /\ \A k \in 1 .. Len(Tail(todo)) : k + 1 \in 1 .. Len(todo) /\ Tail(todo)[k] = todo[k + 1]
  BY <1>1, TailFacts
<1>5. /\ todo' = Tail(todo) /\ faults' = faults /\ cur' \in Session
      /\ cur' = (IF w.call = "move" THEN w.to ELSE cur)
  BY <1>1, <1>3, <1>4, DoneFacts
<1>6. \A i \in OpenRows' : (\E c \in Opens(w) : c.id = i) \/ (i \in OpenRows /\ i \notin Closes(w))
  BY <1>1, <1>3, <1>4, OpenAfter
<1>7. w.call = "end" => w.row.ses.id \in Nat
  BY <1>4, CallParts, SessionIds
<1>8. cur'.id \in Nat
  BY <1>5, SessionIds
<1>9. b \in Nat /\ settled' = IF settled >= b THEN settled ELSE b
  BY <1>1, <1>3, <1>7, <1>8, MaxOfTwo, SMTT(40)
<1>10. /\ \A i \in OpenRows : settled <= i
       /\ settled <= next
       /\ life = "up" =>
            /\ settled <= cur.id
            /\ \A k \in 1 .. Len(todo) :
                 /\ \A c \in Opens(todo[k]) : settled <= c.id
                 /\ todo[k].call = "end" => todo[k].row.end # "SHUTDOWN"
       /\ life = "closing" =>
            /\ OpenRows \subseteq {cur.id}
            /\ \A k \in 1 .. Len(todo) : Opens(todo[k]) = {} /\ Closes(todo[k]) \subseteq {cur.id}
  BY <1>5 DEF SettledInv
<1>11. Base' /\ UpInv'
  BY <1>3, BaseWrite, UpDone
<1>12. cur'.id < next' /\ \A i \in OpenRows' : i < next' /\ i \in Nat
  BY <1>11 DEF Base, IdsInv, OpenRows, Ids
<1>13. CASE life = "up"
  <2>1. ~shut /\ \A c \in Opens(w) : settled <= c.id
    BY <1>4, <1>10, <1>13
  <2>2. settled <= cur'.id
    BY <1>5, <1>10, <1>13, <2>1 DEF Opens
  <2>3. \A i \in OpenRows' : settled <= i
    BY <1>6, <1>10, <2>1
  <2>4. todo' = <<>> => OpenRows' = {cur'.id}
    <3> SUFFICES ASSUME todo' = <<>> PROVE OpenRows' = {cur'.id}
      OBVIOUS
    <3>1. Completes(todo, Goal)' /\ Goal' = cur'
      BY <1>3, <1>11, <1>13 DEF UpInv, Goal, GoalOf
    <3>2. \A i : ~ClosedIn(todo', i) /\ ~OpenedIn(todo', i)
      BY EmptyQueue DEF ClosedIn, OpenedIn
    <3> QED
      BY <3>1, <3>2 DEF Completes
  <2>5. todo' = <<>> => settled' = cur'.id
    BY <1>1, <1>8, <1>9, <2>1, <2>2
  <2>6. todo' # <<>> => settled' = settled
    BY <1>1, <1>9, <2>1
  <2>7. settled' <= next' /\ settled' <= cur'.id /\ \A i \in OpenRows' : settled' <= i
    <3>1. cur'.id < next' /\ next' \in Nat /\ settled <= next'
      BY <1>1, <1>3, <1>10, <1>12
    <3>2. CASE todo' = <<>>
      BY <1>8, <2>4, <2>5, <3>1, <3>2
    <3>3. CASE todo' # <<>>
      BY <2>2, <2>3, <2>6, <3>1, <3>3
    <3> QED
      BY <3>2, <3>3
  <2>8. \A k \in 1 .. Len(todo') :
          /\ \A c \in Opens(todo'[k]) : settled' <= c.id
          /\ todo'[k].call = "end" => todo'[k].row.end # "SHUTDOWN"
    <3>1. CASE todo' = <<>>
      BY <3>1, EmptyQueue
    <3>2. CASE todo' # <<>>
      BY <1>4, <1>5, <1>10, <1>13, <2>6, <3>2
    <3> QED
      BY <3>1, <3>2
  <2> QED
    BY <1>3, <1>13, <2>7, <2>8 DEF SettledInv
<1>14. CASE life = "closing"
  <2>1. Opens(w) = {} /\ Closes(w) \subseteq {cur.id} /\ OpenRows \subseteq {cur.id}
    BY <1>4, <1>10, <1>14
  <2>2. w.call # "move" /\ cur' = cur
    <3>1. w.call # "move"
      BY <2>1 DEF Opens
    <3> QED
      BY <1>5, <3>1
  <2>3. OpenRows' \subseteq OpenRows /\ \A i \in OpenRows' : i \notin Closes(w)
    BY <1>6, <2>1
  <2>4. ASSUME shut PROVE settled' <= next' /\ \A i \in OpenRows' : settled' <= i
    <3>1. w.row.ses.id = cur.id /\ Closes(w) = {cur.id}
      BY <2>1, <2>4 DEF Closes
    <3>2. OpenRows' = {} /\ b = cur.id + 1
      BY <2>1, <2>3, <2>4, <3>1
    <3>3. settled <= next /\ next' = next
      BY <1>3, <1>10
    <3> HIDE DEF b
    <3>4. settled' <= next'
      BY <1>1, <1>9, <3>2, <3>3
    <3> QED
      BY <3>2, <3>4
  <2>5. ASSUME ~shut PROVE settled' <= next' /\ \A i \in OpenRows' : settled' <= i
    <3>1. b <= cur.id
      BY <1>1, <2>2, <2>5, SessionIds DEF Ids
    <3>2. \A i \in OpenRows' : i = cur.id /\ settled <= i
      BY <1>10, <2>1, <2>3
    <3>3. settled <= next /\ next' = next
      BY <1>3, <1>10
    <3> HIDE DEF b
    <3>4. settled' <= next' /\ (settled' = settled \/ settled' <= cur.id)
      BY <1>1, <1>9, <3>1, <3>3
    <3> QED
      BY <1>1, <3>2, <3>4
  <2>6. settled' <= next' /\ \A i \in OpenRows' : settled' <= i
    BY <2>4, <2>5
  <2>7. \A k \in 1 .. Len(todo') : Opens(todo'[k]) = {} /\ Closes(todo'[k]) \subseteq {cur'.id}
    BY <1>4, <1>5, <1>10, <1>14, <2>2
  <2> QED
    BY <1>3, <1>14, <2>1, <2>2, <2>3, <2>6, <2>7 DEF SettledInv
<1> QED
  BY <1>1, <1>13, <1>14

LEMMA SettledOthers ==
    ASSUME Base, UpInv, SettledInv, TickerFires \/ Midnight \/ Close \/ Exit \/ Crash
    PROVE  SettledInv'
<1> SUFFICES ASSUME faults' = 0 PROVE SettledInv'
  BY DEF SettledInv
<1>1. /\ faults = 0 /\ UNCHANGED <<tab, cur, settled, next>> /\ OpenRows' = OpenRows
  BY DEF TickerFires, Midnight, Close, Exit, Crash, OpenRows
<1>2. CASE TickerFires \/ Midnight
  <2>1. UNCHANGED <<life, todo>>
    BY <1>2 DEF TickerFires, Midnight
  <2> QED
    BY <1>1, <2>1 DEF SettledInv
<1>3. CASE Close
  <2>1. /\ life = "up" /\ todo = <<>> /\ todo' = Closing(cur, "SHUTDOWN") /\ life' = "closing"
        /\ cur \in Session
    BY <1>3 DEF Close, Base, TypesInv, TypeOK
  <2>2. OpenRows = {cur.id}
    BY <1>1, <2>1, QuietTable
  <2>3. \A k \in 1 .. Len(todo') : Opens(todo'[k]) = {} /\ Closes(todo'[k]) \subseteq {cur.id}
    BY <2>1, CloseFacts
  <2> QED
    BY <1>1, <2>1, <2>2, <2>3 DEF SettledInv
<1>4. CASE Exit \/ Crash
  <2>1. life' = "down"
    BY <1>4 DEF Exit, Crash
  <2> QED
    BY <1>1, <2>1 DEF SettledInv
<1> QED
  BY <1>2, <1>3, <1>4

LEMMA SettledBoot == ASSUME Base, SettledInv, Boot PROVE SettledInv'
<1> SUFFICES ASSUME faults' = 0 PROVE SettledInv'
  BY DEF SettledInv
<1>1. /\ faults = 0 /\ TypesInv /\ next \in Nat /\ settled \in Nat
  BY BootFacts, Bounds DEF Base, TypesInv, TypeOK
<1>2. /\ UNCHANGED <<tab, settled>> /\ OpenRows' = OpenRows /\ next' = next + 1 /\ life' = "up"
  BY DEF Boot, OpenRows
<1>3. /\ cur'.id = next /\ Len(todo') = 2
      /\ todo'[1] = CloseOpenSessions /\ todo'[2] = Save(cur')
  BY <1>1, BootFacts
<1>4. settled <= next /\ \A i \in OpenRows : settled <= i
  BY <1>1 DEF SettledInv
<1>5. settled <= next'
  BY <1>1, <1>2, <1>4
<1>6. \A k \in 1 .. Len(todo') : todo'[k].call # "end" /\ Opens(todo'[k]) \subseteq {cur'}
  <2>1. \A k \in 1 .. Len(todo') : k = 1 \/ k = 2
    BY <1>3
  <2> QED
    BY <1>3, <2>1, RecoverFacts, SaveFacts
<1> QED
  BY <1>2, <1>3, <1>4, <1>5, <1>6 DEF SettledInv

LEMMA SettledInit == Init => SettledInv
<1> SUFFICES ASSUME Init PROVE SettledInv
  OBVIOUS
<1>1. Base /\ UpInv /\ life = "up" /\ faults = 0 /\ todo = <<>> /\ settled = cur.id
  BY BaseInit, UpInit DEF Init
<1>2. OpenRows = {cur.id} /\ cur.id \in Nat /\ next \in Nat /\ cur.id < next
  BY <1>1, QuietTable, SessionIds, Bounds DEF Base, TypesInv, TypeOK, IdsInv
<1> QED
  BY <1>1, <1>2, EmptyQueue DEF SettledInv

LEMMA SettledStep ==
    ASSUME Base, UpInv, SettledInv, [Next]_vars, ~LateCalls
    PROVE  SettledInv'
<1>1. TypesInv /\ cur.id < next
  BY DEF Base, IdsInv
<1>2. CASE UNCHANGED vars
  BY <1>2 DEF vars, SettledInv, OpenRows
<1> QED
  BY <1>1, <1>2, Operations, SettledServed, SettledWrite, SettledOthers, SettledBoot

\* manager.go:143, with Close the manager's last call and storage that works: a
\* session that was left or shut down decides no mode after a restart, over any
\* number of crashes and restarts.
THEOREM CompletedStayCompleted ==
    ASSUME ~LateCalls
    PROVE  Spec => CompletedNeverRecovered
<1>1. Init => SettledInv
  BY SettledInit
<1>2. Base /\ UpInv /\ SettledInv /\ [Next]_vars => SettledInv'
  BY SettledStep
<1>3. Spec => []SettledInv
  BY <1>1, <1>2, UpInvariant, PTL DEF Spec
<1>4. ASSUME Base, SettledInv, Next,
             life = "down", life' = "up", faults' = 0, cur'.mode # "STANDBY"
      PROVE  \E i \in OpenRows : i >= settled /\ tab[i].ses.mode = cur'.mode
  <2>1. TypesInv /\ cur.id < next /\ settled \in Nat
    BY <1>4, Bounds DEF Base, IdsInv, TypesInv, TypeOK
  <2>2. Boot
    BY <1>4, <2>1, Operations
      DEF Served, Serving, TickerFires, Write, Midnight, Close, Exit, Crash
  <2>3. faults = 0 /\ cur' = Recovered /\ next \in Ids
    BY <1>4, <2>1, <2>2, BootFacts DEF Base, TypesInv, TypeOK
  <2>4. PICK i \in OpenRows : tab[i].ses.mode = cur'.mode
    BY <1>4, <2>1, <2>3, RecoveredFacts
  <2>5. settled <= i /\ i \in Nat
    BY <1>4, <2>3 DEF SettledInv, OpenRows, Ids
  <2> QED
    BY <2>1, <2>4, <2>5
<1>5. Base /\ SettledInv /\ [Next]_vars =>
        [life = "down" /\ life' = "up" /\ faults' = 0 /\ cur'.mode # "STANDBY" =>
           \E i \in OpenRows : i >= settled /\ tab[i].ses.mode = cur'.mode]_vars
  BY <1>4
<1> QED
  BY <1>3, <1>5, BaseInvariant, PTL DEF Spec, CompletedNeverRecovered

(***************************************************************************)
(* The day's total.  The counter in memory is never behind the stored      *)
(* total of its date, later dates have none, and what is queued is the     *)
(* counter itself.                                                         *)
(***************************************************************************)
TotInv ==
    faults = 0 =>
      /\ mdate <= day /\ tick \in {NoTick, day}
      /\ \A d \in Dates : d > mdate => daily[d] = 0
      /\ life # "down" => daily[mdate] <= study
      /\ \A k \in 1 .. Len(todo) :
           todo[k].call = "daily" => todo[k].date = mdate /\ todo[k].secs = study

LEMMA DateFacts ==
    ASSUME TypesInv
    PROVE  /\ day \in Nat /\ mdate \in Nat /\ day \in Dates /\ mdate \in Dates
           /\ NoTick \notin Dates /\ tick \in Dates \cup {NoTick}
           /\ study \in Nat /\ daily \in [Dates -> Nat] /\ faults \in Nat
           /\ \A d \in Dates : d \in Nat /\ daily[d] \in Nat
  BY Bounds DEF TypesInv, TypeOK, Dates, NoTick

LEMMA TotServed == ASSUME Base, TotInv, Served PROVE TotInv'
<1> SUFFICES ASSUME faults' = 0 PROVE TotInv'
  BY DEF TotInv
<1>1. /\ UNCHANGED <<day, life, daily>> /\ faults = 0 /\ life # "down"
      /\ mdate' \in Dates /\ mdate' \in {mdate, day, tick} /\ study' \in Nat
      /\ (mdate' = mdate => study' >= study) /\ tick' \in {tick, NoTick}
  BY DateFacts DEF Served, Serving, Base
<1>2. /\ day \in Nat /\ mdate \in Nat /\ day \in Dates /\ mdate \in Dates
      /\ NoTick \notin Dates /\ study \in Nat /\ mdate' \in Nat
      /\ \A d \in Dates : d \in Nat /\ daily[d] \in Nat
  BY <1>1, DateFacts DEF Base
<1>3. /\ mdate <= day /\ tick \in {NoTick, day} /\ daily[mdate] <= study
      /\ \A d \in Dates : d > mdate => daily[d] = 0
  BY <1>1 DEF TotInv
<1>4. mdate' \in {mdate, day}
  BY <1>1, <1>2, <1>3
<1>5. mdate' <= day' /\ tick' \in {NoTick, day'}
  BY <1>1, <1>2, <1>3, <1>4
<1>6. \A d \in Dates : d > mdate' => daily'[d] = 0
  BY <1>1, <1>2, <1>3, <1>4
<1>7. daily'[mdate'] <= study'
  <2>1. CASE mdate' = mdate
    BY <1>1, <1>2, <1>3, <2>1
  <2>2. CASE mdate' # mdate
    <3>1. daily[mdate'] = 0
      BY <1>1, <1>2, <1>3, <1>4, <2>2
    <3> QED
      BY <1>1, <1>2, <3>1
  <2> QED
    BY <2>1, <2>2
<1>8. \A k \in 1 .. Len(todo') :
        todo'[k].call = "daily" => todo'[k].date = mdate' /\ todo'[k].secs = study'
  BY DEF Served, Leads
<1> QED
  BY <1>5, <1>6, <1>7, <1>8 DEF TotInv

\* A call that succeeds: the stored total grows to the counter, or stays.
LEMMA TotDone ==
    ASSUME Base, TotInv, Write, Done(Head(todo)), faults = 0
    PROVE  /\ \A d \in Dates : daily'[d] >= daily[d]
           /\ \A d \in Dates : d # mdate => daily'[d] = daily[d]
           /\ daily'[mdate] <= study
<1> DEFINE w == Head(todo)
<1>1. /\ todo \in Seq(Call) /\ todo # <<>> /\ TypesInv /\ life # "down"
      /\ study \in Nat /\ mdate \in Dates /\ \A d \in Dates : daily[d] \in Nat
  BY DateFacts DEF Base, TypesInv, TypeOK, Write
<1>2. w \in Call /\ w = todo[1] /\ 1 \in 1 .. Len(todo)
  BY <1>1, TailFacts
<1>3. daily[mdate] <= study /\ (w.call = "daily" => w.date = mdate /\ w.secs = study)
  BY <1>1, <1>2 DEF TotInv
<1>4. CASE w.call = "daily"
  <2>1. \A d \in Dates : daily'[d] = IF d = mdate THEN study ELSE daily[d]
    BY <1>1, <1>2, <1>3, <1>4, DoneFacts
  <2> QED
    BY <1>1, <1>3, <2>1
<1>5. CASE w.call # "daily"
  <2>1. daily' = daily
    BY <1>1, <1>2, <1>5, DoneFacts
  <2> QED
    BY <1>1, <1>3, <2>1
<1> QED
  BY <1>4, <1>5

LEMMA TotWrite == ASSUME Base, TotInv, Write PROVE TotInv'
<1> SUFFICES ASSUME faults' = 0 PROVE TotInv'
  BY DEF TotInv
<1>1. /\ todo \in Seq(Call) /\ todo # <<>> /\ TypesInv /\ mdate \in Nat /\ mdate \in Dates
      /\ \A d \in Dates : d \in Nat
  BY DateFacts DEF Base, TypesInv, Write
<1>2. Done(Head(todo)) /\ UNCHANGED <<day, life, mdate, study, tick>>
  BY <1>1, FailedFacts DEF Write
<1>3. /\ Head(todo) \in Call
      /\ \A k \in 1 .. Len(Tail(todo)) : k + 1 \in 1 .. Len(todo) /\ Tail(todo)[k] = todo[k + 1]
  BY <1>1, TailFacts
<1>4. faults = 0 /\ todo' = Tail(todo)
  BY <1>1, <1>2, <1>3, DoneFacts
<1>5. /\ \A d \in Dates : d # mdate => daily'[d] = daily[d]
      /\ daily'[mdate] <= study
  BY <1>2, <1>4, TotDone
<1>6. /\ mdate <= day /\ tick \in {NoTick, day}
      /\ \A d \in Dates : d > mdate => daily[d] = 0
      /\ \A k \in 1 .. Len(todo) :
           todo[k].call = "daily" => todo[k].date = mdate /\ todo[k].secs = study
  BY <1>4 DEF TotInv
<1>7. \A d \in Dates : d > mdate => daily'[d] = 0
  BY <1>1, <1>5, <1>6
<1>8. \A k \in 1 .. Len(todo') :
        todo'[k].call = "daily" => todo'[k].date = mdate /\ todo'[k].secs = study
  BY <1>3, <1>4, <1>6
<1> QED
  BY <1>2, <1>5, <1>6, <1>7, <1>8 DEF TotInv

LEMMA TotBoot == ASSUME Base, TotInv, Boot PROVE TotInv'
<1> SUFFICES ASSUME faults' = 0 PROVE TotInv'
  BY DEF TotInv
<1>1. TypesInv /\ day \in Nat /\ mdate \in Nat /\ day \in Dates
      /\ \A d \in Dates : d \in Nat /\ daily[d] \in Nat
  BY DateFacts DEF Base
<1>2. /\ faults = 0 /\ study' = daily[day] /\ Len(todo') = 2
      /\ todo'[1] = CloseOpenSessions /\ todo'[2] = Save(cur')
  BY <1>1, BootFacts DEF TypesInv, TypeOK
<1>3. mdate' = day /\ UNCHANGED <<day, daily, tick>>
  BY DEF Boot
<1>4. /\ mdate <= day /\ tick \in {NoTick, day}
      /\ \A d \in Dates : d > mdate => daily[d] = 0
  BY <1>2 DEF TotInv
<1>5. \A d \in Dates : d > day => daily[d] = 0
  BY <1>1, <1>4
<1>6. \A k \in 1 .. Len(todo') : todo'[k].call # "daily"
  <2>1. \A k \in 1 .. Len(todo') : k = 1 \/ k = 2
    BY <1>2
  <2> QED
    BY <1>2, <2>1, RecoverFacts, SaveFacts
<1>7. mdate' <= day' /\ daily'[mdate'] <= study'
  BY <1>1, <1>2, <1>3
<1> QED
  BY <1>3, <1>4, <1>5, <1>6, <1>7 DEF TotInv

LEMMA TotOthers ==
    ASSUME Base, TotInv, ~LateTicks, TickerFires \/ Midnight \/ Close \/ Exit \/ Crash
    PROVE  TotInv'
<1> SUFFICES ASSUME faults' = 0 PROVE TotInv'
  BY DEF TotInv
<1>1. /\ faults = 0 /\ UNCHANGED <<mdate, study, daily>>
  BY DEF TickerFires, Midnight, Close, Exit, Crash
<1>2. day \in Nat /\ mdate \in Nat
  BY DateFacts DEF Base
<1>3. CASE TickerFires
  BY <1>1, <1>3 DEF TotInv, TickerFires, Serving
<1>4. CASE Midnight
  <2>1. day' = day + 1 /\ tick = NoTick /\ UNCHANGED <<tick, life, todo>>
    BY <1>4 DEF Midnight
  <2>2. mdate' <= day'
    BY <1>1, <1>2, <2>1 DEF TotInv
  <2> QED
    BY <1>1, <2>1, <2>2 DEF TotInv
<1>5. CASE Close
  <2>1. /\ life = "up" /\ cur \in Session /\ todo' = Closing(cur, "SHUTDOWN")
        /\ UNCHANGED <<day, tick>>
    BY <1>5 DEF Close, Base, TypesInv, TypeOK
  <2>2. \A k \in 1 .. Len(todo') : todo'[k].call # "daily"
    BY <2>1, CloseFacts
  <2> QED
    BY <1>1, <2>1, <2>2 DEF TotInv
<1>6. CASE Exit \/ Crash
  <2>1. life' = "down" /\ todo' = <<>> /\ tick' = NoTick /\ day' = day
    BY <1>6 DEF Exit, Crash
  <2> QED
    BY <1>1, <2>1, EmptyQueue DEF TotInv
<1> QED
  BY <1>3, <1>4, <1>5, <1>6

LEMMA TotInit == Init => TotInv
<1> SUFFICES ASSUME Init PROVE TotInv
  OBVIOUS
<1>1. /\ day = 0 /\ mdate = 0 /\ todo = <<>> /\ tick = NoTick /\ study = 0
      /\ daily = [d \in Dates |-> 0] /\ 0 \in Dates
  BY Bounds DEF Init, Dates
<1> QED
  BY <1>1, EmptyQueue DEF TotInv

LEMMA TotStep ==
    ASSUME Base, TotInv, [Next]_vars, ~LateTicks
    PROVE  TotInv'
<1>1. TypesInv /\ cur.id < next
  BY DEF Base, IdsInv
<1>2. CASE UNCHANGED vars
  BY <1>2 DEF vars, TotInv
<1> QED
  BY <1>1, <1>2, Operations, TotServed, TotWrite, TotOthers, TotBoot

\* As long as ticks arrive on their day and no storage call fails, no midnight, no
\* crash, no restart and no operation takes study time from a date's stored total.
THEOREM TotalsOnlyGrow ==
    ASSUME ~LateTicks
    PROVE  Spec => TotalsNeverShrink
<1>1. Init => TotInv
  BY TotInit
<1>2. Base /\ TotInv /\ [Next]_vars => TotInv'
  BY TotStep
<1>3. Spec => []TotInv
  BY <1>1, <1>2, BaseInvariant, PTL DEF Spec
<1>4. ASSUME Base, TotInv, Next, faults' = 0
      PROVE  \A d \in Dates : daily'[d] >= daily[d]
  <2>1. TypesInv /\ cur.id < next /\ \A d \in Dates : daily[d] \in Nat
    BY <1>4, DateFacts DEF Base, IdsInv
  <2>2. CASE Write
    <3>1. Done(Head(todo)) /\ todo # <<>> /\ todo \in Seq(Call)
      BY <1>4, <2>1, <2>2, FailedFacts DEF Write, TypesInv
    <3>2. faults = 0
      BY <1>4, <3>1 DEF Done
    <3> QED
      BY <1>4, <2>2, <3>1, <3>2, TotDone
  <2>3. CASE Served \/ TickerFires \/ Midnight \/ Close \/ Exit \/ Crash \/ Boot
    <3>1. daily' = daily
      BY <2>3 DEF Served, TickerFires, Midnight, Close, Exit, Crash, Boot
    <3> QED
      BY <2>1, <3>1
  <2> QED
    BY <1>4, <2>1, <2>2, <2>3, Operations
<1>5. Base /\ TotInv /\ [Next]_vars =>
        [faults' = 0 => \A d \in Dates : daily'[d] >= daily[d]]_vars
  BY <1>4
<1> QED
  BY <1>3, <1>5, BaseInvariant, PTL DEF Spec, TotalsNeverShrink

(***************************************************************************)
(* The evidence revision.  The finished study sessions of a date, with one *)
(* that a queued transition finishes without announcing it, are paid for   *)
(* by the revision, a call that is about to move it, a crash or a failure. *)
(***************************************************************************)
Owed(d) == IF todo # <<>> /\ Head(todo) = Bump(d) THEN 1 ELSE 0
Silent(d) ==
    IF /\ todo # <<>> /\ todo[Len(todo)].call = "move" /\ ~todo[Len(todo)].bump
       /\ todo[Len(todo)].row.ses.mode = "STUDY" /\ todo[Len(todo)].row.ses.date = d
    THEN 1 ELSE 0

EvInv ==
    /\ \A d \in Dates :
         Cardinality(FinishedStudy(d)) + Silent(d) <= rev[d] + crashes + faults + Owed(d)
    /\ Announced(todo)

LEMMA FinishedFinite ==
    ASSUME NEW d
    PROVE  IsFiniteSet(FinishedStudy(d)) /\ Cardinality(FinishedStudy(d)) \in Nat
<1>1. IsFiniteSet(Ids)
  BY Bounds, FS_Interval DEF Ids
<1>2. FinishedStudy(d) \subseteq Ids
  BY DEF FinishedStudy, StudyRows
<1> QED
  BY <1>1, <1>2, FS_Subset, FS_CardinalityType

LEMMA OneMore ==
    ASSUME NEW S, NEW T, NEW x, IsFiniteSet(S), T \subseteq S \cup {x}
    PROVE  Cardinality(T) <= Cardinality(S) + 1
<1>1. IsFiniteSet(S \cup {x}) /\ Cardinality(S \cup {x}) \in {Cardinality(S), Cardinality(S) + 1}
  BY FS_AddElement
<1>2. Cardinality(T) <= Cardinality(S \cup {x}) /\ IsFiniteSet(T)
  BY <1>1, FS_Subset
<1>3. Cardinality(T) \in Nat /\ Cardinality(S) \in Nat
  BY <1>2, FS_CardinalityType
<1> QED
  BY <1>1, <1>2, <1>3

\* A call that succeeds finishes at most the study session it ends.
LEMMA FinishedAfter ==
    ASSUME TypesInv, NEW w \in Call, Done(w), NEW d \in Dates
    PROVE  /\ w.call \in {"end", "move"} /\ w.row.ses.mode = "STUDY" /\ w.row.ses.date = d
                => FinishedStudy(d)' \subseteq FinishedStudy(d) \cup {w.row.ses.id}
           /\ ~(w.call \in {"end", "move"} /\ w.row.ses.mode = "STUDY" /\ w.row.ses.date = d)
                => FinishedStudy(d)' \subseteq FinishedStudy(d)
<1> DEFINE F(i) == /\ i \in Ids /\ tab[i].ses.mode = "STUDY" /\ tab[i].ses.date = d
                   /\ tab[i].end \notin {"OPEN", "RESTART_RECOVERY"}
           G(i) == /\ i \in Ids /\ tab'[i].ses.mode = "STUDY" /\ tab'[i].ses.date = d
                   /\ tab'[i].end \notin {"OPEN", "RESTART_RECOVERY"}
<1>1. (\A i : i \in FinishedStudy(d) <=> F(i)) /\ (\A i : i \in FinishedStudy(d)' <=> G(i))
  BY DEF FinishedStudy, StudyRows
<1>2. w.call \in {"save", "end", "bump", "daily", "recover", "move"}
  BY CallParts
<1>3. CASE w.call = "save"
  <2>1. \A i : G(i) => F(i)
    BY <1>3, RowsAfter, CallParts
  <2> QED
    BY <1>1, <1>3, <2>1
<1>4. CASE w.call = "end"
  <2>1. \A i : G(i) => F(i) \/ (i = w.row.ses.id /\ w.row.ses.mode = "STUDY" /\ w.row.ses.date = d)
    BY <1>4, RowsAfter
  <2> QED
    BY <1>1, <1>4, <2>1
<1>5. CASE w.call = "move"
  <2>1. \A i \in Ids : tab'[i] = IF i = w.to.id THEN [ses |-> w.to, end |-> "OPEN"]
                                 ELSE IF i = w.row.ses.id THEN w.row ELSE tab[i]
    BY <1>5, RowsAfter
  <2>2. \A i : G(i) => F(i) \/ (i = w.row.ses.id /\ w.row.ses.mode = "STUDY" /\ w.row.ses.date = d)
    BY <2>1
  <2> QED
    BY <1>1, <1>5, <2>2
<1>6. CASE w.call = "recover"
  <2>1. \A i \in Ids : /\ tab'[i].ses = tab[i].ses
                       /\ tab'[i].end = IF i \in OpenRows THEN "RESTART_RECOVERY" ELSE tab[i].end
    BY <1>6, RowsAfter
  <2>2. \A i : G(i) => F(i)
    BY <2>1
  <2> QED
    BY <1>1, <1>6, <2>2
<1>7. CASE w.call \in {"bump", "daily"}
  <2>1. tab' = tab
    BY <1>7, RowsAfter
  <2> QED
    BY <1>1, <1>7, <2>1
<1> QED
  BY <1>2, <1>3, <1>4, <1>5, <1>6, <1>7

LEMMA SilentFacts ==
    ASSUME NEW d
    PROVE  Owed(d) \in {0, 1} /\ Silent(d) \in {0, 1} /\ Owed(d)' \in {0, 1} /\ Silent(d)' \in {0, 1}
  BY DEF Owed, Silent

\* What the end of the queue is does not change as the queue gets shorter.
LEMMA SilentTail ==
    ASSUME NEW d, todo \in Seq(Call), todo # <<>>,
           todo' = Tail(todo) \/ (Tail(todo) # <<>> /\ todo' = Tail(Tail(todo)))
    PROVE  Silent(d)' <= Silent(d)
<1>1. ASSUME NEW q \in Seq(Call), q # <<>>, Tail(q) # <<>>
      PROVE  Tail(q) \in Seq(Call) /\ Tail(q)[Len(Tail(q))] = q[Len(q)]
  <2>1. /\ Len(q) \in Nat \ {0} /\ Len(Tail(q)) = Len(q) - 1 /\ Tail(q) \in Seq(Call)
        /\ \A k \in 1 .. Len(Tail(q)) : Tail(q)[k] = q[k + 1]
        /\ (Tail(q) = <<>> <=> Len(q) = 1)
    BY <1>1, TailFacts
  <2>2. Len(Tail(q)) \in 1 .. Len(Tail(q)) /\ Len(Tail(q)) + 1 = Len(q)
    BY <1>1, <2>1
  <2> QED
    BY <2>1, <2>2
<1>2. todo' # <<>> => todo'[Len(todo')] = todo[Len(todo)]
  <2>1. Tail(todo) \in Seq(Call)
    BY TailFacts
  <2> QED
    BY <1>1, <2>1
<1> QED
  BY <1>2 DEF Silent

LEMMA EvServed == ASSUME Base, EvInv, Served PROVE EvInv'
<1>1. /\ todo = <<>> /\ UNCHANGED <<tab, rev, crashes>> /\ faults' \in Nat /\ faults' >= faults
      /\ faults \in Nat /\ crashes \in Nat /\ rev \in [Dates -> Nat]
  BY DEF Served, Base, TypesInv, TypeOK
<1>2. Announced(todo') /\ MovesLast(todo') /\ todo' \in Seq(Call) /\ todo' # <<>>
  BY DEF Served, Leads
<1>3. ASSUME NEW d \in Dates
      PROVE  Cardinality(FinishedStudy(d))' + Silent(d)' <= (rev[d] + crashes + faults + Owed(d))'
  <2>1. FinishedStudy(d)' = FinishedStudy(d) /\ rev[d]' = rev[d] /\ rev[d] \in Nat
    BY <1>1 DEF FinishedStudy, StudyRows
  <2>2. Cardinality(FinishedStudy(d)) <= rev[d] + crashes + faults
    <3>1. Owed(d) = 0 /\ Silent(d) = 0
      BY <1>1 DEF Owed, Silent
    <3> QED
      BY <1>1, <2>1, <3>1, FinishedFinite DEF EvInv
  <2>3. Silent(d)' = 1 => faults' > faults
    <3> SUFFICES ASSUME Silent(d)' = 1 PROVE faults' > faults
      OBVIOUS
    <3>1. Len(todo') \in 1 .. Len(todo')
      BY <1>2, EmptySeq
    <3>2. /\ todo'[Len(todo')].call = "move" /\ ~todo'[Len(todo')].bump
          /\ todo'[Len(todo')].row.ses.mode = "STUDY"
      BY DEF Silent
    <3> QED
      BY <3>1, <3>2 DEF Served
  <2>4. Owed(d)' \in {0, 1} /\ Silent(d)' \in {0, 1}
    BY SilentFacts
  <2>5. Cardinality(FinishedStudy(d)) + Silent(d)' <= rev[d] + crashes + faults' + Owed(d)'
    BY <1>1, <2>1, <2>2, <2>3, <2>4, FinishedFinite
  <2> QED
    BY <1>1, <2>1, <2>5
<1> QED
  BY <1>2, <1>3 DEF EvInv

LEMMA EvDone == ASSUME Base, EvInv, Write, Done(Head(todo)) PROVE EvInv'
<1> DEFINE w == Head(todo)
<1>1. /\ todo \in Seq(Call) /\ todo # <<>> /\ TypesInv /\ MovesLast(todo) /\ Announced(todo)
      /\ faults \in Nat /\ crashes \in Nat /\ rev \in [Dates -> Nat] /\ crashes' = crashes
  BY DEF Base, TypesInv, TypeOK, IdsInv, EvInv, Write
<1>2. /\ w \in Call /\ w = todo[1] /\ Len(todo) \in Nat \ {0} /\ 1 \in 1 .. Len(todo)
      /\ Tail(todo) \in Seq(Call) /\ Announced(Tail(todo))
      /\ Len(Tail(todo)) = Len(todo) - 1
      /\ \A k \in 1 .. Len(Tail(todo)) : Tail(todo)[k] = todo[k + 1]
      /\ (Tail(todo) = <<>> <=> Len(todo) = 1)
  BY <1>1, TailFacts
<1>3. todo' = Tail(todo) /\ faults' = faults
  BY <1>1, <1>2, DoneFacts
<1>4. w.call \in {"save", "end", "bump", "daily", "recover", "move"}
  BY <1>2, CallParts
<1>5. ASSUME NEW d \in Dates
      PROVE  (Cardinality(FinishedStudy(d)) + Silent(d) <= rev[d] + crashes + faults + Owed(d))'
  <2> DEFINE c == Cardinality(FinishedStudy(d))
             e == Cardinality(FinishedStudy(d)')
  <2>1. /\ c \in Nat /\ rev[d] \in Nat /\ IsFiniteSet(FinishedStudy(d))
        /\ Owed(d) \in {0, 1} /\ Silent(d) \in {0, 1}
        /\ Owed(d)' \in {0, 1} /\ Silent(d)' \in {0, 1} /\ Silent(d)' <= Silent(d)
    BY <1>1, <1>3, FinishedFinite, SilentFacts, SilentTail
  <2>2. c + Silent(d) <= rev[d] + crashes + faults + Owed(d)
    BY DEF EvInv
  <2>3. FinishedStudy(d)' \subseteq FinishedStudy(d) => e <= c /\ e \in Nat
    BY <2>1, FS_Subset, FS_CardinalityType
  <2>4. \A x : FinishedStudy(d)' \subseteq FinishedStudy(d) \cup {x} => e <= c + 1
    BY <2>1, OneMore
  <2>5. w # Bump(d) => Owed(d) = 0
    BY DEF Owed
  <2>6. w.call \in {"save", "daily", "recover", "end", "move"} => w # Bump(d)
    BY BumpFacts
  <2>n. /\ faults \in Nat /\ crashes \in Nat /\ c \in Nat /\ rev[d] \in Nat
        /\ Owed(d) \in Nat /\ Owed(d) <= 1 /\ Silent(d) \in Nat /\ Silent(d) <= 1
        /\ Owed(d)' \in Nat /\ Silent(d)' \in Nat /\ Silent(d)' <= Silent(d)
    BY <1>1, <2>1
  <2> HIDE DEF w, c, e
  <2>7. CASE w.call \in {"save", "daily", "recover"}
    <3>1. rev' = rev /\ FinishedStudy(d)' \subseteq FinishedStudy(d)
      BY <1>1, <1>2, <2>7, DoneFacts, FinishedAfter DEF w
    <3>2. e + Silent(d)' <= rev[d] + crashes + faults + Owed(d)'
      <4>1. Owed(d) = 0 /\ e <= c /\ e \in Nat
        BY <2>3, <2>5, <2>6, <2>7, <3>1
      <4> QED
        BY <2>n, <2>2, <4>1
    <3> QED
      BY <1>1, <1>3, <3>1, <3>2 DEF e
  <2>8. CASE w.call = "end"
    <3>1. rev' = rev
      BY <1>1, <1>2, <2>8, DoneFacts DEF w
    <3>2. CASE w.row.ses.mode = "STUDY" /\ w.row.ses.date = d
      <4>1. FinishedStudy(d)' \subseteq FinishedStudy(d) \cup {w.row.ses.id}
        BY <1>1, <1>2, <2>8, <3>2, FinishedAfter DEF w
      <4>2. Owed(d)' = 1
        <5>1. 1 < Len(todo) /\ todo[1 + 1] = Bump(d)
          BY <1>1, <1>2, <2>8, <3>2 DEF Announced
        <5>2. todo' # <<>> /\ todo'[1] = Bump(d) /\ todo' \in Seq(Call)
          BY <1>2, <1>3, <5>1
        <5>3. Head(todo') = Bump(d)
          BY <5>2, TailFacts
        <5> QED
          BY <5>2, <5>3 DEF Owed
      <4>3. e <= c + 1
        BY <2>4, <4>1
      <4>4. e \in Nat
        BY <2>1, <4>1, FS_Subset, FS_AddElement, FS_CardinalityType DEF e
      <4>5. e + Silent(d)' <= rev[d] + crashes + faults + Owed(d)'
        <5>1. Owed(d) = 0
          BY <2>5, <2>6, <2>8
        <5> QED
          BY <2>n, <2>2, <4>2, <4>3, <4>4, <5>1
      <4> QED
        BY <1>1, <1>3, <3>1, <4>5 DEF e
    <3>3. CASE ~(w.row.ses.mode = "STUDY" /\ w.row.ses.date = d)
      <4>1. FinishedStudy(d)' \subseteq FinishedStudy(d)
        BY <1>1, <1>2, <2>8, <3>3, FinishedAfter DEF w
      <4>2. e + Silent(d)' <= rev[d] + crashes + faults + Owed(d)'
        <5>1. Owed(d) = 0 /\ e <= c /\ e \in Nat
          BY <2>3, <2>5, <2>6, <2>8, <4>1
        <5> QED
          BY <2>n, <2>2, <5>1
      <4> QED
        BY <1>1, <1>3, <3>1, <4>2 DEF e
    <3> QED
      BY <3>2, <3>3
  <2>9. CASE w.call = "bump"
    <3>1. /\ w.date \in Dates /\ rev'[d] = (IF d = w.date THEN rev[d] + 1 ELSE rev[d])
          /\ FinishedStudy(d)' \subseteq FinishedStudy(d)
      BY <1>1, <1>2, <2>9, DoneFacts, FinishedAfter DEF w
    <3>2. w = Bump(d) => d = w.date
      BY BumpFacts
    <3>3. e + Silent(d)' <= rev'[d] + crashes + faults + Owed(d)'
      <4>1. CASE w = Bump(d)
        <5>1. rev'[d] = rev[d] + 1
          BY <3>1, <3>2, <4>1
        <5> QED
          <6>1. e <= c /\ e \in Nat
            BY <2>3, <3>1
          <6> QED
            BY <2>n, <2>2, <5>1, <6>1
      <4>2. CASE w # Bump(d)
        <5>1. rev'[d] \in Nat /\ rev[d] <= rev'[d]
          BY <2>n, <3>1
        <5>2. e <= c /\ e \in Nat
          BY <2>3, <3>1
        <5>3. Owed(d) = 0
          BY <2>5, <4>2
        <5> QED
          BY <2>n, <2>2, <5>1, <5>2, <5>3
      <4> QED
        BY <4>1, <4>2
    <3> QED
      BY <1>1, <1>3, <3>3 DEF e
  <2>10. CASE w.call = "move"
    <3>1. /\ w.bump \in BOOLEAN
          /\ rev'[d] = IF w.bump /\ w.row.ses.mode = "STUDY" /\ d = w.row.ses.date
                       THEN rev[d] + 1 ELSE rev[d]
      BY <1>1, <1>2, <2>10, DoneFacts, CallParts, SMTT(40) DEF w
    <3>2. Len(todo) = 1 /\ todo' = <<>>
      BY <1>1, <1>2, <1>3, <2>10 DEF MovesLast
    <3>3. Owed(d)' = 0 /\ Silent(d)' = 0
      BY <3>2 DEF Owed, Silent
    <3>4. CASE w.row.ses.mode = "STUDY" /\ w.row.ses.date = d
      <4>1. FinishedStudy(d)' \subseteq FinishedStudy(d) \cup {w.row.ses.id}
        BY <1>1, <1>2, <2>10, <3>4, FinishedAfter DEF w
      <4>2. ~w.bump => Silent(d) = 1
        BY <1>1, <1>2, <2>10, <3>2, <3>4 DEF Silent
      <4>3. w.bump => rev'[d] = rev[d] + 1
        BY <3>1, <3>4
      <4>4. ~w.bump => rev'[d] = rev[d]
        BY <3>1
      <4>5. e <= c + 1
        BY <2>4, <4>1
      <4>6. e \in Nat
        BY <2>1, <4>1, FS_Subset, FS_AddElement, FS_CardinalityType DEF e
      <4>7. CASE w.bump
        <5>1. e <= rev'[d] + crashes + faults
          <6>1. Owed(d) = 0 /\ rev'[d] = rev[d] + 1
            BY <2>5, <2>6, <2>10, <4>3, <4>7
          <6> QED
            BY <2>n, <2>2, <4>5, <4>6, <6>1
        <5>2. rev'[d] \in Nat
          BY <2>n, <4>3, <4>7
        <5>3. e + Silent(d)' <= rev'[d] + crashes' + faults' + Owed(d)'
          <6>1. e + Silent(d)' <= rev'[d] + crashes + faults + Owed(d)'
            BY <2>n, <3>3, <4>6, <5>1, <5>2
          <6> QED
            BY <1>1, <1>3, <6>1
        <5> QED
          BY <5>3 DEF e
      <4>8. CASE ~w.bump
        <5>1. e <= rev'[d] + crashes + faults
          <6>1. Owed(d) = 0 /\ Silent(d) = 1 /\ rev'[d] = rev[d]
            BY <2>5, <2>6, <2>10, <4>2, <4>4, <4>8
          <6> QED
            BY <2>n, <2>2, <4>5, <4>6, <6>1
        <5>2. rev'[d] \in Nat
          BY <2>n, <4>4, <4>8
        <5>3. e + Silent(d)' <= rev'[d] + crashes + faults + Owed(d)'
          BY <2>n, <3>3, <4>6, <5>1, <5>2
        <5> QED
          BY <1>1, <1>3, <5>3 DEF e
      <4> QED
        BY <4>7, <4>8
    <3>5. CASE ~(w.row.ses.mode = "STUDY" /\ w.row.ses.date = d)
      <4>1. FinishedStudy(d)' \subseteq FinishedStudy(d)
        BY <1>1, <1>2, <2>10, <3>5, FinishedAfter DEF w
      <4>2. rev'[d] = rev[d]
        BY <3>1, <3>5
      <4>3. e <= rev[d] + crashes + faults /\ e \in Nat
        <5>1. Owed(d) = 0 /\ e <= c /\ e \in Nat
          BY <2>3, <2>5, <2>6, <2>10, <4>1
        <5> QED
          BY <2>n, <2>2, <5>1
      <4>4. e + Silent(d)' <= rev'[d] + crashes + faults + Owed(d)'
        BY <2>n, <3>3, <4>2, <4>3
      <4> QED
        BY <1>1, <1>3, <4>4 DEF e
    <3> QED
      BY <3>4, <3>5
  <2> QED
    BY <1>4, <2>7, <2>8, <2>9, <2>10 DEF w
<1>6. Announced(todo')
  BY <1>2, <1>3
<1> QED
  BY <1>5, <1>6 DEF EvInv

\* A failing call and a crash lose at most one announcement.
LEMMA EvLost ==
    ASSUME Base, EvInv, UNCHANGED <<tab, rev>>, faults' \in Nat, crashes' \in Nat,
           crashes' + faults' = crashes + faults + 1, Announced(todo'),
           \A d \in Dates : Silent(d)' <= Silent(d)
    PROVE  EvInv'
<1>1. /\ faults \in Nat /\ crashes \in Nat /\ rev \in [Dates -> Nat]
  BY DEF Base, TypesInv, TypeOK
<1>2. ASSUME NEW d \in Dates
      PROVE  (Cardinality(FinishedStudy(d)) + Silent(d) <= rev[d] + crashes + faults + Owed(d))'
  <2>1. FinishedStudy(d)' = FinishedStudy(d) /\ rev[d]' = rev[d] /\ rev[d] \in Nat
    BY <1>1 DEF FinishedStudy, StudyRows
  <2>2. Cardinality(FinishedStudy(d)) + Silent(d) <= rev[d] + crashes + faults + Owed(d)
    BY DEF EvInv
  <2>3. /\ Owed(d) \in {0, 1} /\ Silent(d) \in {0, 1} /\ Owed(d)' \in {0, 1}
        /\ Silent(d)' \in {0, 1} /\ Silent(d)' <= Silent(d)
        /\ Cardinality(FinishedStudy(d)) \in Nat
    BY SilentFacts, FinishedFinite
  <2>4. Cardinality(FinishedStudy(d)) + Silent(d)' <= rev[d] + crashes' + faults' + Owed(d)'
    <3>1. \A a, b, f, g, r, o, x, y, z \in Nat :
            f + g = a + b + 1 /\ z + x <= r + a + b + o /\ o <= 1 /\ y <= x
              => z + y <= r + f + g
      OBVIOUS
    <3>2. Cardinality(FinishedStudy(d)) + Silent(d)' <= rev[d] + crashes' + faults'
      <4>1. crashes' + faults' = crashes + faults + 1
        OBVIOUS
      <4>2. Owed(d) \in Nat /\ Owed(d) <= 1 /\ Silent(d) \in Nat /\ Silent(d)' \in Nat
        BY <2>3
      <4> QED
        BY <1>1, <2>1, <2>2, <2>3, <3>1, <4>1, <4>2
    <3> QED
      BY <1>1, <2>1, <2>3, <3>2
  <2> QED
    BY <2>1, <2>4
<1> QED
  BY <1>2 DEF EvInv

\* The table, the revisions and the number of mishaps stay, and no call is due.
LEMMA EvSame ==
    ASSUME Base, EvInv, UNCHANGED <<tab, rev, crashes>>, faults' \in Nat, faults' >= faults,
           Announced(todo'), \A d \in Dates : Silent(d)' = 0, todo = <<>>
    PROVE  EvInv'
<1>1. /\ faults \in Nat /\ crashes \in Nat /\ rev \in [Dates -> Nat]
  BY DEF Base, TypesInv, TypeOK
<1>2. ASSUME NEW d \in Dates
      PROVE  (Cardinality(FinishedStudy(d)) + Silent(d) <= rev[d] + crashes + faults + Owed(d))'
  <2>1. FinishedStudy(d)' = FinishedStudy(d) /\ rev[d]' = rev[d] /\ rev[d] \in Nat
    BY <1>1 DEF FinishedStudy, StudyRows
  <2>2. Cardinality(FinishedStudy(d)) + Silent(d) <= rev[d] + crashes + faults + Owed(d)
    BY DEF EvInv
  <2>3. Owed(d) = 0 /\ Silent(d) = 0
    BY DEF Owed, Silent
  <2>4. Owed(d)' \in {0, 1} /\ Silent(d)' = 0 /\ Cardinality(FinishedStudy(d)) \in Nat
    BY SilentFacts, FinishedFinite
  <2>5. Cardinality(FinishedStudy(d)) + Silent(d)' <= rev[d] + crashes + faults' + Owed(d)'
    BY <1>1, <2>1, <2>2, <2>3, <2>4
  <2> QED
    BY <2>1, <2>5
<1> QED
  BY <1>2 DEF EvInv

LEMMA EvStep == ASSUME Base, EvInv, [Next]_vars PROVE EvInv'
<1>1. /\ TypesInv /\ cur.id < next /\ faults \in Nat /\ crashes \in Nat /\ cur \in Session
      /\ todo \in Seq(Call) /\ Announced(todo)
  BY DEF Base, IdsInv, TypesInv, TypeOK, EvInv
<1>2. Announced(<<>>)
  BY EmptyQueue DEF Announced
<1>3. CASE Write
  <2>1. CASE Failed(Head(todo))
    <3>1. /\ todo # <<>> /\ faults' = faults + 1 /\ UNCHANGED <<tab, rev, crashes>>
          /\ todo' = Tail(todo) \/ (Tail(todo) # <<>> /\ todo' = Tail(Tail(todo)))
      BY <1>1, <1>3, <2>1, FailedFacts DEF Write
    <3>2. Tail(todo) \in Seq(Call) /\ Announced(Tail(todo))
      BY <1>1, <3>1, TailFacts
    <3>3. Announced(todo')
      BY <3>1, <3>2, TailFacts
    <3>4. \A d \in Dates : Silent(d)' <= Silent(d)
      BY <1>1, <3>1, SilentTail
    <3> QED
      BY <1>1, <3>1, <3>3, <3>4, EvLost
  <2> QED
    BY <1>3, <2>1, EvDone DEF Write
<1>4. CASE Crash
  <2>1. /\ crashes' = crashes + 1 /\ todo' = <<>> /\ UNCHANGED <<tab, rev, faults>>
    BY <1>4 DEF Crash
  <2>2. \A d \in Dates : Silent(d)' <= Silent(d)
    BY <2>1 DEF Silent
  <2> QED
    BY <1>1, <1>2, <2>1, <2>2, EvLost
<1>5. CASE Close
  <2>1. /\ todo = <<>> /\ todo' = Closing(cur, "SHUTDOWN") /\ UNCHANGED <<tab, rev, faults, crashes>>
    BY <1>5 DEF Close
  <2>2. /\ todo' \in Seq(Call) /\ todo' # <<>> /\ Announced(todo')
        /\ \A k \in 1 .. Len(todo') : todo'[k].call \in {"end", "bump"}
    BY <1>1, <2>1, CloseFacts
  <2>3. todo'[Len(todo')].call # "move"
    <3>1. Len(todo') \in 1 .. Len(todo')
      BY <2>2, EmptySeq
    <3> QED
      BY <2>2, <3>1
  <2>4. \A d \in Dates : Silent(d)' = 0
    BY <2>3 DEF Silent
  <2> QED
    BY <1>1, <2>1, <2>2, <2>4, EvSame
<1>6. CASE Boot
  <2>1. todo = <<>> /\ UNCHANGED <<tab, rev, crashes>>
    BY <1>1, <1>6 DEF Boot, TypesInv
  <2>2. /\ Len(todo') = 2 /\ todo'[1] = CloseOpenSessions /\ todo'[2] = Save(cur')
        /\ faults' \in Nat /\ faults' >= faults
    BY <1>1, <1>6, BootFacts
  <2>3. todo'[1].call = "recover" /\ todo'[2].call = "save"
    BY <2>2, RecoverFacts, SaveFacts
  <2>4. Announced(todo')
    <3>1. \A k \in 1 .. Len(todo') : k = 1 \/ k = 2
      BY <2>2
    <3> QED
      BY <2>3, <3>1 DEF Announced
  <2>5. \A d \in Dates : Silent(d)' = 0
    BY <2>2, <2>3 DEF Silent
  <2> QED
    BY <1>1, <2>1, <2>2, <2>4, <2>5, EvSame
<1>7. CASE UNCHANGED <<tab, rev, crashes, faults, todo>>
  BY <1>7 DEF EvInv, Owed, Silent, FinishedStudy, StudyRows
<1>8. CASE TickerFires \/ Midnight \/ Exit \/ UNCHANGED vars
  BY <1>7, <1>8 DEF TickerFires, Midnight, Exit, vars
<1> QED
  BY <1>1, <1>3, <1>4, <1>5, <1>6, <1>8, Operations, EvServed

LEMMA EvInit == Init => EvInv
<1> SUFFICES ASSUME Init PROVE EvInv
  OBVIOUS
<1>1. /\ todo = <<>> /\ rev = [d \in Dates |-> 0] /\ faults = 0 /\ crashes = 0
  BY DEF Init
<1>2. \A d \in Dates : FinishedStudy(d) = {}
  <2> SUFFICES ASSUME NEW i \in Ids PROVE tab[i].ses.mode # "STUDY"
    BY DEF FinishedStudy, StudyRows
  <2>1. CASE /\ cur = New(1, "STANDBY", "MANUAL", 0)
             /\ tab = [j \in Ids |-> IF j = 1 THEN [ses |-> cur, end |-> "OPEN"] ELSE NoRow]
    BY <2>1 DEF New, NoRow
  <2>2. CASE /\ cur = New(2, "BREAK", "AUTOMATION", 0)
             /\ tab = [j \in Ids |->
                      CASE j = 1 -> [ses |-> [cur EXCEPT !.id = 1], end |-> "RESTART_RECOVERY"]
                        [] j = 2 -> [ses |-> cur, end |-> "OPEN"]
                        [] OTHER -> NoRow]
    <3> DEFINE c1 == [cur EXCEPT !.id = 1]
    <3>1. cur.mode = "BREAK" /\ c1.mode = "BREAK"
      BY <2>2 DEF New
    <3>2. tab = [j \in Ids |-> CASE j = 1 -> [ses |-> c1, end |-> "RESTART_RECOVERY"]
                                 [] j = 2 -> [ses |-> cur, end |-> "OPEN"]
                                 [] OTHER -> NoRow]
      BY <2>2
    <3> HIDE DEF c1
    <3>3. /\ i = 1 => tab[i] = [ses |-> c1, end |-> "RESTART_RECOVERY"]
          /\ i = 2 => tab[i] = [ses |-> cur, end |-> "OPEN"]
          /\ i \notin {1, 2} => tab[i] = NoRow
      BY <3>2
    <3> QED
      BY <3>1, <3>3 DEF NoRow
  <2> QED
    BY <2>1, <2>2 DEF Init
<1>3. \A d \in Dates : Owed(d) = 0 /\ Silent(d) = 0
  BY <1>1 DEF Owed, Silent
<1>4. \A d \in Dates : Cardinality(FinishedStudy(d)) = 0 /\ rev[d] = 0
  BY <1>1, <1>2, FS_EmptySet
<1>5. Announced(<<>>)
  BY EmptyQueue DEF Announced
<1> QED
  BY <1>1, <1>3, <1>4, <1>5 DEF EvInv

\* Between two operations every finished study session of a date has moved its
\* revision, but for one per crash and per failing call: whatever fails, with
\* late ticks and with calls after Close.
THEOREM FinishedSessionsAreAnnounced == Spec => []EvidenceMoves
<1>1. Init => EvInv
  BY EvInit
<1>2. Base /\ EvInv /\ [Next]_vars => EvInv'
  BY EvStep
<1>3. Spec => []EvInv
  BY <1>1, <1>2, BaseInvariant, PTL DEF Spec
<1>4. Base /\ EvInv => EvidenceMoves
  <2> SUFFICES ASSUME Base, EvInv, todo = <<>>, NEW d \in Dates
               PROVE  Cardinality(FinishedStudy(d)) <= rev[d] + crashes + faults
    BY DEF EvidenceMoves
  <2>1. Owed(d) = 0 /\ Silent(d) = 0
    BY DEF Owed, Silent
  <2>2. faults \in Nat /\ crashes \in Nat /\ rev[d] \in Nat /\ Cardinality(FinishedStudy(d)) \in Nat
    BY FinishedFinite DEF Base, TypesInv, TypeOK
  <2> QED
    BY <2>1, <2>2 DEF EvInv
<1> QED
  BY <1>3, <1>4, BaseInvariant, PTL

(***************************************************************************)
(* The study time of a date.  The sum of its sessions is written as the sum*)
(* over all rows of what each puts on the date; it can grow only where a   *)
(* row gets more time, which a second of study and nothing else brings.    *)
(***************************************************************************)

\* The time a session puts on a date.
Con(c, d) == IF c.mode = "STUDY" /\ c.date = d THEN c.secs ELSE 0
OnDate(d) == [i \in Ids |-> Con(tab[i].ses, d)]
Studied(d) == SumOver(OnDate(d), Ids)

\* There are finitely many rows.
LEMMA IdsFinite == IsFiniteSet(Ids)
  BY Bounds, FS_Interval DEF Ids

\* A row puts a natural number on a date, and a study row is of a real session.
LEMMA RowParts ==
    ASSUME NEW r \in Row
    PROVE  /\ \A d : Con(r.ses, d) \in Nat
           /\ r.ses.mode = "STUDY" => r.ses \in Session
<1>1. CASE r \in [ses: Session, end: Ends \cup {"OPEN"}]
  <2>1. r.ses \in Session
    BY <1>1
  <2>2. r.ses.secs \in Nat
    BY <2>1, SessionIds
  <2> QED
    BY <2>1, <2>2 DEF Con
<1>2. CASE r = NoRow
  BY <1>2 DEF NoRow, Con
<1> QED
  BY <1>1, <1>2 DEF Row

\* The sum of the property is the sum over all rows.
LEMMA StudiedIsTheSum ==
    ASSUME TypesInv, NEW d \in Dates
    PROVE  /\ MapThenSumSet(LAMBDA i : tab[i].ses.secs, StudyRows(d)) = Studied(d)
           /\ Studied(d) \in Nat
<1> DEFINE f == OnDate(d)
           T == StudyRows(d)
           IsA(h) == h = [s \in SUBSET T |-> IF s = {} THEN 0
                            ELSE tab[CHOOSE x \in s : TRUE].ses.secs
                                   + h[s \ {CHOOSE x \in s : TRUE}]]
           c == CHOOSE h : IsA(h)
<1>1. T \subseteq Ids /\ IsFiniteSet(T) /\ IsFiniteSet(Ids)
  BY IdsFinite, FS_Subset DEF StudyRows
<1>2. \A i \in Ids : f[i] \in Nat /\ (i \notin T => f[i] = 0) /\ (i \in T => f[i] = tab[i].ses.secs)
  <2>1. \A i \in Ids : tab[i] \in Row
    BY DEF TypesInv, TypeOK
  <2> QED
    BY <2>1, RowParts DEF StudyRows, OnDate, Con
<1>3. MapThenSumSet(LAMBDA i : tab[i].ses.secs, T) = c[T]
  <2> HIDE DEF T
  <2> QED
    BY DEF MapThenSumSet, MapThenFoldSet
<1>4. \A s \in SUBSET T : s # {} => Picked(s) \in T
  BY RestIsBelow
<1> HIDE DEF f, T
<1>5. \A h : IsTable(h, f, T) <=> IsA(h)
  <2> SUFFICES ASSUME NEW h PROVE IsTable(h, f, T) <=> IsA(h)
    OBVIOUS
  <2> DEFINE P(s) == IF s = {} THEN 0 ELSE f[Picked(s)] + h[Rest(s)]
             Q(s) == IF s = {} THEN 0 ELSE tab[Picked(s)].ses.secs + h[Rest(s)]
  <2>1. \A s \in SUBSET T : P(s) = Q(s)
    BY <1>1, <1>2, <1>4
  <2>2. IsA(h) <=> h = [s \in SUBSET T |-> Q(s)]
    BY DEF Picked, Rest
  <2>3. IsTable(h, f, T) <=> h = [s \in SUBSET T |-> P(s)]
    BY DEF IsTable
  <2> HIDE DEF P, Q, IsA
  <2>4. [s \in SUBSET T |-> P(s)] = [s \in SUBSET T |-> Q(s)]
    BY <2>1
  <2> QED
    BY <2>2, <2>3, <2>4
<1> HIDE DEF IsA
<1>6. \E h : IsA(h)
  <2>1. \E h : IsTable(h, f, T)
    BY <1>1, TableExists
  <2> QED
    BY <1>5, <2>1
<1>7. IsA(c)
  BY <1>6
<1>8. IsTable(c, f, T)
  BY <1>5, <1>7
<1>9. \E h : IsTable(h, f, T)
  BY <1>8
<1>10. IsTable(CHOOSE h : IsTable(h, f, T), f, T)
  BY <1>9
<1>11. c[T] = SumOver(f, T)
  <2> DEFINE g == CHOOSE h : IsTable(h, f, T)
  <2>1. IsTable(g, f, T)
    BY <1>10
  <2>2. SumOver(f, T) = g[T]
    BY DEF SumOver
  <2> HIDE DEF g, c
  <2>3. \A t \in SUBSET T : c[t] = g[t]
    BY <1>1, <1>8, <2>1, TablesAgree
  <2> QED
    BY <2>2, <2>3
<1>12. SumOver(f, Ids) = SumOver(f, T)
  BY <1>1, <1>2, SumOfSubset
<1>13. SumOver(f, Ids) \in Nat
  BY <1>1, <1>2, SumIsNat
<1> QED
  BY <1>3, <1>11, <1>12, <1>13 DEF Studied, f, T

\* The sums change with the rows.
LEMMA StudiedSame ==
    ASSUME TypesInv, TypesInv',
           \A i \in Ids : \A d \in Dates : Con(tab'[i].ses, d) = Con(tab[i].ses, d)
    PROVE  \A d \in Dates : Studied(d)' = Studied(d)
<1> SUFFICES ASSUME NEW d \in Dates PROVE Studied(d)' = Studied(d)
  OBVIOUS
<1> DEFINE f == OnDate(d)
           g == [i \in Ids |-> Con(tab'[i].ses, d)]
<1>1. \A i \in Ids : f[i] = g[i]
  BY DEF OnDate
<1>2. Studied(d)' = SumOver(g, Ids) /\ Studied(d) = SumOver(f, Ids)
  BY DEF Studied, OnDate
<1> HIDE DEF f, g
<1>3. SumOver(f, Ids) = SumOver(g, Ids)
  BY <1>1, IdsFinite, SumSame
<1> QED
  BY <1>2, <1>3

LEMMA StudiedRaised ==
    ASSUME TypesInv, TypesInv', NEW e \in Ids, NEW d \in Dates,
           \A i \in Ids : i # e => Con(tab'[i].ses, d) = Con(tab[i].ses, d)
    PROVE  /\ Studied(d)' - Con(tab'[e].ses, d) = Studied(d) - Con(tab[e].ses, d)
           /\ Studied(d)' \in Nat
<1> DEFINE f == OnDate(d)
           g == [i \in Ids |-> Con(tab'[i].ses, d)]
           r == Ids \ {e}
<1>1. \A i \in r : f[i] = g[i]
  BY DEF OnDate
<1>2. /\ Studied(d)' = SumOver(g, Ids) /\ Studied(d) = SumOver(f, Ids)
      /\ f[e] = Con(tab[e].ses, d) /\ g[e] = Con(tab'[e].ses, d)
  BY DEF Studied, OnDate
<1>3. \A i \in Ids : f[i] \in Nat /\ g[i] \in Nat
  <2>1. \A i \in Ids : tab[i] \in Row /\ tab'[i] \in Row
    BY DEF TypesInv, TypeOK
  <2> QED
    BY <2>1, RowParts DEF OnDate
<1>4. IsFiniteSet(r)
  BY IdsFinite, FS_RemoveElement
<1> HIDE DEF f, g
<1>5. SumOver(f, Ids) = f[e] + SumOver(f, r) /\ SumOver(g, Ids) = g[e] + SumOver(g, r)
  BY <1>3, IdsFinite, SumSplit
<1>6. SumOver(f, r) = SumOver(g, r) /\ SumOver(f, r) \in Nat
  <2> HIDE DEF r
  <2>1. \A i \in r : f[i] \in Nat
    BY <1>3 DEF r
  <2> QED
    BY <1>1, <1>4, <2>1, SumSame, SumIsNat
<1>7. f[e] \in Nat /\ g[e] \in Nat
  BY <1>3
<1> QED
  BY <1>2, <1>5, <1>6, <1>7

\* What an operation writes is the current session as it is, or one without time
\* of study whose row has none either.
Written(w) == CASE w.call \in {"save", "end"} -> {w.row.ses}
                [] w.call = "move" -> {w.row.ses, w.to} [] OTHER -> {}
Idle(c) == c.mode # "STUDY" \/ c.secs = 0
Light(c) == c = cur \/ (Idle(c) /\ (c.id >= next \/ (c.id = cur.id /\ Idle(cur))))
Fit(w) == (\A c \in Written(w) : Light(c)) /\ (w.call = "move" => w.to.date = day)
AllFit(q) == q \in Seq(Call) /\ \A k \in 1 .. Len(q) : Fit(q[k])

\* The calls of the manager, and queues of them, write nothing else.
LEMMA FitCalls ==
    /\ \A c : Light(c) => Fit(Save(c))
    /\ \A c, why : Light(c) => Fit(SaveEnded(c, why))
    /\ \A d : Fit(Bump(d))
    /\ \A d, s : Fit(UpdateDaily(d, s))
    /\ \A c, why, n, b : Light(c) /\ Light(n) /\ n.date = day => Fit(Transition(c, why, n, b))
  BY DEF Fit, Written, Save, SaveEnded, Bump, UpdateDaily, Transition

LEMMA FitOne ==
    ASSUME NEW w \in Call, Fit(w)
    PROVE  AllFit(<<w>>)
<1>1. <<w>> \in Seq(Call) /\ Len(<<w>>) = 1 /\ <<w>>[1] = w
  OBVIOUS
<1> QED
  BY <1>1 DEF AllFit

LEMMA FitBoth ==
    ASSUME NEW p, NEW q, AllFit(p), AllFit(q)
    PROVE  AllFit(p \o q)
<1>1. p \in Seq(Call) /\ q \in Seq(Call) /\ Len(p) \in Nat /\ Len(q) \in Nat
  BY DEF AllFit
<1>2. /\ p \o q \in Seq(Call) /\ Len(p \o q) = Len(p) + Len(q)
      /\ \A k \in 1 .. Len(p) + Len(q) :
           (p \o q)[k] = IF k <= Len(p) THEN p[k] ELSE q[k - Len(p)]
  BY <1>1, ConcatProperties
<1>3. ASSUME NEW k \in 1 .. Len(p) + Len(q) PROVE Fit((p \o q)[k])
  <2>1. CASE k <= Len(p)
    BY <1>1, <1>2, <2>1 DEF AllFit
  <2>2. CASE k > Len(p)
    <3>1. k - Len(p) \in 1 .. Len(q)
      BY <1>1, <2>2
    <3>2. (p \o q)[k] = q[k - Len(p)]
      BY <1>1, <1>2, <2>2
    <3> QED
      BY <3>1, <3>2 DEF AllFit
  <2> QED
    BY <1>1, <2>1, <2>2
<1> QED
  BY <1>2, <1>3 DEF AllFit

LEMMA FitClosing ==
    ASSUME NEW c \in Session, Light(c), NEW why \in Ends
    PROVE  AllFit(Closing(c, why))
<1>1. AllFit(<<SaveEnded(c, why)>>) /\ AllFit(<<Bump(c.date)>>)
  BY SessionIds, CallTypes, FitCalls, FitOne
<1>2. AllFit(<<>>)
  BY EmptyQueue DEF AllFit
<1>3. Closing(c, why) = <<SaveEnded(c, why)>> \o
                          (IF c.mode = "STUDY" THEN <<Bump(c.date)>> ELSE <<>>)
  BY DEF Closing
<1>4. AllFit(IF c.mode = "STUDY" THEN <<Bump(c.date)>> ELSE <<>>)
  BY <1>1, <1>2
<1> QED
  BY <1>1, <1>3, <1>4, FitBoth

\* A session that begins has no time.
LEMMA NewIsLight ==
    ASSUME NEW id, NEW m, NEW o, NEW d, id >= next
    PROVE  Light(New(id, m, o, d)) /\ Idle(New(id, m, o, d)) /\ New(id, m, o, d).date = d
           /\ New(id, m, o, d).id = id
  BY DEF Light, Idle, New

\* After the check of the date.
Fitted(r) ==
    /\ r.cur \in Session /\ Light(r.cur) /\ AllFit(r.calls)
    /\ \/ r.date = mdate /\ r.cur = cur
       \/ r.cur.date = r.date /\ r.cur.mode = "STANDBY" /\ r.cur.id >= next
    /\ r.next \in {next, next + 1}

\* The check of the date writes nothing else, whatever the date is;
LEMMA FittedUnrolled == ASSUME TypesInv PROVE Fitted(Unrolled)
<1>1. cur \in Session /\ AllFit(<<>>) /\ Light(cur) /\ next \in Nat
  BY EmptyQueue, Bounds DEF TypesInv, TypeOK, AllFit, Light
<1> QED
  BY <1>1 DEF Fitted, Unrolled

LEMMA FittedRolled ==
    ASSUME TypesInv, NEW d \in Dates, mdate = d \/ next \in Ids
    PROVE  Fitted(Rolled(d))
<1>1. CASE mdate = d
  BY <1>1, FittedUnrolled DEF Rolled
<1>2. CASE mdate # d
  <2> DEFINE n == New(next, "STANDBY", "MANUAL", d)
  <2>1. cur \in Session /\ Light(cur) /\ next \in Nat
    BY Bounds DEF TypesInv, TypeOK, Light
  <2>2. n \in Session /\ Light(n) /\ n.mode = "STANDBY" /\ n.date = d /\ n.id = next
    BY <1>2, <2>1, NewSession, NewIsLight DEF Modes, Origins
  <2>3. /\ Rolled(d).cur = n /\ Rolled(d).calls = Closing(cur, "DAILY_RESET") \o <<Save(n)>>
        /\ Rolled(d).date = d /\ Rolled(d).next = next + 1
    BY <1>2 DEF Rolled
  <2> HIDE DEF n
  <2>4. AllFit(Closing(cur, "DAILY_RESET"))
    BY <2>1, FitClosing DEF Ends
  <2>5. AllFit(<<Save(n)>>)
    BY <2>2, CallTypes, FitCalls, FitOne
  <2>6. AllFit(Rolled(d).calls)
    BY <2>3, <2>4, <2>5, FitBoth
  <2> QED
    BY <2>1, <2>2, <2>3, <2>6 DEF Fitted
<1> QED
  BY <1>1, <1>2

\* A second of study: the total and the session grow by the same.
Credits ==
    /\ todo' = <<UpdateDaily(mdate, study'), Save(cur')>>
    /\ mdate' = mdate /\ mdate = tick /\ cur.mode = "STUDY"
    /\ \E credit \in {0, 1} :
         study' = study + credit /\ cur' = [cur EXCEPT !.secs = cur.secs + credit]

Reckoned ==
    /\ Credits \/ (Light(cur') /\ AllFit(todo'))
    /\ (mdate' = mdate /\ cur'.date = cur.date) \/ cur'.date = mdate'

\* so do the operations that replace the session or move to the next,
LEMMA ReplaceFits ==
    ASSUME TypesInv, NEW m \in Modes, NEW o \in Origins, NEW why \in Ends, Replace(m, o, why)
    PROVE  Reckoned
<1> DEFINE r == Rolled(day)
           n == New(r.next, m, o, day)
<1>1. day \in Dates /\ next \in Nat /\ MaxSess \in Nat /\ MaxDay \in Nat /\ next >= 2
  BY Bounds DEF TypesInv, TypeOK
<1>2. next + 2 + 2 * MaxDay <= MaxSess
  BY DEF Replace, Spare
<1>3. next \in Ids /\ next + 1 \in Ids
  BY <1>1, <1>2 DEF Ids
<1>4. Fitted(r) /\ r.date = day
  BY <1>1, <1>3, FittedRolled DEF Rolled, Unrolled
<1>5. /\ todo' = (r.calls \o Closing(r.cur, why)) \o <<Save(n)>>
      /\ cur' = n /\ mdate' = r.date
  BY DEF Replace
<1> HIDE DEF r
<1>6. n \in Session /\ Light(n) /\ n.date = day
  <2>1. r.next \in Ids /\ r.next >= next
    BY <1>1, <1>3, <1>4 DEF Fitted
  <2> QED
    BY <1>1, <2>1, NewSession, NewIsLight
<1> HIDE DEF n
<1>7. AllFit(r.calls) /\ AllFit(Closing(r.cur, why)) /\ AllFit(<<Save(n)>>)
  BY <1>4, <1>6, CallTypes, FitCalls, FitOne, FitClosing DEF Fitted
<1>8. AllFit(todo')
  <2>1. AllFit(r.calls \o Closing(r.cur, why))
    BY <1>7, FitBoth
  <2> QED
    BY <1>5, <1>7, <2>1, FitBoth
<1> QED
  BY <1>4, <1>5, <1>6, <1>8 DEF Reckoned

LEMMA MoveFits ==
    ASSUME TypesInv, NEW m \in Modes, NEW o \in Origins, NEW why \in Ends, NEW b \in BOOLEAN,
           NEW r, Fitted(r), Move(m, o, why, r, b)
    PROVE  Reckoned
<1> DEFINE n == New(r.next, m, o, day)
           w == Transition(r.cur, why, n, b)
<1>1. day \in Dates /\ next \in Nat /\ MaxSess \in Nat /\ MaxDay \in Nat /\ next >= 2
  BY Bounds DEF TypesInv, TypeOK
<1>2. next + 2 + 2 * MaxDay <= MaxSess
  BY DEF Move, Spare
<1>3. r.next \in Ids /\ r.next >= next
  BY <1>1, <1>2 DEF Ids, Fitted
<1>4. todo' = r.calls \o <<w>> /\ cur' = r.cur /\ mdate' = r.date
  BY DEF Move
<1>5. n \in Session /\ Light(n) /\ n.date = day
  BY <1>1, <1>3, NewSession, NewIsLight
<1> HIDE DEF n
<1>6. w \in Call /\ Fit(w)
  BY <1>5, CallTypes, FitCalls DEF Fitted
<1> HIDE DEF w
<1>7. AllFit(todo')
  BY <1>4, <1>6, FitOne, FitBoth DEF Fitted
<1> QED
  BY <1>4, <1>7 DEF Reckoned, Fitted

\* and a tick outside STUDY or on a new date; in STUDY it credits a second.
LEMMA TickFits ==
    ASSUME TypesInv, cur.id < next, NEW credit \in {0, 1}, Tick(credit)
    PROVE  Reckoned
<1> DEFINE r == Rolled(tick)
           c == [r.cur EXCEPT !.secs = r.cur.secs + credit]
           s == r.study + (IF r.cur.mode = "STUDY" THEN credit ELSE 0)
           q == <<UpdateDaily(r.date, s), Save(c)>>
<1>1. cur \in Session /\ next \in Nat /\ tick \in Dates /\ study \in Nat /\ mdate \in Dates
      /\ MaxSess \in Nat /\ next >= 2 /\ cur.id \in Nat
  BY Bounds, SessionIds DEF TypesInv, TypeOK, Tick
<1>2. /\ c.secs <= MaxSecs /\ r.next <= MaxSess + 1
      /\ cur' = c /\ study' = s /\ mdate' = r.date /\ todo' = r.calls \o q
  BY DEF Tick
<1>3. mdate = tick \/ next \in Ids
  BY <1>1, <1>2 DEF Rolled, Ids
<1>4. Fitted(r) /\ (r.date = tick)
  BY <1>1, <1>3, FittedRolled DEF Rolled, Unrolled
<1>5. Begun(r)
  BY <1>1, <1>3, BegunRolled
<1>6. mdate = tick => r = Unrolled
  BY DEF Rolled
<1> HIDE DEF r
<1>7. r.study \in Nat /\ s \in Nat /\ r.cur \in Session /\ r.date \in Dates
  BY <1>5 DEF Begun
<1>8. c \in Session /\ c.id = r.cur.id /\ c.mode = r.cur.mode /\ c.date = r.cur.date
  <2>1. c.secs = r.cur.secs + credit
    BY <1>7 DEF Session
  <2>2. c.secs \in 0 .. MaxSecs
    <3>1. r.cur.secs \in Nat
      BY <1>7, SessionIds
    <3> QED
      BY <1>2, <2>1, <3>1, Bounds
  <2> QED
    BY <1>7, <2>2 DEF Session
<1>9. UpdateDaily(r.date, s) \in Call /\ Save(c) \in Call
  BY <1>7, <1>8, CallTypes
<1>10. q = <<UpdateDaily(r.date, s)>> \o <<Save(c)>>
  BY <1>9
<1>11. (mdate' = mdate /\ cur'.date = cur.date) \/ cur'.date = mdate'
  BY <1>2, <1>4, <1>8 DEF Fitted
<1>12. CASE mdate = tick /\ cur.mode = "STUDY"
  <2>1. r.cur = cur /\ r.study = study /\ r.calls = <<>> /\ r.date = mdate
    BY <1>6, <1>12 DEF Unrolled
  <2>2. q \in Seq(Call)
    BY <1>9
  <2>3. todo' = q
    <3> HIDE DEF q
    <3> QED
      BY <1>2, <2>1, <2>2, ConcatEmptySeq
  <2>4. s = study + credit /\ c = [cur EXCEPT !.secs = cur.secs + credit]
    BY <1>12, <2>1
  <2> QED
    BY <1>2, <1>11, <1>12, <2>1, <2>3, <2>4 DEF Reckoned, Credits
<1>13. CASE ~(mdate = tick /\ cur.mode = "STUDY")
  <2>1. Light(c)
    <3>1. CASE mdate = tick
      <4>1. r.cur = cur /\ cur.mode # "STUDY"
        BY <1>6, <1>13, <3>1 DEF Unrolled
      <4>2. c.id = cur.id /\ c.mode # "STUDY"
        <5> HIDE DEF c
        <5> QED
          BY <1>8, <4>1
      <4> HIDE DEF c
      <4> QED
        BY <4>1, <4>2 DEF Light, Idle
    <3>2. CASE mdate # tick
      <4>1. r.cur.mode = "STANDBY" /\ r.cur.id >= next
        BY <1>4, <3>2 DEF Fitted
      <4> HIDE DEF c
      <4> QED
        BY <1>8, <4>1 DEF Light, Idle
    <3> QED
      BY <3>1, <3>2
  <2> HIDE DEF c, s
  <2>2. AllFit(<<UpdateDaily(r.date, s)>>) /\ AllFit(<<Save(c)>>)
    BY <1>9, <2>1, FitCalls, FitOne
  <2>3. AllFit(q)
    BY <1>10, <2>2, FitBoth
  <2> HIDE DEF q
  <2>4. AllFit(todo')
    BY <1>2, <1>4, <2>3, FitBoth DEF Fitted
  <2> QED
    BY <1>2, <1>11, <2>1, <2>4 DEF Reckoned
<1> QED
  BY <1>12, <1>13

\* Every step is an operation that is reckoned with, or one of the others.
LEMMA OperationsFit ==
    ASSUME TypesInv, cur.id < next, Next
    PROVE  Reckoned \/ TickerFires \/ Write \/ Midnight \/ Close \/ Exit \/ Crash \/ Boot
<1>1. day \in Dates /\ cur \in Session /\ next \in Nat
  BY Bounds DEF TypesInv, TypeOK
<1>2. CASE SetModeStudy
  BY <1>2, ReplaceFits DEF SetModeStudy, Modes, Origins, Ends
<1>3. CASE SetModeBreak
  BY <1>3, ReplaceFits DEF SetModeBreak, Modes, Origins, Ends
<1>4. ASSUME NEW m, NEW o, NEW why, NEW r, NEW b, Move(m, o, why, r, b)
      PROVE  next \in Ids
  BY <1>1, <1>4, Bounds DEF Move, Spare, TypesInv, TypeOK, Ids
<1>5. CASE SetModeOff
  <2>1. CASE Replace("OFF", "MANUAL", "USER_SWITCH")
    BY <2>1, ReplaceFits DEF Modes, Origins, Ends
  <2>2. CASE Move("OFF", "MANUAL", "USER_SWITCH", Rolled(day), FALSE)
    <3>1. Fitted(Rolled(day))
      BY <1>1, <1>4, <2>2, FittedRolled
    <3> QED
      BY <2>2, <3>1, MoveFits DEF Modes, Origins, Ends
  <2> QED
    BY <1>5, <2>1, <2>2 DEF SetModeOff
<1>6. CASE Automation
  BY <1>6, ReplaceFits DEF Automation, Modes, Origins, Ends
<1>7. ASSUME NEW restore \in BOOLEAN, EyeCareBreak(restore) PROVE Reckoned
  <2>1. Move("BREAK", "EYE_CARE", "EYE_CARE", Rolled(day), ~restore)
    BY <1>7 DEF EyeCareBreak
  <2>2. Fitted(Rolled(day))
    BY <1>1, <1>4, <2>1, FittedRolled
  <2>3. (~restore) \in BOOLEAN
    OBVIOUS
  <2> QED
    BY <2>1, <2>2, <2>3, MoveFits DEF Modes, Origins, Ends
<1>8. ASSUME NEW mode \in Modes, ResumeEyeCare(mode) PROVE Reckoned
  <2>1. Move(mode, "MANUAL", "EYE_CARE", Unrolled, FALSE)
    BY <1>8 DEF ResumeEyeCare
  <2> QED
    BY <2>1, FittedUnrolled, MoveFits DEF Modes, Origins, Ends
<1>9. ASSUME NEW c \in {0, 1}, Tick(c) PROVE Reckoned
  BY <1>9, TickFits
<1> QED
  BY <1>2, <1>3, <1>5, <1>6, <1>7, <1>8, <1>9 DEF Next, User, Worker

\* Between the calls of an operation: either every session in memory or on the
\* way to the table has the time its row has (Plain), or the second that was
\* credited is about to be stored, the date's total first (Raising).
Neutral(c) == \A d \in Dates : Con(c, d) = Con(tab[c.id].ses, d)
Plain == Neutral(cur) /\ \A k \in 1 .. Len(todo) : \A c \in Written(todo[k]) : Neutral(c)
Raising ==
    /\ \/ todo = <<UpdateDaily(mdate, study), Save(cur)>>
       \/ todo = <<Save(cur)>> /\ daily[mdate] = study
    /\ cur.mode = "STUDY" /\ cur.date = mdate
    /\ \A d \in Dates : d # mdate => Con(tab[cur.id].ses, d) = 0
    /\ Studied(mdate) - Con(tab[cur.id].ses, mdate) + cur.secs <= study
Dated ==
    /\ mdate <= cur.date /\ cur.date <= day
    /\ \A k \in 1 .. Len(todo) :
         todo[k].call = "move" => mdate <= todo[k].to.date /\ todo[k].to.date <= day
Fresh == \A i \in Ids : i >= next => \A d \in Dates : Con(tab[i].ses, d) = 0

SecsInv ==
    faults = 0 =>
      /\ \A d \in Dates : Studied(d) <= daily[d]
      /\ Fresh
      /\ life # "down" => Dated /\ (Plain \/ Raising)

\* The terms of the sums.
LEMMA NoTime == \A c, d : Idle(c) => Con(c, d) = 0
  BY DEF Idle, Con

LEMMA StudiedNats == ASSUME TypesInv PROVE \A d \in Dates : Studied(d) \in Nat
  BY StudiedIsTheSum

LEMMA ConNats ==
    ASSUME TypesInv
    PROVE  \A i \in Ids : \A d : Con(tab[i].ses, d) \in Nat
<1>1. \A i \in Ids : tab[i] \in Row
  BY DEF TypesInv, TypeOK
<1> QED
  BY <1>1, RowParts

\* A queue that raises a total is not empty.
LEMMA OnlyPlain == ASSUME todo = <<>> PROVE ~Raising
<1>1. Len(todo) = 0
  OBVIOUS
<1>2. \A a, b : Len(<<a, b>>) = 2 /\ Len(<<a>>) = 1
  OBVIOUS
<1> QED
  BY <1>1, <1>2 DEF Raising

\* An operation begins with memory and table equal, and keeps them equal or
\* credits one second.
LEMMA SecsServed ==
    ASSUME Base, Base', TotInv, TotInv', SecsInv, Served, Reckoned
    PROVE  SecsInv'
<1> SUFFICES ASSUME faults' = 0 PROVE SecsInv'
  BY DEF SecsInv
<1>1. /\ UNCHANGED <<day, life, tab, daily>> /\ life # "down" /\ todo = <<>> /\ faults = 0
      /\ next' \in Nat /\ next <= next' /\ mdate' \in Dates
  BY DateFacts DEF Served, Serving, Base
<1>2. /\ TypesInv /\ TypesInv' /\ cur \in Session /\ cur' \in Session /\ todo' \in Seq(Call)
      /\ next \in Nat /\ cur.id \in Ids /\ cur'.id \in Ids /\ cur.secs \in Nat /\ cur.date \in Dates
      /\ mdate \in Dates /\ day \in Nat /\ mdate \in Nat /\ study \in Nat /\ NoTick \notin Dates
      /\ \A d \in Dates : d \in Nat /\ daily[d] \in Nat
  <2>1. TypesInv /\ TypesInv'
    BY DEF Base
  <2>2. cur \in Session /\ cur' \in Session /\ todo' \in Seq(Call) /\ next \in Nat
    BY <2>1, Bounds DEF TypesInv, TypeOK
  <2> QED
    BY <2>1, <2>2, DateFacts, SessionIds
<1>3. /\ \A d \in Dates : Studied(d) <= daily[d]
      /\ Fresh /\ Dated /\ (Plain \/ Raising)
  BY <1>1 DEF SecsInv
<1>4. Neutral(cur)
  BY <1>1, <1>3, OnlyPlain DEF Plain
<1>5. \A d \in Dates : Studied(d)' <= daily'[d]
  BY <1>1, <1>3 DEF Studied, OnDate
<1>6. Fresh'
  <2> SUFFICES ASSUME NEW i \in Ids, i >= next', NEW d \in Dates PROVE Con(tab[i].ses, d) = 0
    BY <1>1 DEF Fresh
  <2>1. i >= next
    BY <1>1, <1>2, Bounds DEF Ids
  <2> QED
    BY <1>3, <2>1 DEF Fresh
<1>7. mdate' <= day /\ tick \in {NoTick, day} /\ daily[mdate] <= study
  BY <1>1 DEF TotInv
<1>8. mdate' <= cur'.date /\ cur'.date <= day
  <2>1. CASE mdate' = mdate /\ cur'.date = cur.date
    BY <1>3, <2>1 DEF Dated
  <2>2. CASE cur'.date = mdate'
    BY <1>1, <1>2, <1>7, <2>2
  <2> QED
    BY <2>1, <2>2 DEF Reckoned
<1>9. ASSUME NEW c \in Session, Light(c)
      PROVE  \A d \in Dates : Con(c, d) = Con(tab'[c.id].ses, d)
  <2>1. CASE c = cur
    BY <1>1, <1>4, <2>1 DEF Neutral
  <2>2. CASE Idle(c) /\ c.id >= next
    BY <1>1, <1>3, <2>2, NoTime, SessionIds DEF Neutral, Fresh
  <2>3. CASE Idle(c) /\ c.id = cur.id /\ Idle(cur)
    BY <1>1, <1>4, <2>3, NoTime DEF Neutral
  <2> QED
    BY <1>9, <2>1, <2>2, <2>3 DEF Light
<1>10. CASE Light(cur') /\ AllFit(todo')
  <2>1. ASSUME NEW k \in 1 .. Len(todo')
        PROVE  /\ \A c \in Written(todo'[k]) : c \in Session /\ Light(c)
               /\ todo'[k].call = "move" => todo'[k].to.date = day
    <3>1. todo'[k] \in Call /\ Fit(todo'[k])
      BY <1>2, <1>10 DEF AllFit
    <3> QED
      BY <3>1, CallParts DEF Fit, Written
  <2>2. Plain'
    BY <1>2, <1>9, <1>10, <2>1 DEF Plain, Neutral
  <2>3. Dated'
    BY <1>1, <1>2, <1>7, <1>8, <2>1 DEF Dated
  <2> QED
    BY <1>5, <1>6, <2>2, <2>3 DEF SecsInv
<1>11. CASE Credits
  <2>1. PICK credit \in {0, 1} :
          study' = study + credit /\ cur' = [cur EXCEPT !.secs = cur.secs + credit]
    BY <1>11 DEF Credits
  <2>2. /\ todo' = <<UpdateDaily(mdate, study'), Save(cur')>> /\ mdate' = mdate /\ mdate = tick
        /\ cur.mode = "STUDY"
    BY <1>11 DEF Credits
  <2>3. mdate = day /\ cur.date = mdate
    <3>1. mdate <= cur.date /\ cur.date <= day
      BY <1>3 DEF Dated
    <3>2. mdate = day
      BY <1>2, <1>7, <2>2
    <3>3. cur.date \in Nat
      BY <1>2
    <3> QED
      BY <1>2, <3>1, <3>2, <3>3
  <2>4. /\ cur'.id = cur.id /\ cur'.mode = "STUDY" /\ cur'.date = mdate
        /\ cur'.secs = cur.secs + credit
    BY <1>2, <2>1, <2>2, <2>3 DEF Session
  <2>5. /\ Con(tab[cur.id].ses, mdate) = cur.secs
        /\ \A d \in Dates : d # mdate => Con(tab[cur.id].ses, d) = 0
    BY <1>2, <1>4, <2>2, <2>3 DEF Neutral, Con
  <2>6. Studied(mdate) \in Nat /\ Studied(mdate) <= study
    BY <1>2, <1>3, <1>7, StudiedNats
  <2>7. Studied(mdate)' = Studied(mdate)
    BY <1>1, <2>2 DEF Studied, OnDate
  <2>8. Studied(mdate)' - Con(tab[cur.id].ses, mdate) + cur'.secs <= study'
    BY <1>2, <2>1, <2>4, <2>5, <2>6, <2>7
  <2>9. Raising'
    BY <1>1, <2>2, <2>4, <2>5, <2>8 DEF Raising
  <2>10. Dated'
    <3>1. \A k \in 1 .. Len(todo') : todo'[k] \in {UpdateDaily(mdate, study'), Save(cur')}
      <4>1. Len(todo') = 2 /\ todo'[1] = UpdateDaily(mdate, study') /\ todo'[2] = Save(cur')
        BY <2>2
      <4>2. \A k \in 1 .. 2 : k = 1 \/ k = 2
        OBVIOUS
      <4> QED
        BY <4>1, <4>2
    <3>2. \A k \in 1 .. Len(todo') : todo'[k].call # "move"
      BY <3>1 DEF Save, UpdateDaily
    <3> QED
      BY <1>1, <1>8, <3>2 DEF Dated
  <2> QED
    BY <1>5, <1>6, <2>9, <2>10 DEF SecsInv
<1> QED
  BY <1>10, <1>11 DEF Reckoned

\* A call writes what the row has, the total, or the second the total has.
LEMMA SecsWrite == ASSUME Base, Base', TotInv, SecsInv, Write PROVE SecsInv'
<1> DEFINE w == Head(todo)
<1> SUFFICES ASSUME faults' = 0 PROVE SecsInv'
  BY DEF SecsInv
<1>1. /\ todo \in Seq(Call) /\ todo # <<>> /\ TypesInv /\ TypesInv' /\ life # "down"
      /\ cur \in Session /\ cur.id \in Ids /\ cur.secs \in Nat /\ cur.date \in Dates
      /\ cur.id < next /\ next \in Nat /\ cur.id \in Nat
      /\ mdate \in Dates /\ mdate \in Nat /\ study \in Nat
      /\ \A d \in Dates : d \in Nat /\ daily[d] \in Nat
  <2>1. TypesInv /\ TypesInv' /\ cur.id < next /\ todo # <<>>
    BY DEF Base, IdsInv, Write
  <2>2. todo \in Seq(Call) /\ life # "down" /\ cur \in Session /\ next \in Nat
    BY <2>1, Bounds DEF TypesInv, TypeOK
  <2> QED
    BY <2>1, <2>2, DateFacts, SessionIds
<1>2. Done(w) /\ UNCHANGED <<day, life, mdate, study, next, tick>>
  BY <1>1, FailedFacts DEF Write
<1>3. /\ w \in Call /\ w = todo[1] /\ 1 \in 1 .. Len(todo)
      /\ \A k \in 1 .. Len(Tail(todo)) : k + 1 \in 1 .. Len(todo) /\ Tail(todo)[k] = todo[k + 1]
  BY <1>1, TailFacts
<1>4. /\ faults = 0 /\ todo' = Tail(todo) /\ cur' = (IF w.call = "move" THEN w.to ELSE cur)
      /\ cur' \in Session
  BY <1>1, <1>2, <1>3, DoneFacts
<1>5. /\ \A d \in Dates : Studied(d) <= daily[d] /\ Studied(d) \in Nat
      /\ Fresh /\ Dated /\ (Plain \/ Raising)
  BY <1>1, <1>4, StudiedNats DEF SecsInv
<1>6. \A d \in Dates : daily'[d] >= daily[d] /\ daily'[d] \in Nat
  <2>1. \A d \in Dates : daily'[d] \in Nat
    BY <1>1 DEF TypesInv, TypeOK
  <2> QED
    BY <1>2, <1>4, <2>1, TotDone
<1> HIDE DEF w
<1>7. CASE Plain
  <2>1. ASSUME NEW i \in Ids, NEW d \in Dates
        PROVE  Con(tab'[i].ses, d) = Con(tab[i].ses, d)
    <3>1. \A c \in Written(w) : Con(c, d) = Con(tab[c.id].ses, d)
      BY <1>3, <1>7 DEF Plain, Neutral
    <3>2. w.call \in {"save", "end", "bump", "daily", "recover", "move"}
      BY <1>3, CallParts
    <3>3. CASE w.call \in {"save", "end"}
      <4>1. Written(w) = {w.row.ses}
        BY <3>3 DEF Written
      <4>2. tab'[i] = IF i = w.row.ses.id THEN w.row ELSE tab[i]
        BY <1>1, <1>2, <1>3, <3>3, RowsAfter
      <4> QED
        BY <3>1, <4>1, <4>2
    <3>4. CASE w.call = "move"
      <4>1. Written(w) = {w.row.ses, w.to}
        BY <3>4 DEF Written
      <4>2. tab'[i] = IF i = w.to.id THEN [ses |-> w.to, end |-> "OPEN"]
                      ELSE IF i = w.row.ses.id THEN w.row ELSE tab[i]
        BY <1>1, <1>2, <1>3, <3>4, RowsAfter
      <4> QED
        BY <3>1, <4>1, <4>2
    <3>5. CASE w.call \in {"recover", "bump", "daily"}
      <4>1. tab'[i].ses = tab[i].ses
        BY <1>1, <1>2, <1>3, <3>5, RowsAfter
      <4> QED
        BY <4>1
    <3> QED
      BY <3>2, <3>3, <3>4, <3>5
  <2>2. \A c \in Session : Neutral(c) => \A d \in Dates : Con(c, d) = Con(tab'[c.id].ses, d)
    BY <2>1, SessionIds DEF Neutral
  <2>3. \A d \in Dates : Studied(d)' <= daily'[d]
    <3>1. \A d \in Dates : Studied(d)' = Studied(d)
      BY <1>1, <2>1, StudiedSame
    <3> QED
      BY <1>1, <1>5, <1>6, <3>1
  <2>4. Fresh'
    BY <1>2, <1>5, <2>1 DEF Fresh
  <2>5. \A k \in 1 .. Len(todo) : \A c \in Written(todo[k]) : c \in Session /\ Neutral(c)
    <3> SUFFICES ASSUME NEW k \in 1 .. Len(todo), NEW c \in Written(todo[k]) PROVE c \in Session
      BY <1>7 DEF Plain
    <3>1. todo[k] \in Call
      BY <1>1
    <3> QED
      BY <3>1, CallParts DEF Written
  <2>6. \A d \in Dates : Con(cur', d) = Con(tab'[cur'.id].ses, d)
    <3>1. \A d \in Dates : Con(cur', d) = Con(tab[cur'.id].ses, d)
      <4>1. CASE w.call = "move"
        <5>1. w.to \in Written(w)
          BY <4>1 DEF Written
        <5> QED
          BY <1>3, <1>4, <2>5, <4>1, <5>1 DEF Neutral
      <4>2. CASE w.call # "move"
        BY <1>4, <1>7, <4>2 DEF Plain, Neutral
      <4> QED
        BY <4>1, <4>2
    <3> QED
      BY <1>4, <2>2, <3>1 DEF Neutral
  <2>7. Plain'
    <3>1. \A k \in 1 .. Len(todo') : \A c \in Written(todo'[k]) :
            \A d \in Dates : Con(c, d) = Con(tab'[c.id].ses, d)
      BY <1>3, <1>4, <2>2, <2>5
    <3> QED
      BY <2>6, <3>1 DEF Plain, Neutral
  <2>8. Dated'
    <3>1. mdate <= cur'.date /\ cur'.date <= day
      BY <1>3, <1>4, <1>5 DEF Dated
    <3> QED
      BY <1>2, <1>3, <1>4, <1>5, <3>1 DEF Dated
  <2> QED
    BY <2>3, <2>4, <2>7, <2>8 DEF SecsInv
<1>8. CASE Raising
  <2>1. /\ cur.mode = "STUDY" /\ cur.date = mdate
        /\ \A d \in Dates : d # mdate => Con(tab[cur.id].ses, d) = 0
        /\ Studied(mdate) - Con(tab[cur.id].ses, mdate) + cur.secs <= study
    BY <1>8 DEF Raising
  <2>2. CASE todo = <<UpdateDaily(mdate, study), Save(cur)>>
    <3>1. w = UpdateDaily(mdate, study) /\ todo' = <<Save(cur)>>
      BY <1>4, <2>2 DEF w
    <3>2. w.call = "daily" /\ w.date = mdate /\ w.secs = study
      BY <3>1, DailyFacts
    <3>3. tab' = tab /\ cur' = cur
      BY <1>1, <1>2, <1>3, <1>4, <3>2, RowsAfter
    <3>4. daily'[mdate] = study
      BY <1>1, <1>2, <1>3, <3>2, DoneFacts
    <3>5. \A d \in Dates : Studied(d)' = Studied(d)
      BY <3>3 DEF Studied, OnDate
    <3>6. Studied(mdate)' = Studied(mdate)
      BY <1>2, <3>3 DEF Studied, OnDate
    <3>7. Raising'
      BY <1>2, <2>1, <3>1, <3>3, <3>4, <3>6 DEF Raising
    <3>8. Fresh' /\ \A d \in Dates : Studied(d)' <= daily'[d]
      BY <1>1, <1>2, <1>5, <1>6, <3>3, <3>5 DEF Fresh
    <3>9. Dated'
      <4>1. Len(todo') = 1 /\ todo'[1] = Save(cur)
        BY <3>1
      <4>2. \A k \in 1 .. Len(todo') : todo'[k].call # "move"
        BY <4>1 DEF Save
      <4> QED
        BY <1>2, <1>5, <3>3, <4>2 DEF Dated
    <3> QED
      BY <3>7, <3>8, <3>9 DEF SecsInv
  <2>3. CASE todo = <<Save(cur)>> /\ daily[mdate] = study
    <3>1. w = Save(cur) /\ todo' = <<>>
      BY <1>4, <2>3 DEF w
    <3>2. w.call = "save" /\ w.row.ses = cur
      BY <3>1 DEF Save
    <3>3. /\ \A i \in Ids : tab'[i] = IF i = cur.id THEN w.row ELSE tab[i]
          /\ cur' = cur /\ daily' = daily
      <4>1. w.call \in {"save", "end"} /\ w.call # "move" /\ w.call # "daily"
        BY <3>2
      <4>2. \A i \in Ids : tab'[i] = IF i = w.row.ses.id THEN w.row ELSE tab[i]
        BY <1>1, <1>2, <1>3, <4>1, RowsAfter
      <4>3. daily' = daily
        BY <1>1, <1>2, <1>3, <4>1, DoneFacts
      <4> QED
        BY <1>4, <3>2, <4>1, <4>2, <4>3
    <3>4. /\ tab'[cur.id].ses = cur
          /\ \A i \in Ids : \A d \in Dates :
               i # cur.id => Con(tab'[i].ses, d) = Con(tab[i].ses, d)
      BY <1>1, <3>2, <3>3
    <3>5. ASSUME NEW d \in Dates PROVE Studied(d)' <= daily'[d]
      <4>1. Studied(d)' - Con(cur, d) = Studied(d) - Con(tab[cur.id].ses, d) /\ Studied(d)' \in Nat
        <5>1. \A i \in Ids : i # cur.id => Con(tab'[i].ses, d) = Con(tab[i].ses, d)
          BY <3>4
        <5>2. /\ Studied(d)' - Con(tab'[cur.id].ses, d) = Studied(d) - Con(tab[cur.id].ses, d)
              /\ Studied(d)' \in Nat
          BY <1>1, <5>1, StudiedRaised
        <5> QED
          BY <3>4, <5>2
      <4>3. Con(tab[cur.id].ses, d) \in Nat
        BY <1>1, ConNats
      <4>4. CASE d = mdate
        <5>1. Con(cur, d) = cur.secs
          BY <2>1, <4>4 DEF Con
        <5> QED
          BY <1>1, <1>5, <2>1, <2>3, <3>3, <4>1, <4>3, <4>4, <5>1
      <4>5. CASE d # mdate
        <5>1. Con(cur, d) = 0 /\ Con(tab[cur.id].ses, d) = 0
          BY <2>1, <4>5 DEF Con
        <5> QED
          BY <1>1, <1>5, <3>3, <4>1, <5>1
      <4> QED
        BY <4>4, <4>5
    <3>6. Fresh'
      <4> SUFFICES ASSUME NEW i \in Ids, i >= next, NEW d \in Dates PROVE Con(tab'[i].ses, d) = 0
        BY <1>2 DEF Fresh
      <4>1. i # cur.id
        BY <1>1
      <4> QED
        BY <1>5, <3>4, <4>1 DEF Fresh
    <3>7. Plain'
      BY <3>1, <3>3, <3>4, EmptyQueue DEF Plain, Neutral
    <3>8. Dated'
      BY <1>2, <1>5, <3>1, <3>3, EmptyQueue DEF Dated
    <3> QED
      BY <3>5, <3>6, <3>7, <3>8 DEF SecsInv
  <2> QED
    BY <1>8, <2>2, <2>3 DEF Raising
<1> QED
  BY <1>5, <1>7, <1>8

\* The successor of a restart begins at 0, today.
LEMMA RecoveredAnew == Recovered.secs = 0 /\ Recovered.date = day
<1> DEFINE newest == {i \in OpenRows : \A j \in OpenRows :
                        tab[j].ses.date < tab[i].ses.date
                          \/ (tab[j].ses.date = tab[i].ses.date /\ j <= i)}
           found == {i \in newest : tab[i].ses.date = day}
           x == CHOOSE i \in found : TRUE
<1>1. Recovered = IF found = {} THEN New(next, "STANDBY", "MANUAL", day)
                  ELSE New(next, tab[x].ses.mode, tab[x].ses.origin, day)
  BY DEF Recovered
<1> HIDE DEF newest, found, x
<1> QED
  BY <1>1 DEF New

\* A restart loads the total and starts a session without time;
LEMMA SecsBoot == ASSUME Base, TotInv, SecsInv, Boot PROVE SecsInv'
<1> SUFFICES ASSUME faults' = 0 PROVE SecsInv'
  BY DEF SecsInv
<1>1. TypesInv /\ next \in Nat /\ day \in Nat
  BY Bounds, DateFacts DEF Base, TypesInv, TypeOK
<1>2. /\ faults = 0 /\ next \in Ids /\ cur' \in Session /\ cur'.id = next
      /\ cur' = Recovered /\ Len(todo') = 2
      /\ todo'[1] = CloseOpenSessions /\ todo'[2] = Save(cur')
  BY <1>1, BootFacts DEF TypesInv, TypeOK
<1>3. mdate' = day /\ next' = next + 1 /\ UNCHANGED <<day, tab, daily, tick>>
  BY DEF Boot
<1>4. Fresh /\ \A d \in Dates : Studied(d) <= daily[d]
  BY <1>2 DEF SecsInv
<1>5. \A d \in Dates : Studied(d)' <= daily'[d]
  BY <1>3, <1>4 DEF Studied, OnDate
<1>6. Fresh'
  <2> SUFFICES ASSUME NEW i \in Ids, i >= next + 1, NEW d \in Dates PROVE Con(tab[i].ses, d) = 0
    BY <1>3 DEF Fresh
  <2>1. i >= next
    BY <1>1, Bounds DEF Ids
  <2> QED
    BY <1>4, <2>1 DEF Fresh
<1>7. cur'.secs = 0 /\ cur'.date = day
  BY <1>2, RecoveredAnew
<1>8. \A k \in 1 .. Len(todo') : todo'[k] \in {CloseOpenSessions, Save(cur')}
  <2>1. \A k \in 1 .. Len(todo') : k = 1 \/ k = 2
    BY <1>2
  <2> QED
    BY <1>2, <2>1
<1>9. \A k \in 1 .. Len(todo') : todo'[k].call # "move" /\ Written(todo'[k]) \subseteq {cur'}
  <2>1. CloseOpenSessions.call # "move" /\ Written(CloseOpenSessions) = {}
    BY DEF CloseOpenSessions, Written
  <2>2. \A c : Save(c).call # "move" /\ Written(Save(c)) = {c}
    BY DEF Save, Written
  <2> QED
    BY <1>8, <2>1, <2>2
<1>10. \A d \in Dates : Con(cur', d) = Con(tab'[cur'.id].ses, d)
  <2>1. \A d \in Dates : Con(cur', d) = 0
    BY <1>7 DEF Con
  <2>2. next >= next
    BY <1>1
  <2> QED
    BY <1>2, <1>3, <1>4, <2>1, <2>2 DEF Fresh
<1>11. Plain'
  BY <1>9, <1>10 DEF Plain, Neutral
<1>12. Dated'
  BY <1>1, <1>3, <1>7, <1>9 DEF Dated
<1> QED
  BY <1>5, <1>6, <1>11, <1>12 DEF SecsInv

\* the remaining steps store nothing new.
LEMMA SecsOthers ==
    ASSUME Base, SecsInv, TickerFires \/ Midnight \/ Close \/ Exit \/ Crash
    PROVE  SecsInv'
<1> SUFFICES ASSUME faults' = 0 PROVE SecsInv'
  BY DEF SecsInv
<1>1. /\ faults = 0 /\ UNCHANGED <<cur, mdate, study, next, tab, daily>>
  BY DEF TickerFires, Midnight, Close, Exit, Crash
<1>2. /\ day \in Nat /\ cur \in Session /\ cur.date \in Nat
  <2>1. day \in Nat /\ cur \in Session
    BY DateFacts DEF Base, TypesInv, TypeOK
  <2>2. \A d \in Dates : d \in Nat
    BY DateFacts DEF Base
  <2> QED
    BY <2>1, <2>2, SessionIds
<1>3. Fresh /\ \A d \in Dates : Studied(d) <= daily[d]
  BY <1>1 DEF SecsInv
<1>4. Fresh' /\ \A d \in Dates : Studied(d)' <= daily'[d]
  BY <1>1, <1>3 DEF Fresh, Studied, OnDate
<1>5. CASE TickerFires
  <2>1. UNCHANGED <<todo, day, life>>
    BY <1>5 DEF TickerFires
  <2> QED
    BY <1>1, <1>4, <2>1 DEF SecsInv, Dated, Plain, Raising, Neutral, Studied, OnDate
<1>6. CASE Midnight
  <2>1. UNCHANGED <<todo, life>> /\ day' = day + 1
    BY <1>6 DEF Midnight
  <2>2. ASSUME life # "down" PROVE Dated' /\ (Plain' \/ Raising')
    <3>1. Dated /\ (Plain \/ Raising)
      BY <1>1, <2>2 DEF SecsInv
    <3>2. \A k \in 1 .. Len(todo) :
            todo[k].call = "move" => todo[k].to.date \in Nat
      <4> SUFFICES ASSUME NEW k \in 1 .. Len(todo), todo[k].call = "move"
                   PROVE  todo[k].to.date \in Nat
        OBVIOUS
      <4>1. todo[k] \in Call
        BY DEF Base, TypesInv
      <4>2. \A d \in Dates : d \in Nat
        BY DateFacts DEF Base
      <4> QED
        BY <4>1, <4>2, CallParts, SessionIds
    <3>3. Dated'
      BY <1>1, <1>2, <2>1, <3>1, <3>2 DEF Dated
    <3> QED
      BY <1>1, <2>1, <3>1, <3>3 DEF Plain, Raising, Neutral, Studied, OnDate
  <2> QED
    BY <1>4, <2>1, <2>2 DEF SecsInv
<1>7. CASE Close
  <2>1. /\ life # "down" /\ todo = <<>> /\ todo' = Closing(cur, "SHUTDOWN")
        /\ day' = day
    BY <1>7 DEF Close
  <2>2. Dated /\ (Plain \/ Raising)
    BY <1>1, <2>1 DEF SecsInv
  <2>3. Neutral(cur)
    BY <2>1, <2>2, OnlyPlain DEF Plain
  <2>4. \A k \in 1 .. Len(todo') : todo'[k].call # "move" /\ Written(todo'[k]) \subseteq {cur}
    <3>1. \A c : Written(SaveEnded(c, "SHUTDOWN")) = {c} /\ SaveEnded(c, "SHUTDOWN").call # "move"
      BY DEF SaveEnded, Written
    <3>2. \A d : Written(Bump(d)) = {} /\ Bump(d).call # "move"
      BY DEF Bump, Written
    <3>3. /\ todo'[1] = SaveEnded(cur, "SHUTDOWN")
          /\ cur.mode = "STUDY" => Len(todo') = 2 /\ todo'[2] = Bump(cur.date)
          /\ cur.mode # "STUDY" => Len(todo') = 1
      BY <1>2, <2>1, ClosingQueue DEF Ends
    <3>4. \A k \in 1 .. Len(todo') : k = 1 \/ (k = 2 /\ cur.mode = "STUDY")
      <4>1. CASE cur.mode = "STUDY"
        <5>1. Len(todo') = 2
          BY <3>3, <4>1
        <5> QED
          BY <4>1, <5>1
      <4>2. CASE cur.mode # "STUDY"
        <5>1. Len(todo') = 1
          BY <3>3, <4>2
        <5> QED
          BY <5>1
      <4> QED
        BY <4>1, <4>2
    <3> QED
      BY <3>1, <3>2, <3>3, <3>4
  <2>5. Plain'
    BY <1>1, <2>3, <2>4 DEF Plain, Neutral
  <2>6. Dated'
    BY <1>1, <2>1, <2>2, <2>4 DEF Dated
  <2> QED
    BY <1>4, <2>5, <2>6 DEF SecsInv
<1>8. CASE Exit \/ Crash
  <2>1. life' = "down"
    BY <1>8 DEF Exit, Crash
  <2> QED
    BY <1>4, <2>1 DEF SecsInv
<1> QED
  BY <1>5, <1>6, <1>7, <1>8

\* In the beginning no session studied.
LEMMA SecsInit == Init => SecsInv
<1> SUFFICES ASSUME Init PROVE SecsInv
  OBVIOUS
<1>1. Base
  BY BaseInit
<1>2. /\ day = 0 /\ mdate = 0 /\ todo = <<>> /\ study = 0 /\ next = cur.id + 1
      /\ daily = [d \in Dates |-> 0] /\ MaxSess \in Nat /\ MaxSess > 1
  BY Bounds DEF Init
<1>3. /\ cur.mode # "STUDY" /\ cur.date = 0 /\ cur.id \in Ids
      /\ \A i \in Ids : tab[i].ses.mode # "STUDY"
  <2>1. CASE /\ cur = New(1, "STANDBY", "MANUAL", 0)
             /\ tab = [i \in Ids |-> IF i = 1 THEN [ses |-> cur, end |-> "OPEN"] ELSE NoRow]
    <3>1. cur.mode = "STANDBY" /\ cur.date = 0 /\ cur.id = 1
      BY <2>1 DEF New
    <3>2. \A i \in Ids : tab[i] \in {[ses |-> cur, end |-> "OPEN"], NoRow}
      BY <2>1
    <3> QED
      BY <1>2, <3>1, <3>2 DEF NoRow, Ids
  <2>2. CASE /\ cur = New(2, "BREAK", "AUTOMATION", 0)
             /\ tab = [i \in Ids |->
                      CASE i = 1 -> [ses |-> [cur EXCEPT !.id = 1], end |-> "RESTART_RECOVERY"]
                        [] i = 2 -> [ses |-> cur, end |-> "OPEN"]
                        [] OTHER -> NoRow]
    <3> DEFINE c1 == [cur EXCEPT !.id = 1]
    <3>1. cur.mode = "BREAK" /\ c1.mode = "BREAK" /\ cur.date = 0 /\ cur.id = 2
      BY <2>2 DEF New
    <3>2. tab = [i \in Ids |-> CASE i = 1 -> [ses |-> c1, end |-> "RESTART_RECOVERY"]
                                 [] i = 2 -> [ses |-> cur, end |-> "OPEN"]
                                 [] OTHER -> NoRow]
      BY <2>2
    <3> HIDE DEF c1
    <3>3. \A i \in Ids : tab[i] \in {[ses |-> c1, end |-> "RESTART_RECOVERY"],
                                     [ses |-> cur, end |-> "OPEN"], NoRow}
      BY <3>2
    <3> QED
      BY <1>2, <3>1, <3>3 DEF NoRow, Ids
  <2> QED
    BY <2>1, <2>2 DEF Init
<1>4. \A i \in Ids : \A d \in Dates : Con(tab[i].ses, d) = 0
  BY <1>3 DEF Con
<1>5. \A d \in Dates : Studied(d) <= daily[d]
  <2> SUFFICES ASSUME NEW d \in Dates PROVE Studied(d) = 0
    BY <1>2
  <2> DEFINE f == OnDate(d)
  <2>1. \A i \in Ids : f[i] \in Nat /\ f[i] = 0
    BY <1>4 DEF OnDate
  <2> HIDE DEF f
  <2>2. SumOver(f, Ids) = SumOver(f, {})
    BY <2>1, IdsFinite, SumOfSubset
  <2> QED
    BY <2>2, SumEmpty DEF Studied, f
<1>6. Fresh
  BY <1>4 DEF Fresh
<1>7. Plain /\ Dated
  BY <1>2, <1>3, <1>4, EmptyQueue DEF Plain, Neutral, Dated, Con
<1> QED
  BY <1>5, <1>6, <1>7 DEF SecsInv

\* Every step keeps the invariant.
LEMMA SecsStep ==
    ASSUME Base, Base', TotInv, TotInv', SecsInv, [Next]_vars
    PROVE  SecsInv'
<1>1. TypesInv /\ cur.id < next
  BY DEF Base, IdsInv
<1>2. CASE UNCHANGED vars
  BY <1>2 DEF vars, SecsInv, Fresh, Dated, Plain, Raising, Neutral, Studied, OnDate
<1>3. CASE Write
  BY <1>3, SecsWrite
<1>4. CASE TickerFires \/ Midnight \/ Close \/ Exit \/ Crash
  BY <1>4, SecsOthers
<1>5. CASE Boot
  BY <1>5, SecsBoot
<1>6. CASE Next /\ ~(TickerFires \/ Write \/ Midnight \/ Close \/ Exit \/ Crash \/ Boot)
  <2>1. Served /\ Reckoned
    BY <1>1, <1>6, Operations, OperationsFit
  <2> QED
    BY <2>1, SecsServed
<1> QED
  BY <1>2, <1>3, <1>4, <1>5, <1>6

\* As long as ticks arrive on their day and no storage call fails, the study time
\* of a date's sessions never exceeds the stored total of the date: no switch,
\* no midnight, no crash and no restart lets a second be counted twice.
THEOREM SessionsWithinTotals ==
    ASSUME ~LateTicks
    PROVE  Spec => []DailyCoversSessions
<1>1. Init => TotInv /\ SecsInv
  BY TotInit, SecsInit
<1>2. Base /\ Base' /\ TotInv /\ SecsInv /\ [Next]_vars => TotInv' /\ SecsInv'
  BY TotStep, SecsStep
<1>3. Spec => [](Base /\ SecsInv)
  BY <1>1, <1>2, BaseInvariant, PTL DEF Spec
<1>4. Base /\ SecsInv => DailyCoversSessions
  BY StudiedIsTheSum DEF Base, SecsInv, DailyCoversSessions
<1> QED
  BY <1>3, <1>4, PTL

=============================================================================
