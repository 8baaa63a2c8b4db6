----------------------------- MODULE WatchProofs ------------------------------
(***************************************************************************)
(* What the parts that watch the user tell him, for every value of the     *)
(* constants: that EyeCareRhythm's breaks are earned and told, that        *)
(* ReminderEngine's reminders count from the last transition, that         *)
(* DistractionTracker begins no event for a short change of windows, that  *)
(* SemanticSegments takes a snapshot of one activity watched long enough,  *)
(* and that EvidenceWindow proposes a session on enough study. Each is an  *)
(* instance over variables of its own.                                     *)
(***************************************************************************)
EXTENDS EyeCareRhythm, SequenceTheorems, SumTheorems

Bounds == /\ FocusFor \in Nat /\ LongAfter \in Nat /\ ShortFor \in Nat /\ LongFor \in Nat
          /\ SnoozeFor \in Nat /\ MaxSnoozes \in Nat /\ Refusal \in Nat /\ Repeat \in Nat
          /\ Idle \in Nat /\ MaxUse \in Nat /\ MaxDay \in Nat /\ MaxFaults \in Nat
          /\ MaxStarts \in Nat

Status == [phase : Phases, date : Nat, seg : Nat, since : Nat, retry : Nat, snoozes : Nat,
           snooze : SUBSET Nat, rest : SUBSET Nat, prompt : SUBSET Nat]
History == [seg : Nat, since : Nat, pause : Nat]

\* The types without the bounds of the checking, on which nothing rests.
Typed ==
    /\ st \in Status /\ done \in History
    /\ owed \in Nat /\ day \in Nat

-----------------------------------------------------------------------------
(* Operators *)

\* The smaller of two naturals.
LEMMA SmallerFacts ==
  ASSUME NEW a \in Nat, NEW b \in Nat
  PROVE  Smaller(a, b) \in Nat /\ Smaller(a, b) <= a /\ Smaller(a, b) <= b
         /\ (Smaller(a, b) = a \/ Smaller(a, b) = b)
  BY DEF Smaller

\* What is left of a span stays one.
LEMMA LeftFacts ==
  ASSUME NEW span \in SUBSET Nat, NEW time \in Nat
  PROVE  Left(span, time) \in SUBSET Nat /\ (span # {} => Left(span, time) # {})
  BY DEF Left

\* Time passing touches nothing but what is left of it.
LEMMA AfterFacts ==
  ASSUME NEW s \in Status, NEW time \in Nat
  PROVE  /\ After(s, time) \in Status
         /\ After(s, time).phase = s.phase /\ After(s, time).date = s.date
         /\ After(s, time).seg = s.seg /\ After(s, time).since = s.since
         /\ After(s, time).retry = s.retry
         /\ After(s, time).prompt = Left(s.prompt, time)
  <1>1. \A span \in SUBSET Nat : Left(span, time) \in SUBSET Nat BY LeftFacts
  <1> QED BY <1>1 DEF After, Status

\* Ending a break returns to focusing and keeps the counts,
LEMMA ClosedFacts ==
  ASSUME NEW s \in Status
  PROVE  /\ Closed(s) \in Status
         /\ Closed(s).phase = "focusing" /\ Closed(s).seg = s.seg
         /\ Closed(s).since = s.since /\ Closed(s).retry = s.retry
         /\ Closed(s).date = s.date
  BY DEF Closed, Status, Phases

\* refusing one asks again later,
LEMMA RefusedFacts ==
  ASSUME Bounds, NEW s \in Status
  PROVE  /\ Refused(s) \in Status
         /\ Refused(s).phase = "focusing" /\ Refused(s).seg = s.seg
         /\ Refused(s).since = s.since /\ Refused(s).retry = s.since + Refusal
         /\ Refused(s).date = s.date
  <1>1. s.since + Refusal \in Nat BY DEF Bounds, Status
  <1>2. Closed(s) \in Status BY ClosedFacts
  <1> QED BY <1>1, <1>2, ClosedFacts DEF Refused, Status

\* a new day counts from zero,
LEMMA NewDayFacts ==
  ASSUME NEW s \in Status, day \in Nat
  PROVE  /\ NewDay(s) \in Status
         /\ s.date = day => NewDay(s) = s
         /\ s.date # day => /\ NewDay(s).seg = 0 /\ NewDay(s).since = 0
                            /\ NewDay(s).retry = 0 /\ ~Due(NewDay(s))
         /\ Due(NewDay(s)) => NewDay(s) = s
         /\ NewDay(s).phase = s.phase \/ (Due(s) /\ NewDay(s).phase = "focusing")
         /\ NewDay(s).prompt = s.prompt
  <1>1. CASE s.date = day BY <1>1 DEF NewDay
  <1>2. CASE s.date # day
    <2>1. NewDay(s) = [s EXCEPT !.date = day, !.seg = 0, !.since = 0, !.retry = 0,
                       !.snooze = {}, !.snoozes = 0,
                       !.phase = IF Due(s) THEN "focusing" ELSE @]
      BY <1>2 DEF NewDay
    <2>2. NewDay(s).phase = IF Due(s) THEN "focusing" ELSE s.phase BY <2>1 DEF Status
    <2>3. ~Due(NewDay(s)) BY <2>2 DEF Due
    <2>4. s.phase \in Phases /\ "focusing" \in Phases BY DEF Status, Phases
    <2>5. \A ph \in Phases :
            [s EXCEPT !.date = day, !.seg = 0, !.since = 0, !.retry = 0,
                      !.snooze = {}, !.snoozes = 0, !.phase = ph] \in Status
      BY DEF Status
    <2>6. NewDay(s) = [s EXCEPT !.date = day, !.seg = 0, !.since = 0, !.retry = 0,
                       !.snooze = {}, !.snoozes = 0,
                       !.phase = IF Due(s) THEN "focusing" ELSE s.phase]
      BY <2>1 DEF Status
    <2>7. NewDay(s) \in Status BY <2>4, <2>5, <2>6, ZenonT(60)
    <2>8. NewDay(s).seg = 0 /\ NewDay(s).since = 0 /\ NewDay(s).retry = 0
          /\ NewDay(s).prompt = s.prompt
      BY <2>1 DEF Status
    <2> QED BY <1>2, <2>2, <2>3, <2>7, <2>8
  <1> QED BY <1>1, <1>2

\* What settling a status does: nothing, a refusal, a rest or a closed break.
LEMMA SettledFacts ==
  ASSUME Bounds, NEW s \in Status, NEW m
  PROVE  /\ Settled(s, m) \in Status
         /\ Settled(s, m) = s \/ ~Due(Settled(s, m))
         /\ Rested(s, m) => Settled(s, m).seg = 0
         /\ ~Rested(s, m) => Settled(s, m).seg = s.seg
         /\ Rested(s, m) /\ s.phase = "long" =>
              Settled(s, m).since = 0 /\ Settled(s, m).retry = 0
         /\ ~(Rested(s, m) /\ s.phase = "long") => Settled(s, m).since = s.since
         /\ ~(Rested(s, m) /\ s.phase = "long") /\ ~Aborted(s, m) =>
              Settled(s, m).retry = s.retry
         /\ Aborted(s, m) => Settled(s, m).retry = s.since + Refusal
  <1>0. (Aborted(s, m) => ~Rested(s, m)) /\ (Rested(s, m) => m = "eye")
    BY DEF Aborted, Rested
  <1>1. CASE Aborted(s, m)
    <2>1. Settled(s, m) = Refused(s) BY <1>0, <1>1 DEF Settled
    <2>2. ~Due(Refused(s)) BY RefusedFacts DEF Due
    <2> QED BY <1>0, <1>1, <2>1, <2>2, RefusedFacts
  <1>2. CASE ~Aborted(s, m) /\ Rested(s, m) /\ s.phase = "short"
    <2> DEFINE r == [s EXCEPT !.phase = "waiting", !.seg = 0]
    <2>0. s.phase # "long" BY <1>2
    <2>1. Settled(s, m) = r BY <1>0, <1>2, <2>0 DEF Settled
    <2>2. r.phase = "waiting" /\ r.seg = 0 /\ r.since = s.since /\ r.retry = s.retry
      BY DEF Status
    <2>3. r \in Status BY DEF Status, Phases
    <2>4. ~Due(r) BY <2>2 DEF Due
    <2> QED BY <1>2, <2>1, <2>2, <2>3, <2>4
  <1>3. CASE ~Aborted(s, m) /\ Rested(s, m) /\ s.phase = "long"
    <2> DEFINE r == [s EXCEPT !.phase = "waiting", !.seg = 0, !.since = 0, !.retry = 0]
    <2>0. s.phase # "short" BY <1>3
    <2>1. Settled(s, m) = r BY <1>0, <1>3, <2>0 DEF Settled
    <2>2. r.phase = "waiting" /\ r.seg = 0 /\ r.since = 0 /\ r.retry = 0
      BY DEF Status
    <2>3. r \in Status BY DEF Status, Phases
    <2>4. ~Due(r) BY <2>2 DEF Due
    <2> QED BY <1>3, <2>1, <2>2, <2>3, <2>4
  <1>4. CASE ~Aborted(s, m) /\ ~Rested(s, m) /\ Resting(s) /\ m # "eye"
    <2>1. Settled(s, m) = [Closed(s) EXCEPT !.rest = {}] BY <1>4 DEF Settled
    <2>2. Closed(s) \in Status BY ClosedFacts
    <2> QED BY <1>4, <2>1, <2>2, ClosedFacts DEF Due, Status
  <1>5. CASE ~Aborted(s, m) /\ ~Rested(s, m) /\ ~(Resting(s) /\ m # "eye")
    <2>1. Settled(s, m) = s BY <1>5 DEF Settled
    <2> QED BY <1>5, <2>1
  <1>6. Rested(s, m) => s.phase = "short" \/ s.phase = "long" BY DEF Rested
  <1> QED BY <1>1, <1>2, <1>3, <1>4, <1>5, <1>6

\* the end of a snooze keeps the counts.
LEMMA WokenFacts ==
  ASSUME NEW s \in Status
  PROVE  /\ Woken(s) \in Status
         /\ Woken(s).phase = s.phase /\ Woken(s).seg = s.seg
         /\ Woken(s).since = s.since /\ Woken(s).retry = s.retry
         /\ Woken(s).date = s.date
         /\ s.prompt # {} => Woken(s).prompt # {}
  BY DEF Woken, Status

\* An advanced status is due only where it was before, and keeps its prompt.
LEMMA AdvancedFacts ==
  ASSUME Bounds, NEW s \in Status, NEW m, day \in Nat
  PROVE  /\ Advanced(s, m) \in Status
         /\ Due(Advanced(s, m)) => /\ Due(s) /\ Advanced(s, m).phase = s.phase
                                   /\ s.prompt # {} => Advanced(s, m).prompt # {}
  <1> DEFINE n == NewDay(s)
             c == Settled(n, m)
  <1>1. n \in Status BY NewDayFacts
  <1>2. c \in Status /\ (c = n \/ ~Due(c)) BY <1>1, SettledFacts
  <1>3. Advanced(s, m) = Woken(c) BY DEF Advanced
  <1>4. Woken(c) \in Status /\ Woken(c).phase = c.phase
        /\ (c.prompt # {} => Woken(c).prompt # {})
    BY <1>2, WokenFacts
  <1>5. Due(Woken(c)) => Due(c) BY <1>4 DEF Due
  <1>6. Due(n) => n = s BY NewDayFacts
  <1> QED BY <1>2, <1>3, <1>4, <1>5, <1>6

-----------------------------------------------------------------------------
(* The count *)

\* The history h has seen at least the use the counters of s hold, with what is
\* still owed: since the last rest, since the last long one, and since the last
\* refusal, each as far as a break asks for.
Counted(s, h, w) ==
    /\ s.seg + w <= h.seg \/ FocusFor <= h.seg
    /\ s.since + w <= h.since \/ LongAfter <= h.since
    /\ s.since + w + Refusal <= h.pause + s.retry \/ Refusal <= h.pause

\* What the history remembers follows the counts.
LEMMA NotedFacts ==
  ASSUME Bounds, Typed, NEW s \in Status, NEW m
  PROVE  LET n == NewDay(s)
             fresh == s.date # day
             long == Rested(n, m) /\ n.phase = "long"
             h == Noted(s, m)
         IN  /\ h \in History
             /\ fresh \/ Rested(n, m) => h.seg = owed
             /\ ~fresh /\ ~Rested(n, m) => h.seg = done.seg
             /\ fresh \/ long => h.since = owed
             /\ ~fresh /\ ~long => h.since = done.since
             /\ Aborted(n, m) => h.pause = owed
             /\ ~Aborted(n, m) /\ (fresh \/ long) => h.pause = Refusal
             /\ ~Aborted(n, m) /\ ~fresh /\ ~long => h.pause = done.pause
  <1> DEFINE n == NewDay(s)
             fresh == s.date # day
             rested == Rested(n, m)
             aborted == Aborted(n, m)
             long == rested /\ n.phase = "long"
             again == rested /\ s.phase = "long"
             pause == CASE aborted -> owed
                        [] ~aborted /\ (fresh \/ again) -> Refusal
                        [] OTHER -> done.pause
             h == Noted(s, m)
  <1>1. n.phase = s.phase \/ (Due(s) /\ n.phase = "focusing") BY NewDayFacts DEF Typed
  <1>2. rested => n.phase = s.phase BY <1>1 DEF Rested
  <1>3. again <=> long BY <1>2
  <1>4. h = [seg |-> IF fresh \/ rested THEN owed ELSE done.seg,
             since |-> IF fresh \/ again THEN owed ELSE done.since,
             pause |-> pause]
    BY DEF Noted
  <1>5. /\ aborted => pause = owed
        /\ ~aborted /\ (fresh \/ again) => pause = Refusal
        /\ ~aborted /\ ~fresh /\ ~again => pause = done.pause
    OBVIOUS
  <1>6. done.seg \in Nat /\ done.since \in Nat /\ done.pause \in Nat /\ owed \in Nat
        /\ Refusal \in Nat
    BY DEF Typed, History, Bounds
  <1>7. pause \in Nat BY <1>5, <1>6
  <1> HIDE DEF n, fresh, rested, aborted, long, again, pause, h
  <1>8. h \in History BY <1>4, <1>6, <1>7 DEF History
  <1>9. /\ h.seg = IF fresh \/ rested THEN owed ELSE done.seg
        /\ h.since = IF fresh \/ again THEN owed ELSE done.since
        /\ h.pause = pause
    BY <1>4
  <1>10. /\ fresh \/ rested => h.seg = owed
         /\ ~fresh /\ ~rested => h.seg = done.seg
         /\ fresh \/ long => h.since = owed
         /\ ~fresh /\ ~long => h.since = done.since
         /\ aborted => h.pause = owed
         /\ ~aborted /\ (fresh \/ long) => h.pause = Refusal
         /\ ~aborted /\ ~fresh /\ ~long => h.pause = done.pause
    BY <1>3, <1>5, <1>9
  <1> QED BY <1>8, <1>10 DEF n, fresh, rested, aborted, long, h

\* Advancing a status keeps the count.
LEMMA AdvancedCounts ==
  ASSUME Bounds, Typed, NEW s \in Status, NEW m, Counted(s, done, owed)
  PROVE  Counted(Advanced(s, m), Noted(s, m), owed)
  <1> DEFINE n == NewDay(s)
             c == Settled(n, m)
             a == Advanced(s, m)
             h == Noted(s, m)
             fresh == s.date # day
             rested == Rested(n, m)
             long == rested /\ n.phase = "long"
             aborted == Aborted(n, m)
  <1>1. n \in Status /\ c \in Status BY NewDayFacts, SettledFacts DEF Typed
  <1>2. a.seg = c.seg /\ a.since = c.since /\ a.retry = c.retry
    BY <1>1, WokenFacts DEF Advanced
  <1>3. /\ fresh => n.seg = 0 /\ n.since = 0 /\ n.retry = 0
        /\ ~fresh => n.seg = s.seg /\ n.since = s.since /\ n.retry = s.retry
    BY NewDayFacts DEF Typed
  <1>4. /\ rested => c.seg = 0
        /\ ~rested => c.seg = n.seg
        /\ long => c.since = 0 /\ c.retry = 0
        /\ ~long => c.since = n.since
        /\ ~long /\ ~aborted => c.retry = n.retry
        /\ aborted => c.retry = n.since + Refusal
    BY <1>1, SettledFacts
  <1>5. /\ h \in History
        /\ fresh \/ rested => h.seg = owed
        /\ ~fresh /\ ~rested => h.seg = done.seg
        /\ fresh \/ long => h.since = owed
        /\ ~fresh /\ ~long => h.since = done.since
        /\ aborted => h.pause = owed
        /\ ~aborted /\ (fresh \/ long) => h.pause = Refusal
        /\ ~aborted /\ ~fresh /\ ~long => h.pause = done.pause
    BY NotedFacts
  <1>6. aborted => ~long BY DEF Aborted, Rested
  <1>7. /\ s.seg + owed <= done.seg \/ FocusFor <= done.seg
        /\ s.since + owed <= done.since \/ LongAfter <= done.since
        /\ s.since + owed + Refusal <= done.pause + s.retry \/ Refusal <= done.pause
    BY DEF Counted
  <1>8. /\ owed \in Nat /\ Refusal \in Nat /\ FocusFor \in Nat /\ LongAfter \in Nat
        /\ s.seg \in Nat /\ s.since \in Nat /\ s.retry \in Nat
        /\ n.seg \in Nat /\ n.since \in Nat /\ n.retry \in Nat
        /\ done.seg \in Nat /\ done.since \in Nat /\ done.pause \in Nat
    BY <1>1 DEF Bounds, Typed, Status, History
  <1> HIDE DEF n, c, a, h, fresh, rested, long, aborted
  <1>9. a.seg + owed <= h.seg \/ FocusFor <= h.seg
    <2>1. CASE fresh \/ rested
      <3>1. a.seg = 0 BY <2>1, <1>2, <1>3, <1>4
      <3> QED BY <2>1, <3>1, <1>5, <1>8
    <2>2. CASE ~fresh /\ ~rested
      BY <2>2, <1>2, <1>3, <1>4, <1>5, <1>7
    <2> QED BY <2>1, <2>2
  <1>10. a.since + owed <= h.since \/ LongAfter <= h.since
    <2>1. CASE fresh \/ long
      <3>1. a.since = 0 BY <2>1, <1>2, <1>3, <1>4
      <3> QED BY <2>1, <3>1, <1>5, <1>8
    <2>2. CASE ~fresh /\ ~long
      BY <2>2, <1>2, <1>3, <1>4, <1>5, <1>7
    <2> QED BY <2>1, <2>2
  <1>11. a.since + owed + Refusal <= h.pause + a.retry \/ Refusal <= h.pause
    <2>1. CASE aborted
      <3>1. a.since = n.since /\ a.retry = n.since + Refusal /\ h.pause = owed
        BY <2>1, <1>2, <1>4, <1>5, <1>6
      <3> QED BY <3>1, <1>8
    <2>2. CASE ~aborted /\ (fresh \/ long)
      BY <2>2, <1>5, <1>8
    <2>3. CASE ~aborted /\ ~fresh /\ ~long
      BY <2>3, <1>2, <1>3, <1>4, <1>5, <1>7
    <2> QED BY <2>1, <2>2, <2>3
  <1> QED BY <1>9, <1>10, <1>11 DEF Counted, a, h

\* What crediting a tick's use makes of a status, and when a break becomes due.
LEMMA CreditedFacts ==
  ASSUME Bounds, NEW s \in Status, NEW n \in Nat
  PROVE  LET c == Credited(s, n)
             due == c.phase # s.phase
         IN  /\ c \in Status
             /\ c.seg = s.seg + n /\ c.since = s.since + n
             /\ c.retry = s.retry \/ (c.retry = 0 /\ c.since >= s.retry)
             /\ due => c.prompt # {} /\ c.since >= s.retry
             /\ ~due => c.prompt = s.prompt
             /\ due => \/ c.phase = "short_due" /\ c.seg >= FocusFor
                       \/ c.phase = "long_due" /\ c.since >= LongAfter
  <1> DEFINE b == [s EXCEPT !.seg = @ + n, !.since = @ + n]
             asked == [b EXCEPT !.snooze = {}, !.snoozes = 0, !.prompt = {0}]
             toLong == b.since >= LongAfter /\ b.since >= b.retry /\ b.phase # "long_due"
             toShort == b.phase = "focusing" /\ b.seg >= FocusFor /\ b.since >= b.retry
                        /\ b.since < LongAfter
             c == Credited(s, n)
  <1>1. c = CASE toLong -> [asked EXCEPT !.phase = "long_due", !.retry = 0]
              [] toShort -> [asked EXCEPT !.phase = "short_due"]
              [] OTHER -> b
    BY DEF Credited
  <1>2. /\ b \in Status /\ b.seg = s.seg + n /\ b.since = s.since + n
        /\ b.retry = s.retry /\ b.phase = s.phase /\ b.prompt = s.prompt
    <2>1. s.seg + n \in Nat /\ s.since + n \in Nat BY DEF Status
    <2> QED BY <2>1 DEF Status
  <1>3. /\ asked \in Status /\ asked.seg = b.seg /\ asked.since = b.since
        /\ asked.retry = b.retry /\ asked.phase = b.phase /\ asked.prompt = {0}
    <2> HIDE DEF b
    <2>1. {0} \in SUBSET Nat /\ {} \in SUBSET Nat /\ 0 \in Nat OBVIOUS
    <2> QED BY <1>2, <2>1 DEF Status
  <1>4. toLong => ~toShort
    BY <1>2 DEF Status, Bounds
  <1> HIDE DEF b, asked
  <1>5. CASE toLong
    <2> DEFINE l == [asked EXCEPT !.phase = "long_due", !.retry = 0]
    <2>1. c = l BY <1>1, <1>4, <1>5
    <2>2. l \in Status /\ l.phase = "long_due" /\ l.retry = 0 /\ l.seg = asked.seg
          /\ l.since = asked.since /\ l.prompt = asked.prompt
      BY <1>3 DEF Status, Phases
    <2> HIDE DEF l, c
    <2> QED BY <1>2, <1>3, <1>5, <2>1, <2>2 DEF c
  <1>6. CASE toShort
    <2> DEFINE l == [asked EXCEPT !.phase = "short_due"]
    <2>1. c = l BY <1>1, <1>4, <1>6
    <2>2. l \in Status /\ l.phase = "short_due" /\ l.retry = asked.retry
          /\ l.seg = asked.seg /\ l.since = asked.since /\ l.prompt = asked.prompt
      BY <1>3 DEF Status, Phases
    <2> HIDE DEF l, c
    <2> QED BY <1>2, <1>3, <1>6, <2>1, <2>2 DEF c
  <1>7. CASE ~toLong /\ ~toShort
    <2>1. c = b BY <1>1, <1>7
    <2> QED BY <1>2, <2>1
  <1> QED BY <1>5, <1>6, <1>7

-----------------------------------------------------------------------------
(* The invariant *)

Told(s) == Due(s) => s.prompt # {}
Keeps(s, h, w) == s \in Status /\ h \in History /\ Told(s) /\ Counted(s, h, w)

Inv == Typed /\ Keeps(st, done, owed)

\* The use a break that becomes due has behind it.
Earned(phase, h) ==
    /\ phase = "short_due" => h.seg = FocusFor /\ h.pause = Refusal
    /\ phase = "long_due" => h.since = LongAfter /\ h.pause = Refusal
EarnedFrom(phase) == st'.phase # phase => Earned(st'.phase, done')

\* Advancing with the time keeps the counts and lets no break fall due untold.
LEMMA AdvancedKeeps ==
  ASSUME Bounds, Typed, NEW s, NEW m, Keeps(s, done, owed)
  PROVE  Keeps(Advanced(s, m), Noted(s, m), owed)
         /\ (Due(Advanced(s, m)) => Advanced(s, m).phase = s.phase)
  <1>1. s \in Status /\ Counted(s, done, owed) /\ Told(s) BY DEF Keeps
  <1>2. Counted(Advanced(s, m), Noted(s, m), owed) BY <1>1, AdvancedCounts
  <1>3. Noted(s, m) \in History BY <1>1, NotedFacts
  <1>4. Advanced(s, m) \in Status /\ Told(Advanced(s, m))
        /\ (Due(Advanced(s, m)) => Advanced(s, m).phase = s.phase)
    BY <1>1, AdvancedFacts DEF Typed, Told
  <1> QED BY <1>2, <1>3, <1>4 DEF Keeps

\* So does the time itself.
LEMMA AfterKeeps ==
  ASSUME NEW s, NEW h, NEW w, NEW time \in Nat, Keeps(s, h, w)
  PROVE  Keeps(After(s, time), h, w) /\ After(s, time).phase = s.phase
  <1>1. s \in Status /\ h \in History /\ Told(s) /\ Counted(s, h, w) BY DEF Keeps
  <1>2. /\ After(s, time) \in Status
        /\ After(s, time).phase = s.phase /\ After(s, time).seg = s.seg
        /\ After(s, time).since = s.since /\ After(s, time).retry = s.retry
        /\ After(s, time).prompt = Left(s.prompt, time)
    BY <1>1, AfterFacts
  <1>3. s.prompt \in SUBSET Nat BY <1>1 DEF Status
  <1>4. s.prompt # {} => Left(s.prompt, time) # {} BY <1>3, LeftFacts
  <1>5. Told(After(s, time)) BY <1>1, <1>2, <1>4 DEF Told, Due
  <1>6. Counted(After(s, time), h, w) BY <1>1, <1>2 DEF Counted
  <1> QED BY <1>1, <1>2, <1>5, <1>6 DEF Keeps

\* A history that has seen what is owed has seen less.
LEMMA NothingOwed ==
  ASSUME Bounds, NEW s, NEW h, NEW w \in Nat, Keeps(s, h, w)
  PROVE  Keeps(s, h, 0)
  <1>1. /\ s.seg \in Nat /\ s.since \in Nat /\ s.retry \in Nat
        /\ h.seg \in Nat /\ h.since \in Nat /\ h.pause \in Nat
        /\ Refusal \in Nat
    BY DEF Keeps, Status, History, Bounds
  <1>2. Counted(s, h, w) BY DEF Keeps
  <1>3. s.seg + w <= h.seg => s.seg + 0 <= h.seg BY <1>1
  <1>4. s.since + w <= h.since => s.since + 0 <= h.since BY <1>1
  <1>5. s.since + w + Refusal <= h.pause + s.retry => s.since + 0 + Refusal <= h.pause + s.retry
    BY <1>1
  <1>6. Counted(s, h, 0) BY <1>2, <1>3, <1>4, <1>5 DEF Counted
  <1> QED BY <1>6 DEF Keeps

\* A tick in use: credited with what was owed, or owed itself.
LEMMA UseKeeps ==
  ASSUME Bounds, Typed, NEW s, NEW h, Keeps(s, h, owed), Use(s, h)
  PROVE  Keeps(st', done', owed') /\ owed' \in Nat /\ EarnedFrom(s.phase)
  <1>1. s \in Status /\ h \in History /\ Told(s) /\ Counted(s, h, owed) BY DEF Keeps
  <1>2. /\ s.seg \in Nat /\ s.since \in Nat /\ s.retry \in Nat
        /\ h.seg \in Nat /\ h.since \in Nat /\ h.pause \in Nat
        /\ owed \in Nat /\ Refusal \in Nat /\ FocusFor \in Nat /\ LongAfter \in Nat
    BY <1>1 DEF Status, History, Bounds, Typed
  <1>3. done' = [seg |-> Smaller(h.seg + 1, FocusFor), since |-> Smaller(h.since + 1, LongAfter),
                 pause |-> Smaller(h.pause + 1, Refusal)]
    BY DEF Use, More
  <1>4. /\ done'.seg = Smaller(h.seg + 1, FocusFor)
        /\ done'.since = Smaller(h.since + 1, LongAfter)
        /\ done'.pause = Smaller(h.pause + 1, Refusal)
    BY <1>3
  <1>5. /\ done'.seg = h.seg + 1 \/ done'.seg = FocusFor
        /\ done'.since = h.since + 1 \/ done'.since = LongAfter
        /\ done'.pause = h.pause + 1 \/ done'.pause = Refusal
        /\ done'.seg \in Nat /\ done'.since \in Nat /\ done'.pause \in Nat
    <2>1. h.seg + 1 \in Nat /\ h.since + 1 \in Nat /\ h.pause + 1 \in Nat BY <1>2
    <2> QED BY <1>2, <1>4, <2>1 DEF Smaller
  <1>6. done' \in History BY <1>3, <1>5 DEF History
  <1>7. /\ h.seg + 1 >= FocusFor => done'.seg = FocusFor
        /\ h.since + 1 >= LongAfter => done'.since = LongAfter
        /\ h.pause + 1 >= Refusal => done'.pause = Refusal
    BY <1>2, <1>4 DEF Smaller
  <1>8. /\ s.seg + owed <= h.seg \/ FocusFor <= h.seg
        /\ s.since + owed <= h.since \/ LongAfter <= h.since
        /\ s.since + owed + Refusal <= h.pause + s.retry \/ Refusal <= h.pause
    BY <1>1 DEF Counted
  \* The history moves by one with the counters and what is owed of them.
  <1>9. /\ s.seg + (1 + owed) <= done'.seg \/ FocusFor <= done'.seg
        /\ s.since + (1 + owed) <= done'.since \/ LongAfter <= done'.since
        /\ s.since + (1 + owed) + Refusal <= done'.pause + s.retry \/ Refusal <= done'.pause
    <2>1. s.seg + (1 + owed) <= done'.seg \/ FocusFor <= done'.seg
      BY <1>2, <1>5, <1>7, <1>8
    <2>2. s.since + (1 + owed) <= done'.since \/ LongAfter <= done'.since
      BY <1>2, <1>5, <1>7, <1>8
    <2>3. s.since + (1 + owed) + Refusal <= done'.pause + s.retry \/ Refusal <= done'.pause
      BY <1>2, <1>5, <1>7, <1>8
    <2> QED BY <2>1, <2>2, <2>3
  <1>10. CASE st' = Credited(s, 1 + owed) /\ owed' = 0
    <2>1. /\ st' \in Status
          /\ st'.seg = s.seg + (1 + owed) /\ st'.since = s.since + (1 + owed)
          /\ st'.retry = s.retry \/ (st'.retry = 0 /\ st'.since >= s.retry)
          /\ st'.phase # s.phase => st'.prompt # {} /\ st'.since >= s.retry
          /\ st'.phase = s.phase => st'.prompt = s.prompt
          /\ st'.phase # s.phase => \/ st'.phase = "short_due" /\ st'.seg >= FocusFor
                                    \/ st'.phase = "long_due" /\ st'.since >= LongAfter
      <3>1. 1 + owed \in Nat BY <1>2
      <3> QED BY <1>1, <1>10, <3>1, CreditedFacts
    <2>2. st'.since >= s.retry => done'.pause = Refusal
      <3>1. st'.since >= s.retry => h.pause + 1 >= Refusal BY <1>2, <1>8, <2>1
      <3> QED BY <1>7, <3>1
    <2>3. st'.seg >= FocusFor => done'.seg = FocusFor
      <3>1. st'.seg >= FocusFor => h.seg + 1 >= FocusFor BY <1>2, <1>8, <2>1
      <3> QED BY <1>7, <3>1
    <2>4. st'.since >= LongAfter => done'.since = LongAfter
      <3>1. st'.since >= LongAfter => h.since + 1 >= LongAfter BY <1>2, <1>8, <2>1
      <3> QED BY <1>7, <3>1
    <2>5. EarnedFrom(s.phase) BY <2>1, <2>2, <2>3, <2>4 DEF EarnedFrom, Earned
    <2>6. Told(st') BY <1>1, <2>1 DEF Told, Due
    <2>7. Counted(st', done', 0)
      <3>1. /\ st'.seg + 0 = s.seg + (1 + owed) /\ st'.since + 0 = s.since + (1 + owed)
        BY <1>2, <2>1
      <3>2. st'.seg + 0 <= done'.seg \/ FocusFor <= done'.seg BY <1>9, <3>1
      <3>3. st'.since + 0 <= done'.since \/ LongAfter <= done'.since BY <1>9, <3>1
      <3>4. st'.since + 0 + Refusal <= done'.pause + st'.retry \/ Refusal <= done'.pause
        <4>1. CASE st'.retry = s.retry BY <1>9, <3>1, <4>1
        <4>2. CASE st'.since >= s.retry
          <5>1. done'.pause = Refusal BY <2>2, <4>2
          <5> QED BY <5>1, <1>2
        <4> QED BY <2>1, <4>1, <4>2
      <3> QED BY <3>2, <3>3, <3>4 DEF Counted
    <2> QED BY <1>6, <1>10, <2>1, <2>5, <2>6, <2>7 DEF Keeps
  <1>11. CASE st' = s /\ owed' = owed + 1
    <2>1. owed' \in Nat /\ owed' = 1 + owed BY <1>2, <1>11
    <2>2. Counted(s, done', 1 + owed) BY <1>9 DEF Counted
    <2>3. EarnedFrom(s.phase) BY <1>11 DEF EarnedFrom
    <2> QED BY <1>1, <1>6, <1>11, <2>1, <2>2, <2>3 DEF Keeps
  <1> QED BY <1>10, <1>11 DEF Use, Repaid

\* Five minutes away begin the cycle anew, in the history as well.
LEMMA InterruptKeeps ==
  ASSUME Bounds, Typed, NEW s, NEW h, Keeps(s, h, owed), Interrupt(s, h)
  PROVE  Keeps(st', done', owed') /\ owed' \in Nat /\ EarnedFrom(s.phase)
  <1>1. CASE st' = s /\ done' = h /\ UNCHANGED owed
    <2>1. EarnedFrom(s.phase) BY <1>1 DEF EarnedFrom
    <2> QED BY <1>1, <2>1 DEF Typed
  <1>2. CASE st' = [Closed(s) EXCEPT !.seg = 0] /\ owed' = 0 /\ done' = [h EXCEPT !.seg = 0]
    <2>1. Keeps(s, h, 0) BY NothingOwed DEF Typed
    <2>2. s \in Status /\ h \in History /\ Counted(s, h, 0) BY <2>1 DEF Keeps
    <2>3. Closed(s) \in Status /\ Closed(s).phase = "focusing"
          /\ Closed(s).since = s.since /\ Closed(s).retry = s.retry
      BY <2>2, ClosedFacts
    <2>4. st' \in Status /\ st'.phase = "focusing" /\ st'.seg = 0
          /\ st'.since = s.since /\ st'.retry = s.retry
      BY <1>2, <2>3 DEF Status
    <2>5. done' \in History /\ done'.seg = 0 /\ done'.since = h.since /\ done'.pause = h.pause
      BY <1>2, <2>2 DEF History
    <2>6. Counted(st', done', 0) BY <2>2, <2>4, <2>5 DEF Counted
    <2>7. Told(st') BY <2>4 DEF Told, Due
    <2>8. EarnedFrom(s.phase) BY <2>4 DEF EarnedFrom, Earned
    <2> QED BY <1>2, <2>4, <2>5, <2>6, <2>7, <2>8 DEF Keeps
  <1> QED BY <1>1, <1>2 DEF Interrupt

\* A record of a break keeps the invariant.
LEMMA RecordKeeps ==
  ASSUME Bounds, Typed, NEW s, NEW h, NEW input, Keeps(s, h, owed), Record(s, h, input)
  PROVE  Keeps(st', done', owed') /\ owed' \in Nat /\ EarnedFrom(s.phase)
  <1>1. CASE st' = s /\ done' = h /\ UNCHANGED owed
    <2>1. EarnedFrom(s.phase) BY <1>1 DEF EarnedFrom
    <2> QED BY <1>1, <2>1 DEF Typed
  <1>2. CASE Use(s, h) BY <1>2, UseKeeps
  <1>3. CASE Interrupt(s, h) BY <1>3, InterruptKeeps
  <1>4. \/ st' = s /\ done' = h /\ UNCHANGED owed
        \/ Use(s, h) \/ Interrupt(s, h)
    <2>1. CASE Resting(s) \/ s.phase = "disabled" BY <2>1 DEF Record
    <2>2. CASE ~(Resting(s) \/ s.phase = "disabled")
      BY <2>2, Zenon DEF Record
    <2> QED BY <2>1, <2>2
  <1> QED BY <1>1, <1>2, <1>3, <1>4

\* A step from a status of the same phase, or of one that is not due, is no step
\* to a due one but by that use.
LEMMA EarnedLater ==
  ASSUME NEW phase, EarnedFrom(phase), phase \in {"short_due", "long_due"} => st.phase = phase
  PROVE  EarnedDue
  <1>1. st'.phase = "short_due" /\ st.phase # "short_due"
          => done'.seg = FocusFor /\ done'.pause = Refusal
    BY DEF EarnedFrom, Earned
  <1>2. st'.phase = "long_due" /\ st.phase # "long_due"
          => done'.since = LongAfter /\ done'.pause = Refusal
    BY DEF EarnedFrom, Earned
  <1> QED BY <1>1, <1>2 DEF EarnedDue, NewlyDue

-----------------------------------------------------------------------------
(* The actions *)

Good == Keeps(st', done', owed') /\ owed' \in Nat /\ EarnedDue

\* A tick of the clock keeps the invariant,
LEMMA TickGood == ASSUME Bounds, Inv, NEW input, Tick(input) PROVE Good
  <1> DEFINE m == IF mdate = day THEN mode ELSE "on"
             s == After(st, 1)
  <1>1. Keeps(s, done, owed) /\ s.phase = st.phase
    BY AfterKeeps, 1 \in Nat DEF Inv
  <1>2. Keeps(Advanced(s, m), Noted(s, m), owed)
        /\ (Due(Advanced(s, m)) => Advanced(s, m).phase = s.phase)
    BY <1>1, AdvancedKeeps DEF Inv
  <1>3. \/ Record(Advanced(s, m), Noted(s, m), input)
        \/ st' = s /\ UNCHANGED <<done, owed>>
    BY DEF Tick
  <1> HIDE DEF s, m
  <1>4. CASE Record(Advanced(s, m), Noted(s, m), input)
    <2>1. Keeps(st', done', owed') /\ owed' \in Nat /\ EarnedFrom(Advanced(s, m).phase)
      BY <1>2, <1>4, RecordKeeps DEF Inv
    <2>2. Advanced(s, m).phase \in {"short_due", "long_due"} => st.phase = Advanced(s, m).phase
      BY <1>1, <1>2 DEF Due
    <2>3. EarnedDue BY <2>1, <2>2, EarnedLater
    <2> QED BY <2>1, <2>3 DEF Good
  <1>5. CASE st' = s /\ UNCHANGED <<done, owed>>
    <2>1. EarnedDue BY <1>1, <1>5 DEF EarnedDue, NewlyDue
    <2> QED BY <1>1, <1>5, <2>1 DEF Good, Inv, Typed
  <1> QED BY <1>3, <1>4, <1>5

\* An advanced status alone, which is what a request or a start writes.
LEMMA AdvanceGood ==
  ASSUME Bounds, Typed, NEW s, NEW m, Keeps(s, done, owed), s.phase = st.phase,
         st' = Advanced(s, m), done' = Noted(s, m), owed' = owed \/ owed' = 0
  PROVE  Good
  <1>1. Keeps(st', done', owed) /\ (Due(st') => st'.phase = s.phase)
    BY AdvancedKeeps
  <1>2. Keeps(st', done', 0) BY <1>1, NothingOwed DEF Typed
  <1>3. Keeps(st', done', owed') /\ owed' \in Nat BY <1>1, <1>2 DEF Typed
  <1>4. EarnedDue BY <1>1 DEF EarnedDue, NewlyDue, Due
  <1> QED BY <1>3, <1>4 DEF Good

\* a claim of the break,
LEMMA ClaimGood == ASSUME Bounds, Inv, Claim PROVE Good
  <1> DEFINE s == Advanced(st, mode)
             h == Noted(st, mode)
  <1>1. Keeps(s, h, owed) /\ (Due(s) => s.phase = st.phase)
    BY AdvancedKeeps DEF Inv
  <1>2. st' = [s EXCEPT !.prompt = {Repeat}] /\ done' = h /\ owed' = owed /\ Due(s)
    BY DEF Claim
  <1> HIDE DEF s, h
  <1>3. s \in Status /\ h \in History /\ Counted(s, h, owed) BY <1>1 DEF Keeps
  <1>4. st' \in Status /\ st'.prompt = {Repeat} /\ st'.phase = s.phase
        /\ st'.seg = s.seg /\ st'.since = s.since /\ st'.retry = s.retry
    <2>1. {Repeat} \in SUBSET Nat BY DEF Bounds
    <2> QED BY <1>2, <1>3, <2>1 DEF Status
  <1>5. Counted(st', done', owed') BY <1>2, <1>3, <1>4 DEF Counted
  <1>6. Told(st') BY <1>4 DEF Told
  <1>7. EarnedDue BY <1>1, <1>2, <1>4 DEF EarnedDue, NewlyDue
  <1> QED BY <1>2, <1>3, <1>4, <1>5, <1>6, <1>7 DEF Good, Keeps, Inv, Typed

\* A status that is not due, its counters as they were.
LEMMA CalmGood ==
  ASSUME Inv, st' \in Status, ~Due(st'), owed' = owed, done' = done,
         st'.seg = st.seg, st'.since = st.since, st'.retry = st.retry
  PROVE  Good
  <1>1. st \in Status /\ done \in History /\ Counted(st, done, owed) BY DEF Inv, Keeps
  <1>2. Counted(st', done', owed') BY <1>1 DEF Counted
  <1>3. Told(st') BY DEF Told
  <1>4. EarnedDue BY DEF EarnedDue, NewlyDue, Due
  <1> QED BY <1>1, <1>2, <1>3, <1>4 DEF Good, Keeps, Inv, Typed

\* A refusal starts the history's pause with what is still owed.
LEMMA RefuseGood == ASSUME Bounds, Inv, RefuseNow, owed' = owed PROVE Good
  <1>1. st \in Status /\ done \in History /\ Counted(st, done, owed) /\ owed \in Nat
    BY DEF Inv, Keeps, Typed
  <1>2. /\ st' \in Status /\ st'.phase = "focusing" /\ st'.seg = st.seg
        /\ st'.since = st.since /\ st'.retry = st.since + Refusal
    BY <1>1, RefusedFacts DEF RefuseNow
  <1>3. done' \in History /\ done'.seg = done.seg /\ done'.since = done.since
        /\ done'.pause = owed
    BY <1>1 DEF RefuseNow, History
  <1>4. st'.since + owed + Refusal <= done'.pause + st'.retry
    BY <1>1, <1>2, <1>3 DEF Status, Bounds
  <1>5. Counted(st', done', owed') BY <1>1, <1>2, <1>3, <1>4 DEF Counted
  <1>6. Told(st') /\ EarnedDue BY <1>2 DEF Told, Due, EarnedDue, NewlyDue
  <1> QED BY <1>1, <1>2, <1>3, <1>5, <1>6 DEF Good, Keeps

\* the user's answer,
LEMMA ActGood == ASSUME Bounds, Inv, Act PROVE Good
  <1>1. st \in Status /\ done \in History /\ Counted(st, done, owed)
    BY DEF Inv, Keeps
  <1>2. owed' = owed BY DEF Act
  <1>3. ASSUME st' = [st EXCEPT !.phase = IF @ = "short_due" THEN "short" ELSE "long",
                              !.rest = {IF st.phase = "short_due" THEN ShortFor ELSE LongFor},
                              !.snooze = {}, !.prompt = {}],
               UNCHANGED done
        PROVE  Good
    <2> DEFINE phase == IF st.phase = "short_due" THEN "short" ELSE "long"
               rest == {IF st.phase = "short_due" THEN ShortFor ELSE LongFor}
    <2>1. \A ph \in Phases, r \in SUBSET Nat :
            LET b == [st EXCEPT !.phase = ph, !.rest = r, !.snooze = {}, !.prompt = {}]
            IN  b \in Status /\ b.phase = ph /\ b.seg = st.seg /\ b.since = st.since
                /\ b.retry = st.retry
      BY <1>1 DEF Status
    <2>2. phase \in Phases /\ phase \notin {"short_due", "long_due"} BY DEF Phases
    <2>3. rest \in SUBSET Nat BY DEF Bounds
    <2>4. st' = [st EXCEPT !.phase = phase, !.rest = rest, !.snooze = {}, !.prompt = {}]
      BY <1>1, <1>3 DEF Status
    <2> HIDE DEF phase, rest
    <2>5. st' \in Status /\ st'.phase = phase /\ st'.seg = st.seg /\ st'.since = st.since
          /\ st'.retry = st.retry
      BY <2>1, <2>2, <2>3, <2>4
    <2>6. ~Due(st') BY <2>2, <2>5 DEF Due
    <2> QED BY <1>2, <1>3, <2>5, <2>6, CalmGood
  <1>4. ASSUME st' = Snoozed, UNCHANGED done PROVE Good
    <2>1. st' \in Status /\ st'.prompt = {SnoozeFor} /\ st'.phase = st.phase
          /\ st'.seg = st.seg /\ st'.since = st.since /\ st'.retry = st.retry
      <3>1. st.snoozes + 1 \in Nat /\ {SnoozeFor} \in SUBSET Nat
        BY <1>1 DEF Status, Bounds
      <3> QED BY <1>1, <1>4, <3>1 DEF Snoozed, Status
    <2>2. Counted(st', done', owed') BY <1>1, <1>2, <1>4, <2>1 DEF Counted
    <2>3. Told(st') /\ EarnedDue BY <2>1 DEF Told, EarnedDue, NewlyDue
    <2> QED BY <1>1, <1>2, <1>4, <2>1, <2>2, <2>3 DEF Good, Keeps, Inv, Typed
  <1>5. ASSUME RefuseNow PROVE Good BY <1>2, <1>5, RefuseGood
  <1>6. ASSUME st' = [Closed(st) EXCEPT !.rest = {}], UNCHANGED done PROVE Good
    <2>1. Closed(st) \in Status /\ Closed(st).phase = "focusing" /\ Closed(st).seg = st.seg
          /\ Closed(st).since = st.since /\ Closed(st).retry = st.retry
      BY <1>1, ClosedFacts
    <2>2. st' \in Status /\ st'.phase = "focusing" /\ st'.seg = st.seg
          /\ st'.since = st.since /\ st'.retry = st.retry
      BY <1>6, <2>1 DEF Status
    <2>3. ~Due(st') BY <2>2 DEF Due
    <2> QED BY <1>2, <1>6, <2>2, <2>3, CalmGood
  <1> QED BY <1>3, <1>4, <1>5, <1>6 DEF Act

\* a change of mode
LEMMA SwitchGood == ASSUME Bounds, Inv, Switch PROVE Good
  <1>1. st \in Status BY DEF Inv, Keeps
  <1>2. owed' = owed /\ done' = done BY DEF Switch
  <1>3. CASE st' = [st EXCEPT !.phase = "focusing"]
    <2>1. st' \in Status /\ st'.phase = "focusing" /\ st'.seg = st.seg
          /\ st'.since = st.since /\ st'.retry = st.retry
      BY <1>1, <1>3 DEF Status, Phases
    <2>2. ~Due(st') BY <2>1 DEF Due
    <2> QED BY <1>2, <2>1, <2>2, CalmGood
  <1>4. CASE st' = [st EXCEPT !.phase = "disabled", !.snooze = {}, !.prompt = {}]
    <2>1. st' \in Status /\ st'.phase = "disabled" /\ st'.seg = st.seg
          /\ st'.since = st.since /\ st'.retry = st.retry
      BY <1>1, <1>4 DEF Status, Phases
    <2>2. ~Due(st') BY <2>1 DEF Due
    <2> QED BY <1>2, <2>1, <2>2, CalmGood
  <1> QED BY <1>3, <1>4 DEF Switch

\* and a restart.
LEMMA RestartGood ==
  ASSUME Bounds, Inv, NEW time \in {0, LongFor}, Restart(time)
  PROVE  Good
  <1> DEFINE m == IF mdate = day THEN mode ELSE "on"
             s == After(st, time)
  <1>1. time \in Nat BY DEF Bounds
  <1>2. Keeps(s, done, owed) /\ s.phase = st.phase BY <1>1, AfterKeeps DEF Inv
  <1>3. st' = Advanced(s, m) /\ done' = Noted(s, m) /\ owed' = 0 BY DEF Restart
  <1> HIDE DEF s, m
  <1> QED BY <1>2, <1>3, AdvanceGood DEF Inv

\* A step that leaves the status and the history alone.
LEMMA StillGood == ASSUME Inv, UNCHANGED <<st, done, owed>> PROVE Good
  BY DEF Good, Inv, Typed, EarnedDue, NewlyDue

\* So does every step.
LEMMA StepGood == ASSUME Bounds PROVE Inv /\ [YNext]_yvars => Good /\ day' \in Nat
  <1> SUFFICES ASSUME Inv, [YNext]_yvars PROVE Good /\ day' \in Nat
    OBVIOUS
  <1>0. day \in Nat /\ Typed BY DEF Inv, Typed
  <1>1. ASSUME NEW input \in {"active", "away", "none"}, Tick(input) PROVE Good /\ day' \in Nat
    BY <1>0, <1>1, TickGood DEF Tick
  <1>2. CASE Midnight BY <1>0, <1>2, StillGood DEF Midnight
  <1>3. CASE Poll
    <2>1. Good BY <1>0, <1>3, AdvanceGood DEF Poll, Advance, Inv
    <2> QED BY <1>0, <1>3, <2>1 DEF Poll
  <1>4. CASE Claim BY <1>0, <1>4, ClaimGood DEF Claim
  <1>5. CASE Act BY <1>0, <1>5, ActGood DEF Act
  <1>6. CASE Switch BY <1>0, <1>6, SwitchGood DEF Switch
  <1>7. ASSUME NEW m \in {"on", "off"}, SetMode(m) PROVE Good /\ day' \in Nat
    BY <1>0, <1>7, StillGood DEF SetMode
  <1>8. ASSUME NEW time \in {0, LongFor}, Restart(time) PROVE Good /\ day' \in Nat
    BY <1>0, <1>8, RestartGood DEF Restart
  <1>9. CASE UNCHANGED yvars BY <1>0, <1>9, StillGood DEF yvars
  <1> QED BY <1>1, <1>2, <1>3, <1>4, <1>5, <1>6, <1>7, <1>8, <1>9 DEF YNext

\* The invariant holds at all times.
LEMMA InvHolds == ASSUME Bounds PROVE YSpec => []Inv
  <1>1. YInit => Inv
    <2> SUFFICES ASSUME YInit PROVE Inv
      OBVIOUS
    <2>1. st \in Status /\ done \in History BY DEF YInit, Status, History, Phases, Bounds
    <2>2. st.phase = "focusing" /\ st.seg = 0 /\ st.since = 0 /\ st.retry = 0 /\ owed = 0
          /\ done.seg = 0 /\ done.since = 0 /\ done.pause = Refusal /\ day = 0
      BY DEF YInit
    <2>3. Counted(st, done, owed) BY <2>2 DEF Counted, Bounds
    <2>4. Told(st) BY <2>2 DEF Told, Due
    <2> QED BY <2>1, <2>2, <2>3, <2>4 DEF Inv, Typed, Keeps
  <1>2. Inv /\ [YNext]_yvars => Inv'
    BY StepGood DEF Inv, Typed, Good, Keeps
  <1> QED BY <1>1, <1>2, PTL DEF YSpec

\* A due break is never forgotten: while one is due a next prompt is set, whatever
\* was snoozed, refused, switched off, restarted or could not be written.
THEOREM DueBreaksAreTold == ASSUME Bounds PROVE YSpec => []DueIsTold
  <1>1. Inv => DueIsTold BY DEF Inv, Keeps, Told, DueIsTold
  <1> QED BY <1>1, InvHolds, PTL

\* No break becomes due without the use it takes since the last rest or refusal,
\* where each unit of use counts once, however often its write failed.
THEOREM DueBreaksAreEarned == ASSUME Bounds PROVE YSpec => DueIsEarned
  <1>1. Inv /\ [YNext]_yvars => [EarnedDue]_yvars BY StepGood DEF Good
  <1> QED BY <1>1, InvHolds, PTL DEF YSpec, DueIsEarned

\* The spans of the status.
Snoozes == Span(SnoozeFor)
Rests == Span(Longer(ShortFor, LongFor))
Prompts == Span(Longer(Repeat, SnoozeFor))
Limits == [phase : Phases, date : 0..MaxDay, seg : 0..MaxUse, since : 0..MaxUse,
           retry : 0 .. MaxUse + Refusal, snoozes : 0..MaxSnoozes,
           snooze : Snoozes, rest : Rests, prompt : Prompts]
\* A status within its bounds.
Ranged(s) == s \in Limits /\ s.seg <= s.since

\* The whole state within its bounds, with what is owed no more than what failed.
RhythmRest ==
    /\ Ranged(st) /\ owed \in Nat /\ owed <= faults
    /\ mode \in {"on", "off", "eye"} /\ back \in {"on", "off"}
    /\ mdate \in 0..MaxDay /\ day \in 0..MaxDay /\ away \in 0..Idle
    /\ faults \in 0..MaxFaults /\ starts \in 0..MaxStarts

\* The spans the code writes are in range.
LEMMA SpanFacts ==
    ASSUME Bounds
    PROVE  /\ {} \in Snoozes /\ {SnoozeFor} \in Snoozes
           /\ {} \in Rests /\ {ShortFor} \in Rests /\ {LongFor} \in Rests
           /\ {} \in Prompts /\ {0} \in Prompts /\ {Repeat} \in Prompts /\ {SnoozeFor} \in Prompts
  BY DEF Bounds, Span, Longer, Snoozes, Rests, Prompts

\* So is what it resets, and the phases it names.
LEMMA ZeroFacts ==
    ASSUME Bounds
    PROVE  /\ 0 \in 0..MaxUse /\ 0 \in 0..MaxSnoozes /\ 0 \in 0 .. MaxUse + Refusal
           /\ \A n \in 0..MaxUse : 0 <= n
           /\ {"disabled", "focusing", "short_due", "long_due", "short", "long", "waiting"} \subseteq Phases
  BY DEF Bounds, Phases

\* A span that runs down stays in range.
LEMMA LeftSpans ==
    ASSUME Bounds, NEW time \in Nat
    PROVE  /\ \A s \in Snoozes : Left(s, time) \in Snoozes
           /\ \A s \in Rests : Left(s, time) \in Rests
           /\ \A s \in Prompts : Left(s, time) \in Prompts
<1>1. ASSUME NEW n \in Nat, NEW s \in Span(n) PROVE Left(s, time) \in Span(n)
  <2>1. CASE s = {}
    BY <2>1 DEF Left, Span
  <2>2. ASSUME NEW k \in 0..n, s = {k} PROVE Left(s, time) \in Span(n)
    <3> DEFINE l == IF k > time THEN k - time ELSE 0
    <3>1. Left(s, time) = {l}
      BY <2>2 DEF Left
    <3>2. l \in 0..n
      OBVIOUS
    <3> QED
      BY <3>1, <3>2 DEF Span
  <2> QED
    BY <2>1, <2>2 DEF Span
<1>2. SnoozeFor \in Nat /\ Longer(ShortFor, LongFor) \in Nat /\ Longer(Repeat, SnoozeFor) \in Nat
  BY DEF Bounds, Longer
<1> QED
  BY <1>1, <1>2 DEF Snoozes, Rests, Prompts

\* So does a status whose deadlines come nearer,
LEMMA AfterRanged == ASSUME Bounds, NEW s, Ranged(s), NEW time \in Nat PROVE Ranged(After(s, time))
<1>1. /\ Left(s.snooze, time) \in Snoozes /\ Left(s.rest, time) \in Rests
      /\ Left(s.prompt, time) \in Prompts
  BY LeftSpans DEF Ranged, Limits
<1>2. \A a \in Snoozes, b \in Rests, c \in Prompts :
         Ranged([s EXCEPT !.snooze = a, !.rest = b, !.prompt = c])
  BY DEF Ranged, Limits
<1>3. After(s, time) = [s EXCEPT !.snooze = Left(s.snooze, time), !.rest = Left(s.rest, time),
                                 !.prompt = Left(s.prompt, time)]
  BY DEF After, Ranged, Limits
<1> QED
  BY <1>1, <1>2, <1>3

\* one whose cycle closes,
LEMMA ClosedRanged == ASSUME Bounds, NEW s, Ranged(s)
                      PROVE Ranged(Closed(s)) /\ Closed(s).since = s.since /\ Closed(s).seg = s.seg
  BY SpanFacts, ZeroFacts DEF Ranged, Limits, Closed

\* one whose break is refused,
LEMMA RefusedRanged == ASSUME Bounds, NEW s, Ranged(s) PROVE Ranged(Refused(s))
<1> DEFINE c == Closed(s)
           r == s.since + Refusal
<1>1. Ranged(c) /\ r \in 0 .. MaxUse + Refusal
  BY ClosedRanged DEF Ranged, Limits, Bounds
<1>2. Refused(s) = [c EXCEPT !.retry = r, !.rest = {}]
  BY DEF Refused
<1> HIDE DEF c, r
<1> QED
  BY <1>1, <1>2, SpanFacts DEF Ranged, Limits

\* one that a new day begins,
LEMMA NewDayRanged == ASSUME Bounds, NEW s, Ranged(s), day \in 0..MaxDay PROVE Ranged(NewDay(s))
<1>1. CASE s.date = day
  BY <1>1 DEF NewDay
<1>2. CASE s.date # day
  <2> DEFINE ph == IF Due(s) THEN "focusing" ELSE s.phase
             n == [s EXCEPT !.date = day, !.seg = 0, !.since = 0, !.retry = 0, !.snooze = {},
                            !.snoozes = 0, !.phase = ph]
  <2>1. NewDay(s) = n
    BY <1>2 DEF NewDay, Ranged, Limits
  <2>2. ph \in Phases
    BY DEF Ranged, Limits, Phases
  <2> HIDE DEF ph
  <2>3. Ranged(n)
    BY <2>2, SpanFacts, ZeroFacts DEF Ranged, Limits
  <2> QED
    BY <2>1, <2>3
<1> QED
  BY <1>1, <1>2

\* one that the settings change,
LEMMA SettledRanged == ASSUME Bounds, NEW s, Ranged(s), NEW m PROVE Ranged(Settled(s, m))
<1>1. Ranged(Refused(s))
  BY RefusedRanged
<1>2. Ranged([s EXCEPT !.phase = "waiting", !.seg = 0])
  BY ZeroFacts DEF Ranged, Limits
<1>3. Ranged([s EXCEPT !.phase = "waiting", !.seg = 0, !.since = 0, !.retry = 0])
  BY ZeroFacts DEF Ranged, Limits
<1>4. Ranged([Closed(s) EXCEPT !.rest = {}])
  BY ClosedRanged, SpanFacts DEF Ranged, Limits
<1> QED
  BY <1>1, <1>2, <1>3, <1>4, Zenon DEF Settled

\* one that Advance moves on,
LEMMA AdvancedRanged ==
    ASSUME Bounds, NEW s, Ranged(s), NEW m, day \in 0..MaxDay
    PROVE  Ranged(Advanced(s, m))
<1> DEFINE c == Settled(NewDay(s), m)
<1>1. Ranged(c)
  BY NewDayRanged, SettledRanged
<1> HIDE DEF c
<1>2. Ranged([c EXCEPT !.snooze = {}, !.prompt = {0}])
  BY <1>1, SpanFacts DEF Ranged, Limits
<1>3. Advanced(s, m) = Woken(c)
  BY DEF Advanced, c
<1> QED
  BY <1>1, <1>2, <1>3 DEF Woken

\* and one that a step of use is credited to, when there is use left to count.
LEMMA CreditedRanged ==
    ASSUME Bounds, NEW s, Ranged(s), NEW n \in Nat, s.since + n <= MaxUse
    PROVE  Ranged(Credited(s, n))
<1> DEFINE c == [s EXCEPT !.seg = s.seg + n, !.since = s.since + n]
           asked == [c EXCEPT !.snooze = {}, !.snoozes = 0, !.prompt = {0}]
<1>1. Ranged(c)
  <2>1. s.seg + n \in 0..MaxUse /\ s.since + n \in 0..MaxUse /\ s.seg + n <= s.since + n
    BY DEF Ranged, Limits, Bounds
  <2> QED
    BY <2>1 DEF Ranged, Limits
<1>6. c = [s EXCEPT !.seg = @ + n, !.since = @ + n]
  BY DEF Ranged, Limits
<1> HIDE DEF c
<1>2. Ranged(asked)
  BY <1>1, SpanFacts, ZeroFacts DEF Ranged, Limits
<1> HIDE DEF asked
<1>3. Ranged([asked EXCEPT !.phase = "long_due", !.retry = 0])
  BY <1>2, ZeroFacts DEF Ranged, Limits
<1>4. Ranged([asked EXCEPT !.phase = "short_due"])
  BY <1>2 DEF Ranged, Limits, Phases
<1>5. Credited(s, n) \in {c, [asked EXCEPT !.phase = "long_due", !.retry = 0],
                          [asked EXCEPT !.phase = "short_due"]}
  BY <1>6, Zenon DEF Credited, asked
<1> QED
  BY <1>1, <1>3, <1>4, <1>5

\* A tick's use or absence,
LEMMA RecordRanged ==
    ASSUME Bounds, NEW s, Ranged(s), NEW h, NEW input, Record(s, h, input),
           owed \in Nat, owed <= faults, faults \in 0..MaxFaults
    PROVE  Ranged(st') /\ owed' \in Nat /\ owed' <= faults' /\ faults' \in 0..MaxFaults
<1>1. CASE st' = s /\ UNCHANGED <<owed, faults>>
  BY <1>1
<1>2. CASE Use(s, h)
  <2>1. s.since + (1 + owed) <= MaxUse
    BY <1>2 DEF Use, Ranged, Limits, Bounds
  <2>2. Ranged(Credited(s, 1 + owed))
    BY <2>1, CreditedRanged
  <2>3. \/ st' = Credited(s, 1 + owed) /\ owed' = 0 /\ faults' = faults
        \/ st' = s /\ owed' = owed + 1 /\ faults < MaxFaults /\ faults' = faults + 1
    BY <1>2, Zenon DEF Use, Fault, Repaid
  <2> QED
    BY <2>2, <2>3 DEF Bounds
<1>3. CASE Interrupt(s, h)
  <2>1. Ranged([Closed(s) EXCEPT !.seg = 0])
    BY ClosedRanged, ZeroFacts DEF Ranged, Limits
  <2>2. \/ st' = [Closed(s) EXCEPT !.seg = 0] /\ owed' = 0 /\ faults' = faults
        \/ st' = s /\ owed' = owed /\ faults < MaxFaults /\ faults' = faults + 1
    BY <1>3, Zenon DEF Interrupt, Fault
  <2> QED
    BY <2>1, <2>2 DEF Bounds
<1> QED
  BY <1>1, <1>2, <1>3, Zenon DEF Record

\* a tick,
LEMMA TickRanged == ASSUME Bounds, RhythmRest, NEW input \in {"active", "away", "none"}, Tick(input) PROVE RhythmRest'
<1> DEFINE m == IF mdate = day THEN mode ELSE "on"
           s == After(st, 1)
<1>1. Ranged(s) /\ day \in 0..MaxDay
  BY AfterRanged DEF RhythmRest
<1> HIDE DEF s
<1>2. Ranged(Advanced(s, m))
  BY <1>1, AdvancedRanged
<1>3. \/ Record(Advanced(s, m), Noted(s, m), input)
      \/ faults + 2 <= MaxFaults /\ faults' = faults + 2 /\ st' = s /\ UNCHANGED owed
  BY Zenon DEF Tick, s
<1>4. Ranged(st') /\ owed' \in Nat /\ owed' <= faults' /\ faults' \in 0..MaxFaults
  <2>1. CASE Record(Advanced(s, m), Noted(s, m), input)
    BY <1>2, <2>1, RecordRanged DEF RhythmRest
  <2>2. CASE faults + 2 <= MaxFaults /\ faults' = faults + 2 /\ st' = s /\ UNCHANGED owed
    BY <1>1, <2>2 DEF RhythmRest, Bounds
  <2> QED
    BY <1>3, <2>1, <2>2
<1>5. away' \in 0..Idle
  <2>1. away' = 0 \/ away' = Smaller(away + 1, Idle) \/ away' = away
    BY Zenon DEF Tick
  <2> QED
    BY <2>1 DEF RhythmRest, Smaller, Bounds
<1>6. mode' = m /\ mdate' = day /\ UNCHANGED <<back, day, starts>>
  BY Zenon DEF Tick
<1> QED
  BY <1>4, <1>5, <1>6 DEF RhythmRest

\* the user's answer,
LEMMA ActRanged == ASSUME Bounds, RhythmRest, Act PROVE RhythmRest'
<1>1. UNCHANGED <<owed, day, away, faults, starts>>
  BY DEF Act
<1>2. CASE /\ mode # "eye" /\ mode' = "eye" /\ mdate' = day
           /\ back' = IF mdate = day THEN mode ELSE "on"
           /\ st' = [st EXCEPT !.phase = IF @ = "short_due" THEN "short" ELSE "long",
                               !.rest = {IF st.phase = "short_due" THEN ShortFor ELSE LongFor},
                               !.snooze = {}, !.prompt = {}]
  <2>1. \A ph \in Phases, r \in Rests :
          Ranged([st EXCEPT !.phase = ph, !.rest = r, !.snooze = {}, !.prompt = {}])
    BY SpanFacts DEF RhythmRest, Ranged, Limits
  <2> DEFINE ph == IF st.phase = "short_due" THEN "short" ELSE "long"
             r == {IF st.phase = "short_due" THEN ShortFor ELSE LongFor}
  <2>2. ph \in Phases /\ r \in Rests
    BY SpanFacts, ZeroFacts
  <2>3. st' = [st EXCEPT !.phase = ph, !.rest = r, !.snooze = {}, !.prompt = {}]
    BY <1>2 DEF RhythmRest, Ranged, Limits
  <2> HIDE DEF ph, r
  <2>4. Ranged(st')
    BY <2>1, <2>2, <2>3
  <2> QED
    BY <1>1, <1>2, <2>4 DEF RhythmRest
<1>3. CASE st.snoozes < MaxSnoozes /\ st' = Snoozed /\ UNCHANGED <<done, mode, back, mdate>>
  <2>1. st.snoozes + 1 \in 0..MaxSnoozes
    BY <1>3 DEF RhythmRest, Ranged, Limits, Bounds
  <2>2. Ranged(st')
    BY <1>3, <2>1, SpanFacts DEF RhythmRest, Ranged, Limits, Snoozed
  <2> QED
    BY <1>1, <1>3, <2>2 DEF RhythmRest
<1>4. CASE RefuseNow /\ (UNCHANGED <<mode, back, mdate>> \/ (mode' = back /\ UNCHANGED <<back, mdate>>))
  <2>1. Ranged(st')
    BY <1>4, RefusedRanged DEF RhythmRest, RefuseNow
  <2> QED
    BY <1>1, <1>4, <2>1 DEF RhythmRest
<1>5. CASE /\ st' = [Closed(st) EXCEPT !.rest = {}]
           /\ mode' = back /\ UNCHANGED <<done, back, mdate>>
  <2>1. Ranged(Closed(st))
    BY ClosedRanged DEF RhythmRest
  <2>2. Ranged(st')
    BY <1>5, <2>1, SpanFacts DEF Ranged, Limits
  <2> QED
    BY <1>1, <1>5, <2>2 DEF RhythmRest
<1> QED
  BY <1>2, <1>3, <1>4, <1>5, Zenon DEF Act

\* and every other step keep the types and the bounds.
LEMMA RhythmTypes == ASSUME Bounds, RhythmRest, [YNext]_yvars PROVE RhythmRest'
<1>0. Ranged(st) /\ day \in 0..MaxDay /\ LongFor \in Nat /\ MaxDay \in Nat /\ Idle \in Nat /\ MaxStarts \in Nat
  BY DEF RhythmRest, Bounds
<1>1. ASSUME NEW input \in {"active", "away", "none"}, Tick(input) PROVE RhythmRest'
  BY <1>1, TickRanged
<1>2. CASE Midnight
  BY <1>0, <1>2 DEF Midnight, RhythmRest
<1>3. CASE Poll
  BY <1>0, <1>3, AdvancedRanged DEF Poll, Advance, RhythmRest
<1>4. CASE Claim
  <2> DEFINE s == Advanced(st, mode)
  <2>1. Ranged(s)
    BY <1>0, AdvancedRanged
  <2>2. st' = [s EXCEPT !.prompt = {Repeat}]
        /\ UNCHANGED <<owed, mode, back, mdate, day, away, faults, starts>>
    BY <1>4 DEF Claim
  <2> HIDE DEF s
  <2>3. Ranged(st')
    BY <2>1, <2>2, SpanFacts DEF Ranged, Limits
  <2> QED
    BY <2>2, <2>3 DEF RhythmRest
<1>5. CASE Act
  BY <1>5, ActRanged
<1>6. CASE Switch
  <2>1. /\ Ranged([st EXCEPT !.phase = "focusing"])
        /\ Ranged([st EXCEPT !.phase = "disabled", !.snooze = {}, !.prompt = {}])
    BY <1>0, SpanFacts, ZeroFacts DEF Ranged, Limits
  <2> QED
    BY <1>6, <2>1 DEF Switch, RhythmRest
<1>7. ASSUME NEW m \in {"on", "off"}, SetMode(m) PROVE RhythmRest'
  BY <1>0, <1>7 DEF SetMode, RhythmRest
<1>8. ASSUME NEW time \in {0, LongFor}, Restart(time) PROVE RhythmRest'
  <2> DEFINE m == IF mdate = day THEN mode ELSE "on"
  <2>1. Ranged(After(st, time))
    BY <1>0, AfterRanged
  <2>2. Ranged(Advanced(After(st, time), m))
    BY <1>0, <2>1, AdvancedRanged
  <2>3. /\ starts < MaxStarts /\ starts' = starts + 1
        /\ owed' = 0 /\ away' = 0 /\ mode' = m /\ mdate' = day
        /\ st' = Advanced(After(st, time), m) /\ UNCHANGED <<back, day, faults>>
    BY <1>8 DEF Restart
  <2> QED
    BY <1>0, <2>2, <2>3 DEF RhythmRest
<1>9. CASE UNCHANGED yvars
  BY <1>9 DEF yvars, RhythmRest
<1> QED
  BY <1>1, <1>2, <1>3, <1>4, <1>5, <1>6, <1>7, <1>8, <1>9 DEF YNext

\* The saved status of a day stays within its ranges: the segment never passes the
\* use since the last long break, every deadline is one that the settings give, and
\* no more breaks are owed than writes failed.
THEOREM RhythmTyped == ASSUME Bounds PROVE YSpec => []TypeOK
<1>1. YInit => RhythmRest
  <2> SUFFICES ASSUME YInit PROVE RhythmRest
    OBVIOUS
  <2>1. Ranged(st)
    BY SpanFacts, ZeroFacts DEF YInit, Ranged, Limits, Bounds
  <2> QED
    BY <2>1 DEF YInit, RhythmRest, Bounds
<1>2. RhythmRest => TypeOK
  <2> SUFFICES ASSUME RhythmRest PROVE TypeOK
    OBVIOUS
  <2>1. owed \in 0..MaxFaults /\ st.since \in st.seg..MaxUse
    BY DEF RhythmRest, Ranged, Limits, Bounds
  <2> QED
    BY <2>1 DEF RhythmRest, Ranged, Limits, TypeOK, Snoozes, Rests, Prompts
<1> QED
  BY <1>1, <1>2, RhythmTypes, PTL DEF YSpec

-----------------------------------------------------------------------------
(***************************************************************************)
(* ReminderEngine. A reminder waits for a count to grow by a threshold     *)
(* from a baseline, and a count grows by one in a tick: so the time since  *)
(* the baseline last had to begin anew is no less.                         *)
(***************************************************************************)
CONSTANTS Warn, Strong, Active, Cooldown, Again, RecoveryFor, MaxCount, MaxSettings
VARIABLES current, active, studied, inMode, run, base, lastMode, wasQuiet, cool, shown,
          recovery, fresh, settings

Rem == INSTANCE ReminderEngine WITH mode <- current, Repeat <- Again

ReminderBounds == Warn \in Nat /\ Strong \in Nat /\ Active \in Nat /\ Cooldown \in Nat
          /\ Again \in Nat /\ MaxCount \in Nat

Ticks == 0 .. MaxCount
Run == [of : {"focused", "distracted", "idle"}, n : Ticks]
ReminderTyped ==
    /\ current \in Rem!Modes /\ lastMode \in Rem!Modes \cup {"none"}
    /\ active \in Ticks /\ inMode \in Ticks /\ run \in Run
    /\ base \in [active : Ticks, inMode : Ticks, run : Run]
    /\ cool \in [Rem!Categories -> Nat] /\ fresh \in Ticks

\* A counter has grown by at most n since its baseline, or began anew since and
\* has come to n at most.
Grown(counter, b, n) == counter <= b + n /\ (counter < b => counter <= n)
GrownRun(r, b, n) == IF r.of = b.of THEN Grown(r.n, b.n, n) ELSE r.n <= n
Since(b, n) == Grown(active, b.active, n) /\ Grown(inMode, b.inMode, n) /\ GrownRun(run, b.run, n)

\* In the mode the engine saw last the counters have not grown by more than the
\* ticks since the baseline.
MeasuredInv == lastMode # "OFF" => Since(base, fresh)

RemInv == ReminderTyped /\ MeasuredInv

\* The engine measures nothing before it starts.
LEMMA RemInit == ASSUME ReminderBounds PROVE Rem!RInit => RemInv
  BY DEF ReminderBounds, Rem!RInit, RemInv, ReminderTyped, MeasuredInv, Since, Grown,
         GrownRun, Rem!Modes, Ticks, Run,
         Rem!Quietly, Rem!NoBase

\* The counters of a tick: each grows by one at most or begins anew.
LEMMA CountedFacts ==
    ASSUME ReminderBounds, ReminderTyped, NEW seen \in Rem!Seen, Rem!Counted(seen)
    PROVE  /\ active' \in Ticks /\ inMode' \in Ticks /\ run' \in Run
           /\ active' \in {active, active + 1} /\ inMode' \in {inMode, inMode + 1}
           /\ \/ run'.n = 0
              \/ run'.n = 1
              \/ run'.of = run.of /\ run'.n = run.n + 1
<1>1. run' = Rem!Ran(seen) /\ run'.n <= MaxCount
  BY DEF Rem!Counted
<1>2. run'.of \in {"focused", "distracted", "idle"} /\ run'.n \in Nat
  BY <1>1 DEF Rem!Ran, Rem!Quietly, ReminderTyped, Run, Ticks, ReminderBounds
<1>3. run' \in Run
  BY <1>1, <1>2 DEF Rem!Ran, Rem!Quietly, Run, Ticks, ReminderBounds
<1>4. run'.n = 0 \/ run'.n = 1 \/ (run'.of = run.of /\ run'.n = run.n + 1)
  BY <1>1 DEF Rem!Ran, Rem!Quietly
<1> QED
  BY <1>3, <1>4 DEF Rem!Counted, ReminderTyped, Ticks, ReminderBounds

\* So a tick keeps the measure, with the next number.
LEMMA SinceGrows ==
    ASSUME ReminderBounds, ReminderTyped, NEW seen \in Rem!Seen, Rem!Counted(seen), Since(base, fresh)
    PROVE  LET n == IF fresh < MaxCount THEN fresh + 1 ELSE fresh IN
             /\ n \in Ticks
             /\ Grown(active', base.active, n) /\ Grown(inMode', base.inMode, n)
             /\ GrownRun(run', base.run, n)
<1> DEFINE n == IF fresh < MaxCount THEN fresh + 1 ELSE fresh
<1>1. fresh \in Nat /\ fresh <= MaxCount /\ MaxCount \in Nat
  BY DEF ReminderTyped, Ticks, ReminderBounds
<1>2. n \in Ticks /\ (n = fresh + 1 \/ n = MaxCount)
  BY <1>1 DEF Ticks
<1>3. \A a, b \in Ticks : a \in {active, active + 1} => TRUE
  OBVIOUS
<1>4. Grown(active', base.active, n)
  BY <1>1, <1>2, CountedFacts DEF Since, Grown, ReminderTyped, Ticks
<1>5. Grown(inMode', base.inMode, n)
  BY <1>1, <1>2, CountedFacts DEF Since, Grown, ReminderTyped, Ticks
<1>6. GrownRun(run', base.run, n)
  <2>1. run'.n \in Nat /\ run'.n <= MaxCount /\ run.n \in Nat /\ base.run.n \in Nat
    BY CountedFacts DEF ReminderTyped, Run, Ticks
  <2>2. CASE n = MaxCount
    BY <1>1, <2>1, <2>2 DEF GrownRun, Grown
  <2>3. CASE n = fresh + 1
    BY <1>1, <2>1, <2>3, CountedFacts DEF Since, GrownRun, Grown
  <2> QED
    BY <1>2, <2>2, <2>3
<1> QED
  BY <1>2, <1>4, <1>5, <1>6

\* A baseline above its counter begins anew at zero.
LEMMA GrownKept ==
    ASSUME NEW c \in Nat, NEW b \in Nat, NEW n \in Nat, NEW k, k = IF c < b THEN 0 ELSE b,
           Grown(c, b, n)
    PROVE  Grown(c, k, n) /\ c - k <= n
  BY DEF Grown

\* What the engine measures from b is at most n, and of its new baseline too.
LEMMA ElapsedFacts ==
    ASSUME ReminderBounds, NEW n \in Ticks, NEW b \in [active : Ticks, inMode : Ticks, run : Run],
           active' \in Ticks, inMode' \in Ticks, run' \in Run,
           Grown(active', b.active, n), Grown(inMode', b.inMode, n), GrownRun(run', b.run, n)
    PROVE  /\ Rem!Kept(b) \in [active : Ticks, inMode : Ticks, run : Run]
           /\ Grown(active', Rem!Kept(b).active, n) /\ Grown(inMode', Rem!Kept(b).inMode, n)
           /\ GrownRun(run', Rem!Kept(b).run, n)
           /\ Rem!Elapsed(b).active <= n /\ Rem!Elapsed(b).inMode <= n
           /\ run'.of # "focused" => Rem!Elapsed(b).run <= n
<1>1. /\ n \in Nat /\ active' \in Nat /\ inMode' \in Nat /\ run'.n \in Nat
      /\ b.active \in Nat /\ b.inMode \in Nat /\ b.run.n \in Nat
  BY DEF Ticks, Run
<1>2. Rem!Kept(b) \in [active : Ticks, inMode : Ticks, run : Run]
  BY DEF Rem!Kept, Ticks, Run, Rem!Quietly, ReminderBounds
<1>3. /\ Rem!Kept(b).active = IF active' < b.active THEN 0 ELSE b.active
      /\ Rem!Kept(b).inMode = IF inMode' < b.inMode THEN 0 ELSE b.inMode
      /\ Rem!Kept(b).run = IF run'.of # b.run.of \/ run'.n < b.run.n THEN Rem!Quietly ELSE b.run
  BY DEF Rem!Kept, Rem!Now
<1>4. /\ Rem!Elapsed(b).active = active' - Rem!Kept(b).active
      /\ Rem!Elapsed(b).inMode = inMode' - Rem!Kept(b).inMode
      /\ Rem!Elapsed(b).run = run'.n - Rem!Kept(b).run.n
  BY DEF Rem!Elapsed, Rem!Now
<1>5. Grown(active', Rem!Kept(b).active, n) /\ Rem!Elapsed(b).active <= n
  <2>1. Grown(active', b.active, n)
    OBVIOUS
  <2>2. Grown(active', Rem!Kept(b).active, n) /\ active' - Rem!Kept(b).active <= n
    BY <1>1, <1>3, <2>1, GrownKept
  <2> QED
    BY <1>4, <2>2
<1>6. Grown(inMode', Rem!Kept(b).inMode, n) /\ Rem!Elapsed(b).inMode <= n
  <2>1. Grown(inMode', b.inMode, n)
    OBVIOUS
  <2>2. Grown(inMode', Rem!Kept(b).inMode, n) /\ inMode' - Rem!Kept(b).inMode <= n
    BY <1>1, <1>3, <2>1, GrownKept
  <2> QED
    BY <1>4, <2>2
<1>7. GrownRun(run', Rem!Kept(b).run, n) /\ Rem!Elapsed(b).run <= n
  <2>1. CASE run'.of # b.run.of \/ run'.n < b.run.n
    <3>1. Rem!Kept(b).run = Rem!Quietly /\ run'.n <= n
      BY <1>1, <1>3, <2>1 DEF GrownRun, Grown
    <3> QED
      BY <1>1, <1>4, <3>1 DEF GrownRun, Grown, Rem!Quietly
  <2>2. CASE run'.of = b.run.of /\ ~(run'.n < b.run.n)
    BY <1>1, <1>3, <1>4, <2>2 DEF GrownRun, Grown
  <2> QED
    BY <2>1, <2>2
<1> QED
  BY <1>2, <1>5, <1>6, <1>7

\* A cooldown only ends.
LEMMA CoolFacts ==
    ASSUME ReminderBounds, ReminderTyped
    PROVE  /\ Rem!Cooled \in [Rem!Categories -> Nat]
           /\ \A c \in Rem!Categories : Rem!Cooled[c] <= cool[c]
           /\ \A c \in Rem!Categories : Rem!Wait(c) \in Nat
<1>1. \A n \in Nat : Rem!Less(n) \in Nat /\ Rem!Less(n) <= n
  BY DEF Rem!Less
<1> QED
  BY <1>1 DEF ReminderTyped, Rem!Cooled, Rem!Wait, ReminderBounds

\* A silent tick uses no category.
LEMMA SilentFacts ==
    ASSUME ReminderBounds, ReminderTyped, NEW seen \in Rem!Seen, Rem!Silent(seen)
    PROVE  cool' \in [Rem!Categories -> Nat] /\ Rem!RemindedLater
<1>1. cool' = Rem!Cooled
  BY DEF Rem!Silent
<1>2. \A c \in Rem!Categories : ~(cool'[c] > cool[c])
  BY <1>1, CoolFacts DEF ReminderTyped
<1> QED
  BY <1>1, <1>2, CoolFacts DEF Rem!RemindedLater

\* What is called for took its threshold at least.
LEMMA CalledLater ==
    ASSUME ReminderBounds, NEW n \in Ticks, NEW e, e.active \in Int, e.inMode \in Int, e.run \in Int,
           e.active <= n, e.inMode <= n, run'.of # "focused" => e.run <= n, run' \in Run,
           NEW c \in Rem!Called(e)
    PROVE  c \in Rem!Categories /\ n >= Rem!Needed(c[1])
<1> DEFINE least == IF Warn < Strong THEN Warn ELSE Strong
<1>1. n \in Nat /\ Warn \in Nat /\ Strong \in Nat
  BY DEF Ticks, ReminderBounds
<1>2. ASSUME NEW m \in Int, NEW l \in Rem!Level(m) PROVE l \in Rem!Levels /\ m >= least
  BY <1>1, <1>2 DEF Rem!Level, Rem!Levels
<1>3. CASE current = "STANDBY"
  <2>1. c = <<"standby", "BUBBLE">> /\ e.active >= Active
    BY <1>3 DEF Rem!Called
  <2> QED
    BY <1>1, <2>1 DEF Rem!Categories, Rem!Kinds, Rem!Levels, Rem!Needed, ReminderBounds
<1>4. CASE current = "STUDY"
  <2>1. run'.of # "focused" /\ c \in {run'.of} \X Rem!Level(e.run)
    BY <1>4 DEF Rem!Called, Rem!Now
  <2>2. c[1] = run'.of /\ c[2] \in Rem!Level(e.run) /\ c = <<run'.of, c[2]>>
    BY <2>1
  <2>3. c[2] \in Rem!Levels /\ n >= least
    BY <1>1, <1>2, <2>1, <2>2
  <2>4. run'.of \in {"distracted", "idle"}
    BY <2>1 DEF Run
  <2> QED
    BY <2>2, <2>3, <2>4 DEF Rem!Categories, Rem!Kinds, Rem!Needed
<1>5. CASE current = "BREAK"
  <2>1. c \in {"break"} \X Rem!Level(e.inMode)
    BY <1>5 DEF Rem!Called
  <2>2. c[1] = "break" /\ c[2] \in Rem!Level(e.inMode) /\ c = <<"break", c[2]>>
    BY <2>1
  <2>3. c[2] \in Rem!Levels /\ n >= least
    BY <1>1, <1>2, <2>2
  <2> QED
    BY <2>2, <2>3 DEF Rem!Categories, Rem!Kinds, Rem!Needed
<1>6. CASE current \notin {"STANDBY", "STUDY", "BREAK"}
  BY <1>6 DEF Rem!Called
<1> QED
  BY <1>3, <1>4, <1>5, <1>6

\* Measured with a baseline from which the counters have grown as the tick says.
LEMMA MeasuredFacts ==
    ASSUME ReminderBounds, ReminderTyped, NEW seen \in Rem!Seen,
           NEW b \in [active : Ticks, inMode : Ticks, run : Run],
           NEW since \in Ticks, Rem!Measured(seen, b, since),
           active' \in Ticks, inMode' \in Ticks, run' \in Run,
           LET n == IF since < MaxCount THEN since + 1 ELSE since IN
             Grown(active', b.active, n) /\ Grown(inMode', b.inMode, n) /\ GrownRun(run', b.run, n)
    PROVE  /\ base' \in [active : Ticks, inMode : Ticks, run : Run] /\ fresh' \in Ticks
           /\ Since(base, fresh)' /\ cool' \in [Rem!Categories -> Nat] /\ Rem!RemindedLater
<1> DEFINE n == IF since < MaxCount THEN since + 1 ELSE since
<1>1. n \in Ticks /\ fresh' = n /\ base' = Rem!Kept(b)
  BY DEF Rem!Measured, Ticks, ReminderBounds
<1> HIDE DEF n
<1>2. Grown(active', b.active, n) /\ Grown(inMode', b.inMode, n) /\ GrownRun(run', b.run, n)
  BY DEF n
<1>3. /\ Rem!Kept(b) \in [active : Ticks, inMode : Ticks, run : Run]
      /\ Grown(active', Rem!Kept(b).active, n) /\ Grown(inMode', Rem!Kept(b).inMode, n)
      /\ GrownRun(run', Rem!Kept(b).run, n)
      /\ Rem!Elapsed(b).active <= n /\ Rem!Elapsed(b).inMode <= n
      /\ run'.of # "focused" => Rem!Elapsed(b).run <= n
  BY <1>1, <1>2, ElapsedFacts
<1>4. Since(base, fresh)'
  BY <1>1, <1>3 DEF Since
<1>5. cool' \in [Rem!Categories -> Nat] /\ Rem!RemindedLater
  <2>1. CASE Rem!Silent(seen)
    BY <2>1, SilentFacts
  <2>2. CASE \E c \in Rem!Called(Rem!Elapsed(b)) : Rem!Remind(seen, c)
    <3>1. PICK c \in Rem!Called(Rem!Elapsed(b)) : Rem!Remind(seen, c)
      BY <2>2
    <3>2. /\ Rem!Elapsed(b).active \in Int /\ Rem!Elapsed(b).inMode \in Int /\ Rem!Elapsed(b).run \in Int
      BY <1>3 DEF Rem!Elapsed, Rem!Now, Ticks, Run
    <3>3. c \in Rem!Categories /\ n >= Rem!Needed(c[1])
      BY <1>1, <1>3, <3>2, CalledLater
    <3>4. cool' = [Rem!Cooled EXCEPT ![c] = Rem!Wait(c)]
      BY <3>1 DEF Rem!Remind
    <3>5. cool' \in [Rem!Categories -> Nat]
      BY <3>3, <3>4, CoolFacts
    <3>6. \A d \in Rem!Categories : d # c => cool'[d] <= cool[d]
      BY <3>4, CoolFacts
    <3>7. \A d \in Rem!Categories : cool'[d] > cool[d] => d = c
      BY <3>5, <3>6 DEF ReminderTyped
    <3> QED
      BY <1>1, <3>3, <3>5, <3>7 DEF Rem!RemindedLater
  <2> QED
    BY <2>1, <2>2 DEF Rem!Measured
<1> QED
  BY <1>1, <1>3, <1>4, <1>5

\* From a baseline taken now nothing has grown.
LEMMA CapturedFacts ==
    ASSUME ReminderBounds, active' \in Ticks, inMode' \in Ticks, run' \in Run
    PROVE  /\ Rem!Now \in [active : Ticks, inMode : Ticks, run : Run]
           /\ \A n \in Ticks : /\ Grown(active', Rem!Now.active, n) /\ Grown(inMode', Rem!Now.inMode, n)
                               /\ GrownRun(run', Rem!Now.run, n)
<1>1. Rem!Now.active = active' /\ Rem!Now.inMode = inMode' /\ Rem!Now.run = run'
  BY DEF Rem!Now
<1>2. Rem!Now \in [active : Ticks, inMode : Ticks, run : Run]
  BY DEF Rem!Now
<1>3. active' \in Nat /\ inMode' \in Nat /\ run'.n \in Nat
  BY DEF Ticks, Run
<1>4. \A m, n \in Nat : Grown(m, m, n)
  BY DEF Grown
<1>5. ASSUME NEW n \in Ticks
      PROVE  /\ Grown(active', Rem!Now.active, n) /\ Grown(inMode', Rem!Now.inMode, n)
             /\ GrownRun(run', Rem!Now.run, n)
  <2>1. n \in Nat
    BY DEF Ticks
  <2> QED
    BY <1>1, <1>3, <1>4, <2>1 DEF GrownRun
<1> QED
  BY <1>2, <1>5

\* A tick keeps the baselines, and reminds only of what was measured long enough.
LEMMA TickStep ==
    ASSUME ReminderBounds, RemInv, NEW seen \in Rem!Seen, NEW quiet \in BOOLEAN, Rem!Tick(seen, quiet)
    PROVE  RemInv' /\ Rem!RemindedLater
<1>1. /\ ReminderTyped /\ Rem!Counted(seen) /\ current' = current
  BY DEF RemInv, Rem!Tick
<1>2. active' \in Ticks /\ inMode' \in Ticks /\ run' \in Run
  BY <1>1, CountedFacts
<1> DEFINE n == IF fresh < MaxCount THEN fresh + 1 ELSE fresh
<1>3. lastMode # "OFF" =>
        /\ n \in Ticks
        /\ Grown(active', base.active, n) /\ Grown(inMode', base.inMode, n)
        /\ GrownRun(run', base.run, n)
  BY <1>1, SinceGrows DEF RemInv, MeasuredInv
<1>4. ASSUME base' \in [active : Ticks, inMode : Ticks, run : Run], fresh' \in Ticks,
             lastMode' \in Rem!Modes \cup {"none"}, cool' \in [Rem!Categories -> Nat], Rem!RemindedLater,
             lastMode' # "OFF" => Since(base, fresh)'
      PROVE  RemInv' /\ Rem!RemindedLater
  BY <1>1, <1>2, <1>4 DEF RemInv, ReminderTyped, MeasuredInv
<1>5. CASE current = "EYE_CARE" /\ UNCHANGED <<base, lastMode>> /\ fresh' = n /\ Rem!Silent(seen)
  <2>1. lastMode # "OFF" => Since(base, fresh)'
    BY <1>3, <1>5 DEF Since
  <2>2. fresh' \in Ticks
    BY <1>1, <1>5 DEF ReminderTyped, Ticks, ReminderBounds
  <2> QED
    BY <1>1, <1>4, <1>5, <2>1, <2>2, SilentFacts DEF ReminderTyped
<1>6. CASE current = "OFF" /\ lastMode' = current /\ Rem!Silent(seen) /\ UNCHANGED <<base, fresh>>
  BY <1>1, <1>4, <1>6, SilentFacts DEF ReminderTyped
<1>7. CASE lastMode' = current /\ Rem!Silent(seen) /\ base' = Rem!Now /\ fresh' = 0
  <2>1. base' \in [active : Ticks, inMode : Ticks, run : Run] /\ 0 \in Ticks
    BY <1>2, <1>7, CapturedFacts DEF Ticks, ReminderBounds
  <2>2. Since(base, fresh)'
    BY <1>2, <1>7, <2>1, CapturedFacts DEF Since
  <2> QED
    BY <1>1, <1>4, <1>7, <2>1, <2>2, SilentFacts DEF ReminderTyped
<1>8. CASE lastMode' = current /\ Rem!Changed /\ Rem!Measured(seen, Rem!Now, 0)
  <2>1. Rem!Now \in [active : Ticks, inMode : Ticks, run : Run] /\ 0 \in Ticks
    BY <1>2, CapturedFacts DEF Ticks, ReminderBounds
  <2>2. (IF 0 < MaxCount THEN 0 + 1 ELSE 0) \in Ticks
    BY DEF Ticks, ReminderBounds
  <2>3. LET k == IF 0 < MaxCount THEN 0 + 1 ELSE 0 IN
          Grown(active', Rem!Now.active, k) /\ Grown(inMode', Rem!Now.inMode, k)
             /\ GrownRun(run', Rem!Now.run, k)
    BY <1>2, <2>2, CapturedFacts
  <2>4. /\ base' \in [active : Ticks, inMode : Ticks, run : Run] /\ fresh' \in Ticks
        /\ Since(base, fresh)' /\ cool' \in [Rem!Categories -> Nat] /\ Rem!RemindedLater
    BY <1>1, <1>2, <1>8, <2>1, <2>3, MeasuredFacts
  <2> QED
    BY <1>1, <1>4, <1>8, <2>4 DEF ReminderTyped
<1>9. CASE lastMode' = current /\ current # "OFF" /\ ~Rem!Changed /\ Rem!Measured(seen, base, fresh)
  <2>1. lastMode # "OFF"
    BY <1>9 DEF Rem!Changed
  <2>2. /\ base' \in [active : Ticks, inMode : Ticks, run : Run] /\ fresh' \in Ticks
        /\ Since(base, fresh)' /\ cool' \in [Rem!Categories -> Nat] /\ Rem!RemindedLater
    BY <1>1, <1>2, <1>3, <1>9, <2>1, MeasuredFacts DEF ReminderTyped
  <2> QED
    BY <1>1, <1>4, <1>9, <2>2 DEF ReminderTyped
<1> QED
  BY <1>5, <1>6, <1>7, <1>8, <1>9 DEF Rem!Tick, Rem!Evaluate, Rem!Capture, Rem!QuietEnds

\* Every step of ReminderEngine does.
LEMMA RemStep ==
    ASSUME ReminderBounds
    PROVE  RemInv /\ [Rem!RNext]_Rem!rvars => RemInv' /\ Rem!RemindedLater
<1> SUFFICES ASSUME RemInv, [Rem!RNext]_Rem!rvars PROVE RemInv' /\ Rem!RemindedLater
  OBVIOUS
<1>1. ASSUME NEW m \in Rem!Modes, Rem!SetMode(m) PROVE RemInv' /\ Rem!RemindedLater
  <2>1. cool' = cool
    BY <1>1 DEF Rem!SetMode
  <2>2. ReminderTyped'
    BY <1>1 DEF Rem!SetMode, RemInv, ReminderTyped, Rem!Quietly, Ticks, Run, ReminderBounds
  <2>3. MeasuredInv'
    BY <1>1 DEF Rem!SetMode, RemInv, ReminderTyped, MeasuredInv, Since, Grown, GrownRun,
                Rem!Quietly, Ticks, Run,
                ReminderBounds
  <2> QED
    BY <2>1, <2>2, <2>3 DEF RemInv, ReminderTyped, Rem!RemindedLater
<1>2. CASE Rem!NewDay
  <2>1. cool' = cool
    BY <1>2 DEF Rem!NewDay
  <2>2. ReminderTyped'
    BY <1>2 DEF Rem!NewDay, RemInv, ReminderTyped, Rem!Quietly, Ticks, Run, ReminderBounds,
                Rem!Modes
  <2>3. MeasuredInv'
    BY <1>2 DEF Rem!NewDay, RemInv, ReminderTyped, MeasuredInv, Since, Grown, GrownRun,
                Rem!Quietly, Ticks, Run,
                ReminderBounds
  <2> QED
    BY <2>1, <2>2, <2>3 DEF RemInv, ReminderTyped, Rem!RemindedLater
<1>3. CASE Rem!SetSettings
  <2>1. cool' = cool
    BY <1>3 DEF Rem!SetSettings
  <2>2. ReminderTyped'
    BY <1>3 DEF Rem!SetSettings, RemInv, ReminderTyped, Rem!NoBase, Rem!Quietly, Ticks,
                Run, ReminderBounds
  <2>3. MeasuredInv'
    BY <1>3 DEF Rem!SetSettings, RemInv, ReminderTyped, MeasuredInv, Since, Grown,
                GrownRun, Rem!NoBase, Rem!Quietly,
                Ticks, Run, ReminderBounds
  <2> QED
    BY <2>1, <2>2, <2>3 DEF RemInv, ReminderTyped, Rem!RemindedLater
<1>4. ASSUME NEW seen \in Rem!Seen, NEW quiet \in BOOLEAN, Rem!Tick(seen, quiet)
      PROVE  RemInv' /\ Rem!RemindedLater
  BY <1>4, TickStep
<1>5. CASE UNCHANGED Rem!rvars
  BY <1>5 DEF Rem!rvars, RemInv, ReminderTyped, MeasuredInv, Since, Rem!RemindedLater
<1> QED
  BY <1>1, <1>2, <1>3, <1>4, <1>5 DEF Rem!RNext

\* For all thresholds and times, a reminder comes only when as many ticks as its
\* kind needs have passed since the last change of the mode and the last quiet
\* time.  After the settings were saved nothing is claimed until the next of these,
\* as the engine then measures the counters from zero (engine.go:60-74).
THEOREM RemindersAreDue == ASSUME ReminderBounds PROVE Rem!RSpec => Rem!RemindersStartAnew
<1>1. Rem!RInit => RemInv
  BY RemInit
<1>2. RemInv /\ [Rem!RNext]_Rem!rvars => RemInv' /\ Rem!RemindedLater
  BY RemStep
<1> QED
  BY <1>1, <1>2, PTL DEF Rem!RSpec, Rem!RemindersStartAnew

-----------------------------------------------------------------------------
\* The bounds of the reminders' types.  Nothing orders a cooldown and a repetition.
RemindingBounds == ReminderBounds /\ RecoveryFor \in Nat /\ MaxSettings \in Nat

\* A category waits no longer than its last reminder made it.
Waits == {f \in [Rem!Categories -> Nat] : \A c \in Rem!Categories : f[c] <= Rem!Wait(c)}

\* What is on the screen, and the rest of the state.
Shown == [kind : Rem!Kinds \cup {"none"}, left : 0..Cooldown]
\* What RemInv leaves open.
ReminderRest ==
    /\ studied \in BOOLEAN /\ wasQuiet \in BOOLEAN
    /\ cool \in Waits /\ shown \in Shown
    /\ recovery \in 0..RecoveryFor /\ settings \in 0..MaxSettings

\* What a category waits is a time.
LEMMA WaitFact == ASSUME ReminderBounds PROVE \A c : Rem!Wait(c) \in Nat
  BY DEF Rem!Wait, ReminderBounds

\* A tick shows a reminder or lets it pass.
LEMMA TellTypes ==
    ASSUME RemindingBounds, ReminderRest, NEW seen,
           Rem!Silent(seen) \/ (\E c \in Rem!Categories : Rem!Remind(seen, c))
    PROVE  /\ cool' \in Waits /\ shown' \in Shown
           /\ recovery' \in 0..RecoveryFor
<1>1. Rem!Cooled \in Waits
  <2>1. \A c \in Rem!Categories : Rem!Less(cool[c]) \in Nat /\ Rem!Less(cool[c]) <= Rem!Wait(c)
    BY WaitFact DEF RemindingBounds, ReminderRest, Waits, Rem!Less
  <2> QED
    BY <2>1 DEF Rem!Cooled, Waits
<1>2. Rem!Nothing \in Shown
  BY DEF Rem!Nothing, Shown, RemindingBounds, ReminderBounds
<1>3. CASE Rem!Silent(seen)
  <2>1. Rem!Cleared(seen).shown \in Shown /\ Rem!Cleared(seen).since \in 0..RecoveryFor
    <3>1. shown.left > 1 => [shown EXCEPT !.left = shown.left - 1] \in Shown
      BY DEF ReminderRest, Shown, RemindingBounds, ReminderBounds
    <3>2. recovery # RecoveryFor => recovery + 1 \in 0..RecoveryFor
      BY DEF ReminderRest, RemindingBounds
    <3>3. Rem!Recovering(seen) => shown.left > 1
      BY DEF Rem!Recovering
    <3>4. 0 \in 0..RecoveryFor
      BY DEF RemindingBounds
    <3> QED
      BY <1>2, <3>1, <3>2, <3>3, <3>4 DEF Rem!Cleared
  <2> QED
    BY <1>1, <1>3, <2>1 DEF Rem!Silent
<1>4. CASE \E c \in Rem!Categories : Rem!Remind(seen, c)
  <2>1. PICK c \in Rem!Categories : Rem!Remind(seen, c)
    BY <1>4
  <2>2. Rem!Wait(c) \in Nat /\ c[1] \in Rem!Kinds
    BY WaitFact DEF RemindingBounds, Rem!Categories
  <2>3. [kind |-> c[1], left |-> Cooldown] \in Shown /\ 0 \in 0..RecoveryFor
    BY <2>2 DEF Shown, RemindingBounds, ReminderBounds
  <2>4. [Rem!Cooled EXCEPT ![c] = Rem!Wait(c)] \in Waits
    BY <1>1, <2>1, <2>2 DEF Waits
  <2> QED
    BY <2>1, <2>3, <2>4 DEF Rem!Remind
<1> QED
  BY <1>3, <1>4

\* The engine calls only for a category there is.
LEMMA CalledCategory ==
    ASSUME run' \in Run
    PROVE  \A e : Rem!Called(e) \subseteq Rem!Categories
<1> SUFFICES ASSUME NEW e PROVE Rem!Called(e) \subseteq Rem!Categories
  OBVIOUS
<1>1. \A n : Rem!Level(n) \subseteq Rem!Levels
  BY DEF Rem!Level, Rem!Levels
<1>2. Rem!Now.run.of \in {"focused", "distracted", "idle"}
  BY DEF Rem!Now, Run
<1>3. Rem!Now.run.of # "focused" => {Rem!Now.run.of} \X Rem!Level(e.run) \subseteq Rem!Categories
  BY <1>1, <1>2 DEF Rem!Categories, Rem!Kinds
<1>4. {"break"} \X Rem!Level(e.inMode) \subseteq Rem!Categories
  BY <1>1 DEF Rem!Categories, Rem!Kinds
<1>5. {<<"standby", "BUBBLE">>} \subseteq Rem!Categories
  BY DEF Rem!Categories, Rem!Kinds, Rem!Levels
<1> QED
  BY <1>3, <1>4, <1>5 DEF Rem!Called

\* A cleared reminder and a cleared recovery are of their types.
LEMMA NothingIsShown == ASSUME RemindingBounds PROVE Rem!Nothing \in Shown /\ 0 \in 0..RecoveryFor
  BY DEF Rem!Nothing, Shown, RemindingBounds, ReminderBounds

\* Every step of the engine keeps its state within its types.
LEMMA ReminderTypes ==
    ASSUME RemindingBounds, RemInv, ReminderRest, [Rem!RNext]_(Rem!rvars)
    PROVE  ReminderRest'
<1>1. ASSUME NEW m \in Rem!Modes, Rem!SetMode(m) PROVE ReminderRest'
  <2>1. /\ UNCHANGED <<studied, wasQuiet, cool, settings>>
        /\ shown' = Rem!Nothing /\ recovery' = 0
    BY <1>1 DEF Rem!SetMode
  <2> QED
    BY <2>1, NothingIsShown, Zenon DEF ReminderRest
<1>2. CASE Rem!NewDay
  <2>1. studied' \in BOOLEAN
    BY <1>2, Zenon DEF Rem!NewDay
  <2> QED
    BY <1>2, <2>1, NothingIsShown, Zenon DEF Rem!NewDay, ReminderRest
<1>3. CASE Rem!SetSettings
  <2>1. settings' \in 0..MaxSettings
    BY <1>3 DEF Rem!SetSettings, ReminderRest, RemindingBounds
  <2>2. wasQuiet' \in BOOLEAN
    BY <1>3, Zenon DEF Rem!SetSettings
  <2> QED
    BY <1>3, <2>1, <2>2, Zenon DEF Rem!SetSettings, ReminderRest
<1>4. ASSUME NEW seen \in Rem!Seen, NEW quiet \in BOOLEAN, Rem!Tick(seen, quiet) PROVE ReminderRest'
  <2>1. studied' \in BOOLEAN /\ settings' = settings
    BY <1>4 DEF Rem!Tick, Rem!Counted
  <2>2. wasQuiet' \in BOOLEAN
    BY <1>4 DEF Rem!Tick, Rem!Evaluate, ReminderRest
  <2>5. run' \in Run
    BY <1>4, CountedFacts DEF Rem!Tick, RemInv, RemindingBounds
  <2>3. Rem!Silent(seen) \/ (\E c \in Rem!Categories : Rem!Remind(seen, c))
    BY <1>4, <2>5, CalledCategory DEF Rem!Tick, Rem!Evaluate, Rem!Measured
  <2>4. /\ cool' \in Waits /\ shown' \in Shown
        /\ recovery' \in 0..RecoveryFor
    BY <2>3, TellTypes
  <2> QED
    BY <2>1, <2>2, <2>4, Zenon DEF ReminderRest
<1>5. CASE UNCHANGED Rem!rvars
  <2>1. UNCHANGED <<studied, wasQuiet, cool, shown, recovery, settings>>
    BY <1>5 DEF Rem!rvars
  <2> QED
    BY <2>1, Zenon DEF ReminderRest
<1> QED
  BY <1>1, <1>2, <1>3, <1>4, <1>5 DEF Rem!RNext

\* The engine's counters and the reminder shown stay within their ranges: whatever
\* is on the screen has a cooldown left that its category may have.
THEOREM RemindersTyped == ASSUME RemindingBounds PROVE Rem!RSpec => []Rem!TypeOK
<1>1. Rem!RInit => RemInv /\ ReminderRest
  <2> SUFFICES ASSUME Rem!RInit PROVE RemInv /\ ReminderRest
    OBVIOUS
  <2>1. RemInv
    BY RemInit DEF RemindingBounds
  <2>2. cool \in Waits /\ settings \in 0..MaxSettings
    BY WaitFact DEF Rem!RInit, RemindingBounds, Waits
  <2>3. studied \in BOOLEAN /\ wasQuiet \in BOOLEAN /\ shown = Rem!Nothing /\ recovery = 0
    BY Zenon DEF Rem!RInit
  <2> QED
    BY <2>1, <2>2, <2>3, NothingIsShown, Zenon DEF ReminderRest
<1>2. RemInv /\ ReminderRest /\ [Rem!RNext]_(Rem!rvars) => RemInv' /\ ReminderRest'
  BY RemStep, ReminderTypes DEF RemindingBounds
<1>3. RemInv /\ ReminderRest => Rem!TypeOK
  <2> SUFFICES ASSUME RemInv, ReminderRest PROVE Rem!TypeOK
    OBVIOUS
  <2>1. \A c \in Rem!Categories : cool[c] \in 0..Rem!Wait(c)
    BY WaitFact DEF ReminderRest, Waits, RemindingBounds
  <2> QED
    BY <2>1 DEF RemInv, ReminderRest, ReminderTyped, Rem!TypeOK, Rem!Runs, Run, Ticks, Shown
<1> QED
  BY <1>1, <1>2, <1>3, PTL DEF Rem!RSpec

-----------------------------------------------------------------------------
(***************************************************************************)
(* SemanticSegments. A key is pending since an instant no later than the   *)
(* first of the observations that had it without another between.          *)
(***************************************************************************)
CONSTANTS Keys, StableFor, MinPersist, Heartbeat, MaxClock, MaxStep, MaxSlips, MaxBroken, MaxBoots
VARIABLES clock, held, last, snapshots, watched, troubles

Sem == INSTANCE SemanticSegments
       WITH pending <- held, rows <- snapshots, seen <- watched, MaxNow <- MaxClock,
            MaxGap <- MaxStep, MaxFaults <- MaxBroken, MaxStarts <- MaxBoots

Stretch == [key : Keys \cup {Sem!None}, at : Int]
SemanticTyped ==
    /\ clock \in Int /\ held \in Stretch /\ watched \in Stretch
    /\ snapshots \in Seq([key : Keys, first : Int, at : Int])

\* While a key is pending every observation since pending.at had it.
WatchedInv == held.key # Sem!None => watched.key = held.key /\ watched.at <= held.at

SemInv == SemanticTyped /\ WatchedInv

\* Nothing is watched at first.
LEMMA SemInit == Sem!GInit => SemInv
  BY DEF Sem!GInit, SemInv, SemanticTyped, WatchedInv, Stretch, Sem!Never

\* An observation restarts the watch on a new activity, and takes a snapshot only of
\* one that lasted.
LEMMA Observed ==
    ASSUME SemInv, NEW key \in Keys \cup {Sem!None}, NEW gap \in 1 .. MaxStep, Sem!Observe(key, gap)
    PROVE  SemInv' /\ Sem!NewRowIsStable
<1> DEFINE time == clock + gap
<1>1. /\ clock \in Int /\ time \in Int /\ clock' = time /\ held \in Stretch /\ watched \in Stretch
      /\ snapshots \in Seq([key : Keys, first : Int, at : Int])
  BY DEF SemInv, SemanticTyped, Sem!Observe
<1>2. /\ watched' = [key |-> key, at |-> IF key # watched.key THEN time ELSE Sem!Earlier(watched.at, time)]
      /\ watched' \in Stretch /\ watched'.at <= time /\ watched'.key = key
      /\ (key = watched.key => watched'.at <= watched.at)
  BY <1>1 DEF Sem!Observe, Sem!Earlier, Stretch
<1> HIDE DEF time
<1>3. CASE key = Sem!None
  <2>1. held' = Sem!Never /\ snapshots' = snapshots
    BY <1>3 DEF Sem!Observe, Sem!ResetPending
  <2> QED
    BY <1>1, <1>2, <2>1 DEF SemInv, SemanticTyped, WatchedInv, Stretch, Sem!Never,
                            Sem!NewRowIsStable
<1>4. CASE key # Sem!None /\ held' = [key |-> key, at |-> time] /\ snapshots' = snapshots
  BY <1>1, <1>2, <1>4 DEF SemInv, SemanticTyped, WatchedInv, Stretch, Sem!NewRowIsStable
<1>5. CASE /\ key # Sem!None /\ key = held.key /\ time >= held.at /\ held' = held
           /\ \/ snapshots' = snapshots
              \/ time - held.at >= StableFor /\ snapshots' = Append(snapshots, Sem!Row(key, time))
  <2>1. SemInv'
    <3>1. Sem!Row(key, time) \in [key : Keys, first : Int, at : Int]
      BY <1>1, <1>5 DEF Sem!Row, Stretch
    <3> DEFINE R == [key : Keys, first : Int, at : Int]
    <3>2. snapshots' \in Seq(R)
      <4>1. snapshots \in Seq(R) /\ Sem!Row(key, time) \in R
        BY <1>1, <3>1
      <4> HIDE DEF R
      <4> QED
        BY <1>5, <4>1
    <3>3. WatchedInv'
      BY <1>1, <1>2, <1>5 DEF SemInv, WatchedInv, Stretch
    <3> QED
      BY <1>1, <1>2, <1>5, <3>2, <3>3 DEF SemInv, SemanticTyped
  <2>2. Sem!NewRowIsStable
    <3>1. CASE snapshots' = snapshots
      BY <1>1, <3>1 DEF Sem!NewRowIsStable
    <3>2. CASE time - held.at >= StableFor /\ snapshots' = Append(snapshots, Sem!Row(key, time))
      <4>1. snapshots'[Len(snapshots')] = Sem!Row(key, time)
        BY <1>1, <3>2
      <4>2. watched'.at <= held.at
        BY <1>1, <1>2, <1>5 DEF SemInv, WatchedInv, Stretch
      <4> QED
        BY <1>1, <1>2, <1>5, <3>2, <4>1, <4>2 DEF Sem!NewRowIsStable, Sem!Row, Stretch
    <3> QED
      BY <1>5, <3>1, <3>2
  <2> QED
    BY <2>1, <2>2
<1> QED
  BY <1>3, <1>4, <1>5 DEF Sem!Observe, Sem!Eligible, Sem!Persist, time

\* Every step of SemanticSegments keeps the invariant.
LEMMA SemStep == SemInv /\ [Sem!GNext]_Sem!gvars => SemInv' /\ Sem!NewRowIsStable
<1> SUFFICES ASSUME SemInv, [Sem!GNext]_Sem!gvars PROVE SemInv' /\ Sem!NewRowIsStable
  OBVIOUS
<1>1. ASSUME NEW key \in Keys \cup {Sem!None}, NEW gap \in 1..MaxStep, Sem!Observe(key, gap)
      PROVE  SemInv' /\ Sem!NewRowIsStable
  BY <1>1, Observed
<1>2. CASE Sem!SlipBack
  BY <1>2 DEF Sem!SlipBack, SemInv, SemanticTyped, WatchedInv, Sem!NewRowIsStable
<1>3. CASE Sem!Restart
  BY <1>3 DEF Sem!Restart, Sem!Never, SemInv, SemanticTyped, WatchedInv, Stretch, Sem!NewRowIsStable
<1>4. CASE UNCHANGED Sem!gvars
  BY <1>4 DEF Sem!gvars, SemInv, SemanticTyped, WatchedInv, Sem!NewRowIsStable
<1> QED
  BY <1>1, <1>2, <1>3, <1>4 DEF Sem!GNext

\* For all activities, times and clock slips, a snapshot is of an activity watched
\* without a change for the stable time.
THEOREM SnapshotsAreStable == Sem!GSpec => Sem!SnapshotIsStable
  BY SemInit, SemStep, PTL DEF Sem!GSpec, Sem!SnapshotIsStable

\* The bounds of the checking, for the types: they say how far the state goes.
SemanticBounds == MaxClock \in Nat \ {0} /\ MaxSlips \in Nat /\ MaxBroken \in Nat /\ MaxBoots \in Nat

\* A snapshot's instants are of the run.
Snapshot == [key : Keys, first : 1..MaxClock, at : 1..MaxClock]
Troubles == [slips : 0..MaxSlips, faults : 0..MaxBroken, starts : 0..MaxBoots]
\* A pending key has its instant.
SemanticOk == /\ Sem!TypeOK /\ snapshots \in Seq(Snapshot)
              /\ held.key # Sem!None => held.at >= 1

\* An observation takes snapshots of what was pending.
LEMMA ObservedTypes ==
    ASSUME SemanticBounds, SemanticOk, NEW key \in Keys \cup {Sem!None}, NEW gap \in 1 .. MaxStep,
           Sem!Observe(key, gap)
    PROVE  SemanticOk'
<1> DEFINE time == clock + gap
<1>1. /\ clock' = time /\ time \in 1..MaxClock /\ MaxClock \in Nat
      /\ held \in Sem!Held /\ last \in Sem!Held /\ watched \in Sem!Held
  BY DEF SemanticOk, Sem!TypeOK, Sem!Observe, SemanticBounds
<1>2. watched' \in Sem!Held
  BY <1>1 DEF Sem!Observe, Sem!Earlier, Sem!Held
<1>3. CASE key = Sem!None
  <2>1. held' = Sem!Never /\ UNCHANGED <<last, snapshots, troubles>>
    BY <1>3 DEF Sem!Observe, Sem!ResetPending
  <2>2. held' \in Sem!Held /\ held'.key = Sem!None
    BY <1>1, <2>1 DEF Sem!Never, Sem!Held
  <2> QED
    BY <1>1, <1>2, <2>1, <2>2 DEF SemanticOk, Sem!TypeOK
<1>4. CASE key # Sem!None
  <2>1. Sem!Eligible(key, time)
    BY <1>4 DEF Sem!Observe
  <2>2. CASE held' = [key |-> key, at |-> time] /\ UNCHANGED <<last, snapshots, troubles>>
    <3>1. held' \in Sem!Held /\ held'.at >= 1
      BY <1>1, <2>2 DEF Sem!Held
    <3> QED
      BY <1>1, <1>2, <2>2, <3>1 DEF SemanticOk, Sem!TypeOK
  <2>3. CASE key = held.key /\ UNCHANGED <<held, last, snapshots, troubles>>
    BY <1>1, <1>2, <2>3 DEF SemanticOk, Sem!TypeOK
  <2>4. CASE key = held.key /\ UNCHANGED held /\ Sem!Persist(key, time)
    <3>1. Sem!Row(key, time) \in Snapshot
      BY <1>1, <1>4, <2>4 DEF Sem!Row, Snapshot, SemanticOk, Sem!Held
    <3>2. snapshots' \in {snapshots, Append(snapshots, Sem!Row(key, time))}
      BY <2>4 DEF Sem!Persist
    <3>3. snapshots' \in Seq(Snapshot)
      <4>1. snapshots \in Seq(Snapshot)
        BY DEF SemanticOk
      <4> HIDE DEF Snapshot
      <4> QED
        BY <3>1, <3>2, <4>1
    <3>4. \A i \in DOMAIN snapshots' : snapshots'[i] \in Snapshot
      BY <3>3
    <3>5. last' \in Sem!Held
      BY <1>1, <2>4 DEF Sem!Persist, Sem!Held
    <3>6. troubles' \in [slips : 0..MaxSlips, faults : 0..MaxBroken, starts : 0..MaxBoots]
      BY <2>4 DEF Sem!Persist, SemanticOk, Sem!TypeOK, SemanticBounds
    <3> QED
      BY <1>1, <1>2, <2>4, <3>3, <3>4, <3>5, <3>6 DEF SemanticOk, Sem!TypeOK, Snapshot
  <2> QED
    BY <2>1, <2>2, <2>3, <2>4 DEF Sem!Eligible
<1> QED
  BY <1>3, <1>4

\* Every step of the service keeps its state within its types.
LEMMA SemanticTypes == ASSUME SemanticBounds, SemanticOk, [Sem!GNext]_(Sem!gvars) PROVE SemanticOk'
<1>0. /\ clock \in 1..MaxClock /\ MaxClock \in Nat /\ troubles \in Troubles
      /\ MaxSlips \in Nat /\ MaxBroken \in Nat /\ MaxBoots \in Nat
  BY DEF SemanticOk, Sem!TypeOK, SemanticBounds, Troubles
<1>1. ASSUME NEW key \in Keys \cup {Sem!None}, NEW gap \in 1..MaxStep, Sem!Observe(key, gap)
      PROVE  SemanticOk'
  BY <1>1, ObservedTypes
<1>2. CASE Sem!SlipBack
  <2>1. clock' \in 1..MaxClock
    BY <1>0, <1>2 DEF Sem!SlipBack
  <2>2. troubles' \in Troubles
    <3>1. troubles.slips < MaxSlips /\ troubles' = [troubles EXCEPT !.slips = troubles.slips + 1]
      BY <1>2 DEF Sem!SlipBack
    <3> QED
      BY ONLY <1>0, <3>1 DEF Troubles
  <2> QED
    BY <1>2, <2>1, <2>2, Zenon DEF Sem!SlipBack, SemanticOk, Sem!TypeOK, Troubles
<1>3. CASE Sem!Restart
  <2>1. troubles' \in Troubles
    <3>1. troubles.starts < MaxBoots /\ troubles' = [troubles EXCEPT !.starts = troubles.starts + 1]
      BY <1>3 DEF Sem!Restart
    <3> QED
      BY ONLY <1>0, <3>1 DEF Troubles
  <2>2. Sem!Never \in Sem!Held /\ Sem!Never.key = Sem!None
    BY <1>0 DEF Sem!Never, Sem!Held
  <2> QED
    BY <1>3, <2>1, <2>2, Zenon DEF Sem!Restart, SemanticOk, Sem!TypeOK, Troubles
<1>4. CASE UNCHANGED Sem!gvars
  BY <1>4 DEF Sem!gvars, SemanticOk, Sem!TypeOK
<1> QED
  BY <1>1, <1>2, <1>3, <1>4 DEF Sem!GNext

\* The service's snapshots, the key it holds and the one it watches stay within their
\* ranges: a pending key always has its instant, so no snapshot is written without.
THEOREM SegmentsTyped == ASSUME SemanticBounds PROVE Sem!GSpec => []Sem!TypeOK
<1>1. Sem!GInit => SemanticOk
  <2>1. <<>> \in Seq(Snapshot) /\ DOMAIN <<>> = {}
    OBVIOUS
  <2> QED
    BY <2>1 DEF Sem!GInit, SemanticOk, Sem!TypeOK, Sem!Never, Sem!Held, SemanticBounds
<1>2. SemanticOk => Sem!TypeOK
  BY DEF SemanticOk
<1> QED
  BY <1>1, <1>2, SemanticTypes, PTL DEF Sem!GSpec

-----------------------------------------------------------------------------
(***************************************************************************)
(* DistractionTracker. What is pending, and the event that is open, began  *)
(* no earlier than the first of the last samples that were all distracted; *)
(* a row that is written begins with one of the two.                       *)
(***************************************************************************)
CONSTANTS FailureThreshold, FailureWindow, RecoverySuccesses, DistractedFor, RecoveredFor,
          UnknownFor, DayEnds, MaxNow, MaxGap, MaxEvents, MaxFailing, MaxLaunches
VARIABLES now, currentDate, track, events, health, up, since, failing, launches

Dis == INSTANCE DistractionTracker
       WITH faults <- failing, starts <- launches, Midnight <- DayEnds, MaxFaults <- MaxFailing,
            MaxStarts <- MaxLaunches

DistractionBounds == DayEnds \in Int /\ MaxGap \in Int /\ DistractedFor \in Int

EventRow == [started : Int, ended : Int, length : Int]
Track == [pending : Int, unknown : Int, recovery : Int, missing : Int, excluded : Int, current : Int]

\* A tracker and rows that fit together at a time: what is pending began then at
\* the latest, and what is open began with it.
Fits(t, rows, time) ==
    /\ t \in Track /\ t.pending <= time
    /\ t.pending # 0 /\ t.current # 0 =>
         t.current \in 1 .. Len(rows) /\ rows[t.current].started = t.pending

\* What is pending began with the last distracted observations, or before a
\* midnight after which a write failed.
Begun(pending, first, time, failed) ==
    pending # 0 => \/ first # 0 /\ pending >= first
                   \/ failed > 0 /\ pending < DayEnds /\ DayEnds <= time

TrackInv ==
    /\ now \in Int /\ now > 0 /\ since \in Int /\ since <= now /\ failing \in Nat
    /\ events \in Seq(EventRow)
    /\ up => Fits(track, events, now) /\ Begun(track.pending, since, now, failing)

\* The time of what is not pending.
LEMMA ZeroIsInt == 0 \in Int
  OBVIOUS

\* A tracker stays one when fields change, and keeps the others.
LEMMA EditFacts ==
    ASSUME NEW t \in Track, NEW v \in Int, NEW w \in Int
    PROVE  /\ [t EXCEPT !.unknown = v, !.recovery = w] \in Track
           /\ [t EXCEPT !.unknown = v, !.recovery = w].pending = t.pending
           /\ [t EXCEPT !.unknown = v, !.recovery = w].current = t.current
           /\ [t EXCEPT !.excluded = v, !.missing = w] \in Track
           /\ [t EXCEPT !.excluded = v, !.missing = w].pending = t.pending
           /\ [t EXCEPT !.excluded = v, !.missing = w].current = t.current
<1> DEFINE u == [t EXCEPT !.unknown = v]
           e == [t EXCEPT !.excluded = v]
<1>1. u \in Track /\ u.pending = t.pending /\ u.current = t.current
  BY DEF Track
<1>2. e \in Track /\ e.pending = t.pending /\ e.current = t.current
  BY DEF Track
<1> HIDE DEF u, e
<1>3. /\ [u EXCEPT !.recovery = w] \in Track /\ [u EXCEPT !.recovery = w].pending = u.pending
      /\ [u EXCEPT !.recovery = w].current = u.current
  BY <1>1 DEF Track
<1>4. /\ [e EXCEPT !.missing = w] \in Track /\ [e EXCEPT !.missing = w].pending = e.pending
      /\ [e EXCEPT !.missing = w].current = e.current
  BY <1>2 DEF Track
<1>5. /\ [t EXCEPT !.unknown = v, !.recovery = w] = [u EXCEPT !.recovery = w]
      /\ [t EXCEPT !.excluded = v, !.missing = w] = [e EXCEPT !.missing = w]
  BY Zenon DEF u, e
<1> QED
  BY <1>1, <1>2, <1>3, <1>4, <1>5, Zenon

\* Dropping the open event keeps what is pending.
LEMMA DroppedFacts ==
    ASSUME NEW t \in Track
    PROVE  /\ Dis!Dropped(t) \in Track
           /\ Dis!Dropped(t).pending = t.pending /\ Dis!Dropped(t).current = 0
<1> DEFINE u == [t EXCEPT !.current = 0]
<1>1. u \in Track /\ u.pending = t.pending /\ u.current = 0
  BY DEF Track
<1> HIDE DEF u
<1>2. /\ [u EXCEPT !.missing = 0, !.excluded = 0] \in Track
      /\ [u EXCEPT !.missing = 0, !.excluded = 0].pending = u.pending
      /\ [u EXCEPT !.missing = 0, !.excluded = 0].current = u.current
  BY <1>1 DEF Track
<1>3. Dis!Dropped(t) = [u EXCEPT !.missing = 0, !.excluded = 0]
  BY Zenon DEF Dis!Dropped, u
<1> QED
  BY <1>1, <1>2, <1>3, Zenon

\* Nothing is pending at first.
LEMMA TrackInit == Dis!XInit => TrackInv
  BY DEF Dis!XInit, TrackInv, Fits, Track, Begun, Dis!Idle

\* A row written again stays a row and keeps its beginning.
LEMMA LongerFacts ==
    ASSUME NEW r \in EventRow, NEW ended \in Int, NEW d \in Int
    PROVE  LET new == [[r EXCEPT !.ended = ended] EXCEPT !.length = d]
           IN  new \in EventRow /\ new.started = r.started
  BY DEF EventRow

\* A row written again keeps its beginning.
LEMMA WrittenFacts ==
    ASSUME NEW rows \in Seq(EventRow), NEW t \in Track, NEW ended \in Int, NEW time \in Int
    PROVE  /\ Dis!Written(t, rows, ended, time) \in Seq(EventRow)
           /\ Len(Dis!Written(t, rows, ended, time)) = Len(rows)
           /\ \A i \in 1 .. Len(rows) : Dis!Written(t, rows, ended, time)[i].started = rows[i].started
<1> DEFINE c == t.current
           w == Dis!Written(t, rows, ended, time)
           d == Dis!Duration(t, rows[c], time)
<1>1. w = [rows EXCEPT ![c] = [[rows[c] EXCEPT !.ended = ended] EXCEPT !.length = d]]
  BY DEF Dis!Written
<1>2. DOMAIN rows = 1 .. Len(rows) /\ Len(rows) \in Nat
  OBVIOUS
<1>3. \A i \in 1 .. Len(rows) : rows[i] \in EventRow
  OBVIOUS
<1>4. CASE c \in 1 .. Len(rows)
  <2>1. rows[c] \in EventRow /\ rows[c].started \in Int
    BY <1>3, <1>4 DEF EventRow
  <2>2. d \in Int
    <3>1. t.excluded \in Int /\ t.missing \in Int
      BY DEF Track
    <3>2. \A n \in Int : (IF n > 0 THEN n ELSE 0) \in Int
      OBVIOUS
    <3> DEFINE o == IF t.missing = 0 THEN 0 ELSE time - t.missing
               n == time - rows[c].started - t.excluded - o
    <3>5. o \in Int
      BY <3>1
    <3> HIDE DEF o
    <3>3. n \in Int
      BY <2>1, <3>1, <3>5
    <3>4. d = IF n > 0 THEN n ELSE 0
      BY Zenon DEF Dis!Duration, o
    <3> HIDE DEF n, d
    <3> QED
      BY <3>2, <3>3, <3>4
  <2> DEFINE new == [[rows[c] EXCEPT !.ended = ended] EXCEPT !.length = d]
  <2> HIDE DEF d
  <2>3. new \in EventRow /\ new.started = rows[c].started
    BY <2>1, <2>2, LongerFacts
  <2>4. w = [rows EXCEPT ![c] = new]
    BY <1>1 DEF d
  <2> HIDE DEF new, w, EventRow, c
  <2>5. w \in Seq(EventRow) /\ Len(w) = Len(rows)
    BY <1>4, <2>3, <2>4
  <2>6. w[c] = new /\ \A i \in 1 .. Len(rows) : i # c => w[i] = rows[i]
    BY <1>2, <1>4, <2>4
  <2> QED
    BY <2>3, <2>5, <2>6 DEF w
<1>5. CASE c \notin 1 .. Len(rows)
  <2>1. w = rows
    BY <1>1, <1>2, <1>5
  <2> QED
    BY <2>1
<1> QED
  BY <1>4, <1>5

\* Every step writes rows that keep what was there, and gives away no event.
Follows(rows, before) ==
    /\ rows \in Seq(EventRow) /\ Len(rows) >= Len(before)
    /\ \A i \in 1 .. Len(before) : rows[i].started = before[i].started

\* A failed close may have written the row, begins nothing and is remembered,
LEMMA CloseFailsFacts ==
    ASSUME NEW rows \in Seq(EventRow), NEW t \in Track, NEW time \in Int, failing \in Nat,
           Dis!CloseFails(t, rows, time)
    PROVE  /\ track' = t /\ Follows(events', rows) /\ Len(events') = Len(rows)
           /\ failing' \in Nat /\ failing' > 0
<1>1. events' \in {rows, Dis!Written(t, rows, time, time)} /\ track' = t /\ failing' = failing + 1
  BY DEF Dis!CloseFails, Dis!Spend
<1> QED
  BY <1>1, WrittenFacts DEF Follows

\* a close that succeeds drops the event,
LEMMA CloseOpenFacts ==
    ASSUME NEW rows \in Seq(EventRow), NEW t \in Track, NEW time \in Int, failing \in Nat,
           Dis!CloseOpen(t, rows, time)
    PROVE  /\ track' = t \/ track' = Dis!Dropped(t)
           /\ Follows(events', rows) /\ Len(events') = Len(rows)
           /\ failing' \in Nat /\ failing' >= failing
<1>1. CASE track' = t /\ events' = rows /\ UNCHANGED failing
  BY <1>1 DEF Follows
<1>2. CASE track' = Dis!Dropped(t) /\ events' = Dis!Written(t, rows, time, time) /\ UNCHANGED failing
  <2> DEFINE w == Dis!Written(t, rows, time, time)
  <2>1. /\ w \in Seq(EventRow) /\ Len(w) = Len(rows)
        /\ \A i \in 1 .. Len(rows) : w[i].started = rows[i].started
    BY WrittenFacts
  <2>2. events' = w /\ track' = Dis!Dropped(t) /\ failing' = failing
    BY <1>2
  <2> HIDE DEF w
  <2>3. Follows(w, rows)
    BY <2>1 DEF Follows
  <2> QED
    BY <2>1, <2>2, <2>3
<1>3. CASE Dis!CloseFails(t, rows, time)
  <2>1. failing' = failing + 1
    BY <1>3 DEF Dis!CloseFails, Dis!Spend
  <2> QED
    BY <1>3, <2>1, CloseFailsFacts
<1> QED
  BY <1>1, <1>2, <1>3 DEF Dis!CloseOpen

\* an update changes no beginning,
LEMMA UpdateOpenFacts ==
    ASSUME NEW rows \in Seq(EventRow), NEW t \in Track, NEW time \in Int, failing \in Nat,
           Dis!UpdateOpen(t, rows, time)
    PROVE  /\ track' = t /\ Follows(events', rows) /\ Len(events') = Len(rows)
           /\ failing' \in Nat /\ failing' >= failing
  BY WrittenFacts DEF Dis!UpdateOpen, Dis!Spend, Follows

\* and a new row begins at what is pending.
LEMMA CreateFacts ==
    ASSUME NEW rows \in Seq(EventRow), NEW t \in Track, NEW time \in Int, failing \in Nat,
           Dis!Create(t, rows, time)
    PROVE  /\ Follows(events', rows) /\ failing' \in Nat /\ failing' >= failing
           /\ \/ track' = t /\ Len(events') = Len(rows)
              \/ /\ track' = [t EXCEPT !.current = Len(events')]
                 /\ Len(events') = Len(rows) + 1 /\ events'[Len(events')].started = t.pending
<1> DEFINE e == [started |-> t.pending, ended |-> 0, length |-> 0]
           made == Append(rows, e)
           opened == [t EXCEPT !.current = Len(made)]
<1>1. e \in EventRow /\ e.started = t.pending
  BY DEF EventRow, Track
<1> HIDE DEF e, EventRow
<1>2. /\ made \in Seq(EventRow) /\ Len(made) = Len(rows) + 1 /\ made[Len(rows) + 1] = e
      /\ \A i \in 1 .. Len(rows) : made[i] = rows[i]
  BY <1>1
<1>3. CASE track' = t /\ events' = rows /\ Dis!Spend
  BY <1>3 DEF Follows, Dis!Spend
<1>4. CASE Dis!UpdateOpen(opened, made, time)
  <2>1. opened \in Track
    BY DEF Track
  <2> HIDE DEF made
  <2>2. /\ track' = opened /\ Follows(events', made) /\ Len(events') = Len(made)
        /\ failing' \in Nat /\ failing' >= failing
    BY <1>2, <1>4, <2>1, UpdateOpenFacts
  <2>3. Len(events') = Len(rows) + 1 /\ Len(rows) \in Nat
    BY <1>2, <2>2
  <2>4. \A i \in 1 .. Len(made) : events'[i].started = made[i].started
    BY <2>2 DEF Follows
  <2>5. events'[Len(events')].started = t.pending
    BY <1>1, <1>2, <2>3, <2>4
  <2>6. Follows(events', rows)
    BY <1>2, <2>2, <2>3, <2>4 DEF Follows
  <2> QED
    BY <2>2, <2>3, <2>5, <2>6
<1> QED
  BY <1>3, <1>4 DEF Dis!Create, e

\* A step that leaves nothing pending.
LEMMA ClearedFacts ==
    ASSUME NEW rows \in Seq(EventRow), NEW t \in Track, NEW time \in Int, t.pending = 0,
           time >= 0, failing \in Nat,
           Dis!Only(t, rows) \/ Dis!CloseOpen(t, rows, time) \/ Dis!UpdateOpen(t, rows, time)
    PROVE  /\ Follows(events', rows) /\ Len(events') = Len(rows)
           /\ failing' \in Nat /\ failing' >= failing
           /\ Fits(track', events', time) /\ track'.pending = 0
<1>1. Len(rows) \in Nat /\ rows \in Seq(EventRow)
  OBVIOUS
<1>2. /\ track' = t \/ track' = Dis!Dropped(t)
      /\ Follows(events', rows) /\ Len(events') = Len(rows)
      /\ failing' \in Nat /\ failing' >= failing
  <2>1. CASE Dis!Only(t, rows)
    BY <1>1, <2>1 DEF Dis!Only, Follows
  <2>2. CASE Dis!CloseOpen(t, rows, time)
    BY <2>2, CloseOpenFacts
  <2>3. CASE Dis!UpdateOpen(t, rows, time)
    BY <2>3, UpdateOpenFacts
  <2> QED
    BY <2>1, <2>2, <2>3
<1>3. track' \in Track /\ track'.pending = 0
  BY <1>2, DroppedFacts
<1> QED
  BY <1>2, <1>3 DEF Fits

\* What is kept pending began as before.
LEMMA PendingKeeps ==
    ASSUME NEW time \in Int, now \in Int, now > 0, time > now, since \in Int, since <= now,
           DayEnds \in Int, failing \in Nat, failing' \in Nat, failing' >= failing,
           NEW p \in Int, Begun(p, since, now, failing), NEW outcome, NEW q,
           \/ q = 0
           \/ outcome = "distracted" /\ q = p
           \/ outcome = "distracted" /\ p = 0 /\ q = time,
           since' = IF outcome # "distracted" THEN 0 ELSE IF since = 0 THEN time ELSE since
    PROVE  Begun(q, since', time, failing')
  BY DEF Begun

\* What a classified sample at this time makes of the tracker: nothing is pending
\* any more, or what was and, after a distracted sample, what begins now.
LEMMA RelateFacts ==
    ASSUME DistractionBounds, NEW rows \in Seq(EventRow), NEW t \in Track, NEW time \in Int,
           failing \in Nat,
           time >= 0, Fits(t, rows, time), NEW relation, Dis!Relate(relation, t, rows, time)
    PROVE  /\ Follows(events', rows) /\ failing' \in Nat /\ failing' >= failing
           /\ Fits(track', events', time)
           /\ \/ track'.pending = 0
              \/ relation = "distracted" /\ track'.pending = t.pending
              \/ relation = "distracted" /\ t.pending = 0 /\ track'.pending = time
           /\ Len(events') > Len(rows) =>
                /\ relation = "distracted" /\ t.current = 0 /\ t.pending # 0
                /\ events'[Len(events')].started = t.pending
                /\ time - t.pending >= DistractedFor
<1>1. Len(rows) \in Nat
  OBVIOUS
<1>2. CASE relation = "distracted" /\ Dis!Distracted(t, rows, time)
  <2> DEFINE u == [t EXCEPT !.unknown = 0, !.recovery = 0]
  <2>1. u \in Track /\ u.pending = t.pending /\ u.current = t.current
    BY EditFacts, ZeroIsInt, ZenonT(60)
  <2>6. \/ t.current # 0 /\ Dis!UpdateOpen(u, rows, time)
        \/ t.current = 0 /\ t.pending = 0 /\ Dis!Only([u EXCEPT !.pending = time], rows)
        \/ /\ t.current = 0 /\ t.pending # 0
           /\ IF time - t.pending < DistractedFor THEN Dis!Only(u, rows) ELSE Dis!Create(u, rows, time)
    BY <1>2, <2>1, Zenon DEF Dis!Distracted
  <2> HIDE DEF u
  <2>2. Fits(u, rows, time)
    BY <2>1 DEF Fits
  <2>3. CASE t.current # 0 /\ Dis!UpdateOpen(u, rows, time)
    <3>1. /\ track' = u /\ Follows(events', rows) /\ Len(events') = Len(rows)
          /\ failing' \in Nat /\ failing' >= failing
      BY <2>1, <2>3, UpdateOpenFacts
    <3> QED
      BY <1>1, <1>2, <2>1, <2>2, <3>1 DEF Fits, Follows
  <2>4. CASE t.current = 0 /\ t.pending = 0 /\ Dis!Only([u EXCEPT !.pending = time], rows)
    <3>1. /\ track' = [u EXCEPT !.pending = time] /\ events' = rows /\ UNCHANGED failing
      BY <2>4 DEF Dis!Only
    <3>2. track' \in Track /\ track'.pending = time /\ track'.current = 0
      BY <2>1, <2>4, <3>1 DEF Track
    <3> QED
      BY <1>1, <1>2, <2>4, <3>1, <3>2 DEF Fits, Follows
  <2>5. CASE /\ t.current = 0 /\ t.pending # 0
             /\ IF time - t.pending < DistractedFor THEN Dis!Only(u, rows) ELSE Dis!Create(u, rows, time)
    <3>1. CASE time - t.pending < DistractedFor /\ Dis!Only(u, rows)
      BY <1>1, <1>2, <2>1, <2>2, <3>1 DEF Fits, Follows, Dis!Only
    <3>2. CASE ~(time - t.pending < DistractedFor) /\ Dis!Create(u, rows, time)
      <4>1. /\ Follows(events', rows) /\ failing' \in Nat /\ failing' >= failing
            /\ \/ track' = u /\ Len(events') = Len(rows)
               \/ /\ track' = [u EXCEPT !.current = Len(events')]
                  /\ Len(events') = Len(rows) + 1 /\ events'[Len(events')].started = t.pending
        BY <2>1, <3>2, CreateFacts
      <4>2. track' \in Track /\ track'.pending = t.pending
        BY <2>1, <4>1, SMTT(40) DEF Track
      <4>3. Fits(track', events', time)
        <5>1. CASE track' = u /\ Len(events') = Len(rows)
          BY <2>1, <2>2, <2>5, <4>2, <5>1 DEF Fits
        <5>2. CASE /\ track' = [u EXCEPT !.current = Len(events')]
                   /\ Len(events') = Len(rows) + 1 /\ events'[Len(events')].started = t.pending
          <6>1. track'.current = Len(events') /\ Len(events') \in 1 .. Len(events')
            BY <1>1, <2>1, <5>2 DEF Track
          <6> QED
            BY <2>2, <2>1, <4>2, <5>2, <6>1 DEF Fits
        <5> QED
          BY <4>1, <5>1, <5>2
      <4>4. t.pending \in Int /\ t.pending <= time
        BY DEF Fits, Track
      <4>5. ~(time - t.pending < DistractedFor) => time - t.pending >= DistractedFor
        BY <4>4 DEF DistractionBounds
      <4> QED
        BY <1>1, <1>2, <2>5, <3>2, <4>1, <4>2, <4>3, <4>5
    <3> QED
      BY <2>5, <3>1, <3>2
  <2> QED
    BY <2>3, <2>4, <2>5, <2>6
<1>3. CASE relation = "focused" /\ Dis!Focused(t, rows, time)
  <2> DEFINE w == Dis!PendingCleared(t)
             u == [w EXCEPT !.unknown = 0]
             v == [u EXCEPT !.recovery = time]
  <2>1. \/ Dis!Only(u, rows) \/ Dis!Only(v, rows)
        \/ Dis!CloseOpen(u, rows, time) \/ Dis!UpdateOpen(u, rows, time)
    BY <1>3, Zenon DEF Dis!Focused
  <2>2. w \in Track /\ w.pending = 0
    BY DEF Dis!PendingCleared, Track
  <2> HIDE DEF w
  <2>3. u \in Track /\ u.pending = 0
    BY <2>2 DEF Track
  <2> HIDE DEF u
  <2>4. v \in Track /\ v.pending = 0
    BY <2>3 DEF Track
  <2> HIDE DEF v
  <2> QED
    BY <1>3, <2>1, <2>3, <2>4, ClearedFacts
<1>4. CASE relation = "unknown" /\ Dis!Unknown(t, rows, time)
  <2> DEFINE w == Dis!PendingCleared(t)
             u == [w EXCEPT !.recovery = 0]
             v == [u EXCEPT !.unknown = time]
  <2>1. \/ Dis!Only(u, rows) \/ Dis!Only(v, rows)
        \/ Dis!CloseOpen(u, rows, time) \/ Dis!UpdateOpen(u, rows, time)
    BY <1>4, Zenon DEF Dis!Unknown
  <2>2. w \in Track /\ w.pending = 0
    BY DEF Dis!PendingCleared, Track
  <2> HIDE DEF w
  <2>3. u \in Track /\ u.pending = 0
    BY <2>2 DEF Track
  <2> HIDE DEF u
  <2>4. v \in Track /\ v.pending = 0
    BY <2>3 DEF Track
  <2> HIDE DEF v
  <2> QED
    BY <1>4, <2>1, <2>3, <2>4, ClearedFacts
<1> QED
  BY <1>2, <1>3, <1>4 DEF Dis!Relate

\* The tracker of a tick without a sample.
LEMMA QuietedFacts ==
    ASSUME NEW t \in Track PROVE Dis!Quieted(t) \in Track /\ Dis!Quieted(t).pending = 0
<1> DEFINE w == Dis!PendingCleared(t)
<1>1. w \in Track /\ w.pending = 0
  BY DEF Dis!PendingCleared, Track
<1>2. Dis!Quieted(t) = [w EXCEPT !.unknown = 0, !.recovery = 0]
  BY Zenon DEF Dis!Quieted
<1> HIDE DEF w
<1> QED
  BY <1>1, <1>2 DEF Track

\* The tracker of a sample.
LEMMA SampledFacts ==
    ASSUME NEW time \in Int, track \in Track
    PROVE  /\ Dis!Sampled(track, time) \in Track
           /\ Dis!Sampled(track, time).pending = track.pending
           /\ Dis!Sampled(track, time).current = track.current
<1> DEFINE outage == track.excluded + (time - track.missing)
<1>1. outage \in Int
  BY DEF Track
<1> HIDE DEF outage
<1>2. /\ [track EXCEPT !.excluded = outage, !.missing = 0] \in Track
      /\ [track EXCEPT !.excluded = outage, !.missing = 0].pending = track.pending
      /\ [track EXCEPT !.excluded = outage, !.missing = 0].current = track.current
  BY <1>1, EditFacts, ZeroIsInt, ZenonT(60)
<1>4. CASE track.missing = 0
  BY <1>4 DEF Dis!Sampled
<1>5. CASE track.missing # 0
  <2>1. Dis!Sampled(track, time) = [track EXCEPT !.excluded = outage, !.missing = 0]
    BY <1>5 DEF Dis!Sampled, outage
  <2> QED
    BY <1>2, <2>1, Zenon
<1> QED
  BY <1>4, <1>5

\* What is known of a tick: its observation, and which were distracted until then.
LEMMA ObserveStep ==
    ASSUME DistractionBounds, TrackInv, up, NEW time \in Int, time > now, NEW outcome,
           Dis!Observe(outcome, time),
           now' = time,
           since' = IF outcome # "distracted" THEN 0 ELSE IF since = 0 THEN time ELSE since
    PROVE  /\ Follows(events', events) /\ failing' \in Nat
           /\ Fits(track', events', time) /\ Begun(track'.pending, since', time, failing')
           /\ Dis!NewEventIsLong
<1>1. /\ Fits(track, events, now) /\ Begun(track.pending, since, now, failing) /\ track \in Track
      /\ events \in Seq(EventRow) /\ failing \in Nat /\ now \in Int /\ now > 0 /\ since \in Int
      /\ since <= now
      /\ Len(events) \in Nat /\ DayEnds \in Int /\ track.pending \in Int /\ track.pending <= now
  BY DEF TrackInv, Fits, Track, DistractionBounds
<1>2. CASE outcome = "away" /\ Dis!CloseOpen(Dis!Quieted(track), events, time)
  <2>1. Dis!Quieted(track) \in Track /\ Dis!Quieted(track).pending = 0
    BY <1>1, QuietedFacts
  <2>2. /\ Follows(events', events) /\ failing' \in Nat /\ Fits(track', events', time)
        /\ track'.pending = 0 /\ Len(events') = Len(events)
    BY <1>1, <1>2, <2>1, ClearedFacts
  <2> QED
    BY <1>1, <2>2 DEF Begun, Dis!NewEventIsLong
<1>3. CASE /\ outcome = "stale"
           /\ Dis!Only([Dis!Quieted(track) EXCEPT !.missing =
                      IF track.current # 0 /\ @ = 0 THEN time ELSE @], events)
  <2> DEFINE u == [Dis!Quieted(track) EXCEPT !.missing =
                      IF track.current # 0 /\ @ = 0 THEN time ELSE @]
  <2>0. /\ Dis!Quieted(track) \in Track /\ Dis!Quieted(track).pending = 0
        /\ Dis!Quieted(track).missing \in Int
    BY <1>1, QuietedFacts DEF Track
  <2>1. u \in Track /\ u.pending = 0
    BY <2>0 DEF Track
  <2> HIDE DEF u
  <2>2. Dis!Only(u, events)
    BY <1>3 DEF u
  <2>3. /\ Follows(events', events) /\ failing' \in Nat /\ Fits(track', events', time)
        /\ track'.pending = 0 /\ Len(events') = Len(events)
    BY <1>1, <2>1, <2>2, ClearedFacts
  <2> QED
    BY <1>1, <2>3 DEF Begun, Dis!NewEventIsLong
<1>4. CASE outcome \in Dis!Relations /\ Dis!Related(outcome, time)
  <2> DEFINE t == Dis!Sampled(track, time)
             w == Dis!Written(t, events, time, time)
             old == t.current # 0 /\ Dis!Day(events[t.current].started) # Dis!Day(time)
  <2>1. /\ t \in Track /\ t.pending = track.pending /\ t.current = track.current
    BY <1>1, SampledFacts
  <2> HIDE DEF t
  <2>2. Fits(t, events, time)
    BY <1>1, <2>1 DEF Fits
  <2>9. time >= 0 /\ time > now /\ time \in Int
    BY <1>1
  <2>3. CASE ~old /\ Dis!Relate(outcome, t, events, time)
    <3>1. /\ Follows(events', events) /\ failing' \in Nat /\ failing' >= failing
          /\ Fits(track', events', time)
          /\ \/ track'.pending = 0
             \/ outcome = "distracted" /\ track'.pending = t.pending
             \/ outcome = "distracted" /\ t.pending = 0 /\ track'.pending = time
          /\ Len(events') > Len(events) =>
               /\ outcome = "distracted" /\ t.current = 0 /\ t.pending # 0
               /\ events'[Len(events')].started = t.pending
               /\ time - t.pending >= DistractedFor
      BY <1>1, <2>1, <2>2, <2>3, <2>9, RelateFacts
    <3>2. Begun(track'.pending, since', time, failing')
      <4>1. \/ track'.pending = 0
            \/ outcome = "distracted" /\ track'.pending = track.pending
            \/ outcome = "distracted" /\ track.pending = 0 /\ track'.pending = time
        BY <2>1, <3>1
      <4>2. DayEnds \in Int /\ failing' \in Nat /\ failing' >= failing
        BY <1>1, <3>1
      <4> QED
        BY <1>1, <2>9, <4>1, <4>2 DEF Begun
    <3>3. ASSUME track.current = 0, Len(events') > Len(events) PROVE Dis!NewEventIsLong
      <4>1. /\ outcome = "distracted" /\ track.pending # 0
            /\ events'[Len(events')].started = track.pending
            /\ time - track.pending >= DistractedFor
        BY <2>1, <3>1, <3>3
      <4>2. CASE since # 0 /\ track.pending >= since
        BY <4>1, <4>2 DEF Dis!NewEventIsLong
      <4>3. CASE failing > 0 /\ track.pending < DayEnds /\ DayEnds <= now
        <5>1. failing # 0 /\ Dis!Day(track.pending) = 0 /\ Dis!Day(time) = 1
          BY <1>1, <4>3 DEF Dis!Day
        <5> QED
          BY <4>1, <5>1 DEF Dis!NewEventIsLong
      <4> QED
        BY <1>1, <4>1, <4>2, <4>3 DEF Begun
    <3> QED
      BY <3>1, <3>2, <3>3 DEF Dis!NewEventIsLong
  <2>4. CASE old /\ Dis!Relate(outcome, Dis!Dropped(t), w, time)
    <3>1. /\ w \in Seq(EventRow) /\ Len(w) = Len(events)
          /\ \A i \in 1 .. Len(events) : w[i].started = events[i].started
      BY <1>1, <2>1, WrittenFacts
    <3>2. Dis!Dropped(t) \in Track /\ Dis!Dropped(t).pending = t.pending /\ Dis!Dropped(t).current = 0
      BY <2>1, DroppedFacts
    <3>3. Fits(Dis!Dropped(t), w, time)
      BY <2>2, <3>2 DEF Fits
    <3> HIDE DEF w
    <3>4. /\ Follows(events', w) /\ failing' \in Nat /\ failing' >= failing
          /\ Fits(track', events', time)
          /\ \/ track'.pending = 0
             \/ outcome = "distracted" /\ track'.pending = t.pending
             \/ outcome = "distracted" /\ t.pending = 0 /\ track'.pending = time
      BY <1>1, <2>4, <2>9, <3>1, <3>2, <3>3, RelateFacts
    <3>5. Follows(events', events)
      BY <1>1, <3>1, <3>4 DEF Follows
    <3>6. Begun(track'.pending, since', time, failing')
      <4>1. \/ track'.pending = 0
            \/ outcome = "distracted" /\ track'.pending = track.pending
            \/ outcome = "distracted" /\ track.pending = 0 /\ track'.pending = time
        BY <2>1, <3>4
      <4>2. DayEnds \in Int /\ failing' \in Nat /\ failing' >= failing
        BY <1>1, <3>4
      <4> QED
        BY <1>1, <2>9, <4>1, <4>2 DEF Begun
    <3> QED
      BY <2>1, <2>4, <3>4, <3>5, <3>6 DEF Dis!NewEventIsLong
  <2>5. CASE old /\ Dis!CloseFails(t, events, time)
    <3>1. /\ track' = t /\ Follows(events', events) /\ Len(events') = Len(events)
          /\ failing' \in Nat /\ failing' > 0
      BY <1>1, <2>1, <2>5, CloseFailsFacts
    <3>2. Fits(track', events', time)
      BY <1>1, <2>2, <3>1 DEF Fits, Follows
    <3>3. Begun(track'.pending, since', time, failing')
      <4>1. ASSUME t.pending # 0 PROVE t.pending < DayEnds /\ DayEnds <= time
        <5>1. events[t.current].started = t.pending
          BY <2>2, <2>5, <4>1 DEF Fits
        <5>2. Dis!Day(t.pending) # Dis!Day(time) /\ t.pending <= time /\ t.pending \in Int
          BY <1>1, <2>1, <2>2, <2>5, <5>1 DEF Fits
        <5> QED
          BY <1>1, <5>2 DEF Dis!Day
      <4> QED
        BY <3>1, <4>1 DEF Begun
    <3> QED
      BY <2>1, <2>5, <3>1, <3>2, <3>3 DEF Dis!NewEventIsLong
  <2> QED
    BY <1>4, <2>3, <2>4, <2>5 DEF Dis!Related, t
<1> QED
  BY <1>2, <1>3, <1>4 DEF Dis!Observe

\* Of the open rows one is the newest.
LEMMA NewestFact ==
    ASSUME events \in Seq(EventRow), Dis!OpenRows # {}
    PROVE  Dis!Newest \in 1 .. Len(events)
<1>1. Len(events) \in Nat /\ DOMAIN events = 1 .. Len(events)
  OBVIOUS
<1>2. \A i \in 1 .. Len(events) : events[i].started \in Int
  <2>1. \A i \in 1 .. Len(events) : events[i] \in EventRow
    OBVIOUS
  <2> QED
    BY <2>1 DEF EventRow
<1>3. Dis!OpenRows \subseteq 1 .. Len(events)
  BY <1>1 DEF Dis!OpenRows
<1> DEFINE f == [i \in Dis!OpenRows |-> events[i].started]
<1>4. \A i \in Dis!OpenRows : f[i] \in Int /\ f[i] = events[i].started
  BY <1>2, <1>3
<1> HIDE DEF f
<1>5. \E i \in Dis!OpenRows : \A j \in Dis!OpenRows : f[j] <= f[i]
  BY <1>1, <1>3, <1>4, GreatestOf
<1>6. \E i \in Dis!OpenRows : \A j \in Dis!OpenRows : events[j].started <= events[i].started
  BY <1>4, <1>5
<1>7. Dis!Newest \in Dis!OpenRows
  BY <1>6 DEF Dis!Newest
<1> QED
  BY <1>1, <1>3, <1>7

\* Every step of DistractionTracker keeps the invariant, and begins only long events.
LEMMA TrackStep ==
    ASSUME DistractionBounds, TrackInv, [Dis!XNext]_Dis!xvars
    PROVE  TrackInv' /\ [Dis!NewEventIsLong]_Dis!xvars
<1>1. /\ events \in Seq(EventRow) /\ failing \in Nat /\ now \in Int /\ now > 0
      /\ since \in Int /\ since <= now /\ Len(events) \in Nat
  BY DEF TrackInv
<1>2. ASSUME NEW sample \in Dis!Samples, NEW gap \in 1 .. MaxGap, Dis!Tick(sample, gap)
      PROVE  TrackInv' /\ Dis!NewEventIsLong
  <2> DEFINE time == now + gap
  <2>1. gap \in Int /\ gap >= 1
    BY DEF DistractionBounds
  <2>2. time \in Int /\ time > now /\ time > 0
    BY <1>1, <2>1
  <2>3. up /\ up' = up /\ now' = time
    BY <1>2 DEF Dis!Tick
  <2>4. PICK outcome \in Dis!Outcomes(sample, Dis!Observed(health, time, sample # "none"), time) :
          /\ Dis!Observe(outcome, time)
          /\ since' = IF outcome # "distracted" THEN 0 ELSE IF since = 0 THEN time ELSE since
    BY <1>2 DEF Dis!Tick
  <2> HIDE DEF time
  <2>5. /\ Follows(events', events) /\ failing' \in Nat
        /\ Fits(track', events', time) /\ Begun(track'.pending, since', time, failing')
        /\ Dis!NewEventIsLong
    BY <2>2, <2>3, <2>4, ObserveStep
  <2>6. since' \in Int /\ since' <= time
    BY <1>1, <2>2, <2>4
  <2> QED
    BY <2>2, <2>3, <2>5, <2>6 DEF TrackInv, Follows
<1>3. ASSUME NEW gap \in 1 .. MaxGap, Dis!Start(gap) PROVE TrackInv' /\ Dis!NewEventIsLong
  <2>1. gap \in Int /\ gap >= 1
    BY DEF DistractionBounds
  <2>2. now' = now + gap /\ UNCHANGED <<events, since>>
    BY <1>3 DEF Dis!Start
  <2>3. track' \in Track /\ track'.pending = 0
    <3>1. Dis!OpenRows # {} => Dis!Newest \in Int
      BY <1>1, NewestFact
    <3> QED
      BY <1>3, <3>1 DEF Dis!Start, Track, Dis!Idle
  <2>4. failing' \in Nat
    BY <1>1, <1>3 DEF Dis!Start, Dis!Spend
  <2> QED
    BY <1>1, <2>1, <2>2, <2>3, <2>4 DEF TrackInv, Fits, Begun, Dis!NewEventIsLong
<1>7. ASSUME NEW gap \in 1 .. MaxGap, Dis!Study(gap) PROVE TrackInv' /\ Dis!NewEventIsLong
  <2>1. gap \in Int /\ gap >= 1
    BY DEF DistractionBounds
  <2>2. up /\ now' = now + gap /\ UNCHANGED <<track, events, up, since, failing>>
    BY <1>7 DEF Dis!Study
  <2>3. now' \in Int /\ now' > now
    BY <1>1, <2>1, <2>2
  <2>4. Fits(track, events, now) /\ Begun(track.pending, since, now, failing) /\ DayEnds \in Int
    BY <2>2 DEF TrackInv, DistractionBounds
  <2>5. Fits(track, events, now') /\ Begun(track.pending, since, now', failing)
    BY <1>1, <2>3, <2>4 DEF Fits, Begun, Track
  <2> QED
    BY <1>1, <2>2, <2>3, <2>5 DEF TrackInv, Dis!NewEventIsLong
<1>4. CASE Dis!Shutdown
  <2>1. up /\ up' = FALSE /\ since' = 0 /\ now' = now /\ Dis!CloseOpen(track, events, now)
    BY <1>4 DEF Dis!Shutdown
  <2>2. track \in Track
    BY <2>1 DEF TrackInv, Fits
  <2>3. Follows(events', events) /\ Len(events') = Len(events) /\ failing' \in Nat
    BY <1>1, <2>1, <2>2, CloseOpenFacts
  <2> QED
    BY <1>1, <2>1, <2>3 DEF TrackInv, Follows, Dis!NewEventIsLong
<1>5. CASE Dis!Crash
  BY <1>1, <1>5 DEF Dis!Crash, TrackInv, Dis!NewEventIsLong
<1>6. CASE UNCHANGED Dis!xvars
  BY <1>6 DEF Dis!xvars, TrackInv, Fits, Begun, Track
<1> QED
  BY <1>2, <1>3, <1>4, <1>5, <1>6, <1>7 DEF Dis!XNext

\* A new event means that every observation of at least DistractedFor was distracted.
THEOREM ShortSwitchesPass == ASSUME DistractionBounds PROVE Dis!XSpec => Dis!ShortSwitchIsNoEvent
<1>1. TrackInv /\ [Dis!XNext]_Dis!xvars => TrackInv' /\ [Dis!NewEventIsLong]_Dis!xvars
  BY TrackStep
<1> QED
  BY <1>1, TrackInit, PTL DEF Dis!XSpec, Dis!ShortSwitchIsNoEvent

\* The bounds of the tracker's types.
EventBounds == /\ FailureThreshold \in Nat /\ RecoverySuccesses \in Nat
               /\ MaxNow \in Nat \ {0} /\ MaxGap \in Nat /\ MaxEvents \in Nat
               /\ MaxFailing \in Nat /\ MaxLaunches \in Nat \ {0}

\* The instants of the run, the rows and the times of the track.
Instants == 0..MaxNow
BoundedRow == [started : 1..MaxNow, ended : Instants, length : Instants]
Clocks == [pending : Instants, unknown : Instants, recovery : Instants, missing : Instants,
           excluded : Instants, current : Nat]
\* The outages of an event are over by now, or when the present one began.
Clocked(t, time) ==
    /\ t \in Clocks /\ t.missing <= time
    /\ t.excluded <= IF t.missing = 0 THEN time ELSE t.missing
Fine(t, rows, time) ==
    /\ Clocked(t, time) /\ rows \in Seq(BoundedRow)
    /\ t.current \in 0..Len(rows) /\ Len(rows) <= MaxEvents
\* What a write leaves: the track and the rows in order, and no more failures than there may be.
Stored(time) == Fine(track', events', time) /\ failing' \in 0..MaxFailing

\* What the health of the storage holds.
HealthSet == [failures : 0..FailureThreshold, successes : 0..RecoverySuccesses,
           since : Instants, stable : BOOLEAN, phase : Dis!Phases]

\* A record of the debouncer, field by field,
LEMMA HealthRecord ==
    ASSUME NEW a \in 0..FailureThreshold, NEW b \in 0..RecoverySuccesses, NEW c \in Instants,
           NEW d \in BOOLEAN, NEW e \in Dis!Phases
    PROVE  [failures |-> a, successes |-> b, since |-> c, stable |-> d, phase |-> e] \in HealthSet
  BY Zenon DEF HealthSet

\* A change of one of its fields is such a record,
LEMMA HealthEdits ==
    ASSUME NEW h \in HealthSet, NEW a \in 0..FailureThreshold, NEW n \in 0..RecoverySuccesses,
           NEW p \in Dis!Phases
    PROVE  [h EXCEPT !.failures = a, !.successes = n, !.phase = p] \in HealthSet
  BY Zenon DEF HealthSet

\* a count that stops at its threshold is in range,
LEMMA HealthCount ==
    ASSUME NEW h \in HealthSet, NEW n \in 0..RecoverySuccesses
    PROVE  [h EXCEPT !.successes = n] \in HealthSet
  BY Zenon DEF HealthSet

\* and so is a healthy start.
LEMMA HealthyType == ASSUME EventBounds PROVE Dis!Healthy \in HealthSet /\ 0 \in 0..FailureThreshold
<1>1. 0 \in Instants /\ 0 \in 0..FailureThreshold /\ 0 \in 0..RecoverySuccesses
      /\ "AVAILABLE" \in Dis!Phases
  BY DEF EventBounds, Instants, Dis!Phases
<1>2. TRUE \in BOOLEAN
  OBVIOUS
<1> QED
  BY <1>1, <1>2, HealthRecord, Zenon DEF Dis!Healthy

\* The availability of ActivityWatch keeps its type.
LEMMA HealthTypes ==
    ASSUME EventBounds, NEW h \in HealthSet, NEW time \in Instants, NEW success
    PROVE  Dis!Observed(h, time, success) \in HealthSet
<1>1. \A n \in Nat, l \in Nat : Dis!AtMost(n, l) \in 0..l
  BY DEF Dis!AtMost
<1>4. h.failures + 1 \in Nat /\ h.successes + 1 \in Nat /\ h.since \in Instants /\ h.phase \in Dis!Phases
  BY DEF HealthSet
<1>5. FailureThreshold \in Nat /\ RecoverySuccesses \in Nat /\ 0 \in 0..RecoverySuccesses
  BY DEF EventBounds
<1>2. CASE success
  <2> DEFINE n == Dis!AtMost(h.successes + 1, RecoverySuccesses)
             p == IF h.stable THEN h.phase ELSE "DEGRADED"
  <2>1. n \in 0..RecoverySuccesses
    BY <1>1, <1>4, <1>5
  <2>2. p \in Dis!Phases /\ "AVAILABLE" \in Dis!Phases
    BY <1>4 DEF Dis!Phases
  <2>3. Dis!Succeeded(h) \in {[Dis!Healthy EXCEPT !.successes = n],
                              [h EXCEPT !.failures = 0, !.successes = n, !.phase = p]}
    <3>1. [h EXCEPT !.failures = 0, !.successes = n,
                    !.phase = IF h.stable THEN @ ELSE "DEGRADED"]
          = [h EXCEPT !.failures = 0, !.successes = n, !.phase = p]
      BY DEF HealthSet
    <3> QED
      BY <3>1, Zenon DEF Dis!Succeeded
  <2> HIDE DEF n, p
  <2>4. [Dis!Healthy EXCEPT !.successes = n] \in HealthSet
    BY <2>1, HealthyType, HealthCount, Zenon
  <2>5. [h EXCEPT !.failures = 0, !.successes = n, !.phase = p] \in HealthSet
    BY <2>1, <2>2, HealthyType, HealthEdits, Zenon
  <2> QED
    BY <1>2, <2>3, <2>4, <2>5 DEF Dis!Observed
<1>3. CASE ~success
  <2> DEFINE n == Dis!AtMost(h.failures + 1, FailureThreshold)
             first == IF h.since = 0 THEN time ELSE h.since
             lost == ~h.stable \/ n >= FailureThreshold \/ time - first >= FailureWindow
             ok == ~lost
             p == IF lost THEN "UNAVAILABLE" ELSE "DEGRADED"
  <2>1. n \in 0..FailureThreshold
    BY <1>1, <1>4, <1>5
  <2>2. first \in Instants
    BY <1>4
  <2>3. ok \in BOOLEAN
    BY Zenon
  <2>4. p \in Dis!Phases
    BY DEF Dis!Phases
  <2>5. Dis!Failed(h, time) = [failures |-> n, successes |-> 0, since |-> first, stable |-> ok,
                               phase |-> p]
    BY Zenon DEF Dis!Failed
  <2> HIDE DEF n, first, lost, ok, p
  <2>7. Dis!Failed(h, time) \in HealthSet
    BY <2>1, <2>2, <2>3, <2>4, <2>5, <1>5, HealthRecord, Zenon
  <2> QED
    BY <1>3, <2>7 DEF Dis!Observed
<1> QED
  BY <1>2, <1>3

\* A row written again stays within the bounds.
LEMMA WrittenBounded ==
    ASSUME EventBounds, NEW t, NEW rows, NEW time \in Instants, Fine(t, rows, time),
           NEW ended \in Instants
    PROVE  /\ Dis!Written(t, rows, ended, time) \in Seq(BoundedRow)
           /\ Len(Dis!Written(t, rows, ended, time)) = Len(rows)
<1> DEFINE c == t.current
           w == Dis!Written(t, rows, ended, time)
           d == Dis!Duration(t, rows[c], time)
<1>0. rows \in Seq(BoundedRow) /\ Len(rows) \in Nat /\ DOMAIN rows = 1 .. Len(rows)
  BY DEF Fine
<1>1. w = [rows EXCEPT ![c] = [[rows[c] EXCEPT !.ended = ended] EXCEPT !.length = d]]
  BY DEF Dis!Written
<1>2. CASE c \in 1 .. Len(rows)
  <2>1. rows[c] \in BoundedRow
    BY <1>0, <1>2
  <2>2. d \in Instants
    <3> DEFINE o == IF t.missing = 0 THEN 0 ELSE time - t.missing
               n == time - rows[c].started - t.excluded - o
    <3>1. o \in Nat
      BY DEF Fine, Clocked, Clocks, Instants, EventBounds
    <3>2. rows[c].started \in Nat
      BY <2>1 DEF BoundedRow, EventBounds
    <3>5. t.excluded \in Nat
      BY DEF Fine, Clocked, Clocks, Instants, EventBounds
    <3> HIDE DEF o
    <3>3. n \in Int /\ n <= time
      BY <3>1, <3>2, <3>5 DEF Instants, EventBounds
    <3>4. d = IF n > 0 THEN n ELSE 0
      BY Zenon DEF Dis!Duration, o
    <3> HIDE DEF n, d
    <3> QED
      BY <3>3, <3>4 DEF Instants, EventBounds
  <2> DEFINE new == [[rows[c] EXCEPT !.ended = ended] EXCEPT !.length = d]
  <2> HIDE DEF d
  <2>3. new \in BoundedRow
    BY <2>1, <2>2 DEF BoundedRow
  <2>4. w = [rows EXCEPT ![c] = new]
    BY <1>1 DEF d
  <2> HIDE DEF new, w, c, BoundedRow
  <2> QED
    BY <1>0, <1>2, <2>3, <2>4 DEF w
<1>3. CASE c \notin 1 .. Len(rows)
  <2>1. w = rows
    BY <1>0, <1>1, <1>3
  <2> QED
    BY <1>0, <2>1
<1> QED
  BY <1>2, <1>3

\* A tracker without its event.
LEMMA DroppedBounded ==
    ASSUME EventBounds, NEW t, NEW time \in Instants, Clocked(t, time)
    PROVE  Clocked(Dis!Dropped(t), time) /\ Dis!Dropped(t).current = 0
<1>1. 0 \in Instants /\ 0 \in Nat /\ time \in Nat
  BY DEF Instants, EventBounds
<1> DEFINE d == Dis!Dropped(t)
<1>2. d \in Clocks /\ d.current = 0 /\ d.missing = 0 /\ d.excluded = 0
  BY <1>1 DEF Dis!Dropped, Clocked, Clocks
<1> HIDE DEF d
<1>3. Clocked(d, time)
  BY <1>1, <1>2 DEF Clocked
<1> QED
  BY <1>2, <1>3 DEF d

\* The steps of Observe.
LEMMA WritesBounded ==
    ASSUME EventBounds, NEW t, NEW rows, NEW time \in Instants, Fine(t, rows, time),
           failing \in 0..MaxFailing,
           \/ Dis!Only(t, rows) \/ Dis!UpdateOpen(t, rows, time)
           \/ Dis!CloseOpen(t, rows, time) \/ Dis!CloseFails(t, rows, time)
    PROVE  Stored(time)
<1> DEFINE w == Dis!Written(t, rows, time, time)
           u == Dis!Written(t, rows, 0, time)
           d == Dis!Dropped(t)
<1>1. 0 \in Instants
  BY DEF Instants, EventBounds
<1>2. Fine(t, w, time) /\ Fine(t, u, time) /\ Fine(d, w, time)
  <2>1. w \in Seq(BoundedRow) /\ Len(w) = Len(rows) /\ u \in Seq(BoundedRow) /\ Len(u) = Len(rows)
    BY <1>1, WrittenBounded
  <2>2. Clocked(d, time) /\ d.current = 0 /\ Len(rows) \in Nat
    BY DroppedBounded, SMTT(30) DEF Fine
  <2> HIDE DEF w, u, d
  <2> QED
    BY <2>1, <2>2 DEF Fine
<1> HIDE DEF w, u, d
<1>3. /\ \/ track' = t /\ events' \in {rows, w, u}
         \/ track' = d /\ events' = w
      /\ failing' = failing \/ (failing < MaxFailing /\ failing' = failing + 1)
  <2>1. CASE Dis!Only(t, rows)
    BY <2>1 DEF Dis!Only
  <2>2. CASE Dis!UpdateOpen(t, rows, time)
    BY <2>2 DEF Dis!UpdateOpen, Dis!Spend, u
  <2>3. ASSUME Dis!CloseFails(t, rows, time)
        PROVE  /\ track' = t /\ events' \in {rows, w}
               /\ failing < MaxFailing /\ failing' = failing + 1
    BY <2>3 DEF Dis!CloseFails, Dis!Spend, w
  <2>4. CASE Dis!CloseOpen(t, rows, time)
    BY <2>3, <2>4 DEF Dis!CloseOpen, d, w
  <2> QED
    BY <2>1, <2>2, <2>3, <2>4
<1> QED
  BY <1>2, <1>3 DEF Stored, EventBounds

\* A new event is in order.
LEMMA CreateBounded ==
    ASSUME EventBounds, NEW t, NEW rows, NEW time \in Instants, Fine(t, rows, time), t.pending # 0,
           failing \in 0..MaxFailing, Dis!Create(t, rows, time)
    PROVE  Stored(time)
<1> DEFINE e == [started |-> t.pending, ended |-> 0, length |-> 0]
           made == Append(rows, e)
           opened == [t EXCEPT !.current = Len(made)]
<1>1. e \in BoundedRow
  BY DEF Fine, Clocked, Clocks, BoundedRow, Instants, EventBounds
<1>2. rows \in Seq(BoundedRow) /\ Len(rows) < MaxEvents
  BY DEF Fine, Dis!Create
<1> HIDE DEF e
<1>3. made \in Seq(BoundedRow) /\ Len(made) = Len(rows) + 1
  <2> HIDE DEF BoundedRow
  <2> QED
    BY <1>1, <1>2
<1>4. Dis!UpdateOpen(opened, made, time) \/ Dis!Only(t, rows) \/ (track' = t /\ events' = rows /\ Dis!Spend)
  BY DEF Dis!Create, e
<1> HIDE DEF made
<1>5. Clocked(opened, time) /\ opened.current = Len(made)
  BY <1>3, SMTT(30) DEF Fine, Clocked, Clocks
<1>6. Len(rows) \in Nat
  BY <1>2
<1> HIDE DEF opened
<1>7. Fine(opened, made, time)
  BY <1>2, <1>3, <1>5, <1>6 DEF Fine, EventBounds
<1>8. CASE Dis!UpdateOpen(opened, made, time)
  BY <1>7, <1>8, WritesBounded
<1>9. CASE Dis!Only(t, rows)
  BY <1>9, WritesBounded
<1>10. CASE track' = t /\ events' = rows /\ Dis!Spend
  BY <1>10 DEF Stored, Dis!Spend, EventBounds
<1> QED
  BY <1>4, <1>8, <1>9, <1>10

\* Edits of a tracker by instants that have come.
LEMMA EditsClocked ==
    ASSUME EventBounds, NEW t, NEW time \in Instants, Clocked(t, time), NEW v \in Instants
    PROVE  /\ Clocked([t EXCEPT !.pending = v], time) /\ [t EXCEPT !.pending = v].current = t.current
           /\ Clocked([t EXCEPT !.unknown = v], time) /\ [t EXCEPT !.unknown = v].current = t.current
           /\ Clocked([t EXCEPT !.recovery = v], time) /\ [t EXCEPT !.recovery = v].current = t.current
           /\ [t EXCEPT !.unknown = v].pending = t.pending
           /\ [t EXCEPT !.recovery = v].pending = t.pending
  BY DEF Clocked, Clocks

\* A step on an edited tracker.
LEMMA EditedFine ==
    ASSUME NEW t, NEW u, NEW rows, NEW time, Fine(t, rows, time), Clocked(u, time), u.current = t.current
    PROVE  Fine(u, rows, time)
  BY DEF Fine

\* A tracker that recovers or loses sight of the screen, step by step.
LEMMA QuietSteps ==
    ASSUME EventBounds, NEW t, NEW rows, NEW time \in Instants, Fine(t, rows, time)
    PROVE  /\ Fine(Dis!PendingCleared(t), rows, time)
           /\ Fine([t EXCEPT !.unknown = 0], rows, time) /\ [t EXCEPT !.unknown = 0].pending = t.pending
           /\ Fine([t EXCEPT !.recovery = 0], rows, time)
           /\ Fine([t EXCEPT !.unknown = time], rows, time)
           /\ Fine([t EXCEPT !.recovery = time], rows, time)
           /\ Fine([t EXCEPT !.pending = time], rows, time)
           /\ [t EXCEPT !.recovery = 0].pending = t.pending
<1>1. 0 \in Instants /\ Clocked(t, time)
  BY DEF Instants, EventBounds, Fine
<1> QED
  BY <1>1, EditsClocked, EditedFine DEF Dis!PendingCleared

\* Relating a sample to the events keeps both in order.
LEMMA RelateBounded ==
    ASSUME EventBounds, NEW t, NEW rows, NEW time \in Instants, Fine(t, rows, time),
           failing \in 0..MaxFailing, NEW relation, Dis!Relate(relation, t, rows, time)
    PROVE  Stored(time)
<1>1. CASE Dis!Distracted(t, rows, time)
  <2> DEFINE u == [t EXCEPT !.unknown = 0]
             v == [u EXCEPT !.recovery = 0]
  <2>1. Fine(u, rows, time)
    BY QuietSteps
  <2> HIDE DEF u
  <2>2. Fine(v, rows, time)
    BY <2>1, QuietSteps
  <2>3. [t EXCEPT !.unknown = 0, !.recovery = 0] = v
    BY Zenon DEF u
  <2>4. v.pending = t.pending
    BY <2>1, QuietSteps DEF u
  <2> HIDE DEF v
  <2>5. \/ Dis!UpdateOpen(v, rows, time) \/ Dis!Only([v EXCEPT !.pending = time], rows)
        \/ Dis!Only(v, rows) \/ (v.pending # 0 /\ Dis!Create(v, rows, time))
    BY <1>1, <2>3, <2>4, Zenon DEF Dis!Distracted
  <2>6. Fine([v EXCEPT !.pending = time], rows, time)
    BY <2>2, QuietSteps
  <2> QED
    BY <2>2, <2>5, <2>6, WritesBounded, CreateBounded
<1>2. CASE Dis!Focused(t, rows, time)
  <2> DEFINE w == Dis!PendingCleared(t)
             u == [w EXCEPT !.unknown = 0]
             v == [u EXCEPT !.recovery = time]
  <2>1. Fine(w, rows, time)
    BY QuietSteps
  <2> HIDE DEF w
  <2>2. Fine(u, rows, time)
    BY <2>1, QuietSteps
  <2> HIDE DEF u
  <2>3. Fine(v, rows, time)
    BY <2>2, QuietSteps
  <2>4. \/ Dis!Only(u, rows) \/ Dis!Only(v, rows)
        \/ Dis!CloseOpen(u, rows, time) \/ Dis!UpdateOpen(u, rows, time)
    BY <1>2, Zenon DEF Dis!Focused, u, w
  <2> QED
    BY <2>2, <2>3, <2>4, WritesBounded
<1>3. CASE Dis!Unknown(t, rows, time)
  <2> DEFINE w == Dis!PendingCleared(t)
             u == [w EXCEPT !.recovery = 0]
             v == [u EXCEPT !.unknown = time]
  <2>1. Fine(w, rows, time)
    BY QuietSteps
  <2> HIDE DEF w
  <2>2. Fine(u, rows, time)
    BY <2>1, QuietSteps
  <2> HIDE DEF u
  <2>3. Fine(v, rows, time)
    BY <2>2, QuietSteps
  <2>4. \/ Dis!Only(u, rows) \/ Dis!Only(v, rows)
        \/ Dis!CloseOpen(u, rows, time) \/ Dis!UpdateOpen(u, rows, time)
    BY <1>3, Zenon DEF Dis!Unknown, u, w
  <2> QED
    BY <2>2, <2>3, <2>4, WritesBounded
<1> QED
  BY <1>1, <1>2, <1>3 DEF Dis!Relate

\* A tracker stays within the bounds as time goes on.
LEMMA LaterFine ==
    ASSUME EventBounds, NEW t, NEW rows, NEW before \in Instants, NEW time \in Instants,
           before <= time, Fine(t, rows, before)
    PROVE  Fine(t, rows, time)
  BY DEF Fine, Clocked, Clocks, Instants, EventBounds

\* A tick's tracker before its step: a sample ends the outage.
LEMMA SampledFine ==
    ASSUME EventBounds, NEW time \in Instants, Fine(track, events, time)
    PROVE  Fine(Dis!Sampled(track, time), events, time)
           /\ Dis!Sampled(track, time).current = track.current
<1>1. CASE track.missing = 0
  BY <1>1 DEF Dis!Sampled
<1>2. CASE track.missing # 0
  <2> DEFINE o == track.excluded + (time - track.missing)
  <2>1. o \in Instants /\ o <= time /\ 0 \in Instants /\ 0 <= time
    BY <1>2 DEF Fine, Clocked, Clocks, Instants, EventBounds
  <2>2. Dis!Sampled(track, time) = [track EXCEPT !.excluded = o, !.missing = 0]
    BY <1>2 DEF Dis!Sampled, Fine, Clocked, Clocks
  <2> HIDE DEF o
  <2> DEFINE s == Dis!Sampled(track, time)
  <2>3. s \in Clocks /\ s.missing = 0 /\ s.excluded = o /\ s.current = track.current
    BY <2>1, <2>2 DEF Fine, Clocked, Clocks
  <2> HIDE DEF s
  <2>4. Clocked(s, time)
    BY <2>1, <2>3 DEF Clocked
  <2> QED
    BY <2>3, <2>4, EditedFine DEF s
<1> QED
  BY <1>1, <1>2

\* A track with no pending event stays in order.
LEMMA QuietedFine ==
    ASSUME EventBounds, NEW t, NEW rows, NEW time \in Instants, Fine(t, rows, time)
    PROVE  Fine(Dis!Quieted(t), rows, time)
<1> DEFINE w == Dis!PendingCleared(t)
           u == [w EXCEPT !.unknown = 0]
           v == [u EXCEPT !.recovery = 0]
<1>1. Fine(w, rows, time)
  BY QuietSteps
<1>4. Dis!Quieted(t) = v
  BY Zenon DEF Dis!Quieted
<1> HIDE DEF w
<1>2. Fine(u, rows, time)
  BY <1>1, QuietSteps
<1> HIDE DEF u
<1>3. Fine(v, rows, time)
  BY <1>2, QuietSteps
<1> QED
  BY <1>3, <1>4

\* What is observed of a tick stays within the bounds.
LEMMA ObserveBounded ==
    ASSUME EventBounds, NEW time \in Instants, Fine(track, events, time),
           failing \in 0..MaxFailing, NEW outcome, Dis!Observe(outcome, time)
    PROVE  Stored(time)
<1> DEFINE q == Dis!Quieted(track)
<1>0. Fine(q, events, time)
  BY QuietedFine
<1>1. CASE Dis!CloseOpen(q, events, time)
  BY <1>0, <1>1, WritesBounded
<1>2. CASE Dis!Only([q EXCEPT !.missing = IF track.current # 0 /\ @ = 0 THEN time ELSE @], events)
  <2> HIDE DEF q
  <2> DEFINE m == IF track.current # 0 /\ q.missing = 0 THEN time ELSE q.missing
             u == [q EXCEPT !.missing = m]
  <2>1. [q EXCEPT !.missing = IF track.current # 0 /\ @ = 0 THEN time ELSE @] = u
    BY <1>0 DEF Fine, Clocked, Clocks
  <2>2. m \in Instants /\ m <= time /\ q.excluded <= (IF m = 0 THEN time ELSE m)
    BY <1>0 DEF Fine, Clocked, Clocks, Instants, EventBounds
  <2> HIDE DEF m
  <2>3. u \in Clocks /\ u.missing = m /\ u.excluded = q.excluded /\ u.current = q.current
    BY <1>0, <2>2 DEF Fine, Clocked, Clocks
  <2> HIDE DEF u
  <2>4. Clocked(u, time)
    BY <2>2, <2>3 DEF Clocked
  <2>5. Fine(u, events, time)
    BY <1>0, <2>3, <2>4, EditedFine
  <2> QED
    BY <1>2, <2>1, <2>5, WritesBounded
<1>3. CASE Dis!Related(outcome, time)
  <2> DEFINE t == Dis!Sampled(track, time)
             w == Dis!Written(t, events, time, time)
  <2>1. Fine(t, events, time)
    BY SampledFine
  <2>2. \/ Dis!Relate(outcome, t, events, time)
        \/ Dis!Relate(outcome, Dis!Dropped(t), w, time)
        \/ Dis!CloseFails(t, events, time)
    BY <1>3, Zenon DEF Dis!Related
  <2> HIDE DEF t
  <2>3. w \in Seq(BoundedRow) /\ Len(w) = Len(events)
    BY <2>1, WrittenBounded
  <2>4. Clocked(Dis!Dropped(t), time) /\ Dis!Dropped(t).current = 0
    BY <2>1, DroppedBounded DEF Fine
  <2> HIDE DEF w
  <2>5. Fine(Dis!Dropped(t), w, time)
    BY <2>1, <2>3, <2>4 DEF Fine
  <2> QED
    BY <2>1, <2>2, <2>5, RelateBounded, WritesBounded
<1> QED
  BY <1>1, <1>2, <1>3, Zenon DEF Dis!Observe

\* The whole state within its bounds.
EventRest ==
    /\ now \in 1..MaxNow /\ currentDate \in {0, 1} /\ up \in BOOLEAN /\ since \in 0..now
    /\ Fine(track, events, now) /\ health \in HealthSet
    /\ failing \in 0..MaxFailing /\ launches \in 1..MaxLaunches

\* Every step of the tracker keeps it there.
LEMMA EventTypes == ASSUME EventBounds, EventRest, [Dis!XNext]_(Dis!xvars) PROVE EventRest'
<1>0. /\ now \in 1..MaxNow /\ since \in 0..now /\ up \in BOOLEAN
      /\ Fine(track, events, now) /\ health \in HealthSet
      /\ failing \in 0..MaxFailing /\ launches \in 1..MaxLaunches
      /\ MaxNow \in Nat /\ now \in Instants
  BY DEF EventRest, EventBounds, Instants
<1>6. currentDate \in {0, 1} /\ \A time : Dis!Day(time) \in {0, 1}
  BY DEF EventRest, Dis!Day
<1>1. ASSUME NEW sample, NEW gap \in 1 .. MaxGap, Dis!Tick(sample, gap) PROVE EventRest'
  <2> DEFINE time == now + gap
             seen == sample # "none"
  <2>1. time \in Instants /\ time \in 1..MaxNow /\ now <= time /\ now' = time
    BY <1>0, <1>1 DEF Dis!Tick, Instants, EventBounds
  <2>2. PICK outcome : /\ Dis!Observe(outcome, time)
                       /\ since' = IF outcome # "distracted" THEN 0 ELSE IF since = 0 THEN time ELSE since
    BY <1>1 DEF Dis!Tick
  <2>3. /\ health' = Dis!Observed(health, time, seen) /\ UNCHANGED <<up, launches>>
        /\ currentDate' = Dis!Day(time)
    BY <1>1 DEF Dis!Tick
  <2> HIDE DEF time, seen
  <2>4. Stored(time)
    BY <1>0, <2>1, <2>2, LaterFine, ObserveBounded
  <2>5. since' \in 0..time
    BY <1>0, <2>1, <2>2
  <2>6. health' \in HealthSet
    BY <1>0, <2>1, <2>3, HealthTypes
  <2>7. up' \in BOOLEAN
    BY <1>0, <2>3, Zenon
  <2> QED
    BY <1>0, <1>6, <2>1, <2>3, <2>4, <2>5, <2>6, <2>7, Zenon DEF EventRest, Stored
<1>2. ASSUME NEW gap \in 1 .. MaxGap, Dis!Start(gap) PROVE EventRest'
  <2>1. /\ now + gap \in 1..MaxNow /\ now <= now + gap /\ now' = now + gap /\ up' = TRUE
        /\ health' = Dis!Healthy /\ launches' \in 1..MaxLaunches /\ UNCHANGED <<events, since>>
        /\ currentDate' = Dis!Day(now + gap)
    BY <1>0, <1>2 DEF Dis!Start, EventBounds
  <2>2. since' \in 0..now'
    BY <1>0, <2>1
  <2>3. track' \in Clocks /\ track'.missing = 0 /\ track'.excluded = 0 /\ track'.current \in 0..Len(events)
    <3>1. events \in Seq(EventRow) /\ Len(events) \in Nat
      <4>1. BoundedRow \subseteq EventRow
        BY <1>0 DEF BoundedRow, EventRow, Instants
      <4>2. events \in Seq(BoundedRow)
        BY <1>0 DEF Fine
      <4> HIDE DEF BoundedRow, EventRow
      <4> QED
        BY <4>1, <4>2
    <3>2. Dis!OpenRows # {} => Dis!Newest \in 1 .. Len(events)
      BY <3>1, NewestFact
    <3> QED
      BY <1>0, <1>2, <3>1, <3>2 DEF Dis!Start, Dis!Idle, Clocks, Instants
  <2>4. Fine(track', events', now')
    BY <1>0, <2>1, <2>3 DEF Fine, Clocked
  <2>5. failing' \in 0..MaxFailing
    BY <1>0, <1>2 DEF Dis!Start, Dis!Spend, EventBounds
  <2>6. health' \in HealthSet
    BY <2>1, HealthyType, Zenon
  <2>7. up' \in BOOLEAN
    BY <2>1, Zenon
  <2> QED
    BY <1>6, <2>1, <2>2, <2>4, <2>5, <2>6, <2>7, Zenon DEF EventRest
<1>3. CASE Dis!Shutdown
  <2>1. up' = FALSE /\ since' = 0 /\ Dis!CloseOpen(track, events, now) /\ UNCHANGED <<now, currentDate, health, launches>>
    BY <1>3 DEF Dis!Shutdown
  <2>2. Stored(now)
    BY <1>0, <2>1, WritesBounded
  <2>3. since' \in 0..now
    BY <1>0, <2>1
  <2>4. up' \in BOOLEAN
    BY <2>1, Zenon
  <2> QED
    BY <1>0, <1>6, <2>1, <2>2, <2>3, <2>4, Zenon DEF EventRest, Stored
<1>4. CASE Dis!Crash
  <2>1. up' = FALSE /\ since' = 0 /\ UNCHANGED <<now, currentDate, track, events, health, failing, launches>>
    BY <1>4 DEF Dis!Crash
  <2>3. since' \in 0..now
    BY <1>0, <2>1
  <2>4. up' \in BOOLEAN
    BY <2>1, Zenon
  <2> QED
    BY <1>0, <1>6, <2>1, <2>3, <2>4, Zenon DEF EventRest
<1>7. ASSUME NEW gap \in 1 .. MaxGap, Dis!Study(gap) PROVE EventRest'
  <2>1. /\ now + gap \in 1..MaxNow /\ now <= now + gap /\ now' = now + gap
        /\ currentDate' = Dis!Day(now + gap)
        /\ UNCHANGED <<track, events, health, up, since, failing, launches>>
    BY <1>0, <1>7 DEF Dis!Study, EventBounds
  <2>2. since' \in 0..now' /\ now' \in Instants
    BY <1>0, <2>1 DEF Instants
  <2>3. Fine(track', events', now')
    BY <1>0, <2>1, <2>2, LaterFine
  <2> QED
    BY <1>0, <1>6, <2>1, <2>2, <2>3, Zenon DEF EventRest
<1>5. CASE UNCHANGED Dis!xvars
  BY <1>0, <1>5, <1>6, Zenon DEF Dis!xvars, EventRest
<1> QED
  BY <1>1, <1>2, <1>3, <1>4, <1>5, <1>7 DEF Dis!XNext

\* The tracker's clocks and its rows stay within the run: no instant it keeps, no
\* event it writes and no outage it counts lies later than the sample it handles.
THEOREM EventsTyped == ASSUME EventBounds PROVE Dis!XSpec => []Dis!TypeOK
<1>1. Dis!XInit => EventRest
  <2> SUFFICES ASSUME Dis!XInit PROVE EventRest
    OBVIOUS
  <2>1. now = 1 /\ since = 0 /\ track = Dis!Idle /\ events = <<>> /\ failing = 0 /\ launches = 1
    BY DEF Dis!XInit
  <2>2. Fine(track, events, now)
    <3>1. <<>> \in Seq(BoundedRow) /\ Len(<<>>) = 0
      OBVIOUS
    <3> QED
      BY <2>1, <3>1 DEF Fine, Clocked, Clocks, Instants, EventBounds, Dis!Idle
  <2>3. /\ now \in 1..MaxNow /\ since \in 0..now /\ failing \in 0..MaxFailing
        /\ launches \in 1..MaxLaunches
    BY <2>1 DEF EventBounds
  <2>4. up \in BOOLEAN
    BY Zenon DEF Dis!XInit
  <2>5. health \in HealthSet
    BY HealthyType, Zenon DEF Dis!XInit
  <2>6. currentDate \in {0, 1}
    BY DEF Dis!XInit, Dis!Day
  <2> QED
    BY <2>2, <2>3, <2>4, <2>5, <2>6, Zenon DEF EventRest
<1>2. EventRest => Dis!TypeOK
  <2> SUFFICES ASSUME EventRest PROVE Dis!TypeOK
    OBVIOUS
  <2>1. now \in 1..MaxNow /\ since \in Instants
    BY DEF EventRest, EventBounds, Instants
  <2>2. /\ track.pending \in Instants /\ track.unknown \in Instants /\ track.recovery \in Instants
        /\ track.missing \in Instants /\ track.excluded \in Instants
        /\ track.current \in 0..Len(events) /\ Len(events) <= MaxEvents
    BY DEF EventRest, Fine, Clocked, Clocks
  <2>3. \A i \in DOMAIN events : events[i] \in BoundedRow
    BY DEF EventRest, Fine
  <2>4. currentDate \in {0, 1} /\ up \in BOOLEAN /\ health \in HealthSet /\ failing \in 0..MaxFailing /\ launches \in 1..MaxLaunches
    BY Zenon DEF EventRest
  <2> QED
    BY <2>1, <2>2, <2>3, <2>4, Zenon DEF Dis!TypeOK, Dis!Times, Instants, BoundedRow, HealthSet
<1> QED
  BY <1>1, <1>2, EventTypes, PTL DEF Dis!XSpec

-----------------------------------------------------------------------------
(***************************************************************************)
(* EvidenceWindow.  What the windows show of study is at most what the     *)
(* samples hold of it, and that, until the cap, is at most what was seen   *)
(* since the last interruption: trimming and the limit of samples only     *)
(* lose.                                                                   *)
(***************************************************************************)
CONSTANTS Configs, MaxSamples, MaxBetween, MaxBack, MaxSaves, MaxRestarts
VARIABLES cfg, saved, samples, tracking, sinceTransition, sinceLocked, sinceFocused, intent,
          worked, slips, saves, restarts

Ev == INSTANCE EvidenceWindow WITH MaxGap <- MaxBetween, MaxSlips <- MaxBack

\* validate accepts no negative time; maxEvidenceSamples and maxEvidenceGap are constants.
EvidenceBounds ==
    /\ IsFiniteSet(Configs) /\ Configs # {}
    /\ \A c \in Configs : /\ c.focused \in Nat /\ c.unclassified \in Nat /\ c.grace \in Nat
                          /\ c.cooldown \in Nat /\ c.locked \in Nat /\ c.resume \in Nat
    /\ MaxSamples \in Nat /\ MaxBetween \in Nat

Evidence == Seq([kind : Ev!Signals, n : Nat])
\* What is kept of study.
Part(s, i) == IF s[i].kind # "neutral" THEN s[i].n ELSE 0
Parts(s) == [i \in 1..Len(s) |-> Part(s, i)]
Weight(s) == SumOver(Parts(s), 1..Len(s))

\* A nonempty set of naturals below a bound has a greatest member.
LEMMA MaxOf ==
    ASSUME NEW S, S \subseteq Nat, S # {}, NEW b \in Nat, \A x \in S : x <= b
    PROVE  Ev!Max(S) \in S /\ \A x \in S : x <= Ev!Max(S)
<1> DEFINE T == {k \in Nat : \A x \in S : x <= k}
<1>1. T \subseteq Nat /\ b \in T
  OBVIOUS
<1>2. PICK m \in T : \A k \in T : m <= k
  <2> HIDE DEF T
  <2> QED
    BY <1>1, LeastOf
<1>3. m \in Nat /\ \A x \in S : x <= m
  OBVIOUS
<1>4. m \in S
  <2> SUFFICES ASSUME m \notin S PROVE FALSE
    OBVIOUS
  <2>1. PICK x \in S : TRUE
    OBVIOUS
  <2>2. m # 0
    BY <1>3, <2>1
  <2>3. m - 1 \in T
    BY <1>3, <2>2
  <2> QED
    BY <1>2, <1>3, <2>3
<1>5. \E x \in S : \A y \in S : x >= y
  BY <1>3, <1>4
<1>6. Ev!Max(S) \in S /\ \A y \in S : Ev!Max(S) >= y
  BY <1>5 DEF Ev!Max
<1> QED
  BY <1>6

\* The cap is no less than any threshold.
LEMMA CapFacts ==
    ASSUME EvidenceBounds
    PROVE  Ev!Cap \in Nat /\ \A c \in Configs : c.focused <= Ev!Cap /\ c.unclassified <= Ev!Cap
<1> DEFINE total == [c \in Configs |-> c.focused + c.unclassified + c.cooldown
                                         + c.locked + c.resume]
           Times(c) == {c.focused, c.unclassified, c.cooldown, c.locked, c.resume}
           all == UNION {Times(c) : c \in Configs}
           b == SumOver(total, Configs)
<1>1. IsFiniteSet(Configs) /\ \A c \in Configs : total[c] \in Nat
  BY DEF EvidenceBounds
<1>2. b \in Nat
  <2> HIDE DEF total
  <2> QED
    BY <1>1, SumIsNat
<1>3. ASSUME NEW c \in Configs PROVE total[c] <= b
  <2> HIDE DEF total
  <2>1. b = total[c] + SumOver(total, Configs \ {c})
    BY <1>1, SumSplit
  <2>2. IsFiniteSet(Configs \ {c})
    BY <1>1, FS_Subset
  <2>3. SumOver(total, Configs \ {c}) \in Nat
    BY <1>1, <2>2, SumIsNat
  <2> HIDE DEF b
  <2> QED
    BY <1>1, <1>2, <2>1, <2>3
<1>4. ASSUME NEW c \in Configs, NEW x \in Times(c) PROVE x \in Nat /\ x <= b
  <2>1. x \in Nat /\ x <= total[c]
    BY <1>4 DEF EvidenceBounds
  <2> HIDE DEF b, total
  <2> QED
    BY <1>1, <1>2, <1>3, <2>1
<1>5. all \subseteq Nat /\ \A x \in all : x <= b
  <2> HIDE DEF b
  <2> SUFFICES ASSUME NEW x \in all PROVE x \in Nat /\ x <= b
    OBVIOUS
  <2>1. PICK c \in Configs : x \in Times(c)
    OBVIOUS
  <2> QED
    BY <1>4, <2>1
<1>6. PICK c \in Configs : TRUE
  BY DEF EvidenceBounds
<1>7. \A d \in Configs : d.focused \in all /\ d.unclassified \in all
  OBVIOUS
<1>8. all # {}
  BY <1>6, <1>7
<1>9. Ev!Cap = Ev!Max(all)
  BY DEF Ev!Cap
<1> HIDE DEF all, b
<1>10. Ev!Max(all) \in all /\ \A x \in all : x <= Ev!Max(all)
  BY <1>2, <1>5, <1>8, MaxOf
<1> QED
  BY <1>5, <1>7, <1>9, <1>10

\* The samples.
LEMMA SampleFacts ==
    ASSUME NEW s \in Evidence
    PROVE  /\ Len(s) \in Nat /\ DOMAIN s = 1..Len(s)
           /\ \A i \in 1..Len(s) : /\ s[i] \in [kind : Ev!Signals, n : Nat]
                                   /\ s[i].n \in Nat /\ s[i].kind \in Ev!Signals
<1>1. \A i \in 1..Len(s) : s[i] \in [kind : Ev!Signals, n : Nat]
  BY ElementOfSeq DEF Evidence
<1> QED
  BY <1>1, LenProperties DEF Evidence

\* What holds at the end and passes to the one before holds everywhere.
LEMMA DownTo ==
    ASSUME NEW i \in Nat, NEW len \in Nat, NEW S, len \in S,
           \A j \in i..(len - 1) : j + 1 \in S => j \in S
    PROVE  i..len \subseteq S
<1> DEFINE B == {k \in 0..(len - i) : len - k \notin S}
<1>1. ASSUME B # {} PROVE FALSE
  <2>1. PICK k \in B : \A m \in B : k <= m
    <3>1. B \subseteq Nat
      OBVIOUS
    <3> HIDE DEF B
    <3> QED
      BY <1>1, <3>1, LeastOf
  <2>2. k \in 0..(len - i) /\ len - k \notin S /\ k # 0
    OBVIOUS
  <2>3. len - k \in i..(len - 1) /\ (len - k) + 1 = len - (k - 1) /\ k - 1 \in 0..(len - i)
    BY <2>2
  <2>4. len - (k - 1) \in S
    BY <2>1, <2>3
  <2> QED
    BY <2>2, <2>3, <2>4
<1>2. ASSUME NEW j \in i..len PROVE j \in S
  <2>1. len - j \in 0..(len - i) /\ len - (len - j) = j
    OBVIOUS
  <2>2. len - j \notin B
    BY <1>1
  <2> QED
    BY <2>1, <2>2
<1> QED
  BY <1>2

\* The times of the samples.
Spans(s) == [j \in 1..Len(s) |-> s[j].n]

\* The time seen after a sample is the sum of the later ones,
LEMMA AfterIsSum ==
    ASSUME NEW s \in Evidence, NEW i \in 0..Len(s)
    PROVE  Ev!After(s, i) = SumOver(Spans(s), (i + 1)..Len(s)) /\ Ev!After(s, i) \in Nat
<1> DEFINE len == Len(s)
           f == Spans(s)
           Tab(h) == h = [j \in i..len |-> IF j = len THEN 0 ELSE s[j + 1].n + h[j + 1]]
           g == [j \in i..len |-> SumOver(f, (j + 1)..len)]
<1>1. len \in Nat /\ \A j \in 1..len : s[j].n \in Nat /\ f[j] = s[j].n
  BY SampleFacts DEF Spans
<1> HIDE DEF f
<1>0. \A j \in i..len : IsFiniteSet((j + 1)..len) /\ (j + 1)..len \subseteq 1..len
  <2> SUFFICES ASSUME NEW j \in i..len PROVE IsFiniteSet((j + 1)..len) /\ (j + 1)..len \subseteq 1..len
    OBVIOUS
  <2>1. j + 1 \in Int /\ len \in Int
    BY <1>1
  <2>2. IsFiniteSet((j + 1)..len)
    BY <2>1, FS_Interval
  <2> QED
    BY <1>1, <2>2
<1>2. ASSUME NEW j \in i..len, j # len
      PROVE  SumOver(f, (j + 1)..len) = s[j + 1].n + SumOver(f, (j + 2)..len)
  <2>1. /\ j + 1 \in (j + 1)..len /\ ((j + 1)..len) \ {j + 1} = (j + 2)..len
        /\ j + 1 \in 1..len
    BY <1>1, <1>2
  <2>3. \A k \in (j + 1)..len : f[k] \in Nat
    BY <1>0, <1>1
  <2>4. SumOver(f, (j + 1)..len) = f[j + 1] + SumOver(f, ((j + 1)..len) \ {j + 1})
    BY <1>0, <2>1, <2>3, SumSplit
  <2> QED
    BY <1>1, <2>1, <2>4
<1>3. (len + 1)..len = {}
  BY <1>1
<1>4. g = [j \in i..len |-> IF j = len THEN 0 ELSE s[j + 1].n + g[j + 1]]
  <2>1. ASSUME NEW j \in i..len
        PROVE  g[j] = IF j = len THEN 0 ELSE s[j + 1].n + g[j + 1]
    <3>1. CASE j = len
      BY <1>3, <3>1, SumEmpty
    <3>2. CASE j # len
      <4>1. j + 1 \in i..len /\ (j + 1) + 1 = j + 2
        BY <1>1, <3>2
      <4>2. g[j + 1] = SumOver(f, (j + 2)..len)
        BY <4>1
      <4> QED
        BY <1>2, <3>2, <4>2
    <3> QED
      BY <3>1, <3>2
  <2> QED
    BY <2>1
<1> DEFINE h == CHOOSE h : Tab(h)
<1>5. Tab(h)
  <2> HIDE DEF g
  <2>1. Tab(g)
    BY <1>4
  <2> HIDE DEF Tab
  <2> QED
    BY <2>1
<1>6. Ev!After(s, i) = h[i]
  BY DEF Ev!After
<1> HIDE DEF h
<1>7. \A j \in i..len : h[j] = IF j = len THEN 0 ELSE s[j + 1].n + h[j + 1]
  BY <1>5
<1>8. \A j \in i..len : g[j] = IF j = len THEN 0 ELSE s[j + 1].n + g[j + 1]
  <2> HIDE DEF g
  <2> QED
    BY <1>4
<1> DEFINE S == {j \in i..len : h[j] = g[j]}
<1>9. i..len \subseteq S
  <2>1. i \in Nat /\ i <= len
    BY <1>1
  <2>2. len \in S
    <3> HIDE DEF g
    <3> QED
      BY <1>1, <1>7, <1>8, <2>1
  <2>3. \A j \in i..(len - 1) : j + 1 \in S => j \in S
    <3> HIDE DEF g
    <3>1. \A j \in i..(len - 1) : j \in i..len /\ j # len /\ j + 1 \in i..len
      BY <1>1, <2>1
    <3> QED
      BY <1>7, <1>8, <3>1
  <2> HIDE DEF S
  <2> QED
    BY <1>1, <2>1, <2>2, <2>3, DownTo
<1>10. h[i] = SumOver(f, (i + 1)..len)
  <2>1. i \in i..len
    BY <1>1
  <2> QED
    BY <1>9, <2>1
<1>11. SumOver(f, (i + 1)..len) \in Nat
  <2>1. i \in i..len /\ \A k \in (i + 1)..len : f[k] \in Nat
    BY <1>0, <1>1
  <2> QED
    BY <1>0, <2>1, SumIsNat
<1> QED
  BY <1>6, <1>10, <1>11 DEF f

\* The time seen after a sample is a number.
LEMMA AfterIsInt ==
    ASSUME NEW s \in Evidence, NEW i \in 1..Len(s)
    PROVE  Ev!After(s, i) \in Nat
  BY SampleFacts, AfterIsSum

\* A window shows no more of a sample than there is.
LEMMA WithinFacts ==
    ASSUME NEW s \in Evidence, NEW w \in Nat, NEW i \in 1..Len(s)
    PROVE  Ev!Within(s, w, i) \in Nat /\ s[i].n \in Nat /\ Ev!Within(s, w, i) <= s[i].n
<1>1. s[i].n \in Nat
  BY SampleFacts
<1>2. Ev!After(s, i) \in Nat
  BY AfterIsInt
<1> QED
  BY <1>1, <1>2 DEF Ev!Within, Ev!Larger, Ev!Smaller

\* What is kept of study is a natural.
LEMMA WeightFacts ==
    ASSUME NEW s \in Evidence
    PROVE  /\ \A i \in 1..Len(s) : Parts(s)[i] = Part(s, i) /\ Part(s, i) \in Nat
           /\ IsFiniteSet(1..Len(s)) /\ Weight(s) \in Nat
<1>1. Len(s) \in Nat /\ \A i \in 1..Len(s) : s[i].n \in Nat
  BY SampleFacts
<1>2. \A i \in 1..Len(s) : Parts(s)[i] = Part(s, i) /\ Part(s, i) \in Nat
  BY <1>1 DEF Parts, Part
<1>3. IsFiniteSet(1..Len(s))
  BY <1>1, FS_Interval
<1>4. Weight(s) \in Nat
  BY <1>2, <1>3, SumIsNat DEF Weight
<1> QED
  BY <1>2, <1>3, <1>4

\* No window shows more study than is kept.
LEMMA TotalFacts ==
    ASSUME NEW s \in Evidence, NEW w \in Nat, NEW kinds, "neutral" \notin kinds
    PROVE  Ev!Total(s, w, kinds) \in Nat /\ Ev!Total(s, w, kinds) <= Weight(s)
<1> DEFINE len == Len(s)
           f == [i \in 1..len |-> IF s[i].kind \in kinds THEN Ev!Within(s, w, i) ELSE 0]
           Tab(h) == h = [i \in 0..len |->
                            IF i = 0 THEN 0
                            ELSE h[i - 1] + (IF s[i].kind \in kinds THEN Ev!Within(s, w, i) ELSE 0)]
           g == [i \in 0..len |-> SumOver(f, 1..i)]
<1>1. len \in Nat /\ \A i \in 1..len : f[i] \in Nat /\ f[i] <= Part(s, i)
  BY SampleFacts, WithinFacts DEF Part
<1>2. g = [i \in 0..len |-> IF i = 0 THEN 0
                            ELSE g[i - 1] + (IF s[i].kind \in kinds THEN Ev!Within(s, w, i) ELSE 0)]
  <2>1. ASSUME NEW i \in 1..len PROVE g[i] = g[i - 1] + f[i]
    <3>1. i - 1 \in Nat /\ (i - 1) + 1 = i /\ i \in 0..len /\ i - 1 \in 0..len
          /\ \A j \in 1..i : f[j] \in Nat
      BY <1>1, <2>1
    <3>2. SumOver(f, 1..i) = SumOver(f, 1..(i - 1)) + f[i]
      <4> HIDE DEF f
      <4> QED
        BY <3>1, SumUpTo
    <3> QED
      BY <3>1, <3>2
  <2>2. g[0] = 0
    <3>1. 1..0 = {} /\ 0 \in 0..len
      BY <1>1
    <3> QED
      BY <3>1, SumEmpty
  <2>3. \A i \in 0..len : i # 0 => i \in 1..len
    BY <1>1
  <2>4. \A i \in 1..len : f[i] = IF s[i].kind \in kinds THEN Ev!Within(s, w, i) ELSE 0
    OBVIOUS
  <2>5. \A i \in 0..len :
          g[i] = IF i = 0 THEN 0
                 ELSE g[i - 1] + (IF s[i].kind \in kinds THEN Ev!Within(s, w, i) ELSE 0)
    <3> HIDE DEF g, f
    <3> QED
      BY <2>1, <2>2, <2>3, <2>4
  <2>6. g = [i \in 0..len |-> g[i]]
    OBVIOUS
  <2> HIDE DEF g, f
  <2> QED
    BY <2>5, <2>6
<1> DEFINE h == CHOOSE h : Tab(h)
<1>3. Tab(h)
  <2> HIDE DEF g
  <2>1. Tab(g)
    BY <1>2
  <2> HIDE DEF Tab
  <2> QED
    BY <2>1
<1>4. Ev!Total(s, w, kinds) = h[len]
  BY DEF Ev!Total
<1> HIDE DEF h
<1>5. \A i \in 0..len :
        h[i] = IF i = 0 THEN 0
               ELSE h[i - 1] + (IF s[i].kind \in kinds THEN Ev!Within(s, w, i) ELSE 0)
  BY <1>3
<1>6. h[0] = 0 /\ \A i \in 1..len : h[i] = h[i - 1] + f[i]
  BY <1>1, <1>5
<1>7. h[len] = SumOver(f, 1..len)
  <2>1. len \in 0..len /\ len \in Nat
    BY <1>1
  <2>2. \A i \in 1..len : f[i] \in Nat
    BY <1>1
  <2> HIDE DEF f, len
  <2>3. \A i \in 0..len : h[i] = SumOver(f, 1..i)
    BY ONLY <1>6, <2>1, <2>2, PrefixSums
  <2> QED
    BY <2>1, <2>3
<1>8. \A i \in 1..len : f[i] \in Nat /\ Parts(s)[i] \in Nat /\ f[i] <= Parts(s)[i]
  BY <1>1, WeightFacts
<1>9. SumOver(f, 1..len) \in Nat /\ SumOver(f, 1..len) <= SumOver(Parts(s), 1..len)
  <2> HIDE DEF f
  <2> QED
    BY <1>8, WeightFacts, SumIsNat, SumMonotone
<1> QED
  BY <1>4, <1>7, <1>9 DEF Weight

\* The last samples weigh no more than all.
LEMMA TailFacts ==
    ASSUME NEW s \in Evidence, NEW n \in Nat
    PROVE  Ev!Tail_(s, n) \in Evidence /\ Weight(Ev!Tail_(s, n)) <= Weight(s)
<1>1. Len(s) \in Nat /\ Weight(s) \in Nat
  BY SampleFacts, WeightFacts
<1>2. CASE ~(Len(s) > n)
  BY <1>1, <1>2 DEF Ev!Tail_
<1>3. CASE Len(s) > n
  <2> DEFINE k == Len(s) - n
             t == SubSeq(s, k + 1, Len(s))
  <2>1. k \in Nat /\ n + k = Len(s) /\ Ev!Tail_(s, n) = t /\ k + 1 \in 1..(Len(s) + 1)
    BY <1>1, <1>3 DEF Ev!Tail_
  <2>2. t \in Evidence /\ Len(t) = n /\ \A i \in 1..n : t[i] = s[i + k]
    <3>1. t = [i \in 1..(Len(s) - k) |-> s[i + k]]
      BY <1>1, <2>1
    <3>2. \A i \in 1..(Len(s) - k) : s[i + k] \in [kind : Ev!Signals, n : Nat]
      <4>1. \A i \in 1..(Len(s) - k) : i + k \in 1..Len(s)
        BY <1>1, <2>1
      <4> QED
        BY <4>1, SampleFacts
    <3>3. Len(s) - k = n
      BY <1>1, <2>1
    <3> HIDE DEF t, k
    <3>4. t \in [1..n -> [kind : Ev!Signals, n : Nat]]
      BY <3>1, <3>2, <3>3
    <3>5. t \in Seq([kind : Ev!Signals, n : Nat])
      BY <3>4, SeqDef, ZenonT(80)
    <3> QED
      BY <3>1, <3>3, <3>4, <3>5, LenProperties DEF Evidence
  <2> HIDE DEF t, k
  <2>3. \A i \in 1..(n + k) : Parts(s)[i] \in Nat
    BY <2>1, WeightFacts
  <2>4. ASSUME NEW i \in 1..n PROVE Parts(t)[i] = Parts(s)[i + k]
    <3>1. i + k \in 1..Len(s) /\ i \in 1..Len(t)
      BY <2>1, <2>2, <2>4
    <3> QED
      BY <2>2, <3>1 DEF Parts, Part
  <2>5. /\ SumOver(Parts(s), 1..(n + k)) = SumOver(Parts(s), 1..k) + SumOver(Parts(t), 1..n)
        /\ SumOver(Parts(t), 1..n) \in Nat /\ SumOver(Parts(s), 1..k) \in Nat
    <3> DEFINE f == Parts(s)
               g == Parts(t)
    <3>0. n \in Nat /\ k \in Nat
      BY <2>1
    <3>1. Counts(f, n + k)
      BY <2>3 DEF Counts
    <3>2. IsShift(g, f, k, n)
      BY <2>4 DEF IsShift
    <3> HIDE DEF f, g
    <3>3. /\ SumOver(f, 1..(n + k)) = SumOver(f, 1..k) + SumOver(g, 1..n)
          /\ SumOver(g, 1..n) \in Nat /\ SumOver(f, 1..k) \in Nat
      BY ONLY <3>0, <3>1, <3>2, SumShift
    <3> QED
      BY <3>3 DEF f, g
  <2>6. Weight(s) = SumOver(Parts(s), 1..(n + k)) /\ Weight(t) = SumOver(Parts(t), 1..n)
    BY <2>1, <2>2 DEF Weight
  <2> QED
    BY <1>1, <2>1, <2>2, <2>5, <2>6
<1> QED
  BY <1>2, <1>3

\* The instance counts as FiniteSets does.
LEMMA SameCardinality == \A S : Ev!Cardinality(S) = Cardinality(S)
  BY DEF Ev!Cardinality, Cardinality

\* Trimming loses evidence only.
LEMMA TrimFacts ==
    ASSUME NEW s \in Evidence, NEW w \in Nat
    PROVE  Ev!Trimmed(s, w) \in Evidence /\ Weight(Ev!Trimmed(s, w)) <= Weight(s)
<1> DEFINE n == Ev!Cardinality({i \in DOMAIN s : Ev!Within(s, w, i) > 0})
           kept == Ev!Tail_(s, n)
           t == [i \in DOMAIN kept |-> [kept[i] EXCEPT !.n = Ev!Within(kept, w, i)]]
<1>1. n \in Nat
  <2>1. IsFiniteSet({i \in DOMAIN s : Ev!Within(s, w, i) > 0})
    BY SampleFacts, WeightFacts, FS_Subset
  <2> QED
    BY <2>1, FS_CardinalityType, SameCardinality
<1>2. Ev!Trimmed(s, w) = t
  BY DEF Ev!Trimmed
<1>3. kept \in Evidence /\ Weight(kept) <= Weight(s)
  <2> HIDE DEF n
  <2> QED
    BY <1>1, TailFacts
<1> HIDE DEF kept
<1>4. /\ Len(kept) \in Nat /\ DOMAIN kept = 1..Len(kept)
      /\ \A i \in 1..Len(kept) : kept[i] \in [kind : Ev!Signals, n : Nat]
  BY <1>3, SampleFacts
<1>5. ASSUME NEW i \in 1..Len(kept)
      PROVE  /\ t[i] \in [kind : Ev!Signals, n : Nat]
             /\ t[i].kind = kept[i].kind /\ t[i].n <= kept[i].n
  <2>1. Ev!Within(kept, w, i) \in Nat /\ Ev!Within(kept, w, i) <= kept[i].n
    BY <1>3, WithinFacts
  <2>2. t[i] = [kept[i] EXCEPT !.n = Ev!Within(kept, w, i)]
    BY <1>4
  <2> HIDE DEF t
  <2> QED
    BY <1>4, <2>1, <2>2
<1>6. t \in Evidence /\ Len(t) = Len(kept)
  <2>1. t = [i \in 1..Len(kept) |-> t[i]]
    BY <1>4
  <2> HIDE DEF t
  <2>2. t \in [1..Len(kept) -> [kind : Ev!Signals, n : Nat]]
    <3>1. \A i \in 1..Len(kept) : t[i] \in [kind : Ev!Signals, n : Nat]
      BY <1>5
    <3> QED
      BY <2>1, <3>1
  <2>3. t \in Seq([kind : Ev!Signals, n : Nat])
    <3>1. Len(kept) \in Nat
      BY <1>4
    <3> QED
      BY ONLY <2>2, <3>1, SeqDef, ZenonT(80)
  <2> QED
    BY <1>4, <2>2, <2>3, LenProperties DEF Evidence
<1> HIDE DEF t
<1>7. \A i \in 1..Len(kept) :
        Parts(t)[i] \in Nat /\ Parts(kept)[i] \in Nat /\ Parts(t)[i] <= Parts(kept)[i]
  <2>1. ASSUME NEW i \in 1..Len(kept) PROVE Part(t, i) <= Part(kept, i)
    BY <1>5 DEF Part
  <2> QED
    BY <1>3, <1>6, <2>1, WeightFacts
<1>8. Weight(t) <= Weight(kept)
  <2>1. IsFiniteSet(1..Len(kept))
    BY <1>3, WeightFacts
  <2> QED
    BY <1>6, <1>7, <2>1, SumMonotone DEF Weight
<1>9. Weight(t) \in Nat /\ Weight(kept) \in Nat /\ Weight(s) \in Nat
  BY <1>3, <1>6, WeightFacts
<1> QED
  BY <1>2, <1>3, <1>6, <1>8, <1>9

\* One more sample weighs its time, if it is of study.
LEMMA AppendFacts ==
    ASSUME NEW s \in Evidence, NEW kind \in Ev!Signals, NEW gap \in Nat
    PROVE  LET t == Append(s, [kind |-> kind, n |-> gap])
           IN  t \in Evidence /\ Weight(t) = Weight(s) + (IF kind # "neutral" THEN gap ELSE 0)
<1> DEFINE e == [kind |-> kind, n |-> gap]
           t == Append(s, e)
           len == Len(s)
<1>1. e \in [kind : Ev!Signals, n : Nat] /\ len \in Nat
  BY SampleFacts
<1>2. t \in Evidence /\ Len(t) = len + 1 /\ t[len + 1] = e /\ \A i \in 1..len : t[i] = s[i]
  BY <1>1, AppendProperties DEF Evidence
<1>3. e.kind = kind /\ e.n = gap
  OBVIOUS
<1> HIDE DEF e, t
<1>4. \A i \in 1..(len + 1) : Parts(t)[i] \in Nat /\ Parts(t)[i] = Part(t, i)
  BY <1>2, WeightFacts
<1>5. SumOver(Parts(t), 1..(len + 1)) = SumOver(Parts(t), 1..len) + Parts(t)[len + 1]
  BY <1>1, <1>4, SumUpTo
<1>6. Parts(t)[len + 1] = IF kind # "neutral" THEN gap ELSE 0
  BY <1>1, <1>2, <1>3, <1>4 DEF Part
<1>7. \A i \in 1..len : Parts(t)[i] = Parts(s)[i]
  <2>1. \A i \in 1..len : i \in 1..(len + 1)
    BY <1>1
  <2> QED
    BY <1>2, <1>4, <2>1, WeightFacts DEF Part
<1>8. SumOver(Parts(t), 1..len) = SumOver(Parts(s), 1..len)
  BY <1>7, WeightFacts, SumSame
<1> QED
  BY <1>2, <1>5, <1>6, <1>8 DEF Weight, t, e

\* What a tick leaves of the evidence was in it, or was just seen.
LEMMA GatheredFacts ==
    ASSUME samples \in Evidence, cfg.unclassified + cfg.grace \in Nat, MaxSamples \in Nat,
           NEW kind \in Ev!Signals, NEW gap \in Nat
    PROVE  /\ Ev!Advanced(kind, gap) \in Evidence
           /\ Weight(Ev!Advanced(kind, gap)) <= Weight(samples) + (IF kind # "neutral" THEN gap ELSE 0)
<1> DEFINE all == Append(samples, [kind |-> kind, n |-> gap])
           kept == Ev!Tail_(all, MaxSamples)
           w == cfg.unclassified + cfg.grace
<1>1. all \in Evidence /\ Weight(all) = Weight(samples) + (IF kind # "neutral" THEN gap ELSE 0)
  BY AppendFacts
<1> HIDE DEF all
<1>2. kept \in Evidence /\ Weight(kept) <= Weight(all)
  BY <1>1, TailFacts
<1> HIDE DEF kept
<1>3. Ev!Trimmed(kept, w) \in Evidence /\ Weight(Ev!Trimmed(kept, w)) <= Weight(kept)
  <2> HIDE DEF w
  <2>1. w \in Nat
    BY DEF w
  <2> QED
    BY <1>2, <2>1, TrimFacts
<1>4. Ev!Advanced(kind, gap) = Ev!Trimmed(kept, w)
  BY DEF Ev!Advanced, kept, all
<1> HIDE DEF w
<1>5. /\ Weight(Ev!Trimmed(kept, w)) \in Nat /\ Weight(kept) \in Nat /\ Weight(all) \in Nat
      /\ Weight(samples) \in Nat
  BY <1>1, <1>2, <1>3, WeightFacts
<1> QED
  BY <1>1, <1>2, <1>3, <1>4, <1>5

\* No evidence weighs nothing.
LEMMA NoEvidence == <<>> \in Evidence /\ Weight(<<>>) = 0
<1>1. <<>> \in Evidence
  BY DEF Evidence
<1>2. 1..Len(<<>>) = {}
  OBVIOUS
<1> QED
  BY <1>1, <1>2, SumEmpty DEF Weight

\* The weight of the evidence was worked for; past the cap it no longer matters.
Covered(s, n) == Weight(s) <= n \/ n >= Ev!Cap
WorkedInv ==
    /\ cfg \in Configs /\ saved \subseteq Configs
    /\ samples \in Evidence /\ worked \in Nat /\ Covered(samples, worked)
    /\ Ev!StartNeedsEvidence

\* Nothing was seen and nothing is proposed.
LEMMA FreshKeeps ==
    ASSUME EvidenceBounds, cfg' \in Configs, saved' \subseteq Configs, Ev!ResetEvidence,
           intent' # "START"
    PROVE  WorkedInv'
<1>1. samples' = <<>> /\ worked' = 0
  BY DEF Ev!ResetEvidence
<1>2. samples' \in Evidence /\ Weight(samples') = 0
  BY <1>1, NoEvidence
<1> QED
  BY <1>1, <1>2 DEF WorkedInv, Covered, Ev!StartNeedsEvidence

\* A tick that gathers evidence proposes a start only on enough of it.
LEMMA GatheringKeeps ==
    ASSUME EvidenceBounds, WorkedInv, UNCHANGED <<cfg, saved>>, NEW kind \in Ev!Signals,
           NEW gap \in Nat, Ev!Gathering(kind, gap)
    PROVE  WorkedInv'
<1> DEFINE s == Ev!Advanced(kind, gap)
           seen == IF kind # "neutral" THEN gap ELSE 0
<1>1. /\ cfg \in Configs /\ cfg.unclassified \in Nat /\ cfg.grace \in Nat /\ cfg.focused \in Nat
      /\ samples \in Evidence /\ worked \in Nat /\ MaxSamples \in Nat
  BY DEF WorkedInv, EvidenceBounds
<1>2. /\ cfg.unclassified + cfg.grace \in Nat /\ cfg.focused + cfg.grace \in Nat
  BY <1>1
<1>3. s \in Evidence /\ Weight(s) <= Weight(samples) + seen
  BY <1>1, <1>2, GatheredFacts
<1>4. samples' = s /\ worked' = IF kind = "neutral" THEN worked ELSE Ev!Smaller(worked + gap, Ev!Cap)
  BY DEF Ev!Gathering
<1>5. intent' = "START" => Ev!Ready(s)
  BY DEF Ev!Gathering, Ev!Propose, Ev!Quiet
<1> HIDE DEF s
<1>6. Weight(s) \in Nat /\ Weight(samples) \in Nat
  BY <1>1, <1>3, WeightFacts
<1>7. Ev!Cap \in Nat /\ cfg.focused <= Ev!Cap /\ cfg.unclassified <= Ev!Cap
  BY <1>1, CapFacts
<1>8. worked' \in Nat /\ (Weight(s) <= worked' \/ worked' >= Ev!Cap)
  BY <1>1, <1>3, <1>4, <1>6, <1>7 DEF WorkedInv, Covered, Ev!Smaller
<1>9. Ev!Ready(s) => Weight(s) >= cfg.focused \/ Weight(s) >= cfg.unclassified
  <2>1. /\ Ev!Total(s, cfg.focused + cfg.grace, {"strong"}) \in Nat
        /\ Ev!Total(s, cfg.focused + cfg.grace, {"strong"}) <= Weight(s)
    BY <1>2, <1>3, TotalFacts
  <2>2. /\ Ev!Total(s, cfg.unclassified + cfg.grace, {"strong", "candidate"}) \in Nat
        /\ Ev!Total(s, cfg.unclassified + cfg.grace, {"strong", "candidate"}) <= Weight(s)
    BY <1>2, <1>3, TotalFacts
  <2>3. Ev!Ready(s) => \/ Ev!Total(s, cfg.focused + cfg.grace, {"strong"}) >= cfg.focused
                       \/ Ev!Total(s, cfg.unclassified + cfg.grace, {"strong", "candidate"})
                            >= cfg.unclassified
    BY DEF Ev!Ready
  <2> QED
    BY <1>1, <1>6, <2>1, <2>2, <2>3
<1>10. intent' = "START" => worked' >= Ev!Smaller(cfg.focused, cfg.unclassified)
  BY <1>1, <1>5, <1>6, <1>7, <1>8, <1>9 DEF Ev!Smaller
<1> QED
  BY <1>1, <1>3, <1>4, <1>8, <1>10 DEF WorkedInv, Covered, Ev!StartNeedsEvidence

\* Every other tick drops the evidence and proposes no start.
LEMMA OthersKeep ==
    ASSUME NEW gap,
           \/ Ev!Suppressed(gap) \/ Ev!Running(gap) \/ Ev!Standing(gap) \/ Ev!Beginning(gap)
    PROVE  samples' = <<>> /\ worked' = 0 /\ intent' # "START"
<1>1. CASE Ev!Suppressed(gap)
  BY <1>1 DEF Ev!Suppressed, Ev!ResetEvidence, Ev!Quiet
<1>2. CASE Ev!Running(gap)
  <2>1. Ev!ResetEvidence
    BY <1>2 DEF Ev!Running
  <2>2. \/ \E locked, idle \in BOOLEAN : Ev!Pausing(locked, idle, gap)
        \/ Ev!Snoozing(gap)
        \/ \E focused \in BOOLEAN : Ev!Resuming(focused, gap)
    BY <1>2 DEF Ev!Running
  <2>3. ASSUME NEW locked, NEW idle, Ev!Pausing(locked, idle, gap) PROVE intent' # "START"
    BY <2>3 DEF Ev!Pausing, Ev!Propose, Ev!Quiet
  <2>4. Ev!Snoozing(gap) => intent' # "START"
    BY DEF Ev!Snoozing, Ev!Quiet
  <2>5. ASSUME NEW focused, Ev!Resuming(focused, gap) PROVE intent' # "START"
    BY <2>5 DEF Ev!Resuming, Ev!Propose, Ev!Quiet
  <2> QED
    BY <2>1, <2>2, <2>3, <2>4, <2>5 DEF Ev!ResetEvidence
<1>3. CASE Ev!Standing(gap)
  BY <1>3 DEF Ev!Standing, Ev!Blocked, Ev!ResetEvidence, Ev!Quiet
<1>4. CASE Ev!Beginning(gap)
  BY <1>4 DEF Ev!Beginning, Ev!Quiet
<1> QED
  BY <1>1, <1>2, <1>3, <1>4

\* Every step keeps the invariant.
LEMMA EvidenceStep == ASSUME EvidenceBounds, WorkedInv, [Ev!ENext]_(Ev!evars) PROVE WorkedInv'
<1>1. cfg \in Configs /\ saved \subseteq Configs
  BY DEF WorkedInv
<1>2. ASSUME NEW gap \in {-1} \cup 1..(MaxBetween + 1), Ev!Evaluate(gap) PROVE WorkedInv'
  <2>1. UNCHANGED <<cfg, saved>>
    BY <1>2 DEF Ev!Evaluate
  <2>2. CASE Ev!Suppressed(gap) \/ Ev!Running(gap) \/ Ev!Standing(gap) \/ Ev!Beginning(gap)
    <3>1. samples' = <<>> /\ worked' = 0 /\ intent' # "START"
      BY <2>2, OthersKeep
    <3>2. samples' \in Evidence /\ Weight(samples') = 0
      BY <3>1, NoEvidence
    <3> QED
      BY <1>1, <2>1, <3>1, <3>2 DEF WorkedInv, Covered, Ev!StartNeedsEvidence
  <2>3. CASE ~Ev!Begins(gap) /\ \E signal \in Ev!Signals : Ev!Gathering(Ev!SignalKind(signal), gap)
    <3>1. PICK signal \in Ev!Signals : Ev!Gathering(Ev!SignalKind(signal), gap)
      BY <2>3
    <3>2. Ev!SignalKind(signal) \in Ev!Signals
      BY DEF Ev!SignalKind, Ev!Signals
    <3>3. gap \in Nat
      <4>1. ~(gap < 0)
        BY <2>3 DEF Ev!Begins
      <4>2. gap \in Int
        BY DEF EvidenceBounds
      <4> QED
        BY <4>1, <4>2
    <3> QED
      BY <2>1, <3>1, <3>2, <3>3, GatheringKeeps
  <2> QED
    BY <1>2, <2>2, <2>3 DEF Ev!Evaluate
<1>3. ASSUME NEW c \in Configs, Ev!SaveSettings(c) PROVE WorkedInv'
  <2>1. CASE saved' = {c} /\ cfg' = c /\ Ev!Fresh
    BY <2>1, FreshKeeps DEF Ev!Fresh
  <2>2. CASE UNCHANGED <<cfg, saved, samples, tracking, worked, intent,
                         sinceTransition, sinceLocked, sinceFocused>>
    BY <2>2 DEF WorkedInv, Covered, Ev!StartNeedsEvidence
  <2> QED
    BY <1>3, <2>1, <2>2 DEF Ev!SaveSettings
<1>4. ASSUME NEW c \in Configs, Ev!Restart(c) PROVE WorkedInv'
  <2>1. cfg' \in Configs /\ saved' \subseteq Configs
    BY <1>1, <1>4 DEF Ev!Restart
  <2> QED
    BY <1>4, <2>1, FreshKeeps DEF Ev!Restart, Ev!Fresh
<1>5. CASE UNCHANGED Ev!evars
  BY <1>5 DEF Ev!evars, WorkedInv, Covered, Ev!StartNeedsEvidence
<1> QED
  BY <1>2, <1>3, <1>4, <1>5 DEF Ev!ENext

\* For any settings, samples and gaps, a session is proposed only on study seen for
\* the required time since the last interruption.
THEOREM StartsNeedEvidence == ASSUME EvidenceBounds PROVE Ev!ESpec => []Ev!StartNeedsEvidence
<1>1. Ev!EInit => WorkedInv
  BY NoEvidence DEF Ev!EInit, WorkedInv, Covered, Ev!StartNeedsEvidence
<1>2. WorkedInv => Ev!StartNeedsEvidence
  BY DEF WorkedInv
<1> QED
  BY <1>1, <1>2, EvidenceStep, PTL DEF Ev!ESpec

\* so it grows by each sample on the way back.
LEMMA AfterGrows ==
    ASSUME NEW s \in Evidence, NEW i \in 0..Len(s)
    PROVE  /\ Ev!After(s, i) \in Nat
           /\ i = Len(s) => Ev!After(s, i) = 0
           /\ i # Len(s) => /\ i + 1 \in 1..Len(s)
                            /\ Ev!After(s, i) = s[i + 1].n + Ev!After(s, i + 1)
<1> DEFINE len == Len(s)
           f == Spans(s)
<1>1. len \in Nat /\ \A j \in 1..len : s[j].n \in Nat /\ f[j] = s[j].n
  BY SampleFacts DEF Spans
<1>2. Ev!After(s, i) = SumOver(f, (i + 1)..len) /\ Ev!After(s, i) \in Nat
  BY AfterIsSum
<1> HIDE DEF f
<1>3. CASE i = len
  <2>1. (i + 1)..len = {}
    BY <1>1, <1>3
  <2> QED
    BY <1>2, <1>3, <2>1, SumEmpty
<1>4. CASE i # len
  <2>1. /\ i + 1 \in 1..len /\ i + 1 \in 0..len /\ i + 1 \in (i + 1)..len
        /\ ((i + 1)..len) \ {i + 1} = (i + 2)..len /\ (i + 1) + 1 = i + 2
        /\ (i + 1)..len \subseteq 1..len
    BY <1>1, <1>4
  <2>2. Ev!After(s, i + 1) = SumOver(Spans(s), ((i + 1) + 1)..Len(s))
    BY <2>1, AfterIsSum
  <2>3. IsFiniteSet((i + 1)..len)
    <3>1. i + 1 \in Int /\ len \in Int
      BY <1>1
    <3> QED
      BY <3>1, FS_Interval
  <2>4. SumOver(f, (i + 1)..len) = f[i + 1] + SumOver(f, ((i + 1)..len) \ {i + 1})
    <3>1. \A x \in (i + 1)..len : f[x] \in Nat
      BY <1>1, <2>1
    <3> QED
      BY ONLY <2>1, <2>3, <3>1, SumSplit, Zenon
  <2> QED
    BY <1>1, <1>2, <1>4, <2>1, <2>2, <2>4 DEF f
<1> QED
  BY <1>2, <1>3, <1>4

\* Of two sequences of samples whose times agree from some place on, what comes
\* after agrees.
LEMMA AfterShifts ==
    ASSUME NEW s \in Evidence, NEW t \in Evidence, NEW k \in Nat, Len(s) = Len(t) + k,
           \A i \in 1..Len(t) : t[i].n = s[i + k].n
    PROVE  \A i \in 0..Len(t) : Ev!After(t, i) = Ev!After(s, i + k)
<1> DEFINE len == Len(t)
           S == {i \in 0..len : Ev!After(t, i) = Ev!After(s, i + k)}
<1>1. len \in Nat /\ Len(s) = len + k
  BY SampleFacts
<1>2. len \in S
  <2>1. len \in 0..len /\ len + k \in 0..Len(s)
    BY <1>1
  <2> QED
    BY <1>1, <2>1, AfterGrows
<1>3. ASSUME NEW i \in 0..(len - 1), i + 1 \in S PROVE i \in S
  <2>1. /\ i \in 0..len /\ i # len /\ i + k \in 0..Len(s) /\ i + k # Len(s)
        /\ (i + 1) + k = (i + k) + 1 /\ i + 1 \in 1..len
    BY <1>1
  <2>2. Ev!After(t, i) = t[i + 1].n + Ev!After(t, i + 1)
    BY <2>1, AfterGrows
  <2>3. Ev!After(s, i + k) = s[(i + k) + 1].n + Ev!After(s, (i + k) + 1)
    BY <2>1, AfterGrows
  <2>4. t[i + 1].n = s[(i + 1) + k].n
    BY <2>1
  <2>5. Ev!After(t, i + 1) = Ev!After(s, (i + 1) + k)
    BY <1>3
  <2> QED
    BY <2>1, <2>2, <2>3, <2>4, <2>5
<1>4. 0..len \subseteq S
  <2> HIDE DEF S
  <2>1. \A i \in 0..(len - 1) : i + 1 \in S => i \in S
    BY <1>3
  <2> QED
    BY <1>1, <1>2, <2>1, DownTo
<1> QED
  BY <1>4

\* The last samples.
LEMMA TailContent ==
    ASSUME NEW s \in Evidence, NEW n \in Nat, n <= Len(s)
    PROVE  /\ Ev!Tail_(s, n) \in Evidence /\ Len(Ev!Tail_(s, n)) = n
           /\ \A i \in 1..n : Ev!Tail_(s, n)[i] = s[i + (Len(s) - n)]
<1>1. Len(s) \in Nat /\ Ev!Tail_(s, n) \in Evidence
  BY SampleFacts, TailFacts
<1>2. CASE n = Len(s)
  <2>1. Ev!Tail_(s, n) = s
    BY <1>1, <1>2 DEF Ev!Tail_
  <2> QED
    BY <1>1, <1>2, <2>1
<1>3. CASE n # Len(s)
  <2> DEFINE k == Len(s) - n
  <2>1. Ev!Tail_(s, n) = SubSeq(s, k + 1, Len(s)) /\ k \in Nat
    BY <1>1, <1>3 DEF Ev!Tail_
  <2>2. SubSeq(s, k + 1, Len(s)) = [i \in 1..n |-> s[i + k]]
    BY <1>1, <2>1
  <2> HIDE DEF k
  <2>3. DOMAIN Ev!Tail_(s, n) = 1..n /\ \A i \in 1..n : Ev!Tail_(s, n)[i] = s[i + k]
    BY <2>1, <2>2
  <2>4. Len(Ev!Tail_(s, n)) = n
    BY <1>1, <2>3, SampleFacts
  <2> QED
    BY <1>1, <2>3, <2>4 DEF k
<1> QED
  BY <1>2, <1>3

\* A set of places that goes on to the end is an interval.
LEMMA UpSet ==
    ASSUME NEW len \in Nat, NEW U, U \subseteq 1..len,
           \A i \in U : i # len => i + 1 \in U
    PROVE  \E k \in 0..len : U = (k + 1)..len /\ Cardinality(U) = len - k
<1>1. CASE U = {}
  <2>1. (len + 1)..len = {} /\ len \in 0..len /\ Cardinality(U) = 0 /\ len - len = 0
    BY <1>1, FS_EmptySet
  <2> QED
    BY <1>1, <2>1
<1>2. CASE U # {}
  <2>1. PICK m \in U : \A i \in U : m <= i
    <3>1. U \subseteq Nat
      OBVIOUS
    <3> QED
      BY <1>2, <3>1, LeastOf
  <2>2. m \in 1..len
    OBVIOUS
  <2> DEFINE B == {j \in m..len : j \notin U}
  <2>3. ASSUME B # {} PROVE FALSE
    <3>1. PICK j \in B : \A i \in B : j <= i
      <4>1. B \subseteq Nat
        BY <2>2
      <4> HIDE DEF B
      <4> QED
        BY <2>3, <4>1, LeastOf
    <3>2. j \in m..len /\ j \notin U /\ j # m
      OBVIOUS
    <3>3. j - 1 \in m..len /\ ~(j <= j - 1) /\ j - 1 # len /\ (j - 1) + 1 = j
      BY <2>2, <3>2
    <3>4. j - 1 \in U
      BY <3>1, <3>3
    <3> QED
      BY <3>2, <3>3, <3>4
  <2>4. U = m..len
    <3>1. \A i \in U : i \in m..len
      BY <2>1, <2>2
    <3>2. \A i \in m..len : i \in U
      BY <2>3
    <3> HIDE DEF B
    <3> QED
      BY <3>1, <3>2
  <2>5. Cardinality(m..len) = (len - m) + 1
    <3>1. m \in Int /\ len \in Int /\ ~(m > len)
      BY <2>2
    <3> QED
      BY <3>1, FS_Interval
  <2>6. m - 1 \in 0..len /\ (m - 1) + 1 = m /\ len - (m - 1) = (len - m) + 1
    BY <2>2
  <2> QED
    BY <2>4, <2>5, <2>6
<1> QED
  BY <1>1, <1>2

\* Samples that took time, none longer than a gap.
Positive(s) == s \in Evidence /\ \A i \in 1..Len(s) : s[i].n \in 1..MaxBetween

\* Trimming leaves just the samples in the window, which together fit in it.
LEMMA TrimFits ==
    ASSUME NEW s, Positive(s), NEW w \in Nat, MaxBetween \in Nat
    PROVE  /\ Positive(Ev!Trimmed(s, w)) /\ Len(Ev!Trimmed(s, w)) <= Len(s)
           /\ Ev!After(Ev!Trimmed(s, w), 0) <= w
<1> DEFINE len == Len(s)
           U == {i \in DOMAIN s : Ev!Within(s, w, i) > 0}
           n == Ev!Cardinality(U)
           kept == Ev!Tail_(s, n)
           t == [i \in DOMAIN kept |-> [kept[i] EXCEPT !.n = Ev!Within(kept, w, i)]]
<1>0. Ev!Trimmed(s, w) = t
  BY DEF Ev!Trimmed
<1>1. s \in Evidence /\ len \in Nat /\ DOMAIN s = 1..len /\ \A i \in 1..len : s[i].n \in 1..MaxBetween
  BY SampleFacts DEF Positive
<1>2. \A i \in 1..len : Ev!After(s, i) \in Nat
  BY <1>1, AfterGrows
<1>3. \A i \in 1..len : i \in U <=> Ev!After(s, i) < w
  <2> SUFFICES ASSUME NEW i \in 1..len PROVE Ev!Within(s, w, i) > 0 <=> Ev!After(s, i) < w
    BY <1>1
  <2>1. Ev!After(s, i) \in Nat /\ s[i].n \in Nat /\ s[i].n >= 1
    BY <1>1, <1>2
  <2> QED
    BY <2>1 DEF Ev!Within, Ev!Larger, Ev!Smaller
<1>4. \A i \in U : i # len => i + 1 \in U
  <2> SUFFICES ASSUME NEW i \in U, i # len PROVE i + 1 \in U
    OBVIOUS
  <2>1. i \in 1..len /\ i \in 0..len /\ i + 1 \in 1..len
    BY <1>1
  <2>2. Ev!After(s, i) = s[i + 1].n + Ev!After(s, i + 1)
    BY <1>1, <2>1, AfterGrows
  <2>3. s[i + 1].n \in Nat /\ Ev!After(s, i + 1) \in Nat /\ Ev!After(s, i) \in Nat
    BY <1>1, <1>2, <2>1
  <2>4. Ev!After(s, i) < w
    BY <1>3, <2>1
  <2>5. Ev!After(s, i + 1) < w
    BY <2>2, <2>3, <2>4
  <2> HIDE DEF U
  <2> QED
    BY <1>3, <2>1, <2>5
<1>5. U \subseteq 1..len
  BY <1>1
<1> HIDE DEF U
<1>6. PICK k \in 0..len : U = (k + 1)..len /\ Cardinality(U) = len - k
  BY <1>1, <1>4, <1>5, UpSet
<1>7. n \in Nat /\ n <= len /\ len - n = k /\ n + k = len
  BY <1>1, <1>6, SameCardinality
<1> HIDE DEF n
<1>8. kept \in Evidence /\ Len(kept) = n /\ \A i \in 1..n : kept[i] = s[i + k]
  BY <1>1, <1>7, TailContent
<1> HIDE DEF kept
<1>9. DOMAIN kept = 1..n
  BY <1>8, SampleFacts
<1>10. \A i \in 0..n : Ev!After(kept, i) = Ev!After(s, i + k) /\ Ev!After(kept, i) \in Nat
  <2>1. \A i \in 1..Len(kept) : kept[i].n = s[i + k].n
    BY <1>8
  <2> QED
    <3>1. k \in Nat /\ Len(s) = Len(kept) + k
      <4>1. len \in Nat /\ k \in 0..len /\ n + k = len /\ Len(kept) = n
        BY <1>1, <1>7, <1>8
      <4> QED
        BY ONLY <4>1
    <3>4. s \in Evidence /\ kept \in Evidence
      BY <1>1, <1>8
    <3>2. \A i \in 0..Len(kept) : Ev!After(kept, i) = Ev!After(s, i + k)
      BY ONLY <2>1, <3>1, <3>4, AfterShifts
    <3>3. \A i \in 0..Len(kept) : Ev!After(kept, i) \in Nat
      BY <1>8, AfterGrows
    <3> QED
      BY <1>8, <3>2, <3>3
<1>11. ASSUME NEW i \in 1..n
       PROVE  /\ kept[i].n \in 1..MaxBetween /\ Ev!After(kept, i) < w
              /\ Ev!Within(kept, w, i) \in 1..MaxBetween /\ Ev!Within(kept, w, i) <= kept[i].n
  <2>1. i + k \in 1..len /\ i + k \in U /\ i \in 0..n
    BY <1>1, <1>6, <1>7
  <2>2. kept[i].n \in 1..MaxBetween /\ Ev!After(kept, i) < w
    BY <1>1, <1>3, <1>8, <1>10, <2>1
  <2>3. Ev!After(kept, i) \in Nat
    BY <1>10, <2>1
  <2> QED
    BY <2>2, <2>3 DEF Ev!Within, Ev!Larger, Ev!Smaller
<1>12. t \in Evidence
  BY <1>0, <1>1, TrimFacts
<1>13. DOMAIN t = 1..n /\ \A i \in 1..n : t[i].n = Ev!Within(kept, w, i)
  <2>1. \A i \in 1..n : kept[i] \in [kind : Ev!Signals, n : Nat]
    BY <1>8, SampleFacts
  <2> QED
    BY <1>9, <2>1
<1> HIDE DEF t
<1>14. Len(t) = n
  <2>1. DOMAIN t = 1..Len(t) /\ Len(t) \in Nat
    BY <1>12, SampleFacts
  <2> QED
    BY <1>7, <1>13, <2>1
<1>15. Positive(t)
  BY <1>11, <1>12, <1>13, <1>14 DEF Positive
<1> DEFINE S == {j \in 0..n : Ev!After(t, j) <= w
                              /\ Ev!After(t, j) = Ev!Smaller(Ev!After(kept, j), w)}
<1>16. n \in S
  <2>1. n \in 0..n
    BY <1>7
  <2>2. Ev!After(t, n) = 0 /\ Ev!After(kept, n) = 0
    BY <1>8, <1>12, <1>14, <2>1, AfterGrows
  <2> QED
    BY <2>1, <2>2 DEF Ev!Smaller
<1>17. ASSUME NEW j \in 0..(n - 1), j + 1 \in S PROVE j \in S
  <2>1. j \in 0..n /\ j # n /\ j + 1 \in 1..n /\ j + 1 \in 0..n
    BY <1>7
  <2>2. Ev!After(t, j) = t[j + 1].n + Ev!After(t, j + 1)
    BY <1>12, <1>14, <2>1, AfterGrows
  <2>3. Ev!After(kept, j) = kept[j + 1].n + Ev!After(kept, j + 1)
    BY <1>8, <2>1, AfterGrows
  <2>4. /\ t[j + 1].n = Ev!Within(kept, w, j + 1)
        /\ kept[j + 1].n \in Nat /\ Ev!After(kept, j + 1) \in Nat
    BY <1>10, <1>11, <1>13, <2>1
  <2>5. Ev!After(t, j + 1) = Ev!Smaller(Ev!After(kept, j + 1), w)
    BY <1>17
  <2> DEFINE a == Ev!After(kept, j + 1)
             b == kept[j + 1].n
  <2>6. a \in Nat /\ b \in Nat
    BY <2>4
  <2>7. Ev!Within(kept, w, j + 1) = Ev!Larger(0, Ev!Smaller(b, w - a))
    BY DEF Ev!Within
  <2> HIDE DEF a, b
  <2>8. Ev!Larger(0, Ev!Smaller(b, w - a)) + Ev!Smaller(a, w) = Ev!Smaller(b + a, w)
        /\ Ev!Smaller(b + a, w) <= w
    BY <2>6 DEF Ev!Larger, Ev!Smaller
  <2> QED
    BY <2>1, <2>2, <2>3, <2>4, <2>5, <2>7, <2>8 DEF a, b
<1>18. 0 \in S
  <2> HIDE DEF S
  <2>1. \A j \in 0..(n - 1) : j + 1 \in S => j \in S
    BY <1>17
  <2>2. 0..n \subseteq S
    BY <1>7, <1>16, <2>1, DownTo
  <2> QED
    BY <1>7, <2>2
<1> QED
  BY <1>0, <1>7, <1>14, <1>15, <1>18

\* The bounds of the evidence's types.
EvidenceLimits == EvidenceBounds /\ MaxBack \in Nat /\ MaxSaves \in Nat /\ MaxRestarts \in Nat

\* Ages after n slips of the clock.
AgesAfter(n) == {Ev!Unset} \cup {{age} : age \in (-n)..Ev!Cap}
\* A window the code keeps: so many samples at most, and no more time than the window.
Kept(s, w) == Positive(s) /\ Len(s) <= MaxSamples /\ Ev!After(s, 0) <= w
\* What may be asked for.
Intents == {"none", "START", "PAUSE", "RESUME"}

\* The whole state within its bounds.
EvidenceRest ==
    /\ cfg \in Configs /\ saved \in {{}} \cup {{c} : c \in Configs}
    /\ Kept(samples, cfg.unclassified + cfg.grace)
    /\ tracking \in BOOLEAN /\ (~tracking => samples = <<>>)
    /\ sinceTransition \in AgesAfter(slips) /\ sinceLocked \in AgesAfter(slips)
    /\ sinceFocused \in AgesAfter(slips)
    /\ intent \in Intents /\ worked \in 0..Ev!Cap
    /\ slips \in 0..MaxBack /\ saves \in 0..MaxSaves /\ restarts \in 0..MaxRestarts

\* The time since a decision stays in range as time passes.
LEMMA AgedFacts ==
    ASSUME EvidenceBounds, NEW n \in Nat, NEW gap \in Int, gap >= -1
    PROVE  LET m == IF gap < 0 THEN n + 1 ELSE n
           IN  /\ m \in Nat /\ Ev!Unset \in AgesAfter(m) /\ {0} \in AgesAfter(m)
               /\ \A since_ \in AgesAfter(n) : Ev!Aged(since_, gap) \in AgesAfter(m)
<1> DEFINE m == IF gap < 0 THEN n + 1 ELSE n
<1>1. Ev!Cap \in Nat /\ m \in Nat
  BY CapFacts
<1>2. Ev!Unset \in AgesAfter(m) /\ {0} \in AgesAfter(m)
  BY <1>1 DEF AgesAfter
<1>3. ASSUME NEW since_ \in AgesAfter(n) PROVE Ev!Aged(since_, gap) \in AgesAfter(m)
  <2>1. CASE since_ = {}
    BY <2>1 DEF Ev!Aged, Ev!Unset, AgesAfter
  <2>2. ASSUME NEW age \in (-n)..Ev!Cap, since_ = {age} PROVE Ev!Aged(since_, gap) \in AgesAfter(m)
    <3>1. Ev!Aged(since_, gap) = {Ev!Smaller(age + gap, Ev!Cap)}
      BY <2>2 DEF Ev!Aged
    <3>2. Ev!Smaller(age + gap, Ev!Cap) \in (-m)..Ev!Cap
      BY <1>1 DEF Ev!Smaller
    <3> QED
      BY <3>1, <3>2 DEF AgesAfter
  <2> QED
    BY <2>1, <2>2 DEF AgesAfter, Ev!Unset
<1> QED
  BY <1>1, <1>2, <1>3

\* Nothing seen fits in any window.
LEMMA NothingKept ==
    ASSUME EvidenceBounds, NEW w \in Nat PROVE Kept(<<>>, w)
<1>1. <<>> \in Evidence /\ Len(<<>>) = 0 /\ 0 \in 0..Len(<<>>)
  BY NoEvidence
<1>2. Ev!After(<<>>, 0) = 0
  BY <1>1, AfterGrows
<1> QED
  BY <1>1, <1>2 DEF Kept, Positive, EvidenceBounds

\* What a tick gathers fits in the window.
LEMMA GatheredKept ==
    ASSUME EvidenceBounds, Positive(samples), NEW w \in Nat, w = cfg.unclassified + cfg.grace,
           NEW kind \in Ev!Signals, NEW gap \in 1..MaxBetween
    PROVE  Kept(Ev!Advanced(kind, gap), w)
<1> DEFINE e == [kind |-> kind, n |-> gap]
           all == Append(samples, e)
           kept == Ev!Tail_(all, MaxSamples)
           len == Len(samples)
<1>0. gap \in Nat /\ MaxSamples \in Nat /\ MaxBetween \in Nat
  BY DEF EvidenceBounds
<1>1. samples \in Evidence /\ len \in Nat /\ all \in Evidence
  BY <1>0, AppendFacts, SampleFacts DEF Positive
<1>2. Len(all) = len + 1 /\ all[len + 1] = e /\ \A i \in 1..len : all[i] = samples[i]
  BY <1>1, AppendProperties DEF Evidence
<1>3. Positive(all)
  <2>1. \A i \in 1..Len(all) : all[i].n \in 1..MaxBetween
    <3>1. e.n \in 1..MaxBetween
      OBVIOUS
    <3> HIDE DEF all, e
    <3> QED
      BY <1>1, <1>2, <3>1 DEF Positive
  <2> HIDE DEF all
  <2> QED
    BY <1>1, <2>1 DEF Positive
<1> HIDE DEF all
<1>4. Positive(kept) /\ Len(kept) <= MaxSamples
  <2>1. CASE Len(all) > MaxSamples
    <3>1. kept \in Evidence /\ Len(kept) = MaxSamples
          /\ \A i \in 1..MaxSamples : kept[i] = all[i + (Len(all) - MaxSamples)]
      <4>1. all \in Evidence /\ MaxSamples \in Nat /\ MaxSamples <= Len(all)
        BY <1>0, <1>1, <1>2, <2>1
      <4> QED
        BY <4>1, TailContent
    <3>2. \A i \in 1..MaxSamples : i + (Len(all) - MaxSamples) \in 1..Len(all)
      <4>1. MaxSamples \in Nat /\ Len(all) \in Nat /\ MaxSamples < Len(all)
        BY <1>0, <1>1, <1>2, <2>1
      <4> QED
        BY ONLY <4>1
    <3> HIDE DEF kept
    <3>3. \A i \in 1..Len(kept) : kept[i].n \in 1..MaxBetween
      BY <1>3, <3>1, <3>2 DEF Positive
    <3> QED
      BY <1>0, <3>1, <3>3 DEF Positive
  <2>2. CASE ~(Len(all) > MaxSamples)
    <3>1. kept = all
      BY <2>2 DEF Ev!Tail_
    <3> QED
      BY <1>0, <1>1, <1>2, <1>3, <2>2, <3>1
  <2> QED
    BY <2>1, <2>2
<1> HIDE DEF kept
<1>5. /\ Positive(Ev!Trimmed(kept, w)) /\ Len(Ev!Trimmed(kept, w)) <= Len(kept)
      /\ Ev!After(Ev!Trimmed(kept, w), 0) <= w
  BY <1>0, <1>4, TrimFits
<1>6. Ev!Advanced(kind, gap) = Ev!Trimmed(kept, w)
  BY DEF Ev!Advanced, kept, all, e
<1>7. Len(kept) \in Nat /\ Len(Ev!Trimmed(kept, w)) \in Nat
  BY <1>4, <1>5, SampleFacts DEF Positive
<1> QED
  BY <1>0, <1>4, <1>5, <1>6, <1>7 DEF Kept

\* A tick ages the timers or sets them, and proposes one of three transitions.
LEMMA TimersKeep ==
    ASSUME EvidenceLimits, EvidenceRest, NEW gap \in Int, gap >= -1,
           slips' = IF gap < 0 THEN slips + 1 ELSE slips,
           \/ Ev!Suppressed(gap) \/ Ev!Running(gap) \/ Ev!Standing(gap) \/ Ev!Beginning(gap)
           \/ \E kind \in Ev!Signals : Ev!Gathering(kind, gap)
    PROVE  /\ sinceTransition' \in AgesAfter(slips') /\ sinceLocked' \in AgesAfter(slips')
           /\ sinceFocused' \in AgesAfter(slips') /\ intent' \in Intents
<1> DEFINE G == AgesAfter(slips')
           a == Ev!Aged(sinceTransition, gap)
           b == Ev!Aged(sinceLocked, gap)
           c == Ev!Aged(sinceFocused, gap)
<1>0. slips \in Nat
  BY DEF EvidenceRest, EvidenceLimits
<1>1. Ev!Unset \in G /\ {0} \in G /\ a \in G /\ b \in G /\ c \in G
  BY <1>0, AgedFacts DEF EvidenceRest, EvidenceLimits
<1>2. /\ "none" \in Intents /\ "START" \in Intents /\ "PAUSE" \in Intents /\ "RESUME" \in Intents
  BY DEF Intents
<1>3. /\ sinceTransition' \in {a, {0}} /\ sinceLocked' \in {b, Ev!Unset, {0}}
      /\ sinceFocused' \in {c, Ev!Unset, {0}} /\ intent' \in Intents
  <2>1. CASE Ev!Suppressed(gap)
    BY <1>2, <2>1 DEF Ev!Suppressed, Ev!Ages, Ev!Quiet
  <2>2. CASE Ev!Running(gap)
    <3>1. ASSUME NEW locked, NEW idle, Ev!Pausing(locked, idle, gap)
          PROVE  /\ sinceTransition' \in {a, {0}} /\ sinceLocked' \in {b, Ev!Unset, {0}}
                 /\ sinceFocused' = c /\ intent' \in Intents
      BY <1>2, <3>1 DEF Ev!Pausing, Ev!Locking, Ev!Propose, Ev!Quiet
    <3>2. CASE Ev!Snoozing(gap)
      BY <1>2, <3>2 DEF Ev!Snoozing, Ev!Quiet
    <3>3. ASSUME NEW focused, Ev!Resuming(focused, gap)
          PROVE  /\ sinceTransition' \in {a, {0}} /\ sinceLocked' = b
                 /\ sinceFocused' \in {c, Ev!Unset, {0}} /\ intent' \in Intents
      BY <1>2, <3>3 DEF Ev!Resuming, Ev!Propose, Ev!Quiet
    <3> QED
      BY <2>2, <3>1, <3>2, <3>3 DEF Ev!Running
  <2>3. CASE Ev!Standing(gap)
    BY <1>2, <2>3 DEF Ev!Standing, Ev!NotResuming, Ev!Quiet
  <2>4. CASE Ev!Beginning(gap)
    BY <1>2, <2>4 DEF Ev!Beginning, Ev!NotResuming, Ev!Quiet
  <2>5. ASSUME NEW kind, Ev!Gathering(kind, gap)
        PROVE  /\ sinceTransition' \in {a, {0}} /\ sinceLocked' = b
               /\ sinceFocused' = Ev!Unset /\ intent' \in Intents
    BY <1>2, <2>5 DEF Ev!Gathering, Ev!NotResuming, Ev!Propose, Ev!Quiet
  <2> QED
    BY <2>1, <2>2, <2>3, <2>4, <2>5
<1> HIDE DEF G, a, b, c
<1>4. sinceTransition' \in G /\ sinceLocked' \in G /\ sinceFocused' \in G
  BY <1>1, <1>3
<1> QED
  BY <1>3, <1>4 DEF G

\* New settings and a restart begin without evidence.
LEMMA FreshRest ==
    ASSUME EvidenceLimits, EvidenceRest, Ev!Fresh, cfg' \in Configs, UNCHANGED slips,
           saved' \in {{}} \cup {{c} : c \in Configs},
           saves' \in 0..MaxSaves, restarts' \in 0..MaxRestarts
    PROVE  EvidenceRest'
<1>1. /\ samples' = <<>> /\ tracking' = FALSE /\ worked' = 0 /\ intent' = "none"
      /\ sinceTransition' = Ev!Unset /\ sinceLocked' = Ev!Unset /\ sinceFocused' = Ev!Unset
  BY DEF Ev!Fresh, Ev!ResetEvidence
<1>2. cfg'.unclassified + cfg'.grace \in Nat
  BY DEF EvidenceLimits, EvidenceBounds
<1>3. Kept(samples', cfg'.unclassified + cfg'.grace)
  BY <1>1, <1>2, NothingKept DEF EvidenceLimits
<1>4. worked' \in 0..Ev!Cap /\ intent' \in Intents /\ Ev!Unset \in AgesAfter(slips')
      /\ slips' \in 0..MaxBack
  BY <1>1, CapFacts DEF EvidenceLimits, Intents, AgesAfter, EvidenceRest
<1>5. tracking' \in BOOLEAN
  BY <1>1, Zenon
<1> QED
  BY <1>1, <1>3, <1>4, <1>5, Zenon DEF EvidenceRest, Kept

\* Every step of the controller keeps it there.
LEMMA EvidenceTypes == ASSUME EvidenceLimits, EvidenceRest, [Ev!ENext]_(Ev!evars) PROVE EvidenceRest'
<1>0. /\ cfg \in Configs /\ saved \in {{}} \cup {{c} : c \in Configs}
      /\ Kept(samples, cfg.unclassified + cfg.grace) /\ Positive(samples)
      /\ worked \in 0..Ev!Cap /\ slips \in 0..MaxBack /\ saves \in 0..MaxSaves
      /\ restarts \in 0..MaxRestarts
  BY DEF EvidenceRest, Kept
<1>1. cfg.unclassified + cfg.grace \in Nat /\ Ev!Cap \in Nat
  BY <1>0, CapFacts DEF EvidenceLimits, EvidenceBounds
<1>2. ASSUME NEW gap \in {-1} \cup 1..(MaxBetween + 1), Ev!Evaluate(gap) PROVE EvidenceRest'
  <2>1. /\ UNCHANGED <<cfg, saved, saves, restarts>>
        /\ slips' = IF gap < 0 THEN slips + 1 ELSE slips
        /\ slips' <= MaxBack
    BY <1>2 DEF Ev!Evaluate
  <2>2. gap \in Int /\ gap >= -1
    BY DEF EvidenceLimits, EvidenceBounds
  <2>3. slips' \in 0..MaxBack
    BY <1>0, <2>1, <2>2 DEF EvidenceLimits
  <2>4. \A signal \in Ev!Signals : Ev!SignalKind(signal) \in Ev!Signals
    BY DEF Ev!SignalKind, Ev!Signals
  <2>5. \/ Ev!Suppressed(gap) \/ Ev!Running(gap) \/ Ev!Standing(gap) \/ Ev!Beginning(gap)
        \/ ~Ev!Begins(gap) /\ \E kind \in Ev!Signals : Ev!Gathering(kind, gap)
    BY <1>2, <2>4 DEF Ev!Evaluate
  <2>6. /\ sinceTransition' \in AgesAfter(slips') /\ sinceLocked' \in AgesAfter(slips')
        /\ sinceFocused' \in AgesAfter(slips') /\ intent' \in Intents
    BY <2>1, <2>2, <2>5, TimersKeep
  <2>7. /\ Kept(samples', cfg.unclassified + cfg.grace) /\ worked' \in 0..Ev!Cap
        /\ tracking' \in BOOLEAN /\ (~tracking' => samples' = <<>>)
    <3>1. CASE Ev!Suppressed(gap) \/ Ev!Running(gap) \/ Ev!Standing(gap) \/ Ev!Beginning(gap)
      <4>1. samples' = <<>> /\ worked' = 0
        BY <3>1, OthersKeep
      <4>2. Kept(samples', cfg.unclassified + cfg.grace) /\ worked' \in 0..Ev!Cap
        BY <1>1, <4>1, NothingKept DEF EvidenceLimits
      <4>3. tracking' = FALSE \/ tracking' = TRUE
        BY <3>1 DEF Ev!Suppressed, Ev!Running, Ev!Standing, Ev!Beginning, Ev!Blocked, Ev!ResetEvidence
      <4>4. tracking' \in BOOLEAN
        BY <4>3, Zenon
      <4> QED
        BY <4>1, <4>2, <4>4
    <3>2. CASE ~Ev!Begins(gap) /\ \E kind \in Ev!Signals : Ev!Gathering(kind, gap)
      <4>1. PICK kind \in Ev!Signals : Ev!Gathering(kind, gap)
        BY <3>2
      <4>2. gap \in 1..MaxBetween
        BY <3>2 DEF Ev!Begins, EvidenceLimits, EvidenceBounds
      <4>3. samples' = Ev!Advanced(kind, gap) /\ tracking' = TRUE
            /\ worked' = IF kind = "neutral" THEN worked ELSE Ev!Smaller(worked + gap, Ev!Cap)
        BY <4>1 DEF Ev!Gathering
      <4>4. Kept(samples', cfg.unclassified + cfg.grace)
        BY <1>0, <1>1, <4>2, <4>3, GatheredKept DEF EvidenceLimits
      <4>5. worked' \in 0..Ev!Cap
        BY <1>0, <1>1, <4>2, <4>3 DEF Ev!Smaller
      <4>6. tracking' \in BOOLEAN
        BY <4>3, Zenon
      <4> QED
        BY <4>3, <4>4, <4>5, <4>6
    <3> QED
      BY <2>5, <3>1, <3>2
  <2> QED
    BY <1>0, <2>1, <2>3, <2>6, <2>7, Zenon DEF EvidenceRest
<1>3. ASSUME NEW c \in Configs, Ev!SaveSettings(c) PROVE EvidenceRest'
  <2>1. saves' \in 0..MaxSaves /\ UNCHANGED <<slips, restarts>>
    BY <1>0, <1>3 DEF Ev!SaveSettings, EvidenceLimits
  <2>2. CASE saved' = {c} /\ cfg' = c /\ Ev!Fresh
    BY <1>0, <2>1, <2>2, FreshRest
  <2>3. CASE UNCHANGED <<cfg, saved, samples, tracking, worked, intent,
                         sinceTransition, sinceLocked, sinceFocused>>
    BY <2>1, <2>3, Zenon DEF EvidenceRest, Kept
  <2> QED
    BY <1>3, <2>2, <2>3 DEF Ev!SaveSettings
<1>4. ASSUME NEW c \in Configs, Ev!Restart(c) PROVE EvidenceRest'
  <2>1. restarts' \in 0..MaxRestarts /\ UNCHANGED <<saved, slips, saves>> /\ Ev!Fresh
    BY <1>0, <1>4 DEF Ev!Restart, EvidenceLimits
  <2>2. cfg' \in Configs
    BY <1>0, <1>4 DEF Ev!Restart
  <2> QED
    BY <1>0, <2>1, <2>2, FreshRest
<1>5. CASE UNCHANGED Ev!evars
  BY <1>5, Zenon DEF Ev!evars, EvidenceRest, Kept
<1> QED
  BY <1>2, <1>3, <1>4, <1>5 DEF Ev!ENext

\* The window the controller keeps stays bounded: Append and Trim leave at most
\* MaxSamples samples, no more time than the window, and the ages of the last
\* decisions in range, whatever the order of samples, failures and restarts.
THEOREM EvidenceTyped == ASSUME EvidenceLimits PROVE Ev!ESpec => []Ev!TypeOK
<1>1. Ev!EInit => EvidenceRest
  <2> SUFFICES ASSUME Ev!EInit PROVE EvidenceRest
    OBVIOUS
  <2>1. /\ cfg \in Configs /\ saved = {} /\ samples = <<>> /\ worked = 0 /\ intent = "none"
        /\ sinceTransition = Ev!Unset /\ sinceLocked = Ev!Unset /\ sinceFocused = Ev!Unset
        /\ slips = 0 /\ saves = 0 /\ restarts = 0
    BY DEF Ev!EInit
  <2>2. tracking \in BOOLEAN
    BY Zenon DEF Ev!EInit
  <2>3. cfg.unclassified + cfg.grace \in Nat
    BY <2>1 DEF EvidenceLimits, EvidenceBounds
  <2>4. Kept(samples, cfg.unclassified + cfg.grace)
    BY <2>1, <2>3, NothingKept DEF EvidenceLimits
  <2>5. /\ worked \in 0..Ev!Cap /\ intent \in Intents /\ Ev!Unset \in AgesAfter(slips)
        /\ slips \in 0..MaxBack /\ saves \in 0..MaxSaves /\ restarts \in 0..MaxRestarts
    BY <2>1, CapFacts DEF EvidenceLimits, Intents, AgesAfter
  <2>6. saved \in {{}} \cup {{c} : c \in Configs}
    BY <2>1
  <2> QED
    BY <2>1, <2>2, <2>4, <2>5, <2>6, Zenon DEF EvidenceRest
<1>2. ASSUME EvidenceRest PROVE Ev!TypeOK
  <2>1. AgesAfter(slips) \subseteq Ev!Since
    <3>1. slips \in Nat /\ slips <= MaxBack /\ MaxBack \in Nat /\ Ev!Cap \in Nat
      BY <1>2, CapFacts DEF EvidenceRest, EvidenceLimits
    <3> QED
      BY <3>1 DEF AgesAfter, Ev!Since
  <2>2. \A i \in DOMAIN samples : samples[i].kind \in Ev!Signals /\ samples[i].n \in 1..MaxBetween
    BY <1>2, SampleFacts DEF EvidenceRest, Kept, Positive
  <2>3. /\ cfg \in Configs /\ saved \in {{}} \cup {{c} : c \in Configs}
        /\ Len(samples) <= MaxSamples /\ Ev!After(samples, 0) <= cfg.unclassified + cfg.grace
        /\ intent \in Intents /\ worked \in 0..Ev!Cap
        /\ slips \in 0..MaxBack /\ saves \in 0..MaxSaves /\ restarts \in 0..MaxRestarts
    BY <1>2 DEF EvidenceRest, Kept
  <2>4. sinceTransition \in Ev!Since /\ sinceLocked \in Ev!Since /\ sinceFocused \in Ev!Since
    BY <1>2, <2>1 DEF EvidenceRest
  <2>5. tracking \in BOOLEAN /\ (~tracking => samples = <<>>)
    BY <1>2, Zenon DEF EvidenceRest
  <2> QED
    BY <2>2, <2>3, <2>4, <2>5, Zenon DEF Ev!TypeOK, Intents
<1> QED
  BY <1>1, <1>2, EvidenceTypes, PTL DEF Ev!ESpec

=============================================================================
