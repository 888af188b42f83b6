------------------------- MODULE WindowSeriesProofs -------------------------
(* The safety properties of WindowSeries, for every calendar, every cap    *)
(* and every retry window within it.                                       *)
EXTENDS WindowSeries, IngestionRunsLemmas

USE DaysAssumption, LossesAssumption, RetryWindowAssumption

(***************************************************************************)
(* Anchored windows.                                                       *)
(***************************************************************************)

(* A window begins on a Monday, ends on a Sunday, and holds its day.       *)
LEMMA WindowFacts ==
    ASSUME NEW d \in Int
    PROVE  /\ WindowStart(d) \in Int /\ LastOfWindow(d) \in Int
           /\ WindowStart(d) <= d /\ d <= WindowStart(d) + 6
           /\ WindowStart(d) % 7 = 1
           /\ LastOfWindow(d) = WindowStart(d) + 6 /\ IsSunday(LastOfWindow(d))
           /\ IsSunday(d) <=> d = WindowStart(d) + 6
  BY DEF WindowStart, LastOfWindow, IsSunday

(* Windows do not overlap: a Monday begins the window of each day up to    *)
(* the next Sunday.                                                        *)
LEMMA WindowUnique ==
    ASSUME NEW m \in Int, m % 7 = 1, NEW d \in Int, m <= d, d <= m + 6
    PROVE  WindowStart(d) = m
  BY DEF WindowStart

(* Later days lie in later windows, or in the same one.                    *)
LEMMA WindowMonotone ==
    ASSUME NEW d \in Int, NEW e \in Int, d <= e
    PROVE  WindowStart(d) <= WindowStart(e)
  BY DEF WindowStart

(* A day before another window's Monday has its own Sunday before it.      *)
LEMMA WindowApart ==
    ASSUME NEW d \in Int, NEW m \in Int, m % 7 = 1, d < m
    PROVE  LastOfWindow(d) < m
  BY DEF LastOfWindow, WindowStart

(* The days of the instance are numbers, and it begins on a Monday.        *)
LEMMA DayFacts ==
    ASSUME TypeOK
    PROVE  /\ Day \subseteq Nat /\ Day \subseteq 0 .. LastDay
           /\ today \in Day /\ today \in Int
           /\ Floor \in Day /\ Floor \in Nat /\ Floor <= today
           /\ cursor \in Int /\ start \in Int
           /\ \A d \in Day : WindowStart(d) \in Day
           /\ sessions \subseteq Day /\ \A d \in sessions : d < today
<1>1. Day \subseteq Nat /\ Day \subseteq 0 .. LastDay /\ today \in Day /\ today \in Int
  BY DEF TypeOK, Day
<1>2. Floor \in Day /\ Floor \in Nat /\ Floor <= today
  BY DEF TypeOK, Floor, Day
<1>3. cursor \in Int /\ start \in Int
  BY <1>1 DEF TypeOK
<1>4. ASSUME NEW d \in Day
      PROVE  WindowStart(d) \in Day
  <2>1. d \in Int /\ FirstDay \in Int /\ FirstDay <= d /\ d <= LastDay
    BY DEF Day
  <2>2. WindowStart(FirstDay) = FirstDay
    BY <2>1, WindowUnique
  <2>3. FirstDay <= WindowStart(d)
    BY <2>1, <2>2, WindowMonotone
  <2>4. QED
    BY <2>1, <2>3, WindowFacts DEF Day
<1>5. sessions \subseteq Day /\ \A d \in sessions : d < today
  <2>1. sessions \subseteq FirstDay .. today - 1 /\ today <= LastDay
    BY DEF TypeOK
  <2>2. QED
    BY <2>1, <1>1 DEF Day
<1>6. QED
  BY <1>1, <1>2, <1>3, <1>4, <1>5

(***************************************************************************)
(* Planning.                                                               *)
(***************************************************************************)

(* Where the backfill would start, in terms of the audit rows.             *)
LEMMA SeriesStartFacts ==
    ASSUME TypeOK
    PROVE  /\ SeriesStart \in Nat /\ Floor <= SeriesStart
           /\ \A d \in Day : Floor <= d /\ d < SeriesStart
                => \E p \in Day : log[p].status \in {"success", "skipped"} /\ d <= p
           /\ \A d \in Day :
                 log[d].status = "failed" /\ Floor <= d /\ NoneFailedBelowFloor
                 => SeriesStart <= d
           /\ \A d \in Day :
                 log[d].status = "skipped" /\ today - SkipRetryDays <= d
                 => SeriesStart <= d
<1> DEFINE cutoff == today - SkipRetryDays
           P == DatasetProgress(log, cutoff)
<1>1. /\ Floor \in Nat /\ Day \subseteq Nat /\ Day \subseteq 0 .. LastDay
      /\ cutoff \in Int /\ LastDay \in Nat /\ log \in [Day -> Row]
  BY DayFacts DEF TypeOK
<1>2. SeriesStart = DatasetStart(P, Floor)
  BY DEF SeriesStart
<1>3. Floor <= cutoff
  BY DayFacts DEF Floor
<1> HIDE DEF P, cutoff
<1>4. ProgressMeets(P, Day, log, cutoff)
  BY <1>1, ProgressFacts DEF P
<1>5. StartMeets(SeriesStart, P, Floor)
  <2>1. /\ P.processed_through \in Nat \cup {NoDay}
        /\ P.earliest_failed \in Nat \cup {NoDay}
        /\ P.earliest_recent_skip \in Nat \cup {NoDay}
    BY <1>1, <1>4 DEF ProgressMeets
  <2>2. QED
    BY <2>1, <1>1, <1>2, DatasetStartFacts
<1>6. SeriesStart \in Nat /\ Floor <= SeriesStart
  BY <1>5 DEF StartMeets
<1>7. ASSUME NEW d \in Day, Floor <= d, d < SeriesStart
      PROVE  \E p \in Day : log[p].status \in {"success", "skipped"} /\ d <= p
  <2> DEFINE k == P.processed_through
  <2>1. SeriesStart <= BoundedStart(k, Floor)
    BY <1>5 DEF StartMeets
  <2>2. k \in Day \cup {NoDay} /\ (k # NoDay => log[k].status \in {"success", "skipped"})
    BY <1>4 DEF ProgressMeets
  <2> HIDE DEF k
  <2>3. d \in Int /\ k \in Int
    BY <2>2, <1>1 DEF NoDay
  <2>4. k # NoDay /\ d <= k
    BY <2>1, <2>3, <1>1, <1>6, <1>7 DEF BoundedStart
  <2>5. QED
    BY <2>2, <2>4
<1>8. ASSUME NEW d \in Day, log[d].status = "failed", Floor <= d, NoneFailedBelowFloor
      PROVE  SeriesStart <= d
  <2> DEFINE k == P.earliest_failed
  <2>1. k # NoDay /\ k <= d /\ k \in Day /\ log[k].status = "failed"
    BY <1>8, <1>4 DEF ProgressMeets
  <2>2. Floor <= k
    BY <2>1, <1>8 DEF NoneFailedBelowFloor
  <2>3. SeriesStart <= k
    BY <2>1, <2>2, <1>5 DEF StartMeets
  <2> HIDE DEF k
  <2>4. k \in Int /\ d \in Int
    BY <2>1, <1>1
  <2>5. QED
    BY <2>1, <2>3, <2>4, <1>6
<1>9. ASSUME NEW d \in Day, log[d].status = "skipped", cutoff <= d
      PROVE  SeriesStart <= d
  <2> DEFINE k == P.earliest_recent_skip
  <2>1. k # NoDay /\ k <= d /\ k \in Day /\ cutoff <= k
    BY <1>9, <1>4 DEF ProgressMeets
  <2>2. Floor <= k => SeriesStart <= k
    BY <2>1, <1>5 DEF StartMeets
  <2> HIDE DEF k
  <2>3. k \in Int /\ d \in Int
    BY <2>1, <1>1
  <2>4. QED
    BY <2>1, <2>2, <2>3, <1>1, <1>3, <1>6
<1>10. QED
  BY <1>6, <1>7, <1>8, <1>9 DEF cutoff

(***************************************************************************)
(* Running one window.                                                     *)
(***************************************************************************)

(* The window being run: from its Monday to its Sunday, or to today.       *)
LEMMA EndFacts ==
    ASSUME TypeOK, Walking, phase = "running"
    PROVE  /\ End \in Day /\ End \in Int /\ cursor <= End /\ End <= today
           /\ WindowStart(End) = cursor /\ cursor % 7 = 1
           /\ IsSunday(End) \/ End = today
           /\ Floor <= End
           /\ \A d \in cursor .. End : d \in Day /\ WindowStart(d) = cursor
           /\ cursor + 7 <= today => End = cursor + 6
<1>1. /\ cursor = WindowStart(cursor) /\ WindowStart(start) <= cursor
      /\ cursor <= today /\ start <= today /\ Floor <= start
  BY DEF Walking
<1>2. cursor \in Int /\ today \in Int /\ start \in Int /\ Floor \in Int
  BY DayFacts
<1>3. cursor % 7 = 1
  BY <1>1, <1>2, WindowFacts
<1>4. /\ End \in Int /\ cursor <= End /\ End <= today /\ End <= cursor + 6
      /\ End = cursor + 6 \/ End = today
      /\ cursor + 7 <= today => End = cursor + 6
  BY <1>1, <1>2 DEF End
<1>5. WindowStart(End) = cursor
  BY <1>2, <1>3, <1>4, WindowUnique
<1>6. IsSunday(End) \/ End = today
  BY <1>4, <1>5, WindowFacts
<1>7. Floor <= End
  <2>1. start <= WindowStart(start) + 6 /\ WindowStart(start) \in Int
    BY <1>2, WindowFacts
  <2>2. QED
    BY <2>1, <1>1, <1>2, <1>4
<1>8. ASSUME NEW d \in cursor .. End
      PROVE  d \in Day /\ WindowStart(d) = cursor
  <2>1. d \in Int /\ cursor <= d /\ d <= End
    BY <1>2, <1>4
  <2>2. WindowStart(d) = cursor
    BY <2>1, <1>2, <1>3, <1>4, WindowUnique
  <2>3. d \in Day
    BY <2>1, <1>2, <1>4 DEF TypeOK, Day
  <2>4. QED
    BY <2>2, <2>3
<1>9. End \in Day
  BY <1>2, <1>4, <1>8
<1>10. QED
  BY <1>3, <1>4, <1>5, <1>6, <1>7, <1>8, <1>9

(* What a run reads of its window, from the lake or from the exchange: a   *)
(* session before the end whole, and nothing whole that is not a session.  *)
LEMMA ContentFacts ==
    ASSUME TypeOK, SundaysOff, FilesFinal, Walking, phase = "running"
    PROVE  /\ Content \in [cursor .. End -> Amount]
           /\ \A d \in cursor .. End :
                 /\ InContent(d) = Content[d]
                 /\ d \in sessions => Content[d] = "all"
                 /\ Content[d] = "all" => d \in sessions
<1>1. /\ End \in Day /\ WindowStart(End) = cursor /\ End \in Int /\ cursor \in Int
      /\ IsSunday(End) \/ End = today
  BY EndFacts, DayFacts
<1>2. End \notin sessions
  BY <1>1, DayFacts DEF SundaysOff
<1>3. CASE Landed
  <2>1. lake[End] # NotLanded /\ Content = lake[End]
    BY <1>3 DEF Landed, LakeKey, Content
  <2>2. lake[End] \in [cursor .. End -> Amount]
    BY <2>1, <1>1 DEF TypeOK
  <2>3. \A d \in cursor .. End : (d \in sessions /\ d < End => Content[d] = "all")
                              /\ (Content[d] = "all" => d \in sessions)
    BY <2>1, <1>1 DEF FilesFinal
  <2>4. \A d \in cursor .. End : d = End \/ d < End
    BY <1>1
  <2>5. QED
    BY <2>1, <2>2, <2>3, <2>4, <1>2 DEF InContent
<1>4. CASE ~Landed
  <2>1. Content = [d \in cursor .. End |-> AtSource(d)]
    BY <1>4 DEF Content, Answer
  <2>2. ASSUME NEW d
        PROVE  AtSource(d) \in Amount /\ (AtSource(d) = "all" <=> d \in sessions)
    <3>1. CASE d \in sessions
      <4>1. d # today
        BY <3>1, DayFacts
      <4>2. QED
        BY <3>1, <4>1 DEF AtSource, Amount
    <3>2. CASE d \notin sessions /\ d = today /\ trading
      BY <3>2 DEF AtSource, Amount
    <3>3. CASE d \notin sessions /\ ~(d = today /\ trading)
      BY <3>3 DEF AtSource, Amount
    <3>4. QED
      BY <3>1, <3>2, <3>3
  <2>3. QED
    BY <2>1, <2>2 DEF InContent
<1>5. QED
  BY <1>3, <1>4

(* A file is landed for good: only the current window's may be new.        *)
LEMMA LakeKept ==
    ASSUME TypeOK, SundaysOff, FilesFinal, Walking, phase = "running",
           Land \/ UNCHANGED lake
    PROVE  /\ DOMAIN lake' = Day
           /\ \A e \in Day : \/ lake'[e] = lake[e]
                             \/ e = End /\ lake'[e] = Content
<1>1. CASE Land
  <2>1. lake' = [lake EXCEPT ![End] = Content] /\ DOMAIN lake = Day
    BY <1>1 DEF Land, LakeKey, TypeOK
  <2>2. QED
    BY <2>1
<1>2. CASE UNCHANGED lake
  BY <1>2 DEF TypeOK
<1>3. QED
  BY <1>1, <1>2

(* A day the table holds whole stays whole; a window that loads is whole.  *)
LEMMA TapeKept ==
    ASSUME TypeOK, SundaysOff, FilesFinal, Walking, phase = "running",
           tape' = Replaced \/ UNCHANGED tape
    PROVE  /\ tape' \in [Day -> Amount]
           /\ \A d \in Day : tape[d] = "all" => tape'[d] = "all"
           /\ \A d \in Day : tape'[d] = "all" => d \in sessions
           /\ tape' = Replaced =>
                 \A d \in cursor .. End : d \in sessions => tape'[d] = "all"
<1>1. \A d \in Day : tape[d] = "all" => d \in sessions
  BY DEF FilesFinal
<1>2. tape \in [Day -> Amount]
  BY DEF TypeOK
<1>3. CASE tape' = Replaced
  <2>1. tape' = [d \in Day |-> IF d \in cursor .. End THEN InContent(d) ELSE tape[d]]
    BY <1>3 DEF Replaced
  <2>2. \A d \in cursor .. End : /\ d \in Day /\ InContent(d) \in Amount
                                 /\ d \in sessions <=> InContent(d) = "all"
    <3>1. \A d \in cursor .. End : d \in Day
      BY EndFacts
    <3>2. QED
      BY <3>1, ContentFacts
  <2>3. QED
    BY <2>1, <2>2, <1>1, <1>2
<1>4. CASE UNCHANGED tape /\ tape' # Replaced
  BY <1>1, <1>2, <1>4
<1>5. QED
  BY <1>3, <1>4

(* The one thing all outcomes of a window have in common: its audit row is *)
(* written, or its write is lost, and the walk goes on.                    *)
Attempted(row) ==
    /\ row \in Row /\ row # NoRow
    /\ log' = Record(log, End, row)
    /\ row.status = "success" => tape' = Replaced
    /\ UNCHANGED <<unaudited, losses>>

Lost ==
    /\ losses < MaxLosses
    /\ losses' = losses + 1
    /\ unaudited' = unaudited \cup {End}
    /\ UNCHANGED log

WindowStep ==
    /\ phase = "running"
    /\ Land \/ UNCHANGED lake
    /\ tape' = Replaced \/ UNCHANGED tape
    /\ (\E row : Attempted(row)) \/ Lost
    /\ Advance
    /\ UNCHANGED <<today, sessions, trading>>

(* Every outcome of a window is such a step.                               *)
LEMMA WindowRunIsStep ==
    ASSUME WindowRun
    PROVE  WindowStep
<1> DEFINE loaded == [status |-> "success", rows |-> 1]
           skipped == [status |-> "skipped", rows |-> 0]
           failed == [status |-> "failed", rows |-> 0]
<1>1. /\ loaded \in Row /\ loaded # NoRow /\ loaded.status = "success"
      /\ skipped \in Row /\ skipped # NoRow /\ skipped.status # "success"
      /\ failed \in Row /\ failed # NoRow /\ failed.status # "success"
  BY DEF Row, NoRow, Status
<1>2. Audit("success", 1) = (log' = Record(log, End, loaded))
  BY DEF Audit
<1>3. Audit("skipped", 0) = (log' = Record(log, End, skipped))
  BY DEF Audit
<1>4. Audit("failed", 0) = (log' = Record(log, End, failed))
  BY DEF Audit
<1> HIDE DEF loaded, skipped, failed
<1>5. CASE WindowLoads
  <2>1. Attempted(loaded)
    BY <1>1, <1>2, <1>5 DEF WindowLoads, Attempted
  <2>2. QED
    BY <2>1, <1>5 DEF WindowLoads, WindowStep
<1>6. CASE WindowEmpty
  <2>1. Attempted(skipped)
    BY <1>1, <1>3, <1>6 DEF WindowEmpty, Attempted
  <2>2. QED
    BY <2>1, <1>6 DEF WindowEmpty, WindowStep
<1>7. CASE WindowRefused
  <2>1. Attempted(skipped)
    BY <1>1, <1>3, <1>7 DEF WindowRefused, Attempted
  <2>2. QED
    BY <2>1, <1>7 DEF WindowRefused, WindowStep
<1>8. CASE WindowFails
  <2>1. CASE Audit("failed", 0) /\ UNCHANGED <<unaudited, losses>>
    <3>1. Attempted(failed)
      BY <1>1, <1>4, <2>1 DEF Attempted
    <3>2. QED
      BY <3>1, <1>8 DEF WindowFails, WindowStep
  <2>2. CASE Lost
    BY <2>2, <1>8 DEF WindowFails, WindowStep
  <2>3. QED
    BY <2>1, <2>2, <1>8 DEF WindowFails, Lost
<1>9. QED
  BY <1>5, <1>6, <1>7, <1>8 DEF WindowRun

(* What a window's step does to the audit trail: only the row of its end   *)
(* changes, none is taken away, a success only over a replaced table, and  *)
(* the window is accounted for.                                            *)
LEMMA LogKept ==
    ASSUME TypeOK, Walking, WindowStep
    PROVE  /\ log' \in [Day -> Row]
           /\ \A e \in Day : e # End => log'[e] = log[e]
           /\ log[End] # NoRow => log'[End] # NoRow
           /\ log'[End].status = "success" =>
                 log[End].status = "success" \/ tape' = Replaced
           /\ unaudited \subseteq unaudited' /\ unaudited' \subseteq Day
           /\ log'[End] # NoRow \/ End \in unaudited'
           /\ losses' \in 0 .. MaxLosses
<1>1. End \in Day /\ log \in [Day -> Row] /\ unaudited \subseteq Day
  BY EndFacts DEF WindowStep, TypeOK
<1>2. losses \in 0 .. MaxLosses
  BY DEF TypeOK
<1>3. ASSUME NEW row, Attempted(row)
      PROVE  /\ log' \in [Day -> Row]
             /\ \A e \in Day : e # End => log'[e] = log[e]
             /\ log'[End] # NoRow
             /\ log'[End].status = "success" =>
                   log[End].status = "success" \/ tape' = Replaced
  <2>1. /\ row \in Row /\ row # NoRow
        /\ log' = [log EXCEPT ![End] = IF Overwrites(@, row) THEN row ELSE @]
    BY <1>3 DEF Attempted, Record
  <2>2. \/ log'[End] = row
        \/ log'[End] = log[End] /\ log[End] # NoRow
    BY <2>1, <1>1, OverwritesFacts
  <2>3. log'[End] \in Row /\ \A e \in Day : e # End => log'[e] = log[e]
    BY <2>1, <2>2, <1>1
  <2>4. DOMAIN log' = Day /\ log' \in [Day -> Row]
    BY <2>1, <1>1
  <2>5. row.status = "success" => tape' = Replaced
    BY <1>3 DEF Attempted
  <2>6. QED
    BY <2>1, <2>2, <2>3, <2>4, <2>5
<1>4. CASE \E row : Attempted(row)
  <2>1. PICK row : Attempted(row)
    BY <1>4
  <2>2. UNCHANGED <<unaudited, losses>>
    BY <2>1 DEF Attempted
  <2>3. QED
    BY <2>1, <2>2, <1>1, <1>2, <1>3
<1>5. CASE Lost
  BY <1>5, <1>1, <1>2 DEF Lost
<1>6. QED
  BY <1>4, <1>5 DEF WindowStep

(* Where the walk goes after a window, and that it stays a walk.           *)
LEMMA AdvanceFacts ==
    ASSUME TypeOK, Walking, WindowStep
    PROVE  /\ start' = start /\ phase' \in {"idle", "running"} /\ cursor' \in Day
           /\ phase' = "running" =>
                 /\ cursor' = cursor + 7 /\ cursor' <= today
                 /\ cursor' = WindowStart(cursor') /\ WindowStart(start) <= cursor'
<1>1. /\ cursor \in Int /\ today \in Int /\ start \in Int /\ Floor \in Int
      /\ cursor \in Day /\ today \in Day
  BY DayFacts DEF TypeOK
<1>2. WindowStart(start) \in Int
  BY <1>1, WindowFacts
<1>3. phase = "running" /\ WindowStart(start) <= cursor /\ cursor % 7 = 1
  BY EndFacts DEF WindowStep, Walking
<1>4. CASE cursor + 7 <= today
  <2>1. cursor' = cursor + 7 /\ phase' = "running" /\ start' = start
    BY <1>3, <1>4 DEF WindowStep, Advance
  <2>2. (cursor + 7) % 7 = 1
    BY <1>1, <1>3
  <2>3. WindowStart(cursor + 7) = cursor + 7
    BY <1>1, <2>2, WindowUnique
  <2>4. cursor + 7 \in Day
    BY <1>1, <1>4 DEF Day
  <2>5. QED
    BY <2>1, <2>3, <2>4, <1>1, <1>2, <1>3, <1>4
<1>5. CASE ~(cursor + 7 <= today)
  BY <1>1, <1>5 DEF WindowStep, Advance
<1>6. QED
  BY <1>4, <1>5

(* Running a window keeps the invariant.                                   *)
LEMMA WindowStepKeeps ==
    ASSUME IInv, WindowStep
    PROVE  IInv'
<1>0. /\ TypeOK /\ SundaysOff /\ FilesFinal /\ LoadedWhole /\ NoHole /\ Walking
      /\ IncompleteDaysCovered
  BY DEF IInv
<1>1. /\ phase = "running" /\ today' = today /\ sessions' = sessions /\ trading' = trading
      /\ Floor' = Floor /\ start' = start
  BY <1>0, AdvanceFacts DEF WindowStep, Floor
<1>2. /\ Day \subseteq Nat /\ today \in Int /\ cursor \in Int /\ start \in Int
      /\ Floor \in Int /\ sessions \subseteq Day /\ \A d \in sessions : d < today
  BY <1>0, DayFacts
<1>3. /\ End \in Day /\ End \in Int /\ cursor <= End /\ End <= today
      /\ WindowStart(End) = cursor
      /\ IsSunday(End) \/ End = today
      /\ Floor <= End
      /\ cursor + 7 <= today => End = cursor + 6
  BY <1>0, <1>1, EndFacts
<1>4. /\ log' \in [Day -> Row]
      /\ \A e \in Day : e # End => log'[e] = log[e]
      /\ log[End] # NoRow => log'[End] # NoRow
      /\ log'[End].status = "success" => log[End].status = "success" \/ tape' = Replaced
      /\ unaudited \subseteq unaudited' /\ unaudited' \subseteq Day
      /\ log'[End] # NoRow \/ End \in unaudited'
      /\ losses' \in 0 .. MaxLosses
  BY <1>0, LogKept
<1>5. /\ DOMAIN lake' = Day
      /\ \A e \in Day : lake'[e] = lake[e] \/ (e = End /\ lake'[e] = Content)
  BY <1>0, <1>1, LakeKept DEF WindowStep
<1>6. /\ tape' \in [Day -> Amount]
      /\ \A d \in Day : tape[d] = "all" => tape'[d] = "all"
      /\ \A d \in Day : tape'[d] = "all" => d \in sessions
      /\ tape' = Replaced => \A d \in cursor .. End : d \in sessions => tape'[d] = "all"
  BY <1>0, <1>1, TapeKept DEF WindowStep
<1>7. /\ Content \in [cursor .. End -> Amount]
      /\ \A d \in cursor .. End : /\ d \in sessions => Content[d] = "all"
                                  /\ Content[d] = "all" => d \in sessions
  BY <1>0, <1>1, ContentFacts
<1>8. /\ phase' \in {"idle", "running"} /\ cursor' \in Day
      /\ phase' = "running" =>
            /\ cursor' = cursor + 7 /\ cursor' <= today
            /\ cursor' = WindowStart(cursor') /\ WindowStart(start) <= cursor'
  BY <1>0, AdvanceFacts
<1>9. TypeOK'
  <2>1. \A e \in Day : lake'[e] = NotLanded \/ lake'[e] \in [WindowStart(e) .. e -> Amount]
    BY <1>0, <1>3, <1>5, <1>7 DEF TypeOK
  <2>2. /\ today' \in FirstAsOf .. LastDay /\ sessions' \subseteq FirstDay .. today' - 1
        /\ trading' \in BOOLEAN /\ start' \in Day
    BY <1>0, <1>1 DEF TypeOK
  <2>3. QED
    BY <2>1, <2>2, <1>4, <1>5, <1>6, <1>8 DEF TypeOK
<1>10. SundaysOff'
  BY <1>0, <1>1 DEF SundaysOff
<1>11. FilesFinal'
  <2>1. ASSUME NEW e \in Day, lake'[e] # NotLanded
        PROVE  /\ e <= today
               /\ \A d \in WindowStart(e) .. e :
                     /\ d \in sessions /\ d < e => lake'[e][d] = "all"
                     /\ lake'[e][d] = "all" => d \in sessions
    <3>1. CASE lake'[e] = lake[e]
      BY <2>1, <3>1, <1>0 DEF FilesFinal
    <3>2. CASE e = End /\ lake'[e] = Content
      BY <3>2, <1>3, <1>7
    <3>3. QED
      BY <3>1, <3>2, <1>5
  <2>2. QED
    BY <2>1, <1>1, <1>6 DEF FilesFinal
<1>12. LoadedWhole'
  <2>1. ASSUME NEW e \in Day, log'[e] # NoRow
        PROVE  e <= today
    BY <2>1, <1>0, <1>3, <1>4 DEF LoadedWhole
  <2>2. ASSUME NEW e \in Day, IsSunday(e), log'[e].status = "success",
               NEW d \in WindowStart(e) .. e, d \in sessions
        PROVE  tape'[d] = "all"
    <3>1. d \in Day
      BY <2>2, <1>2
    <3>2. CASE log[e].status = "success"
      BY <3>1, <3>2, <2>2, <1>0, <1>6 DEF LoadedWhole
    <3>3. CASE e = End /\ tape' = Replaced
      BY <3>3, <2>2, <1>3, <1>6
    <3>4. QED
      BY <3>2, <3>3, <2>2, <1>4
  <2>3. QED
    BY <2>1, <2>2, <1>1 DEF LoadedWhole
<1>13. ASSUME NEW e \in Day, Accounted(e)
       PROVE  Accounted(e)'
  BY <1>13, <1>4 DEF Accounted
<1>14. log'[End] # NoRow \/ End \in unaudited'
  BY <1>4
<1>15. ASSUME NEW e \in Day, IsSunday(e), Floor <= e, e < cursor
       PROVE  Accounted(e)'
  BY <1>15, <1>0, <1>1, <1>13 DEF Walking
<1>16. ASSUME NEW e \in Day, IsSunday(e), cursor <= e, e <= End
       PROVE  e = End
  <2>1. WindowStart(e) = cursor
    BY <1>16, <1>0, <1>1, <1>2, <1>3, EndFacts
  <2>2. e = cursor + 6 /\ End <= cursor + 6
    BY <2>1, <1>2, <1>3, <1>16, WindowFacts
  <2>3. QED
    BY <2>2, <1>2, <1>3, <1>16
<1>17. NoHole'
  <2>1. SUFFICES ASSUME NEW e \in Day, NEW later \in Day,
                        IsSunday(e), Floor <= e, e < later, log'[later] # NoRow
                 PROVE  Accounted(e)'
    BY <1>1 DEF NoHole
  <2>2. CASE later # End
    <3>1. Accounted(e)
      BY <2>1, <2>2, <1>0, <1>4 DEF NoHole
    <3>2. QED
      BY <3>1, <1>13
  <2>3. CASE later = End
    <3>1. e < cursor
      BY <2>1, <2>3, <1>2, <1>3, <1>16
    <3>2. QED
      BY <2>1, <3>1, <1>15
  <2>4. QED
    BY <2>2, <2>3
<1>18. Walking'
  <2>1. ASSUME phase' = "running", NEW e \in Day, IsSunday(e), Floor <= e, e < cursor + 7
        PROVE  Accounted(e)'
    <3>1. CASE e < cursor
      BY <2>1, <3>1, <1>15
    <3>2. CASE cursor <= e
      <4>1. e <= End
        BY <2>1, <1>2, <1>3, <1>8
      <4>2. QED
        BY <4>1, <2>1, <3>2, <1>14, <1>16 DEF Accounted
    <3>3. QED
      BY <3>1, <3>2, <1>2
  <2>2. WindowStart(start)' = WindowStart(start)
    BY <1>1 DEF WindowStart
  <2>3. WindowStart(cursor)' = WindowStart(cursor')
    BY DEF WindowStart
  <2>4. start <= today /\ Floor <= start
    BY <1>0, <1>1 DEF Walking
  <2>5. QED
    BY <2>1, <2>2, <2>3, <2>4, <1>1, <1>8 DEF Walking
<1>19. IncompleteDaysCovered'
  <2>1. SUFFICES ASSUME phase' = "running", NEW d \in Day, Incomplete(d)', ~GivenUp(d)',
                        LastOfWindow(d) >= Floor, NoneFailedBelowFloor'
                 PROVE  WindowStart(start) <= d
    BY <1>1 DEF IncompleteDaysCovered, LastOfWindow, WindowStart
  <2>2. Incomplete(d)
    BY <2>1, <1>1, <1>6 DEF Incomplete
  <2>3. NoneFailedBelowFloor
    BY <2>1, <1>1, <1>2, <1>3, <1>4 DEF NoneFailedBelowFloor
  <2>4. CASE LastOfWindow(d) # End
    <3>1. ~GivenUp(d)
      BY <2>1, <2>4, <1>1, <1>4 DEF GivenUp, LastOfWindow, WindowStart
    <3>2. QED
      BY <3>1, <2>1, <2>2, <2>3, <1>0, <1>1 DEF IncompleteDaysCovered
  <2>5. CASE LastOfWindow(d) = End
    <3>1. d \in Int /\ WindowStart(start) \in Int /\ WindowStart(start) <= cursor
      BY <1>0, <1>1, <1>2, WindowFacts DEF Walking
    <3>2. WindowStart(d) <= d /\ LastOfWindow(d) = WindowStart(d) + 6 /\ WindowStart(d) \in Int
      BY <3>1, WindowFacts
    <3>3. End <= cursor + 6
      BY <1>2, <1>3, WindowFacts
    <3>4. WindowStart(d) % 7 = 1 /\ cursor % 7 = 1
      BY <3>1, <1>0, <1>1, WindowFacts, EndFacts
    <3>5. WindowStart(d) = cursor
      BY <3>2, <3>3, <3>4, <2>5, <1>2, <1>3
    <3>6. QED
      BY <3>1, <3>2, <3>5, <1>2
  <2>6. QED
    BY <2>4, <2>5
<1>20. QED
  BY <1>9, <1>10, <1>11, <1>12, <1>17, <1>18, <1>19 DEF IInv

(***************************************************************************)
(* The other actions.                                                      *)
(***************************************************************************)

(* Nothing is landed, loaded or recorded before the first catch-up.        *)
LEMMA InitHolds == Init => IInv
<1> SUFFICES ASSUME Init
             PROVE  IInv
  OBVIOUS
<1>1. /\ Day \subseteq Nat /\ FirstDay \in Day /\ FirstAsOf \in Day /\ NoRow \in Row
      /\ NoRow.status \notin {"success", "failed"}
  BY DEF Day, Row, NoRow
<1>2. TypeOK
  <2>1. /\ today = FirstAsOf /\ trading = FALSE /\ phase = "idle" /\ losses = 0
        /\ start = FirstDay /\ cursor = FirstDay /\ unaudited = {}
        /\ sessions \subseteq FirstDay .. today - 1
    BY DEF Init
  <2>2. /\ lake = [e \in Day |-> NotLanded] /\ tape = [d \in Day |-> "none"]
        /\ log = [d \in Day |-> NoRow]
    BY DEF Init
  <2>3. today \in FirstAsOf .. LastDay /\ losses \in 0 .. MaxLosses
    BY <2>1
  <2>4. QED
    BY <2>1, <2>2, <2>3, <1>1 DEF TypeOK, Amount
<1>3. SundaysOff /\ FilesFinal /\ LoadedWhole /\ NoHole
  BY <1>1 DEF Init, SundaysOff, FilesFinal, LoadedWhole, NoHole, NotLanded
<1>4. phase = "idle"
  BY DEF Init
<1>5. QED
  BY <1>2, <1>3, <1>4 DEF IInv, Walking, IncompleteDaysCovered

(* Every session the table lacks, other than those of a window that was    *)
(* given up, lies in or after the window of the planned start day.         *)
LEMMA PlanReachesBack ==
    ASSUME IInv, NEW d \in Day, Incomplete(d), ~GivenUp(d),
           LastOfWindow(d) >= Floor, NoneFailedBelowFloor, SeriesStart <= today
    PROVE  WindowStart(SeriesStart) <= d
<1> DEFINE e == LastOfWindow(d)
<1>0. TypeOK /\ LoadedWhole /\ NoHole
  BY DEF IInv
<1>1. /\ d \in Int /\ today \in Day /\ today \in Int /\ Day \subseteq Nat
      /\ SeriesStart \in Int /\ Floor \in Int /\ WindowStart(d) \in Day
  BY <1>0, DayFacts, SeriesStartFacts
<1>2. /\ WindowStart(SeriesStart) \in Int /\ WindowStart(SeriesStart) % 7 = 1
      /\ WindowStart(SeriesStart) <= SeriesStart
      /\ e \in Int /\ IsSunday(e) /\ e = WindowStart(d) + 6 /\ WindowStart(d) <= d /\ d <= e
  BY <1>1, WindowFacts
<1>3. SUFFICES ASSUME d < WindowStart(SeriesStart)
               PROVE  FALSE
  BY <1>1, <1>2
<1>4. e < SeriesStart
  BY <1>1, <1>2, <1>3, WindowApart
<1> HIDE DEF e
<1>5. e \in Day
  BY <1>1, <1>2, <1>4 DEF Day
<1>6. /\ Floor <= e
      /\ ~(log[e].status = "skipped" /\ e < today - SkipRetryDays) /\ e \notin unaudited
  BY <1>1, <1>2, <1>5 DEF GivenUp, e
<1>7. PICK p \in Day : log[p].status \in {"success", "skipped"} /\ e <= p
  BY <1>0, <1>4, <1>5, <1>6, SeriesStartFacts
<1>8. log[e] # NoRow
  <2>1. log[p] # NoRow
    BY <1>7 DEF NoRow
  <2>2. CASE p = e
    BY <2>1, <2>2
  <2>3. CASE e < p
    BY <2>1, <2>3, <1>0, <1>2, <1>5, <1>6 DEF NoHole, Accounted
  <2>4. QED
    BY <2>2, <2>3, <1>1, <1>2, <1>7
<1>9. log[e].status \in {"success", "skipped", "failed"}
  BY <1>0, <1>5, <1>8 DEF TypeOK, Row, Status
<1>10. log[e].status # "failed"
  BY <1>0, <1>1, <1>2, <1>4, <1>5, <1>6, SeriesStartFacts
<1>11. log[e].status # "skipped"
  <2>1. CASE e < today - SkipRetryDays
    BY <2>1, <1>6
  <2>2. CASE today - SkipRetryDays <= e
    BY <2>2, <1>0, <1>1, <1>2, <1>4, <1>5, SeriesStartFacts
  <2>3. QED
    BY <2>1, <2>2, <1>1, <1>2
<1>12. WindowStart(e) = WindowStart(d)
  BY <1>1, <1>2, WindowFacts
<1>13. d \in WindowStart(e) .. e /\ d \in sessions /\ tape[d] # "all"
  BY <1>1, <1>2, <1>12 DEF Incomplete
<1>14. QED
  BY <1>0, <1>2, <1>5, <1>9, <1>10, <1>11, <1>13 DEF LoadedWhole

(* Planning starts a walk that reaches back far enough.                    *)
LEMMA PlanKeeps ==
    ASSUME IInv, Plan
    PROVE  IInv'
<1>0. /\ TypeOK /\ SundaysOff /\ FilesFinal /\ LoadedWhole /\ NoHole /\ Walking
      /\ IncompleteDaysCovered
  BY DEF IInv
<1>1. UNCHANGED <<today, sessions, trading, lake, tape, log, unaudited, losses>>
  BY DEF Plan
<1>2. CASE UNCHANGED run
  BY <1>0, <1>1, <1>2
     DEF IInv, TypeOK, SundaysOff, FilesFinal, LoadedWhole, NoHole, Walking, Accounted,
         IncompleteDaysCovered, Incomplete, GivenUp, NoneFailedBelowFloor, Floor, run
<1>3. CASE SeriesStart <= today /\ phase' = "running" /\ start' = SeriesStart
           /\ cursor' = WindowStart(SeriesStart)
  <2>1. /\ Day \subseteq Nat /\ today \in Day /\ today \in Int /\ Floor \in Day
        /\ Floor \in Int /\ SeriesStart \in Int /\ Floor <= SeriesStart
    BY <1>0, DayFacts, SeriesStartFacts
  <2>2. SeriesStart \in Day
    BY <2>1, <1>3 DEF Day
  <2>3. WindowStart(SeriesStart) \in Day
    BY <2>2, <1>0, DayFacts
  <2>4. /\ WindowStart(SeriesStart) \in Int /\ WindowStart(SeriesStart) <= SeriesStart
        /\ WindowStart(SeriesStart) % 7 = 1
    BY <2>1, WindowFacts
  <2>5. WindowStart(WindowStart(SeriesStart)) = WindowStart(SeriesStart)
    BY <2>4, WindowUnique
  <2>6. TypeOK'
    BY <1>0, <1>1, <1>3, <2>2, <2>3 DEF TypeOK
  <2>7. SundaysOff' /\ FilesFinal' /\ LoadedWhole' /\ NoHole'
    BY <1>0, <1>1 DEF SundaysOff, FilesFinal, LoadedWhole, NoHole, Accounted, Floor
  <2>8. ASSUME NEW e \in Day, IsSunday(e), Floor <= e, e < WindowStart(SeriesStart)
        PROVE  Accounted(e)
    <3>1. e \in Int /\ e < SeriesStart
      BY <2>1, <2>4, <2>8
    <3>2. PICK p \in Day : log[p].status \in {"success", "skipped"} /\ e <= p
      BY <3>1, <2>8, <1>0, SeriesStartFacts
    <3>3. log[p] # NoRow
      BY <3>2 DEF NoRow
    <3>4. CASE p = e
      BY <3>3, <3>4 DEF Accounted
    <3>5. CASE e < p
      BY <3>3, <3>5, <2>8, <1>0 DEF NoHole
    <3>6. QED
      BY <3>2, <3>4, <3>5, <2>1
  <2>9. Walking'
    <3>1. WindowStart(start)' = WindowStart(SeriesStart)
          /\ WindowStart(cursor)' = WindowStart(WindowStart(SeriesStart))
      BY <1>3 DEF WindowStart
    <3>2. WindowStart(SeriesStart) <= today
      BY <2>1, <2>4, <1>3
    <3>3. QED
      BY <3>1, <3>2, <2>1, <2>4, <2>5, <2>8, <1>1, <1>3 DEF Walking, Accounted, Floor
  <2>10. IncompleteDaysCovered'
    <3>1. SUFFICES ASSUME NEW d \in Day, Incomplete(d)', ~GivenUp(d)',
                          (LastOfWindow(d) >= Floor)', NoneFailedBelowFloor'
                   PROVE  WindowStart(start') <= d
      BY DEF IncompleteDaysCovered, WindowStart
    <3>2. Incomplete(d) /\ ~GivenUp(d) /\ LastOfWindow(d) >= Floor /\ NoneFailedBelowFloor
      BY <3>1, <1>1
         DEF Incomplete, GivenUp, NoneFailedBelowFloor, Floor, LastOfWindow, WindowStart
    <3>3. QED
      BY <3>2, <1>3, PlanReachesBack
  <2>11. QED
    BY <2>6, <2>7, <2>9, <2>10 DEF IInv
<1>4. QED
  BY <1>2, <1>3 DEF Plan, FirstWindow

(* A crash leaves at most a landed file behind.                            *)
LEMMA CrashKeeps ==
    ASSUME IInv, Crash
    PROVE  IInv'
<1>0. /\ TypeOK /\ SundaysOff /\ FilesFinal /\ LoadedWhole /\ NoHole /\ Walking
      /\ phase = "running"
  BY DEF IInv, Crash
<1>1. /\ UNCHANGED <<today, sessions, trading, tape, log, start, cursor, unaudited>>
      /\ phase' = "idle" /\ losses' \in 0 .. MaxLosses
  BY <1>0 DEF Crash, TypeOK
<1>2. End \in Day /\ WindowStart(End) = cursor /\ End <= today /\ End \in Int /\ cursor \in Int
  BY <1>0, EndFacts, DayFacts
<1>3. /\ DOMAIN lake' = Day
      /\ \A e \in Day : lake'[e] = lake[e] \/ (e = End /\ lake'[e] = Content)
  BY <1>0, LakeKept DEF Crash
<1>4. /\ Content \in [cursor .. End -> Amount]
      /\ \A d \in cursor .. End : /\ d \in sessions => Content[d] = "all"
                                  /\ Content[d] = "all" => d \in sessions
  BY <1>0, ContentFacts
<1>5. TypeOK'
  <2>1. \A e \in Day : lake'[e] = NotLanded \/ lake'[e] \in [WindowStart(e) .. e -> Amount]
    BY <1>0, <1>2, <1>3, <1>4 DEF TypeOK
  <2>2. QED
    BY <2>1, <1>0, <1>1, <1>3 DEF TypeOK
<1>6. FilesFinal'
  <2>1. ASSUME NEW e \in Day, lake'[e] # NotLanded
        PROVE  /\ e <= today
               /\ \A d \in WindowStart(e) .. e :
                     /\ d \in sessions /\ d < e => lake'[e][d] = "all"
                     /\ lake'[e][d] = "all" => d \in sessions
    <3>1. CASE lake'[e] = lake[e]
      BY <2>1, <3>1, <1>0 DEF FilesFinal
    <3>2. CASE e = End /\ lake'[e] = Content
      BY <3>2, <1>2, <1>4
    <3>3. QED
      BY <3>1, <3>2, <1>3
  <2>2. QED
    BY <2>1, <1>0, <1>1 DEF FilesFinal
<1>7. SundaysOff' /\ LoadedWhole' /\ NoHole'
  BY <1>0, <1>1 DEF SundaysOff, LoadedWhole, NoHole, Accounted, Floor
<1>8. QED
  BY <1>1, <1>5, <1>6, <1>7 DEF IInv, Walking, IncompleteDaysCovered

(* The calendar turns: today becomes a session if trades were published,   *)
(* and no file, no success and no Sunday speaks of it yet.                 *)
LEMMA NextDayKeeps ==
    ASSUME IInv, NextDay
    PROVE  IInv'
<1>0. TypeOK /\ SundaysOff /\ FilesFinal /\ LoadedWhole /\ NoHole
  BY DEF IInv
<1>1. /\ phase' = "idle" /\ today' = today + 1 /\ today < LastDay /\ trading' = FALSE
      /\ UNCHANGED <<lake, tape, log, start, cursor, unaudited, losses>>
      /\ sessions' = sessions \/ (trading /\ sessions' = sessions \cup {today})
  BY DEF NextDay, run
<1>2. /\ Day \subseteq Nat /\ today \in Day /\ today \in Int /\ Floor \in Int
      /\ Floor' \in Int /\ Floor <= Floor' /\ sessions \subseteq Day
  BY <1>0, <1>1, DayFacts DEF Floor
<1>3. sessions \subseteq sessions' /\ \A d \in sessions' : d \in sessions \/ d = today
  BY <1>1
<1>4. TypeOK'
  <2>1. today' \in FirstAsOf .. LastDay /\ sessions' \subseteq FirstDay .. today' - 1
    <3>1. today \in FirstAsOf .. LastDay /\ sessions \subseteq FirstDay .. today - 1
      BY <1>0 DEF TypeOK
    <3>2. QED
      BY <3>1, <1>1, <1>3
  <2>2. QED
    BY <2>1, <1>0, <1>1 DEF TypeOK
<1>5. SundaysOff'
  BY <1>0, <1>1, <1>3 DEF SundaysOff
<1>6. FilesFinal'
  <2>1. ASSUME NEW e \in Day, lake[e] # NotLanded
        PROVE  /\ e <= today'
               /\ \A d \in WindowStart(e) .. e :
                     /\ d \in sessions' /\ d < e => lake[e][d] = "all"
                     /\ lake[e][d] = "all" => d \in sessions'
    <3>1. /\ e <= today
          /\ \A d \in WindowStart(e) .. e :
                /\ d \in sessions /\ d < e => lake[e][d] = "all"
                /\ lake[e][d] = "all" => d \in sessions
      BY <2>1, <1>0 DEF FilesFinal
    <3>2. e \in Int
      BY <1>2
    <3>3. QED
      BY <3>1, <3>2, <1>1, <1>2, <1>3
  <2>2. \A d \in Day : tape[d] = "all" => d \in sessions'
    BY <1>0, <1>3 DEF FilesFinal
  <2>3. QED
    BY <2>1, <2>2, <1>1 DEF FilesFinal
<1>7. LoadedWhole'
  <2>1. ASSUME NEW e \in Day, log[e] # NoRow
        PROVE  e <= today'
    BY <2>1, <1>0, <1>1, <1>2 DEF LoadedWhole
  <2>2. ASSUME NEW e \in Day, IsSunday(e), log[e].status = "success",
               NEW d \in WindowStart(e) .. e, d \in sessions'
        PROVE  tape[d] = "all"
    <3>1. e <= today
      BY <2>2, <1>0 DEF LoadedWhole, NoRow
    <3>2. d # today
      <4>1. SUFFICES ASSUME d = today, d \notin sessions
                     PROVE  FALSE
        BY <1>0, DayFacts
      <4>2. trading /\ ~IsSunday(today)
        BY <4>1, <2>2, <1>0, <1>1 DEF SundaysOff
      <4>3. e = today
        BY <4>1, <3>1, <2>2, <1>2
      <4>4. QED
        BY <4>2, <4>3, <2>2
    <3>3. QED
      BY <3>2, <2>2, <1>0, <1>3 DEF LoadedWhole
  <2>3. QED
    BY <2>1, <2>2, <1>1 DEF LoadedWhole
<1>8. NoHole'
  <2>1. \A e \in Day : Floor' <= e => Floor <= e
    BY <1>2
  <2>2. QED
    BY <2>1, <1>0, <1>1 DEF NoHole, Accounted
<1>9. QED
  BY <1>1, <1>4, <1>5, <1>6, <1>7, <1>8 DEF IInv, Walking, IncompleteDaysCovered

(* Each step of the specification keeps the invariant.                     *)
LEMMA StepKeeps == IInv /\ [Next]_vars => IInv'
<1> SUFFICES ASSUME IInv, [Next]_vars
             PROVE  IInv'
  OBVIOUS
<1>1. CASE Plan
  BY <1>1, PlanKeeps
<1>2. CASE WindowRun
  BY <1>2, WindowRunIsStep, WindowStepKeeps
<1>3. CASE Crash
  BY <1>3, CrashKeeps
<1>4. CASE SessionOpens
  BY <1>4 DEF SessionOpens, IInv, TypeOK, SundaysOff, FilesFinal, LoadedWhole, NoHole, Walking,
     Accounted, IncompleteDaysCovered, Incomplete, GivenUp, NoneFailedBelowFloor, Floor, run
<1>5. CASE NextDay
  BY <1>5, NextDayKeeps
<1>6. CASE UNCHANGED vars
  BY <1>6 DEF vars, IInv, TypeOK, SundaysOff, FilesFinal, LoadedWhole, NoHole, Walking,
     Accounted, IncompleteDaysCovered, Incomplete, GivenUp, NoneFailedBelowFloor, Floor, run
<1>7. QED
  BY <1>1, <1>2, <1>3, <1>4, <1>5, <1>6 DEF Next

(***************************************************************************)
(* The theorems.                                                           *)
(***************************************************************************)

(* The inductive invariant of the windows holds in every reachable state.  *)
THEOREM WindowInvariant == Spec => []IInv
  BY InitHolds, StepKeeps, PTL DEF Spec

(* Whatever fails, is lost, or is landed too early, a backfill in progress *)
(* covers every past session the table does not hold whole, as long as its *)
(* window reaches the cap and was not given up (catch_up, _windows).       *)
THEOREM IncompleteCovered == Spec => []IncompleteDaysCovered
<1>1. IInv => IncompleteDaysCovered
  BY DEF IInv
<1>2. QED
  BY <1>1, WindowInvariant, PTL

(* No file of a clamped window, however old, takes trades of a whole day   *)
(* out of the table (replace_window).                                      *)
THEOREM WholeIsKept == Spec => WholeStaysWhole
<1>1. IInv /\ [Next]_vars => [\A d \in Day : tape[d] = "all" => tape'[d] = "all"]_vars
  <2> SUFFICES ASSUME IInv, Next
               PROVE  \A d \in Day : tape[d] = "all" => tape'[d] = "all"
    OBVIOUS
  <2>1. CASE WindowRun
    <3>1. WindowStep
      BY <2>1, WindowRunIsStep
    <3>2. QED
      BY <3>1, TapeKept DEF WindowStep, IInv
  <2>2. CASE Plan \/ Crash \/ SessionOpens \/ NextDay
    BY <2>2 DEF Plan, Crash, SessionOpens, NextDay
  <2>3. QED
    BY <2>1, <2>2 DEF Next
<1>2. QED
  BY <1>1, WindowInvariant, PTL DEF Spec, WholeStaysWhole

(* A success recorded under a Sunday means that the table holds the whole  *)
(* week: the row is never written for a part (execute_run, replace_window).*)
THEOREM SuccessIsWhole == Spec => []LoadedWhole
<1>1. IInv => LoadedWhole
  BY DEF IInv
<1>2. QED
  BY <1>1, WindowInvariant, PTL
=============================================================================
