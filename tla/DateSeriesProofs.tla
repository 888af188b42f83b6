-------------------------- MODULE DateSeriesProofs --------------------------
(***************************************************************************)
(* The safety properties of DateSeries, for every number of products, every *)
(* calendar, every cap and every retry window; then those of DerivedViews,  *)
(* which has the same calendar and cap and a state of its own, for every    *)
(* trailing window.                                                         *)
(***************************************************************************)
EXTENDS DateSeries, DerivedViews, IngestionRunsLemmas

USE ProductsAssumption, DaysAssumption, LossesAssumption

(***************************************************************************)
(* Planning.                                                               *)
(***************************************************************************)

(* Where one product's gap-fill would start, in terms of its audit rows.   *)
LEMMA StartOfFacts ==
    ASSUME TypeOK, NEW p \in Product
    PROVE  /\ Floor \in Day /\ Floor <= LastDay
           /\ StartOf(p) \in Nat /\ Floor <= StartOf(p) /\ StartOf(p) <= LastDay + 1
           /\ \A d \in Day : Floor <= d /\ d < StartOf(p)
                => \E e \in Day : Processed(p, e) /\ d <= e
           /\ \A d \in Day :
                 log[p][d].status = "failed" /\ Floor <= d /\ NoneFailedBelowFloor(p)
                 => StartOf(p) <= d
           /\ \A d \in Day :
                 /\ log[p][d].status = "skipped"
                 /\ Floor <= d /\ today - SkipRetryDays <= d
                 => StartOf(p) <= d
           /\ \A d, e \in Day : Processed(p, e) /\ e < d /\ d < StartOf(p)
                => \/ \E f \in Day : Processed(p, f) /\ d <= f
                   \/ d \in GapBeyondCap(Progress(p), StartOf(p))
           /\ GapBeyondCap(Progress(p), StartOf(p)) \subseteq Day
<1> DEFINE P == Progress(p)
           cutoff == today - SkipRetryDays
<1>1. Floor \in Day /\ Floor \in Nat /\ Floor <= LastDay /\ cutoff \in Int
  BY DEF TypeOK, Floor, Day
<1>2. log[p] \in [Day -> Row] /\ Day \subseteq 0 .. LastDay /\ LastDay \in Nat
  BY DEF TypeOK, Day
<1>3. P = DatasetProgress(log[p], cutoff)
  BY DEF Progress
<1> HIDE DEF P, cutoff
<1>4. ProgressMeets(P, Day, log[p], cutoff)
  BY <1>1, <1>2, <1>3, ProgressFacts
<1>5. Day \subseteq Nat
  BY DEF Day
<1>6. StartMeets(StartOf(p), P, Floor)
  <2>1. /\ P.processed_through \in Nat \cup {NoDay}
        /\ P.earliest_failed \in Nat \cup {NoDay}
        /\ P.earliest_recent_skip \in Nat \cup {NoDay}
    BY <1>4, <1>5 DEF ProgressMeets
  <2>2. StartOf(p) = DatasetStart(P, Floor)
    BY DEF StartOf, P
  <2>3. QED
    BY <2>1, <2>2, <1>1, DatasetStartFacts
<1>7. StartOf(p) <= LastDay + 1
  BY <1>1, <1>4, <1>6 DEF ProgressMeets, StartMeets, BoundedStart, Day, NoDay
<1>8. ASSUME NEW d \in Day, Floor <= d, d < StartOf(p)
      PROVE  \E e \in Day : Processed(p, e) /\ d <= e
  <2> DEFINE k == P.processed_through
  <2>1. StartOf(p) <= BoundedStart(k, Floor)
    BY <1>6 DEF StartMeets
  <2>2. k \in Day \cup {NoDay} /\ (k # NoDay => Processed(p, k))
    BY <1>4 DEF ProgressMeets, Processed
  <2> HIDE DEF k
  <2>3. d \in Int /\ Floor \in Int /\ StartOf(p) \in Int /\ k \in Int
    BY <2>2, <1>1, <1>5, <1>6 DEF StartMeets, NoDay
  <2>4. k # NoDay /\ d <= k
    BY <2>1, <2>3, <1>8 DEF BoundedStart
  <2>5. QED
    BY <2>2, <2>4
<1>9. ASSUME NEW d \in Day, log[p][d].status = "failed", Floor <= d, NoneFailedBelowFloor(p)
      PROVE  StartOf(p) <= d
  <2> DEFINE k == P.earliest_failed
  <2>1. k # NoDay /\ k <= d /\ k \in Day /\ log[p][k].status = "failed"
    BY <1>9, <1>4 DEF ProgressMeets
  <2>2. Floor <= k
    BY <2>1, <1>9 DEF NoneFailedBelowFloor
  <2>3. StartOf(p) <= k
    BY <2>1, <2>2, <1>6 DEF StartMeets
  <2> HIDE DEF k
  <2>4. k \in Int /\ d \in Int /\ StartOf(p) \in Int
    BY <2>1, <1>5, <1>6 DEF StartMeets
  <2>5. QED
    BY <2>1, <2>3, <2>4
<1>10. ASSUME NEW d \in Day, log[p][d].status = "skipped", Floor <= d, cutoff <= d
       PROVE  StartOf(p) <= d
  <2> DEFINE k == P.earliest_recent_skip
  <2>1. k # NoDay /\ k <= d /\ k \in Day /\ cutoff <= k
    BY <1>10, <1>1, <1>4, <1>5 DEF ProgressMeets
  <2>2. Floor <= cutoff
    BY RetryWindowAssumption DEF Floor, cutoff, TypeOK
  <2>3. Floor <= k => StartOf(p) <= k
    BY <2>1, <1>6 DEF StartMeets
  <2> HIDE DEF k
  <2>4. k \in Int /\ d \in Int /\ Floor \in Int /\ StartOf(p) \in Int
    BY <2>1, <1>1, <1>5, <1>6 DEF StartMeets
  <2>5. QED
    BY <2>1, <2>2, <2>3, <2>4, <1>1
<1>11. ASSUME NEW d \in Day, NEW e \in Day, Processed(p, e), e < d, d < StartOf(p)
       PROVE  \/ \E f \in Day : Processed(p, f) /\ d <= f
              \/ d \in GapBeyondCap(P, StartOf(p))
  <2> DEFINE k == P.processed_through
  <2>1. k # NoDay /\ k \in Day
    BY <1>11, <1>4 DEF ProgressMeets, Processed
  <2>2. Processed(p, k)
    BY <2>1, <1>4 DEF ProgressMeets, Processed
  <2>3. GapBeyondCap(P, StartOf(p)) = k + 1 .. StartOf(p) - 1
    BY <2>1 DEF GapBeyondCap
  <2> HIDE DEF k
  <2>4. k \in Int /\ d \in Int /\ StartOf(p) \in Int
    BY <2>1, <1>5, <1>6 DEF StartMeets
  <2>5. CASE d <= k
    BY <2>5, <2>1, <2>2
  <2>6. CASE k < d
    BY <2>6, <2>3, <2>4, <1>11
  <2>7. QED
    BY <2>4, <2>5, <2>6
<1>12. GapBeyondCap(P, StartOf(p)) \subseteq Day
  BY <1>4, <1>6, <1>7 DEF ProgressMeets, StartMeets, GapBeyondCap, Day, NoDay
<1>13. QED
  BY <1>1, <1>6, <1>7, <1>8, <1>9, <1>10, <1>11, <1>12 DEF StartMeets, P, cutoff

(* The source resumes where its laggard product would.                     *)
LEMMA SeriesStartFacts ==
    ASSUME TypeOK
    PROVE  /\ SeriesStart \in Nat /\ Floor <= SeriesStart
           /\ \A p \in Product : SeriesStart <= StartOf(p)
<1> DEFINE S == {StartOf(p) : p \in Product}
<1>1. S \subseteq Nat /\ S # {}
  BY StartOfFacts DEF Product
<1>2. SeriesStart \in S /\ \A e \in S : SeriesStart <= e
  BY <1>1, EarliestIsLeast DEF SeriesStart
<1>3. PICK p \in Product : SeriesStart = StartOf(p)
  BY <1>2
<1>4. SeriesStart \in Nat /\ Floor <= SeriesStart
  BY <1>3, StartOfFacts
<1>5. QED
  BY <1>2, <1>4

(* The next business day is the day itself, or Monday for a Sunday.        *)
LEMMA BusinessDayFacts ==
    ASSUME NEW d \in Nat
    PROVE  /\ BusinessDayFrom(d) \in Nat
           /\ ~IsSunday(BusinessDayFrom(d))
           /\ d <= BusinessDayFrom(d)
           /\ \A e \in Nat : ~IsSunday(e) /\ e < BusinessDayFrom(d) => e < d
  BY DEF BusinessDayFrom, IsSunday

(***************************************************************************)
(* The steps of a backfill.                                                *)
(***************************************************************************)

(* Advance stays inside the window and leaves behind it only the day and   *)
(* product just ingested.                                                  *)
LEMMA AdvanceFacts ==
    ASSUME TypeOK, BackfillInWindow, phase = "running", Advance, today' = today
    PROVE  /\ start' = start
           /\ phase' \in {"idle", "running"} /\ cursor' \in Day /\ turn' \in Product
           /\ phase' = "running" => BackfillInWindow'
           /\ phase' = "running" =>
                \A p \in Product, d \in Day :
                    /\ ~IsSunday(d)
                    /\ d < cursor' \/ (d = cursor' /\ p < turn')
                    => d < cursor \/ (d = cursor /\ (p < turn \/ p = turn))
<1> DEFINE next == BusinessDayFrom(cursor + 1)
<1>1. /\ cursor \in Nat /\ cursor \in Day /\ turn \in 1 .. NumProducts
      /\ start \in Nat /\ Floor <= start /\ start <= cursor /\ cursor <= today
      /\ ~IsSunday(cursor) /\ Floor \in Int /\ today \in Nat /\ today <= LastDay
  BY DEF TypeOK, Day, BackfillInWindow, Product, Floor
<1>2. /\ next \in Nat /\ ~IsSunday(next) /\ cursor + 1 <= next
      /\ \A e \in Nat : ~IsSunday(e) /\ e < next => e < cursor + 1
  BY <1>1, BusinessDayFacts
<1>3. Floor' = Floor /\ start' = start
  BY DEF Floor, Advance
<1> HIDE DEF next
<1>4. CASE turn < NumProducts /\ turn' = turn + 1 /\ UNCHANGED <<phase, cursor>>
  BY <1>1, <1>3, <1>4 DEF Product, BackfillInWindow
<1>5. CASE /\ turn = NumProducts /\ next <= today
           /\ turn' = 1 /\ cursor' = next /\ UNCHANGED phase
  <2>1. cursor' \in Day
    BY <1>1, <1>2, <1>5 DEF Day
  <2>2. BackfillInWindow'
    BY <1>1, <1>2, <1>3, <1>5 DEF BackfillInWindow
  <2>3. ASSUME NEW p \in Product, NEW d \in Day, ~IsSunday(d),
               d < cursor' \/ (d = cursor' /\ p < turn')
        PROVE  d < cursor \/ (d = cursor /\ (p < turn \/ p = turn))
    BY <1>1, <1>2, <1>5, <2>3 DEF Day, Product
  <2>4. QED
    BY <1>1, <1>3, <1>5, <2>1, <2>2, <2>3 DEF Product
<1>6. CASE turn = NumProducts /\ next > today /\ phase' = "idle" /\ UNCHANGED <<cursor, turn>>
  BY <1>1, <1>3, <1>6 DEF Product
<1>7. QED
  BY <1>4, <1>5, <1>6 DEF Advance, next

(* The failed row written over a success row of its own run gives way to   *)
(* it, unless the success reported no rows.                                *)
LEMMA AuditTwiceFacts ==
    ASSUME TypeOK, NEW rows \in {0, 1}, AuditTwice(rows)
    PROVE  /\ log' \in [Product -> [Day -> Row]]
           /\ \A p \in Product, d \in Day :
                 p # turn \/ d # cursor => log'[p][d] = log[p][d]
           /\ log'[turn][cursor] # NoRow
           /\ rows = 1 => log'[turn][cursor] = [status |-> "success", rows |-> 1]
<1> DEFINE success == [status |-> "success", rows |-> rows]
           failed == [status |-> "failed", rows |-> 0]
           once == Record(log[turn], cursor, success)
           twice == Record(once, cursor, failed)
<1>1. turn \in Product /\ cursor \in Day /\ log \in [Product -> [Day -> Row]]
  BY DEF TypeOK
<1>2. /\ success \in Row \ {NoRow} /\ failed \in Row \ {NoRow}
      /\ \A old \in Row : Overwrites(old, success)
      /\ Overwrites(success, failed) <=> rows = 0
  BY DEF Row, NoRow, Status, Overwrites
<1>3. log' = [log EXCEPT ![turn] = twice]
  BY DEF AuditTwice
<1> HIDE DEF success, failed
<1>4. once = [log[turn] EXCEPT ![cursor] = success]
  BY <1>1, <1>2 DEF Record
<1>5. twice = [once EXCEPT ![cursor] = IF rows = 0 THEN failed ELSE success]
  BY <1>1, <1>2, <1>4 DEF Record
<1> HIDE DEF once, twice
<1>6. /\ twice \in [Day -> Row]
      /\ \A d \in Day \ {cursor} : twice[d] = log[turn][d]
      /\ twice[cursor] = IF rows = 0 THEN failed ELSE success
  BY <1>1, <1>2, <1>4, <1>5
<1>7. /\ log' \in [Product -> [Day -> Row]]
      /\ \A p \in Product, d \in Day :
            p # turn \/ d # cursor => log'[p][d] = log[p][d]
      /\ log'[turn][cursor] = IF rows = 0 THEN failed ELSE success
  BY <1>1, <1>3, <1>6
<1>8. QED
  BY <1>2, <1>7 DEF success

(* A run changes one audit row, its own, and leaves that day accounted     *)
(* for; every day accounted for before it stays so.                        *)
LEMMA RunFacts ==
    ASSUME TypeOK, RunOutcome
    PROVE  /\ phase = "running" /\ today' = today /\ warned' = warned /\ Advance
           /\ log' \in [Product -> [Day -> Row]]
           /\ stored' \in [Product -> SUBSET Day]
           /\ unaudited' \in [Product -> SUBSET Day]
           /\ losses' \in 0 .. MaxLosses
           /\ \A p \in Product, d \in Day :
                p # turn \/ d # cursor => log'[p][d] = log[p][d]
           /\ \A p \in Product : unaudited[p] \subseteq unaudited'[p]
           /\ \A p \in Product, d \in Day : Accounted(p, d) => Accounted(p, d)'
           /\ \A p \in Product, d \in Day : p = turn /\ d = cursor => Accounted(p, d)'
<1>1. /\ turn \in Product /\ cursor \in Day /\ losses \in 0 .. MaxLosses
      /\ log \in [Product -> [Day -> Row]]
      /\ unaudited \in [Product -> SUBSET Day] /\ stored \in [Product -> SUBSET Day]
  BY DEF TypeOK
<1>2. ASSUME NEW row \in Row \ {NoRow}, Audit(row)
      PROVE  /\ log' \in [Product -> [Day -> Row]]
             /\ \A p \in Product, d \in Day :
                    p # turn \/ d # cursor => log'[p][d] = log[p][d]
             /\ log'[turn][cursor] # NoRow
  <2> DEFINE mine == Record(log[turn], cursor, row)
  <2> DEFINE kept == IF Overwrites(log[turn][cursor], row) THEN row ELSE log[turn][cursor]
  <2>0. kept \in Row \ {NoRow}
    BY <1>1, OverwritesFacts
  <2>1. /\ mine \in [Day -> Row]
        /\ \A d \in Day \ {cursor} : mine[d] = log[turn][d]
        /\ mine[cursor] # NoRow
    <3>1. mine = [log[turn] EXCEPT ![cursor] = kept]
      BY DEF Record
    <3> HIDE DEF mine, kept
    <3>2. QED
      BY <1>1, <2>0, <3>1
  <2>2. log' = [log EXCEPT ![turn] = mine]
    BY <1>2 DEF Audit
  <2> HIDE DEF mine
  <2>3. QED
    BY <1>1, <2>1, <2>2
<1>3. ASSUME NEW row \in Row \ {NoRow}, Audit(row), UNCHANGED unaudited
      PROVE  /\ \A p \in Product : unaudited[p] \subseteq unaudited'[p]
             /\ \A p \in Product, d \in Day : Accounted(p, d) => Accounted(p, d)'
             /\ \A p \in Product, d \in Day : p = turn /\ d = cursor => Accounted(p, d)'
  BY <1>1, <1>2, <1>3 DEF Accounted
<1>4. CASE RunSucceeds
  <2>1. PICK rows \in {0, 1} : Audit([status |-> "success", rows |-> rows])
    BY <1>4 DEF RunSucceeds, RowsReported
  <2>2. [status |-> "success", rows |-> rows] \in Row \ {NoRow}
    BY DEF Row, NoRow, Status
  <2>3. QED
    BY <1>1, <1>2, <1>3, <1>4, <2>1, <2>2 DEF RunSucceeds
<1>5. [status |-> "success", rows |-> 0] \in Row \ {NoRow}
  BY DEF Row, NoRow, Status
<1>6. CASE RunSucceedsEmpty
  BY <1>1, <1>2, <1>3, <1>5, <1>6 DEF RunSucceedsEmpty
<1>7. [status |-> "skipped", rows |-> 0] \in Row \ {NoRow}
  BY DEF Row, NoRow, Status
<1>8. CASE RunSkips
  BY <1>1, <1>2, <1>3, <1>7, <1>8 DEF RunSkips
<1>9. [status |-> "failed", rows |-> 0] \in Row \ {NoRow}
  BY DEF Row, NoRow, Status
<1>10. CASE RunFails
  BY <1>1, <1>2, <1>3, <1>9, <1>10 DEF RunFails
<1>11. CASE RunUnaudited
  <2>1. /\ unaudited' = [unaudited EXCEPT ![turn] = @ \cup {cursor}]
        /\ losses < MaxLosses /\ losses' = losses + 1
        /\ UNCHANGED <<today, stored, log, warned>> /\ Advance /\ phase = "running"
    BY <1>11 DEF RunUnaudited
  <2>2. losses' \in 0 .. MaxLosses
    BY <1>1, <2>1
  <2>3. /\ unaudited' \in [Product -> SUBSET Day]
        /\ \A p \in Product : unaudited[p] \subseteq unaudited'[p]
        /\ cursor \in unaudited'[turn]
    BY <1>1, <2>1
  <2>4. QED
    BY <1>1, <2>1, <2>2, <2>3 DEF Accounted
<1>12. CASE CommitInDoubt
  <2>1. PICK rows \in {0, 1} : AuditTwice(rows)
    BY <1>12 DEF CommitInDoubt, RowsReported
  <2>2. /\ UNCHANGED <<today, warned, unaudited, losses>>
        /\ Advance /\ phase = "running" /\ stored' \in [Product -> SUBSET Day]
    BY <1>1, <1>12 DEF CommitInDoubt
  <2>3. /\ log' \in [Product -> [Day -> Row]]
        /\ \A p \in Product, d \in Day :
              p # turn \/ d # cursor => log'[p][d] = log[p][d]
        /\ log'[turn][cursor] # NoRow
    BY <2>1, AuditTwiceFacts
  <2>4. QED
    BY <1>1, <2>2, <2>3 DEF Accounted
<1>13. QED
  BY <1>4, <1>6, <1>8, <1>10, <1>11, <1>12 DEF RunOutcome

(* The inductive invariant survives every run of a backfill.               *)
LEMMA RunKeepsIInv ==
    ASSUME IInv, RunOutcome
    PROVE  IInv'
<1>1. TypeOK /\ BackfillInWindow /\ phase = "running"
  BY RunFacts DEF IInv
<1>2. /\ today' = today /\ warned' = warned
      /\ \A p \in Product, d \in Day :
           p # turn \/ d # cursor => log'[p][d] = log[p][d]
      /\ \A p \in Product : unaudited[p] \subseteq unaudited'[p]
      /\ \A p \in Product, d \in Day : Accounted(p, d) => Accounted(p, d)'
      /\ \A p \in Product, d \in Day : p = turn /\ d = cursor => Accounted(p, d)'
  BY <1>1, RunFacts
<1>3. /\ start' = start
      /\ phase' \in {"idle", "running"} /\ cursor' \in Day /\ turn' \in Product
      /\ phase' = "running" => BackfillInWindow'
      /\ phase' = "running" =>
           \A p \in Product, d \in Day :
               /\ ~IsSunday(d)
               /\ d < cursor' \/ (d = cursor' /\ p < turn')
               => d < cursor \/ (d = cursor /\ (p < turn \/ p = turn))
  BY <1>1, RunFacts, AdvanceFacts
<1>4. /\ Floor' = Floor /\ Floor \in Int /\ Floor <= start /\ start <= cursor
      /\ start \in Int /\ cursor \in Int /\ cursor \in Day /\ turn \in Product
      /\ Day \subseteq Int
  BY <1>1, <1>2 DEF Floor, TypeOK, Day, BackfillInWindow
<1>5. TypeOK'
  BY <1>1, <1>2, <1>3, RunFacts DEF TypeOK
<1>6. BackfillInWindow'
  BY <1>3 DEF BackfillInWindow
<1>7. BehindCursorAccounted
  BY DEF IInv
<1>8. BehindCursorAccounted'
  <2>1. SUFFICES ASSUME phase' = "running", NEW p \in Product, NEW d \in Day,
                        Floor <= d, ~IsSunday(d),
                        d < cursor' \/ (d = cursor' /\ p < turn')
                 PROVE  Accounted(p, d)'
    BY <1>4 DEF BehindCursorAccounted
  <2>2. d < cursor \/ (d = cursor /\ (p < turn \/ p = turn))
    BY <1>3, <2>1
  <2>3. CASE d < cursor \/ (d = cursor /\ p < turn)
    BY <1>1, <1>2, <1>7, <2>1, <2>3 DEF BehindCursorAccounted
  <2>4. CASE d = cursor /\ p = turn
    BY <1>2, <2>4
  <2>5. QED
    BY <2>2, <2>3, <2>4
<1>9. \A p \in Product, d \in Day : d < Floor => log'[p][d] = log[p][d]
  <2>1. \A d \in Day : d < Floor => d # cursor
    BY <1>4
  <2>2. QED
    BY <1>2, <2>1
<1>10. BelowFloorAccounted'
  <2>1. SUFFICES ASSUME NEW p \in Product, NEW d \in Day, d < Floor, ~IsSunday(d),
                        NEW e \in Day, Processed(p, e)', e < d
                 PROVE  (Accounted(p, d) \/ d \in warned[p])'
    BY <1>4 DEF BelowFloorAccounted
  <2>2. Processed(p, e)
    BY <1>9, <1>4, <2>1 DEF Processed
  <2>3. Accounted(p, d) \/ d \in warned[p]
    BY <1>1, <2>1, <2>2 DEF IInv, BelowFloorAccounted
  <2>4. QED
    BY <1>2, <2>3
<1>11. WindowAccounted'
  <2>1. SUFFICES ASSUME NEW p \in Product, NEW d \in Day, Floor <= d, ~IsSunday(d),
                        NEW f \in Day, Processed(p, f)', d < f
                 PROVE  Accounted(p, d)'
    BY <1>4 DEF WindowAccounted
  <2>2. CASE p = turn /\ f = cursor
    BY <1>1, <1>2, <1>7, <2>1, <2>2 DEF BehindCursorAccounted
  <2>3. CASE p # turn \/ f # cursor
    <3>1. Processed(p, f)
      BY <1>2, <2>1, <2>3 DEF Processed
    <3>2. Accounted(p, d)
      BY <2>1, <3>1 DEF IInv, WindowAccounted
    <3>3. QED
      BY <1>2, <3>2
  <2>4. QED
    BY <2>2, <2>3
<1>12. NoSilentHole'
  <2>1. SUFFICES ASSUME NEW p \in Product, NEW d \in Day, ~IsSunday(d),
                        NEW e \in Day, Processed(p, e)', e < d,
                        NEW f \in Day, Processed(p, f)', d < f
                 PROVE  (log[p][d] # NoRow \/ d \in warned[p] \/ d \in unaudited[p])'
    BY DEF NoSilentHole
  <2>2. CASE Floor <= d
    BY <1>4, <1>11, <2>1, <2>2 DEF WindowAccounted, Accounted
  <2>3. CASE d < Floor
    <3>1. Processed(p, e)
      <4>1. e < Floor
        BY <1>4, <2>1, <2>3
      <4>2. QED
        BY <1>9, <2>1, <4>1 DEF Processed
    <3>2. Accounted(p, d) \/ d \in warned[p]
      BY <1>1, <2>1, <2>3, <3>1 DEF IInv, BelowFloorAccounted
    <3>3. QED
      BY <1>2, <3>2 DEF Accounted
  <2>4. QED
    BY <1>4, <2>2, <2>3
<1>13. BackfillCoversUnsettled'
  <2>1. SUFFICES ASSUME phase' = "running", NEW p \in Product, NEW d \in Day,
                        Unsettled(p, d)', d < start
                 PROVE  FALSE
    BY <1>3, <1>4 DEF BackfillCoversUnsettled
  <2>2. log'[p][d] = log[p][d] /\ Floor <= d
    BY <1>2, <1>4, <2>1 DEF Unsettled
  <2>3. ASSUME log[p][d] = NoRow, ~IsSunday(d), d \notin unaudited'[p]
        PROVE  FALSE
    <3>1. Accounted(p, d)
      BY <1>1, <1>4, <1>7, <2>1, <2>2, <2>3 DEF BehindCursorAccounted
    <3>2. QED
      BY <1>2, <2>3, <3>1 DEF Accounted
  <2>4. NoneFailedBelowFloor(p)' => NoneFailedBelowFloor(p)
    <3>1. \A e \in Day : ~(e >= Floor) => e < Floor
      BY <1>4
    <3>2. QED
      BY <1>4, <1>9, <3>1 DEF NoneFailedBelowFloor
  <2>5. Unsettled(p, d)
    BY <1>2, <1>4, <2>1, <2>2, <2>3, <2>4 DEF Unsettled
  <2>6. QED
    BY <1>1, <1>4, <2>1, <2>5 DEF IInv, BackfillCoversUnsettled
<1>14. QED
  BY <1>5, <1>6, <1>8, <1>10, <1>11, <1>12, <1>13 DEF IInv

(***************************************************************************)
(* The other steps.                                                        *)
(***************************************************************************)

(* Planning a backfill: whatever lies before the chosen start is accounted *)
(* for, or warned about, or is not owed to any product.                    *)
LEMMA PlanKeepsIInv ==
    ASSUME IInv, PlanSeries
    PROVE  IInv'
<1> DEFINE gap == [p \in Product |-> GapBeyondCap(Progress(p), StartOf(p))]
<1>1. /\ TypeOK /\ phase = "idle"
      /\ UNCHANGED <<today, stored, log, unaudited, losses>>
      /\ warned' = [p \in Product |-> warned[p] \cup gap[p]]
  BY DEF IInv, PlanSeries
<1>2. \A p \in Product : gap[p] \subseteq Day
  BY <1>1, StartOfFacts
<1>3. /\ warned' \in [Product -> SUBSET Day]
      /\ \A p \in Product : /\ warned[p] \subseteq warned'[p]
                            /\ gap[p] \subseteq warned'[p]
  <2> HIDE DEF gap
  <2>1. warned \in [Product -> SUBSET Day]
    BY <1>1 DEF TypeOK
  <2>2. QED
    BY <1>1, <1>2, <2>1
<1>4. Floor' = Floor /\ Floor \in Int /\ today \in Nat /\ today <= LastDay
      /\ Day \subseteq Int /\ Day \subseteq Nat
  BY <1>1 DEF Floor, TypeOK, Day
<1>5. WindowAccounted'
  BY <1>1, <1>4 DEF IInv, WindowAccounted, Processed, Accounted
<1>6. NoSilentHole'
  BY <1>1, <1>3 DEF IInv, NoSilentHole, Processed
<1>7. CASE UNCHANGED run
  <2>1. TypeOK'
    BY <1>1, <1>3, <1>7 DEF TypeOK, run
  <2>2. QED
    BY <1>1, <1>5, <1>6, <1>7, <2>1
       DEF IInv, run, BackfillInWindow, BehindCursorAccounted, BelowFloorAccounted,
           BackfillCoversUnsettled
<1>8. CASE /\ BusinessDayFrom(SeriesStart) <= today
           /\ phase' = "running" /\ start' = SeriesStart
           /\ cursor' = BusinessDayFrom(SeriesStart) /\ turn' = 1
  <2>1. /\ start' \in Nat /\ cursor' \in Nat /\ turn' = 1 /\ start' <= cursor'
        /\ ~IsSunday(cursor') /\ Floor <= start' /\ cursor' <= today
        /\ \A d \in Nat : ~IsSunday(d) /\ d < cursor' => d < start'
        /\ \A p \in Product : start' <= StartOf(p)
    BY <1>1, <1>8, SeriesStartFacts, BusinessDayFacts
  <2>2. \A p \in Product : StartOf(p) \in Nat /\ Floor <= StartOf(p)
    BY <1>1, StartOfFacts
  <2>3. TypeOK'
    <3>1. start' \in Day /\ cursor' \in Day
      BY <1>1, <1>4, <2>1 DEF TypeOK, Day, Floor
    <3>2. QED
      BY <1>1, <1>3, <1>8, <3>1 DEF TypeOK, Product
  <2>4. BackfillInWindow'
    BY <1>1, <1>4, <2>1 DEF BackfillInWindow
  <2>5. BehindCursorAccounted'
    <3>1. SUFFICES ASSUME NEW p \in Product, NEW d \in Day, Floor <= d, ~IsSunday(d),
                          d < cursor' \/ (d = cursor' /\ p < turn')
                   PROVE  Accounted(p, d)'
      BY <1>4 DEF BehindCursorAccounted
    <3>2. d < start' /\ start' <= StartOf(p) /\ StartOf(p) \in Nat /\ d \in Nat
      BY <1>4, <2>1, <2>2, <3>1 DEF Product
    <3>3. d < StartOf(p)
      BY <2>1, <3>2
    <3>4. PICK e \in Day : Processed(p, e) /\ d <= e
      BY <1>1, <3>1, <3>3, StartOfFacts
    <3>5. CASE e = d
      BY <1>1, <3>4, <3>5 DEF Processed, Accounted, NoRow
    <3>6. CASE d < e
      BY <1>1, <3>1, <3>4, <3>6 DEF IInv, WindowAccounted, Accounted
    <3>7. QED
      BY <1>4, <3>4, <3>5, <3>6
  <2>6. BelowFloorAccounted'
    <3>1. SUFFICES ASSUME NEW p \in Product, NEW d \in Day, d < Floor, ~IsSunday(d),
                          NEW e \in Day, Processed(p, e), e < d
                   PROVE  Accounted(p, d)' \/ d \in warned'[p]
      BY <1>1, <1>4 DEF BelowFloorAccounted, Processed
    <3>2. d < StartOf(p)
      BY <1>4, <2>2, <3>1
    <3>3. \/ \E f \in Day : Processed(p, f) /\ d <= f
          \/ d \in GapBeyondCap(Progress(p), StartOf(p))
      BY <1>1, <3>1, <3>2, StartOfFacts
    <3>4. CASE d \in GapBeyondCap(Progress(p), StartOf(p))
      BY <1>3, <3>4
    <3>5. ASSUME NEW f \in Day, Processed(p, f), d <= f
          PROVE  Accounted(p, d)' \/ d \in warned'[p]
      <4>1. CASE f = d
        BY <1>1, <3>5, <4>1 DEF Processed, Accounted, NoRow
      <4>2. CASE d < f
        BY <1>1, <1>6, <3>1, <3>5, <4>2 DEF NoSilentHole, Accounted, Processed
      <4>3. QED
        BY <1>4, <3>5, <4>1, <4>2
    <3>6. QED
      BY <3>3, <3>4, <3>5
  <2>7. BackfillCoversUnsettled'
    <3>1. SUFFICES ASSUME NEW p \in Product, NEW d \in Day, Unsettled(p, d)
                   PROVE  StartOf(p) <= d
      <4>1. \A p \in Product, d \in Day : Unsettled(p, d)' => Unsettled(p, d)
        BY <1>1, <1>4 DEF Unsettled, NoneFailedBelowFloor, Processed
      <4>2. ASSUME NEW p \in Product, NEW d \in Day, StartOf(p) <= d
            PROVE  start' <= d
        BY <1>4, <2>1, <2>2, <4>2
      <4>3. QED
        BY <4>1, <4>2 DEF BackfillCoversUnsettled
    <3>2. Floor <= d
      BY <1>4, <3>1 DEF Unsettled
    <3>3. CASE log[p][d].status = "skipped" /\ d >= today - SkipRetryDays
      <4>1. today - SkipRetryDays <= d
        BY <1>4, <3>3
      <4>2. QED
        BY <1>1, <3>2, <3>3, <4>1, StartOfFacts
    <3>4. CASE log[p][d].status = "failed" /\ NoneFailedBelowFloor(p)
      BY <1>1, <3>2, <3>4, StartOfFacts
    <3>5. CASE \A e \in Day : Processed(p, e) => e < d
      <4>1. ~ \E e \in Day : Processed(p, e) /\ d <= e
        BY <1>4, <3>5
      <4>2. ~ (d < StartOf(p))
        BY <1>1, <3>2, <4>1, StartOfFacts
      <4>3. QED
        BY <1>4, <2>2, <4>2
    <3>6. QED
      BY <3>1, <3>3, <3>4, <3>5 DEF Unsettled
  <2>8. QED
    BY <1>5, <1>6, <2>3, <2>4, <2>5, <2>6, <2>7 DEF IInv
<1>9. QED
  BY <1>7, <1>8 DEF PlanSeries

(* A crash only ends the backfill.                                         *)
LEMMA CrashKeepsIInv ==
    ASSUME IInv, Crash
    PROVE  IInv'
<1>1. TypeOK'
  BY DEF IInv, Crash, TypeOK
<1>2. NoSilentHole' /\ WindowAccounted'
  BY DEF IInv, Crash, NoSilentHole, WindowAccounted, Processed, Accounted, Floor
<1>3. QED
  BY <1>1, <1>2
     DEF IInv, Crash, BackfillInWindow, BehindCursorAccounted, BelowFloorAccounted,
         BackfillCoversUnsettled

(* The calendar turns while no backfill runs: the window only shrinks.     *)
LEMMA NextDayKeepsIInv ==
    ASSUME IInv, NextDay
    PROVE  IInv'
<1>1. TypeOK'
  BY DEF IInv, NextDay, TypeOK, run
<1>2. NoSilentHole'
  BY DEF IInv, NextDay, NoSilentHole, Processed
<1>3. Floor \in Int /\ Floor' = Floor + 1 /\ Day \subseteq Int
  BY DEF IInv, NextDay, TypeOK, Floor, Day
<1>4. WindowAccounted'
  <2>1. \A d \in Day : Floor' <= d => Floor <= d
    BY <1>3
  <2>2. QED
    BY <2>1 DEF IInv, NextDay, WindowAccounted, Processed, Accounted
<1>5. QED
  BY <1>1, <1>2, <1>4
     DEF IInv, NextDay, run, BackfillInWindow, BehindCursorAccounted, BelowFloorAccounted,
         BackfillCoversUnsettled

(***************************************************************************)
(* The theorems.                                                           *)
(***************************************************************************)

(* The inductive invariant holds in every reachable state.                 *)
THEOREM Inductive == Spec => []IInv
<1>1. Init => IInv
  <2> SUFFICES ASSUME Init PROVE IInv
    OBVIOUS
  <2>1. Day \subseteq Int /\ FirstDay \in Day /\ FirstDay + MaxGapDays \in FirstDay + MaxGapDays .. LastDay
    BY DEF Day
  <2>2. 1 \in Product /\ NoRow \in Row /\ 0 \in 0 .. MaxLosses
    BY DEF Product, Row
  <2>3. TypeOK
    BY <2>1, <2>2 DEF Init, TypeOK
  <2>4. \A p \in Product, d \in Day : ~ Processed(p, d)
    BY DEF Init, Processed, NoRow
  <2>5. QED
    BY <2>3, <2>4
       DEF Init, IInv, BackfillInWindow, BehindCursorAccounted, BelowFloorAccounted,
           WindowAccounted, NoSilentHole, BackfillCoversUnsettled
<1>2. IInv /\ [Next]_vars => IInv'
  <2> SUFFICES ASSUME IInv, [Next]_vars PROVE IInv'
    OBVIOUS
  <2>1. CASE RunOutcome
    BY <2>1, RunKeepsIInv
  <2>2. CASE PlanSeries
    BY <2>2, PlanKeepsIInv
  <2>3. CASE Crash
    BY <2>3, CrashKeepsIInv
  <2>4. CASE NextDay
    BY <2>4, NextDayKeepsIInv
  <2>5. CASE UNCHANGED vars
    BY <2>5
       DEF vars, run, IInv, TypeOK, BackfillInWindow, BehindCursorAccounted,
           BelowFloorAccounted, WindowAccounted, NoSilentHole, BackfillCoversUnsettled,
           Unsettled, NoneFailedBelowFloor, Processed, Accounted, Floor
  <2>6. QED
    BY <2>1, <2>2, <2>3, <2>4, <2>5 DEF Next
<1>3. QED
  BY <1>1, <1>2, PTL DEF Spec

(* Every variable keeps its type: in particular a backfill never leaves    *)
(* the days between the cap and as_of.                                     *)
THEOREM TypeCorrect == Spec => []TypeOK
<1>1. IInv => TypeOK
  BY DEF IInv
<1>2. QED
  BY <1>1, Inductive, PTL

(* The anchor never jumps over a market day silently (catch_up's gap       *)
(* warnings name every day it gives up).                                   *)
THEOREM NothingSkippedSilently == Spec => []NoSilentHole
<1>1. IInv => NoSilentHole
  BY DEF IInv
<1>2. QED
  BY <1>1, Inductive, PTL

(* A backfill starts early enough for everything dataset_start promises to *)
(* re-attempt, for every product of the source.                            *)
THEOREM BackfillReachesBack == Spec => []BackfillCoversUnsettled
<1>1. IInv => BackfillCoversUnsettled
  BY DEF IInv
<1>2. QED
  BY <1>1, Inductive, PTL

(* What the upsert of one audit row changes.                               *)
LEMMA AuditFacts ==
    ASSUME TypeOK, NEW row \in Row, Audit(row)
    PROVE  /\ \A p \in Product, d \in Day :
                 p # turn \/ d # cursor => log'[p][d] = log[p][d]
           /\ Overwrites(log[turn][cursor], row) => log'[turn][cursor] = row
           /\ ~ Overwrites(log[turn][cursor], row)
                => log'[turn][cursor] = log[turn][cursor]
<1>1. turn \in Product /\ cursor \in Day /\ log \in [Product -> [Day -> Row]]
  BY DEF TypeOK
<1>2. log' = [log EXCEPT ![turn] = [log[turn] EXCEPT ![cursor] =
                 IF Overwrites(log[turn][cursor], row) THEN row ELSE log[turn][cursor]]]
  BY DEF Audit, Record
<1>3. QED
  BY <1>1, <1>2

(* A day once loaded keeps its success row, whatever later re-runs of it   *)
(* come to, and even when the run that loaded it took its own commit for a *)
(* failure, for the products that report every row they read.              *)
THEOREM LoadedIsSticky == Spec => []LoadedStaysSuccess
<1> DEFINE claim == [status |-> "success", rows |-> 1]
           Q == Product \ (CountsWritten \cup MayParseEmpty)
<1>1. Init => LoadedStaysSuccess
  BY DEF Init, LoadedStaysSuccess
<1>2. TypeOK /\ LoadedStaysSuccess /\ [Next]_vars => LoadedStaysSuccess'
  <2> SUFFICES ASSUME TypeOK, LoadedStaysSuccess, [Next]_vars PROVE LoadedStaysSuccess'
    OBVIOUS
  <2>1. /\ turn \in Product /\ cursor \in Day
        /\ stored \in [Product -> SUBSET Day]
    BY DEF TypeOK
  <2>2. CASE RunSucceeds
    <3>1. PICK rows \in RowsReported : Audit([status |-> "success", rows |-> rows])
      BY <2>2 DEF RunSucceeds
    <3>2. rows \in {0, 1} /\ (turn \in Q => rows = 1)
      BY <3>1 DEF RowsReported
    <3>3. [status |-> "success", rows |-> rows] \in Row
      BY <3>2 DEF Row, Status
    <3>4. /\ \A p \in Product, d \in Day :
                p # turn \/ d # cursor => log'[p][d] = log[p][d]
          /\ log'[turn][cursor] = [status |-> "success", rows |-> rows]
      BY <3>1, <3>3, AuditFacts DEF Overwrites
    <3>5. stored' = [stored EXCEPT ![turn] = @ \cup {cursor}]
      BY <2>2 DEF RunSucceeds
    <3>6. \A p \in Product : \A d \in stored'[p] : p # turn \/ d # cursor => d \in stored[p]
      BY <2>1, <3>5
    <3>7. \A p \in Product : stored'[p] \subseteq Day
      BY <2>1, <3>5
    <3>8. QED
      BY <3>2, <3>4, <3>6, <3>7 DEF LoadedStaysSuccess
  <2>3. ASSUME NEW row \in Row, row.status # "success" \/ turn \notin Q,
               Audit(row), UNCHANGED stored
        PROVE  LoadedStaysSuccess'
    <3>1. \A p \in Product, d \in Day :
             p # turn \/ d # cursor => log'[p][d] = log[p][d]
      BY <2>3, AuditFacts
    <3>2. turn \in Q /\ log[turn][cursor] = claim => log'[turn][cursor] = claim
      BY <2>3, AuditFacts DEF Overwrites
    <3>3. QED
      BY <2>1, <2>3, <3>1, <3>2 DEF LoadedStaysSuccess
  <2>4. CASE RunSucceedsEmpty
    BY <2>3, <2>4 DEF RunSucceedsEmpty, Row, Status
  <2>5. CASE RunSkips \/ RunFails
    BY <2>3, <2>5 DEF RunSkips, RunFails, Row, Status
  <2>6. CASE CommitInDoubt
    <3>1. PICK rows \in {0, 1} : AuditTwice(rows) /\ (turn \in Q => rows = 1)
      BY <2>6 DEF CommitInDoubt, RowsReported
    <3>2. /\ \A p \in Product, d \in Day :
                p # turn \/ d # cursor => log'[p][d] = log[p][d]
          /\ turn \in Q => log'[turn][cursor] = claim
      BY <3>1, AuditTwiceFacts
    <3>3. /\ \A p \in Product : \A d \in stored'[p] :
                p # turn \/ d # cursor => d \in stored[p]
          /\ \A p \in Product : stored'[p] \subseteq Day
      BY <2>1, <2>6 DEF CommitInDoubt
    <3>4. QED
      BY <3>2, <3>3 DEF LoadedStaysSuccess
  <2>7. CASE UNCHANGED <<stored, log>>
    BY <2>7 DEF LoadedStaysSuccess
  <2>8. QED
    BY <2>2, <2>4, <2>5, <2>6, <2>7
       DEF Next, RunOutcome, RunUnaudited, PlanSeries, Crash, NextDay, vars
<1>3. QED
  BY <1>1, <1>2, TypeCorrect, PTL DEF Spec

(***************************************************************************)
(* The derived phase of the same catch-up (DerivedViews), for every        *)
(* trailing window: the calendar, the cap and the retry window are those   *)
(* above, the state is its own.                                            *)
(***************************************************************************)

(* A day within the cap that the plan leaves out has an answered day at or *)
(* after it.                                                               *)
LEMMA ViewsStartFacts ==
    ASSUME ViewsTypeOK, NEW d \in Day, Floor <= d, d < StartFrom(viewLog)
    PROVE  \E e \in Day : viewLog[e] # NoRow /\ d <= e
<1> DEFINE cutoff == today - SkipRetryDays
           P == DatasetProgress(viewLog, cutoff)
           k == P.processed_through
<1>1. /\ Day \subseteq Nat /\ Day \subseteq 0 .. LastDay /\ LastDay \in Nat
      /\ viewLog \in [Day -> Row] /\ Floor \in Nat /\ cutoff \in Int
  BY DEF ViewsTypeOK, Floor, Day
<1> HIDE DEF cutoff
<1>2. ProgressMeets(P, Day, viewLog, cutoff)
  BY <1>1, ProgressFacts
<1>3. StartFrom(viewLog) = DatasetStart(P, Floor)
  BY DEF StartFrom, cutoff
<1> HIDE DEF P
<1>4. StartMeets(DatasetStart(P, Floor), P, Floor)
  <2>1. /\ P.processed_through \in Nat \cup {NoDay}
        /\ P.earliest_failed \in Nat \cup {NoDay}
        /\ P.earliest_recent_skip \in Nat \cup {NoDay}
    BY <1>1, <1>2 DEF ProgressMeets
  <2>2. QED
    BY <2>1, <1>1, DatasetStartFacts
<1>5. /\ StartFrom(viewLog) \in Nat
      /\ StartFrom(viewLog) <= BoundedStart(k, Floor)
  BY <1>3, <1>4 DEF StartMeets
<1>6. k \in Day \cup {NoDay} /\ (k # NoDay => viewLog[k].status \in {"success", "skipped"})
  BY <1>2 DEF ProgressMeets
<1> HIDE DEF k
<1>7. d \in Int /\ k \in Int
  BY <1>1, <1>6 DEF NoDay
<1>8. k # NoDay /\ d <= k
  BY <1>1, <1>5, <1>7 DEF BoundedStart
<1>9. QED
  BY <1>6, <1>8 DEF NoRow

(* Both phases of a catch-up start at a day, at or above the floor.        *)
LEMMA ViewsStartTyped ==
    ASSUME ViewsTypeOK, NEW history \in [Day -> Row]
    PROVE  StartFrom(history) \in Nat /\ Floor <= StartFrom(history)
<1> DEFINE P == DatasetProgress(history, today - SkipRetryDays)
<1>1. /\ Day \subseteq 0 .. LastDay /\ LastDay \in Nat /\ Day \subseteq Nat
      /\ today - SkipRetryDays \in Int /\ Floor \in Nat
  BY DEF ViewsTypeOK, Floor, Day
<1>2. ProgressMeets(P, Day, history, today - SkipRetryDays)
  BY <1>1, ProgressFacts
<1>3. StartFrom(history) = DatasetStart(P, Floor)
  BY DEF StartFrom
<1> HIDE DEF P
<1>4. /\ P.processed_through \in Nat \cup {NoDay}
      /\ P.earliest_failed \in Nat \cup {NoDay}
      /\ P.earliest_recent_skip \in Nat \cup {NoDay}
  BY <1>1, <1>2 DEF ProgressMeets
<1>5. StartMeets(DatasetStart(P, Floor), P, Floor)
  BY <1>1, <1>4, DatasetStartFacts
<1>6. QED
  BY <1>3, <1>5 DEF StartMeets

(* The day a phase runs is the first on its list.                          *)
LEMMA ViewsCurrentFacts ==
    ASSUME ViewsTypeOK, todo # {}
    PROVE  /\ Current \in todo /\ Current \in Day /\ Current <= today
           /\ \A d \in todo : Current <= d
<1>1. todo \subseteq Day /\ (\A d \in todo : d <= today) /\ Day \subseteq Nat
  BY DEF ViewsTypeOK, Day
<1>2. Earliest(todo) \in todo /\ \A e \in todo : Earliest(todo) <= e
  BY <1>1, EarliestIsLeast
<1>3. Current = Earliest(todo)
  BY DEF Current
<1>4. QED
  BY <1>1, <1>2, <1>3

(* A derived run: its row is recorded, the days before it are answered     *)
(* already, and the list shrinks by it.                                    *)
LEMMA ViewRunKeeps ==
    ASSUME ViewsInv, NEW status, NEW rows, ViewRun(status, rows),
           [status |-> status, rows |-> rows] \in Row,
           [status |-> status, rows |-> rows] # NoRow
    PROVE  /\ viewLog' \in [Day -> Row] /\ todo' = todo \ {Current}
           /\ stage' \in {"idle", "views"} /\ (stage' = "views" => todo' # {})
           /\ NoUnansweredHole' /\ UnansweredDaysPlanned'
<1> DEFINE c == Current
           row == [status |-> status, rows |-> rows]
<1>0. /\ ViewsTypeOK /\ InPhase /\ NoUnansweredHole
      /\ UnansweredDaysPlanned /\ stage = "views" /\ today' = today
      /\ Floor' = Floor
  BY DEF ViewsInv, ViewRun, Floor
<1>1. todo # {} /\ Day \subseteq Nat /\ today \in Int /\ viewLog \in [Day -> Row]
  BY <1>0 DEF InPhase, ViewsTypeOK, Day
<1>2. /\ c \in todo /\ c \in Day /\ c <= today /\ \A d \in todo : c <= d
  BY <1>0, <1>1, ViewsCurrentFacts
<1>3. viewLog' = Record(viewLog, c, row)
  BY DEF ViewRun
<1>4. todo' = todo \ {c} /\ stage' = IF todo' = {} THEN "idle" ELSE stage
  BY DEF ViewRun, Done
<1> HIDE DEF c, row
<1>5. /\ viewLog' \in [Day -> Row] /\ viewLog'[c] # NoRow
      /\ \A d \in Day : d # c => viewLog'[d] = viewLog[d]
  <2>1. viewLog' = [viewLog EXCEPT ![c] = IF Overwrites(@, row) THEN row ELSE @]
    BY <1>3 DEF Record
  <2>2. row \in Row /\ row # NoRow
    BY DEF row
  <2>3. viewLog'[c] = row \/ (viewLog'[c] = viewLog[c] /\ viewLog[c] # NoRow)
    BY <2>1, <1>1, <1>2, OverwritesFacts
  <2>4. viewLog'[c] \in Row
    BY <2>2, <2>3, <1>1, <1>2
  <2>5. QED
    BY <2>1, <2>2, <2>3, <2>4, <1>1, <1>2
<1>6. NoUnansweredHole'
  <2>1. SUFFICES ASSUME NEW d \in Day, NEW e \in Day, viewLog'[e] # NoRow, d < e,
                        Floor <= d, ~IsSunday(d), viewLog'[d] = NoRow
                 PROVE  FALSE
    BY <1>0 DEF NoUnansweredHole
  <2>2. d # c /\ viewLog[d] = NoRow /\ d \in Int /\ e \in Int /\ c \in Int
    BY <2>1, <1>1, <1>2, <1>5
  <2>3. CASE e = c
    <3>1. d \in todo
      BY <2>1, <2>2, <2>3, <1>0, <1>1, <1>2
         DEF UnansweredDaysPlanned, ViewsTypeOK, Floor
    <3>2. QED
      BY <3>1, <2>1, <2>2, <2>3, <1>2
  <2>4. CASE e # c
    BY <2>1, <2>2, <2>4, <1>0, <1>5 DEF NoUnansweredHole
  <2>5. QED
    BY <2>3, <2>4
<1>7. UnansweredDaysPlanned'
  BY <1>0, <1>4, <1>5 DEF UnansweredDaysPlanned
<1>8. QED
  BY <1>0, <1>4, <1>5, <1>6, <1>7 DEF c

(* The derived phase starts with every unanswered market day on its list.  *)
LEMMA PlanViewsKeeps ==
    ASSUME ViewsInv, PlanViews
    PROVE  ViewsInv'
<1>0. /\ ViewsTypeOK /\ InPhase /\ NoUnansweredHole
      /\ TodayDescribesTape
      /\ stage = "plan" /\ stage' = "views" /\ todo' = DerivedDays
      /\ UNCHANGED <<today, published, tape, tapeLog, view, viewLog, fresh, crashes>>
  BY DEF ViewsInv, PlanViews
<1>1. /\ Day \subseteq Nat /\ today \in Day /\ today \in Int /\ Floor \in Day
      /\ Floor \in Int
  BY <1>0 DEF ViewsTypeOK, Floor, Day
<1>2. StartFrom(viewLog) \in Nat /\ Floor <= StartFrom(viewLog)
  BY <1>0, ViewsStartTyped DEF ViewsTypeOK
<1>3. DerivedDays = {d \in StartFrom(viewLog) .. today : ~IsSunday(d)} \cup {today}
  BY DEF DerivedDays, BusinessDays
<1>4. ViewsTypeOK' /\ InPhase'
  <2>1. \A d \in DerivedDays : d \in Day /\ d <= today
    BY <1>1, <1>2, <1>3 DEF Day
  <2>2. today \in DerivedDays
    BY <1>3
  <2>3. QED
    BY <2>1, <2>2, <1>0 DEF ViewsTypeOK, InPhase
<1>5. NoUnansweredHole' /\ TodayDescribesTape'
  BY <1>0 DEF NoUnansweredHole, TodayDescribesTape, Floor, Window
<1>6. UnansweredDaysPlanned'
  <2>1. SUFFICES ASSUME NEW d \in Day, d \in Floor .. today, ~IsSunday(d),
                        viewLog[d] = NoRow
                 PROVE  d \in DerivedDays
    BY <1>0 DEF UnansweredDaysPlanned, Floor
  <2>2. d \in Int /\ Floor <= d /\ d <= today
    BY <2>1, <1>1
  <2>3. ~(d < StartFrom(viewLog))
    <3>1. SUFFICES ASSUME d < StartFrom(viewLog)
                   PROVE  FALSE
      OBVIOUS
    <3>2. PICK e \in Day : viewLog[e] # NoRow /\ d <= e
      BY <3>1, <2>2, <1>0, ViewsStartFacts
    <3>3. d < e
      BY <3>2, <2>1, <2>2, <1>1
    <3>4. QED
      BY <3>2, <3>3, <2>1, <2>2, <1>0 DEF NoUnansweredHole
  <2>4. QED
    BY <2>1, <2>2, <2>3, <1>1, <1>2, <1>3
<1>7. QED
  BY <1>4, <1>5, <1>6 DEF ViewsInv

(* Loading the tape never touches a fresh row of as_of.                    *)
LEMMA TapeRunKeeps ==
    ASSUME ViewsInv, NEW status, NEW rows, TapeRun(status, rows),
           [status |-> status, rows |-> rows] \in Row
    PROVE  ViewsInv'
<1> DEFINE row == [status |-> status, rows |-> rows]
<1>0. /\ ViewsTypeOK /\ InPhase /\ NoUnansweredHole
      /\ stage = "tapes" /\ todo' = todo \ {Current}
      /\ stage' = IF todo' = {} THEN "plan" ELSE stage
      /\ UNCHANGED <<today, published, view, viewLog, fresh, crashes>>
  BY DEF ViewsInv, TapeRun, Done
<1>1. tapeLog' = Record(tapeLog, Current, row)
  BY DEF TapeRun
<1>2. row \in Row
  OBVIOUS
<1> HIDE DEF row
<1>3. tapeLog' \in [Day -> Row]
  BY <1>0, <1>1, <1>2 DEF ViewsTypeOK, Record
<1>4. ViewsTypeOK'
  BY <1>0, <1>3 DEF ViewsTypeOK
<1>5. fresh = FALSE
  BY <1>0 DEF InPhase, ViewsTypeOK
<1>6. InPhase' /\ TodayDescribesTape'
  BY <1>0, <1>5 DEF InPhase, TodayDescribesTape
<1>7. NoUnansweredHole' /\ UnansweredDaysPlanned'
  BY <1>0 DEF NoUnansweredHole, UnansweredDaysPlanned, Floor
<1>8. QED
  BY <1>4, <1>6, <1>7 DEF ViewsInv

(* Recomputing a day replaces its row by what the tape says now.           *)
LEMMA ViewOutcomeKeeps ==
    ASSUME ViewsInv, ViewOutcome
    PROVE  ViewsInv'
<1> DEFINE c == Current
<1>0. /\ ViewsTypeOK /\ InPhase /\ TodayDescribesTape
      /\ stage = "views" /\ today' = today /\ tape' = tape /\ tapeLog' = tapeLog
  BY DEF ViewsInv, ViewOutcome, ViewComputed, ViewFails, ViewRun
<1>1. /\ viewLog' \in [Day -> Row] /\ todo' = todo \ {c}
      /\ stage' \in {"idle", "views"} /\ (stage' = "views" => todo' # {})
      /\ NoUnansweredHole' /\ UnansweredDaysPlanned'
  <2>1. \A n \in {0, 1} : /\ [status |-> "success", rows |-> n] \in Row
                          /\ [status |-> "success", rows |-> n] # NoRow
    BY DEF Row, NoRow, Status
  <2>2. [status |-> "failed", rows |-> 0] \in Row /\ [status |-> "failed", rows |-> 0] # NoRow
    BY DEF Row, NoRow, Status
  <2>3. CASE ViewComputed
    <3>1. PICK n \in {0, 1} : ViewRun("success", n)
      BY <2>3 DEF ViewComputed
    <3>2. QED
      BY <3>1, <2>1, ViewRunKeeps
  <2>4. CASE ViewFails
    <3>1. ViewRun("failed", 0)
      BY <2>4 DEF ViewFails
    <3>2. QED
      BY <3>1, <2>2, ViewRunKeeps
  <2>5. QED
    BY <2>3, <2>4 DEF ViewOutcome
<1>2. c \in Day
  BY <1>0, ViewsCurrentFacts DEF InPhase
<1>3. /\ DOMAIN view' = Day /\ fresh' \in BOOLEAN
      /\ fresh' => view'[today] = tape \cap Window(today)
  <2>1. CASE ViewComputed
    <3>1. /\ view' = [view EXCEPT ![c] = tape \cap Window(c)]
          /\ fresh' = (c = today)
      BY <2>1 DEF ViewComputed
    <3>2. DOMAIN view = Day
      BY <1>0 DEF ViewsTypeOK
    <3> HIDE DEF c
    <3>3. QED
      BY <3>1, <3>2, <1>2
  <2>2. CASE ViewFails
    BY <2>2, <1>0 DEF ViewFails, ViewsTypeOK, TodayDescribesTape
  <2>3. QED
    BY <2>1, <2>2 DEF ViewOutcome
<1> HIDE DEF c
<1>4. ViewsTypeOK' /\ InPhase'
  BY <1>0, <1>1, <1>3 DEF ViewsTypeOK, InPhase
<1>5. TodayDescribesTape'
  BY <1>0, <1>3 DEF TodayDescribesTape, Window
<1>6. QED
  BY <1>1, <1>4, <1>5 DEF ViewsInv

(* Before the first catch-up nothing is answered, and nothing is fresh.    *)
LEMMA ViewsInitHolds == ViewsInit => ViewsInv
<1> SUFFICES ASSUME ViewsInit
             PROVE  ViewsInv
  OBVIOUS
<1>1. /\ today = FirstDay + MaxGapDays /\ stage = "idle" /\ todo = {} /\ fresh = FALSE
      /\ tapeLog = [d \in Day |-> NoRow] /\ viewLog = [d \in Day |-> NoRow]
      /\ view = [d \in Day |-> {}]
  BY DEF ViewsInit, NoHistory
<1>2. today \in FirstDay + MaxGapDays .. LastDay /\ NoRow \in Row
  BY <1>1 DEF Row
<1>3. ViewsTypeOK
  BY <1>1, <1>2 DEF ViewsTypeOK
<1>4. QED
  BY <1>1, <1>3 DEF ViewsInv, InPhase, NoUnansweredHole,
     UnansweredDaysPlanned, TodayDescribesTape

(* Each step of the derived phase keeps its invariant.                     *)
LEMMA ViewsStepKeeps == ViewsInv /\ [ViewsNext]_viewsVars => ViewsInv'
<1> SUFFICES ASSUME ViewsInv, [ViewsNext]_viewsVars
             PROVE  ViewsInv'
  OBVIOUS
<1>0. /\ ViewsTypeOK /\ InPhase /\ NoUnansweredHole
      /\ UnansweredDaysPlanned /\ TodayDescribesTape
  BY DEF ViewsInv
<1>1. CASE PlanTapes
  <2>1. /\ todo' = BusinessDays(StartFrom(tapeLog)) /\ fresh' = FALSE
        /\ stage' = IF todo' = {} THEN "plan" ELSE "tapes"
        /\ UNCHANGED <<today, published, tape, tapeLog, view, viewLog, crashes>>
    BY <1>1 DEF PlanTapes
  <2>2. \A d \in todo' : d \in Day /\ d <= today
    <3>1. Floor \in Day /\ today \in Day
      BY <1>0 DEF ViewsTypeOK, Floor, Day
    <3>2. StartFrom(tapeLog) \in Nat /\ Floor <= StartFrom(tapeLog)
      BY <1>0, ViewsStartTyped DEF ViewsTypeOK
    <3>3. QED
      BY <2>1, <3>1, <3>2 DEF BusinessDays, Day
  <2>3. ViewsTypeOK' /\ InPhase'
    BY <2>1, <2>2, <1>0 DEF ViewsTypeOK, InPhase
  <2>4. QED
    BY <2>1, <2>3, <1>0 DEF ViewsInv, NoUnansweredHole,
       UnansweredDaysPlanned, TodayDescribesTape, Floor
<1>2. CASE TapeOutcome
  <2>1. /\ [status |-> "success", rows |-> 1] \in Row
        /\ [status |-> "skipped", rows |-> 0] \in Row
        /\ [status |-> "failed", rows |-> 0] \in Row
    BY DEF Row, Status
  <2>2. QED
    BY <1>2, <2>1, TapeRunKeeps
       DEF TapeOutcome, TapeLoads, TapeNotPublished, TapeFails
<1>3. CASE PlanViews
  BY <1>3, PlanViewsKeeps
<1>4. CASE ViewOutcome
  BY <1>4, ViewOutcomeKeeps
<1>5. CASE KillCatchUp
  BY <1>0, <1>5 DEF KillCatchUp, ViewsInv, ViewsTypeOK, InPhase,
     NoUnansweredHole, UnansweredDaysPlanned, TodayDescribesTape, Floor
<1>6. CASE NextNight
  <2>1. /\ today < LastDay /\ today' = today + 1 /\ stage = "idle" /\ fresh' = FALSE
        /\ UNCHANGED <<published, tape, tapeLog, view, viewLog, stage, todo, crashes>>
    BY <1>6 DEF NextNight
  <2>2. /\ today \in Int /\ Day \subseteq Nat /\ Floor \in Int /\ Floor' \in Int
        /\ Floor <= Floor' /\ today' \in FirstDay + MaxGapDays .. LastDay
    BY <2>1, <1>0 DEF ViewsTypeOK, Floor, Day
  <2>3. ViewsTypeOK' /\ InPhase'
    <3>1. \A d \in todo : d \in Day /\ d <= today'
      BY <2>1, <2>2, <1>0 DEF ViewsTypeOK
    <3>2. QED
      BY <3>1, <2>1, <2>2, <1>0 DEF ViewsTypeOK, InPhase
  <2>4. NoUnansweredHole'
    <3>1. \A d \in Day : Floor' <= d => Floor <= d
      BY <2>2
    <3>2. QED
      BY <3>1, <2>1, <1>0 DEF NoUnansweredHole
  <2>5. QED
    BY <2>1, <2>3, <2>4 DEF ViewsInv, UnansweredDaysPlanned, TodayDescribesTape
<1>7. CASE \E d \in Day : Publish(d)
  BY <1>0, <1>7 DEF Publish, ViewsInv, ViewsTypeOK, InPhase, Window,
     NoUnansweredHole, UnansweredDaysPlanned, TodayDescribesTape, Floor
<1>8. CASE UNCHANGED viewsVars
  BY <1>0, <1>8 DEF viewsVars, ViewsInv, ViewsTypeOK, InPhase, Window,
     NoUnansweredHole, UnansweredDaysPlanned, TodayDescribesTape, Floor
<1>9. QED
  BY <1>1, <1>2, <1>3, <1>4, <1>5, <1>6, <1>7, <1>8 DEF ViewsNext

(* The inductive invariant of the derived phase.                           *)
THEOREM ViewsInvariant == ViewsSpec => []ViewsInv
  BY ViewsInitHolds, ViewsStepKeeps, PTL DEF ViewsSpec

(* However many nights were missed or cut short, the derived phase has     *)
(* every unanswered market day within the cap on its list (derived_days).  *)
THEOREM UnansweredPlanned == ViewsSpec => []UnansweredDaysPlanned
<1>1. ViewsInv => UnansweredDaysPlanned
  BY DEF ViewsInv
<1>2. QED
  BY <1>1, ViewsInvariant, PTL

(* A recomputed row of as_of is in step with the whole tape, the rows the  *)
(* same catch-up loaded included (catch_up loads before it derives).       *)
THEOREM TodayInStep == ViewsSpec => []TodayDescribesTape
<1>1. ViewsInv => TodayDescribesTape
  BY DEF ViewsInv
<1>2. QED
  BY <1>1, ViewsInvariant, PTL
=============================================================================
