----------------------------- MODULE DateSeries -----------------------------
(***************************************************************************)
(* One gap-filled source: the part of catch_up that plans a start day from *)
(* the audit table and then runs every product of the source for every     *)
(* business day up to as_of, each run inside execute_run.                  *)
(*                                                                         *)
(* A product is its position in the pipeline's product tuple, so that      *)
(* product p of a day runs before product p + 1 of the same day and after  *)
(* every product of the days before it.  A single-dataset source (CCIL,    *)
(* BSE, the NSE daily archive, the NSE bond report) is NumProducts = 1.    *)
(*                                                                         *)
(* The environment turns the calendar, answers a request with data, with   *)
(* nothing or with an error (whatever it answered for that day before: it  *)
(* may publish late, and may answer "nothing" for a day it has), and may   *)
(* break the connection at a commit, kill the process or refuse the audit  *)
(* write.  MaxLosses bounds the kills and refused writes.                  *)
(***************************************************************************)
EXTENDS CatchUpDays

CONSTANTS NumProducts,    \* products the source writes, 1 .. NumProducts
          CountsWritten,  \* products whose row count is rows changed, so 0 on a no-op re-run
          MayParseEmpty,  \* products whose connector can return an empty batch
          MaxLosses       \* bound on crashes and lost audit writes

ASSUME ProductsAssumption ==
    /\ NumProducts \in Nat \ {0}
    /\ CountsWritten \subseteq 1 .. NumProducts
    /\ MayParseEmpty \subseteq 1 .. NumProducts
(* The defaults are 3 and 30.  catch-up's --max-gap-days can be set below  *)
(* the retry window, and then a skip below the floor hides a later one.    *)
ASSUME RetryWindowAssumption == SkipRetryDays <= MaxGapDays
ASSUME LossesAssumption == MaxLosses \in Nat

Product == 1 .. NumProducts

VARIABLES
    stored,     \* stored[p]: days whose rows are committed
    log,        \* log[p]: the dataset's ingestion_runs rows by run_date
    phase,      \* "idle", or "running" inside backfill(start, as_of)
    start,      \* the start day of the current backfill
    cursor,     \* the day being ingested
    turn,       \* the product being ingested
    warned,     \* warned[p]: days named by gap_exceeds_cap warnings
    unaudited,  \* unaudited[p]: days whose audit write was lost
    losses      \* crashes and lost audit writes so far

run == <<phase, start, cursor, turn>>
vars == <<today, stored, log, run, warned, unaudited, losses>>

TypeOK ==
    /\ today \in FirstDay + MaxGapDays .. LastDay
    /\ stored \in [Product -> SUBSET Day]
    /\ log \in [Product -> [Day -> Row]]
    /\ phase \in {"idle", "running"}
    /\ start \in Day
    /\ cursor \in Day
    /\ turn \in Product
    /\ warned \in [Product -> SUBSET Day]
    /\ unaudited \in [Product -> SUBSET Day]
    /\ losses \in 0 .. MaxLosses

(***************************************************************************)
(* Planning.                                                               *)
(***************************************************************************)
Progress(p) == DatasetProgress(log[p], today - SkipRetryDays)

StartOf(p) == DatasetStart(Progress(p), Floor)

(* Mutant: the furthest product decides where the source resumes.          *)
SeriesStart_Furthest == Latest({StartOf(p) : p \in Product})

SeriesStart == Earliest({StartOf(p) : p \in Product})

Init ==
    /\ today = FirstDay + MaxGapDays
    /\ stored = [p \in Product |-> {}]
    /\ log = [p \in Product |-> [d \in Day |-> NoRow]]
    /\ phase = "idle" /\ start = FirstDay /\ cursor = FirstDay /\ turn = 1
    /\ warned = [p \in Product |-> {}]
    /\ unaudited = [p \in Product |-> {}]
    /\ losses = 0

(* series_start, its warnings, and the decision to call backfill at all.   *)
PlanSeries ==
    /\ phase = "idle"
    /\ warned' = [p \in Product |-> warned[p] \cup GapBeyondCap(Progress(p), StartOf(p))]
    /\ IF BusinessDayFrom(SeriesStart) <= today
       THEN /\ phase' = "running"
            /\ start' = SeriesStart
            /\ cursor' = BusinessDayFrom(SeriesStart)
            /\ turn' = 1
       ELSE UNCHANGED run
    /\ UNCHANGED <<today, stored, log, unaudited, losses>>

(***************************************************************************)
(* The loop of backfill and run_date: next product, else next business day.*)
(***************************************************************************)
Advance ==
    LET next == BusinessDayFrom(cursor + 1) IN
    /\ UNCHANGED start
    /\ \/ /\ turn < NumProducts
          /\ turn' = turn + 1
          /\ UNCHANGED <<phase, cursor>>
       \/ /\ turn = NumProducts /\ next <= today
          /\ turn' = 1 /\ cursor' = next
          /\ UNCHANGED phase
       \/ /\ turn = NumProducts /\ next > today
          /\ phase' = "idle"
          /\ UNCHANGED <<cursor, turn>>

Audit(row) == log' = [log EXCEPT ![turn] = Record(@, cursor, row)]

(***************************************************************************)
(* The outcomes of one execute_run.                                        *)
(***************************************************************************)

(* A curve re-run inserts no version when nothing changed, and a bond      *)
(* report may hold nothing new; the other products report what they read.  *)
RowsReported == IF turn \in CountsWritten THEN {0, 1} ELSE {1}

(* work returns: its rows and the success row commit in one transaction.   *)
RunSucceeds ==
    /\ phase = "running"
    /\ stored' = [stored EXCEPT ![turn] = @ \cup {cursor}]
    /\ \E rows \in RowsReported : Audit([status |-> "success", rows |-> rows])
    /\ Advance
    /\ UNCHANGED <<today, warned, unaudited, losses>>

(* The connector hands back an empty batch instead of raising.             *)
RunSucceedsEmpty ==
    /\ phase = "running"
    /\ turn \in MayParseEmpty
    /\ Audit([status |-> "success", rows |-> 0])
    /\ Advance
    /\ UNCHANGED <<today, stored, warned, unaudited, losses>>

(* DataUnavailable: nothing published, or a source that answers its        *)
(* "nothing published" code although it has the day.                       *)
RunSkips ==
    /\ phase = "running"
    /\ Audit([status |-> "skipped", rows |-> 0])
    /\ Advance
    /\ UNCHANGED <<today, stored, warned, unaudited, losses>>

(* Any other exception, from the fetch or from the write.                  *)
RunFails ==
    /\ phase = "running"
    /\ Audit([status |-> "failed", rows |-> 0])
    /\ Advance
    /\ UNCHANGED <<today, stored, warned, unaudited, losses>>

(* The success row, and over it the failed row of _finalize.               *)
AuditTwice(rows) ==
    log' = [log EXCEPT ![turn] =
               Record(Record(@, cursor, [status |-> "success", rows |-> rows]),
                      cursor, [status |-> "failed", rows |-> 0])]

(* The server commits and the connection breaks before it says so: to      *)
(* execute_run the commit is an exception like any other.  (If _finalize   *)
(* cannot write either, the run is as good as RunSucceeds.)                *)
CommitInDoubt ==
    /\ phase = "running"
    /\ \/ /\ stored' = [stored EXCEPT ![turn] = @ \cup {cursor}]
          /\ \E rows \in RowsReported : AuditTwice(rows)
       \/ turn \in MayParseEmpty /\ AuditTwice(0) /\ UNCHANGED stored
    /\ Advance
    /\ UNCHANGED <<today, warned, unaudited, losses>>

(* As a skip or a failure, but _finalize cannot write the row and swallows that. *)
RunUnaudited ==
    /\ phase = "running"
    /\ losses < MaxLosses
    /\ losses' = losses + 1
    /\ unaudited' = [unaudited EXCEPT ![turn] = @ \cup {cursor}]
    /\ Advance
    /\ UNCHANGED <<today, stored, log, warned>>

(* The process dies: the open transaction rolls back, no row is written.   *)
Crash ==
    /\ phase = "running"
    /\ losses < MaxLosses
    /\ losses' = losses + 1
    /\ phase' = "idle"
    /\ UNCHANGED <<today, stored, log, start, cursor, turn, warned, unaudited>>

(***************************************************************************)
(* The environment.                                                        *)
(***************************************************************************)
(* The calendar turns between catch-ups; nights may pass without one.      *)
NextDay ==
    /\ phase = "idle"
    /\ today < LastDay
    /\ today' = today + 1
    /\ UNCHANGED <<stored, log, run, warned, unaudited, losses>>

RunOutcome ==
    \/ RunSucceeds \/ RunSucceedsEmpty \/ RunSkips \/ RunFails
    \/ CommitInDoubt \/ RunUnaudited

Next == PlanSeries \/ RunOutcome \/ Crash \/ NextDay

Spec == Init /\ [][Next]_vars

(***************************************************************************)
(* Properties.                                                             *)
(***************************************************************************)
Processed(p, d) == log[p][d].status \in {"success", "skipped"}

NoneFailedBelowFloor(p) ==
    \A d \in Day : log[p][d].status = "failed" => d >= Floor

(* A loaded day keeps its success row through every later re-run, crash    *)
(* and failure, the failure of the very run that loaded it included (its   *)
(* commit was made and the answer lost), for the products that report      *)
(* every row they read (execute_run, _finalize and the upsert of record).  *)
LoadedStaysSuccess ==
    \A p \in Product \ (CountsWritten \cup MayParseEmpty) : \A d \in stored[p] :
        log[p][d] = [status |-> "success", rows |-> 1]

(* Between two processed days every market day has an audit row, or was    *)
(* named by a gap warning, or lost its audit write: the anchor never jumps *)
(* silently over a day, whatever the sibling products did.                 *)
NoSilentHole ==
    \A p \in Product, d \in Day :
        /\ ~IsSunday(d)
        /\ \E e \in Day : Processed(p, e) /\ e < d
        /\ \E f \in Day : Processed(p, f) /\ d < f
        => log[p][d] # NoRow \/ d \in warned[p] \/ d \in unaudited[p]

(* What dataset_start promises to re-attempt: a recent skip, a failed day  *)
(* when no older one is out of reach, and every market day after the last  *)
(* processed one that never got a row; all within the cap.                 *)
Unsettled(p, d) ==
    /\ d >= Floor
    /\ \/ log[p][d].status = "skipped" /\ d >= today - SkipRetryDays
       \/ log[p][d].status = "failed" /\ NoneFailedBelowFloor(p)
       \/ /\ log[p][d] = NoRow /\ ~IsSunday(d) /\ d \notin unaudited[p]
          /\ \A e \in Day : Processed(p, e) => e < d

(* A backfill in progress started at or before every unsettled day of      *)
(* every product, and goes on covering them as its own runs change rows.   *)
BackfillCoversUnsettled ==
    phase = "running" =>
        \A p \in Product, d \in Day : Unsettled(p, d) => start <= d

(* The parts of the inductive invariant behind the two properties above.   *)
Accounted(p, d) == log[p][d] # NoRow \/ d \in unaudited[p]

BackfillInWindow ==
    phase = "running" => /\ Floor <= start /\ start <= cursor /\ cursor <= today
                         /\ ~IsSunday(cursor)

(* In the window, a backfill leaves no market day behind it unattempted.   *)
BehindCursorAccounted ==
    phase = "running" =>
        \A p \in Product, d \in Day :
            /\ Floor <= d /\ ~IsSunday(d)
            /\ d < cursor \/ (d = cursor /\ p < turn)
            => Accounted(p, d)

(* Below the window, what lies after a processed day was warned about.     *)
BelowFloorAccounted ==
    phase = "running" =>
        \A p \in Product, d \in Day :
            /\ d < Floor /\ ~IsSunday(d)
            /\ \E e \in Day : Processed(p, e) /\ e < d
            => Accounted(p, d) \/ d \in warned[p]

WindowAccounted ==
    \A p \in Product, d \in Day :
        /\ Floor <= d /\ ~IsSunday(d)
        /\ \E f \in Day : Processed(p, f) /\ d < f
        => Accounted(p, d)

IInv ==
    /\ TypeOK /\ BackfillInWindow
    /\ BehindCursorAccounted /\ BelowFloorAccounted /\ WindowAccounted
    /\ NoSilentHole /\ BackfillCoversUnsettled

(***************************************************************************)
(* What documents of the repository say, and the code does not do.         *)
(***************************************************************************)

(* "A failed day would otherwise be shadowed forever once any later day    *)
(* succeeded": every failed day within the cap is pulled back to.          *)
EveryFailedDayCovered ==
    phase = "running" =>
        \A p \in Product, d \in Day :
            log[p][d].status = "failed" /\ d >= Floor => start <= d
=============================================================================
