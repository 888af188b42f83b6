----------------------------- MODULE WindowSeries -----------------------------
(***************************************************************************)
(* The NSE trade-level tape: catch_up plans a start day like for any other *)
(* series, and NseCorporateTradePipeline then walks the anchored seven-day *)
(* windows that overlap the range, the last one clamped to as_of.  A run   *)
(* is audited under the end of its window, its raw file is landed in the   *)
(* lake under the window's bounds and served from there from then on, and  *)
(* its trades replace what the table holds of the window.                  *)
(*                                                                         *)
(* Of a day's trades the model keeps whether a file or the table holds     *)
(* none, a part (the session was still going on), or all of them.  The     *)
(* exchange has all trades of a session by the next day.  Windows begin on *)
(* Mondays, which _ANCHOR is.                                              *)
(***************************************************************************)
EXTENDS IngestionRuns

CONSTANTS FirstDay,       \* a Monday, the oldest day of the instance
          FirstAsOf,      \* as_of of the first catch-up
          LastDay,
          MaxGapDays,     \* DEFAULT_MAX_GAP_DAYS
          SkipRetryDays,  \* DEFAULT_SKIP_RETRY_DAYS
          MaxLosses       \* bound on crashes and lost audit writes

ASSUME DaysAssumption ==
    /\ FirstDay \in Nat /\ FirstAsOf \in Nat /\ LastDay \in Nat
    /\ FirstDay % 7 = 1
    /\ MaxGapDays \in Nat /\ SkipRetryDays \in Nat
    /\ FirstDay + MaxGapDays <= FirstAsOf /\ FirstAsOf <= LastDay
ASSUME LossesAssumption == MaxLosses \in Nat
(* As by default (3 and 30): a skip that is looked back for is within the  *)
(* cap.  --max-gap-days can be set below the retry window; then a skip     *)
(* below the floor hides a later one.                                      *)
ASSUME RetryWindowAssumption == SkipRetryDays <= MaxGapDays

Day == FirstDay .. LastDay
Amount == {"none", "part", "all"}

WindowStart(d) == d - ((d - 1) % 7)
LastOfWindow(d) == WindowStart(d) + 6

VARIABLES
    today,      \* as_of
    sessions,   \* past days on which the exchange traded
    trading,    \* the exchange has published trades of today
    lake,       \* lake[e]: the raw file of the window that ends on e
    tape,       \* tape[d]: how much of day d the table holds
    log,        \* audit rows by run_date, which is the end of a window
    phase,      \* "idle" or "running"
    start,      \* the start day of the current backfill
    cursor,     \* the first day of the window being run
    unaudited,  \* window ends whose audit write was lost
    losses

run == <<phase, start, cursor>>
vars == <<today, sessions, trading, lake, tape, log, run, unaudited, losses>>

NotLanded == <<>>

TypeOK ==
    /\ today \in FirstAsOf .. LastDay
    /\ sessions \subseteq FirstDay .. today - 1
    /\ trading \in BOOLEAN
    /\ DOMAIN lake = Day
    /\ \A e \in Day : lake[e] = NotLanded \/ lake[e] \in [WindowStart(e) .. e -> Amount]
    /\ tape \in [Day -> Amount]
    /\ log \in [Day -> Row]
    /\ phase \in {"idle", "running"}
    /\ start \in Day /\ cursor \in Day
    /\ unaudited \subseteq Day
    /\ losses \in 0 .. MaxLosses

Floor == today - MaxGapDays

(* The days of the instance that precede its first catch-up were sessions. *)
Init ==
    /\ today = FirstAsOf
    /\ sessions = {d \in FirstDay .. today - 1 : ~IsSunday(d)}
    /\ trading = FALSE
    /\ lake = [e \in Day |-> NotLanded]
    /\ tape = [d \in Day |-> "none"]
    /\ log = [d \in Day |-> NoRow]
    /\ phase = "idle" /\ start = FirstDay /\ cursor = FirstDay
    /\ unaudited = {}
    /\ losses = 0

(***************************************************************************)
(* Planning and walking the windows.                                       *)
(***************************************************************************)
SeriesStart == DatasetStart(DatasetProgress(log, today - SkipRetryDays), Floor)

FirstWindow_Unaligned == SeriesStart  \* mutant: the first window begins at the start day

FirstWindow == WindowStart(SeriesStart)

Plan ==
    /\ phase = "idle"
    /\ IF SeriesStart <= today
       THEN phase' = "running" /\ start' = SeriesStart /\ cursor' = FirstWindow
       ELSE UNCHANGED run
    /\ UNCHANGED <<today, sessions, trading, lake, tape, log, unaudited, losses>>

(* The clamped end of the window that begins at cursor.                    *)
End == IF cursor + 6 <= today THEN cursor + 6 ELSE today

Advance ==
    /\ UNCHANGED start
    /\ IF cursor + 7 <= today
       THEN cursor' = cursor + 7 /\ UNCHANGED phase
       ELSE phase' = "idle" /\ UNCHANGED cursor

(***************************************************************************)
(* Fetching.                                                               *)
(***************************************************************************)
AtSource(d) ==
    CASE d \in sessions -> "all"
      [] d = today /\ trading -> "part"
      [] OTHER -> "none"

(* Mutant: the raw file is keyed by the window's start alone.              *)
LakeKey_StartOnly == cursor

LakeKey == End

Landed == lake[LakeKey] # NotLanded

Answer == [d \in cursor .. End |-> AtSource(d)]

Content == IF Landed THEN lake[LakeKey] ELSE Answer

Land == lake' = [lake EXCEPT ![LakeKey] = Content]

InContent(d) == IF d \in DOMAIN Content THEN Content[d] ELSE "none"

IsEmpty == \A d \in cursor .. End : InContent(d) = "none"

(***************************************************************************)
(* The outcomes of one execute_run.                                        *)
(***************************************************************************)
Audit(status, rows) == log' = Record(log, End, [status |-> status, rows |-> rows])

Replaced_Unbounded == [d \in Day |-> InContent(d)]  \* mutant: every day's rows are deleted

(* replace_window deletes the rows of the window and inserts the file's.   *)
Replaced == [d \in Day |-> IF d \in cursor .. End THEN InContent(d) ELSE tape[d]]

WindowLoads ==
    /\ phase = "running"
    /\ ~IsEmpty
    /\ Land
    /\ tape' = Replaced
    /\ Audit("success", 1)
    /\ Advance
    /\ UNCHANGED <<today, sessions, trading, unaudited, losses>>

(* A file without trades is landed before anybody sees that it is empty.   *)
WindowEmpty ==
    /\ phase = "running"
    /\ IsEmpty
    /\ Land
    /\ Audit("skipped", 0)
    /\ Advance
    /\ UNCHANGED <<today, sessions, trading, tape, unaudited, losses>>

(* The exchange answers with a page instead of a file.                     *)
WindowRefused ==
    /\ phase = "running"
    /\ ~Landed
    /\ Audit("skipped", 0)
    /\ Advance
    /\ UNCHANGED <<today, sessions, trading, lake, tape, unaudited, losses>>

(* The request, the parse or the write fails; the file may be landed.      *)
WindowFails ==
    /\ phase = "running"
    /\ Land \/ UNCHANGED lake
    /\ \/ Audit("failed", 0) /\ UNCHANGED <<unaudited, losses>>
       \/ /\ losses < MaxLosses
          /\ losses' = losses + 1
          /\ unaudited' = unaudited \cup {End}
          /\ UNCHANGED log
    /\ Advance
    /\ UNCHANGED <<today, sessions, trading, tape>>

Crash ==
    /\ phase = "running"
    /\ losses < MaxLosses
    /\ losses' = losses + 1
    /\ phase' = "idle"
    /\ Land \/ UNCHANGED lake
    /\ UNCHANGED <<today, sessions, trading, tape, log, start, cursor, unaudited>>

(***************************************************************************)
(* The environment.                                                        *)
(***************************************************************************)
SessionOpens ==
    /\ ~trading /\ ~IsSunday(today)
    /\ trading' = TRUE
    /\ UNCHANGED <<today, sessions, lake, tape, log, run, unaudited, losses>>

(* The session of today, if there was one, is over.                        *)
NextDay ==
    /\ phase = "idle"
    /\ today < LastDay
    /\ today' = today + 1
    /\ sessions' = IF trading THEN sessions \cup {today} ELSE sessions
    /\ trading' = FALSE
    /\ UNCHANGED <<lake, tape, log, run, unaudited, losses>>

WindowRun == WindowLoads \/ WindowEmpty \/ WindowRefused \/ WindowFails

Next == Plan \/ WindowRun \/ Crash \/ SessionOpens \/ NextDay

Spec == Init /\ [][Next]_vars

(* The scheduler fires, a started backfill goes on, the calendar turns,    *)
(* and no window's run errors out every time it is attempted.              *)
Fairness ==
    /\ WF_vars(Plan) /\ WF_vars(WindowRun) /\ WF_vars(NextDay)
    /\ \A w \in {d \in Day : WindowStart(d) = d} :
          SF_vars(cursor = w /\ (WindowLoads \/ WindowEmpty))

FairSpec == Spec /\ Fairness

(***************************************************************************)
(* Properties.                                                             *)
(***************************************************************************)
NoneFailedBelowFloor == \A e \in Day : log[e].status = "failed" => e >= Floor

(* A session of a past day that the table holds in part, or not at all.    *)
Incomplete(d) == d \in sessions /\ tape[d] # "all"

(* Its whole window was skipped too long ago, or left no audit row.        *)
GivenUp(d) ==
    LET e == LastOfWindow(d) IN
    /\ e \in Day
    /\ \/ log[e].status = "skipped" /\ e < today - SkipRetryDays
       \/ e \in unaudited

(* A day whose session was going on when its run recorded a success is     *)
(* behind the anchor, yet every backfill covers it again until it is whole *)
(* as long as its window reaches the cap (windows are anchored, and the    *)
(* day after a clamped end lies in the same window).                       *)
IncompleteDaysCovered ==
    phase = "running" =>
        \A d \in Day :
            /\ Incomplete(d) /\ ~GivenUp(d)
            /\ LastOfWindow(d) >= Floor /\ NoneFailedBelowFloor
            => WindowStart(start) <= d

(***************************************************************************)
(* The inductive invariant behind them.                                    *)
(***************************************************************************)
(* The exchange is shut on Sundays, the last days of the windows.          *)
SundaysOff == (\A d \in sessions : ~IsSunday(d)) /\ (trading => ~IsSunday(today))

(* A landed file has every session before its last day whole, and calls    *)
(* nothing whole that is not a session over; so does the table.            *)
FilesFinal ==
    /\ \A e \in Day : lake[e] # NotLanded =>
          /\ e <= today
          /\ \A d \in WindowStart(e) .. e :
                /\ d \in sessions /\ d < e => lake[e][d] = "all"
                /\ lake[e][d] = "all" => d \in sessions
    /\ \A d \in Day : tape[d] = "all" => d \in sessions

(* A success under a window's Sunday stands for the whole window.          *)
LoadedWhole ==
    \A e \in Day :
        /\ log[e] # NoRow => e <= today
        /\ IsSunday(e) /\ log[e].status = "success" =>
              \A d \in WindowStart(e) .. e : d \in sessions => tape[d] = "all"

(* The window that ends on Sunday e has been accounted for.                *)
Accounted(e) == log[e] # NoRow \/ e \in unaudited

(* Within the cap, no window is passed over that is not accounted for.     *)
NoHole ==
    \A e, later \in Day :
        IsSunday(e) /\ Floor <= e /\ e < later /\ log[later] # NoRow => Accounted(e)

(* A backfill walks anchored windows, from the one of its start day on.    *)
Walking ==
    phase = "running" =>
        /\ cursor = WindowStart(cursor) /\ WindowStart(start) <= cursor
        /\ cursor <= today /\ start <= today /\ Floor <= start
        /\ \A e \in Day : IsSunday(e) /\ Floor <= e /\ e < cursor => Accounted(e)

IInv ==
    /\ TypeOK /\ SundaysOff /\ FilesFinal /\ LoadedWhole /\ NoHole /\ Walking
    /\ IncompleteDaysCovered

(* A day the table holds whole never becomes partial again, whatever files *)
(* of earlier, clamped windows the lake still serves.                      *)
WholeStaysWhole == [][\A d \in Day : tape[d] = "all" => tape'[d] = "all"]_vars

(* Every session within the cap is whole in the end, unless its window was *)
(* given up or an older failure masks it.                                  *)
SessionsBecomeWhole ==
    \A d \in Day :
        (/\ today = LastDay /\ Incomplete(d) /\ ~GivenUp(d)
         /\ LastOfWindow(d) >= Floor /\ NoneFailedBelowFloor)
        ~> (tape[d] = "all" \/ GivenUp(d))
===============================================================================
