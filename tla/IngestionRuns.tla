--------------------------- MODULE IngestionRuns ---------------------------
(***************************************************************************)
(* The ingestion audit table and the arithmetic that catch-up does on it.  *)
(* One dataset's history is a function from days to audit rows.  A day is  *)
(* a proleptic ordinal (Python's date.toordinal()): consecutive days are   *)
(* consecutive integers and Sundays are the multiples of seven.            *)
(*                                                                         *)
(* Only what control flow looks at is kept of a row: its status, and       *)
(* whether it ingested any rows (0) or some (1).                           *)
(***************************************************************************)
EXTENDS Integers

Status == {"success", "skipped", "failed"}
NoRow == [status |-> "none", rows |-> 0]
Row == [status : Status, rows : {0, 1}] \cup {NoRow}

(* Python's None where a date is expected; recorded days are naturals.     *)
NoDay == -1

(***************************************************************************)
(* The upsert of one audit row: the WHERE of the ON CONFLICT DO UPDATE.    *)
(***************************************************************************)
Overwrites_Always(old, new) == TRUE  \* mutant: a plain upsert

Overwrites(old, new) ==
    \/ new.status = "success"
    \/ old.status # "success"
    \/ old.rows = 0

Record(history, day, row) ==
    [history EXCEPT ![day] = IF Overwrites(@, row) THEN row ELSE @]

(***************************************************************************)
(* The three aggregates of dataset_progress.                               *)
(***************************************************************************)
Latest(S) ==
    IF S = {} THEN NoDay ELSE CHOOSE d \in S : \A e \in S : e <= d

Earliest(S) ==
    IF S = {} THEN NoDay ELSE CHOOSE d \in S : \A e \in S : d <= e

DaysWith(history, statuses) ==
    {d \in DOMAIN history : history[d].status \in statuses}

DatasetProgress(history, skipRetryCutoff) ==
    [processed_through    |-> Latest(DaysWith(history, {"success", "skipped"})),
     earliest_failed      |-> Earliest(DaysWith(history, {"failed"})),
     earliest_recent_skip |-> Earliest({d \in DaysWith(history, {"skipped"}) :
                                            d >= skipRetryCutoff})]

(***************************************************************************)
(* Where a gap-fill starts.                                                *)
(***************************************************************************)
BoundedStart(anchor, floor) ==
    IF anchor = NoDay \/ anchor + 1 < floor THEN floor ELSE anchor + 1

PullBack(start, retry, floor) ==
    IF retry # NoDay /\ floor <= retry /\ retry < start THEN retry ELSE start

(* Mutants: failed days are not looked back for; neither are skips.        *)
DatasetStart_NoFailed(progress, floor) ==
    PullBack(BoundedStart(progress.processed_through, floor),
             progress.earliest_recent_skip, floor)

DatasetStart_NoSkips(progress, floor) ==
    PullBack(BoundedStart(progress.processed_through, floor),
             progress.earliest_failed, floor)

DatasetStart(progress, floor) ==
    PullBack(PullBack(BoundedStart(progress.processed_through, floor),
                      progress.earliest_failed, floor),
             progress.earliest_recent_skip, floor)

GapBeyondCap_OffByOne(progress, start) ==  \* mutant: the first lost day is not named
    IF progress.processed_through = NoDay
    THEN {}
    ELSE progress.processed_through + 2 .. start - 1

(* The days a gap_exceeds_cap warning names: passed over for good.         *)
GapBeyondCap(progress, start) ==
    IF progress.processed_through = NoDay
    THEN {}
    ELSE progress.processed_through + 1 .. start - 1

(***************************************************************************)
(* The candidate market days are every day but Sunday; a range of them is  *)
(* walked from each day's BusinessDayFrom.                                 *)
(***************************************************************************)
IsSunday(d) == d % 7 = 0

BusinessDayFrom(d) == IF IsSunday(d) THEN d + 1 ELSE d
=============================================================================
