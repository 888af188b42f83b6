# A TLA+ verification of the bond data pipeline

This directory holds TLA+ models of the bond data pipeline, the TLC
configurations that check them on small instances, and proofs, checked by
TLAPS, of what matters most about the core of the system for every value of
its constants. Paths below are relative to the root of the repository;
`pipelines/`, `sources/`, `storage/` and `quality/` are under `src/bonds/`.

The pipeline is a batch program. Once a day a scheduler starts
`scripts/run_daily_ingest.sh`, which takes a lock, brings up Postgres and runs
`bonds ingest catch-up`; that command asks an audit table which days each
source still owes, downloads them one by one into a raw data lake and into
Postgres, and recomputes derived tables. It is built to *heal itself*: nights
are missed, sources publish late, requests fail, processes die, and the next
run is expected to repair it all. What is hard to test is therefore not any
single ingest but long histories: which days end up behind which anchor after
weeks of mixed outcomes, what a file landed at 13:00 does to the run of 19:00,
what a killed shell leaves for the next one. Those histories are what the
models explore.


## 1. Inventory

### 1.1 Components

**Audit table and catch-up arithmetic** (`storage/repositories.py`,
`pipelines/catchup.py`, `calendar.py`).
State: `ingestion_runs`, one row per (source, dataset, run date) with a status
`success`, `skipped` or `failed` and a row count.
Operations: `record` (an upsert under which a success that has rows is
sticky), `dataset_progress` (three aggregates: the newest success or skip, the
oldest failure, the oldest recent skip), `bounded_start`, `dataset_start`
(resume after the anchor, but pull back to the oldest failure and the oldest
recent skip that lie within the cap), `series_start` (the minimum over the
datasets of a source, and a warning for a gap longer than the cap),
`business_days` (every day but Sunday).
Correct when no market day is passed over without a trace, and every day that
deserves another attempt gets one.

**Pipelines of a date series** (`pipelines/base.py`, `sovereign_valuation.py`,
`yield_curve.py`, `trade.py`, `corporate_trade.py`, `bond_report.py`).
State: the rows of their tables. Operations: `backfill(start, end)` over
business days and products, each in `execute_run`, which commits the rows and
the success row in one transaction, turns `DataUnavailable` into a skip and
any other exception into a failure, and writes those two in a fresh session
whose own failure it swallows. A commit that went through without its answer is
such an exception too: rows stay, and their success row is followed by a failure.
Correct when the audit table and the data do not disagree in a direction that
hides a loss.

**Trade-level windows (NSE)** (`pipelines/corporate_trade.py`,
`sources/nse_trade_settlement.py`). State: raw files per window, the table
`corporate_trades`. The pipeline walks seven-day windows anchored on a Monday,
the last one clamped to `as_of`, replaces the table's rows of each window by
what its file holds, and audits under the window's last day.
Correct when a day that was partly loaded becomes whole, and stays so.

**Derived products** (`pipelines/liquidity.py`, `pipelines/spread_matrix.py`,
`catchup.py:191`). State: a table per product, keyed by as-of date. Each run
deletes the day's rows and inserts what it computes from a trailing window of
the trade tape.
Correct when every market day has an answer, and today's describes the tape as
this catch-up left it.

**Daily wrapper** (`scripts/run_daily_ingest.sh`). State: the lock directory
and its pid file, the Postgres container, shell variables. Operations: `mkdir`
lock, a grace period (by the age of the directory, which `stat` tells on macOS
and not on Linux), a liveness test, a steal by `mv`, a cleanup trap.
Correct when one run ingests at a time, keeps its database, and a dead run
never blocks the next night.

**Attribute history** (`storage/repositories.py:63-109, 456-532`,
`pipelines/universe.py`, `bond_report.py`; read by `spread_matrix.py`). State:
effective-dated (SCD-2) rows per instrument and attribute. Operation:
`record_attribute_bulk` with a guard against mass withdrawals.
Correct when each instrument has one value on each day and history is not
rewritten by batches that arrive out of order.

**Bitemporal tables** (`storage/repositories.py:112-254`). State: versions of
`valuations` and `yield_curves` with `loaded_at` and `superseded_at`.
Operation: `upsert_many`, chunk by chunk under READ COMMITTED.
Correct when each key has one current version, no version is lost, and "what
did we believe on date X" has one answer.

**Security master and enrichment** (`storage/repositories.py:320-455`,
`pipelines/universe.py`, `enrichment.py`, `sovereign.py`, `states.py`, the data
repairs of `migrations/versions`). State: `securities`, a row per ISIN.
Operations: `upsert_many`, `insert_missing`, `enrich_missing`; enrichment reads
gaps in one session and writes in another; reconciliation compares before a
snapshot overwrites.
Correct when a value once known is never blanked, the observed window is exact,
repaired vocabulary stays repaired, and a replaced coupon was reported.

**Day-keyed lake** (`sources/bse.py`, `fbil.py`, `nse_cbm.py`,
`nse_bond_report.py`, `cdsl.py`). State: one raw file per day. Operations:
`download`, which decides what may land, and `read_or_download`, which decides
what may be served back; the parsers decide between a skip and a failure.
Correct when no answer of a source that is down passes for a day without data,
no day is a success without rows, and what is published is loaded in the end.

**BondCentral crawl** (`sources/bondcentral.py`). State: that of one generator:
the page, what was read, counts of skipped pages, lost records and failures in
a row. Operation: `iter_records`, which pages the securities master and
re-reads a failed page down a ladder of sizes (100, 10, 1), so that one record
the API cannot serialise does not cost the other ninety-nine.
Correct when a pull that ends normally accounts for every record, an outage is
cheap and loud, and every pull ends.

**HTTP client** (`http/client.py`). State: the attempts of one request.
Operation: `_send`, which retries transport errors and five statuses unless the
caller opts one out, and raises what is left.

**Snapshot sources** (`catchup.py:214-250`, `public_issue.py`,
`rbi_auction.py`, `rbi_auction_result.py`, `sources/sebi.py`, `rbi.py`,
`rbi_auction_result.py`). State: keyed tables, the bodies of press releases
cached for one run. Operations: a run each night, the half-yearly CDSL date,
which is due until it has loaded, and the parser of RBI's full results.
Correct when an auction's figures are the published ones, security by security.

**CCIL tape and NSE live pages** (`sources/ccil_historical.py`, `nse.py`).
Operations: cookies, challenge pages, the repair of garbled rows and the fold of
a tape into one summary per security; the refusal of a session in progress.
Correct when a summary says what the tape says, and of a whole session.

**Not modelled:** curves, present values and buckets (stateless floating-point
arithmetic), data quality but for the reconciliation (read-only queries whose
results nothing reads back), the DDL, command line, configuration, logging.

### 1.2 How they interact

    scheduler ──starts──> run_daily_ingest.sh ──lock, container──> bonds ingest catch-up
                                                                      │
            ┌──────────── series_start (reads ingestion_runs) <───────┤  for each source
            ▼                                                         │
       backfill ──fetch──> connector ──file──> lake                   │
            │  one transaction: rows + success row                    │
            │  fresh session:   skipped / failed row                  │
            ▼                                                         ▼
      tables (trades, valuations, curves, attributes) ──read──> derived products

Everything inside a catch-up is sequential. Concurrency comes from outside:
runners started by launchd at load time, by a timer and by hand (the lock is
for them), and ingest commands typed by an operator, which take no lock and so
add sessions to the database. The components communicate through shared state
only: the audit table (planning reads what earlier runs wrote), the lake (a
later run reads what an earlier one landed), the tables, the lock directory.

### 1.3 What is hard

* *Long histories.* An anchor that is one maximum and a retry that is one
  minimum summarise a whole column of outcomes; losses show only after a
  particular sequence of them, several nights long.
* *Time of day.* The scheduled run is at 13:00, before most sources publish.
  Every night sees a session that is still going on.
* *Failure between steps.* The audit write may be lost, the process may die
  between days, a file may be landed by a run that then fails.
* *Interleaving* of shells between `mkdir`, `cat`, `kill -0`, `mv`, and of
  database sessions between a select and the write that depends on it.
* *Order of arrival* of dated batches: a CDSL snapshot six months old arrives
  after yesterday's BondCentral night.

The full list, each item at its line, is under `hazards` in `PROJECT.json`.


## 2. Plan

Each step is ordered by how much of the system depends on it.

| # | Module | Models | State |
|---|--------|--------|-------|
| 1 | `IngestionRuns`, `CatchUpDays`, `DateSeries` | audit table, calendar and cap, planning, backfill | checked and proved |
| 2 | `IngestLock` | the wrapper | checked and proved |
| 3 | `WindowSeries` | NSE windows and their lake | checked and proved |
| 4 | `DerivedViews` | derived phase over a tape | checked, safety proved |
| 5 | `AttributeHistory`, `AttributeTimeline` | SCD-2 history and its abstract timeline | checked and proved, the refinement too |
| 6 | `BitemporalRows` | valuations, curves | checked and proved |
| 7 | `UniverseCrawl` | the BondCentral crawl | checked, safety proved |
| 8 | `SecurityMaster` | master, enrichment in two sessions, data repairs | checked and proved |
| 9 | `Connectors`, `SourceDay` | a day of each source: requests, retries, lake, verdict, audit | checked, safety proved |
| 10 | `CcilTape`, `AuctionRelease` | the two parsers that fold and align | checked within `SourceDay`, and proved |

Composition: `DateSeries`, `DerivedViews` and `WindowSeries` share
`IngestionRuns`, the first two also the calendar of `CatchUpDays`;
`DerivedViews` composes two catch-up phases; `SourceDay` composes the
connectors, the HTTP retries, the two parsers and the audit row;
`AttributeHistory` implements `AttributeTimeline`. Not stated: an abstract
ledger of days ("owed", "settled", "given up") that both `DateSeries` and
`WindowSeries` implement.

Every safety property that a passing run checks is proved, for every value of
the constants; liveness is left to TLC (section 5.9).


## 3. The modules

### `IngestionRuns`: operators on one dataset's history
A history is a function from days to audit rows; a day is an ordinal, Sundays
are the multiples of seven (Python's `date.toordinal()` has that property). Of
a row the status and "some rows or none" are kept, which is all that the code
looks at. `Record` is the `WHERE` of the upsert, `DatasetProgress` the three
aggregates, `DatasetStart`, `BoundedStart` and `PullBack` the arithmetic,
`GapBeyondCap` the days that the gap warning names.

### `CatchUpDays`: the calendar of a catch-up
The days of an instance, `as_of` (`today`) and the floor of the gap cap, which
`DateSeries` and `DerivedViews` share as the sources of one `catch_up` do.

### `DateSeries`: one gap-filled source
Products of one source in the order of the product tuple. `PlanSeries` is
`series_start` with its warnings and the decision to call `backfill`; `Advance` is
the loop of `backfill` and `run_date`; `RunSucceeds`, `RunSucceedsEmpty`,
`RunSkips`, `RunFails`, `CommitInDoubt` and `RunUnaudited` are the outcomes of one
`execute_run`; `Crash` is the death of the process; `NextDay` the calendar, so that
nights without a catch-up are included. Rows and success row are one action because
they are one transaction of the database; `CommitInDoubt` is what comes in between
all the same, a commit whose answer is lost, after which `_finalize` records a
failure over the success (`AuditTwice`). What a source answers is free: it may
publish late or answer "nothing" for a day it has. `CountsWritten` are the products
whose row count is what they changed (curves, the bond report), `MayParseEmpty`
those whose connector can hand back an empty batch. `warned` and `unaudited` are
history variables: the days named by a warning, and those whose audit write was
lost.

### `WindowSeries`: the NSE windows and their raw files
As `DateSeries`, but the unit of work is an anchored window. A day's trades
are `none`, a `part` (the session was going on) or `all`, in the file and in
the table. A raw file is keyed by the window's bounds, landed before it is
looked at, and served back from then on. `Replaced` is `replace_window`.

### `DerivedViews`: the derived phase over a tape
One catch-up from front to back, as the `stage` it is in: `PlanTapes`, the
outcomes of each tape day, `PlanViews` (`derived_days`), and the runs of the
derived product; `KillCatchUp` and `NextNight` come in between. A derived row
is abstracted to the set of tape days it was computed from. The source
publishes a day at any time after the day begins.

### `IngestLock`: the wrapper, command by command
A runner is a pid with a program counter; one step is one command that touches the
lock directory or the container. `Alive` is `kill -0` with `ps`: any live runner
under that pid, which with reused pids need not be the holder. `GraceElapses` lets
five minutes pass whenever no runner is inside one of the short windows of a few
commands (`mkdir` to `echo`, `cat` to `stat`, within `rm -rf`). `overtaken` and
`robbed` are history variables: who decided on an older directory than the one that
is there, and whether such a runner has moved it away. `mtimeReadable`, which
nothing changes, is what `stat -f %m` does: BSD's prints the mtime; GNU's prints a
file-system report and fails, so that the mtime of the second form comes after it,
and the age is an arithmetic error. Under `set -u` that ends the script
(`AgeIsNoNumber`), before the cleanup trap is set, and nobody comes to `mv` from
there. `OneOwner`, `OwnerHasLock`, `JudgesSpareOwner`, `ThievesAreLate` and
`StartedByRun` are the parts of its inductive invariant (section 5). Log pruning,
notifications, `caffeinate` and the wait for the Docker daemon are left out: they
touch none of this state.

### `AttributeHistory` and `AttributeTimeline`
`Read` is the fetch and the query for open rows, `Commit` the decision of
`_apply_scd2` for every instrument of the batch with the withdrawal guard, the
insert and the update; the unique constraint (`Collides`) and any other error
lead to `Rollback`. The rows of an instrument are a function from `valid_from`
because (isin, attribute, valid_from) is unique. `AttributeTimeline` is what
the table promises: a value in force per day, and a batch changes days from its
effective date on only. `ReadBySpreadMatrix` is the join of the spread matrix.

### `BitemporalRows`
A session walks its keys: `Select`, then `KeepsRow` or `Restates`, then
`Commit`. READ COMMITTED is modelled by what it gives: a select sees what is
committed, a write waits for another session's write of the key (`Waits`) and
runs into the partial unique index (`Collides`) if the key has a current row
that this session has not closed. `now()` is the moment the transaction began.
`overlapped` is a history variable. A chunk is one key.

### `UniverseCrawl`: one pull of the securities master
A step is one turn of the loop of `iter_records`, with every request made for that
page: `PageItems` is `_page_items` and `_recover_page`, which call one another down
to single records. `ReadPage` makes the page of one size, from the pages of the next
size down; `SlicesRead` is the loop over its slices, `Summarise` what the recovered
page reports, and `Ladder` has the pages of every size. Before the first step the
feed is chosen: which records the API cannot serialise (`broken`), whether it sends
totals (`tells`), and `max_pages` (`cap`). `Mishaps` is what may go wrong with the
host during a turn: up to `MaxFaults` requests fail, or all of them, and one may be
refused, which ends the turn. A request may also be answered `hollow`, by a JSON
object with neither `data` nor `pagination_info`, as a gateway in front of a dead
host sends it: to the code that is an empty page without a next one, whole or as a
slice, and no error. `HollowTurn` is a turn with such an answer, on at most
`MaxHollow` pages of a pull. `KeepPage` is the branch after a page, `SkipPage` the
`except`. A page is the set of its records; `got`, `skipped`, `faulty` (pages that
met a fault of the host) and `hollow` (those with a hollow answer) are sets where
the code counts; `requests` is what the last turn cost. `_parse_item` and
`fetch_reference` are in `SecurityMaster`; the raw files are left out. `PageBound`
closes the range of `page`, and no crawl reaches it (lemma `NeverBounded`).

### `SecurityMaster`: one row of `securities`
No statement of the repository relates two rows, so the module follows one
security, chosen as a corporate bond, a state loan or a T-Bill. An action is
the transaction of one pipeline: `BondCentralNight` and `CdslSnapshot`
(`Universe`: reconcile, then upsert), `BondReport`, `FbilValuations`,
`CcilTrades`, and `Upgrade`, the two repairs. The enrichment is three actions,
`ReadGaps`, `FetchReference` and `WriteEnrichment`, and anything may come
between them. `SaidBy…` are the records the parsers make, with the vocabularies
of interest types and of state names. `seen` and `mismatch` are history
variables. Enrichment does not change `source`, so a CDSL coupon that replaces
one enriched from BondCentral counts as the same source's for `Disagree`, as in
the code; the FBIL and bond-report upserts do not reconcile at all.

### `Connectors`, `SourceDay`: one day of one source
`Connectors` classifies what a source may answer (a body by what is in it, any
other answer by its status) and says for each connector, as a record of sets,
which answers it lands, serves back, takes for a day without data, or lets pass
without rows. `SourceDay` picks one of nine feeds and follows one day of it:
`Publish` moves the source on, `Night` or `Rerun` begins a run, which is served
by the lake or asks; an answer is retried (`Retry`), taken for a challenge
(`Reprime`) or taken (`Take`); `Conclude` is the end of `execute_run` with its
upsert and its audit row, `Crash` the death of the process. RBI's and NSE's runs
make several requests, and a release that cannot be had costs that release
only. Batches are sets of artifacts, each a part or all of its rows. When a run
of CCIL or RBI succeeds, `content` is any tape or release of the configuration,
and the properties compare what the code makes of it with what it says.

### `CcilTape`, `AuctionRelease`: two parsers
`CcilTape` is the row repair (`RepairPriceYield`) and the fold of
`aggregate_trades`: `Groups` adds the trades row by row, each to the accumulator
of its security. Figures are whole numbers, and a weighted average is a pair of
sums. `IsTape` says what CCIL may print: any rows, as long as the descriptions of
one security agree whether it is a strip. `AuctionRelease` is
`parse_auction_results` over pages of tables of cells, where a cell is a label,
a name, a figure known by where it was published, or blank; `Walk` goes through
a table row by row. Its second half builds releases laid out like the fixtures in
`tests/fixtures/rbi`: `priced`, a G-Sec or T-Bill release of one table
with the yields in parentheses below the prices, and `state`, with a table for
each group of states inside another one. `IsRelease` leaves open the securities,
their number, the groups, which cells are blank, and the cells that stand before
a row of yields; it asks that no security is named like a label of the table.
Of the fixtures' rows these are not built, and their fields not exercised: the
`(ii) Amount` received and the `(i) No.` accepted of the competitive bids, the
tenor, and the rows of the non-competitive price and the total allotment.

Each `MC…` module instantiates one of these for TLC. Definitions with an
underscore (`Advance_PastEnd`) are wrong variants of the definition below them;
with one of those in place TLC refutes the property that is listed for it in
`PROJECT.json`, which shows that the property depends on that code.


## 4. What TLC checks

| Run | Instance | Shows |
|-----|----------|-------|
| `DateSeries` | 2 products, 4 days around a Sunday, cap 1, retry window 1, 1 loss | `LoadedStaysSuccess`, `NoSilentHole`, `BackfillCoversUnsettled`, the inductive invariant |
| `ShadowedFailure` | 1 product, 5 days, cap 2 | refutes `EveryFailedDayCovered` |
| `IngestLock` | 2 pids, 2 crashes, mtime readable or not, fair | `HolderKeepsLock`, `PostgresKeptForRun`, `IngestsAgain`, the inductive invariant |
| `OverlappingRuns` | 3 pids, no crash | refutes `NoOverlappingRuns` |
| `DerivedViews` | 4 days around a Sunday, cap 2, window 3, 1 crash, fair | `UnansweredDaysPlanned`, `TodayDescribesTape`, `EveryDayAnswered` |
| `AttributeHistory` | 2 instruments, 2 sources, 3 days, 1 withdrawal allowed | `RowsTileTheDays`, `ImplementsTimeline`, `NoMassWithdrawal`, the inductive invariant |
| `RatingGap` | 1 instrument, 1 source, 3 days | refutes `RatingInForceOnQuoteDate` |
| `BitemporalRows` | 2 keys, 2 sessions, 5 transactions | `OneCurrentVersion`, `NothingForgotten`, `BeliefAnswerable`, the inductive invariant |
| `WindowSeries` | a week, its Sunday and the next Monday, cap 2, 1 loss, fair | `IncompleteDaysCovered`, `WholeStaysWhole`, `SessionsBecomeWhole`, the inductive invariant |
| `UniverseCrawl` | 9 records, pages of 4, 2 and 1, at most 1 broken, 2 faults a page or an outage, 1 hollow page, with and without totals and cap, fair | `EveryRecordCounted`, `LadderLosesOnlyBroken`, `NoEmptySnapshot`, `EndGuessedOnlyBlind`, `OutageIsCheap`, `PullEnds` |
| `SecurityMaster` | one security of three kinds, 2 dates, 2 coupons, 3 spellings | `SeenWindowTight`, `RepairHolds`, `ReferenceNeverLost`, `DisagreementReported` |
| `SourceDay` | 9 feeds, 1 retry, 3 faults, 194 tapes, releases of 2 or 3 securities with cells missing, fair | `NoRowlessSuccess`, `OutageNotHoliday`, `TapeFigures`, `FiguresAsPublished`, `SessionSummaryWhole`, `PublishedDayLoads` |

`TypeOK` is checked as a part of the inductive invariants, where it holds up the
rest. The inductive invariants of `DerivedViews` (`ViewsInv`), `SecurityMaster`,
`SourceDay` and `UniverseCrawl` (`CrawlInv`) are proved and have no run: they were
checked on the same instances before they were proved, and what they add to the
checked properties is of use to the proof only.

### 4.1 The properties, and why they are not obvious

* **`NoSilentHole`.** The anchor is a maximum, so any later success hides what
  is before it. Between two processed days each market day has an audit row,
  was named by a warning, or lost its audit write, whatever crashes, missed
  nights and sibling products did.
* **`BackfillCoversUnsettled`.** A backfill starts at or before every recent
  skip, failed day and never-attempted day within the cap, and still does so
  after its own runs have changed the table. One exemption is real: a failure
  below the cap masks the others (`NoneFailedBelowFloor`; finding 1).
* **`LoadedStaysSuccess`.** A loaded day keeps its success row through every
  later re-run, whether that is skipped, fails, or commits without being told.
* **`HolderKeepsLock`, `PostgresKeptForRun`.** As long as nobody has moved
  away a directory made after they looked, a run in progress owns the lock
  with its own pid in it, nobody else does, and the container it started is
  not stopped under it, with pids reused and directories half-made by killed
  runners.
  Both are checked, and proved, for a readable mtime and an unreadable one.
* **`IngestsAgain`.** Whatever a killed run left, nights with one runner each
  come to ingest again, with one exception: a lock without a pid where its age
  cannot be read (`BlockedForGood`, Linux; 4.4). On macOS there is none, and
  without that disjunct TLC refutes the property.
* **`UnansweredDaysPlanned`, `EveryDayAnswered`, `TodayDescribesTape`.**
  No outage leaves a market day within the cap without a derived row, and the
  row of today includes the tape that the same catch-up loaded.
* **`RowsTileTheDays`, `ImplementsTimeline`, `NoMassWithdrawal`.** Batches of
  two sources in any order of their dates leave neither gap nor overlap nor
  two open rows, never change a day before their date, and never withdraw
  more values in one night than the guard allows.
* **`OneCurrentVersion`, `NothingForgotten`, `BeliefAnswerable`.** Overlapping
  sessions lose nothing; sessions one after the other leave each moment with
  exactly one believed version.
* **`IncompleteDaysCovered`, `WholeStaysWhole`, `SessionsBecomeWhole`.** A day
  loaded in part is behind the anchor at once (its run was a success), and is
  still covered again because windows are anchored; files landed for shorter
  windows never come back into a longer one.
* **`EveryRecordCounted`, `LadderLosesOnlyBroken`.** Whether there is a next
  page is learnt from the last slice of a page, which may be the one that is
  lost. A normal end still accounts for each record of the pages that were
  answered (a hollow answer leaves out records that nobody counts), and away from the two
  places where the code takes a failing slice for an outage, only the
  unserialisable records are missing.
* **`NoEmptySnapshot`, `EndGuessedOnlyBlind`, `OutageIsCheap`, `PullEnds`.** The
  loop tells a broken page, an outage and the end of a feed without totals
  apart by counters only: requests that fail never make an empty snapshot (an
  answer that is no error can: 4.4), a feed of known length is never
  cut short by a guess, an outage costs two requests per page and not the ladder,
  and the loop ends whatever the feed does.
* **`ReferenceNeverLost`, `RepairHolds`, `SeenWindowTight`.** Six writers touch
  a security in any order of dates, two of them in the middle of an enrichment:
  no known value is blanked, no load brings back a spelling that a migration
  repaired, and the observed window is that of the dates actually seen, no
  wider and no narrower.
* **`DisagreementReported`.** A snapshot that replaces the coupon of another
  source by one beyond the tolerance has reported it in the same transaction.
* **`NoRowlessSuccess`, `OutageNotHoliday`.** A success ends the attempts, and a
  skip is a source's word that there is nothing. Each connector takes other
  answers for "no data" (a 404, a 500, an empty table, a page without rows),
  some of which are what another one answers when it is down.
* **`PublishedDayLoads`.** Crashes, refusals, exhausted retries, expired cookies
  and runs before publication delay a settled day, and never lose it, unless a
  body that is believed landed first (`Poisoned`).
* **`SessionSummaryWhole`.** The live pages are read one by one and the clock
  after them, and a part of a session is never stored as its summary.
* **`TapeFigures`, `FiguresAsPublished`.** What the fold and the alignment by
  position make of a tape or a release, compared with a statement about the
  tape or the release that does not use them.

### 4.2 Bounds, and why they are enough

Days only meet through comparisons with the anchor, the floor and the retry
window, so an instance needs a day below the floor, days on both sides of the
retry cutoff, a Sunday, and nights enough for a day to cross from one region
to the next: four or five days with a cap of one or two do that. The first
`as_of` lies `MaxGapDays` after `FirstDay`, so that no plan leaves the
instance; `LastDay` bounds the calendar. Two products suffice for one to lead
and one to lag. `MaxLosses` and `MaxCrashes` bound kills and lost audit writes;
one already separates "attempted" from "recorded". The `WindowSeries` instance
has the last days of one window, its Sunday, and a first day of the next. `IngestLock`
has two pids, each used again and again; `OverlappingRuns` has three, so that
its counterexample shows a holder, a stealer and a newcomer, and the proofs of
section 5 cover any number.
Three days of attribute history are a row before, a row after and a batch in
between. `MaxClock` bounds the number of transactions of the bitemporal run:
five allow two restatements of a key to be overtaken. `UniverseCrawl` scales
the ladder down (4, 2, 1 for 100, 10, 1) and the budgets with it (2 skipped
pages for 30, 2 failures in a row for 3), and keeps what the code's numbers
have in common with it (`CrawlAssumption`, `BudgetAssumption`): three rungs, a
feed longer than the budget, a last page that is not full. One hollow page
(`MaxHollow`) is enough to come before, among and after pages of every other
kind; the proofs hold for any number of them. What these bounds
leave open for the safety properties is closed by the proofs of section 5, which
assume nothing of their size; what they leave open for liveness is not.
`SecurityMaster` needs two coupons to disagree, two dates to arrive out of order,
and a spelling of each treatment. In `SourceDay` three faults let a run fail by
an exhausted retry (two answers) and one more thing go wrong, or a challenge be
met twice by one run. A run sees the source's day move once at most
(`advanced`): a run takes minutes, the stages are hours apart (NSE's reporting
closes half an hour before the close that the connector waits for). The tapes
are every one- or two-row tape of the kinds of rows the code comments record and
of two with a price of 40 or 39 and a yield of -20 or 40, the bounds of the repair,
and every three-row tape of one security; the releases have each single cell,
each pair of quotes, each row and each column missing. `TapeSummarised` and
`ReleaseParsed` are about tapes of any length and releases of any size.

`BitemporalRows` and `UniverseCrawl` run with deadlock checking off, because
they really stop: when `MaxClock` transactions have been made, and when the
pull has ended. In every other run some action stays possible.

### 4.3 Fairness, and why the code justifies it

* The scheduler fires every day and a started process goes on: weak fairness
  of planning, of the runs and of the calendar (launchd and systemd both run a
  missed job at the next wake).
* `WindowSeries`, `DerivedViews`: no run of a window or a derived day errors out
  *every* time it is attempted: strong fairness of a resolving outcome. This is
  a statement about the source, without which no code could heal anything; that
  it *is* attempted again is the code's part, and what the properties check.
* `SourceDay`: nights come, a request is answered or times out, a run ends: weak
  fairness of `Night`, `Attempt` and `Conclude`. Faults are bounded by
  `MaxFaults`, so that a source answers in the end; `Publish` is not fair, a day
  may never be published. NSE's live pages are not part of the scheduled
  catch-up: for them `Night` is the operator who comes back.
* `IngestLock`: live runners go on, and the grace period elapses if it can do
  so infinitely often. `IngestsAgain` further assumes `RunsApart`: from some
  point on runners start one at a time, as the timer does it.
* `UniverseCrawl`: weak fairness of the loop. It waits for nobody but the host,
  and a request ends with the client's timeout at the latest.

### 4.4 Where code and documentation disagree

Three runs refute what a document or a comment of the repository says.

1. **`ShadowedFailure`.** `earliest_failed` is the oldest failure ever
   recorded; once it is below the cap it is ignored, and with it every failure
   within the cap that it stands in front of (`repositories.py:629`,
   `catchup.py:120`).
2. **`OverlappingRuns`.** A runner that read the directory of a holder who was
   just leaving goes on to `mv`; by then the directory may be another runner's
   (`run_daily_ingest.sh:42-58`).
3. **`RatingGap`.** `_apply_scd2` closes a row to the day before the change,
   inclusive; the spread matrix reads `valid_to` as exclusive, so on that day an
   instrument has no rating (`spread_matrix.py:155`).

Modelling showed further differences. They have no run of their own; the
models contain the behaviour, and the passing properties are stated so as to
exempt exactly it.

* On GNU/Linux, for which `scripts/README.md` has a systemd unit, the
  substitution in `lock_mtime` (`run_daily_ingest.sh:38`) holds the report of
  `stat -f` before the mtime, and line 43 is an arithmetic error. A runner killed
  between `mkdir` and `echo`, or at the end of its cleanup, leaves a directory
  without a pid, and each later runner dies at line 43, where `:31` says that such
  a lock is stolen after a grace period. A lock with a pid in it is judged by the
  pid and is not concerned. (`IngestsAgain` exempts `BlockedForGood`.)
* A 200 with a JSON object that has neither `data` nor `pagination_info` is an
  empty last page (`bondcentral.py:107`, `:261`). On page one the pull ends
  normally with nothing, where the comment at `:231` says that a feed dead from
  page one must abort loudly and not yield an empty "successful" snapshot; on a
  later page it ends normally with a part. (`NoEmptySnapshot`, `OutageIsCheap`,
  `EveryRecordCounted` and `LadderLosesOnlyBroken` exempt pages answered so.)
* The anchor counts skips (`repositories.py:627`), so a source that publishes
  later than the retry window is passed over, while `README.md:126` says
  catch-up resumes from the last successful run. (`Unsettled` asks for recent
  skips only.)
* A re-run that changes nothing reports zero rows (`yield_curve.py:74`) and
  replaces a success with rows by one without, which a later failure then
  replaces (`repositories.py:584`, against the docstring at `:554`).
  (`LoadedStaysSuccess` exempts `CountsWritten`.)
* `parse_curve` may return an empty batch (`fbil.py:295`), which is recorded
  as a success of zero rows, against `README.md:128`. (`MayParseEmpty`.)
* `_finalize` swallows a failed audit write (`base.py:130`), while the
  docstring at `:64` says the row is always written. (`unaudited`.)
* `docker compose up -d` succeeds on a container that is already up, so a run
  may stop one it did not start (`run_daily_ingest.sh:127`, against `:71`).
* A derived day computed before its own tape arrived is not recomputed when
  the tape is healed (`catchup.py:201`, against `:380`), and a failed row of a
  Sunday `as_of` is never on a later list (`:208`).
  (`EveryDayAnswered` speaks of having an answer, and leaves Sundays out.)
* Two sessions with different effective dates can leave two open attribute
  rows: the constraint covers `valid_from` only (`repositories.py:484`). The
  run has one session, which is what the lock gives the scheduled command.
* Of two overlapping restatements the older transaction may supersede the
  younger one's row with a stamp before its `loaded_at` (`repositories.py:179`).
  (`BeliefAnswerable` speaks of histories without overlap.)
* An NSE file without trades is landed before it is found empty
  (`nse_trade_settlement.py:97`), so a later run of the same day is served it,
  against `README.md:129`. The window of the next day has a new key, which is
  why `SessionsBecomeWhole` still holds. But the key of a full week, Monday to
  Sunday, is the last of its window: a file with a header only that lands under
  it, although there were sessions, is served back for good, and no later key makes
  up for it. (Not modelled: a CSV in `WindowSeries` tells every session that is
  over, and only pages instead of a file may deny one.)
* On page one `feed_alive` is false (`bondcentral.py:205`), so a broken record
  in its first slice loses the whole page, against the comment at `:38`, "only
  the unserialisable records are lost". (`LadderLosesOnlyBroken` exempts page
  one.)
* With `max_pages` a feed that is dead from page one ends normally, without a
  record (`bondcentral.py:236`), where the comment at `:231` asks for an abort.
  (`NoEmptySnapshot` speaks of uncapped pulls.)
* A failed NSE window run is audited under a clamped end (`corporate_trade.py:139`)
  that no later window has, so its row stays failed and pulls the start back
  every night until it falls below the cap, where `catchup.py:109-114` speaks of
  a failed day being retried. (`IncompleteDaysCovered` holds all the same.)
* A BSE body that is no JSON is landed, reported as a skip (`bse.py:142`, where
  `:160-164` says that a block must not be reported as holidays) and served
  back on every later night. (`Poisoned`; `OutageNotHoliday` speaks of
  statuses, foreign layouts and CCIL.)
* An NSE archive of which only the header exists is landed (`nse_cbm.py:61-65`)
  before it is found to have no trades, and served back for good, against
  `README.md:126-134`. (`Poisoned`.)
* The NSE bond report and the FBIL workbooks pass without a row
  (`nse_bond_report.py:121`, `fbil.py:230`) and are recorded as successes of zero
  rows, which nothing retries. (`NoRowlessSuccess` exempts them, and NSE's live
  pages.)
* When every press release is out of reach, the run of the auction results is
  recorded as a skip, "no full auction results published"
  (`pipelines/rbi_auction_result.py:63`), against its docstring.
  (`OutageNotHoliday` exempts RBI.)
* A press release that cannot be had blanks the date of its auction
  (`repositories.py:784`, `rbi.py:169`). (Not modelled.)
* The form of an ISIN outranks the title of its worksheet in one direction only:
  state paper on a central sheet becomes SDL, central paper on a state sheet
  stays SDL (`fbil.py:372`, "the ISIN form is structural, so it outranks the sheet
  title"). (`SaidByFbil` lists the sheets that have been seen to mix.)


## 5. What is proved

For every value of the constants that the named assumptions allow, and for runs
of any length: any number of products and days and any cap (`DateSeriesProofs`,
`WindowSeriesProofs`), any set of pids (`IngestLockProofs`), any instruments, values
and sources (`AttributeHistoryProofs`), any keys and any number of overlapping
sessions (`BitemporalRowsProofs`), any dates and coupons, and any length of feed,
page size, ladder and skip budget (`SecurityMasterProofs`, which has both the table
of the master and the pull that fills it), any number of retries and faults, and
any tapes and releases (`SourceDayProofs`). Every invariant and every action
property of a passing run is the subject of a theorem.

| Module | Theorem | Statement |
|--------|---------|-----------|
| `DateSeriesProofs` | `Inductive` | `Spec => []IInv` |
| | `TypeCorrect` | `Spec => []TypeOK`: a backfill never leaves its range |
| | `NothingSkippedSilently` | `Spec => []NoSilentHole` |
| | `BackfillReachesBack` | `Spec => []BackfillCoversUnsettled` |
| | `LoadedIsSticky` | `Spec => []LoadedStaysSuccess` |
| | `ViewsInvariant` | `ViewsSpec => []ViewsInv`: the derived phase |
| | `UnansweredPlanned` | `ViewsSpec => []UnansweredDaysPlanned` |
| | `TodayInStep` | `ViewsSpec => []TodayDescribesTape` |
| `WindowSeriesProofs` | `WindowInvariant` | `Spec => []IInv` |
| | `IncompleteCovered` | `Spec => []IncompleteDaysCovered` |
| | `WholeIsKept` | `Spec => WholeStaysWhole` |
| | `SuccessIsWhole` | `Spec => []LoadedWhole` |
| `IngestLockProofs` | `LockInductive` | `Spec => []IInv` |
| | `LockTypeCorrect` | `Spec => []TypeOK` |
| | `HolderIsSafe` | `Spec => []HolderKeepsLock` |
| | `PostgresIsKept` | `Spec => []PostgresKeptForRun` |
| `AttributeHistoryProofs` | `HistoryInvariant` | `Spec /\ []SessionsApart => []IInv` |
| | `Tiling` | `Spec /\ []SessionsApart => []RowsTileTheDays` |
| | `WithdrawalsBounded` | `Spec /\ []SessionsApart => NoMassWithdrawal` |
| | `Implementation` | `Spec /\ []SessionsApart => ImplementsTimeline`: the refinement |
| `BitemporalRowsProofs` | `BitemporalInvariant` | `Spec => []IInv` |
| | `CurrentVersionUnique` | `Spec => []OneCurrentVersion` |
| | `HistoryAppendOnly` | `Spec => NothingForgotten` |
| | `BeliefHasOneAnswer` | `Spec => []BeliefAnswerable` |
| `SecurityMasterProofs` | `MasterInvariant` | `Spec => []IInv` |
| | `WindowTight` | `Spec => []SeenWindowTight` |
| | `RepairsHold` | `Spec => []RepairHolds` |
| | `ReferenceKept` | `Spec => ReferenceNeverLost` |
| | `MismatchReported` | `Spec => DisagreementReported` |
| | `PageItemsSound` | whatever goes wrong, a page lacks at most what it counts lost, and ends the feed only where it ends |
| | `PageItemsLossless` | while the host answers, a page loses only broken records |
| | `CrawlInvariant` | `CrawlSpec => []CrawlInv` |
| | `EveryRecordCountedSafe` | `CrawlSpec => []EveryRecordCounted` |
| | `LadderLosesOnlyBrokenSafe` | `CrawlSpec => []LadderLosesOnlyBroken` |
| | `NoEmptySnapshotSafe` | `CrawlSpec => []NoEmptySnapshot` |
| | `EndGuessedOnlyBlindSafe` | `CrawlSpec => []EndGuessedOnlyBlind` |
| | `OutageIsCheapSafe` | `CrawlSpec => []OutageIsCheap` |
| `SourceDayProofs` | `DayInductive` | `Spec => []IInv` |
| | `DayTypeCorrect` | `Spec => []TypeOK` |
| | `SuccessHasRows` | `Spec => []NoRowlessSuccess` |
| | `OutagesAreFailures` | `Spec => []OutageNotHoliday` |
| | `PartsAreNotKept` | `Spec => []SessionSummaryWhole` |
| | `RepairIsCredible` | what `RepairPriceYield` keeps of any two cells |
| | `TapeSummarised` | for every tape, `AggregateTrades` is what `Summarise` asks of it |
| | `FiguresOfTape` | `Spec => []TapeFigures` |
| | `ReleaseParsed` | for every release, `ParseAuctionResults` of its page returns what it says |
| | `FiguresOfRelease` | `Spec => []FiguresAsPublished` |
| | `ContinuationAligned`, `RowAligned` | which cells `Trailing` and `DataValues` hand to the securities |

### 5.1 The date series

`IngestionRunsLemmas` holds what the proofs cite about the operators: `Latest`
and `Earliest` of a bounded nonempty set are its bounds, `Record` changes at
most the recorded day and never takes a row away, `DatasetStart` lies between
the floor and the day after the anchor and at or before each retry candidate
within the cap, a business day is found within one step. It also holds the
inductions over numbers that the other proofs use, as lemmas about sets
(`LeastNatural`, `StrongInduction`, `UpToInduction`).

**Assumptions.** The ones named in `DateSeries` (`ProductsAssumption`,
`DaysAssumption`, `LossesAssumption`), which only give the constants their
types, and `RetryWindowAssumption`, `SkipRetryDays <= MaxGapDays`. The last is
needed: with a cap below the retry window (`--max-gap-days 1`), a recent skip
under the floor is the minimum that `dataset_progress` returns, and hides a
later one within the cap. The defaults are 3 and 30. TLC evaluates all of them
in each run of the module.

**The argument.** `NoSilentHole` is not inductive. It speaks of days between
two processed ones, and a run moves the anchor while days in front of it are
still open. The strengthening `IInv` accounts for every market day:

* `BackfillInWindow`: a backfill stays between the floor and `as_of`, and its
  cursor is a business day;
* `BehindCursorAccounted`: within the window, everything behind the cursor,
  the earlier products of the cursor's day included, has a row or lost its
  audit write;
* `BelowFloorAccounted`: below the window, what lies after a processed day has
  a row, lost its write, or was warned about;
* `WindowAccounted`: within the window, everything before a processed day is
  accounted for, also while no backfill runs.

Planning establishes the first two at the start day (nothing is behind it that
`DatasetStart` would not have pulled back to), a run extends them by the day it
records, the calendar moves the floor, which only weakens the window parts, and
when a backfill ends `BehindCursorAccounted` has become `WindowAccounted`.
`BackfillCoversUnsettled` is a conjunct of its own: a run may only turn an
unsettled day into another one at or after `start`. The same formula is the
invariant of run `DateSeries`, so TLC and the proof speak of one definition.
`LoadedStaysSuccess` is proved apart, from `TypeOK` and the stickiness of `Record`:
`AuditTwiceFacts` says that the failure after a commit in doubt leaves a success
with rows in its place.

**The derived phase.** `DateSeriesProofs` also extends `DerivedViews`: the two
share the calendar (`CatchUpDays`) and the operators on the audit table
(`IngestionRuns`), and have variables of their own. That a list made now holds
every unanswered day says nothing of a list made on a later night, after days
of this one were cut off by a crash. What carries over is `NoUnansweredHole`:
derived days are answered in order, so that no market day within the cap before
an answered one is without its row, and the days that `StartFrom` leaves out
have an answered day behind them (`ViewsStartFacts`). `TodayDescribesTape`
needs `InPhase` only: a fresh row exists in the derived phase and after it, and
nothing changes the tape there. Neither needs `RetryWindowAssumption`.

### 5.2 The lock

**Assumptions.** `NoPid` is no pid (`PidAssumption`), and the bound on crashes is a
number (`CrashesAssumption`). `mtimeReadable` may be true or false: the theorems are
about macOS and Linux alike, since a runner that dies of the arithmetic owns
nothing. What Linux loses is progress, which is TLC's. The set of pids may be infinite;
`HolderIsSafe` derives that the set of owners is finite from their being one.

**The argument.** An owner is a runner between its successful `mkdir` and the
end of its cleanup. `HolderKeepsLock` says where the owner's directory is and
nothing about the runners that may take it away, so it is not inductive.
`IInv` follows them through `cat`, the judgement and `mv`, as long as nobody has
moved away a directory newer than what they had read (`~robbed`):

* `OneOwner`, `OwnerHasLock`: there is one owner at most, and the directory is
  there with its pid in it, or with none just before `echo` and inside `rm -rf`;
* `JudgesSpareOwner`: who has read the current directory read the owner's pid,
  which is alive, or nothing, and then the directory is within its grace. Both
  end the judgement;
* `ThievesAreLate`: hence whoever stands at `mv` under an owner had read an
  older directory. Its `mv` makes `robbed` true, and until then changes nothing.

`RobbedStep` (once robbed, always robbed) reduces each step to one from a
shielded state. `PostgresKeptForRun` is a part of the invariant: the only
command that stops the container is an owner's, and `StartedByRun` keeps a
newcomer from inheriting the flag of an earlier run under its pid.
`OverlappingRuns` (4.4) shows that `~robbed` cannot be left out.

### 5.3 The day of a source

**Assumptions.** The two bounds are numbers (`BoundsAssumption`); the proofs do
not use their size. The nine connectors are what `Connectors` says of them, and
`ConnectorFacts` goes through them one by one.

**The argument.** The three properties are about what a run leaves behind, and
say nothing of one under way, so they are not inductive. `IInv` adds:

* `RunWellFormed`: requests are left only while nothing has gone wrong, and
  nothing is held between runs;
* `Delivered`: while all is well, the day is still to be asked for, or was
  answered with rows. At the end nothing is left to ask, so there is a batch
  (`NoRowlessSuccess`); RBI's pipeline tests the batch itself. After CCIL's
  challenge everything is asked for again, whatever is held;
* `SkipExplained`: `OutageNotHoliday` without "the run is over", so that it
  holds of the verdict from the answer to the audit row (`VerdictFacts`,
  `OutcomeFacts`);
* `PartIsFresh`: a part of NSE's session in a run's hands was taken while the
  session lasted, and the day moves once in a run at most, so that it is not
  settled when the run looks at the clock. `AnsweredFacts` says that no fault
  looks like a part.

Failure to finish is left to TLC: `PublishedDayLoads` is liveness.

### 5.4 The figures of a tape and of a release

`FiguresOfTape` and `FiguresOfRelease` are about what a run loads, and follow from
`TapeSummarised` and `ReleaseParsed`, which are about every tape and every release.

**Assumptions.** `TapesAssumption`: the descriptions of one security agree whether it
is a strip. Without it the theorem is false, for a row is repaired by its own
description and the record's segment is that of the security's first one, so that
a price kept for a strip could average under GSEC. `ReleasesAssumption`: a release
is laid out in one of the two ways, and no security is named like a label.

**The tape.** `GroupsFold` shows that the recursive function behind `Groups` exists and
has the values its definition describes. `AccountsFor` says what the accumulator of
a security holds of the trades among the first rows: their number, a description
that one of them has, the last price of the latest of them, and sums whose
quotients are a price and a yield that can be. `TradeAdded` takes it over one more
trade, of which `RepairIsCredible` says that however its two cells were garbled,
what is left of them can be; `GroupsAccount` over all rows.

**The release.** The parser aligns by position. `RowAligned` and `ContinuationAligned`
say that a row's cells are read under their own securities whatever numbering or
blanks stand before them; `NamesRead` and `ColumnsNamed`, that the securities are
those named above the first notified amount. `WalkFold` is for `Walk` what
`GroupsFold` is for `Groups`, and `Come` says how far a walk has come: which fields
it shows, each security's own and nothing where the release is blank, and in which
section it is. `FigureRow`, `PercentageRow`, `SectionRow`, `PassedRow` and `PairedRows`
say what each kind of row makes of that. A percentage row is both a value and a
heading, and opens its section only when all its cells are blank; the yields below
a price land in the field that the price left pending, also when some of them are
blank, but a table's first security decides whether a field is pending at all.
`PricedWalk` and `StateWalk` go through the two layouts row by row. What remains is
which tables are read: `RowsAlone`, `PricedTop` and `StateTop`, with `PricedParsed`
and `StateParsed` for the page.

### 5.5 The windows

**Assumptions.** Types of the constants, a `FirstDay` that is a Monday, as
`_ANCHOR` is, and the `RetryWindowAssumption` of 5.1, for the same reason.

**The argument.** A window run in the middle of its week is a success, and moves
the anchor over sessions it has in part. `IncompleteDaysCovered` says that the next
plan comes back, which follows from the state of the whole table:

* `FilesFinal`: a file in the lake has every session before its last day whole, and
  calls nothing whole that is not a session that is over. Files are never
  written again (`LakeKept`), so it has to be true of each for good; it stays
  true because a day becomes a session's past only once, at `NextDay`, and a
  file's own last day is exempt;
* `LoadedWhole`: a success under a *Sunday* stands for seven whole days. The
  exchange is shut that day (`SundaysOff`), hence such a run finds all there is;
* `NoHole`, `Walking`: within the cap no window is passed over without an audit
  row or a lost write, during a backfill and between them.

`PlanReachesBack` puts them together. If the plan started after the window of an
incomplete day, the anchor would lie behind that window's Sunday; by `NoHole` the
Sunday has a row; a success contradicts `LoadedWhole`, a failure or a recent skip
would have pulled the start back, and an older skip or a lost write is a window
given up (`GivenUp`). `WindowFacts`, `WindowUnique`, `WindowMonotone` and
`WindowApart` are the calendar arithmetic. `WholeStaysWhole` rests on
`ContentFacts`: what a run reads of its window has each session before today
whole, whether the lake serves it or the exchange.

### 5.6 The attribute history

**Hypothesis.** `[]SessionsApart`: no two sessions are between their read and
their commit at once. The nightly's lock gives that to the scheduled command; a
command typed by hand takes no lock, and 4.4 says what happens then. Any number of
sessions may follow one another, commit or roll back. `ValueAssumption`,
`SourceAssumption` and the rest give the constants their types, and the set of
instruments is finite because their withdrawals are counted.

**The argument.** `RowsTileTheDays` counts rows, and counts are not inductive.
`RowsChained` says the same row by row: a closed row is followed at once by another
row, with none in between, and the open row is the last. `ReadIsCurrent` is why a
commit may decide on what it has read: the row a session holds as open is still
the open one. Without `SessionsApart` a commit breaks it for the other session.
`CommitEffect` says what `_apply_scd2` writes for one instrument, `ChainTiles` that
a chain tiles the days (`Tiled` is the statement without cardinalities).

For the refinement, `InForce` maps the rows to a value per instrument and day. A
change of an instrument leaves every day before the effective date as it was
and puts the batch's value on all later ones (`ChangeRecorded`). That the
abstract `Batch` allows it, which must not overwrite a change recorded for a later
day, is due to the test for a row newer than the batch: instruments to which the
batch applies have no row after its date (`CommitEffect`), so one value is in force
from there on (`LastRowSettles`). A read or a rollback is a stutter.

### 5.7 The bitemporal tables

No hypothesis beyond `Spec`: sessions overlap as they like. `OneCurrentVersion` is a
consequence of `WritesApart`: a key that a session has closed is no other session's
(the row lock), and no version of it is current but the one the session will
supersede (the partial unique index). `CommitCurrent` follows from it, and the
loser of a race rolls back. `BeliefAnswerable` is about time, for which
`LivesChained` says that each version ends when the next begins, and that all began
before an open session did. It holds until two sessions have overlapped: then it
breaks, as 4.4 tells, and `OneCurrentVersion` and `NothingForgotten` go on.

### 5.8 The security master

**Assumptions.** `MasterAssumption` only gives the constants types. `Days` is finite
and need not be an interval: `FiniteGreatest` shows that its subsets have a
greatest element, with `DateBounds` and `WidenedBounds` for the `LEAST` and `GREATEST`
of the upserts.

**The argument.** `RepairHolds` is not inductive. A row that is sound may be
overwritten by an upsert of a record that was made before, by an enrichment that
read it earlier, or by a source whose paper is of another kind. `IInv`, in the
proof module, says what each kind of paper may look like before (`Fits`) and
after (`Sound`) the repairs, and that only a corporate bond is ever in an
enrichment's hands. `BondCentralSays` to `CcilSays` go through the records the
parsers make, `CoalescedFits` and `UpsertKeeps` through the `COALESCE` of the
upserts, `RepairedInterestFacts` and `RepairedIssuerFacts` through the two
migrations. `SeenWindowTight` is the part on `seen`; the two action properties follow
statement by statement from what each writer keeps (`UpsertKept`, `EnrichKept`).

The pull that fills the master is the second half of the module.

**Assumptions.** `CrawlAssumption` types the constants and asks that a full page can
be split and that the end is not guessed after more failures than may be skipped.
`BudgetAssumption`: the feed is longer than the skip budget (256 pages against 30);
a shorter one could be skipped whole and end normally. `LadderAssumption`: the ladder
goes down to single records, as 100, 10, 1 does; a ladder that stopped at ten
would lose nine sound records with a broken one.

**The argument, page by page.** `SlicesReadEquation` and `LadderEquation` show that the
two recursive functions exist. `PageSound` is what the loop may rely on: a page
that is read lacks at most as many records as it counts lost, tells the total of a
feed that has one, says "no more" only where the feed ends, and is empty only
beyond it, unless an answer on its behalf was hollow; one that fails yields
nothing, and one with hollow answers yields only records of its own. `JoinSliceSound` takes it over one slice
and `SummariseSound` over the report, where a lost last slice must not end the
feed; `ReadPageSound` from one size to the next, and `LadderSound` through all of
them by induction on the size. `Lossless` is proved along the same path for a host
that answers (`NoMishapIsHonest`), and `OutagePage` counts the requests when the first slice bails out.

**The argument, page after page.** The five properties are about the end of a pull.
`CrawlInv` says what is true on the way there: the records of the pages behind the
crawl are counted (`CountedSoFar`) or explained (`LossesExplained`); a crawl that
has read nothing has skipped every page, and one that has read of a feed that tells
its length knows it (`LengthKnown`), so that only the end of the feed can end it
normally; beyond the end it has skipped every page, of which only
`MaxSkippedPages` may be (`WithinBudget`). From the last part `NeverBounded` follows:
the bound that closes the range of `page` in the runs cuts nothing off.

### 5.9 What is only model-checked

Every liveness property: `EveryDayAnswered`, `SessionsBecomeWhole`, `IngestsAgain`,
`PublishedDayLoads`, `PullEnds`. The prover handles neither fairness nor `ENABLED`.

What a recursion returns takes an induction, and the library's induction theorems
have an operator as parameter, which the provers cannot instantiate. The models
have no `RECURSIVE` operators, only recursive functions over numbers (`Groups`,
`Walk`, `SlicesRead`, `Ladder`), so that the inductions can be done over sets of
numbers: that such a function exists, that it has the values it describes, and
what they are, each by a least counterexample (`StrongInduction`, `UpToInduction`).


## 6. What is left out, and why

* The content of files and rows other than CCIL's tape and RBI's results:
  decimals, present values, ratings as such. Control flow depends on
  "something, nothing, or an error", which is what the models have; formats are
  a matter for unit tests.
* The number of rows beyond none and some; the audit reconciliation of
  `dq assess`, which compares counts, is therefore not expressible.
* Time within a night: throttle and backoff sleep and decide nothing.
* Text: descriptors, dates in press releases, headers found by prefix. A cell is
  what the code takes it for.
* A file in the lake is whole or not there. A write that dies in the middle leaves
  a torn file that is served back, like the bodies in `Poisoned`; of those the
  models have the ones that an answer brings, not the ones a crash makes.
* NSE's live pages are stamped with the timestamp they carry. The fallback to the
  run's own date when it cannot be parsed (`nse.py:94-102`) is left out.
* The processes under a runner die with it, as they do under launchd and systemd
  or in a power cut. An operator's shell killed alone leaves `uv run` at work
  while the lock of its dead pid may be stolen.
* The components of section 1.1 under *not modelled*, the calendar of RBI auctions
  (`RbiAuctionPipeline`) and `sources/ccil.py`, which no pipeline uses.
