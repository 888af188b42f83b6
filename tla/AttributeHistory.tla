-------------------------- MODULE AttributeHistory --------------------------
(***************************************************************************)
(* The effective-dated (SCD-2) history of one tracked attribute, as        *)
(* record_attribute_bulk and _apply_scd2 write it and as the spread matrix *)
(* reads it.                                                               *)
(*                                                                         *)
(* A session is one execute_run transaction: it reads the open rows of the *)
(* batch's instruments, decides in memory, and flushes and commits later.  *)
(* A catch-up has one session at a time; commands an operator runs by hand *)
(* take no lock and add sessions.                                          *)
(*                                                                         *)
(* (isin, valid_from) is unique, so the rows of an instrument are a        *)
(* function from valid_from to the rest of the row.                        *)
(***************************************************************************)
EXTENDS Integers, FiniteSets

CONSTANTS Isin, Value, Source, Session,
          NoValue,         \* a withdrawn or absent value
          FirstDay, LastDay,
          MaxWithdrawals   \* max(20, batch // 10), for batches of this size

ASSUME ValueAssumption == NoValue \notin Value
ASSUME DaysAssumption == FirstDay \in Nat /\ LastDay \in Nat /\ FirstDay <= LastDay
ASSUME WithdrawalsAssumption == MaxWithdrawals \in Nat
ASSUME IsinAssumption == IsFiniteSet(Isin)
ASSUME SourceAssumption == "none" \notin Source

Day == FirstDay .. LastDay
NoDay == -1  \* valid_to IS NULL, or no open row

AllValues == Value \cup {NoValue}
NoVersion == [value |-> NoValue, to |-> NoDay, source |-> "none"]
Version == [value : AllValues, to : Int, source : Source]

(* values[i] is what the batch says of i; instruments outside it are not   *)
(* in the batch.                                                           *)
Batch == [source : Source, effective : Day, values : UNION {[I -> AllValues] : I \in SUBSET Isin}]
NoBatch == [source |-> "none", effective |-> NoDay, values |-> <<>>]

VARIABLES
    history,  \* history[i][d]: the row of i with valid_from d
    batch,    \* batch[s]: what session s has fetched
    open      \* open[s][i]: valid_from of the open row s has read, and the row

vars == <<history, batch, open>>

NoOpen == [i \in Isin |-> [from |-> NoDay, row |-> NoVersion]]

TypeOK ==
    /\ history \in [Isin -> [Day -> Version \cup {NoVersion}]]
    /\ \A i \in Isin, d \in Day : history[i][d].to \in Day \cup {NoDay}
    /\ batch \in [Session -> Batch \cup {NoBatch}]
    /\ open \in [Session -> [Isin -> [from : Day \cup {NoDay}, row : Version \cup {NoVersion}]]]

Init ==
    /\ history = [i \in Isin |-> [d \in Day |-> NoVersion]]
    /\ batch = [s \in Session |-> NoBatch]
    /\ open = [s \in Session |-> NoOpen]

OpenDays(i) == {d \in Day : history[i][d] # NoVersion /\ history[i][d].to = NoDay}

(***************************************************************************)
(* Reading.                                                                *)
(***************************************************************************)
OpenRow(i, d) == [from |-> d, row |-> IF d = NoDay THEN NoVersion ELSE history[i][d]]

(* The fetch, and the query for open rows; of several the last one wins.   *)
Read(s) ==
    /\ batch[s] = NoBatch
    /\ \E b \in Batch : batch' = [batch EXCEPT ![s] = b]
    /\ \E from \in [Isin -> Day \cup {NoDay}] :
          /\ \A i \in Isin : IF OpenDays(i) = {} THEN from[i] = NoDay ELSE from[i] \in OpenDays(i)
          /\ open' = [open EXCEPT ![s] = [i \in Isin |-> OpenRow(i, from[i])]]
    /\ UNCHANGED history

(***************************************************************************)
(* Deciding: _apply_scd2, and the guard against a flaky upstream night.    *)
(***************************************************************************)
Members(s) == DOMAIN batch[s].values
Said(s, i) == batch[s].values[i]
HasOpen(s, i) == open[s][i].from # NoDay

Withdraws(s, i) ==
    /\ Said(s, i) = NoValue
    /\ HasOpen(s, i) /\ open[s][i].row.value # NoValue
    /\ open[s][i].row.source = batch[s].source

(* Mutant: the threshold itself is let through one too many.               *)
SuppressWithdrawals_OffByOne(s) ==
    Cardinality({i \in Members(s) : Withdraws(s, i)}) > MaxWithdrawals + 1

SuppressWithdrawals(s) ==
    Cardinality({i \in Members(s) : Withdraws(s, i)}) > MaxWithdrawals

(* Mutant: an out-of-order batch is not skipped.                           *)
Applies_AnyOrder(s, i) ==
    /\ i \in Members(s)
    /\ Said(s, i) # open[s][i].row.value
    /\ Said(s, i) = NoValue =>
          ~SuppressWithdrawals(s) /\ open[s][i].row.source = batch[s].source

(* The batch changes the value of i.  NoVersion's value is NoValue, so no  *)
(* open row and no value is no change.                                     *)
Applies(s, i) ==
    /\ i \in Members(s)
    /\ Said(s, i) # open[s][i].row.value
    /\ open[s][i].from <= batch[s].effective
    /\ Said(s, i) = NoValue =>
          ~SuppressWithdrawals(s) /\ open[s][i].row.source = batch[s].source

Corrects(s, i) == Applies(s, i) /\ open[s][i].from = batch[s].effective
Opens(s, i) == Applies(s, i) /\ open[s][i].from # batch[s].effective

(***************************************************************************)
(* Writing.                                                                *)
(***************************************************************************)
Fresh(s, i) == [value |-> Said(s, i), to |-> NoDay, source |-> batch[s].source]

Restated(row, s, i) == [row EXCEPT !.value = Said(s, i), !.source = batch[s].source]

NewRows_LeftOpen(s, i) ==  \* mutant: the row before is not closed
    [d \in Day |->
        CASE Corrects(s, i) /\ d = batch[s].effective -> Restated(history[i][d], s, i)
          [] Opens(s, i) /\ d = batch[s].effective -> Fresh(s, i)
          [] OTHER -> history[i][d]]

NewRows(s, i) ==
    [d \in Day |->
        CASE Corrects(s, i) /\ d = batch[s].effective -> Restated(history[i][d], s, i)
          [] Opens(s, i) /\ d = batch[s].effective -> Fresh(s, i)
          [] Opens(s, i) /\ d = open[s][i].from ->
                [history[i][d] EXCEPT !.to = batch[s].effective - 1]
          [] OTHER -> history[i][d]]

Finish(s) ==
    /\ batch' = [batch EXCEPT ![s] = NoBatch]
    /\ open' = [open EXCEPT ![s] = NoOpen]

(* uq_attr_history_point.                                                  *)
Collides(s) == \E i \in Isin : Opens(s, i) /\ history[i][batch[s].effective] # NoVersion

Commit(s) ==
    /\ batch[s] # NoBatch
    /\ ~Collides(s)
    /\ history' = [i \in Isin |-> NewRows(s, i)]
    /\ Finish(s)

(* Any error of the run, the unique constraint's included; a crash too.    *)
Rollback(s) ==
    /\ batch[s] # NoBatch
    /\ Finish(s)
    /\ UNCHANGED history

Next == \E s \in Session : Read(s) \/ Commit(s) \/ Rollback(s)

Spec == Init /\ [][Next]_vars

(***************************************************************************)
(* Properties.                                                             *)
(***************************************************************************)
Rows(i) == {d \in Day : history[i][d] # NoVersion}

LastDayOf(i, d) == IF history[i][d].to = NoDay THEN LastDay ELSE history[i][d].to

(* The rows of an instrument tile the days since its first one: each       *)
(* closed row ends the day before the next begins, and one row is open     *)
(* (_apply_scd2 closes to effective - 1 what it replaces).                 *)
RowsTileTheDays ==
    \A i \in Isin : Rows(i) # {} =>
        /\ Cardinality(OpenDays(i)) = 1
        /\ \A e \in Day : (\E d \in Rows(i) : d <= e) =>
              Cardinality({d \in Rows(i) : d <= e /\ e <= LastDayOf(i, d)}) = 1

(* The same, and what makes it last: a closed row ends where the next one  *)
(* begins, the open row is the last, and what a session has read is still  *)
(* so when it writes.                                                      *)
RowsChained ==
    \A i \in Isin : \A d \in Rows(i) :
        IF history[i][d].to = NoDay
        THEN \A e \in Rows(i) : e <= d
        ELSE /\ d <= history[i][d].to /\ history[i][d].to + 1 \in Rows(i)
             /\ \A e \in Rows(i) : e <= d \/ history[i][d].to < e

ReadIsCurrent(s) ==
    \A i \in Isin :
        LET from == open[s][i].from IN
        /\ OpenDays(i) = {} => from = NoDay
        /\ OpenDays(i) # {} => from \in OpenDays(i)
        /\ open[s][i].row = OpenRow(i, from).row

IInv ==
    /\ TypeOK
    /\ RowsChained
    /\ \A s \in Session : batch[s] # NoBatch => ReadIsCurrent(s)

(* Commands run by hand keep out of each other's way, and of the nightly's.*)
SessionsApart == \A s, t \in Session : batch[s] # NoBatch /\ batch[t] # NoBatch => s = t

(* One flaky night never withdraws more values than the threshold: what a  *)
(* step takes from a value to none stays within MaxWithdrawals.            *)
Current(i) == IF OpenDays(i) = {} THEN NoValue
              ELSE history[i][CHOOSE d \in OpenDays(i) : TRUE].value

NoMassWithdrawal ==
    [][Cardinality({i \in Isin : Current(i) # NoValue /\ Current(i)' = NoValue})
         <= MaxWithdrawals]_vars

(* The timeline a history stands for.                                      *)
Covering(i, e) == {d \in Rows(i) : d <= e /\ e <= LastDayOf(i, d)}

ValueOn(i, e) == IF Covering(i, e) = {} THEN NoValue
                 ELSE history[i][CHOOSE d \in Covering(i, e) : TRUE].value

Timeline == INSTANCE AttributeTimeline
                WITH inForce <- [i \in Isin |-> [e \in Day |-> ValueOn(i, e)]]

(* The rows implement the timeline: no batch rewrites a day before its     *)
(* effective date or a change recorded for a later one.                    *)
ImplementsTimeline == Timeline!Spec

(***************************************************************************)
(* What documents of the repository say, and the code does not do.         *)
(***************************************************************************)

(* The spread matrix's join: valid_from <= day AND (valid_to IS NULL OR    *)
(* valid_to > day).                                                        *)
ReadBySpreadMatrix(i, e) ==
    {d \in Rows(i) : d <= e /\ (history[i][d].to = NoDay \/ history[i][d].to > e)}

(* "An attribute must have exactly one value in force at any instant", and *)
(* "The rating is the one in force on the quote date": from its first day  *)
(* on an instrument has a row on every quote date the matrix asks for.     *)
RatingInForceOnQuoteDate ==
    \A i \in Isin, e \in Day :
        (\E d \in Rows(i) : d <= e) => Cardinality(ReadBySpreadMatrix(i, e)) = 1
=============================================================================
