---------------------------- MODULE DerivedViews ----------------------------
(***************************************************************************)
(* One night of catch_up, front to back: gap-fill the trade tape, then     *)
(* recompute the derived product (liquidity, or the spread matrix) for     *)
(* every day derived_days names.                                           *)
(*                                                                         *)
(* A derived row of day d answers a question "as at d": it is a function   *)
(* of the tape rows in a trailing window of trade dates, so the model      *)
(* keeps of it the set of tape days it was computed from.                  *)
(*                                                                         *)
(* Catch-ups start at any time of the day, and again the same day; the     *)
(* source publishes a day's tape at any time after the day began, which is *)
(* after that day's scheduled 13:00 catch-up as a rule.                    *)
(***************************************************************************)
EXTENDS CatchUpDays

CONSTANTS WindowDays,      \* length of the trailing window of a derived row
          MaxCrashes       \* bound on catch-ups killed

ASSUME WindowAssumption == WindowDays \in Nat \ {0}
ASSUME CrashesAssumption == MaxCrashes \in Nat

VARIABLES
    published,  \* days whose tape the source serves
    tape,       \* days whose trades are stored
    tapeLog,    \* audit rows of the tape's dataset
    view,       \* view[d]: tape days the derived row of d was computed from
    viewLog,    \* audit rows of the derived dataset
    stage,      \* "idle", "tapes", "plan" or "views"
    todo,       \* days the current phase has still to run
    fresh,      \* this catch-up has recomputed the row of as_of
    crashes

viewsVars == <<today, published, tape, tapeLog, view, viewLog, stage, todo, fresh, crashes>>

NoHistory == [d \in Day |-> NoRow]

ViewsInit ==
    /\ today = FirstDay + MaxGapDays
    /\ published = {} /\ tape = {}
    /\ tapeLog = NoHistory /\ viewLog = NoHistory
    /\ view = [d \in Day |-> {}]
    /\ stage = "idle" /\ todo = {}
    /\ fresh = FALSE
    /\ crashes = 0

(* series_start of a single dataset.                                       *)
StartFrom(history) == DatasetStart(DatasetProgress(history, today - SkipRetryDays), Floor)

BusinessDays(from) == {d \in from .. today : ~IsSunday(d)}

(* Mutant: derived_days names as_of alone.                                 *)
DerivedDays_TodayOnly == {today}

(* Every missed business day, and as_of even on a Sunday.                  *)
DerivedDays == BusinessDays(StartFrom(viewLog)) \cup {today}

Window(d) == {e \in Day : d - WindowDays < e /\ e <= d}

(***************************************************************************)
(* The catch-up.                                                           *)
(***************************************************************************)
PlanTapes_SkipsViewsWhenIdle ==  \* mutant: nothing to fetch, nothing to derive
    /\ stage = "idle"
    /\ todo' = BusinessDays(StartFrom(tapeLog))
    /\ stage' = IF todo' = {} THEN "idle" ELSE "tapes"
    /\ fresh' = FALSE
    /\ UNCHANGED <<today, published, tape, tapeLog, view, viewLog, crashes>>

PlanTapes ==
    /\ stage = "idle"
    /\ todo' = BusinessDays(StartFrom(tapeLog))
    /\ stage' = IF todo' = {} THEN "plan" ELSE "tapes"
    /\ fresh' = FALSE
    /\ UNCHANGED <<today, published, tape, tapeLog, view, viewLog, crashes>>

Current == Earliest(todo)

Done(next) ==
    /\ todo' = todo \ {Current}
    /\ stage' = IF todo' = {} THEN next ELSE stage

TapeRun(status, rows) ==
    /\ stage = "tapes"
    /\ tapeLog' = Record(tapeLog, Current, [status |-> status, rows |-> rows])
    /\ Done("plan")
    /\ UNCHANGED <<today, published, view, viewLog, fresh, crashes>>

TapeLoads ==
    /\ TapeRun("success", 1)
    /\ Current \in published
    /\ tape' = tape \cup {Current}

TapeNotPublished ==
    /\ TapeRun("skipped", 0)
    /\ Current \notin published
    /\ UNCHANGED tape

TapeFails ==
    /\ TapeRun("failed", 0)
    /\ UNCHANGED tape

PlanViews ==
    /\ stage = "plan"
    /\ stage' = "views"
    /\ todo' = DerivedDays
    /\ UNCHANGED <<today, published, tape, tapeLog, view, viewLog, fresh, crashes>>

ViewRun(status, rows) ==
    /\ stage = "views"
    /\ viewLog' = Record(viewLog, Current, [status |-> status, rows |-> rows])
    /\ Done("idle")
    /\ UNCHANGED <<today, published, tape, tapeLog, crashes>>

ViewComputed_Merged ==  \* mutant: the old row of the day is not deleted first
    LET window == tape \cap Window(Current) IN
    /\ ViewRun("success", IF window = {} THEN 0 ELSE 1)
    /\ view' = [view EXCEPT ![Current] = IF @ = {} THEN window ELSE @]
    /\ fresh' = (Current = today)

(* DELETE the rows of the day, then INSERT them from the tape.             *)
ViewComputed ==
    LET window == tape \cap Window(Current) IN
    /\ ViewRun("success", IF window = {} THEN 0 ELSE 1)
    /\ view' = [view EXCEPT ![Current] = window]
    /\ fresh' = (Current = today)

(* The transaction rolls back; the old row of the day, if any, stays.      *)
ViewFails ==
    /\ ViewRun("failed", 0)
    /\ UNCHANGED <<view, fresh>>

KillCatchUp ==
    /\ stage # "idle"
    /\ crashes < MaxCrashes
    /\ crashes' = crashes + 1
    /\ stage' = "idle" /\ todo' = {} /\ fresh' = FALSE
    /\ UNCHANGED <<today, published, tape, tapeLog, view, viewLog>>

(***************************************************************************)
(* The environment.                                                        *)
(***************************************************************************)
Publish(d) ==
    /\ d \in Day \ published /\ d <= today /\ ~IsSunday(d)
    /\ published' = published \cup {d}
    /\ UNCHANGED <<today, tape, tapeLog, view, viewLog, stage, todo, fresh, crashes>>

NextNight ==
    /\ stage = "idle"
    /\ today < LastDay
    /\ today' = today + 1
    /\ fresh' = FALSE
    /\ UNCHANGED <<published, tape, tapeLog, view, viewLog, stage, todo, crashes>>

TapeOutcome == TapeLoads \/ TapeNotPublished \/ TapeFails

ViewOutcome == ViewComputed \/ ViewFails

ViewsNext ==
    \/ PlanTapes \/ TapeOutcome \/ PlanViews \/ ViewOutcome
    \/ KillCatchUp \/ NextNight
    \/ \E d \in Day : Publish(d)

ViewsSpec == ViewsInit /\ [][ViewsNext]_viewsVars

(* The scheduler fires every day, a started catch-up goes on, the calendar *)
(* turns, and no day's recomputation errors out every time.                *)
ViewsFairness ==
    /\ WF_viewsVars(PlanTapes) /\ WF_viewsVars(TapeOutcome) /\ WF_viewsVars(PlanViews)
    /\ WF_viewsVars(ViewOutcome) /\ WF_viewsVars(NextNight)
    /\ \A d \in Day : SF_viewsVars(Current = d /\ ViewComputed)

ViewsFairSpec == ViewsSpec /\ ViewsFairness

(***************************************************************************)
(* Properties.                                                             *)
(***************************************************************************)
NoViewFailedBelowFloor == \A d \in Day : viewLog[d].status = "failed" => d >= Floor

(* However many nights were missed, or cut short by a crash, the derived   *)
(* phase has every unanswered market day within the cap on its list.       *)
UnansweredDaysPlanned ==
    stage = "views" =>
        \A d \in Day :
            d \in Floor .. today /\ ~IsSunday(d) /\ viewLog[d] = NoRow => d \in todo

(* A catch-up that recomputed the row of as_of leaves it in step with all  *)
(* the tape, the rows this catch-up loaded included.                       *)
TodayDescribesTape ==
    fresh => view[today] = tape \cap Window(today)

(***************************************************************************)
(* The inductive invariant behind them.                                    *)
(***************************************************************************)
ViewsTypeOK ==
    /\ today \in FirstDay + MaxGapDays .. LastDay
    /\ tapeLog \in [Day -> Row] /\ viewLog \in [Day -> Row]
    /\ DOMAIN view = Day
    /\ stage \in {"idle", "tapes", "plan", "views"}
    /\ todo \subseteq Day /\ \A d \in todo : d <= today
    /\ fresh \in BOOLEAN

(* A phase that runs days has a day to run, and only the derived phase     *)
(* leaves a fresh row behind.                                              *)
InPhase ==
    /\ stage \in {"tapes", "views"} => todo # {}
    /\ fresh => stage \in {"idle", "views"}

(* Derived days are answered in order: within the cap, no market day       *)
(* before an answered one is without its row.                              *)
NoUnansweredHole ==
    \A d, e \in Day :
        viewLog[e] # NoRow /\ d < e /\ Floor <= d /\ ~IsSunday(d) => viewLog[d] # NoRow

ViewsInv ==
    /\ ViewsTypeOK /\ InPhase /\ NoUnansweredHole
    /\ UnansweredDaysPlanned /\ TodayDescribesTape

(* Once the calendar stands, every market day within the cap is answered,  *)
(* the days of missed nights too, unless an older failure masks it.        *)
EveryDayAnswered ==
    \A d \in Day :
        (today = LastDay /\ d \in Floor .. today /\ ~IsSunday(d) /\ NoViewFailedBelowFloor)
        ~> viewLog[d].status = "success"
=============================================================================
