---------------------------- MODULE CatchUpDays ----------------------------
(* The calendar of catch_up, which its sources share: the days of an       *)
(* instance, as_of, and how far back of it a catch-up reaches.             *)
EXTENDS IngestionRuns

CONSTANTS FirstDay,       \* oldest day of the instance
          LastDay,        \* newest day of the instance
          MaxGapDays,     \* DEFAULT_MAX_GAP_DAYS
          SkipRetryDays   \* DEFAULT_SKIP_RETRY_DAYS

ASSUME DaysAssumption ==
    /\ FirstDay \in Nat /\ LastDay \in Nat
    /\ MaxGapDays \in Nat /\ SkipRetryDays \in Nat
    /\ FirstDay + MaxGapDays <= LastDay

Day == FirstDay .. LastDay

VARIABLE today  \* the as_of a catch-up started now would use

Floor == today - MaxGapDays
=============================================================================
