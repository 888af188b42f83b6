SPECIFICATION Spec
CONSTANTS
    Days <- MCDays
    Coupons <- MCCoupons
    Spellings <- MCSpellings
INVARIANTS SeenWindowTight RepairHolds
PROPERTIES ReferenceNeverLost DisagreementReported
