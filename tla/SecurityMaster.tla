--------------------------- MODULE SecurityMaster ---------------------------
(***************************************************************************)
(* The securities master: one row of table `securities`, written by the    *)
(* universe snapshots (BondCentral, CDSL), the FBIL valuations, the CCIL   *)
(* tape, the NSE bond report, the enrichment pass, which reads its gaps in *)
(* one session and writes in another, and the two data repairs of the      *)
(* migrations.  Each statement touches the rows of a batch independently,  *)
(* so one security, picked at the start, is followed.  Of the reference    *)
(* fields the coupon, the issuer, the interest type and the description    *)
(* are kept; maturity and face value are coalesced as the coupon is.       *)
(***************************************************************************)
EXTENDS Integers, Sequences, FiniteSets, FiniteSetsExt, SequencesExt

CONSTANTS
    Days,         \* dates a batch may carry
    Coupons,      \* coupons a source may print, in thousandths of a percent
    Spellings     \* interest types a source may print

ASSUME MasterAssumption ==
    /\ IsFiniteSet(Days) /\ Days # {} /\ Days \subseteq Nat
    /\ Coupons \subseteq Nat
    /\ Spellings \subseteq STRING

VARIABLES
    paper,      \* what the followed ISIN is
    row,        \* its row in `securities`, or NoRow
    seen,       \* the dates under which it was inserted or upserted
    mismatch,   \* the verdict of the last reconciliation
    repaired,   \* the migrations have run
    asked,      \* the enrichment has the ISIN on its list of gaps
    fetched     \* what the enrichment will write, or NoRecord

vars == <<paper, row, seen, mismatch, repaired, asked, fetched>>

Null == "null"
NoCoupon == -1
NoRow == [type |-> Null]
NoRecord == NoRow

Papers == {"corporate", "state", "tbill"}

-----------------------------------------------------------------------------
(* Vocabularies.                                                           *)

FixedSpellings == {"fixed", "fixed interest"}
ZeroSpellings == {"zero", "zero_coupon", "zero interest", "no interest"}
FloatingSpellings == {"floating", "variable interest", "variable-others", "variable-index linked",
                      "variable - mibor linked", "variable-inflation"}

(* Spellings are compared in lower case.                                   *)
Lower(raw) ==
    CASE raw \in {"FIXED", "Fixed"} -> "fixed" [] raw \in {"ZERO", "Zero"} -> "zero"
      [] raw = "FLOATING" -> "floating" [] raw = "OTHER" -> "other" [] OTHER -> raw

Canonical(raw) ==
    CASE raw \in {Null, ""}              -> Null
      [] Lower(raw) \in FixedSpellings    -> "FIXED"
      [] Lower(raw) \in ZeroSpellings     -> "ZERO"
      [] Lower(raw) \in FloatingSpellings -> "FLOATING"
      [] OTHER                            -> "OTHER"

CanonicalTypes == {"FIXED", "ZERO", "FLOATING", "OTHER", Null}

(* A description names its state in full ("named"), by its two-letter code *)
(* ("coded"), in an unknown spelling ("junk"), or is missing.  A T-Bill's  *)
(* reads DTB.                                                              *)
Descriptions == {"named", "coded", "junk", "DTB", Null}
(* Mutant: an unresolved code is passed on as it is.                       *)
SdlIssuer_CodeAsItIs(description) ==
    CASE description = "named" -> "State" [] description = "coded" -> "StateCode" [] OTHER -> Null
SdlIssuer(description) == IF description \in {"named", "coded"} THEN "State" ELSE Null
SdlIssuers == {"State", Null}
Central == {"GSEC", "TBILL", "STRIPS", "SGB"}

-----------------------------------------------------------------------------
(* What the sources say of the security: the records they construct.       *)

Record(type, source, description, issuer, coupon, interest) ==
    [type        |-> type,
     source      |-> source,
     description |-> description,
     issuer      |-> issuer,
     coupon      |-> coupon,
     interest    |-> Canonical(interest)]

Printed == Coupons \cup {NoCoupon}

SaidByBondCentral ==
    {Record("CORP", "bondcentral", "junk", issuer,
            IF coupon = NoCoupon /\ Canonical(interest) = "ZERO" THEN 0 ELSE coupon, interest) :
        issuer \in {"Company", Null}, coupon \in Printed, interest \in Spellings \cup {Null}}

SaidByCdsl ==
    {Record("CORP", "cdsl", Null, issuer, coupon, Null) : issuer \in {"Company", Null}, coupon \in Printed}

SaidByReport ==
    {Record("CORP", "nse_cbr", "junk", "Company", coupon,
            IF floating THEN "floating" ELSE IF coupon > 0 THEN "fixed" ELSE Null) :
        coupon \in Printed, floating \in BOOLEAN}

(* The worksheet's title gives the type, the form of the ISIN outranks it. *)
SheetType(title) ==
    CASE title \in {"gsec", "special"} -> "GSEC"
      [] title \in {"sdl", "uday"}     -> "SDL"
      [] title = "strips"              -> "STRIPS"
      [] title = "tbill"               -> "TBILL"
TypeOf(title) == IF SheetType(title) # "SDL" /\ paper = "state" THEN "SDL" ELSE SheetType(title)

SovereignIssuer(type, description) ==
    IF type = "SDL" THEN SdlIssuer(description) ELSE "India"

SaidByFbil ==
    {Record(TypeOf(title), "fbil", description, SovereignIssuer(TypeOf(title), description), coupon,
            CASE coupon = NoCoupon -> Null [] coupon = 0 -> "Zero" [] OTHER -> "Fixed") :
        title \in IF paper = "state" THEN {"special", "sdl"} ELSE {"tbill"},
        description \in IF paper = "state" THEN Descriptions \ {"DTB"} ELSE {"DTB"},
        coupon \in Printed}

(* CCIL takes the issuer's kind from the ISIN and the rest from the text.  *)
Segment(description) ==
    CASE paper = "state" -> "SDL" [] description = "DTB" -> "TBILL" [] OTHER -> "GSEC"

SaidByCcil ==
    {LET segment == Segment(description)
         zero    == segment \in {"TBILL", "STRIPS"}
     IN  Record(segment, "ccil", description,
                IF segment \in Central THEN "India" ELSE SdlIssuer(description),
                IF zero THEN 0 ELSE coupon, IF zero THEN "zero_coupon" ELSE "fixed") :
        description \in IF paper = "state" THEN Descriptions \ {"DTB"} ELSE {"DTB"},
        coupon \in Printed}

-----------------------------------------------------------------------------
(* The statements of SecurityRepository, on the one row.                   *)

Coalesce(a, b) == IF a = Null THEN b ELSE a
CoalesceCoupon(a, b) == IF a = NoCoupon THEN b ELSE a

SecurityRow(r, seen_on) ==
    [type |-> r.type, source |-> r.source, description |-> r.description, issuer |-> r.issuer,
     coupon |-> r.coupon, interest |-> r.interest, first |-> seen_on, last |-> seen_on]

(* Mutants: the coupon is taken as it comes; the last date is the batch's. *)
Upserted_BlankWins(batch, seen_on) ==
    LET new == SecurityRow(Last(batch), seen_on)
    IN  IF row = NoRow THEN new
        ELSE [new EXCEPT !.description = Coalesce(new.description, row.description),
                         !.issuer = Coalesce(new.issuer, row.issuer),
                         !.interest = Coalesce(new.interest, row.interest),
                         !.first = Min({row.first, new.first}), !.last = Max({row.last, new.last})]
Upserted_LastOfBatch(batch, seen_on) ==
    LET new == SecurityRow(Last(batch), seen_on)
    IN  IF row = NoRow THEN new
        ELSE [new EXCEPT !.description = Coalesce(new.description, row.description),
                         !.issuer = Coalesce(new.issuer, row.issuer),
                         !.coupon = CoalesceCoupon(new.coupon, row.coupon),
                         !.interest = Coalesce(new.interest, row.interest),
                         !.first = Min({row.first, new.first})]

(* One statement may not touch an ISIN twice: of a batch the last wins.    *)
Upserted(batch, seen_on) ==
    LET new == SecurityRow(Last(batch), seen_on)
    IN  IF row = NoRow THEN new
        ELSE [type        |-> new.type,
              source      |-> new.source,
              description |-> Coalesce(new.description, row.description),
              issuer      |-> Coalesce(new.issuer, row.issuer),
              coupon      |-> CoalesceCoupon(new.coupon, row.coupon),
              interest    |-> Coalesce(new.interest, row.interest),
              first       |-> Min({row.first, new.first}),
              last        |-> Max({row.last, new.last})]

InsertedIfMissing(r, seen_on) == IF row = NoRow THEN SecurityRow(r, seen_on) ELSE row

(* The record carries a value for a field that is NULL in the row.         *)
FillsGap(old, r) ==
    \/ old.coupon = NoCoupon /\ r.coupon # NoCoupon
    \/ old.issuer = Null /\ r.issuer # Null
    \/ old.interest = Null /\ r.interest # Null

Enriched(old, r) ==
    IF FillsGap(old, r)
    THEN [old EXCEPT !.coupon   = CoalesceCoupon(old.coupon, r.coupon),
                     !.issuer   = Coalesce(old.issuer, r.issuer),
                     !.interest = Coalesce(old.interest, r.interest)]
    ELSE old

(* The reconciliation of a universe batch with what another source stored. *)
Tolerance == 1
Disagree(stored, r) ==
    /\ stored # NoRow
    /\ stored.source # r.source
    /\ stored.coupon # NoCoupon /\ r.coupon # NoCoupon
    /\ (stored.coupon - r.coupon > Tolerance \/ r.coupon - stored.coupon > Tolerance)
Reconcile(stored, batch) == \E i \in DOMAIN batch : Disagree(stored, batch[i])
-----------------------------------------------------------------------------
(* The runs.  A universe may list a security twice, under two coupons.     *)

Batches(said) == {<<r>> : r \in said} \cup {<<[r EXCEPT !.coupon = c], r>> : r \in said, c \in Printed}

(* Mutant: the batch is reconciled with what it has just written.          *)
Universe_UpsertsFirst(said) ==
    /\ paper = "corporate"
    /\ \E batch \in Batches(said), as_of \in Days :
          /\ row' = Upserted(batch, as_of)
          /\ mismatch' = Reconcile(row', batch)
          /\ seen' = seen \cup {as_of}
    /\ UNCHANGED <<paper, repaired, asked, fetched>>

Universe(said) ==
    /\ paper = "corporate"
    /\ \E batch \in Batches(said), as_of \in Days :
          /\ mismatch' = Reconcile(row, batch)
          /\ row' = Upserted(batch, as_of)
          /\ seen' = seen \cup {as_of}
    /\ UNCHANGED <<paper, repaired, asked, fetched>>

BondCentralNight == Universe(SaidByBondCentral)
CdslSnapshot == Universe(SaidByCdsl)

(* Inserting what is missing records the date only for what it inserts.    *)
SeenIfMissing(seen_on) == seen' = IF row = NoRow THEN {seen_on} ELSE seen

BondReport ==
    /\ paper = "corporate"
    /\ \E r \in SaidByReport, date \in Days :
          /\ row' = Enriched(InsertedIfMissing(r, date), r)
          /\ SeenIfMissing(date)
    /\ UNCHANGED <<paper, mismatch, repaired, asked, fetched>>

FbilValuations ==
    /\ paper # "corporate"
    /\ \E r \in SaidByFbil, date \in Days :
          /\ row' = Upserted(<<r>>, date)
          /\ seen' = seen \cup {date}
    /\ UNCHANGED <<paper, mismatch, repaired, asked, fetched>>

CcilTrades ==
    /\ paper # "corporate"
    /\ \E r \in SaidByCcil, as_of \in Days :
          /\ row' = InsertedIfMissing(r, as_of)
          /\ SeenIfMissing(as_of)
    /\ UNCHANGED <<paper, mismatch, repaired, asked, fetched>>

(* The enrichment: gaps are read and closed in different sessions.         *)
IsGap ==
    /\ row # NoRow /\ row.coupon = NoCoupon /\ row.type = "CORP"
    /\ row.interest = Null \/ Lower(row.interest) \in FixedSpellings

ReadGaps ==
    /\ ~asked /\ IsGap
    /\ asked' = TRUE
    /\ UNCHANGED <<paper, row, seen, mismatch, repaired, fetched>>

(* Another security's record, should the API ever ignore its filter.       *)
OtherCoupon == 99999
Foreign == Record("CORP", "bondcentral", "junk", "Other", OtherCoupon, "fixed")
ReferenceReplies ==
    {[isin |-> "own", record |-> r] : r \in SaidByBondCentral} \cup {[isin |-> "other", record |-> Foreign]}

FetchReference(reply) == IF reply.isin # "own" THEN NoRecord ELSE reply.record

FetchSucceeds ==
    /\ asked /\ fetched = NoRecord
    /\ \E reply \in ReferenceReplies : fetched' = FetchReference(reply)
    /\ UNCHANGED <<paper, row, seen, mismatch, repaired, asked>>

(* A failed or unresolved fetch leaves the ISIN out; an empty list of      *)
(* records ends the pass as well.                                          *)
WriteEnrichment ==
    /\ asked
    /\ row' = IF fetched = NoRecord THEN row ELSE Enriched(row, fetched)
    /\ asked' = FALSE
    /\ fetched' = NoRecord
    /\ UNCHANGED <<paper, seen, mismatch, repaired>>

-----------------------------------------------------------------------------
(* The repairs of the migrations, and the rows they were written for.      *)

RepairedInterest(r) ==
    LET canonical == [r EXCEPT !.interest = Canonical(r.interest)]
    IN  IF canonical.source = "ccil" /\ canonical.type = "GSEC" /\ canonical.description = "DTB"
        THEN [canonical EXCEPT !.type = "TBILL", !.interest = "ZERO", !.coupon = 0]
        ELSE canonical

RepairedIssuer(r) ==
    LET spelled == IF r.type = "SDL" /\ r.issuer = "StateCode" THEN [r EXCEPT !.issuer = "State"] ELSE r
        located == IF r.type \in Central /\ paper = "state" /\ r.description = "coded"
                   THEN [spelled EXCEPT !.issuer = "State"] ELSE spelled
        retyped == IF r.type \in Central /\ paper = "state" THEN [located EXCEPT !.type = "SDL"] ELSE located
    IN  IF retyped.type = "SDL" /\ retyped.issuer = "India" THEN [retyped EXCEPT !.issuer = Null] ELSE retyped

Upgrade ==
    /\ ~repaired
    /\ repaired' = TRUE
    /\ row' = IF row = NoRow THEN row ELSE RepairedIssuer(RepairedInterest(row))
    /\ UNCHANGED <<paper, seen, mismatch, asked, fetched>>

(* Rows as the code before the repairs left them: raw spellings, state     *)
(* paper typed by its worksheet, T-Bills frozen as G-Secs.                 *)
Legacy ==
    LET day == CHOOSE d \in Days : TRUE
        Old(type, source, description, issuer, coupon, interest) ==
            [type |-> type, source |-> source, description |-> description, issuer |-> issuer,
             coupon |-> coupon, interest |-> interest, first |-> day, last |-> day]
    IN  CASE paper = "corporate" ->
               {Old("CORP", "bondcentral", "junk", "Company", NoCoupon, i) : i \in Spellings \cup {Null, ""}}
          [] paper = "state" ->
               {Old(k[1], "fbil", d, k[2], 7000, "Fixed") : d \in Descriptions \ {"DTB"},
                    k \in {<<"GSEC", "India">>, <<"SDL", "StateCode">>, <<"SDL", "State">>, <<"SDL", "India">>, <<"SDL", Null>>}}
          [] paper = "tbill" -> {Old("GSEC", "ccil", "DTB", "India", NoCoupon, "FIXED")}

Init ==
    /\ paper \in Papers
    /\ row \in {NoRow} \cup Legacy
    /\ seen = IF row = NoRow THEN {} ELSE {row.first}
    /\ mismatch = FALSE
    /\ repaired = FALSE
    /\ asked = FALSE
    /\ fetched = NoRecord

Next ==
    \/ BondCentralNight
    \/ CdslSnapshot
    \/ BondReport
    \/ FbilValuations
    \/ CcilTrades
    \/ ReadGaps
    \/ FetchSucceeds
    \/ WriteEnrichment
    \/ Upgrade

Spec == Init /\ [][Next]_vars

-----------------------------------------------------------------------------
(* Properties.                                                             *)

(* What the master knows of a security is never lost: no run of a pipeline *)
(* turns a known coupon, issuer, type of interest or description into      *)
(* NULL, and a row stays in the table (upsert_many's promise, which        *)
(* insert_missing and enrich_missing have to keep as well).                *)
ReferenceNeverLost ==
    [][row = NoRow \/ repaired # repaired' \/
          /\ row' # NoRow
          /\ row.coupon # NoCoupon => row'.coupon # NoCoupon
          /\ \A f \in {"issuer", "interest", "description"} : row[f] # Null => row'[f] # Null]_vars

(* The stored window of observation is the tightest around the dates the   *)
(* security was observed under, in whatever order batches and backfills    *)
(* brought them.                                                           *)
SeenWindowTight ==
    row # NoRow => row.first = Min(seen) /\ row.last = Max(seen)

(* The data repairs hold for good: no later night brings back a spelling,  *)
(* an issuer or a type they removed, as an earlier repair of the issuers   *)
(* suffered from the very next load.                                       *)
RepairHolds ==
    repaired /\ row # NoRow =>
        /\ row.interest \in CanonicalTypes
        /\ paper = "state" => row.type = "SDL" /\ row.issuer \in SdlIssuers
        /\ paper = "tbill" => row.type = "TBILL"

(* A universe snapshot that replaces another source's coupon by a          *)
(* different one has told the data quality table so.                       *)
DisagreementReported ==
    [][/\ row # NoRow /\ row'.source \in {"bondcentral", "cdsl"}
       /\ row.source # row'.source
       /\ row.coupon # NoCoupon
       /\ (row'.coupon - row.coupon > Tolerance \/ row.coupon - row'.coupon > Tolerance)
       => mismatch']_vars
=============================================================================
