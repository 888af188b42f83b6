------------------------ MODULE SecurityMasterProofs ------------------------
(***************************************************************************)
(* Proofs about the securities master.  First the table that stores it     *)
(* (SecurityMaster): for every set of dates, coupons and spellings of the  *)
(* sources, the window of observation is tight, the data repairs hold, no  *)
(* reference value is lost, and no universe snapshot replaces a coupon     *)
(* unreported.  Then the pull that fills it (UniverseCrawl): for every     *)
(* length of the feed, page size and ladder, a pull that ends normally     *)
(* accounts for every record, the ladder loses only what the API cannot    *)
(* serialise, and an outage is neither stored as an empty snapshot nor     *)
(* expensive.                                                              *)
(***************************************************************************)
EXTENDS SecurityMaster, UniverseCrawl, FiniteSetTheorems, TLAPS

Lemmas == INSTANCE IngestionRunsLemmas

(***************************************************************************)
(* The least and the greatest date of a set of dates.                      *)
(***************************************************************************)

(* A finite set of numbers has a greatest (by a least counterexample).     *)
LEMMA FiniteGreatest ==
    ASSUME NEW S, IsFiniteSet(S), S \subseteq Nat, S # {}
    PROVE  \E m \in S : \A x \in S : x <= m
<1> DEFINE Bad == {T \in SUBSET S : T # {} /\ ~ \E m \in T : \A x \in T : x <= m}
           Sizes == {Cardinality(T) : T \in Bad}
<1>1. \A T \in SUBSET S : IsFiniteSet(T) /\ Cardinality(T) \in Nat
  BY FS_Subset, FS_CardinalityType
<1>2. ASSUME Bad # {}
      PROVE  FALSE
  <2>1. Sizes \subseteq Nat /\ Sizes # {}
    BY <1>1, <1>2
  <2>2. PICK n \in Sizes : \A k \in Sizes : n <= k
    BY <2>1, Lemmas!LeastNatural
  <2>3. PICK T \in Bad : Cardinality(T) = n
    BY <2>2
  <2>4. PICK x \in T : TRUE
    BY <2>3
  <2> DEFINE U == T \ {x}
  <2>5. U \in SUBSET S /\ Cardinality(U) = n - 1 /\ n \in Nat /\ T \subseteq Nat
    BY <1>1, <2>1, <2>3, <2>4, FS_RemoveElement
  <2>6. U \notin Bad
    <3>1. ~(n <= n - 1)
      BY <2>5
    <3>2. QED
      BY <2>2, <2>5, <3>1
  <2>7. U # {}
    <3>1. ASSUME U = {}
          PROVE  \A y \in T : y <= x
      BY <2>4, <2>5, <3>1
    <3>2. QED
      BY <2>3, <2>4, <3>1
  <2>8. PICK m \in U : \A y \in U : y <= m
    BY <2>5, <2>6, <2>7
  <2>9. m \in Nat /\ x \in Nat /\ m \in T
    BY <2>4, <2>5, <2>8
  <2>10. CASE x <= m
    BY <2>3, <2>8, <2>9, <2>10
  <2>11. CASE m < x
    <3>1. \A y \in T : y <= x
      BY <2>4, <2>5, <2>8, <2>9, <2>11
    <3>2. QED
      BY <2>3, <2>4, <3>1
  <2>12. QED
    BY <2>9, <2>10, <2>11
<1>3. QED
  BY <1>2

(* A set of dates has its least and its greatest among its members.        *)
LEMMA DateBounds ==
    ASSUME NEW S, S \subseteq Days, S # {}
    PROVE  /\ Min(S) \in S /\ \A x \in S : Min(S) <= x
           /\ Max(S) \in S /\ \A x \in S : x <= Max(S)
<1>1. S \subseteq Nat /\ IsFiniteSet(S)
  BY MasterAssumption, FS_Subset
<1>2. \E m \in S : \A x \in S : m <= x
  BY <1>1, Lemmas!LeastNatural
<1>3. \E m \in S : \A x \in S : x <= m
  BY <1>1, FiniteGreatest
<1>4. Min(S) \in S /\ \A x \in S : Min(S) <= x
  BY <1>2 DEF Min
<1>5. Max(S) \in S /\ \A x \in S : Max(S) >= x
  BY <1>1, <1>3 DEF Max
<1>6. QED
  BY <1>1, <1>4, <1>5

(* One more date moves the bounds as LEAST and GREATEST do.                *)
LEMMA WidenedBounds ==
    ASSUME NEW S, S \subseteq Days, S # {}, NEW d \in Days
    PROVE  Min(S \cup {d}) = Min({Min(S), d}) /\ Max(S \cup {d}) = Max({Max(S), d})
<1> DEFINE T == S \cup {d}
<1>1. Days \subseteq Nat
  BY MasterAssumption
<1>2. /\ Min(S) \in S /\ \A x \in S : Min(S) <= x
      /\ Max(S) \in S /\ \A x \in S : x <= Max(S)
  BY DateBounds
<1>3. /\ Min(T) \in T /\ \A x \in T : Min(T) <= x
      /\ Max(T) \in T /\ \A x \in T : x <= Max(T)
  <2>1. T \subseteq Days /\ T # {}
    OBVIOUS
  <2>2. QED
    BY <2>1, DateBounds
<1>4. /\ Min({Min(S), d}) \in {Min(S), d}
      /\ \A x \in {Min(S), d} : Min({Min(S), d}) <= x
  <2>1. {Min(S), d} \subseteq Days
    BY <1>2
  <2>2. QED
    BY <2>1, DateBounds
<1>5. /\ Max({Max(S), d}) \in {Max(S), d}
      /\ \A x \in {Max(S), d} : x <= Max({Max(S), d})
  <2>1. {Max(S), d} \subseteq Days
    BY <1>2
  <2>2. QED
    BY <2>1, DateBounds
<1> DEFINE m == Min({Min(S), d}) 
           M == Max({Max(S), d})
           lo == Min(S) 
           hi == Max(S)
           l == Min(T)
           h == Max(T)
<1>6. /\ m \in Nat /\ M \in Nat /\ lo \in Nat /\ hi \in Nat /\ l \in Nat /\ h \in Nat /\ d \in Nat
      /\ m \in T /\ M \in T
      /\ l <= m /\ M <= h
  BY <1>1, <1>2, <1>3, <1>4, <1>5
<1>7. m <= l
  BY <1>1, <1>2, <1>3, <1>4, <1>6
<1>8. h <= M
  BY <1>1, <1>2, <1>3, <1>5, <1>6
<1>9. QED
  BY <1>6, <1>7, <1>8

(* A set of one date has it as both bounds.                                *)
LEMMA OneDate == ASSUME NEW d \in Days PROVE Min({d}) = d /\ Max({d}) = d
  BY DateBounds

(***************************************************************************)
(* The inductive invariant: what a row and a record may hold, by paper.    *)
(***************************************************************************)
Types == {"CORP", "GSEC", "SDL", "TBILL", "STRIPS"}
Sources == {"bondcentral", "cdsl", "nse_cbr", "fbil", "ccil"}
Issuers == {"Company", "Other", "India", "State", "StateCode", Null}
Interests == CanonicalTypes \cup Spellings \cup {"", "Fixed"}
StateIssuers == {"India", "State", "StateCode", Null}

RecordType ==
    [type : Types, source : Sources, description : Descriptions, issuer : Issuers, coupon : Int,
     interest : CanonicalTypes]

RowType ==
    [type : Types, source : Sources, description : Descriptions, issuer : Issuers, coupon : Int,
     interest : Interests, first : Days, last : Days]

(* Only the rows of the time before the repairs type a State's paper GSEC, *)
(* and then as India's, or a T-Bill GSEC, and then as CCIL's DTB.          *)
Fits(r) ==
    CASE paper = "corporate" -> r.type = "CORP"
      [] paper = "state"     -> /\ r.type \in {"GSEC", "SDL"} /\ r.description # "DTB"
                                /\ r.issuer \in StateIssuers
                                /\ r.type = "GSEC" => r.issuer = "India"
      [] paper = "tbill"     -> /\ r.type \in {"GSEC", "TBILL"}
                                /\ r.type = "GSEC" => r.source = "ccil" /\ r.description = "DTB"

(* What a repaired row is, and what the sources say today.                 *)
Sound(r) ==
    /\ r.interest \in CanonicalTypes
    /\ paper = "corporate" => r.type = "CORP"
    /\ paper = "state" => r.type = "SDL" /\ r.issuer \in SdlIssuers /\ r.description # "DTB"
    /\ paper = "tbill" => r.type = "TBILL"

IInv ==
    /\ paper \in Papers /\ repaired \in BOOLEAN /\ asked \in BOOLEAN
    /\ seen \subseteq Days
    /\ row # NoRow => /\ row \in RowType /\ Fits(row)
                      /\ repaired => Sound(row)
                      /\ seen # {} /\ row.first = Min(seen) /\ row.last = Max(seen)
    /\ row = NoRow => seen = {}
    /\ asked => paper = "corporate" /\ row # NoRow
    /\ fetched # NoRecord => asked /\ fetched \in RecordType

(***************************************************************************)
(* What the sources say.                                                   *)
(***************************************************************************)

(* Whatever is written, its canonical spelling is one of a few.            *)
LEMMA CanonicalType == \A raw : Canonical(raw) \in CanonicalTypes
  BY DEF Canonical, CanonicalTypes

(* A record has the fields it is made of, and a canonical interest type.   *)
LEMMA RecordFacts ==
    ASSUME NEW type \in Types, NEW source \in Sources, NEW description \in Descriptions,
           NEW issuer \in Issuers, NEW coupon \in Int, NEW interest
    PROVE  LET r == Record(type, source, description, issuer, coupon, interest) IN
           /\ r \in RecordType /\ r.type = type /\ r.source = source /\ r.interest \in CanonicalTypes
           /\ r.description = description /\ r.issuer = issuer
  BY CanonicalType DEF Record, RecordType

(* A coupon as printed is a number, or stands for none.                    *)
LEMMA PrintedCoupons == Printed \subseteq Int
  BY MasterAssumption DEF Printed, NoCoupon

(* BondCentral's records are of corporate bonds.                           *)
LEMMA BondCentralSays ==
    \A r \in SaidByBondCentral :
        r \in RecordType /\ r.type = "CORP" /\ r.source = "bondcentral" /\ r.interest \in CanonicalTypes
<1> SUFFICES ASSUME NEW r \in SaidByBondCentral
             PROVE  r \in RecordType /\ r.type = "CORP" /\ r.source = "bondcentral"
                    /\ r.interest \in CanonicalTypes
  OBVIOUS
<1>1. PICK issuer \in {"Company", Null}, coupon \in Printed, interest \in Spellings \cup {Null} :
         r = Record("CORP", "bondcentral", "junk", issuer,
                    IF coupon = NoCoupon /\ Canonical(interest) = "ZERO" THEN 0 ELSE coupon, interest)
  BY DEF SaidByBondCentral
<1> DEFINE written == IF coupon = NoCoupon /\ Canonical(interest) = "ZERO" THEN 0 ELSE coupon
<1>2. written \in Int /\ issuer \in Issuers /\ "CORP" \in Types /\ "bondcentral" \in Sources
      /\ "junk" \in Descriptions
  BY PrintedCoupons DEF Issuers, Types, Sources, Descriptions
<1> HIDE DEF written
<1>3. r = Record("CORP", "bondcentral", "junk", issuer, written, interest)
  BY <1>1 DEF written
<1>4. QED
  BY <1>2, <1>3, RecordFacts

(* So are those of CDSL's snapshots.                                       *)
LEMMA CdslSays ==
    \A r \in SaidByCdsl :
        r \in RecordType /\ r.type = "CORP" /\ r.source = "cdsl" /\ r.interest \in CanonicalTypes
<1> SUFFICES ASSUME NEW r \in SaidByCdsl
             PROVE  r \in RecordType /\ r.type = "CORP" /\ r.source = "cdsl"
                    /\ r.interest \in CanonicalTypes
  OBVIOUS
<1>1. PICK issuer \in {"Company", Null}, coupon \in Printed :
         r = Record("CORP", "cdsl", Null, issuer, coupon, Null)
  BY DEF SaidByCdsl
<1>2. coupon \in Int /\ issuer \in Issuers /\ "CORP" \in Types /\ "cdsl" \in Sources
      /\ Null \in Descriptions
  BY PrintedCoupons DEF Issuers, Types, Sources, Descriptions
<1>3. QED
  BY <1>1, <1>2, RecordFacts

(* So are those of NSE's bond report.                                      *)
LEMMA ReportSays ==
    \A r \in SaidByReport :
        r \in RecordType /\ r.type = "CORP" /\ r.source = "nse_cbr" /\ r.interest \in CanonicalTypes
<1> SUFFICES ASSUME NEW r \in SaidByReport
             PROVE  r \in RecordType /\ r.type = "CORP" /\ r.source = "nse_cbr"
                    /\ r.interest \in CanonicalTypes
  OBVIOUS
<1>1. PICK coupon \in Printed, floating \in BOOLEAN :
         r = Record("CORP", "nse_cbr", "junk", "Company", coupon,
                    IF floating THEN "floating" ELSE IF coupon > 0 THEN "fixed" ELSE Null)
  BY DEF SaidByReport
<1>2. coupon \in Int /\ "Company" \in Issuers /\ "CORP" \in Types /\ "nse_cbr" \in Sources
      /\ "junk" \in Descriptions
  BY PrintedCoupons DEF Issuers, Types, Sources, Descriptions
<1>3. QED
  BY <1>1, <1>2, RecordFacts

(* Sovereign paper: the form of the ISIN outranks the worksheet and the    *)
(* text, and a State's paper names a State or nobody.                      *)
LEMMA FbilSays ==
    ASSUME paper \in {"state", "tbill"}, NEW r \in SaidByFbil
    PROVE  r \in RecordType /\ Sound(r) /\ Fits(r) /\ r.source = "fbil"
<1>1. PICK title \in IF paper = "state" THEN {"special", "sdl"} ELSE {"tbill"},
           description \in IF paper = "state" THEN Descriptions \ {"DTB"} ELSE {"DTB"},
           coupon \in Printed :
         r = Record(TypeOf(title), "fbil", description, SovereignIssuer(TypeOf(title), description), coupon,
                    CASE coupon = NoCoupon -> Null [] coupon = 0 -> "Zero" [] OTHER -> "Fixed")
  BY DEF SaidByFbil
<1>2. coupon \in Int /\ "fbil" \in Sources /\ description \in Descriptions
  BY PrintedCoupons DEF Sources, Descriptions
<1>3. CASE paper = "state"
  <2>1. TypeOf(title) = "SDL"
    BY <1>1, <1>3 DEF TypeOf, SheetType
  <2>2. SovereignIssuer("SDL", description) \in {"State", Null}
    BY DEF SovereignIssuer, SdlIssuer
  <2>3. "SDL" \in Types /\ SovereignIssuer("SDL", description) \in Issuers
    BY <2>2 DEF Types, Issuers
  <2>4. /\ r \in RecordType /\ r.type = "SDL" /\ r.source = "fbil" /\ r.interest \in CanonicalTypes
        /\ r.description = description /\ r.issuer \in {"State", Null}
    BY <1>1, <1>2, <2>1, <2>2, <2>3, RecordFacts
  <2>5. QED
    BY <1>3, <2>4 DEF Sound, Fits, SdlIssuers, StateIssuers
<1>4. CASE paper = "tbill"
  <2>1. TypeOf(title) = "TBILL"
    BY <1>1, <1>4 DEF TypeOf, SheetType
  <2>2. SovereignIssuer("TBILL", description) = "India"
    BY DEF SovereignIssuer
  <2>3. "TBILL" \in Types /\ "India" \in Issuers
    BY DEF Types, Issuers
  <2>4. /\ r \in RecordType /\ r.type = "TBILL" /\ r.source = "fbil" /\ r.interest \in CanonicalTypes
    BY <1>1, <1>2, <2>1, <2>2, <2>3, RecordFacts
  <2>5. QED
    BY <1>4, <2>4 DEF Sound, Fits
<1>5. QED
  BY <1>3, <1>4

(* CCIL's segment follows from the description, and what it says of a      *)
(* State's paper or a T-Bill is sound.                                     *)
LEMMA CcilSays ==
    ASSUME paper \in {"state", "tbill"}, NEW r \in SaidByCcil
    PROVE  r \in RecordType /\ Sound(r) /\ Fits(r) /\ r.source = "ccil"
<1>1. PICK description \in IF paper = "state" THEN Descriptions \ {"DTB"} ELSE {"DTB"},
           coupon \in Printed :
         LET segment == Segment(description)
             zero    == segment \in {"TBILL", "STRIPS"}
         IN  r = Record(segment, "ccil", description,
                        IF segment \in Central THEN "India" ELSE SdlIssuer(description),
                        IF zero THEN 0 ELSE coupon, IF zero THEN "zero_coupon" ELSE "fixed")
  BY DEF SaidByCcil
<1> DEFINE written == IF Segment(description) \in {"TBILL", "STRIPS"} THEN 0 ELSE coupon
           interest == IF Segment(description) \in {"TBILL", "STRIPS"} THEN "zero_coupon" ELSE "fixed"
           issuer == IF Segment(description) \in Central THEN "India" ELSE SdlIssuer(description)
<1>2. written \in Int /\ "ccil" \in Sources /\ description \in Descriptions
  BY PrintedCoupons DEF Sources, Descriptions
<1>3. r = Record(Segment(description), "ccil", description, issuer, written, interest)
  BY <1>1
<1> HIDE DEF written, interest
<1>4. CASE paper = "state"
  <2>1. Segment(description) = "SDL"
    BY <1>4 DEF Segment
  <2>2. issuer \in {"State", Null}
    BY <2>1 DEF Central, SdlIssuer
  <2>3. "SDL" \in Types /\ issuer \in Issuers
    BY <2>2 DEF Types, Issuers
  <2> HIDE DEF issuer
  <2>4. /\ r \in RecordType /\ r.type = "SDL" /\ r.source = "ccil" /\ r.interest \in CanonicalTypes
        /\ r.description = description /\ r.issuer \in {"State", Null}
    BY <1>2, <1>3, <2>1, <2>2, <2>3, RecordFacts
  <2>5. QED
    BY <1>4, <2>4 DEF Sound, Fits, SdlIssuers, StateIssuers
<1>5. CASE paper = "tbill"
  <2>1. Segment(description) = "TBILL"
    BY <1>5 DEF Segment
  <2>2. issuer = "India"
    BY <2>1 DEF Central
  <2>3. "TBILL" \in Types /\ issuer \in Issuers
    BY <2>2 DEF Types, Issuers
  <2> HIDE DEF issuer
  <2>4. r \in RecordType /\ r.type = "TBILL" /\ r.source = "ccil" /\ r.interest \in CanonicalTypes
    BY <1>2, <1>3, <2>1, <2>3, RecordFacts
  <2>5. QED
    BY <1>5, <2>4 DEF Sound, Fits
<1>6. QED
  BY <1>4, <1>5

(* The last of a universe's batch is what the source says.                 *)
LEMMA BatchLast ==
    ASSUME NEW said, NEW batch \in Batches(said)
    PROVE  Last(batch) \in said /\ \E i \in DOMAIN batch : batch[i] = Last(batch)
<1>1. CASE \E r \in said : batch = <<r>>
  <2>1. PICK r \in said : batch = <<r>>
    BY <1>1
  <2>2. Last(batch) = r /\ 1 \in DOMAIN batch /\ batch[1] = r
    BY <2>1 DEF Last
  <2>3. QED
    BY <2>2
<1>2. CASE \E r \in said, c \in Printed : batch = <<[r EXCEPT !.coupon = c], r>>
  <2>1. PICK r \in said, c \in Printed : batch = <<[r EXCEPT !.coupon = c], r>>
    BY <1>2
  <2>2. Last(batch) = r /\ 2 \in DOMAIN batch /\ batch[2] = r
    BY <2>1 DEF Last
  <2>3. QED
    BY <2>2
<1>3. QED
  BY <1>1, <1>2 DEF Batches

(***************************************************************************)
(* The statements of the repository.                                       *)
(***************************************************************************)

(* No row is told from any row or record.                                  *)
LEMMA RowApart == NoRow \notin RowType /\ NoRow \notin RecordType
<1>1. NoRow.type \notin Types
  BY DEF NoRow, Null, Types
<1>2. \A r \in RowType \cup RecordType : r.type \in Types
  BY DEF RowType, RecordType
<1>3. QED
  BY <1>1, <1>2

(* The canonical interest types are among those a row may have.            *)
LEMMA CanonicalInterests == CanonicalTypes \subseteq Interests
  BY DEF Interests

(* A row inserted has the fields of its record and one date.               *)
LEMMA InsertedFacts ==
    ASSUME NEW r \in RecordType, NEW d \in Days
    PROVE  LET new == SecurityRow(r, d) IN
           /\ new \in RowType /\ new.type = r.type /\ new.source = r.source
           /\ new.description = r.description /\ new.issuer = r.issuer /\ new.coupon = r.coupon
           /\ new.interest = r.interest /\ new.first = d /\ new.last = d
  BY CanonicalInterests DEF SecurityRow, RecordType, RowType

(* An upsert takes type and source as they come and coalesces the rest.    *)
LEMMA UpsertedFacts ==
    ASSUME IInv, NEW batch, Last(batch) \in RecordType, NEW d \in Days
    PROVE  LET new == Upserted(batch, d)
               r == Last(batch)
           IN
           /\ new \in RowType /\ new.type = r.type /\ new.source = r.source
           /\ row = NoRow => new = SecurityRow(r, d)
           /\ row # NoRow =>
                 /\ new.description = Coalesce(r.description, row.description)
                 /\ new.issuer = Coalesce(r.issuer, row.issuer)
                 /\ new.coupon = CoalesceCoupon(r.coupon, row.coupon)
                 /\ new.interest = Coalesce(r.interest, row.interest)
                 /\ new.first = Min({row.first, d}) /\ new.last = Max({row.last, d})
<1> DEFINE r == Last(batch)
<1> HIDE DEF r
<1>1. r \in RecordType
  BY DEF r
<1>2. SecurityRow(r, d).first = d /\ SecurityRow(r, d).last = d /\ SecurityRow(r, d) \in RowType
      /\ SecurityRow(r, d).type = r.type /\ SecurityRow(r, d).source = r.source
      /\ SecurityRow(r, d).description = r.description /\ SecurityRow(r, d).issuer = r.issuer
      /\ SecurityRow(r, d).coupon = r.coupon /\ SecurityRow(r, d).interest = r.interest
  BY <1>1, InsertedFacts
<1>3. CASE row = NoRow
  BY <1>2, <1>3 DEF Upserted, r
<1>4. CASE row # NoRow
  <2>1. row \in RowType
    BY <1>4 DEF IInv
  <2>2. /\ Coalesce(r.description, row.description) \in Descriptions
        /\ Coalesce(r.issuer, row.issuer) \in Issuers
        /\ CoalesceCoupon(r.coupon, row.coupon) \in Int
        /\ Coalesce(r.interest, row.interest) \in Interests
    BY <1>1, <2>1, CanonicalInterests DEF Coalesce, CoalesceCoupon, RecordType, RowType
  <2>3. Min({row.first, d}) \in Days /\ Max({row.last, d}) \in Days
    <3>1. row.first \in Days /\ row.last \in Days
      BY <2>1 DEF RowType
    <3>2. {row.first, d} \subseteq Days /\ {row.last, d} \subseteq Days
      BY <3>1
    <3>3. QED
      BY <3>2, DateBounds
  <2>4. Upserted(batch, d) =
          [type        |-> r.type,
           source      |-> r.source,
           description |-> Coalesce(r.description, row.description),
           issuer      |-> Coalesce(r.issuer, row.issuer),
           coupon      |-> CoalesceCoupon(r.coupon, row.coupon),
           interest    |-> Coalesce(r.interest, row.interest),
           first       |-> Min({row.first, d}),
           last        |-> Max({row.last, d})]
    BY <1>2, <1>4 DEF Upserted, r
  <2>5. r.type \in Types /\ r.source \in Sources
    BY <1>1 DEF RecordType
  <2>6. QED
    BY <1>4, <2>2, <2>3, <2>4, <2>5 DEF RowType, r
<1>5. QED
  BY <1>3, <1>4

(* What the enrichment leaves of a row, and what it fills.                 *)
LEMMA EnrichedFacts ==
    ASSUME NEW old \in RowType, NEW r \in RecordType
    PROVE  LET new == Enriched(old, r) IN
           /\ new \in RowType /\ new.type = old.type /\ new.source = old.source
           /\ new.description = old.description /\ new.first = old.first /\ new.last = old.last
           /\ new.coupon = CoalesceCoupon(old.coupon, r.coupon)
           /\ new.issuer = Coalesce(old.issuer, r.issuer)
           /\ new.interest = Coalesce(old.interest, r.interest)
<1>1. /\ Coalesce(old.issuer, r.issuer) \in Issuers
      /\ CoalesceCoupon(old.coupon, r.coupon) \in Int
      /\ Coalesce(old.interest, r.interest) \in Interests
  BY CanonicalInterests DEF Coalesce, CoalesceCoupon, RecordType, RowType
<1>2. CASE FillsGap(old, r)
  <2> DEFINE c == CoalesceCoupon(old.coupon, r.coupon)
             i == Coalesce(old.issuer, r.issuer)
             t == Coalesce(old.interest, r.interest)
  <2>1. Enriched(old, r) = [old EXCEPT !.coupon = c, !.issuer = i, !.interest = t]
    BY <1>2 DEF Enriched
  <2> HIDE DEF c, i, t
  <2>2. /\ Enriched(old, r) \in RowType /\ Enriched(old, r).type = old.type
        /\ Enriched(old, r).source = old.source /\ Enriched(old, r).description = old.description
        /\ Enriched(old, r).first = old.first /\ Enriched(old, r).last = old.last
        /\ Enriched(old, r).coupon = c /\ Enriched(old, r).issuer = i /\ Enriched(old, r).interest = t
    BY <1>1, <2>1 DEF RowType, c, i, t
  <2>3. QED
    BY <2>2 DEF c, i, t
<1>3. CASE ~FillsGap(old, r)
  <2>1. Enriched(old, r) = old
    BY <1>3 DEF Enriched
  <2>2. /\ old.coupon = CoalesceCoupon(old.coupon, r.coupon)
        /\ old.issuer = Coalesce(old.issuer, r.issuer)
        /\ old.interest = Coalesce(old.interest, r.interest)
    BY <1>3 DEF FillsGap, Coalesce, CoalesceCoupon
  <2>3. QED
    BY <2>1, <2>2
<1>4. QED
  BY <1>2, <1>3

(***************************************************************************)
(* The steps.                                                              *)
(***************************************************************************)

(* A row written from what a source says today fits its paper, and is      *)
(* sound if the row before was.                                            *)
LEMMA CoalescedFits ==
    ASSUME paper \in Papers, NEW r \in RecordType, Sound(r), NEW old \in RowType, Fits(old),
           NEW new \in RowType, new.type = r.type,
           new.description = Coalesce(r.description, old.description),
           new.issuer = Coalesce(r.issuer, old.issuer),
           new.interest = Coalesce(r.interest, old.interest)
    PROVE  Fits(new) /\ (Sound(old) => Sound(new))
<1>1. Sound(old) => new.interest \in CanonicalTypes
  BY DEF Sound, Coalesce
<1>2. CASE paper = "corporate"
  BY <1>1, <1>2 DEF Fits, Sound
<1>3. CASE paper = "tbill"
  BY <1>1, <1>3 DEF Fits, Sound
<1>4. CASE paper = "state"
  BY <1>1, <1>4 DEF Fits, Sound, Coalesce, SdlIssuers, StateIssuers, Null
<1>5. QED
  BY <1>2, <1>3, <1>4 DEF Papers

(* A row inserted from a sound record fits its paper and is sound.         *)
LEMMA RecordFits ==
    ASSUME paper \in Papers, NEW r \in RecordType, Sound(r), NEW d \in Days
    PROVE  Fits(SecurityRow(r, d)) /\ Sound(SecurityRow(r, d))
<1> DEFINE new == SecurityRow(r, d)
<1>1. /\ new.type = r.type /\ new.description = r.description /\ new.issuer = r.issuer
      /\ new.interest = r.interest
  BY InsertedFacts
<1> HIDE DEF new
<1>2. Sound(new)
  BY <1>1 DEF Sound
<1>3. Fits(new)
  BY <1>2 DEF Sound, Fits, Papers, SdlIssuers, StateIssuers, Null
<1>4. QED
  BY <1>2, <1>3 DEF new

(* An upsert keeps the row's part of the invariant.                        *)
LEMMA UpsertKeeps ==
    ASSUME IInv, NEW batch, Last(batch) \in RecordType, Sound(Last(batch)), NEW d \in Days
    PROVE  LET new == Upserted(batch, d) IN
           /\ new # NoRow /\ new \in RowType /\ Fits(new) /\ (repaired => Sound(new))
           /\ new.first = Min(seen \cup {d}) /\ new.last = Max(seen \cup {d})
<1> DEFINE new == Upserted(batch, d)
           r == Last(batch)
<1>1. /\ new \in RowType /\ new.type = r.type
      /\ row = NoRow => new = SecurityRow(r, d)
      /\ row # NoRow =>
            /\ new.description = Coalesce(r.description, row.description)
            /\ new.issuer = Coalesce(r.issuer, row.issuer)
            /\ new.interest = Coalesce(r.interest, row.interest)
            /\ new.first = Min({row.first, d}) /\ new.last = Max({row.last, d})
  BY UpsertedFacts
<1>2. paper \in Papers /\ r \in RecordType /\ Sound(r)
  BY DEF IInv
<1> HIDE DEF new, r
<1>3. CASE row = NoRow
  <2>1. Fits(new) /\ Sound(new)
    BY <1>1, <1>2, <1>3, RecordFits
  <2>2. seen \cup {d} = {d}
    BY <1>3 DEF IInv
  <2>3. new.first = d /\ new.last = d
    BY <1>1, <1>2, <1>3, InsertedFacts
  <2>4. QED
    BY <1>1, <2>1, <2>2, <2>3, OneDate, RowApart DEF new
<1>4. CASE row # NoRow
  <2>1. /\ row \in RowType /\ Fits(row) /\ (repaired => Sound(row)) /\ seen \subseteq Days
        /\ seen # {} /\ row.first = Min(seen) /\ row.last = Max(seen)
    BY <1>4 DEF IInv
  <2>2. Fits(new) /\ (Sound(row) => Sound(new))
    BY <1>1, <1>2, <1>4, <2>1, CoalescedFits
  <2>3. new.first = Min(seen \cup {d}) /\ new.last = Max(seen \cup {d})
    BY <1>1, <1>4, <2>1, WidenedBounds
  <2>4. QED
    BY <1>1, <2>1, <2>2, <2>3, RowApart DEF new
<1>5. QED
  BY <1>3, <1>4

(* An enrichment keeps it: it runs for corporate paper alone.              *)
LEMMA EnrichKeeps ==
    ASSUME paper = "corporate", NEW old \in RowType, Fits(old), NEW r \in RecordType
    PROVE  LET new == Enriched(old, r) IN
           /\ new # NoRow /\ new \in RowType /\ Fits(new) /\ (Sound(old) => Sound(new))
           /\ new.first = old.first /\ new.last = old.last
<1> DEFINE new == Enriched(old, r)
<1>1. /\ new \in RowType /\ new.type = old.type /\ new.first = old.first /\ new.last = old.last
      /\ new.interest = Coalesce(old.interest, r.interest)
  BY EnrichedFacts
<1>2. r.interest \in CanonicalTypes
  BY DEF RecordType
<1> HIDE DEF new
<1>3. Fits(new) /\ (Sound(old) => Sound(new))
  BY <1>1, <1>2 DEF Fits, Sound, Coalesce
<1>4. QED
  BY <1>1, <1>3, RowApart DEF new

(* The repairs: whatever the code before them left becomes sound.          *)
LEMMA RepairedInterestFacts ==
    ASSUME paper \in Papers, NEW old \in RowType, Fits(old)
    PROVE  LET new == RepairedInterest(old) IN
           /\ new \in RowType /\ Fits(new) /\ new.interest \in CanonicalTypes
           /\ paper = "tbill" => new.type = "TBILL"
           /\ new.source = old.source /\ new.first = old.first /\ new.last = old.last
<1> DEFINE canonical == [old EXCEPT !.interest = Canonical(old.interest)]
           new == RepairedInterest(old)
<1>1. /\ canonical \in RowType /\ canonical.interest \in CanonicalTypes
      /\ canonical.type = old.type /\ canonical.source = old.source
      /\ canonical.description = old.description /\ canonical.issuer = old.issuer
      /\ canonical.first = old.first /\ canonical.last = old.last
  BY CanonicalType, CanonicalInterests DEF RowType
<1>2. Fits(canonical)
  BY <1>1 DEF Fits
<1>3. new = IF canonical.source = "ccil" /\ canonical.type = "GSEC" /\ canonical.description = "DTB"
            THEN [canonical EXCEPT !.type = "TBILL", !.interest = "ZERO", !.coupon = 0]
            ELSE canonical
  BY DEF RepairedInterest
<1> HIDE DEF canonical, new
<1>4. CASE canonical.source = "ccil" /\ canonical.type = "GSEC" /\ canonical.description = "DTB"
  <2>1. "TBILL" \in Types /\ "ZERO" \in CanonicalTypes /\ "ZERO" \in Interests
    BY DEF Types, CanonicalTypes, Interests
  <2>2. /\ new \in RowType /\ new.interest = "ZERO" /\ new.type = "TBILL"
        /\ new.source = old.source /\ new.first = old.first /\ new.last = old.last
    <3>1. PICK t \in Types, i \in Interests, c \in Int : t = "TBILL" /\ i = "ZERO" /\ c = 0
      BY <2>1
    <3>2. new = [canonical EXCEPT !.type = t, !.interest = i, !.coupon = c]
      BY <1>3, <1>4, <3>1
    <3>3. /\ new \in RowType /\ new.interest = i /\ new.type = t
          /\ new.source = canonical.source
          /\ new.first = canonical.first /\ new.last = canonical.last
      BY <1>1, <3>2 DEF RowType
    <3>4. QED
      BY <1>1, <3>1, <3>3
  <2>3. paper = "tbill"
    BY <1>2, <1>4 DEF Fits, Papers
  <2>4. QED
    BY <2>1, <2>2, <2>3 DEF Fits, new
<1>5. CASE ~(canonical.source = "ccil" /\ canonical.type = "GSEC" /\ canonical.description = "DTB")
  <2>1. new = canonical
    BY <1>3, <1>5
  <2>2. paper = "tbill" => new.type = "TBILL"
    BY <1>2, <1>5, <2>1 DEF Fits
  <2>3. QED
    BY <1>1, <1>2, <2>1, <2>2 DEF new
<1>6. QED
  BY <1>4, <1>5

(* After the second repair a row is sound.                                 *)
LEMMA RepairedIssuerFacts ==
    ASSUME paper \in Papers, NEW old \in RowType, Fits(old), old.interest \in CanonicalTypes,
           paper = "tbill" => old.type = "TBILL"
    PROVE  LET new == RepairedIssuer(old) IN
           /\ new \in RowType /\ Fits(new) /\ Sound(new)
           /\ new.source = old.source /\ new.first = old.first /\ new.last = old.last
<1> DEFINE spelled == IF old.type = "SDL" /\ old.issuer = "StateCode"
                      THEN [old EXCEPT !.issuer = "State"] ELSE old
           located == IF old.type \in Central /\ paper = "state" /\ old.description = "coded"
                      THEN [spelled EXCEPT !.issuer = "State"] ELSE spelled
           retyped == IF old.type \in Central /\ paper = "state"
                      THEN [located EXCEPT !.type = "SDL"] ELSE located
           new == RepairedIssuer(old)
<1>1. "State" \in Issuers /\ Null \in Issuers /\ "SDL" \in Types
  BY DEF Issuers, Types
<1>2. /\ spelled \in RowType /\ spelled.type = old.type /\ spelled.interest = old.interest
      /\ spelled.description = old.description /\ spelled.source = old.source
      /\ spelled.first = old.first /\ spelled.last = old.last
      /\ spelled.issuer = IF old.type = "SDL" /\ old.issuer = "StateCode" THEN "State" ELSE old.issuer
  BY <1>1 DEF RowType
<1> HIDE DEF spelled
<1>3. /\ located \in RowType /\ located.type = old.type /\ located.interest = old.interest
      /\ located.description = old.description /\ located.source = old.source
      /\ located.first = old.first /\ located.last = old.last
      /\ located.issuer \in {"State", spelled.issuer}
  BY <1>1, <1>2 DEF RowType
<1> HIDE DEF located
<1>4. /\ retyped \in RowType /\ retyped.interest = old.interest
      /\ retyped.type = IF old.type \in Central /\ paper = "state" THEN "SDL" ELSE old.type
      /\ retyped.description = old.description /\ retyped.source = old.source
      /\ retyped.first = old.first /\ retyped.last = old.last
      /\ retyped.issuer = located.issuer
  BY <1>1, <1>3 DEF RowType
<1>5. new = IF retyped.type = "SDL" /\ retyped.issuer = "India" THEN [retyped EXCEPT !.issuer = Null]
            ELSE retyped
  BY DEF RepairedIssuer, retyped, located, spelled
<1> HIDE DEF retyped, new
<1>6. /\ new \in RowType /\ new.interest = old.interest /\ new.type = retyped.type
      /\ new.description = old.description /\ new.source = old.source
      /\ new.first = old.first /\ new.last = old.last
      /\ new.issuer = IF retyped.type = "SDL" /\ retyped.issuer = "India" THEN Null ELSE retyped.issuer
  BY <1>1, <1>4, <1>5 DEF RowType
<1>7. CASE paper = "state"
  <2>1. /\ old.type \in {"GSEC", "SDL"} /\ old.description # "DTB" /\ old.issuer \in StateIssuers
        /\ old.type = "GSEC" => old.issuer = "India"
    BY <1>7 DEF Fits
  <2>2. new.type = "SDL"
    BY <1>4, <1>6, <1>7, <2>1 DEF Central
  <2>3. spelled.issuer \in {"State", "India", Null}
    BY <1>2, <2>1 DEF StateIssuers, Null
  <2>4. new.issuer \in {"State", Null}
    BY <1>3, <1>4, <1>6, <2>2, <2>3
  <2>5. QED
    BY <1>6, <1>7, <2>1, <2>2, <2>4 DEF Fits, Sound, SdlIssuers, StateIssuers, new
<1>8. CASE paper # "state"
  <2>1. new.type = old.type
    BY <1>4, <1>6, <1>8
  <2>2. Fits(new) /\ Sound(new)
    BY <1>6, <1>8, <2>1 DEF Fits, Sound, Papers
  <2>3. QED
    BY <1>6, <2>2 DEF new
<1>9. QED
  BY <1>7, <1>8

(* Whatever row the code before the repairs left satisfies the invariant.  *)
LEMMA InitIInv == Init => IInv
<1> SUFFICES ASSUME Init PROVE IInv
  OBVIOUS
<1>1. ASSUME row # NoRow
      PROVE  row \in RowType /\ Fits(row) /\ row.first \in Days /\ row.last = row.first
  <2> DEFINE day == CHOOSE d \in Days : TRUE
             Old(type, source, description, issuer, coupon, interest) ==
               [type |-> type, source |-> source, description |-> description, issuer |-> issuer,
                coupon |-> coupon, interest |-> interest, first |-> day, last |-> day]
  <2>1. day \in Days
    BY MasterAssumption
  <2> HIDE DEF day
  <2>2. NoCoupon \in Int
    BY DEF NoCoupon
  <2>3. CASE paper = "corporate"
    <3>1. PICK k \in Spellings \cup {Null, ""} :
             row = Old("CORP", "bondcentral", "junk", "Company", NoCoupon, k)
      <4>1. Legacy = {Old("CORP", "bondcentral", "junk", "Company", NoCoupon, k) : k \in Spellings \cup {Null, ""}}
        BY <2>3 DEF Legacy, day
      <4>2. row \in Legacy
        BY <1>1 DEF Init
      <4>3. QED
        BY <4>1, <4>2
    <3>2. k \in Interests
      BY <3>1 DEF Interests, CanonicalTypes
    <3>3. /\ "CORP" \in Types /\ "bondcentral" \in Sources /\ "junk" \in Descriptions
          /\ "Company" \in Issuers /\ NoCoupon \in Int
      <4>1. "CORP" \in Types /\ "bondcentral" \in Sources
        BY Zenon DEF Types, Sources
      <4>2. "junk" \in Descriptions /\ "Company" \in Issuers
        BY Zenon DEF Descriptions, Issuers
      <4>3. QED
        BY <2>2, <4>1, <4>2
    <3>4. row \in RowType
      BY <2>1, <3>1, <3>2, <3>3 DEF RowType
    <3>5. QED
      BY <2>1, <2>3, <3>1, <3>4 DEF Fits
  <2>4. CASE paper = "state"
    <3>1. PICK d \in Descriptions \ {"DTB"},
               k \in {<<"GSEC", "India">>, <<"SDL", "StateCode">>, <<"SDL", "State">>, <<"SDL", "India">>, <<"SDL", Null>>} :
             row = Old(k[1], "fbil", d, k[2], 7000, "Fixed")
      BY <1>1, <2>4 DEF Init, Legacy, day
    <3>2. /\ k[1] \in {"GSEC", "SDL"} /\ k[2] \in StateIssuers
          /\ k[1] = "GSEC" => k[2] = "India"
      BY <3>1 DEF StateIssuers
    <3>3. row \in RowType
      BY <2>1, <3>1, <3>2 DEF RowType, Types, Sources, StateIssuers, Issuers, Interests
    <3>4. QED
      BY <2>1, <2>4, <3>1, <3>2, <3>3 DEF Fits
  <2>5. CASE paper = "tbill"
    <3>1. row = Old("GSEC", "ccil", "DTB", "India", NoCoupon, "FIXED")
      BY <1>1, <2>5 DEF Init, Legacy, day
    <3>2. row \in RowType
      BY <2>1, <3>1 DEF RowType, Types, Sources, Descriptions, Issuers, Interests, CanonicalTypes, NoCoupon
    <3>3. QED
      BY <2>1, <2>5, <3>1, <3>2 DEF Fits
  <2>6. QED
    BY <2>3, <2>4, <2>5 DEF Init, Papers
<1>2. row # NoRow => seen = {row.first} /\ row.first = Min(seen) /\ row.last = Max(seen)
  BY <1>1, OneDate DEF Init
<1>3. QED
  BY <1>1, <1>2 DEF Init, IInv

(* What a step that writes the row has to establish.                       *)
LEMMA WrittenRow ==
    ASSUME IInv, UNCHANGED <<paper, repaired>>,
           row' # NoRow, row' \in RowType, Fits(row'), repaired => Sound(row'),
           seen' \subseteq Days, seen' # {}, row'.first = Min(seen'), row'.last = Max(seen'),
           asked' \in BOOLEAN, asked' => asked, fetched' # NoRecord => asked' /\ fetched' \in RecordType
    PROVE  IInv'
<1>1. Fits(row)' /\ (repaired' => Sound(row)')
  BY DEF Fits, Sound
<1>2. QED
  BY <1>1 DEF IInv

(* An upsert of a sound record keeps the invariant.                        *)
LEMMA UpsertStep ==
    ASSUME IInv, NEW batch, Last(batch) \in RecordType, Sound(Last(batch)), NEW d \in Days,
           row' = Upserted(batch, d), seen' = seen \cup {d},
           UNCHANGED <<paper, repaired, asked, fetched>>
    PROVE  IInv'
<1>1. /\ row' # NoRow /\ row' \in RowType /\ Fits(row') /\ (repaired => Sound(row'))
      /\ row'.first = Min(seen') /\ row'.last = Max(seen')
  BY UpsertKeeps
<1>2. seen' \subseteq Days /\ seen' # {} /\ asked' \in BOOLEAN /\ (fetched' # NoRecord => asked' /\ fetched' \in RecordType)
  BY DEF IInv
<1>3. QED
  BY <1>1, <1>2, WrittenRow

(* So does a snapshot of the universe, from either source.                 *)
LEMMA UniverseStep ==
    ASSUME IInv, NEW said, Universe(said),
           \A r \in said : r \in RecordType /\ r.type = "CORP" /\ r.interest \in CanonicalTypes
    PROVE  IInv'
<1>1. PICK batch \in Batches(said), as_of \in Days :
         row' = Upserted(batch, as_of) /\ seen' = seen \cup {as_of}
  BY DEF Universe
<1>2. Last(batch) \in RecordType /\ Sound(Last(batch))
  BY BatchLast DEF Sound, Universe
<1>3. QED
  BY <1>1, <1>2, UpsertStep DEF Universe

(* A record inserted where the row is missing.                             *)
LEMMA InsertStep ==
    ASSUME IInv, NEW r \in RecordType, Sound(r), NEW d \in Days, SeenIfMissing(d)
    PROVE  LET new == InsertedIfMissing(r, d) IN
           /\ new # NoRow /\ new \in RowType /\ Fits(new) /\ (repaired => Sound(new))
           /\ seen' \subseteq Days /\ seen' # {} /\ new.first = Min(seen') /\ new.last = Max(seen')
<1>1. CASE row = NoRow
  <2> DEFINE new == SecurityRow(r, d)
  <2>1. new \in RowType /\ Fits(new) /\ Sound(new) /\ new.first = d /\ new.last = d
    BY RecordFits, InsertedFacts DEF IInv
  <2> HIDE DEF new
  <2>2. seen' = {d} /\ InsertedIfMissing(r, d) = new
    BY <1>1 DEF SeenIfMissing, InsertedIfMissing, new
  <2>3. QED
    BY <2>1, <2>2, OneDate, RowApart
<1>2. CASE row # NoRow
  BY <1>2 DEF IInv, SeenIfMissing, InsertedIfMissing
<1>3. QED
  BY <1>1, <1>2

(* NSE's bond report keeps the invariant.                                  *)
LEMMA BondReportStep == ASSUME IInv, BondReport PROVE IInv'
<1>1. PICK r \in SaidByReport, date \in Days :
         row' = Enriched(InsertedIfMissing(r, date), r) /\ SeenIfMissing(date)
  BY DEF BondReport
<1>2. paper = "corporate" /\ UNCHANGED <<paper, mismatch, repaired, asked, fetched>>
  BY DEF BondReport
<1>3. r \in RecordType /\ Sound(r)
  BY <1>2, ReportSays DEF Sound
<1> DEFINE inserted == InsertedIfMissing(r, date)
<1>4. /\ inserted \in RowType /\ Fits(inserted) /\ (repaired => Sound(inserted))
      /\ seen' \subseteq Days /\ seen' # {} /\ inserted.first = Min(seen') /\ inserted.last = Max(seen')
  BY <1>1, <1>3, InsertStep
<1> HIDE DEF inserted
<1>5. /\ row' # NoRow /\ row' \in RowType /\ Fits(row') /\ (Sound(inserted) => Sound(row'))
      /\ row'.first = inserted.first /\ row'.last = inserted.last
  BY <1>1, <1>2, <1>3, <1>4, EnrichKeeps DEF inserted
<1>6. asked' \in BOOLEAN /\ (fetched' # NoRecord => asked' /\ fetched' \in RecordType)
  BY <1>2 DEF IInv
<1>7. QED
  BY <1>2, <1>4, <1>5, <1>6, WrittenRow

(* FBIL's valuations keep the invariant.                                   *)
LEMMA FbilStep == ASSUME IInv, FbilValuations PROVE IInv'
<1>1. PICK r \in SaidByFbil, date \in Days : row' = Upserted(<<r>>, date) /\ seen' = seen \cup {date}
  BY DEF FbilValuations
<1>2. paper \in {"state", "tbill"} /\ UNCHANGED <<paper, mismatch, repaired, asked, fetched>>
  BY DEF FbilValuations, IInv, Papers
<1>3. r \in RecordType /\ Sound(r)
  BY <1>2, FbilSays
<1>4. Last(<<r>>) = r
  BY DEF Last
<1>5. QED
  BY <1>1, <1>2, <1>3, <1>4, UpsertStep

(* CCIL's trades keep the invariant.                                       *)
LEMMA CcilStep == ASSUME IInv, CcilTrades PROVE IInv'
<1>1. PICK r \in SaidByCcil, as_of \in Days : row' = InsertedIfMissing(r, as_of) /\ SeenIfMissing(as_of)
  BY DEF CcilTrades
<1>2. paper \in {"state", "tbill"} /\ UNCHANGED <<paper, mismatch, repaired, asked, fetched>>
  BY DEF CcilTrades, IInv, Papers
<1>3. r \in RecordType /\ Sound(r)
  BY <1>2, CcilSays
<1>4. /\ row' # NoRow /\ row' \in RowType /\ Fits(row') /\ (repaired => Sound(row'))
      /\ seen' \subseteq Days /\ seen' # {} /\ row'.first = Min(seen') /\ row'.last = Max(seen')
  BY <1>1, <1>3, InsertStep
<1>5. asked' \in BOOLEAN /\ (fetched' # NoRecord => asked' /\ fetched' \in RecordType)
  BY <1>2 DEF IInv
<1>6. QED
  BY <1>2, <1>4, <1>5, WrittenRow

(* Only corporate paper has gaps the enrichment asks for.                  *)
LEMMA ReadGapsStep == ASSUME IInv, ReadGaps PROVE IInv'
<1>1. row # NoRow /\ row.type = "CORP" /\ UNCHANGED <<paper, row, seen, mismatch, repaired, fetched>>
      /\ asked' = TRUE
  BY DEF ReadGaps, IsGap
<1>2. paper = "corporate"
  BY <1>1 DEF IInv, Fits, Papers
<1>3. (row # NoRow => Fits(row)' /\ (repaired => Sound(row)'))
  BY <1>1 DEF IInv, Fits, Sound
<1>4. QED
  BY <1>1, <1>2, <1>3 DEF IInv

(* What the enrichment fetches is a record.                                *)
LEMMA FetchStep == ASSUME IInv, FetchSucceeds PROVE IInv'
<1>1. asked /\ UNCHANGED <<paper, row, seen, mismatch, repaired, asked>>
  BY DEF FetchSucceeds
<1>2. PICK reply \in ReferenceReplies : fetched' = FetchReference(reply)
  BY DEF FetchSucceeds
<1>3. fetched' # NoRecord => fetched' \in RecordType
  <2>1. CASE reply.isin = "own"
    <3>1. PICK r \in SaidByBondCentral : reply = [isin |-> "own", record |-> r]
      BY <2>1 DEF ReferenceReplies
    <3>2. QED
      BY <1>2, <3>1, BondCentralSays DEF FetchReference
  <2>2. CASE reply.isin # "own"
    BY <1>2, <2>2 DEF FetchReference
  <2>3. QED
    BY <2>1, <2>2
<1>4. row # NoRow => Fits(row)' /\ (repaired => Sound(row)')
  BY <1>1 DEF IInv, Fits, Sound
<1>5. QED
  BY <1>1, <1>3, <1>4 DEF IInv

(* The enrichment's write keeps the invariant, whatever came between.      *)
LEMMA WriteEnrichmentStep == ASSUME IInv, WriteEnrichment PROVE IInv'
<1>1. /\ asked /\ paper = "corporate" /\ row # NoRow /\ row \in RowType /\ Fits(row)
      /\ (repaired => Sound(row)) /\ seen \subseteq Days /\ seen # {}
      /\ row.first = Min(seen) /\ row.last = Max(seen)
      /\ fetched # NoRecord => fetched \in RecordType
  BY DEF WriteEnrichment, IInv
<1>2. /\ row' = IF fetched = NoRecord THEN row ELSE Enriched(row, fetched)
      /\ asked' = FALSE /\ fetched' = NoRecord /\ UNCHANGED <<paper, seen, repaired>>
  BY DEF WriteEnrichment
<1>3. /\ row' # NoRow /\ row' \in RowType /\ Fits(row') /\ (repaired => Sound(row'))
      /\ row'.first = row.first /\ row'.last = row.last
  <2>1. CASE fetched = NoRecord
    BY <1>1, <1>2, <2>1
  <2>2. CASE fetched # NoRecord
    BY <1>1, <1>2, <2>2, EnrichKeeps
  <2>3. QED
    BY <2>1, <2>2
<1>4. QED
  BY <1>1, <1>2, <1>3, WrittenRow

(* Both repairs, one after the other, make a row sound.                    *)
LEMMA UpgradedRow ==
    ASSUME IInv, row # NoRow, NEW new, new = RepairedIssuer(RepairedInterest(row))
    PROVE  /\ new # NoRow /\ new \in RowType /\ Fits(new) /\ Sound(new)
           /\ new.source = row.source /\ new.first = row.first /\ new.last = row.last
<1> DEFINE step == RepairedInterest(row)
<1>1. paper \in Papers /\ row \in RowType /\ Fits(row)
  BY DEF IInv
<1>2. /\ step \in RowType /\ Fits(step) /\ step.interest \in CanonicalTypes
      /\ paper = "tbill" => step.type = "TBILL"
      /\ step.source = row.source /\ step.first = row.first /\ step.last = row.last
  BY <1>1, RepairedInterestFacts
<1>3. new = RepairedIssuer(step)
  OBVIOUS
<1> HIDE DEF step
<1>4. /\ new \in RowType /\ Fits(new) /\ Sound(new)
      /\ new.source = step.source /\ new.first = step.first /\ new.last = step.last
  BY <1>1, <1>2, <1>3, RepairedIssuerFacts
<1>5. QED
  BY <1>2, <1>4, RowApart

(* An upgrade keeps the invariant.                                         *)
LEMMA UpgradeStep == ASSUME IInv, Upgrade PROVE IInv'
<1>1. /\ repaired' = TRUE /\ UNCHANGED <<paper, seen, asked, fetched>>
      /\ row' = IF row = NoRow THEN row ELSE RepairedIssuer(RepairedInterest(row))
  BY DEF Upgrade
<1>2. CASE row = NoRow
  BY <1>1, <1>2 DEF IInv
<1>3. CASE row # NoRow
  <2>1. /\ row' # NoRow /\ row' \in RowType /\ Fits(row') /\ Sound(row')
        /\ row'.first = row.first /\ row'.last = row.last
    BY <1>1, <1>3, UpgradedRow
  <2>2. Fits(row)' /\ Sound(row)'
    BY <1>1, <2>1 DEF Fits, Sound
  <2>3. QED
    BY <1>1, <1>3, <2>1, <2>2 DEF IInv
<1>4. QED
  BY <1>2, <1>3

(* Each step keeps the invariant.                                          *)
LEMMA StepIInv == IInv /\ [Next]_vars => IInv'
<1> SUFFICES ASSUME IInv, [Next]_vars PROVE IInv'
  OBVIOUS
<1>1. CASE BondCentralNight
  BY <1>1, BondCentralSays, UniverseStep DEF BondCentralNight
<1>2. CASE CdslSnapshot
  BY <1>2, CdslSays, UniverseStep DEF CdslSnapshot
<1>3. CASE BondReport
  BY <1>3, BondReportStep
<1>4. CASE FbilValuations
  BY <1>4, FbilStep
<1>5. CASE CcilTrades
  BY <1>5, CcilStep
<1>6. CASE ReadGaps
  BY <1>6, ReadGapsStep
<1>7. CASE FetchSucceeds
  BY <1>7, FetchStep
<1>8. CASE WriteEnrichment
  BY <1>8, WriteEnrichmentStep
<1>9. CASE Upgrade
  BY <1>9, UpgradeStep
<1>10. CASE UNCHANGED vars
  BY <1>10 DEF vars, IInv, Fits, Sound
<1>11. QED
  BY <1>1, <1>2, <1>3, <1>4, <1>5, <1>6, <1>7, <1>8, <1>9, <1>10 DEF Next

(* The row fits the paper it is of, is sound once repaired, and bears the  *)
(* bounds of the dates it was seen under; only corporate paper is ever     *)
(* enriched.                                                               *)
THEOREM MasterInvariant == Spec => []IInv
<1>1. Init => IInv
  BY InitIInv
<1>2. IInv /\ [Next]_vars => IInv'
  BY StepIInv
<1>3. QED
  BY <1>1, <1>2, PTL DEF Spec

(* The stored window of observation is the tightest around the dates the   *)
(* security was seen under, whatever order batches and backfills come in.  *)
THEOREM WindowTight == Spec => []SeenWindowTight
<1>1. IInv => SeenWindowTight
  BY DEF IInv, SeenWindowTight
<1>2. QED
  BY <1>1, MasterInvariant, PTL

(* No night brings back what the migrations repaired: an upsert keeps only *)
(* what was sound, and every source says what is.                          *)
THEOREM RepairsHold == Spec => []RepairHolds
<1>1. IInv => RepairHolds
  BY DEF IInv, Sound, RepairHolds
<1>2. QED
  BY <1>1, MasterInvariant, PTL

(***************************************************************************)
(* What no step does.                                                      *)
(***************************************************************************)
Kept(old, new) ==
    /\ new # NoRow
    /\ old.coupon # NoCoupon => new.coupon # NoCoupon
    /\ old.issuer # Null => new.issuer # Null
    /\ old.interest # Null => new.interest # Null
    /\ old.description # Null => new.description # Null

(* An upsert keeps what it does not replace.                               *)
LEMMA UpsertKept ==
    ASSUME IInv, row # NoRow, NEW batch, Last(batch) \in RecordType, NEW d \in Days
    PROVE  Kept(row, Upserted(batch, d))
<1> DEFINE new == Upserted(batch, d)
           r == Last(batch)
<1>1. /\ new \in RowType
      /\ new.description = Coalesce(r.description, row.description)
      /\ new.issuer = Coalesce(r.issuer, row.issuer)
      /\ new.coupon = CoalesceCoupon(r.coupon, row.coupon)
      /\ new.interest = Coalesce(r.interest, row.interest)
  BY UpsertedFacts
<1> HIDE DEF new
<1>2. Kept(row, new)
  BY <1>1, RowApart DEF Kept, Coalesce, CoalesceCoupon
<1>3. QED
  BY <1>2 DEF new

(* An enrichment keeps what the row knows.                                 *)
LEMMA EnrichKept ==
    ASSUME NEW old \in RowType, NEW r \in RecordType
    PROVE  Kept(old, Enriched(old, r)) /\ Enriched(old, r).source = old.source
<1> DEFINE new == Enriched(old, r)
<1>1. /\ new \in RowType /\ new.description = old.description /\ new.source = old.source
      /\ new.issuer = Coalesce(old.issuer, r.issuer)
      /\ new.coupon = CoalesceCoupon(old.coupon, r.coupon)
      /\ new.interest = Coalesce(old.interest, r.interest)
  BY EnrichedFacts
<1> HIDE DEF new
<1>2. Kept(old, new)
  BY <1>1, RowApart DEF Kept, Coalesce, CoalesceCoupon
<1>3. QED
  BY <1>1, <1>2 DEF new

(* A snapshot upserts the last record of its batch, and has reconciled all *)
(* of it.                                                                  *)
LEMMA UniverseBatch ==
    ASSUME NEW said, Universe(said), \A r \in said : r \in RecordType
    PROVE  \E batch \in Batches(said), as_of \in Days :
              /\ Last(batch) \in said /\ Last(batch) \in RecordType
              /\ \E i \in DOMAIN batch : batch[i] = Last(batch)
              /\ row' = Upserted(batch, as_of) /\ mismatch' = Reconcile(row, batch)
<1>1. PICK batch \in Batches(said), as_of \in Days :
         row' = Upserted(batch, as_of) /\ mismatch' = Reconcile(row, batch)
  BY DEF Universe
<1>2. Last(batch) \in said /\ \E i \in DOMAIN batch : batch[i] = Last(batch)
  BY BatchLast
<1>3. QED
  BY <1>1, <1>2

(* Every step keeps what the row knows, the repairs apart, which decide it.*)
LEMMA StepKeeps ==
    ASSUME IInv, [Next]_vars, row # NoRow, repaired' = repaired
    PROVE  Kept(row, row')
<1>1. row \in RowType /\ paper \in Papers
  BY DEF IInv
<1>2. ASSUME NEW said, Universe(said), \A r \in said : r \in RecordType
      PROVE  Kept(row, row')
  BY <1>2, UniverseBatch, UpsertKept
<1>3. CASE BondCentralNight
  BY <1>2, <1>3, BondCentralSays DEF BondCentralNight
<1>4. CASE CdslSnapshot
  BY <1>2, <1>4, CdslSays DEF CdslSnapshot
<1>5. CASE BondReport
  <2>1. PICK r \in SaidByReport, date \in Days : row' = Enriched(InsertedIfMissing(r, date), r)
    BY <1>5 DEF BondReport
  <2>2. row' = Enriched(row, r) /\ r \in RecordType
    BY <2>1, ReportSays DEF InsertedIfMissing
  <2>3. QED
    BY <1>1, <2>2, EnrichKept
<1>6. CASE FbilValuations
  <2>1. PICK r \in SaidByFbil, date \in Days : row' = Upserted(<<r>>, date)
    BY <1>6 DEF FbilValuations
  <2>2. Last(<<r>>) \in RecordType
    <3>1. Last(<<r>>) = r
      BY DEF Last
    <3>2. r \in RecordType
      BY <1>1, <1>6, FbilSays DEF FbilValuations, Papers
    <3>3. QED
      BY <3>1, <3>2
  <2>3. QED
    BY <2>1, <2>2, UpsertKept
<1>7. CASE CcilTrades
  <2>1. row' = row
    BY <1>7 DEF CcilTrades, InsertedIfMissing
  <2>2. QED
    BY <2>1 DEF Kept
<1>8. CASE WriteEnrichment
  <2>1. CASE fetched = NoRecord
    <3>1. row' = row
      BY <1>8, <2>1 DEF WriteEnrichment
    <3>2. QED
      BY <3>1 DEF Kept
  <2>2. CASE fetched # NoRecord
    <3>1. row' = Enriched(row, fetched) /\ fetched \in RecordType
      BY <1>8, <2>2 DEF WriteEnrichment, IInv
    <3>2. QED
      BY <1>1, <3>1, EnrichKept
  <2>3. QED
    BY <2>1, <2>2
<1>9. CASE UNCHANGED row
  BY <1>9 DEF Kept
<1>10. ~Upgrade
  BY DEF Upgrade
<1>11. QED
  BY <1>3, <1>4, <1>5, <1>6, <1>7, <1>8, <1>9, <1>10 DEF Next, ReadGaps, FetchSucceeds, vars

(* No run of a pipeline turns a known coupon, issuer, interest type or     *)
(* description into NULL, and no row leaves the table.                     *)
THEOREM ReferenceKept == Spec => ReferenceNeverLost
<1>1. IInv /\ [Next]_vars =>
        [row = NoRow \/ repaired # repaired' \/
          /\ row' # NoRow
          /\ row.coupon # NoCoupon => row'.coupon # NoCoupon
          /\ \A f \in {"issuer", "interest", "description"} : row[f] # Null => row'[f] # Null]_vars
  <2> SUFFICES ASSUME IInv, [Next]_vars, row # NoRow, repaired = repaired'
               PROVE  /\ row' # NoRow
                      /\ row.coupon # NoCoupon => row'.coupon # NoCoupon
                      /\ \A f \in {"issuer", "interest", "description"} : row[f] # Null => row'[f] # Null
    OBVIOUS
  <2>1. Kept(row, row')
    BY StepKeeps
  <2>2. QED
    BY <2>1 DEF Kept
<1>2. QED
  BY <1>1, MasterInvariant, PTL DEF Spec, ReferenceNeverLost

(* A universe batch that replaces the coupon disagrees with the row in the *)
(* record that replaces it.                                                *)
LEMMA UniverseReports ==
    ASSUME IInv, row # NoRow, NEW said, Universe(said), \A r \in said : r \in RecordType,
           row.source # row'.source, row.coupon # NoCoupon,
           row'.coupon - row.coupon > Tolerance \/ row.coupon - row'.coupon > Tolerance
    PROVE  mismatch'
<1>1. PICK batch \in Batches(said), as_of \in Days :
         /\ Last(batch) \in said /\ Last(batch) \in RecordType
         /\ \E i \in DOMAIN batch : batch[i] = Last(batch)
         /\ row' = Upserted(batch, as_of) /\ mismatch' = Reconcile(row, batch)
  BY UniverseBatch
<1> DEFINE r == Last(batch)
<1>2. row'.source = r.source /\ row'.coupon = CoalesceCoupon(r.coupon, row.coupon)
  BY <1>1, UpsertedFacts
<1>3. row \in RowType /\ r \in RecordType
  BY <1>1 DEF IInv
<1> HIDE DEF r
<1>4. row.coupon \in Int /\ r.coupon \in Int
  BY <1>3 DEF RowType, RecordType
<1>5. r.coupon # NoCoupon /\ row'.coupon = r.coupon
  BY <1>2, <1>4 DEF CoalesceCoupon, Tolerance
<1>6. Disagree(row, r)
  BY <1>2, <1>4, <1>5 DEF Disagree
<1>7. QED
  BY <1>1, <1>6 DEF Reconcile, r

(* Each step that replaces a coupon of another source by a distant one has *)
(* reported it.                                                            *)
LEMMA StepReports ==
    ASSUME IInv, [Next]_vars, row # NoRow, row'.source \in {"bondcentral", "cdsl"},
           row.source # row'.source, row.coupon # NoCoupon,
           row'.coupon - row.coupon > Tolerance \/ row.coupon - row'.coupon > Tolerance
    PROVE  mismatch'
<1>1. row \in RowType /\ paper \in Papers
  BY DEF IInv
<1>2. CASE BondCentralNight
  BY <1>2, BondCentralSays, UniverseReports DEF BondCentralNight
<1>3. CASE CdslSnapshot
  BY <1>3, CdslSays, UniverseReports DEF CdslSnapshot
<1>4. CASE BondReport
  <2>1. PICK r \in SaidByReport, date \in Days : row' = Enriched(InsertedIfMissing(r, date), r)
    BY <1>4 DEF BondReport
  <2>2. row' = Enriched(row, r) /\ r \in RecordType
    BY <2>1, ReportSays DEF InsertedIfMissing
  <2>3. QED
    BY <1>1, <2>2, EnrichKept
<1>5. CASE FbilValuations
  <2>1. PICK r \in SaidByFbil, date \in Days : row' = Upserted(<<r>>, date)
    BY <1>5 DEF FbilValuations
  <2>2. Last(<<r>>) = r
    BY DEF Last
  <2>3. r \in RecordType /\ r.source = "fbil"
    BY <1>1, <1>5, FbilSays DEF FbilValuations, Papers
  <2>4. row'.source = "fbil"
    BY <2>1, <2>2, <2>3, UpsertedFacts
  <2>5. QED
    BY <2>4
<1>6. CASE CcilTrades
  BY <1>6 DEF CcilTrades, InsertedIfMissing
<1>7. CASE WriteEnrichment
  BY <1>1, <1>7, EnrichKept DEF WriteEnrichment, IInv
<1>8. CASE Upgrade
  BY <1>8, UpgradedRow DEF Upgrade
<1>9. CASE UNCHANGED row
  BY <1>9
<1>10. QED
  BY <1>2, <1>3, <1>4, <1>5, <1>6, <1>7, <1>8, <1>9 DEF Next, ReadGaps, FetchSucceeds, vars

(* A universe snapshot that replaces another source's coupon by a          *)
(* different one has recorded the mismatch.                                *)
THEOREM MismatchReported == Spec => DisagreementReported
<1>1. IInv /\ [Next]_vars =>
        [/\ row # NoRow /\ row'.source \in {"bondcentral", "cdsl"}
         /\ row.source # row'.source
         /\ row.coupon # NoCoupon
         /\ (row'.coupon - row.coupon > Tolerance \/ row.coupon - row'.coupon > Tolerance)
         => mismatch']_vars
  BY StepReports
<1>2. QED
  BY <1>1, MasterInvariant, PTL DEF Spec, DisagreementReported

-----------------------------------------------------------------------------
(***************************************************************************)
(* The pull of the securities master.                                      *)
(***************************************************************************)

(***************************************************************************)
(* Pages and their slices.                                                 *)
(***************************************************************************)

(* Products grow with their first factor.                                  *)
LEMMA TimesGrows ==
    ASSUME NEW x \in Int, NEW y \in Int, NEW s \in Nat, x <= y
    PROVE  x * s <= y * s
<1>1. y - x \in Nat /\ (y - x) * s >= 0 /\ (y - x) * s = y * s - x * s
  OBVIOUS
<1>2. x * s \in Int /\ y * s \in Int
  OBVIOUS
<1>3. QED
  BY <1>1, <1>2

(* A page that may be split is LadderStep pages of the next size down.     *)
LEMMA SplitSize ==
    ASSUME NEW size \in Nat, Splittable(size)
    PROVE  /\ LadderStep \in Nat /\ LadderStep > 1
           /\ size \div LadderStep \in Nat \ {0}
           /\ size \div LadderStep < size
           /\ size = LadderStep * (size \div LadderStep)
<1>1. LadderStep \in Nat /\ LadderStep > 1
  BY CrawlAssumption
<1>2. size >= LadderStep /\ size % LadderStep = 0
  BY DEF Splittable
<1> DEFINE s == size \div LadderStep
<1>3. s \in Int /\ size = LadderStep * s + (size % LadderStep)
  BY <1>1
<1> HIDE DEF s
<1>4. size = LadderStep * s /\ size > 0
  BY <1>1, <1>2, <1>3
<1>5. s > 0
  BY <1>1, <1>3, <1>4
<1>6. s < LadderStep * s
  <2>1. 2 * s <= LadderStep * s
    BY <1>1, <1>3, <1>5, TimesGrows
  <2>2. QED
    BY <1>1, <1>3, <1>5, <2>1
<1>7. QED
  BY <1>1, <1>3, <1>4, <1>5, <1>6 DEF s

(* A page is before the last one exactly when it ends before the records   *)
(* do.                                                                     *)
LEMMA PagesBound ==
    ASSUME NEW size \in Nat \ {0}, NEW p \in Nat
    PROVE  /\ Pages(size) \in Nat \ {0}
           /\ p < Pages(size) <=> p * size < NumRecords
<1>1. NumRecords \in Nat \ {0}
  BY CrawlAssumption
<1> DEFINE q == Pages(size)
<1> DEFINE rest == (NumRecords + size - 1) % size
<1>2. /\ q \in Int /\ rest \in 0 .. size - 1
      /\ NumRecords + size - 1 = size * q + rest
  BY <1>1 DEF Pages
<1> HIDE DEF q, rest
<1>3. q * size = size * q /\ q * size \in Int /\ p * size \in Int
  BY <1>2
<1>4. NumRecords <= q * size /\ q * size < NumRecords + size
  BY <1>1, <1>2, <1>3
<1>5. q > 0
  <2>1. CASE q <= 0
    <3>1. q * size <= 0 * size /\ 0 * size = 0
      BY <1>2, <2>1, TimesGrows
    <3>2. QED
      BY <1>1, <1>3, <1>4, <3>1
  <2>2. QED
    BY <1>2, <2>1
<1>6. CASE p < q
  <2>1. (p + 1) * size <= q * size
    BY <1>2, <1>6, TimesGrows
  <2>2. (p + 1) * size = p * size + size
    OBVIOUS
  <2>3. QED
    BY <1>1, <1>2, <1>3, <1>4, <1>5, <1>6, <2>1, <2>2 DEF q
<1>7. CASE ~(p < q)
  <2>1. q * size <= p * size
    BY <1>2, <1>7, TimesGrows
  <2>2. QED
    BY <1>1, <1>2, <1>3, <1>4, <1>5, <1>7, <2>1 DEF q
<1>8. QED
  BY <1>6, <1>7

(* The records of a page, among those of the feed.                         *)
LEMMA SliceRecords ==
    ASSUME NEW size \in Nat, NEW p \in Nat \ {0}
    PROVE  Slice(size, p) = {r \in 1 .. NumRecords : (p - 1) * size < r /\ r <= p * size}
<1> DEFINE lo == (p - 1) * size
           hi == p * size
<1>1. lo \in Nat /\ hi \in Nat /\ NumRecords \in Nat
  BY CrawlAssumption
<1>2. Slice(size, p) = {r \in lo + 1 .. hi : r <= NumRecords}
  BY DEF Slice
<1> HIDE DEF lo, hi
<1>3. Slice(size, p) = {r \in 1 .. NumRecords : lo < r /\ r <= hi}
  BY <1>1, <1>2
<1>4. QED
  BY <1>3 DEF lo, hi

(* The page of a record is the one whose slice the record is in.           *)
LEMMA PageOfSlice ==
    ASSUME NEW r \in 1 .. NumRecords
    PROVE  /\ PageOf(r) \in 1 .. NumPages
           /\ \A p \in Nat \ {0} : r \in Slice(MaxPageSize, p) <=> PageOf(r) = p
<1> DEFINE q == PageOf(r)
<1> DEFINE rest == (r + MaxPageSize - 1) % MaxPageSize
<1>1. NumRecords \in Nat \ {0} /\ MaxPageSize \in Nat \ {0} /\ r \in Nat \ {0}
  BY CrawlAssumption
<1>2. /\ q \in Int /\ rest \in 0 .. MaxPageSize - 1
      /\ r + MaxPageSize - 1 = MaxPageSize * q + rest
  BY <1>1 DEF PageOf
<1> HIDE DEF q, rest
<1>3. /\ q * MaxPageSize = MaxPageSize * q /\ q * MaxPageSize \in Int
      /\ (q - 1) * MaxPageSize = q * MaxPageSize - MaxPageSize
  BY <1>1, <1>2
<1>4. (q - 1) * MaxPageSize < r /\ r <= q * MaxPageSize
  BY <1>1, <1>2, <1>3
<1>5. q > 0
  <2>1. CASE q <= 0
    <3>1. q * MaxPageSize <= 0 * MaxPageSize /\ 0 * MaxPageSize = 0
      BY <1>1, <1>2, <2>1, TimesGrows
    <3>2. QED
      BY <1>1, <1>3, <1>4, <3>1
  <2>2. QED
    BY <1>2, <2>1
<1>6. q <= NumPages
  <2>1. q - 1 \in Nat /\ (q - 1) * MaxPageSize < NumRecords
    BY <1>1, <1>2, <1>3, <1>4, <1>5
  <2>2. q - 1 < NumPages /\ NumPages \in Nat
    BY <1>1, <2>1, PagesBound DEF NumPages
  <2>3. QED
    BY <1>2, <2>2
<1>7. NumPages \in Nat
  BY <1>1, PagesBound DEF NumPages
<1>8. ASSUME NEW p \in Nat \ {0} PROVE r \in Slice(MaxPageSize, p) <=> q = p
  <2>0. r \in Slice(MaxPageSize, p)
          <=> (p - 1) * MaxPageSize < r /\ r <= p * MaxPageSize
    BY <1>1, SliceRecords
  <2>1. p * MaxPageSize \in Int /\ (p - 1) * MaxPageSize \in Int
    BY <1>1
  <2>2. CASE p < q
    <3>1. p * MaxPageSize <= (q - 1) * MaxPageSize
      BY <1>1, <1>2, <2>2, TimesGrows
    <3>2. QED
      BY <1>1, <1>2, <1>3, <1>4, <2>0, <2>1, <2>2, <3>1
  <2>3. CASE p > q
    <3>1. q * MaxPageSize <= (p - 1) * MaxPageSize
      BY <1>1, <1>2, <2>3, TimesGrows
    <3>2. QED
      BY <1>1, <1>2, <1>3, <1>4, <2>0, <2>1, <2>3, <3>1
  <2>4. CASE p = q
    BY <1>4, <2>0, <2>4
  <2>5. QED
    BY <1>2, <2>2, <2>3, <2>4
<1>9. QED
  BY <1>2, <1>5, <1>6, <1>7, <1>8 DEF q

(* A number of records a page of some size stands for: those of its first  *)
(* i slices.                                                               *)
FirstSlices(size, p, i) ==
    {r \in 1 .. NumRecords :
        /\ (p - 1) * LadderStep * (size \div LadderStep) < r
        /\ r <= ((p - 1) * LadderStep + i) * (size \div LadderStep)}

(* A slice is a finite set of at most as many records as its size.         *)
LEMMA SliceSize ==
    ASSUME NEW size \in Nat, NEW p \in Nat \ {0}
    PROVE  /\ Slice(size, p) \subseteq 1 .. NumRecords
           /\ IsFiniteSet(Slice(size, p)) /\ Cardinality(Slice(size, p)) \in Nat
           /\ Cardinality(Slice(size, p)) <= size
<1> DEFINE lo == (p - 1) * size
           hi == p * size
<1>1. lo \in Int /\ hi \in Int /\ hi = lo + size
  OBVIOUS
<1>2. Slice(size, p) \subseteq 1 .. NumRecords /\ Slice(size, p) \subseteq lo + 1 .. hi
  <2> HIDE DEF lo, hi
  <2>1. Slice(size, p) = {r \in 1 .. NumRecords : lo < r /\ r <= hi}
    BY SliceRecords DEF lo, hi
  <2>2. NumRecords \in Nat
    BY CrawlAssumption
  <2>3. QED
    BY <1>1, <2>1, <2>2
<1> HIDE DEF lo, hi
<1>3. IsFiniteSet(lo + 1 .. hi) /\ Cardinality(lo + 1 .. hi) = size
  BY <1>1, FS_Interval
<1>4. QED
  BY <1>2, <1>3, FS_Subset, FS_CardinalityType

(* The slices of a page, one after the other, are the page.                *)
LEMMA SlicesOfPage ==
    ASSUME NEW size \in Nat, Splittable(size), NEW p \in Nat \ {0}
    PROVE  /\ FirstSlices(size, p, 0) = {}
           /\ FirstSlices(size, p, LadderStep) = Slice(size, p)
           /\ \A i \in 0 .. LadderStep - 1 :
                FirstSlices(size, p, i + 1) =
                  FirstSlices(size, p, i)
                    \union Slice(size \div LadderStep, (p - 1) * LadderStep + 1 + i)
<1> DEFINE sub == size \div LadderStep
           a == (p - 1) * LadderStep
           base == a * sub
<1>1. LadderStep \in Nat /\ sub \in Nat \ {0} /\ size = LadderStep * sub /\ NumRecords \in Nat
  BY SplitSize, CrawlAssumption
<1>2. a \in Nat
  BY <1>1
<1> HIDE DEF sub
<1>3. base \in Int /\ \A i \in Int : (a + i) * sub \in Int
  <2> HIDE DEF a
  <2>1. QED
    BY <1>1, <1>2
<1>4. \A i \in Int : FirstSlices(size, p, i) = {r \in 1 .. NumRecords : base < r /\ r <= (a + i) * sub}
  BY DEF FirstSlices, sub
<1>5. FirstSlices(size, p, 0) = {}
  <2> HIDE DEF a
  <2>1. (a + 0) * sub = base
    BY <1>2
  <2>2. QED
    BY <1>1, <1>3, <1>4, <2>1
<1>6. FirstSlices(size, p, LadderStep) = Slice(size, p)
  <2>1. base = (p - 1) * size
    BY <1>1
  <2>2. (a + LadderStep) * sub = p * size
    <3>1. a + LadderStep = p * LadderStep
      BY <1>1
    <3>2. QED
      BY <1>1, <3>1
  <2>3. QED
    <3>1. Slice(size, p) = {r \in 1 .. NumRecords : base < r /\ r <= p * size}
      BY <2>1, SliceRecords
    <3>2. FirstSlices(size, p, LadderStep) =
            {r \in 1 .. NumRecords : base < r /\ r <= (a + LadderStep) * sub}
      BY <1>1, <1>4
    <3> HIDE DEF base, a
    <3>3. QED
      BY <2>2, <3>1, <3>2
<1>7. ASSUME NEW i \in 0 .. LadderStep - 1
      PROVE  FirstSlices(size, p, i + 1) = FirstSlices(size, p, i) \union Slice(sub, a + 1 + i)
  <2> HIDE DEF a
  <2> DEFINE mid == (a + i) * sub
             top == (a + (i + 1)) * sub
  <2>0. i \in Nat /\ i + 1 \in Int
    BY <1>1
  <2>1. mid \in Int /\ top \in Int /\ base <= mid /\ mid <= top
    <3>1. a <= a + i /\ a + i <= a + (i + 1) /\ a + i \in Int /\ a + (i + 1) \in Int
      BY <1>2, <2>0
    <3>2. QED
      BY <1>1, <1>2, <3>1, TimesGrows
  <2>2. Slice(sub, a + 1 + i) = {r \in 1 .. NumRecords : mid < r /\ r <= top}
    <3>1. (a + 1 + i) - 1 = a + i /\ a + 1 + i = a + (i + 1) /\ a + 1 + i \in Nat \ {0}
      BY <1>2, <2>0
    <3>2. \A q \in Nat \ {0} :
            Slice(sub, q) = {r \in 1 .. NumRecords : (q - 1) * sub < r /\ r <= q * sub}
      BY <1>1, SliceRecords
    <3>3. \A q \in Nat \ {0} :
            q - 1 = a + i /\ q = a + (i + 1) =>
              Slice(sub, q) = {r \in 1 .. NumRecords : mid < r /\ r <= top}
      BY <3>2
    <3> HIDE DEF mid, top
    <3>4. QED
      BY <3>1, <3>3
  <2> HIDE DEF mid, top
  <2>3. /\ FirstSlices(size, p, i) = {r \in 1 .. NumRecords : base < r /\ r <= mid}
        /\ FirstSlices(size, p, i + 1) = {r \in 1 .. NumRecords : base < r /\ r <= top}
    BY <1>4, <2>0 DEF mid, top
  <2> HIDE DEF base
  <2>4. QED
    BY <1>1, <1>3, <2>1, <2>2, <2>3
<1>8. QED
  BY <1>5, <1>6, <1>7 DEF sub

(***************************************************************************)
(* The recursive definitions of the ladder have the values they describe.  *)
(***************************************************************************)

(* The slices are joined one after the other (_recover_page).              *)
LEMMA SlicesReadEquation ==
    ASSUME NEW slices, NEW size, NEW p
    PROVE  /\ SlicesRead(slices, size, p)[0] = NothingRead
           /\ \A i \in 0 .. LadderStep - 1 :
                SlicesRead(slices, size, p)[i + 1] =
                  IF SlicesRead(slices, size, p)[i].err # "none"
                  THEN SlicesRead(slices, size, p)[i]
                  ELSE JoinSlice(SlicesRead(slices, size, p)[i],
                                 slices[(p - 1) * LadderStep + 1 + (i + 1) - 1],
                                 size \div LadderStep, i + 1 = LadderStep)
<1>1. LadderStep \in Nat
  BY CrawlAssumption
<1> DEFINE Join(acc, i) ==
             IF acc.err # "none" THEN acc
             ELSE JoinSlice(acc, slices[(p - 1) * LadderStep + 1 + i - 1],
                            size \div LadderStep, i = LadderStep)
           Read(n, f) == f = [i \in 0 .. n |-> IF i = 0 THEN NothingRead ELSE Join(f[i - 1], i)]
           S == {n \in Nat : \E f : Read(n, f)}
<1>2. SlicesRead(slices, size, p) = CHOOSE f : Read(LadderStep, f)
  BY DEF SlicesRead
<1> HIDE DEF Join
<1>3. 0 \in S
  <2>1. Read(0, [i \in 0 .. 0 |-> NothingRead])
    OBVIOUS
  <2>2. QED
    BY <2>1
<1>4. ASSUME NEW n \in Nat, n \in S PROVE n + 1 \in S
  <2>1. PICK f : Read(n, f)
    BY <1>4
  <2> DEFINE g == [i \in 0 .. n + 1 |-> IF i = n + 1 THEN Join(f[n], n + 1) ELSE f[i]]
  <2>2. \A i \in 0 .. n + 1 : g[i] = IF i = 0 THEN NothingRead ELSE Join(g[i - 1], i)
    <3>1. \A i \in 0 .. n : g[i] = f[i] /\ f[i] = IF i = 0 THEN NothingRead ELSE Join(f[i - 1], i)
      BY <2>1
    <3>2. g[n + 1] = Join(f[n], n + 1) /\ g[n] = f[n]
      OBVIOUS
    <3> HIDE DEF g
    <3>3. TAKE i \in 0 .. n + 1
    <3>4. CASE i = n + 1
      BY <3>2, <3>4
    <3>5. CASE i = 0
      BY <3>1, <3>5
    <3>6. CASE i \in 1 .. n
      <4>1. i \in 0 .. n /\ i - 1 \in 0 .. n /\ i # 0
        BY <3>6
      <4>2. QED
        BY <3>1, <4>1
    <3>7. QED
      BY <3>4, <3>5, <3>6
  <2>3. Read(n + 1, g)
    <3> DEFINE h == [i \in 0 .. n + 1 |-> IF i = 0 THEN NothingRead ELSE Join(g[i - 1], i)]
    <3>1. g = h
      <4>1. \A i \in 0 .. n + 1 : g[i] = h[i]
        BY <2>2
      <4>2. g = [i \in 0 .. n + 1 |-> g[i]] /\ h = [i \in 0 .. n + 1 |-> h[i]]
        OBVIOUS
      <4> HIDE DEF g, h
      <4>3. QED
        BY <4>1, <4>2
    <3> HIDE DEF g
    <3>2. QED
      BY <3>1
  <2> HIDE DEF g, Read
  <2>4. QED
    BY <2>3
<1>5. LadderStep \in S
  <2> HIDE DEF S
  <2>1. 0 .. LadderStep \subseteq S
    BY <1>1, <1>3, <1>4, Lemmas!UpToInduction
  <2>2. QED
    BY <1>1, <2>1
<1> DEFINE R == SlicesRead(slices, size, p)
<1>6. Read(LadderStep, R)
  BY <1>2, <1>5
<1> HIDE DEF R
<1>7. R[0] = NothingRead /\ \A i \in 1 .. LadderStep : R[i] = Join(R[i - 1], i)
  BY <1>1, <1>6
<1>8. ASSUME NEW i \in 0 .. LadderStep - 1 PROVE R[i + 1] = Join(R[i], i + 1)
  <2>1. i + 1 \in 1 .. LadderStep /\ i + 1 - 1 = i
    BY <1>1
  <2>2. QED
    BY <1>7, <2>1
<1>9. QED
  BY <1>7, <1>8 DEF Join, R

(* A page that cannot be split is read with one request (_page_items).     *)
LEMMA UnsplittablePage ==
    ASSUME NEW mishap, NEW slices, NEW size, NEW p, NEW bail, ~Splittable(size)
    PROVE  ReadPage(mishap, slices, size, p, bail) = FetchPage(Reply(mishap, size, p), size, p)
BY DEF ReadPage

(* A page of any size is read with the pages of the next size down.        *)
LEMMA LadderEquation ==
    ASSUME NEW mishap
    PROVE  \A size \in 1 .. MaxPageSize : \A p \in Nat :
             Ladder(mishap)[size][p] =
               ReadPage(mishap, Ladder(mishap)[size \div LadderStep], size, p, FALSE)
<1>1. LadderStep \in Nat /\ LadderStep > 1 /\ MaxPageSize \in Nat
  BY CrawlAssumption
<1> DEFINE Paged(x, s) == [p \in Nat |-> ReadPage(mishap, x, s, p, FALSE)]
           Read(n, f) == f = [s \in 1 .. n |-> Paged(f[s \div LadderStep], s)]
           S == {n \in Nat : \E f : Read(n, f)}
<1>2. Ladder(mishap) = CHOOSE f : Read(MaxPageSize, f)
  BY DEF Ladder
<1>3. ASSUME NEW n \in Nat, NEW s \in 1 .. n + 1, NEW x, NEW y, s \div LadderStep \notin 1 .. n
      PROVE  Paged(x, s) = Paged(y, s)
  <2>1. ~Splittable(s)
    <3>1. CASE Splittable(s)
      <4>1. s \div LadderStep \in Nat \ {0} /\ s \div LadderStep < s
        BY <3>1, SplitSize
      <4>2. QED
        BY <1>3, <4>1
    <3>2. QED
      BY <3>1
  <2>2. ASSUME NEW p \in Nat
        PROVE  ReadPage(mishap, x, s, p, FALSE) = ReadPage(mishap, y, s, p, FALSE)
    <3>1. \A z : ReadPage(mishap, z, s, p, FALSE) = FetchPage(Reply(mishap, s, p), s, p)
      BY <2>1 DEF ReadPage
    <3>2. QED
      BY <3>1
  <2>3. QED
    BY <2>2
<1> HIDE DEF Paged
<1>4. 0 \in S
  <2>1. Read(0, [s \in 1 .. 0 |-> 0])
    OBVIOUS
  <2>2. QED
    BY <2>1
<1>5. ASSUME NEW n \in Nat, n \in S PROVE n + 1 \in S
  <2>1. PICK f : Read(n, f)
    BY <1>5
  <2> DEFINE g == [s \in 1 .. n + 1 |->
                     IF s = n + 1 THEN Paged(f[(n + 1) \div LadderStep], n + 1) ELSE f[s]]
             h == [s \in 1 .. n + 1 |-> Paged(g[s \div LadderStep], s)]
  <2>2. ASSUME NEW s \in 1 .. n + 1 PROVE g[s] = Paged(g[s \div LadderStep], s)
    <3>1. g[s] = Paged(f[s \div LadderStep], s)
      <4>1. CASE s = n + 1
        BY <4>1
      <4>2. CASE s # n + 1
        <5>1. s \in 1 .. n
          BY <4>2
        <5>2. QED
          BY <2>1, <4>2, <5>1
      <4>3. QED
        BY <4>1, <4>2
    <3>2. CASE s \div LadderStep \in 1 .. n
      <4>1. g[s \div LadderStep] = f[s \div LadderStep]
        BY <3>2
      <4>2. QED
        BY <3>1, <4>1
    <3>3. CASE s \div LadderStep \notin 1 .. n
      <4>1. Paged(f[s \div LadderStep], s) = Paged(g[s \div LadderStep], s)
        BY <1>3, <3>3
      <4>2. QED
        BY <3>1, <4>1
    <3>4. QED
      BY <3>2, <3>3
  <2>3. Read(n + 1, g)
    <3>1. g = h
      <4>1. \A s \in 1 .. n + 1 : g[s] = h[s]
        BY <2>2
      <4>2. g = [s \in 1 .. n + 1 |-> g[s]] /\ h = [s \in 1 .. n + 1 |-> h[s]]
        OBVIOUS
      <4> HIDE DEF g, h
      <4>3. QED
        BY <4>1, <4>2
    <3> HIDE DEF g
    <3>2. QED
      BY <3>1
  <2> HIDE DEF g, Read
  <2>4. QED
    BY <2>3
<1>6. MaxPageSize \in S
  <2> HIDE DEF S
  <2>1. 0 .. MaxPageSize \subseteq S
    BY <1>1, <1>4, <1>5, Lemmas!UpToInduction
  <2>2. QED
    BY <1>1, <2>1
<1> DEFINE R == Ladder(mishap)
<1>7. Read(MaxPageSize, R)
  BY <1>2, <1>6
<1> HIDE DEF R
<1>8. \A s \in 1 .. MaxPageSize : R[s] = Paged(R[s \div LadderStep], s)
  BY <1>7
<1>9. QED
  BY <1>8 DEF Paged, R

(***************************************************************************)
(* What a page brings.                                                     *)
(***************************************************************************)
PageResults(size, p) ==
    [err : {"none", "broken", "refused"}, items : SUBSET Slice(size, p), lost : Nat,
     more : {"yes", "no", "unknown"}, total : {Unknown, NumRecords}, asked : Nat]

(* What goes wrong with a request is one of the ways it can.               *)
IsMishap(mishap) == \A request \in DOMAIN mishap : mishap[request] \in Failures

(* A page that fails brings nothing.  One that is read reports the feed's  *)
(* total if there is one and a record was read, and is not followed by     *)
(* another if none was.  If no answer was hollow, it brings all but as     *)
(* many records as it counts lost, says whether the feed goes on, ends it  *)
(* only where it ends, and is empty only beyond that.                      *)
PageSound(r, size, p, honest) ==
    /\ r \in PageResults(size, p)
    /\ r.err # "none" => r.items = {} /\ r.more = "unknown" /\ r.total = Unknown
    /\ r.err = "none" =>
         /\ tells /\ r.items # {} => r.total = NumRecords
         /\ r.items = {} => r.more # "yes"
    /\ r.err = "none" /\ honest =>
         /\ Cardinality(Slice(size, p) \ r.items) <= r.lost
         /\ tells => r.total = NumRecords
         /\ r.more # "unknown"
         /\ r.more = "no" => NumRecords <= p * size
         /\ r.items = {} => Slice(size, p) = {} /\ r.more = "no"

(* No record is missing but those the API cannot serialise.                *)
Lossless(r, size, p) == r.err # "refused" /\ Slice(size, p) \ r.items \subseteq broken

(* The answer to one request is sound (_fetch_page).                       *)
LEMMA FetchSound ==
    ASSUME NEW mishap, IsMishap(mishap), NEW size \in Nat \ {0}, NEW p \in Nat \ {0},
           tells \in BOOLEAN
    PROVE  LET a == Reply(mishap, size, p)
               r == FetchPage(a, size, p)
           IN  /\ PageSound(r, size, p, Honest(mishap)) /\ r.asked = 1
               /\ a \in {"ok", "hollow", "broken", "refused"}
               /\ Honest(mishap) => a # "hollow"
               /\ r.err = IF a \in {"ok", "hollow"} THEN "none" ELSE a
<1> DEFINE a == Reply(mishap, size, p)
           r == FetchPage(a, size, p)
<1>1. a \in {"ok", "hollow", "broken", "refused"} /\ (Honest(mishap) => a # "hollow")
  <2>1. CASE <<size, p>> \in DOMAIN mishap
    BY <2>1 DEF IsMishap, Honest, Failures, Reply
  <2>2. CASE <<size, p>> \notin DOMAIN mishap
    BY <2>2 DEF Reply
  <2>3. QED
    BY <2>1, <2>2
<1>2. NumRecords \in Nat \ {0} /\ p * size \in Nat
  BY CrawlAssumption
<1> HIDE DEF a
<1>3. CASE a = "ok"
  <2>1. Cardinality(Slice(size, p) \ Slice(size, p)) = 0
    <3>1. Slice(size, p) \ Slice(size, p) = {}
      OBVIOUS
    <3>2. QED
      BY <3>1, FS_EmptySet
  <2>2. Slice(size, p) = {} => ~(p * size < NumRecords)
    <3>1. CASE p * size < NumRecords
      <4>1. NumRecords \in Nat /\ p * size \in Nat
        BY <1>2
      <4>2. (p - 1) * size < p * size /\ (p - 1) * size >= 0 /\ (p - 1) * size \in Int
        <5>1. (p - 1) * size = p * size - size
          OBVIOUS
        <5>2. QED
          BY <1>2, <5>1
      <4>3. p * size \in Slice(size, p)
        BY <3>1, <4>1, <4>2 DEF Slice
      <4>4. QED
        BY <4>3
    <3>2. QED
      BY <3>1
  <2>3. ~(p * size < NumRecords) => NumRecords <= p * size
    BY <1>2
  <2>4. r = [err |-> "none", items |-> Slice(size, p), lost |-> 0,
             more |-> IF p * size < NumRecords THEN "yes" ELSE "no",
             total |-> IF tells THEN NumRecords ELSE Unknown, asked |-> 1]
    BY <1>3 DEF FetchPage
  <2> HIDE DEF r
  <2>5. PageSound(r, size, p, Honest(mishap)) /\ r.asked = 1 /\ r.err = "none"
    BY <2>1, <2>2, <2>3, <2>4 DEF PageSound, PageResults, Unknown
  <2>6. QED
    BY <1>1, <1>3, <2>5 DEF r, a
<1>4. CASE a # "ok"
  <2>1. r = Raise(IF a = "hollow" THEN "none" ELSE a, 1)
    BY <1>1, <1>4 DEF FetchPage
  <2> HIDE DEF r
  <2>2. /\ r.err = (IF a = "hollow" THEN "none" ELSE a) /\ r.items = {} /\ r.lost = 0
        /\ r.more = "unknown" /\ r.total = Unknown /\ r.asked = 1
        /\ r \in PageResults(size, p)
    BY <1>1, <1>4, <2>1 DEF Raise, PageResults, Unknown
  <2>3. PageSound(r, size, p, Honest(mishap))
    BY <1>1, <1>4, <2>2 DEF PageSound
  <2>4. QED
    BY <1>1, <1>4, <2>2, <2>3 DEF r, a
<1>5. QED
  BY <1>3, <1>4

(* A page of which the first i slices have been read.                      *)
JoinedSlices(acc, size, p, i, honest) ==
    /\ acc \in [err : {"none", "refused"}, items : SUBSET FirstSlices(size, p, i), lost : Nat,
                more : {"yes", "no", "unknown"}, total : {Unknown, NumRecords}, asked : Nat]
    /\ acc.err = "none" =>
         /\ tells /\ acc.items # {} => acc.total = NumRecords
         /\ i < LadderStep => acc.more = "unknown"
    /\ acc.err = "none" /\ honest =>
         /\ Cardinality(FirstSlices(size, p, i) \ acc.items) <= acc.lost
         /\ acc.more = "no" => NumRecords <= p * size

(* Every prefix of a page is a finite set.                                 *)
LEMMA FirstSlicesFinite ==
    ASSUME NEW size, NEW p, NEW i
    PROVE  /\ FirstSlices(size, p, i) \subseteq 1 .. NumRecords
           /\ IsFiniteSet(FirstSlices(size, p, i))
           /\ \A T \in SUBSET FirstSlices(size, p, i) : IsFiniteSet(T) /\ Cardinality(T) \in Nat
<1>1. NumRecords \in Nat
  BY CrawlAssumption
<1>2. FirstSlices(size, p, i) \subseteq 1 .. NumRecords
  BY DEF FirstSlices
<1>3. IsFiniteSet(1 .. NumRecords)
  BY <1>1, FS_Interval
<1>4. QED
  BY <1>2, <1>3, FS_Subset, FS_CardinalityType

(* Two sets of missing records are missed by at most their sum.            *)
LEMMA MissingAdds ==
    ASSUME NEW A, NEW B, IsFiniteSet(A), IsFiniteSet(B), NEW C, C \subseteq A \union B,
           NEW a \in Nat, NEW b \in Nat, Cardinality(A) <= a, Cardinality(B) <= b
    PROVE  IsFiniteSet(C) /\ Cardinality(C) \in Nat /\ Cardinality(C) <= a + b
<1>1. /\ IsFiniteSet(A \union B)
      /\ Cardinality(A \union B) = Cardinality(A) + Cardinality(B) - Cardinality(A \intersect B)
  BY FS_Union
<1>2. IsFiniteSet(A \intersect B)
  BY FS_Intersection
<1>3. /\ Cardinality(A) \in Nat /\ Cardinality(B) \in Nat
      /\ Cardinality(A \intersect B) \in Nat /\ Cardinality(A \union B) \in Nat
  BY <1>1, <1>2, FS_CardinalityType
<1>4. IsFiniteSet(C) /\ Cardinality(C) <= Cardinality(A \union B) /\ Cardinality(C) \in Nat
  BY <1>1, FS_Subset, FS_CardinalityType
<1>5. QED
  BY <1>1, <1>3, <1>4

(* A turn of _recover_page's loop adds a slice to the page: its records,   *)
(* its losses, or its whole size if it is lost, the total if it has one    *)
(* and, from the last slice, whether there is more.                        *)
LEMMA JoinSliceSound ==
    ASSUME NEW size \in Nat, Splittable(size), NEW p \in Nat \ {0}, tells \in BOOLEAN,
           NEW i \in 0 .. LadderStep - 1, NEW acc, NEW slice, NEW honest \in BOOLEAN,
           JoinedSlices(acc, size, p, i, honest), acc.err = "none",
           PageSound(slice, size \div LadderStep, (p - 1) * LadderStep + 1 + i, honest)
    PROVE  JoinedSlices(JoinSlice(acc, slice, size \div LadderStep, i + 1 = LadderStep),
                        size, p, i + 1, honest)
<1> DEFINE sub == size \div LadderStep
           q == (p - 1) * LadderStep + 1 + i
           now == FirstSlices(size, p, i)
           then == FirstSlices(size, p, i + 1)
           next == JoinSlice(acc, slice, sub, i + 1 = LadderStep)
           this == Slice(sub, q)
<1>1. /\ LadderStep \in Nat /\ LadderStep > 1 /\ sub \in Nat \ {0} /\ size = LadderStep * sub
      /\ NumRecords \in Nat \ {0} /\ i \in Nat
  BY SplitSize, CrawlAssumption
<1>2. q \in Nat \ {0}
  BY <1>1
<1>3. then = now \union this
  BY SlicesOfPage
<1>4. i + 1 = LadderStep => q * sub = p * size
  <2>1. CASE i + 1 = LadderStep
    <3>1. q = p * LadderStep
      BY <1>1, <2>1
    <3> HIDE DEF q, sub
    <3>2. q * sub = p * (LadderStep * sub)
      BY <1>1, <3>1
    <3>3. QED
      BY <1>1, <3>2
  <2>2. QED
    BY <2>1
<1> HIDE DEF q, sub
<1>5. /\ acc \in [err : {"none", "refused"}, items : SUBSET now, lost : Nat,
                  more : {"yes", "no", "unknown"}, total : {Unknown, NumRecords}, asked : Nat]
      /\ honest => Cardinality(now \ acc.items) <= acc.lost
      /\ tells /\ acc.items # {} => acc.total = NumRecords
      /\ acc.more = "unknown"
  BY <1>1 DEF JoinedSlices
<1>6. /\ PageSound(slice, sub, q, honest)
      /\ slice \in PageResults(sub, q)
  BY DEF PageSound, sub, q
<1>7. /\ IsFiniteSet(now \ acc.items) /\ IsFiniteSet(this \ slice.items) /\ IsFiniteSet(this)
      /\ Cardinality(this) <= sub /\ this \subseteq 1 .. NumRecords
  <2>1. /\ IsFiniteSet(this) /\ Cardinality(this) <= sub /\ this \subseteq 1 .. NumRecords
    BY <1>1, <1>2, SliceSize
  <2>2. IsFiniteSet(now)
    BY FirstSlicesFinite
  <2> HIDE DEF now, this
  <2>3. QED
    BY <2>1, <2>2, FS_Subset
<1> HIDE DEF now, then, this
<1>8. CASE slice.err = "refused"
  <2>1. next = [acc EXCEPT !.err = "refused", !.asked = @ + slice.asked]
    BY <1>8 DEF JoinSlice
  <2>2. next = [err |-> "refused", items |-> acc.items, lost |-> acc.lost, more |-> acc.more,
                total |-> acc.total, asked |-> acc.asked + slice.asked]
    BY <1>5, <2>1
  <2>3. next \in [err : {"none", "refused"}, items : SUBSET then, lost : Nat,
                  more : {"yes", "no", "unknown"}, total : {Unknown, NumRecords}, asked : Nat]
    <3>1. slice.asked \in Nat
      BY <1>6 DEF PageResults
    <3> HIDE DEF next
    <3>2. QED
      BY <1>3, <1>5, <2>2, <3>1
  <2>4. QED
    BY <2>2, <2>3 DEF JoinedSlices, then, sub, next
<1>9. CASE slice.err # "refused"
  <2> DEFINE cost == IF slice.err = "none" THEN slice.lost ELSE sub
  <2>1. next = [acc EXCEPT
                  !.items = @ \union slice.items,
                  !.lost  = @ + cost,
                  !.total = IF slice.total = Unknown THEN @ ELSE slice.total,
                  !.more  = IF i + 1 = LadderStep THEN slice.more ELSE @,
                  !.asked = @ + slice.asked]
    BY <1>9 DEF JoinSlice
  <2>2. cost \in Nat /\ (honest => Cardinality(this \ slice.items) <= cost)
    <3>1. CASE slice.err = "none"
      BY <1>6, <3>1 DEF PageSound, PageResults, this
    <3>2. CASE slice.err # "none"
      <4>1. slice.items = {}
        BY <1>6, <3>2 DEF PageSound
      <4>2. this \ slice.items = this
        BY <4>1
      <4>3. QED
        BY <1>1, <1>7, <3>2, <4>2
    <3>3. QED
      BY <3>1, <3>2
  <2> HIDE DEF cost
  <2>3. next = [err |-> "none", items |-> acc.items \union slice.items,
                 lost |-> acc.lost + cost,
                 more |-> IF i + 1 = LadderStep THEN slice.more ELSE acc.more,
                 total |-> IF slice.total = Unknown THEN acc.total ELSE slice.total,
                 asked |-> acc.asked + slice.asked]
    BY <1>5, <1>9, <2>1
  <2> HIDE DEF next
  <2>4. /\ next.err = "none" /\ next.items = acc.items \union slice.items
        /\ next.lost = acc.lost + cost
        /\ next.total = IF slice.total = Unknown THEN acc.total ELSE slice.total
        /\ next.more = IF i + 1 = LadderStep THEN slice.more ELSE "unknown"
        /\ next.asked = acc.asked + slice.asked
    BY <1>5, <2>3
  <2>5. next \in [err : {"none", "refused"}, items : SUBSET then, lost : Nat,
                  more : {"yes", "no", "unknown"}, total : {Unknown, NumRecords}, asked : Nat]
    <3>1. slice.items \subseteq this /\ slice.total \in {Unknown, NumRecords}
          /\ slice.more \in {"yes", "no", "unknown"} /\ slice.asked \in Nat
      BY <1>6 DEF PageResults, this
    <3>2. acc.items \union slice.items \subseteq then
      BY <1>3, <1>5, <3>1
    <3>3. QED
      BY <1>5, <2>2, <2>3, <3>1, <3>2
  <2>6. ASSUME honest PROVE Cardinality(then \ next.items) <= next.lost
    <3>1. then \ next.items \subseteq (now \ acc.items) \union (this \ slice.items)
      BY <1>3, <2>4
    <3>2. acc.lost \in Nat
      BY <1>5
    <3>3. Cardinality(then \ next.items) <= acc.lost + cost
      BY <1>5, <1>7, <2>2, <2>6, <3>1, <3>2, MissingAdds
    <3>4. QED
      BY <2>4, <3>3
  <2>7. tells /\ next.items # {} => next.total = NumRecords
    <3>1. slice.items # {} => slice.err = "none"
      BY <1>6 DEF PageSound
    <3>2. tells /\ slice.items # {} => slice.total = NumRecords
      BY <1>6, <3>1 DEF PageSound
    <3>3. slice.total \in {Unknown, NumRecords} /\ NumRecords # Unknown
      BY <1>1, <1>6 DEF PageResults, Unknown
    <3>4. QED
      BY <1>5, <2>4, <3>2, <3>3
  <2>8. i + 1 < LadderStep => next.more = "unknown"
    BY <1>1, <2>4
  <2>9. honest /\ next.more = "no" => NumRecords <= p * size
    <3>1. honest /\ slice.more = "no" => NumRecords <= q * sub
      BY <1>6 DEF PageSound
    <3>2. QED
      BY <1>4, <2>4, <3>1
  <2>10. QED
    BY <2>5, <2>6, <2>7, <2>8, <2>9 DEF JoinedSlices, then, sub, next
<1>10. QED
  BY <1>8, <1>9

(* Whatever happens to its slices, a page read in part is what its first   *)
(* slices brought.                                                         *)
LEMMA SlicesReadSound ==
    ASSUME NEW size \in Nat, Splittable(size), NEW p \in Nat \ {0}, tells \in BOOLEAN, NEW slices,
           NEW honest \in BOOLEAN,
           \A q \in Nat \ {0} : PageSound(slices[q], size \div LadderStep, q, honest)
    PROVE  \A i \in 0 .. LadderStep :
             JoinedSlices(SlicesRead(slices, size, p)[i], size, p, i, honest)
<1> DEFINE R == SlicesRead(slices, size, p)
           S == {i \in 0 .. LadderStep : JoinedSlices(R[i], size, p, i, honest)}
           q(i) == (p - 1) * LadderStep + 1 + i
<1>1. LadderStep \in Nat /\ NumRecords \in Nat
  BY CrawlAssumption
<1>2. 0 \in S
  <2>1. R[0] = NothingRead
    BY SlicesReadEquation
  <2>2. FirstSlices(size, p, 0) = {}
    BY SlicesOfPage
  <2>3. Cardinality(FirstSlices(size, p, 0) \ {}) = 0
    BY <2>2, FS_EmptySet
  <2>4. JoinedSlices(NothingRead, size, p, 0, honest)
    BY <1>1, <2>2, <2>3 DEF JoinedSlices, NothingRead, Raise, Unknown
  <2>5. QED
    BY <1>1, <2>1, <2>4
<1>3. ASSUME NEW i \in 0 .. LadderStep, i < LadderStep, i \in S PROVE i + 1 \in S
  <2>1. i \in 0 .. LadderStep - 1 /\ i + 1 \in 0 .. LadderStep /\ q(i) \in Nat \ {0}
    BY <1>1, <1>3
  <2>2. JoinedSlices(R[i], size, p, i, honest)
    BY <1>3
  <2>3. R[i + 1] = IF R[i].err # "none" THEN R[i]
                   ELSE JoinSlice(R[i], slices[q(i)], size \div LadderStep, i + 1 = LadderStep)
    <3>1. (p - 1) * LadderStep + 1 + (i + 1) - 1 = q(i)
      BY <1>1
    <3>2. QED
      BY <2>1, <3>1, SlicesReadEquation
  <2> HIDE DEF R
  <2>4. CASE R[i].err # "none"
    <3>1. FirstSlices(size, p, i) \subseteq FirstSlices(size, p, i + 1)
      BY <2>1, SlicesOfPage
    <3>2. JoinedSlices(R[i], size, p, i + 1, honest)
      BY <2>2, <2>4, <3>1 DEF JoinedSlices
    <3>3. QED
      BY <2>1, <2>3, <2>4, <3>2
  <2>5. CASE R[i].err = "none"
    <3>1. PageSound(slices[q(i)], size \div LadderStep, q(i), honest)
      BY <2>1
    <3>2. JoinedSlices(JoinSlice(R[i], slices[q(i)], size \div LadderStep, i + 1 = LadderStep),
                       size, p, i + 1, honest)
      BY <2>1, <2>2, <2>5, <3>1, JoinSliceSound
    <3>3. QED
      BY <2>1, <2>3, <2>5, <3>2
  <2>6. QED
    BY <2>4, <2>5
<1>4. 0 .. LadderStep \subseteq S
  <2> HIDE DEF S
  <2>1. QED
    BY <1>1, <1>2, <1>3, Lemmas!UpToInduction
<1>5. QED
  BY <1>4

(* A page read in slices reports what they brought; it fails when the host *)
(* refused one or none brought a record (_recover_page).                   *)
LEMMA SummariseSound ==
    ASSUME NEW size \in Nat, Splittable(size), NEW p \in Nat \ {0}, tells \in BOOLEAN,
           NEW acc, NEW honest \in BOOLEAN, JoinedSlices(acc, size, p, LadderStep, honest)
    PROVE  /\ PageSound(Summarise(acc, size, p), size, p, honest)
           /\ Summarise(acc, size, p).err =
                IF acc.err = "none" /\ acc.items = {} THEN "broken" ELSE acc.err
           /\ Summarise(acc, size, p).items = IF acc.err = "none" THEN acc.items ELSE {}
<1> DEFINE r == Summarise(acc, size, p)
<1>1. /\ size \in Nat \ {0} /\ LadderStep \in Nat
      /\ FirstSlices(size, p, LadderStep) = Slice(size, p)
      /\ NumRecords \in Nat \ {0} /\ p * size \in Nat
  BY SplitSize, SlicesOfPage, CrawlAssumption
<1>2. acc \in [err : {"none", "refused"}, items : SUBSET Slice(size, p), lost : Nat,
               more : {"yes", "no", "unknown"}, total : {Unknown, NumRecords}, asked : Nat]
  BY <1>1 DEF JoinedSlices
<1>3. CASE acc.err # "none"
  <2>1. r = Raise(acc.err, acc.asked)
    BY <1>3 DEF Summarise
  <2> HIDE DEF r
  <2>2. QED
    BY <1>2, <1>3, <2>1 DEF Raise, PageSound, PageResults, r
<1>4. CASE acc.err = "none" /\ acc.items = {}
  <2>1. r = Raise("broken", acc.asked)
    BY <1>4 DEF Summarise
  <2> HIDE DEF r
  <2>2. QED
    BY <1>2, <1>4, <2>1 DEF Raise, PageSound, PageResults, r
<1>5. CASE acc.err = "none" /\ acc.items # {}
  <2> DEFINE more == IF acc.more # "unknown" THEN acc.more
                     ELSE IF acc.total = Unknown \/ p < Pages(size) THEN "yes" ELSE "no"
  <2>1. r = [acc EXCEPT !.more = more]
    BY <1>5 DEF Summarise
  <2>2. /\ tells => acc.total = NumRecords
        /\ honest => Cardinality(Slice(size, p) \ acc.items) <= acc.lost
        /\ honest /\ acc.more = "no" => NumRecords <= p * size
    BY <1>1, <1>5 DEF JoinedSlices
  <2>3. /\ more \in {"yes", "no"}
        /\ honest /\ more = "no" => NumRecords <= p * size
    <3>1. p < Pages(size) <=> p * size < NumRecords
      BY <1>1, PagesBound
    <3>2. QED
      BY <1>1, <1>2, <2>2, <3>1
  <2> HIDE DEF more
  <2>4. r = [err |-> "none", items |-> acc.items, lost |-> acc.lost, more |-> more,
             total |-> acc.total, asked |-> acc.asked]
    BY <1>2, <1>5, <2>1
  <2> HIDE DEF r
  <2>5. r \in PageResults(size, p)
    BY <1>2, <2>3, <2>4 DEF PageResults
  <2>6. PageSound(r, size, p, honest)
    BY <1>5, <2>2, <2>3, <2>4, <2>5 DEF PageSound
  <2>7. r.err = "none" /\ r.items = acc.items
    BY <2>4
  <2>8. QED
    BY <1>5, <2>6, <2>7 DEF r
<1>6. QED
  BY <1>3, <1>4, <1>5

(* A page is sound when the pages of the next size down are (_page_items). *)
LEMMA ReadPageSound ==
    ASSUME NEW size \in Nat \ {0}, NEW p \in Nat \ {0}, tells \in BOOLEAN, NEW slices,
           NEW mishap, IsMishap(mishap), NEW bail,
           Splittable(size) =>
             \A q \in Nat \ {0} : PageSound(slices[q], size \div LadderStep, q, Honest(mishap))
    PROVE  PageSound(ReadPage(mishap, slices, size, p, bail), size, p, Honest(mishap))
<1> DEFINE direct == FetchPage(Reply(mishap, size, p), size, p)
           first == Reply(mishap, size \div LadderStep, (p - 1) * LadderStep + 1)
           whole == Summarise(SlicesRead(slices, size, p)[LadderStep], size, p)
           r == ReadPage(mishap, slices, size, p, bail)
<1>1. PageSound(direct, size, p, Honest(mishap))
  BY FetchSound
<1>2. r = IF direct.err # "broken" \/ ~Splittable(size) THEN direct
          ELSE IF bail /\ first = "broken" THEN Raise("broken", 2) ELSE whole
  BY DEF ReadPage
<1>3. PageSound(Raise("broken", 2), size, p, Honest(mishap))
  BY DEF PageSound, PageResults, Raise
<1>4. CASE Splittable(size)
  <2>1. LadderStep \in Nat /\ Honest(mishap) \in BOOLEAN
    BY CrawlAssumption DEF Honest
  <2>2. JoinedSlices(SlicesRead(slices, size, p)[LadderStep], size, p, LadderStep, Honest(mishap))
    BY <1>4, <2>1, SlicesReadSound
  <2>3. PageSound(whole, size, p, Honest(mishap))
    BY <1>4, <2>1, <2>2, SummariseSound
  <2> HIDE DEF direct, first, whole, r
  <2>4. QED
    BY <1>1, <1>2, <1>3, <2>3 DEF r
<1> HIDE DEF direct, first, whole, r
<1>5. CASE ~Splittable(size)
  BY <1>1, <1>2, <1>5 DEF r
<1>6. QED
  BY <1>4, <1>5

(* Every page of the ladder is sound, by induction on its size.            *)
LEMMA LadderSound ==
    ASSUME NEW mishap, IsMishap(mishap), tells \in BOOLEAN
    PROVE  \A size \in 1 .. MaxPageSize : \A p \in Nat \ {0} :
             PageSound(Ladder(mishap)[size][p], size, p, Honest(mishap))
<1> DEFINE R == Ladder(mishap)
           S == {n \in Nat : n \in 1 .. MaxPageSize =>
                   \A p \in Nat \ {0} : PageSound(R[n][p], n, p, Honest(mishap))}
<1>1. MaxPageSize \in Nat
  BY CrawlAssumption
<1>2. \A n \in 1 .. MaxPageSize : \A p \in Nat :
        R[n][p] = ReadPage(mishap, R[n \div LadderStep], n, p, FALSE)
  BY LadderEquation
<1> HIDE DEF R
<1>3. ASSUME NEW n \in Nat, \A k \in Nat : k < n => k \in S
      PROVE  n \in S
  <2>1. SUFFICES ASSUME n \in 1 .. MaxPageSize, NEW p \in Nat \ {0}
                 PROVE  PageSound(R[n][p], n, p, Honest(mishap))
    OBVIOUS
  <2>2. ASSUME Splittable(n), NEW q \in Nat \ {0}
        PROVE  PageSound(R[n \div LadderStep][q], n \div LadderStep, q, Honest(mishap))
    <3>1. n \div LadderStep \in Nat \ {0} /\ n \div LadderStep < n
      BY <2>2, SplitSize
    <3>2. n \div LadderStep \in S /\ n \div LadderStep \in 1 .. MaxPageSize
      BY <1>1, <1>3, <2>1, <3>1
    <3>3. QED
      BY <3>2
  <2>3. PageSound(ReadPage(mishap, R[n \div LadderStep], n, p, FALSE), n, p, Honest(mishap))
    <3>1. n \in Nat \ {0}
      BY <2>1
    <3>2. QED
      BY <2>2, <3>1, ReadPageSound
  <2>4. QED
    BY <1>2, <2>1, <2>3
<1>4. Nat \subseteq S
  <2> HIDE DEF S
  <2>1. QED
    BY <1>3, Lemmas!StrongInduction
<1>5. ASSUME NEW size \in 1 .. MaxPageSize, NEW p \in Nat \ {0}
      PROVE  PageSound(R[size][p], size, p, Honest(mishap))
  <2>1. size \in Nat
    BY <1>1
  <2>2. QED
    BY <1>4, <2>1
<1>6. QED
  BY <1>5 DEF R

(* A full-size page is sound, whatever goes wrong (iter_records).          *)
THEOREM PageItemsSound ==
    ASSUME NEW mishap, IsMishap(mishap), NEW p \in Nat \ {0}, NEW alive \in BOOLEAN,
           tells \in BOOLEAN
    PROVE  PageSound(PageItems(mishap, p, alive), MaxPageSize, p, Honest(mishap))
<1> DEFINE slices == Ladder(mishap)[MaxPageSize \div LadderStep]
<1>1. MaxPageSize \in Nat \ {0}
  BY CrawlAssumption
<1>2. ASSUME Splittable(MaxPageSize), NEW q \in Nat \ {0}
      PROVE  PageSound(slices[q], MaxPageSize \div LadderStep, q, Honest(mishap))
  <2>1. MaxPageSize \div LadderStep \in 1 .. MaxPageSize
    BY <1>1, <1>2, SplitSize
  <2>2. QED
    BY <2>1, LadderSound
<1>3. PageSound(ReadPage(mishap, slices, MaxPageSize, p, ~alive), MaxPageSize, p, Honest(mishap))
  <2> HIDE DEF slices
  <2>1. QED
    BY <1>1, <1>2, ReadPageSound
<1>4. QED
  BY <1>3 DEF PageItems

(* A turn in which nothing goes wrong with the host.                       *)
LEMMA NoMishapIsHonest == IsMishap(NoMishap) /\ Honest(NoMishap)
<1>1. DOMAIN NoMishap = {}
  BY DEF NoMishap
<1>2. QED
  BY <1>1 DEF IsMishap, Honest

(* Where the slices of a page lose only broken records, so do they joined. *)
LEMMA SlicesReadLossless ==
    ASSUME NEW size \in Nat, Splittable(size), NEW p \in Nat \ {0}, tells \in BOOLEAN, NEW slices,
           \A q \in Nat \ {0} : PageSound(slices[q], size \div LadderStep, q, TRUE),
           \A q \in Nat \ {0} : Lossless(slices[q], size \div LadderStep, q)
    PROVE  \A i \in 0 .. LadderStep :
             /\ SlicesRead(slices, size, p)[i].err = "none"
             /\ FirstSlices(size, p, i) \ SlicesRead(slices, size, p)[i].items \subseteq broken
<1> DEFINE R == SlicesRead(slices, size, p)
           sub == size \div LadderStep
           S == {i \in 0 .. LadderStep :
                   R[i].err = "none" /\ FirstSlices(size, p, i) \ R[i].items \subseteq broken}
           q(i) == (p - 1) * LadderStep + 1 + i
<1>1. LadderStep \in Nat
  BY CrawlAssumption
<1>2. 0 \in S
  <2>1. R[0] = NothingRead /\ FirstSlices(size, p, 0) = {}
    BY SlicesReadEquation, SlicesOfPage
  <2>2. NothingRead.err = "none"
    BY DEF NothingRead, Raise
  <2>3. QED
    BY <1>1, <2>1, <2>2
<1>3. ASSUME NEW i \in 0 .. LadderStep, i < LadderStep, i \in S PROVE i + 1 \in S
  <2>1. i \in 0 .. LadderStep - 1 /\ i + 1 \in 0 .. LadderStep /\ q(i) \in Nat \ {0}
    BY <1>1, <1>3
  <2>2. JoinedSlices(R[i], size, p, i, TRUE)
    BY <2>1, SlicesReadSound
  <2>3. R[i + 1] = JoinSlice(R[i], slices[q(i)], sub, i + 1 = LadderStep)
    <3>1. (p - 1) * LadderStep + 1 + (i + 1) - 1 = q(i)
      BY <1>1
    <3>2. QED
      BY <1>3, <2>1, <3>1, SlicesReadEquation
  <2>4. FirstSlices(size, p, i + 1) = FirstSlices(size, p, i) \union Slice(sub, q(i))
    BY <2>1, SlicesOfPage
  <2>5. /\ slices[q(i)].err # "refused"
        /\ Slice(sub, q(i)) \ slices[q(i)].items \subseteq broken
    BY <2>1 DEF Lossless
  <2>6. R[i].err = "none" /\ FirstSlices(size, p, i) \ R[i].items \subseteq broken
    BY <1>3
  <2> HIDE DEF R, sub, q
  <2>7. R[i + 1].err = "none" /\ R[i + 1].items = R[i].items \union slices[q(i)].items
    BY <2>2, <2>3, <2>5, <2>6 DEF JoinSlice, JoinedSlices
  <2>8. QED
    BY <2>1, <2>4, <2>5, <2>6, <2>7
<1>4. 0 .. LadderStep \subseteq S
  <2> HIDE DEF S
  <2>1. QED
    BY <1>1, <1>2, <1>3, Lemmas!UpToInduction
<1>5. QED
  BY <1>4

(* While the host answers, a page whose slices lose only broken records    *)
(* loses only broken records; the smallest page is one record.             *)
LEMMA ReadPageLossless ==
    ASSUME NEW size \in Rungs, NEW p \in Nat \ {0}, tells \in BOOLEAN, NEW slices,
           Splittable(size) =>
             \A q \in Nat \ {0} : PageSound(slices[q], size \div LadderStep, q, TRUE),
           Splittable(size) =>
             \A q \in Nat \ {0} : Lossless(slices[q], size \div LadderStep, q)
    PROVE  Lossless(ReadPage(NoMishap, slices, size, p, FALSE), size, p)
<1> DEFINE a == Reply(NoMishap, size, p)
           direct == FetchPage(a, size, p)
           acc == SlicesRead(slices, size, p)[LadderStep]
           r == ReadPage(NoMishap, slices, size, p, FALSE)
<1>1. size \in Nat \ {0} /\ MaxPageSize \in Nat /\ LadderStep \in Nat /\ NumRecords \in Nat
  BY CrawlAssumption DEF Rungs
<1>2. /\ a \in {"ok", "broken"}
      /\ a = "broken" => Slice(size, p) \intersect broken # {}
  <2>1. DOMAIN NoMishap = {}
    BY DEF NoMishap
  <2>2. QED
    BY <2>1 DEF Reply
<1>3. r = IF direct.err # "broken" \/ ~Splittable(size) THEN direct ELSE Summarise(acc, size, p)
  BY DEF ReadPage
<1> HIDE DEF a, acc, r
<1>4. CASE a = "ok"
  <2>1. direct.err = "none" /\ direct.items = Slice(size, p)
    BY <1>4 DEF FetchPage
  <2>2. r = direct
    BY <1>3, <2>1
  <2> HIDE DEF direct
  <2>3. QED
    BY <2>1, <2>2 DEF Lossless, r
<1>5. CASE a = "broken" /\ ~Splittable(size)
  <2>1. direct.err = "broken" /\ direct.items = {}
    BY <1>5 DEF FetchPage, Raise
  <2>2. r = direct
    BY <1>3, <1>5
  <2>3. size = 1
    BY <1>1, <1>5, LadderAssumption DEF Splittable
  <2>4. Slice(size, p) \subseteq {p}
    BY <1>1, <2>3 DEF Slice
  <2>5. Slice(size, p) \subseteq broken
    BY <1>2, <1>5, <2>4
  <2> HIDE DEF direct
  <2>6. QED
    BY <2>1, <2>2, <2>5 DEF Lossless, r
<1>6. CASE a = "broken" /\ Splittable(size)
  <2>1. direct.err = "broken"
    BY <1>6 DEF FetchPage, Raise
  <2>2. r = Summarise(acc, size, p)
    BY <1>3, <1>6, <2>1
  <2>3. /\ acc.err = "none" /\ Slice(size, p) \ acc.items \subseteq broken
        /\ JoinedSlices(acc, size, p, LadderStep, TRUE)
    <3>1. LadderStep \in 0 .. LadderStep /\ FirstSlices(size, p, LadderStep) = Slice(size, p)
      BY <1>1, <1>6, SlicesOfPage
    <3>2. FirstSlices(size, p, LadderStep) \ acc.items \subseteq broken /\ acc.err = "none"
      BY <1>1, <1>6, <3>1, SlicesReadLossless DEF acc
    <3>3. JoinedSlices(acc, size, p, LadderStep, TRUE)
      BY <1>1, <1>6, <3>1, SlicesReadSound DEF acc
    <3>4. QED
      BY <3>1, <3>2, <3>3
  <2>4. /\ r.err = IF acc.items = {} THEN "broken" ELSE "none"
        /\ r.items = acc.items
    <3> DEFINE honest == Honest(NoMishap)
               x == Summarise(acc, size, p)
    <3>1. honest \in BOOLEAN /\ JoinedSlices(acc, size, p, LadderStep, honest)
      <4>1. honest = TRUE
        BY NoMishapIsHonest DEF Honest
      <4>2. QED
        BY <2>3, <4>1
    <3> HIDE DEF honest
    <3>2. /\ x.err = IF acc.err = "none" /\ acc.items = {} THEN "broken" ELSE acc.err
          /\ x.items = IF acc.err = "none" THEN acc.items ELSE {}
      BY <1>1, <1>6, <3>1, SummariseSound
    <3> HIDE DEF x, direct
    <3>3. QED
      BY <2>2, <2>3, <3>2 DEF x
  <2>5. QED
    BY <2>3, <2>4 DEF Lossless, r
<1>7. QED
  BY <1>2, <1>4, <1>5, <1>6

(* While the host answers, the whole ladder loses only broken records.     *)
LEMMA LadderLossless ==
    ASSUME tells \in BOOLEAN
    PROVE  \A size \in Rungs : \A p \in Nat \ {0} : Lossless(Ladder(NoMishap)[size][p], size, p)
<1> DEFINE R == Ladder(NoMishap)
           S == {n \in Nat : n \in Rungs => \A p \in Nat \ {0} : Lossless(R[n][p], n, p)}
<1>1. MaxPageSize \in Nat /\ Rungs \subseteq 1 .. MaxPageSize
  BY CrawlAssumption DEF Rungs
<1>2. \A n \in 1 .. MaxPageSize : \A p \in Nat :
        R[n][p] = ReadPage(NoMishap, R[n \div LadderStep], n, p, FALSE)
  BY LadderEquation
<1>3. \A n \in 1 .. MaxPageSize : \A p \in Nat \ {0} : PageSound(R[n][p], n, p, TRUE)
  BY LadderSound, NoMishapIsHonest
<1> HIDE DEF R
<1>4. ASSUME NEW n \in Nat, \A k \in Nat : k < n => k \in S
      PROVE  n \in S
  <2>1. SUFFICES ASSUME n \in Rungs, NEW p \in Nat \ {0} PROVE Lossless(R[n][p], n, p)
    OBVIOUS
  <2>2. CASE Splittable(n)
    <3>1. /\ n \div LadderStep \in Nat \ {0} /\ n \div LadderStep < n
          /\ n \div LadderStep \in 1 .. MaxPageSize
      BY <1>1, <2>1, <2>2, SplitSize
    <3>2. n \div LadderStep \in Rungs
      BY <2>1, <2>2, LadderAssumption DEF Splittable
    <3>3. n \div LadderStep \in S
      BY <1>4, <3>1
    <3>4. \A q \in Nat \ {0} : Lossless(R[n \div LadderStep][q], n \div LadderStep, q)
      BY <3>2, <3>3
    <3>5. \A q \in Nat \ {0} : PageSound(R[n \div LadderStep][q], n \div LadderStep, q, TRUE)
      BY <1>3, <3>1
    <3>6. Lossless(ReadPage(NoMishap, R[n \div LadderStep], n, p, FALSE), n, p)
      BY <2>1, <3>4, <3>5, ReadPageLossless
    <3>7. QED
      BY <1>1, <1>2, <2>1, <3>6
  <2>3. CASE ~Splittable(n)
    <3>1. Lossless(ReadPage(NoMishap, R[n \div LadderStep], n, p, FALSE), n, p)
      BY <2>1, <2>3, ReadPageLossless
    <3>2. QED
      BY <1>1, <1>2, <2>1, <3>1
  <2>4. QED
    BY <2>2, <2>3
<1>5. Nat \subseteq S
  <2> HIDE DEF S
  <2>1. QED
    BY <1>4, Lemmas!StrongInduction
<1>6. ASSUME NEW size \in Rungs, NEW p \in Nat \ {0}
      PROVE  Lossless(R[size][p], size, p)
  <2>1. size \in Nat
    BY <1>1
  <2>2. QED
    BY <1>5, <2>1
<1>7. QED
  BY <1>6 DEF R

(* While the host answers and the feed is not taken for dead, a full-size  *)
(* page loses only broken records (_page_items).                           *)
THEOREM PageItemsLossless ==
    ASSUME NEW p \in Nat \ {0}, tells \in BOOLEAN
    PROVE  Lossless(PageItems(NoMishap, p, TRUE), MaxPageSize, p)
<1> DEFINE slices == Ladder(NoMishap)[MaxPageSize \div LadderStep]
<1>1. MaxPageSize \in Rungs /\ MaxPageSize \in Nat
  BY LadderAssumption, CrawlAssumption
<1>2. ASSUME Splittable(MaxPageSize), NEW q \in Nat \ {0}
      PROVE  /\ PageSound(slices[q], MaxPageSize \div LadderStep, q, TRUE)
             /\ Lossless(slices[q], MaxPageSize \div LadderStep, q)
  <2>1. MaxPageSize \div LadderStep \in 1 .. MaxPageSize
    BY <1>1, <1>2, SplitSize
  <2>2. MaxPageSize \div LadderStep \in Rungs
    BY <1>1, <1>2, LadderAssumption DEF Splittable
  <2>3. QED
    BY <2>1, <2>2, LadderSound, LadderLossless, NoMishapIsHonest
<1>3. Lossless(ReadPage(NoMishap, slices, MaxPageSize, p, FALSE), MaxPageSize, p)
  <2> HIDE DEF slices
  <2>1. QED
    BY <1>1, <1>2, ReadPageLossless
<1>4. PageItems(NoMishap, p, TRUE) = ReadPage(NoMishap, slices, MaxPageSize, p, FALSE)
  BY DEF PageItems
<1>5. QED
  BY <1>3, <1>4

(* What became of the first slice of a page stays in what is read of it.   *)
LEMMA FirstSliceKept ==
    ASSUME NEW size \in Nat, Splittable(size), NEW p \in Nat \ {0}, tells \in BOOLEAN, NEW slices,
           NEW honest \in BOOLEAN,
           \A q \in Nat \ {0} : PageSound(slices[q], size \div LadderStep, q, honest)
    PROVE  LET R == SlicesRead(slices, size, p)[LadderStep]
               one == slices[(p - 1) * LadderStep + 1]
           IN  IF one.err = "refused" THEN R.err = "refused" ELSE one.items \subseteq R.items
<1> DEFINE R == SlicesRead(slices, size, p)
           sub == size \div LadderStep
           one == slices[(p - 1) * LadderStep + 1]
           StaysRead(i) == IF one.err = "refused" THEN R[i].err = "refused"
                      ELSE one.items \subseteq R[i].items
           S == {i \in 0 .. LadderStep : i > 0 => StaysRead(i)}
           q(i) == (p - 1) * LadderStep + 1 + i
<1>1. LadderStep \in Nat /\ LadderStep > 1
  BY CrawlAssumption
<1>2. 0 \in S
  BY <1>1
<1>3. ASSUME NEW i \in 0 .. LadderStep, i < LadderStep, i \in S PROVE i + 1 \in S
  <2>1. i \in 0 .. LadderStep - 1 /\ i + 1 \in 0 .. LadderStep
    BY <1>1, <1>3
  <2>2. JoinedSlices(R[i], size, p, i, honest)
    BY <2>1, SlicesReadSound
  <2>3. R[i + 1] = IF R[i].err # "none" THEN R[i]
                   ELSE JoinSlice(R[i], slices[q(i)], sub, i + 1 = LadderStep)
    <3>1. (p - 1) * LadderStep + 1 + (i + 1) - 1 = q(i)
      BY <1>1
    <3>2. QED
      BY <2>1, <3>1, SlicesReadEquation
  <2>4. R[0] = NothingRead /\ NothingRead.err = "none"
    BY SlicesReadEquation DEF NothingRead, Raise
  <2>5. q(0) = (p - 1) * LadderStep + 1
    BY <1>1
  <2>6. i > 0 => StaysRead(i)
    BY <1>3
  <2> HIDE DEF R, sub, q
  <2>7. R[i].err = "none" =>
          LET next == JoinSlice(R[i], slices[q(i)], sub, i + 1 = LadderStep)
          IN  IF slices[q(i)].err = "refused" THEN next.err = "refused"
              ELSE next.err = "none" /\ next.items = R[i].items \union slices[q(i)].items
    BY <2>2 DEF JoinSlice, JoinedSlices
  <2>8. R[i].err = "none" => R[i].items \subseteq R[i + 1].items
    <3>1. CASE R[i].err = "none" /\ slices[q(i)].err = "refused"
      BY <2>2, <2>3, <3>1 DEF JoinSlice, JoinedSlices
    <3>2. CASE R[i].err = "none" /\ slices[q(i)].err # "refused"
      BY <2>3, <2>7, <3>2
    <3>3. QED
      BY <3>1, <3>2
  <2>9. StaysRead(i + 1)
    <3>1. CASE i = 0
      <4>1. slices[q(i)] = one
        BY <2>5, <3>1
      <4>2. R[i].err = "none"
        BY <2>4, <3>1
      <4>3. QED
        BY <2>3, <2>7, <4>1, <4>2
    <3>2. CASE i > 0 /\ R[i].err # "none"
      BY <2>3, <2>6, <3>2
    <3>3. CASE i > 0 /\ R[i].err = "none"
      <4>1. one.err # "refused" /\ one.items \subseteq R[i].items
        BY <2>6, <3>3
      <4>2. QED
        BY <2>8, <3>3, <4>1
    <3>4. QED
      BY <2>1, <3>1, <3>2, <3>3
  <2>10. QED
    BY <2>1, <2>9
<1>4. 0 .. LadderStep \subseteq S
  <2> HIDE DEF S
  <2>1. QED
    BY <1>1, <1>2, <1>3, Lemmas!UpToInduction
<1>5. LadderStep \in S
  BY <1>1, <1>4
<1>6. QED
  BY <1>1, <1>5

(* A page of the feed that fails while the feed is taken for dead has cost *)
(* two requests at most (_recover_page, bail_on_first).                    *)
LEMMA OutagePage ==
    ASSUME NEW mishap, IsMishap(mishap), Honest(mishap), NEW p \in Nat \ {0}, tells \in BOOLEAN,
           Slice(MaxPageSize, p) # {},
           PageItems(mishap, p, FALSE).err = "broken"
    PROVE  PageItems(mishap, p, FALSE).asked <= 2
<1> DEFINE sub == MaxPageSize \div LadderStep
           slices == Ladder(mishap)[sub]
           q == (p - 1) * LadderStep + 1
           direct == FetchPage(Reply(mishap, MaxPageSize, p), MaxPageSize, p)
           first == Reply(mishap, sub, q)
           acc == SlicesRead(slices, MaxPageSize, p)[LadderStep]
           r == PageItems(mishap, p, FALSE)
<1>1. MaxPageSize \in Nat \ {0} /\ LadderStep \in Nat /\ NumRecords \in Nat
  BY CrawlAssumption
<1>2. r = IF direct.err # "broken" \/ ~Splittable(MaxPageSize) THEN direct
          ELSE IF first = "broken" THEN Raise("broken", 2)
          ELSE Summarise(acc, MaxPageSize, p)
  BY DEF PageItems, ReadPage
<1>3. direct.asked = 1
  BY <1>1, FetchSound
<1>4. Raise("broken", 2).asked = 2
  BY DEF Raise
<1>5. ASSUME Splittable(MaxPageSize), first # "broken", r = Summarise(acc, MaxPageSize, p)
      PROVE  FALSE
  <2> DEFINE honest == Honest(mishap)
  <2>1. /\ sub \in Nat \ {0} /\ sub \in 1 .. MaxPageSize /\ MaxPageSize = LadderStep * sub
        /\ q \in Nat \ {0} /\ honest \in BOOLEAN
    BY <1>1, <1>5, SplitSize DEF Honest
  <2>2. \A s \in Nat \ {0} : PageSound(slices[s], sub, s, honest)
    BY <2>1, LadderSound
  <2> HIDE DEF honest
  <2>3. JoinedSlices(acc, MaxPageSize, p, LadderStep, honest)
    BY <1>1, <1>5, <2>1, <2>2, SlicesReadSound
  <2>4. IF slices[q].err = "refused" THEN acc.err = "refused" ELSE slices[q].items \subseteq acc.items
    BY <1>1, <1>5, <2>1, <2>2, FirstSliceKept
  <2>5. r.err = IF acc.err = "none" /\ acc.items = {} THEN "broken" ELSE acc.err
    <3>1. Summarise(acc, MaxPageSize, p).err =
            IF acc.err = "none" /\ acc.items = {} THEN "broken" ELSE acc.err
      BY <1>1, <1>5, <2>1, <2>3, SummariseSound
    <3> HIDE DEF acc, r
    <3>2. QED
      BY <1>5, <3>1
  <2>6. acc.err = "none" /\ acc.items = {}
    BY <2>3, <2>5 DEF JoinedSlices
  <2>7. Slice(sub, q) # {}
    <3>1. PICK e \in Slice(MaxPageSize, p) : TRUE
      OBVIOUS
    <3> DEFINE lo == (p - 1) * MaxPageSize
    <3>2. /\ lo \in Nat /\ lo < e /\ e \in 1 .. NumRecords
          /\ lo = (q - 1) * sub /\ q * sub = lo + sub
      <4>1. lo \in Nat /\ lo < e /\ e \in 1 .. NumRecords
        BY <1>1 DEF Slice
      <4>2. lo = (p - 1) * LadderStep * sub
        <5> HIDE DEF sub
        <5>1. (p - 1) * (LadderStep * sub) = (p - 1) * LadderStep * sub
          BY <1>1, <2>1
        <5>2. QED
          BY <2>1, <5>1
      <4>3. q - 1 = (p - 1) * LadderStep
        BY <1>1
      <4> HIDE DEF sub, lo, q
      <4>4. lo = (q - 1) * sub
        BY <4>2, <4>3
      <4>5. q * sub = (q - 1) * sub + sub
        BY <2>1
      <4>6. QED
        BY <4>1, <4>4, <4>5
    <3> HIDE DEF lo, sub, q
    <3>3. lo + 1 \in Slice(sub, q)
      BY <1>1, <2>1, <3>2 DEF Slice
    <3>4. QED
      BY <3>3
  <2>8. slices[q] = ReadPage(mishap, Ladder(mishap)[sub \div LadderStep], sub, q, FALSE)
    BY <2>1, LadderEquation
  <2> DEFINE reply == FetchPage(first, sub, q)
  <2>9. reply.err # "broken" /\ slices[q] = reply
    <3>1. first \in {"ok", "refused"}
      BY <1>5, <2>1, FetchSound
    <3>2. reply.err # "broken"
      BY <3>1 DEF FetchPage, Raise
    <3>3. QED
      BY <2>8, <3>2 DEF ReadPage
  <2>10. first = "ok" => slices[q].items = Slice(sub, q)
    BY <2>9 DEF FetchPage
  <2>11. first = "refused" => slices[q].err = "refused"
    BY <2>9 DEF FetchPage, Raise
  <2>12. first \in {"ok", "refused"}
    BY <1>5, <2>1, FetchSound
  <2>13. first = "ok" => slices[q].err # "refused"
    BY <2>9 DEF FetchPage
  <2> HIDE DEF sub, q, first, acc, r, slices
  <2>14. QED
    BY <2>4, <2>6, <2>7, <2>10, <2>11, <2>12, <2>13
<1> HIDE DEF direct, first, acc, r
<1>6. r.asked <= 2
  <2>1. CASE r = direct
    BY <1>3, <2>1
  <2>2. CASE r = Raise("broken", 2)
    BY <1>4, <2>2
  <2>3. QED
    BY <1>2, <1>5, <2>1, <2>2
<1>7. QED
  BY <1>6 DEF r

(***************************************************************************)
(* The invariant of the crawl.                                             *)
(***************************************************************************)
(* The last page the crawl has dealt with.                                 *)
Done == IF outcome = "crawling" THEN page - 1 ELSE page

CrawlTypeOK ==
    /\ broken \subseteq 1 .. NumRecords
    /\ tells \in BOOLEAN
    /\ cap \in Nat
    /\ page \in Nat \ {0}
    /\ got \subseteq 1 .. NumRecords
    /\ lost \in Nat
    /\ skipped \subseteq 1 .. Done
    /\ failures \in Nat
    /\ unreachable \in Nat
    /\ knownTotal \in {Unknown, NumPages}
    /\ outcome \in {"crawling", "exhausted", "assumedEnd", "aborted"}
    /\ requests \in Nat
    /\ faulty \subseteq 1 .. Done
    /\ hollow \subseteq 1 .. Done

(* A crawl that goes on has skips left; beyond the end of the feed it has  *)
(* skipped every page; and it is in a row of failures when the last page   *)
(* is skipped.                                                             *)
WithinBudget ==
    /\ outcome = "crawling" => Cardinality(skipped) <= MaxSkippedPages
    /\ outcome = "crawling" => NumPages + 1 .. Done \subseteq skipped
    /\ failures <= Cardinality(skipped)
    /\ failures > 0 <=> Done \in skipped

(* A crawl that has read nothing has skipped every page and knows no       *)
(* length; one that has read of a feed that tells its length knows it; and *)
(* one that ends normally has come to the end of the feed.                 *)
LengthKnown ==
    /\ outcome = "crawling" /\ got = {} => 1 .. Done \subseteq skipped
    /\ outcome = "crawling" /\ knownTotal # Unknown => got # {}
    /\ tells /\ got # {} => knownTotal # Unknown
    /\ WholeFeedRead => Done >= NumPages

(* The records of the pages behind the crawl that it has neither yielded   *)
(* nor skipped with their page, those of pages answered hollow aside.      *)
LostSoFar == {r \in Missing : PageOf(r) <= Done /\ PageOf(r) \notin skipped \union hollow}

CountedSoFar == Cardinality(LostSoFar) <= lost

LossesExplained ==
    \A r \in Missing :
        PageOf(r) <= Done =>
            \/ r \in broken \/ PageOf(r) \in faulty
            \/ PageOf(r) = 1 \/ PageOf(r) - 1 \in skipped

CheapTurn ==
    failures >= 2 /\ unreachable = 0 /\ Done <= NumPages /\ Done \notin hollow => requests <= 2

CrawlInv ==
    /\ CrawlTypeOK /\ WithinBudget /\ LengthKnown
    /\ CountedSoFar /\ LossesExplained
    /\ NoEmptySnapshot /\ EndGuessedOnlyBlind /\ CheapTurn

(* A page of the feed has a record; a page beyond it has none.             *)
LEMMA PageHasRecords ==
    ASSUME NEW p \in Nat \ {0}
    PROVE  p <= NumPages <=> Slice(MaxPageSize, p) # {}
<1>1. /\ MaxPageSize \in Nat \ {0} /\ NumRecords \in Nat \ {0} /\ NumPages \in Nat \ {0}
      /\ p - 1 < NumPages <=> (p - 1) * MaxPageSize < NumRecords
  <2>1. MaxPageSize \in Nat \ {0} /\ NumRecords \in Nat \ {0} /\ p - 1 \in Nat
    BY CrawlAssumption
  <2>2. /\ NumPages \in Nat \ {0}
        /\ p - 1 < NumPages <=> (p - 1) * MaxPageSize < NumRecords
    BY <2>1, PagesBound DEF NumPages
  <2>3. QED
    BY <2>1, <2>2
<1>2. /\ (p - 1) * MaxPageSize \in Nat
      /\ p * MaxPageSize = (p - 1) * MaxPageSize + MaxPageSize
  BY <1>1
<1>3. ASSUME p <= NumPages PROVE (p - 1) * MaxPageSize + 1 \in Slice(MaxPageSize, p)
  <2>1. (p - 1) * MaxPageSize < NumRecords
    BY <1>1, <1>3
  <2> DEFINE lo == (p - 1) * MaxPageSize
  <2>2. Slice(MaxPageSize, p) = {r \in 1 .. NumRecords : lo < r /\ r <= lo + MaxPageSize}
    BY <1>2 DEF Slice
  <2> HIDE DEF lo
  <2>3. lo \in Nat /\ lo < NumRecords
    BY <1>2, <2>1 DEF lo
  <2>4. lo + 1 \in Slice(MaxPageSize, p)
    BY <1>1, <2>2, <2>3
  <2>5. QED
    BY <2>4 DEF lo
<1>4. ASSUME NEW r \in Slice(MaxPageSize, p) PROVE p <= NumPages
  <2>1. r \in 1 .. NumRecords
    BY <1>1, SliceSize
  <2>2. PageOf(r) = p /\ PageOf(r) \in 1 .. NumPages
    BY <2>1, PageOfSlice
  <2>3. QED
    BY <1>1, <2>2
<1>5. QED
  BY <1>3, <1>4

(* The feed has more pages than a crawl may skip.                          *)
LEMMA PagesExceedBudget ==
    NumPages \in Nat \ {0} /\ MaxSkippedPages \in Nat \ {0} /\ MaxSkippedPages < NumPages
<1>1. /\ MaxPageSize \in Nat \ {0} /\ MaxSkippedPages \in Nat \ {0}
      /\ MaxSkippedPages * MaxPageSize < NumRecords
  <2>1. /\ MaxPageSize \in Nat \ {0} /\ MaxSkippedPages \in Nat \ {0} /\ NumRecords \in Nat
    BY CrawlAssumption
  <2> DEFINE x == MaxSkippedPages * MaxPageSize
  <2>2. x \in Nat /\ NumRecords > x
    BY <2>1, BudgetAssumption
  <2> HIDE DEF x
  <2>3. x < NumRecords
    BY <2>1, <2>2
  <2>4. QED
    BY <2>1, <2>3 DEF x
<1>2. QED
  BY <1>1, PagesBound DEF NumPages

(* The pages of skipped are finitely many.                                 *)
LEMMA SkippedFinite ==
    ASSUME CrawlTypeOK
    PROVE  /\ IsFiniteSet(skipped) /\ Cardinality(skipped) \in Nat
           /\ Done \in Nat /\ page \in Nat \ {0}
<1>1. Done \in Nat /\ skipped \subseteq 1 .. Done /\ page \in Nat \ {0}
  BY DEF CrawlTypeOK, Done
<1>2. IsFiniteSet(1 .. Done)
  BY <1>1, FS_Interval
<1>3. QED
  BY <1>1, <1>2, FS_Subset, FS_CardinalityType

(* The bound on pages and on failures in a row is never reached.           *)
LEMMA NeverBounded ==
    ASSUME CrawlInv, outcome = "crawling"
    PROVE  Bounded(page + 1) = page + 1 /\ Bounded(failures + 1) = failures + 1
<1>1. /\ NumPages \in Nat \ {0} /\ MaxSkippedPages \in Nat \ {0}
      /\ IsFiniteSet(skipped) /\ Cardinality(skipped) \in Nat /\ page \in Nat \ {0}
      /\ failures \in Nat
  BY PagesExceedBudget, SkippedFinite DEF CrawlInv, CrawlTypeOK
<1>2. /\ Cardinality(skipped) <= MaxSkippedPages /\ failures <= Cardinality(skipped)
      /\ NumPages + 1 .. page - 1 \subseteq skipped
  BY DEF CrawlInv, WithinBudget, Done
<1>3. page - 1 <= NumPages + MaxSkippedPages
  <2>1. CASE page - 1 <= NumPages
    BY <1>1, <2>1
  <2>2. CASE NumPages + 1 <= page - 1
    <3>1. /\ IsFiniteSet(NumPages + 1 .. page - 1)
          /\ Cardinality(NumPages + 1 .. page - 1) = (page - 1) - (NumPages + 1) + 1
      BY <1>1, <2>2, FS_Interval
    <3>2. Cardinality(NumPages + 1 .. page - 1) <= Cardinality(skipped)
      BY <1>1, <1>2, FS_Subset
    <3>3. QED
      BY <1>1, <1>2, <3>1, <3>2
  <2>3. QED
    BY <1>1, <2>1, <2>2
<1>4. QED
  BY <1>1, <1>2, <1>3 DEF Bounded, PageBound

(***************************************************************************)
(* A turn of the crawl.                                                    *)
(***************************************************************************)
(* A turn whose page is sound; its losses are broken records, unless the   *)
(* host fails, the page is the first or the one before it was skipped; and *)
(* it is cheap when the page before it failed and no answer was hollow.    *)
SoundTurn(result) ==
    /\ outcome = "crawling"
    /\ Turn(result)
    /\ PageSound(result, MaxPageSize, page, page \notin hollow')
    /\ faulty \subseteq faulty' /\ faulty' \subseteq faulty \union {page}
    /\ hollow \subseteq hollow' /\ hollow' \subseteq hollow \union {page}
    /\ \/ page \in faulty' \/ page = 1 \/ page - 1 \in skipped
       \/ Slice(MaxPageSize, page) \ result.items \subseteq broken
    /\ failures > 0 /\ result.err = "broken" /\ page <= NumPages /\ page \notin hollow' =>
         result.asked <= 2

(* What may go wrong goes wrong in one of the known ways.                  *)
LEMMA MishapsAreMishaps ==
    ASSUME NEW p, NEW mishap \in Mishaps(p)
    PROVE  IsMishap(mishap)
<1>1. CASE mishap \in FewFail(p)
  <2>1. PICK S : mishap \in [S -> Failures \ {"refused"}]
    BY <1>1 DEF FewFail
  <2>2. QED
    BY <2>1 DEF IsMishap
<1>2. CASE mishap \in OneRefused(p)
  <2>1. PICK request \in LadderOf(p) : mishap \in [{request} -> {"refused"}]
    BY <1>2 DEF OneRefused
  <2>2. QED
    BY <2>1 DEF IsMishap, Failures
<1>3. CASE mishap \in Outages(p)
  <2>1. PICK other \in LadderOf(p), failure \in Failures :
          mishap = [request \in LadderOf(p) |-> IF request = other THEN failure ELSE "broken"]
    BY <1>3 DEF Outages
  <2>2. DOMAIN mishap = LadderOf(p)
    BY <2>1
  <2>3. \A request \in LadderOf(p) : mishap[request] \in {failure, "broken"}
    BY <2>1
  <2>4. QED
    BY <2>2, <2>3 DEF IsMishap, Failures
<1>4. QED
  BY <1>1, <1>2, <1>3 DEF Mishaps

(* Every turn is sound, by what the ladder brings.                         *)
LEMMA TurnsSound ==
    ASSUME CrawlInv, CrawlNext
    PROVE  \E result : SoundTurn(result)
<1>1. /\ page \in Nat \ {0} /\ tells \in BOOLEAN
      /\ outcome = "crawling" => hollow \subseteq 1 .. page - 1
  BY DEF CrawlInv, CrawlTypeOK, Done
<1>2. FeedAlive \in BOOLEAN
  BY DEF FeedAlive
<1>3. ASSUME NEW mishap, IsMishap(mishap)
      PROVE  PageSound(PageItems(mishap, page, FeedAlive), MaxPageSize, page, Honest(mishap))
  BY <1>1, <1>2, <1>3, PageItemsSound
<1>4. ASSUME NEW mishap, IsMishap(mishap), Honest(mishap),
             failures > 0, PageItems(mishap, page, FeedAlive).err = "broken", page <= NumPages
      PROVE  PageItems(mishap, page, FeedAlive).asked <= 2
  <2>1. FeedAlive = FALSE
    BY <1>4 DEF FeedAlive, CrawlInv, CrawlTypeOK
  <2>2. Slice(MaxPageSize, page) # {}
    BY <1>1, <1>4, PageHasRecords
  <2>3. QED
    BY <1>1, <1>4, <2>1, <2>2, OutagePage
<1>5. CASE QuietTurn
  <2>1. /\ outcome = "crawling" /\ faulty' = faulty /\ hollow' = hollow
        /\ Turn(PageItems(NoMishap, page, FeedAlive))
    BY <1>5 DEF QuietTurn, Results
  <2>2. \/ page = 1 \/ page - 1 \in skipped
        \/ Slice(MaxPageSize, page) \ PageItems(NoMishap, page, FeedAlive).items \subseteq broken
    <3>1. CASE page # 1 /\ page - 1 \notin skipped
      <4>1. failures = 0
        BY <2>1, <3>1 DEF CrawlInv, CrawlTypeOK, WithinBudget, Done
      <4>2. got # {}
        <5>1. page - 1 \in 1 .. page - 1
          BY <1>1, <3>1
        <5>2. got = {} => 1 .. page - 1 \subseteq skipped
          BY <2>1 DEF CrawlInv, LengthKnown, Done
        <5>3. QED
          BY <3>1, <5>1, <5>2
      <4>3. FeedAlive = TRUE
        BY <4>1, <4>2 DEF FeedAlive
      <4>4. QED
        BY <1>1, <4>3, PageItemsLossless DEF Lossless
    <3>2. QED
      BY <3>1
  <2>3. page \notin hollow'
    BY <1>1, <2>1
  <2>4. /\ PageSound(PageItems(NoMishap, page, FeedAlive), MaxPageSize, page, TRUE)
        /\ Honest(NoMishap) = TRUE
    BY <1>3, NoMishapIsHonest DEF Honest
  <2>5. SoundTurn(PageItems(NoMishap, page, FeedAlive))
    BY <1>4, <2>1, <2>2, <2>3, <2>4, NoMishapIsHonest DEF SoundTurn
  <2>6. QED
    BY <2>5
<1>6. CASE FaultyTurn
  <2>1. PICK mishap \in Mishaps(page) : /\ Honest(mishap)
                                        /\ Turn(PageItems(mishap, page, FeedAlive))
    BY <1>6 DEF FaultyTurn, Results
  <2>2. outcome = "crawling" /\ faulty' = faulty \union {page} /\ hollow' = hollow
    BY <1>6 DEF FaultyTurn
  <2>3. page \notin hollow' /\ IsMishap(mishap)
    BY <1>1, <2>2, MishapsAreMishaps
  <2>4. /\ PageSound(PageItems(mishap, page, FeedAlive), MaxPageSize, page, TRUE)
    BY <1>3, <2>1, <2>3 DEF Honest
  <2>5. SoundTurn(PageItems(mishap, page, FeedAlive))
    BY <1>4, <2>1, <2>2, <2>3, <2>4 DEF SoundTurn
  <2>6. QED
    BY <2>5
<1>7. CASE HollowTurn
  <2>1. PICK mishap \in Mishaps(page) : /\ ~Honest(mishap)
                                        /\ Turn(PageItems(mishap, page, FeedAlive))
    BY <1>7 DEF HollowTurn, Results
  <2>2. /\ outcome = "crawling" /\ faulty' = faulty \union {page}
        /\ hollow' = hollow \union {page}
    BY <1>7 DEF HollowTurn
  <2>3. PageSound(PageItems(mishap, page, FeedAlive), MaxPageSize, page, FALSE)
    BY <1>3, <2>1, MishapsAreMishaps DEF Honest
  <2>4. SoundTurn(PageItems(mishap, page, FeedAlive))
    BY <2>1, <2>2, <2>3 DEF SoundTurn
  <2>5. QED
    BY <2>4
<1>8. QED
  BY <1>5, <1>6, <1>7 DEF CrawlNext

(* What KeepPage does, the bounds on the counters left aside.              *)
LEMMA KeepStep ==
    ASSUME CrawlInv, NEW result, SoundTurn(result), KeepPage(result)
    PROVE  /\ UNCHANGED <<broken, tells, cap, skipped>>
           /\ requests' = result.asked
           /\ got' = got \union result.items /\ lost' = lost + result.lost
           /\ failures' = 0 /\ unreachable' = 0
           /\ knownTotal' = IF result.total = Unknown THEN knownTotal ELSE NumPages
           /\ \/ /\ outcome' = "exhausted" /\ page' = page
                 /\ result.more # "yes" \/ EndsAtCap
              \/ /\ outcome' = "crawling" /\ page' = page + 1
                 /\ result.more = "yes"
           /\ Done' = page
<1>1. outcome = "crawling" /\ page \in Nat
  BY DEF SoundTurn, CrawlInv, CrawlTypeOK
<1>2. Bounded(page + 1) = page + 1
  BY <1>1, NeverBounded
<1>3. UNCHANGED <<broken, tells, cap>> /\ requests' = result.asked
  BY DEF SoundTurn, Turn, feed
<1>4. \/ outcome' = "exhausted" /\ page' = page /\ (result.more # "yes" \/ EndsAtCap)
      \/ outcome' = "crawling" /\ page' = page + 1 /\ result.more = "yes"
  BY <1>1, <1>2 DEF KeepPage, NextPage
<1>5. Done' = page
  BY <1>1, <1>4 DEF Done
<1>6. QED
  BY <1>3, <1>4, <1>5 DEF KeepPage, NumPages

(* What SkipPage does, the bounds on the counters left aside.              *)
LEMMA SkipStep ==
    ASSUME CrawlInv, NEW result, SoundTurn(result), SkipPage(result)
    PROVE  /\ UNCHANGED <<broken, tells, cap, got, lost, knownTotal>>
           /\ requests' = result.asked
           /\ skipped' = skipped \union {page}
           /\ failures' = failures + 1
           /\ unreachable' = IF result.err = "refused" THEN unreachable + 1 ELSE 0
           /\ result.err # "none" /\ result.items = {}
           /\ \/ outcome' = "aborted" /\ page' = page
              \/ outcome' = "assumedEnd" /\ page' = page /\ knownTotal = Unknown /\ got # {}
              \/ /\ outcome' = "exhausted" /\ page' = page
                 /\ (knownTotal # Unknown /\ page >= knownTotal) \/ EndsAtCap
              \/ /\ outcome' = "crawling" /\ page' = page + 1
                 /\ Cardinality(skipped') <= MaxSkippedPages
           /\ Done' = page
           /\ IsFiniteSet(skipped') /\ Cardinality(skipped') = Cardinality(skipped) + 1
<1>1. outcome = "crawling" /\ page \in Nat \ {0} /\ skipped \subseteq 1 .. page - 1
  BY DEF SoundTurn, CrawlInv, CrawlTypeOK, Done
<1>2. Bounded(page + 1) = page + 1 /\ Bounded(failures + 1) = failures + 1
  BY <1>1, NeverBounded
<1>3. /\ UNCHANGED <<broken, tells, cap, got, lost, knownTotal>> /\ requests' = result.asked
      /\ skipped' = skipped \union {page} /\ failures' = failures + 1
      /\ unreachable' = IF result.err = "refused" THEN unreachable + 1 ELSE 0
      /\ result.err # "none"
  BY <1>2 DEF SoundTurn, Turn, feed, SkipPage
<1>4. result.items = {}
  BY <1>3 DEF SoundTurn, PageSound
<1>5. /\ IsFiniteSet(skipped') /\ Cardinality(skipped') = Cardinality(skipped) + 1
      /\ Cardinality(skipped) \in Nat
  <2>1. IsFiniteSet(skipped) /\ Cardinality(skipped) \in Nat
    BY SkippedFinite DEF CrawlInv
  <2>2. page \notin skipped
    BY <1>1
  <2>3. QED
    BY <1>3, <2>1, <2>2, FS_AddElement
<1>6. /\ TooManyUnreachable \in BOOLEAN /\ TooManySkipped \in BOOLEAN /\ EndAssumed \in BOOLEAN
      /\ EndsAtCap \in BOOLEAN
  BY DEF TooManyUnreachable, TooManySkipped, EndAssumed, EndsAtCap
<1>7. /\ TooManyUnreachable \/ TooManySkipped => outcome' = "aborted" /\ page' = page
      /\ ~TooManyUnreachable /\ ~TooManySkipped /\ EndAssumed =>
           outcome' = "assumedEnd" /\ page' = page
      /\ ~TooManyUnreachable /\ ~TooManySkipped /\ ~EndAssumed =>
           IF (knownTotal # Unknown /\ page >= knownTotal) \/ EndsAtCap
           THEN outcome' = "exhausted" /\ UNCHANGED page
           ELSE NextPage /\ UNCHANGED outcome
  BY <1>6 DEF SkipPage
<1>8. MaxSkippedPages \in Nat
  BY PagesExceedBudget
<1>9. ~TooManySkipped => Cardinality(skipped') <= MaxSkippedPages
  BY <1>5, <1>8 DEF TooManySkipped
<1>10. \/ outcome' = "aborted" /\ page' = page
       \/ outcome' = "assumedEnd" /\ page' = page /\ knownTotal = Unknown /\ got # {}
       \/ /\ outcome' = "exhausted" /\ page' = page
          /\ (knownTotal # Unknown /\ page >= knownTotal) \/ EndsAtCap
       \/ /\ outcome' = "crawling" /\ page' = page + 1
          /\ Cardinality(skipped') <= MaxSkippedPages
  <2>1. CASE TooManyUnreachable \/ TooManySkipped
    BY <1>7, <2>1
  <2>2. CASE ~TooManyUnreachable /\ ~TooManySkipped /\ EndAssumed
    BY <1>7, <2>2 DEF EndAssumed
  <2>3. CASE ~TooManyUnreachable /\ ~TooManySkipped /\ ~EndAssumed
    BY <1>1, <1>2, <1>7, <1>9, <2>3 DEF NextPage
  <2>4. QED
    BY <1>6, <2>1, <2>2, <2>3
<1>11. Done' = page
  BY <1>1, <1>10 DEF Done
<1>12. QED
  BY <1>3, <1>4, <1>5, <1>10, <1>11

(* The turns of the crawl keep the types.                                  *)
LEMMA TypesKept ==
    ASSUME CrawlInv, NEW result, SoundTurn(result)
    PROVE  CrawlTypeOK'
<1>1. CrawlTypeOK /\ outcome = "crawling"
  BY DEF CrawlInv, SoundTurn
<1>2. /\ result.items \subseteq 1 .. NumRecords /\ result.lost \in Nat /\ result.asked \in Nat
      /\ faulty' \subseteq faulty \union {page} /\ hollow' \subseteq hollow \union {page}
  <2>1. /\ result.items \subseteq Slice(MaxPageSize, page)
        /\ result.lost \in Nat /\ result.asked \in Nat
        /\ faulty' \subseteq faulty \union {page} /\ hollow' \subseteq hollow \union {page}
    BY DEF SoundTurn, PageSound, PageResults
  <2>2. MaxPageSize \in Nat /\ page \in Nat \ {0}
    BY <1>1, CrawlAssumption DEF CrawlTypeOK
  <2>3. QED
    BY <2>1, <2>2, SliceSize
<1>3. /\ page \in Nat \ {0} /\ skipped \subseteq 1 .. page - 1
      /\ faulty \subseteq 1 .. page - 1 /\ hollow \subseteq 1 .. page - 1
  BY <1>1 DEF CrawlTypeOK, Done
<1>4. /\ faulty' \subseteq 1 .. page /\ hollow' \subseteq 1 .. page
      /\ skipped \union {page} \subseteq 1 .. page
  BY <1>2, <1>3
<1>5. CASE KeepPage(result)
  <2>1. /\ UNCHANGED <<broken, tells, cap, skipped>>
        /\ requests' = result.asked
        /\ got' = got \union result.items /\ lost' = lost + result.lost
        /\ failures' = 0 /\ unreachable' = 0
        /\ knownTotal' = IF result.total = Unknown THEN knownTotal ELSE NumPages
        /\ \/ outcome' = "exhausted" /\ page' = page
           \/ outcome' = "crawling" /\ page' = page + 1
        /\ Done' = page
    BY <1>5, KeepStep
  <2>2. skipped' \subseteq 1 .. Done' /\ faulty' \subseteq 1 .. Done' /\ hollow' \subseteq 1 .. Done'
    BY <1>4, <2>1
  <2>3. got' \subseteq 1 .. NumRecords /\ lost' \in Nat /\ requests' \in Nat
    <3>1. got \subseteq 1 .. NumRecords /\ lost \in Nat
      BY <1>1 DEF CrawlTypeOK
    <3>2. got \union result.items \subseteq 1 .. NumRecords
      BY <1>2, <3>1
    <3>3. lost + result.lost \in Nat
      BY <1>2, <3>1
    <3>4. QED
      BY <1>2, <2>1, <3>2, <3>3
  <2>4. page' \in Nat \ {0} /\ outcome' \in {"crawling", "exhausted"}
    BY <1>3, <2>1
  <2>5. knownTotal' \in {Unknown, NumPages}
    BY <1>1, <2>1 DEF CrawlTypeOK
  <2>6. QED
    BY <1>1, <2>1, <2>2, <2>3, <2>4, <2>5 DEF CrawlTypeOK
<1>6. CASE SkipPage(result)
  <2>1. /\ UNCHANGED <<broken, tells, cap, got, lost, knownTotal>>
        /\ requests' = result.asked
        /\ skipped' = skipped \union {page}
        /\ failures' = failures + 1
        /\ unreachable' = IF result.err = "refused" THEN unreachable + 1 ELSE 0
        /\ \/ outcome' \in {"aborted", "assumedEnd", "exhausted"} /\ page' = page
           \/ outcome' = "crawling" /\ page' = page + 1
        /\ Done' = page
    BY <1>6, SkipStep
  <2>2. unreachable' \in Nat /\ failures' \in Nat
    BY <1>1, <2>1 DEF CrawlTypeOK
  <2>3. skipped' \subseteq 1 .. Done' /\ faulty' \subseteq 1 .. Done' /\ hollow' \subseteq 1 .. Done'
    BY <1>4, <2>1
  <2>4. page' \in Nat \ {0} /\ outcome' \in {"crawling", "exhausted", "assumedEnd", "aborted"}
    BY <1>3, <2>1
  <2>5. QED
    BY <1>1, <1>2, <2>1, <2>2, <2>3, <2>4 DEF CrawlTypeOK
<1>7. QED
  BY <1>5, <1>6 DEF SoundTurn, Turn

(* The turns of the crawl keep within the skip budget: a page beyond the   *)
(* end of the feed is skipped or ends the crawl.                           *)
LEMMA BudgetKept ==
    ASSUME CrawlInv, NEW result, SoundTurn(result)
    PROVE  WithinBudget'
<1>1. /\ CrawlTypeOK /\ WithinBudget /\ outcome = "crawling" /\ page \in Nat \ {0}
      /\ skipped \subseteq 1 .. page - 1 /\ failures \in Nat
      /\ NumPages + 1 .. page - 1 \subseteq skipped
      /\ Cardinality(skipped) <= MaxSkippedPages /\ failures <= Cardinality(skipped)
  BY DEF CrawlInv, CrawlTypeOK, WithinBudget, Done, SoundTurn
<1>2. NumPages \in Nat /\ MaxSkippedPages \in Nat /\ Cardinality(skipped) \in Nat
  BY <1>1, PagesExceedBudget, SkippedFinite
<1>3. \A i \in NumPages + 1 .. page : i = page \/ i \in NumPages + 1 .. page - 1
  BY <1>1, <1>2
<1>4. CASE KeepPage(result)
  <2>1. /\ skipped' = skipped /\ failures' = 0 /\ Done' = page
        /\ outcome' = "crawling" => result.more = "yes"
    BY <1>4, KeepStep
  <2>2. ASSUME outcome' = "crawling" PROVE page <= NumPages
    <3>1. result.err = "none" /\ result.more = "yes"
      BY <1>4, <2>1, <2>2 DEF KeepPage
    <3>2. result.items # {} /\ result.items \subseteq Slice(MaxPageSize, page)
      BY <3>1 DEF SoundTurn, PageSound, PageResults
    <3>3. QED
      BY <1>1, <3>2, PageHasRecords
  <2>3. outcome' = "crawling" => NumPages + 1 .. page \subseteq skipped
    BY <1>1, <1>2, <1>3, <2>2
  <2>4. page \notin skipped
    BY <1>1
  <2>5. QED
    BY <1>1, <1>2, <2>1, <2>3, <2>4 DEF WithinBudget
<1>5. CASE SkipPage(result)
  <2>1. /\ skipped' = skipped \union {page} /\ failures' = failures + 1 /\ Done' = page
        /\ Cardinality(skipped') = Cardinality(skipped) + 1
        /\ outcome' = "crawling" => Cardinality(skipped') <= MaxSkippedPages
    BY <1>5, SkipStep
  <2>2. NumPages + 1 .. page \subseteq skipped'
    BY <1>1, <1>3, <2>1
  <2>3. QED
    BY <1>1, <1>2, <2>1, <2>2 DEF WithinBudget
<1>6. QED
  BY <1>4, <1>5 DEF SoundTurn, Turn

(* A page that ends the feed is its last page or beyond it.                *)
LEMMA EndIsTheEnd ==
    ASSUME NEW p \in Nat, NumRecords <= p * MaxPageSize
    PROVE  NumPages <= p
<1>1. MaxPageSize \in Nat \ {0} /\ NumRecords \in Nat
  BY CrawlAssumption
<1>2. NumPages \in Nat \ {0} /\ (p < NumPages <=> p * MaxPageSize < NumRecords)
  BY <1>1, PagesBound DEF NumPages
<1> DEFINE x == p * MaxPageSize
<1>3. x \in Nat /\ NumRecords <= x
  BY <1>1
<1> HIDE DEF x
<1>4. ~(x < NumRecords)
  BY <1>1, <1>3
<1>5. QED
  BY <1>2, <1>4 DEF x

(* The turns of the crawl keep what it knows of the feed's length, and     *)
(* that it neither ends empty nor guesses an end it was told.              *)
LEMMA LengthKept ==
    ASSUME CrawlInv, NEW result, SoundTurn(result)
    PROVE  LengthKnown' /\ NoEmptySnapshot' /\ EndGuessedOnlyBlind'
<1>1. /\ CrawlTypeOK /\ outcome = "crawling" /\ page \in Nat \ {0}
      /\ skipped \subseteq 1 .. page - 1
      /\ Cardinality(skipped) <= MaxSkippedPages
      /\ got = {} => 1 .. page - 1 \subseteq skipped
      /\ knownTotal # Unknown => got # {}
      /\ tells /\ got # {} => knownTotal # Unknown
      /\ knownTotal \in {Unknown, NumPages}
  BY DEF CrawlInv, CrawlTypeOK, WithinBudget, LengthKnown, Done, SoundTurn
<1>2. /\ NumPages \in Nat \ {0} /\ MaxSkippedPages \in Nat /\ MaxSkippedPages < NumPages
      /\ IsFiniteSet(skipped) /\ Cardinality(skipped) \in Nat /\ NumRecords \in Nat \ {0}
  BY <1>1, PagesExceedBudget, SkippedFinite, CrawlAssumption
<1>3. got = {} => page <= NumPages
  <2>1. ASSUME got = {} PROVE page - 1 <= Cardinality(skipped)
    <3>1. IsFiniteSet(1 .. page - 1) /\ Cardinality(1 .. page - 1) = page - 1
      BY <1>1, FS_Interval
    <3>2. Cardinality(1 .. page - 1) <= Cardinality(skipped)
      BY <1>1, <1>2, <2>1, FS_Subset
    <3>3. QED
      BY <3>1, <3>2
  <2>2. QED
    BY <1>1, <1>2, <2>1
<1>4. CASE KeepPage(result)
  <2>1. /\ tells' = tells /\ cap' = cap /\ skipped' = skipped /\ Done' = page
        /\ got' = got \union result.items
        /\ knownTotal' = IF result.total = Unknown THEN knownTotal ELSE NumPages
        /\ \/ outcome' = "exhausted" /\ (result.more # "yes" \/ EndsAtCap) /\ page' = page
           \/ outcome' = "crawling" /\ result.more = "yes"
    BY <1>4, KeepStep
  <2>2. result.err = "none" /\ result.items \subseteq Slice(MaxPageSize, page)
    BY <1>4 DEF KeepPage, SoundTurn, PageSound, PageResults
  <2>3. /\ tells /\ result.items # {} => result.total = NumRecords
        /\ result.items = {} => result.more # "yes"
        /\ result.total \in {Unknown, NumRecords}
    BY <2>2 DEF SoundTurn, PageSound, PageResults
  <2>4. page \notin hollow' =>
          /\ result.more # "unknown"
          /\ result.more = "no" => NumRecords <= page * MaxPageSize
          /\ result.items = {} => Slice(MaxPageSize, page) = {}
    BY <2>2 DEF SoundTurn, PageSound
  <2>5. got' # {} \/ (page \in hollow' /\ outcome' = "exhausted")
    <3>1. CASE got = {} /\ page \notin hollow'
      <4>1. Slice(MaxPageSize, page) # {}
        BY <1>1, <1>3, <3>1, PageHasRecords
      <4>2. QED
        BY <2>1, <2>4, <3>1, <4>1
    <3>2. CASE got = {} /\ page \in hollow'
      BY <2>1, <2>3, <3>2
    <3>3. CASE got # {}
      BY <2>1, <3>3
    <3>4. QED
      BY <3>1, <3>2, <3>3
  <2>6. tells /\ got' # {} => knownTotal' # Unknown
    <3>1. CASE result.items # {}
      BY <1>2, <2>1, <2>3, <3>1 DEF Unknown
    <3>2. CASE result.items = {}
      BY <1>1, <1>2, <2>1, <3>2 DEF Unknown
    <3>3. QED
      BY <3>1, <3>2
  <2>7. outcome' = "exhausted" /\ cap' = NoCap /\ page' \notin hollow' => NumPages <= page
    <3>1. ASSUME outcome' = "exhausted", cap' = NoCap, page' \notin hollow'
          PROVE  result.more = "no" /\ page \notin hollow'
      <4>1. page' = page /\ result.more # "yes"
        BY <2>1, <3>1 DEF EndsAtCap
      <4>2. result.more \in {"yes", "no", "unknown"}
        BY DEF SoundTurn, PageSound, PageResults
      <4>3. QED
        BY <2>4, <3>1, <4>1, <4>2
    <3>2. QED
      BY <1>1, <2>4, <3>1, EndIsTheEnd
  <2>8. LengthKnown'
    BY <1>1, <1>2, <2>1, <2>5, <2>6, <2>7 DEF LengthKnown, WholeFeedRead
  <2>9. NoEmptySnapshot'
    BY <2>1, <2>5 DEF NoEmptySnapshot
  <2>10. QED
    BY <2>1, <2>8, <2>9 DEF EndGuessedOnlyBlind
<1>5. CASE SkipPage(result)
  <2>1. /\ tells' = tells /\ cap' = cap /\ got' = got /\ knownTotal' = knownTotal
        /\ skipped' = skipped \union {page} /\ Done' = page
        /\ \/ outcome' = "aborted"
           \/ outcome' = "assumedEnd" /\ knownTotal = Unknown /\ got # {}
           \/ outcome' = "exhausted" /\ ((knownTotal # Unknown /\ page >= knownTotal) \/ EndsAtCap)
           \/ outcome' = "crawling"
    BY <1>5, SkipStep
  <2>2. got = {} => 1 .. page \subseteq skipped'
    BY <1>1, <2>1
  <2>3. outcome' = "exhausted" /\ cap' = NoCap => knownTotal # Unknown /\ page >= NumPages
    BY <1>1, <2>1 DEF EndsAtCap
  <2>4. LengthKnown'
    BY <1>1, <1>2, <2>1, <2>2, <2>3 DEF LengthKnown, WholeFeedRead
  <2>5. NoEmptySnapshot'
    BY <1>1, <2>1, <2>3 DEF NoEmptySnapshot
  <2>6. EndGuessedOnlyBlind'
    BY <1>1, <2>1 DEF EndGuessedOnlyBlind
  <2>7. QED
    BY <2>4, <2>5, <2>6
<1>6. QED
  BY <1>4, <1>5 DEF SoundTurn, Turn

(* The turns of the crawl keep count of the records that are missing: a    *)
(* page adds at most as many as it counts lost, a skipped page none.       *)
LEMMA CountKept ==
    ASSUME CrawlInv, NEW result, SoundTurn(result)
    PROVE  CountedSoFar'
<1>1. /\ CrawlTypeOK /\ outcome = "crawling" /\ page \in Nat \ {0} /\ Done = page - 1
      /\ lost \in Nat /\ Cardinality(LostSoFar) <= lost /\ hollow \subseteq hollow'
  BY DEF CrawlInv, CrawlTypeOK, CountedSoFar, Done, SoundTurn
<1>2. \A r \in 1 .. NumRecords :
        PageOf(r) \in Nat /\ (r \in Slice(MaxPageSize, page) <=> PageOf(r) = page)
  BY <1>1, PageOfSlice, PagesExceedBudget
<1>3. IsFiniteSet(LostSoFar)
  <2>1. NumRecords \in Nat
    BY CrawlAssumption
  <2>2. LostSoFar \subseteq 1 .. NumRecords /\ IsFiniteSet(1 .. NumRecords)
    BY <2>1, FS_Interval DEF LostSoFar, Missing
  <2>3. QED
    BY <2>2, FS_Subset
<1>4. CASE KeepPage(result)
  <2>1. /\ skipped' = skipped /\ Done' = page /\ got' = got \union result.items
        /\ lost' = lost + result.lost
    BY <1>4, KeepStep
  <2> DEFINE missed == Slice(MaxPageSize, page) \ result.items
  <2>2. result.lost \in Nat /\ (page \notin hollow' => Cardinality(missed) <= result.lost)
    BY <1>4 DEF KeepPage, SoundTurn, PageSound, PageResults
  <2>3. IsFiniteSet(missed)
    <3>1. MaxPageSize \in Nat
      BY CrawlAssumption
    <3>2. IsFiniteSet(Slice(MaxPageSize, page))
      BY <1>1, <3>1, SliceSize
    <3>3. QED
      BY <3>2, FS_Subset
  <2>4. LostSoFar' \subseteq LostSoFar \union (IF page \in hollow' THEN {} ELSE missed)
    <3>1. SUFFICES ASSUME NEW r \in LostSoFar', page \in hollow' \/ r \notin missed
                   PROVE  r \in LostSoFar
      OBVIOUS
    <3>2. /\ r \in 1 .. NumRecords /\ r \notin got' /\ PageOf(r) <= page
          /\ PageOf(r) \notin skipped \union hollow'
      BY <2>1 DEF LostSoFar, Missing
    <3>3. r \notin got /\ PageOf(r) # page
      BY <1>2, <2>1, <3>1, <3>2
    <3>4. PageOf(r) <= page - 1
      BY <1>1, <1>2, <3>2, <3>3
    <3>5. QED
      BY <1>1, <3>2, <3>3, <3>4 DEF LostSoFar, Missing
  <2> HIDE DEF missed
  <2>5. Cardinality(LostSoFar') <= lost + result.lost
    <3> DEFINE counted == IF page \in hollow' THEN {} ELSE missed
    <3>1. IsFiniteSet(counted) /\ Cardinality(counted) <= result.lost
      BY <2>2, <2>3, FS_EmptySet
    <3>2. LostSoFar' \subseteq LostSoFar \union counted
      BY <2>4
    <3> HIDE DEF counted
    <3>3. QED
      BY <1>1, <1>3, <2>2, <3>1, <3>2, MissingAdds
  <2>6. QED
    BY <2>1, <2>5 DEF CountedSoFar
<1>5. CASE SkipPage(result)
  <2>1. skipped' = skipped \union {page} /\ Done' = page /\ got' = got /\ lost' = lost
    BY <1>5, SkipStep
  <2>2. LostSoFar' \subseteq LostSoFar
    <3>1. SUFFICES ASSUME NEW r \in LostSoFar' PROVE r \in LostSoFar
      OBVIOUS
    <3>2. /\ r \in 1 .. NumRecords /\ r \notin got /\ PageOf(r) <= page
          /\ PageOf(r) \notin skipped \union hollow' /\ PageOf(r) # page
      BY <2>1 DEF LostSoFar, Missing
    <3>3. PageOf(r) <= page - 1
      BY <1>1, <1>2, <3>2
    <3>4. QED
      BY <1>1, <3>2, <3>3 DEF LostSoFar, Missing
  <2>3. /\ Cardinality(LostSoFar') <= Cardinality(LostSoFar)
        /\ Cardinality(LostSoFar') \in Nat /\ Cardinality(LostSoFar) \in Nat
    BY <1>3, <2>2, FS_Subset, FS_CardinalityType
  <2>4. QED
    BY <1>1, <2>1, <2>3 DEF CountedSoFar
<1>6. QED
  BY <1>4, <1>5 DEF SoundTurn, Turn

(* The turns of the crawl keep every loss explained.                       *)
LEMMA ExplanationsKept ==
    ASSUME CrawlInv, NEW result, SoundTurn(result)
    PROVE  LossesExplained'
<1>1. /\ outcome = "crawling" /\ page \in Nat \ {0} /\ Done = page - 1
      /\ faulty \subseteq faulty'
      /\ \/ page \in faulty' \/ page = 1 \/ page - 1 \in skipped
         \/ Slice(MaxPageSize, page) \ result.items \subseteq broken
      /\ LossesExplained
  BY DEF CrawlInv, CrawlTypeOK, Done, SoundTurn
<1>2. /\ Done' = page /\ broken' = broken /\ skipped \subseteq skipped'
      /\ got' = got \union result.items
  <2>1. CASE KeepPage(result)
    BY <2>1, KeepStep
  <2>2. CASE SkipPage(result)
    BY <2>2, SkipStep
  <2>3. QED
    BY <2>1, <2>2 DEF SoundTurn, Turn
<1>3. SUFFICES ASSUME NEW r \in Missing', PageOf(r) <= page
               PROVE  \/ r \in broken \/ PageOf(r) \in faulty'
                      \/ PageOf(r) = 1 \/ PageOf(r) - 1 \in skipped'
  BY <1>2 DEF LossesExplained
<1>4. r \in 1 .. NumRecords /\ r \notin got /\ r \notin result.items
  BY <1>2, <1>3 DEF Missing
<1>5. PageOf(r) \in Nat /\ (r \in Slice(MaxPageSize, page) <=> PageOf(r) = page)
  BY <1>1, <1>4, PageOfSlice, PagesExceedBudget
<1>6. CASE PageOf(r) = page
  BY <1>1, <1>2, <1>4, <1>5, <1>6
<1>7. CASE PageOf(r) # page
  <2>1. PageOf(r) <= Done
    BY <1>1, <1>3, <1>5, <1>7
  <2>2. r \in Missing
    BY <1>4 DEF Missing
  <2>3. QED
    BY <1>1, <1>2, <2>1, <2>2 DEF LossesExplained
<1>8. QED
  BY <1>6, <1>7

(* The turns of the crawl are cheap from the second failure in a row on.   *)
LEMMA CheapKept ==
    ASSUME CrawlInv, NEW result, SoundTurn(result)
    PROVE  CheapTurn'
<1>1. /\ failures \in Nat /\ unreachable \in Nat
      /\ failures > 0 /\ result.err = "broken" /\ page <= NumPages /\ page \notin hollow' =>
           result.asked <= 2
      /\ result.err \in {"none", "broken", "refused"}
  BY DEF CrawlInv, CrawlTypeOK, SoundTurn, PageSound, PageResults
<1>2. CASE KeepPage(result)
  <2>1. failures' = 0
    BY <1>2, KeepStep
  <2>2. QED
    BY <2>1 DEF CheapTurn
<1>3. CASE SkipPage(result)
  <2>1. /\ failures' = failures + 1 /\ Done' = page /\ requests' = result.asked
        /\ unreachable' = IF result.err = "refused" THEN unreachable + 1 ELSE 0
        /\ result.err # "none"
    BY <1>3, SkipStep
  <2>2. NumPages' = NumPages
    BY DEF NumPages, Pages
  <2>3. ASSUME failures' >= 2, unreachable' = 0, page <= NumPages, page \notin hollow'
        PROVE  requests' <= 2
    <3>1. failures > 0 /\ result.err = "broken"
      BY <1>1, <2>1, <2>3
    <3>2. QED
      BY <1>1, <2>1, <2>3, <3>1
  <2>4. QED
    BY <2>1, <2>2, <2>3 DEF CheapTurn
<1>4. QED
  BY <1>2, <1>3 DEF SoundTurn, Turn

(***************************************************************************)
(* The theorems about the crawl.                                           *)
(***************************************************************************)

(* A crawl that begins has dealt with no page.                             *)
LEMMA CrawlInvInit == CrawlInit => CrawlInv
<1> SUFFICES ASSUME CrawlInit PROVE CrawlInv
  OBVIOUS
<1>1. /\ page = 1 /\ got = {} /\ lost = 0 /\ skipped = {} /\ failures = 0 /\ unreachable = 0
      /\ knownTotal = Unknown /\ outcome = "crawling" /\ requests = 0
      /\ faulty = {} /\ hollow = {}
      /\ tells \in BOOLEAN /\ cap \in Nat /\ broken \subseteq 1 .. NumRecords
  BY CrawlAssumption DEF CrawlInit, kSubset
<1>2. Done = 0
  BY <1>1 DEF Done
<1>3. Cardinality({}) = 0
  BY FS_EmptySet
<1>4. NumPages \in Nat \ {0} /\ MaxSkippedPages \in Nat
  BY PagesExceedBudget
<1>5. \A r \in 1 .. NumRecords : PageOf(r) \in 1 .. NumPages
  BY PageOfSlice
<1>6. CrawlTypeOK
  BY <1>1, <1>2 DEF CrawlTypeOK
<1>7. WithinBudget
  BY <1>1, <1>2, <1>3, <1>4 DEF WithinBudget
<1>8. LengthKnown
  BY <1>1, <1>2 DEF LengthKnown, WholeFeedRead
<1>9. LostSoFar = {} /\ LossesExplained
  BY <1>1, <1>2, <1>4, <1>5 DEF LostSoFar, LossesExplained, Missing
<1>10. CountedSoFar
  BY <1>1, <1>3, <1>9 DEF CountedSoFar
<1>11. NoEmptySnapshot /\ EndGuessedOnlyBlind /\ CheapTurn
  BY <1>1 DEF NoEmptySnapshot, EndGuessedOnlyBlind, CheapTurn
<1>12. QED
  BY <1>6, <1>7, <1>8, <1>9, <1>10, <1>11 DEF CrawlInv

(* Every step of the crawl keeps its invariant.                            *)
LEMMA CrawlInvNext == CrawlInv /\ [CrawlNext]_crawlVars => CrawlInv'
<1>1. ASSUME CrawlInv, CrawlNext PROVE CrawlInv'
  <2>1. PICK result : SoundTurn(result)
    BY <1>1, TurnsSound
  <2>2. CrawlTypeOK' /\ WithinBudget'
    BY <1>1, <2>1, TypesKept, BudgetKept
  <2>3. LengthKnown' /\ NoEmptySnapshot' /\ EndGuessedOnlyBlind'
    BY <1>1, <2>1, LengthKept
  <2>4. CountedSoFar' /\ LossesExplained' /\ CheapTurn'
    BY <1>1, <2>1, CountKept, ExplanationsKept, CheapKept
  <2>5. QED
    BY <2>2, <2>3, <2>4 DEF CrawlInv
<1>2. ASSUME CrawlInv, UNCHANGED crawlVars PROVE CrawlInv'
  <2>1. /\ UNCHANGED <<broken, tells, cap, page, got, lost, skipped, failures>>
        /\ UNCHANGED <<unreachable, knownTotal, outcome, requests, faulty, hollow>>
    BY <1>2 DEF crawlVars, feed
  <2>2. /\ CrawlTypeOK' = CrawlTypeOK /\ WithinBudget' = WithinBudget /\ Done' = Done
        /\ LengthKnown' = LengthKnown
    BY <2>1 DEF CrawlTypeOK, WithinBudget, LengthKnown, WholeFeedRead, Done
  <2>3. CountedSoFar' = CountedSoFar /\ LossesExplained' = LossesExplained
    BY <2>1 DEF CountedSoFar, LostSoFar, LossesExplained, Missing, Done
  <2>4. /\ NoEmptySnapshot' = NoEmptySnapshot /\ EndGuessedOnlyBlind' = EndGuessedOnlyBlind
        /\ CheapTurn' = CheapTurn
    BY <2>1 DEF NoEmptySnapshot, EndGuessedOnlyBlind, CheapTurn, Done
  <2>5. QED
    BY <1>2, <2>2, <2>3, <2>4 DEF CrawlInv
<1>3. QED
  BY <1>1, <1>2

(* The invariant of the crawl holds of every pull.                         *)
THEOREM CrawlInvariant == CrawlSpec => []CrawlInv
<1>1. QED
  BY CrawlInvInit, CrawlInvNext, PTL DEF CrawlSpec

(* Every pull that ends normally accounts for every record, for every      *)
(* length of the feed, page size and ladder (iter_records, _recover_page). *)
THEOREM EveryRecordCountedSafe == CrawlSpec => []EveryRecordCounted
<1>1. CrawlInv => EveryRecordCounted
  <2>1. SUFFICES ASSUME CrawlInv, WholeFeedRead
                 PROVE  Cardinality({r \in Missing : PageOf(r) \notin skipped \union hollow}) <= lost
    BY DEF EveryRecordCounted
  <2>2. Done >= NumPages /\ Done \in Nat /\ NumPages \in Nat
    BY <2>1, SkippedFinite, PagesExceedBudget DEF CrawlInv, LengthKnown
  <2>3. \A r \in Missing : PageOf(r) \in 1 .. NumPages
    BY PageOfSlice DEF Missing
  <2>4. {r \in Missing : PageOf(r) \notin skipped \union hollow} = LostSoFar
    BY <2>2, <2>3 DEF LostSoFar
  <2>5. QED
    BY <2>1, <2>4 DEF CrawlInv, CountedSoFar
<1>2. QED
  BY <1>1, CrawlInvariant, PTL

(* While the host answers, the ladder loses only the records the API       *)
(* cannot serialise, for every length of the feed, page size and ladder    *)
(* that goes down to single records (_page_items, feed_alive).             *)
THEOREM LadderLosesOnlyBrokenSafe == CrawlSpec => []LadderLosesOnlyBroken
<1>1. CrawlInv => LadderLosesOnlyBroken
  <2>1. SUFFICES ASSUME CrawlInv, WholeFeedRead, NEW r \in Missing
                 PROVE  \/ r \in broken \/ PageOf(r) \in faulty
                        \/ PageOf(r) = 1 \/ PageOf(r) - 1 \in skipped
    BY DEF LadderLosesOnlyBroken
  <2>2. Done >= NumPages /\ Done \in Nat /\ NumPages \in Nat
    BY <2>1, SkippedFinite, PagesExceedBudget DEF CrawlInv, LengthKnown
  <2>3. PageOf(r) \in 1 .. NumPages
    BY <2>1, PageOfSlice DEF Missing
  <2>4. QED
    BY <2>1, <2>2, <2>3 DEF CrawlInv, LossesExplained
<1>2. QED
  BY <1>1, CrawlInvariant, PTL

(* No pull without max_pages ends normally without a record, unless a page *)
(* was answered hollow (iter_records, assumed_end_of_feed,                 *)
(* _MAX_SKIPPED_PAGES).                                                    *)
THEOREM NoEmptySnapshotSafe == CrawlSpec => []NoEmptySnapshot
<1>1. CrawlInv => NoEmptySnapshot
  BY DEF CrawlInv
<1>2. QED
  BY <1>1, CrawlInvariant, PTL

(* The end of a feed that tells its totals is never guessed (iter_records, *)
(* known_total_pages).                                                     *)
THEOREM EndGuessedOnlyBlindSafe == CrawlSpec => []EndGuessedOnlyBlind
<1>1. CrawlInv => EndGuessedOnlyBlind
  BY DEF CrawlInv
<1>2. QED
  BY <1>1, CrawlInvariant, PTL

(* From the second page of an outage on, a page costs two requests at most *)
(* (_recover_page, bail_on_first).                                         *)
THEOREM OutageIsCheapSafe == CrawlSpec => []OutageIsCheap
<1>1. CrawlInv => OutageIsCheap
  <2>1. SUFFICES ASSUME CrawlInv, failures >= 2, unreachable = 0, Max(skipped) <= NumPages,
                        Max(skipped) \notin hollow
                 PROVE  requests <= 2
    BY DEF OutageIsCheap
  <2>2. /\ Done \in Nat /\ skipped \subseteq 1 .. Done /\ failures > 0
        /\ NumPages \in Nat
    BY <2>1, SkippedFinite, PagesExceedBudget DEF CrawlInv, CrawlTypeOK
  <2>3. Done \in skipped
    BY <2>1, <2>2 DEF CrawlInv, WithinBudget
  <2>4. Max(skipped) \in skipped /\ Max(skipped) >= Done
    <3>1. \E x \in skipped : \A y \in skipped : x >= y
      BY <2>2, <2>3
    <3>2. QED
      BY <2>3, <3>1 DEF Max
  <2>5. Done <= NumPages /\ Done \notin hollow
    <3> DEFINE m == Max(skipped)
    <3>1. m \in skipped /\ m >= Done /\ m <= NumPages /\ m \notin hollow
      BY <2>1, <2>4
    <3> HIDE DEF m
    <3>2. QED
      BY <2>2, <3>1
  <2>6. QED
    BY <2>1, <2>5 DEF CrawlInv, CheapTurn
<1>2. QED
  BY <1>1, CrawlInvariant, PTL
=============================================================================
