------------------------------ MODULE CcilTape ------------------------------
(***************************************************************************)
(* The CCIL tape of one day, as the connector reads it: one trade a row,   *)
(* in file order, folded into one summary for each security.  Figures are  *)
(* whole numbers, a weighted average is kept as the pair of sums it is the *)
(* quotient of, and an unreadable face is 0, as the parser makes it.       *)
(***************************************************************************)
EXTENDS Integers, Sequences, FiniteSets

Blank == -9999                  \* an empty or unreadable cell, or None

YtmImplausible == 40
YtmMin == -20
PriceMinParSegment == 40

(* Trade times are compared as numbers: what is no time sorts first.       *)
Untimed == -1

(* A row with a shifted column, no ISIN or no date is not a trade.         *)
Malformed == [well_formed |-> FALSE]
TradeRow(isin, desc, face, price, ytm, time) ==
    [well_formed |-> TRUE, isin |-> isin, desc |-> desc, face |-> face, price |-> price,
     ytm |-> ytm, time |-> time]

(* The ISIN tells the issuer; within central paper the description tells   *)
(* the kind.                                                               *)
InstrumentSegment(desc, isin) ==
    CASE isin = "state"        -> "SDL"
      [] isin # "state" /\ desc = "dtb"   -> "TBILL"
      [] isin # "state" /\ desc = "sgb"   -> "SGB"
      [] isin # "state" /\ desc = "strip" -> "STRIPS"
      [] OTHER                 -> "GSEC"

YieldSized(price) == 0 < price /\ price < PriceMinParSegment
Credible(ytm) == ytm # 0 /\ ytm \in YtmMin..YtmImplausible

(* A mutant: a garbled pair is always taken for a transposed one.          *)
RepairPriceYield_Swapping(price, ytm, deep_discount) ==
    IF ytm > YtmImplausible THEN [price |-> ytm, ytm |-> price]
    ELSE IF ~deep_discount /\ YieldSized(price)
    THEN [price |-> Blank, ytm |-> IF Credible(ytm) THEN ytm ELSE price]
    ELSE [price |-> price, ytm |-> IF ytm < YtmMin THEN Blank ELSE ytm]

(* What is kept of a price and a yield that may have been garbled.         *)
RepairPriceYield(price, ytm, deep_discount) ==
    IF ytm > YtmImplausible
    THEN IF YieldSized(price) THEN [price |-> ytm, ytm |-> price] ELSE [price |-> Blank, ytm |-> Blank]
    ELSE IF ~deep_discount /\ YieldSized(price)
    THEN [price |-> Blank, ytm |-> IF Credible(ytm) THEN ytm ELSE price]
    ELSE [price |-> price, ytm |-> IF ytm < YtmMin THEN Blank ELSE ytm]

ParseRow(row) ==
    LET repaired == RepairPriceYield(row.price, row.ytm, InstrumentSegment(row.desc, row.isin) = "STRIPS")
    IN  [row EXCEPT !.price = repaired.price, !.ytm = repaired.ytm]

-----------------------------------------------------------------------------
(* The accumulator of one security on one day.                             *)

EmptyAgg ==
    [desc |-> "", count |-> 0, total_face |-> 0, px_num |-> 0, yld_face |-> 0, yld_num |-> 0,
     last_key |-> Untimed, ltp |-> Blank, lty |-> Blank]

Priced(p) == p.price > 0 /\ p.face > 0
YieldOnly(p) == ~Priced(p) /\ p.ytm \notin {Blank, 0} /\ p.face > 0

(* Every trade counts; a yield has a denominator of its own, and the last  *)
(* price is the latest trade's, the later row's of two at the same time.   *)
Add(agg, p) ==
    LET yields == IF (Priced(p) /\ p.ytm # Blank) \/ YieldOnly(p) THEN p.face ELSE 0
        prices == IF Priced(p) THEN p.face ELSE 0
        latest == Priced(p) /\ p.time >= agg.last_key
    IN  [desc       |-> IF agg.desc # "" THEN agg.desc ELSE p.desc,
         count      |-> agg.count + 1,
         total_face |-> agg.total_face + prices,
         px_num     |-> agg.px_num + prices * p.price,
         yld_face   |-> agg.yld_face + yields,
         yld_num    |-> agg.yld_num + yields * p.ytm,
         last_key   |-> IF latest THEN p.time ELSE agg.last_key,
         ltp        |-> IF latest THEN p.price ELSE agg.ltp,
         lty        |-> IF latest THEN p.ytm ELSE agg.lty]

(* The securities of which a tape has a trade.                             *)
Traded(tape) == {tape[i].isin : i \in {j \in DOMAIN tape : tape[j].well_formed}}

(* The rows that are trades, in file order, each into the accumulator of   *)
(* its security.                                                           *)
Groups(tape) ==
    LET grown[i \in 0..Len(tape)] ==
            IF i = 0 THEN [isin \in Traded(tape) |-> EmptyAgg]
            ELSE IF tape[i].well_formed
            THEN [grown[i - 1] EXCEPT ![tape[i].isin] = Add(@, ParseRow(tape[i]))]
            ELSE grown[i - 1]
    IN  grown[Len(tape)]

(* The segment is that of the description the group ended with.            *)
ToRecord(agg, isin) ==
    [segment |-> InstrumentSegment(agg.desc, isin), no_of_trades |-> agg.count, trade_value |-> agg.total_face,
     px_num |-> agg.px_num, yld_face |-> agg.yld_face, yld_num |-> agg.yld_num, ltp |-> agg.ltp, lty |-> agg.lty]

(* One record for each ISIN traded.                                        *)
AggregateTrades(tape) == [isin \in Traded(tape) |-> ToRecord(Groups(tape)[isin], isin)]

-----------------------------------------------------------------------------
(* What may be printed, as far as the fold depends on it: a row is read by *)
(* its own description and a security by the first one it has, so that the *)
(* descriptions of a security have to say alike whether it is a strip.     *)

TapeRow ==
    {Malformed} \cup [well_formed : {TRUE}, isin : STRING, desc : STRING, face : Int, price : Int,
                     ytm : Int, time : Nat \cup {Untimed}]

TradesOf(tape, isin) == {i \in DOMAIN tape : tape[i].well_formed /\ tape[i].isin = isin}

IsStrip(row) == InstrumentSegment(row.desc, row.isin) = "STRIPS"
StripsAgree(tape) ==
    \A isin \in Traded(tape) : \A i, j \in TradesOf(tape, isin) :
        tape[i].desc # "" /\ tape[j].desc # "" => (IsStrip(tape[i]) <=> IsStrip(tape[j]))

IsTape(tape) == tape \in Seq(TapeRow) /\ StripsAgree(tape)

-----------------------------------------------------------------------------
(* What the summaries have to be, said of the tape and not of the fold:    *)
(* each trade is in the summary of its security and in no other, the last  *)
(* price is that of the latest priced trade, and no cell of a garbled row  *)
(* gets through in the wrong column: outside STRIPS an average price is no *)
(* yield, and an average yield is one a sovereign can have.                *)

PricedTrades(tape, isin) == {i \in TradesOf(tape, isin) : Priced(ParseRow(tape[i]))}
LatestPriced(tape, isin) ==
    {i \in PricedTrades(tape, isin) : \A j \in PricedTrades(tape, isin) :
        tape[j].time < tape[i].time \/ (tape[j].time = tape[i].time /\ j <= i)}

Summarise(summaries, tape) ==
    /\ DOMAIN summaries = Traded(tape)
    /\ \A isin \in DOMAIN summaries :
        LET summary == summaries[isin]
            latest  == LatestPriced(tape, isin)
        IN  /\ summary.no_of_trades = Cardinality(TradesOf(tape, isin))
            /\ \/ latest = {} /\ summary.trade_value = 0 /\ summary.ltp = Blank
               \/ \E i \in latest : /\ summary.ltp = ParseRow(tape[i]).price
                                    /\ summary.lty = ParseRow(tape[i]).ytm
            /\ summary.segment # "STRIPS" => summary.px_num >= PriceMinParSegment * summary.trade_value
            /\ summary.yld_num >= YtmMin * summary.yld_face
            /\ summary.yld_num <= YtmImplausible * summary.yld_face
=============================================================================
