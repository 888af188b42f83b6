---------------------------- MODULE MCSourceDay ----------------------------
(***************************************************************************)
(* Tapes of up to two rows out of those CCIL has been seen to print and    *)
(* two on the bounds of what is plausible, and of three out of the rows of *)
(* one security; releases of two or three securities with one figure       *)
(* missing, two of the prices and yields, all of one security's, or all of *)
(* one row's.                                                              *)
(***************************************************************************)
EXTENDS SourceDay

OfOneStock ==
    {TradeRow("stock", "gs", 2, 100, 7, 1),         \* a plain trade
     TradeRow("stock", "gs", 1, 6, 98, 1),          \* transposed
     TradeRow("stock", "", 1, 7, 0, 2),             \* when issued: the yield in the price column
     TradeRow("stock", "gs", 1, 99, Blank, Untimed)}

Prints ==
    OfOneStock \cup
    {Malformed,
     TradeRow("stock", "gs", 1, 86, 98, 3),         \* both cells garbled
     TradeRow("strip", "strip", 3, 8, -16, 1),
     TradeRow("strip", "strip", 0, 9, -30, 2),
     TradeRow("state", "gs", 1, 8, 9, 2),
     TradeRow("state", "gs", 1, 40, -20, 3),        \* both just plausible
     TradeRow("state", "gs", 2, 39, 40, 1)}         \* a yield in the price column, 40 of yield

MCTapes ==
    {tape \in [1..1 -> Prints] \cup [1..2 -> Prints] \cup [1..3 -> OfOneStock] :
        \E i \in DOMAIN tape : tape[i].well_formed}

Missing(names, fields) ==
    LET quotes == names \X {"cut_off_price", "cut_off_yield", "wavg_yield"}
    IN  {{}} \cup {{c} : c \in names \X fields} \cup {{c, d} : c, d \in quotes}
        \cup {{s} \X fields : s \in names} \cup {names \X {f} : f \in fields}

Released(layout, lead, groups, names, fields) ==
    {[layout |-> layout, lead |-> lead, groups |-> groups, missing |-> missing] :
        missing \in Missing(names, fields)}

MCReleases ==
    Released("priced", <<>>, <<<<"a", "b">>>>, {"a", "b"}, PricedFields)
    \cup Released("priced", <<Empty, Empty>>, <<<<"a", "b">>>>, {"a", "b"}, PricedFields)
    \cup Released("state", <<>>, <<<<"a", "b">>, <<"c">>>>, {"a", "b", "c"}, StateFields)
=============================================================================
