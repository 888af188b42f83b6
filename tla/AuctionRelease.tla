--------------------------- MODULE AuctionRelease ---------------------------
(***************************************************************************)
(* The parser of RBI's "Full Auction Result" releases, and the releases.   *)
(* A release is a page of tables, a table a sequence of rows, a row a      *)
(* sequence of cells; a table names securities across its columns and puts *)
(* one metric on each row.  Numbering, captions and the cells before the   *)
(* data differ by layout, so that the parser aligns by position.           *)
(***************************************************************************)
EXTENDS Integers, Sequences, FiniteSets, SequencesExt

NoFigure == <<>>                \* a figure is known by where it was published: <<security, field>>
Cell(kind, word, figure) == [kind |-> kind, word |-> word, figure |-> figure]
Empty == Cell("blank", "", NoFigure)
Roman == Cell("roman", "", NoFigure)
Caption(word) == Cell("caption", word, NoFigure)
Named(word) == Cell("name", word, NoFigure)
Label(word) == Cell("label", word, NoFigure)
Figure(n) == IF n = NoFigure THEN Empty ELSE Cell("figure", "", n)
Paren(n) == IF n = NoFigure THEN Empty ELSE Cell("paren", "", n)       \* "(YTM: n)" or "(WAY: n)"

(* Label to field, matched by prefix in the code: both percentage rows     *)
(* start alike.                                                            *)
Percentages ==
    {"partial allotment percentage of competitive bids", "partial allotment percentage of non-competitive bids"}

DirectField(label) ==
    CASE label = "notified amount" -> "notified_amount_cr"
      [] label = "cut-off price" -> "cut_off_price"
      [] label = "cut-off yield" -> "cut_off_yield"
      [] label = "weighted average price" -> "wavg_price"
      [] label = "weighted average yield" -> "wavg_yield"
      [] label \in Percentages -> "partial_allotment_pct"
      [] OTHER -> "none"

SubRow(label) ==
    CASE label \in {"(i) number", "(ii) number"} -> "number"
      [] label = "(ii) amount" -> "amount"
      [] label = "(i) percentage" -> "percentage"
      [] OTHER -> "none"

SubRowField(section, sub_row) ==
    CASE section = "received" /\ sub_row = "number" -> "bids_received_count"
      [] section = "received" /\ sub_row = "amount" -> "bids_received_amount_cr"
      [] section = "accepted" /\ sub_row = "number" -> "bids_accepted_count"
      [] section = "accepted" /\ sub_row = "amount" -> "bids_accepted_amount_cr"
      [] section = "partial" /\ sub_row = "percentage" -> "partial_allotment_pct"
      [] OTHER -> "none"

Fields ==
    {"notified_amount_cr", "bids_received_count", "bids_received_amount_cr", "cut_off_price",
     "cut_off_yield", "bids_accepted_count", "bids_accepted_amount_cr", "partial_allotment_pct",
     "wavg_price", "wavg_yield"}
NoFields == [f \in Fields |-> NoFigure]

-----------------------------------------------------------------------------
(* Reading a row.                                                          *)

IsBlank(cell) == cell.kind = "blank"
DataStart(cells) == {i \in DOMAIN cells : cells[i].kind \notin {"blank", "roman"}}
LabelAt(cells) == CHOOSE i \in DataStart(cells) : \A j \in DataStart(cells) : i <= j
RowLabel(cells) == IF DataStart(cells) = {} THEN "" ELSE cells[LabelAt(cells)].word

(* The cells after the label, padded or cut to one for each security.      *)
DataValues(cells, count) ==
    [i \in 1..count |-> IF LabelAt(cells) + i \in DOMAIN cells THEN cells[LabelAt(cells) + i] ELSE Empty]

(* The cells of a row that are neither blank nor a caption, in their order.*)
NamesIn(cells) ==
    LET names == {i \in DOMAIN cells : cells[i].kind \notin {"blank", "caption"}}
    IN  [k \in 1..Cardinality(names) |->
            cells[CHOOSE i \in names : Cardinality({j \in names : j <= i}) = k]]

(* The names above the first notified-amount row.                          *)
SecurityColumns(rows) ==
    LET notified == {r \in DOMAIN rows : RowLabel(rows[r]) = "notified amount"}
        above == {r \in DOMAIN rows : NamesIn(rows[r]) # <<>> /\ \A n \in notified : r < n}
    IN  IF notified = {} \/ above = {} THEN <<>>
        ELSE NamesIn(rows[CHOOSE r \in above : \A s \in above : s <= r])

(* The section a heading opens; a non-competitive one closes any other.    *)
Headings ==
    {"competitive bids received", "competitive bids accepted",
     "non-competitive bids received", "non-competitive bids accepted"} \cup Percentages

SectionFor(label) ==
    CASE label = "competitive bids received" -> "received"
      [] label = "competitive bids accepted" -> "accepted"
      [] label \in Percentages -> "partial"
      [] OTHER -> "none"

(* The field a row fills in its section, if any.                           *)
FieldFor(label, section) ==
    IF DirectField(label) # "none" THEN DirectField(label) ELSE SubRowField(section, SubRow(label))

-----------------------------------------------------------------------------
(* Walking a table: acc holds the figures so far, the section, and the     *)
(* yield a continuation row of parentheses would carry.                    *)

Written(fields, cells, field, kind) ==
    [i \in DOMAIN fields |->
        IF field # "none" /\ i \in DOMAIN cells /\ cells[i].kind = kind
        THEN [fields[i] EXCEPT ![field] = cells[i].figure] ELSE fields[i]]

IsBlankRow(cells) == \A i \in DOMAIN cells : IsBlank(cells[i])
Continues(cells) == ~IsBlankRow(cells) /\ \A i \in DOMAIN cells : cells[i].kind \in {"blank", "paren"}

(* A mutant: the blanks are filtered out before the cells are aligned.     *)
Trailing_Populated(cells, count) == SelectSeq(cells, LAMBDA c : ~IsBlank(c))

(* A continuation row is right-aligned under the security columns.         *)
Trailing(cells, count) ==
    IF count <= Len(cells) THEN SubSeq(cells, Len(cells) - count + 1, Len(cells)) ELSE cells

PendingAfter(field, first) ==
    IF field = "cut_off_price" /\ first["cut_off_yield"] = NoFigure THEN "cut_off_yield"
    ELSE IF field = "wavg_price" /\ first["wavg_yield"] = NoFigure THEN "wavg_yield" ELSE "none"

(* The value first, the section heading second: a percentage row is both.  *)
(* A row without a label is passed over.                                   *)
WalkRow(acc, cells) ==
    LET label  == RowLabel(cells)
        target == FieldFor(label, acc.section)
        values == DataValues(cells, Len(acc.fields))
        wrote  == target # "none" /\ \E i \in DOMAIN values : values[i].kind = "figure"
    IN  CASE Continues(cells) ->
                [acc EXCEPT !.fields = Written(@, Trailing(cells, Len(@)), acc.pending, "paren"),
                            !.pending = "none"]
          [] ~Continues(cells) /\ ~wrote /\ label \in Headings ->
                [acc EXCEPT !.section = SectionFor(label), !.pending = "none"]
          [] ~Continues(cells) /\ (wrote \/ label \notin Headings) ->
                IF target = "none" THEN acc
                ELSE LET fields == Written(acc.fields, values, target, "figure")
                     IN  [acc EXCEPT !.fields = fields, !.pending = PendingAfter(target, fields[1])]

(* A security with no figure at all has no record.                         *)
Walk(rows, securities) ==
    LET walked[i \in 0..Len(rows)] ==
            IF i = 0
            THEN [fields |-> [k \in DOMAIN securities |-> NoFields], section |-> "none", pending |-> "none"]
            ELSE WalkRow(walked[i - 1], rows[i])
        fields == walked[Len(rows)].fields
    IN  {[security |-> securities[k].word, figures |-> fields[k]] :
            k \in {j \in DOMAIN securities : fields[j] # NoFields}}

(* Every innermost table that mentions a notified amount, its rows and     *)
(* those of the tables inside it.  Rows of blanks, which the code drops    *)
(* here, are passed over by all that reads them.                           *)
RowsOf(page, t) ==
    page[t].rows \o FlattenSeq([u \in DOMAIN page |-> IF page[u].inside = t THEN page[u].rows ELSE <<>>])
Mentions(page, t) == \E i \in DOMAIN RowsOf(page, t) : RowLabel(RowsOf(page, t)[i]) = "notified amount"

ResultTables(page) ==
    {t \in DOMAIN page : Mentions(page, t) /\ ~\E u \in DOMAIN page : page[u].inside = t /\ Mentions(page, u)}

ParseAuctionResults(page) ==
    UNION {Walk(RowsOf(page, t), SecurityColumns(RowsOf(page, t))) : t \in ResultTables(page)}

-----------------------------------------------------------------------------
(* The releases, as RBI lays them out: a layout, the cells before the data *)
(* of a continuation row, the securities of each table, and the cells left *)
(* blank.  No security is named like a label.                              *)

IsName(word) == DirectField(word) = "none" /\ word \notin Headings

IsRelease(release) ==
    /\ release.layout \in {"priced", "state"} /\ release.lead \in Seq({Empty})
    /\ release.groups \in Seq(Seq(STRING)) /\ release.groups # <<>>
    /\ \A g \in DOMAIN release.groups :
        release.groups[g] # <<>> /\ \A i \in DOMAIN release.groups[g] : IsName(release.groups[g][i])
    /\ release.layout = "priced" => Len(release.groups) = 1

PricedFields == Fields \ {"bids_received_amount_cr", "bids_accepted_count"}
StateFields == PricedFields \ {"wavg_price"}

Published(release) ==
    LET fields == IF release.layout = "priced" THEN PricedFields ELSE StateFields
    IN  [s \in UNION {ToSet(group) : group \in ToSet(release.groups)} |->
            [f \in Fields |-> IF f \in fields /\ <<s, f>> \notin release.missing THEN <<s, f>> ELSE NoFigure]]

Labelled(head, label, values) == head \o <<Label(label)>> \o values
Printed(head, label, s, p, field) == Labelled(head, label, [i \in DOMAIN s |-> Figure(p[s[i]][field])])
Heading(head, label, s) == Labelled(head, label, [i \in DOMAIN s |-> Empty])
Noise(label, s) == Labelled(<<>>, label, [i \in DOMAIN s |-> Figure(<<"", "">>)])
Below(lead, s, p, field) == lead \o [i \in DOMAIN s |-> Paren(p[s[i]][field])]
Names(s) == [i \in DOMAIN s |-> Named(s[i])]

(* G-Secs and T-Bills: numbered rows, a yield below its price, with the    *)
(* cells before the data there or spanned from the row above.              *)
PricedTable(lead, s, p) ==
    LET numbered == <<Roman>> IN
    <<<<Caption("(amount in crore)")>>,
      <<Caption("auction results")>> \o Names(s),
      Printed(numbered, "notified amount", s, p, "notified_amount_cr"),
      Heading(numbered, "competitive bids received", s),
      Printed(<<>>, "(i) number", s, p, "bids_received_count"),
      Printed(numbered, "cut-off price", s, p, "cut_off_price"),
      Below(lead, s, p, "cut_off_yield"),
      Heading(numbered, "competitive bids accepted", s),
      Printed(<<>>, "(ii) amount", s, p, "bids_accepted_amount_cr"),
      Printed(numbered, "partial allotment percentage of competitive bids", s, p, "partial_allotment_pct"),
      Noise("(bids)", s),
      Printed(numbered, "weighted average price", s, p, "wavg_price"),
      Below(lead, s, p, "wavg_yield"),
      Heading(numbered, "non-competitive bids received", s), Noise("(i) number", s), Noise("(ii) amount", s),
      Heading(numbered, "non-competitive bids accepted", s), Noise("(i) number", s), Noise("(ii) amount", s),
      Noise("(iii) partial allotment percentage", s)>>

(* State loans: no numbers, yield and price on rows of their own.          *)
StateTable(s, p) ==
    <<<<Empty>> \o Names(s),
      Printed(<<>>, "notified amount", s, p, "notified_amount_cr"),
      Heading(<<>>, "competitive bids received", s),
      Printed(<<>>, "(i) number", s, p, "bids_received_count"),
      Printed(<<>>, "cut-off yield", s, p, "cut_off_yield"),
      Printed(<<>>, "cut-off price", s, p, "cut_off_price"),
      Heading(<<>>, "competitive bids accepted", s),
      Printed(<<>>, "(ii) amount", s, p, "bids_accepted_amount_cr"),
      Heading(<<>>, "partial allotment percentage of competitive bids", s),
      Printed(<<>>, "(i) percentage", s, p, "partial_allotment_pct"), Noise("(ii) number", s),
      Heading(<<>>, "non-competitive bids received", s), Noise("(i) number", s), Noise("(ii) amount", s),
      Heading(<<>>, "non-competitive bids accepted", s), Noise("(i) number", s), Noise("(ii) amount", s),
      Heading(<<>>, "partial allotment percentage of non-competitive bids", s), Noise("percentage", s),
      Printed(<<>>, "weighted average yield", s, p, "wavg_yield")>>

(* A state release has a table for each group, in a table around them all. *)
Page(release) ==
    IF release.layout = "priced"
    THEN <<[inside |-> 0, rows |-> PricedTable(release.lead, release.groups[1], Published(release))]>>
    ELSE <<[inside |-> 0, rows |-> <<<<Caption("(amount in crore)")>>>>]>>
         \o [g \in DOMAIN release.groups |->
                [inside |-> 1, rows |-> StateTable(release.groups[g], Published(release))]]

(* What a release says: a record for each security it has a figure of.     *)
AsPublished(release) ==
    {[security |-> s, figures |-> Published(release)[s]] :
        s \in {t \in DOMAIN Published(release) : Published(release)[t] # NoFields}}
=============================================================================
