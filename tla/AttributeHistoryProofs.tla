----------------------- MODULE AttributeHistoryProofs -----------------------
(***************************************************************************)
(* Proofs about AttributeHistory: for every set of instruments, values,    *)
(* sources and days, and any number of sessions of which no two are open   *)
(* at once, the rows tile the days, a flaky night withdraws no more than   *)
(* the threshold, and the rows implement the timeline.                     *)
(***************************************************************************)
EXTENDS AttributeHistory, FiniteSetTheorems, TLAPS

Lemmas == INSTANCE IngestionRunsLemmas

(***************************************************************************)
(* A chain of rows tiles the days.                                         *)
(***************************************************************************)
Tiled ==
    \A i \in Isin :
        /\ Rows(i) # {} => \E d \in Rows(i) : OpenDays(i) = {d} /\ \A e \in Rows(i) : e <= d
        /\ \A e \in Day : (\E d \in Rows(i) : d <= e) => \E d \in Rows(i) : Covering(i, e) = {d}
        /\ \A d, e \in Rows(i) : d < e => LastDayOf(i, d) < e

(* A chain of rows tiles the days, said without counting rows.             *)
LEMMA ChainTiles == TypeOK /\ RowsChained => Tiled
<1> SUFFICES ASSUME TypeOK, RowsChained, NEW i \in Isin
             PROVE  /\ Rows(i) # {} => \E d \in Rows(i) : OpenDays(i) = {d} /\ \A e \in Rows(i) : e <= d
                    /\ \A e \in Day : (\E d \in Rows(i) : d <= e) => \E d \in Rows(i) : Covering(i, e) = {d}
                    /\ \A d, e \in Rows(i) : d < e => LastDayOf(i, d) < e
  BY DEF Tiled
<1>1. /\ Rows(i) \subseteq 0 .. LastDay /\ Rows(i) \subseteq Day
      /\ LastDay \in Nat /\ Day \subseteq Nat /\ \A d \in Day : d <= LastDay
      /\ OpenDays(i) = {d \in Rows(i) : history[i][d].to = NoDay}
      /\ \A d \in Day : history[i][d].to \in Day \cup {NoDay}
  BY DaysAssumption DEF Rows, OpenDays, Day, TypeOK
<1>2. \A d \in Rows(i) :
        IF history[i][d].to = NoDay
        THEN \A e \in Rows(i) : e <= d
        ELSE /\ d <= history[i][d].to /\ history[i][d].to + 1 \in Rows(i)
             /\ \A e \in Rows(i) : e <= d \/ history[i][d].to < e
  BY DEF RowsChained
<1>3. \A d, e \in Rows(i) : d < e => LastDayOf(i, d) < e
  BY <1>1, <1>2 DEF LastDayOf
<1>4. \A d \in Rows(i) : d <= LastDayOf(i, d)
  BY <1>1, <1>2 DEF LastDayOf
<1>5. ASSUME Rows(i) # {}
      PROVE  \E d \in Rows(i) : OpenDays(i) = {d} /\ \A e \in Rows(i) : e <= d
  <2>1. PICK d \in Rows(i) : \A e \in Rows(i) : e <= d
    BY <1>1, <1>5, Lemmas!GreatestNatural
  <2>2. ASSUME history[i][d].to # NoDay
        PROVE  FALSE
    <3>1. d <= history[i][d].to /\ history[i][d].to + 1 \in Rows(i)
      BY <1>2, <2>2
    <3>2. history[i][d].to \in Nat /\ d \in Nat
      BY <1>1, <2>2
    <3>3. history[i][d].to + 1 <= d
      BY <2>1, <3>1
    <3>4. QED
      BY <3>1, <3>2, <3>3
  <2>3. \A e \in OpenDays(i) : e = d
    BY <1>1, <1>2, <2>1
  <2>4. QED
    BY <1>1, <2>1, <2>2, <2>3
<1>6. ASSUME NEW e \in Day, \E d \in Rows(i) : d <= e
      PROVE  \E d \in Rows(i) : Covering(i, e) = {d}
  <2> DEFINE before == {d \in Rows(i) : d <= e}
  <2>1. before \subseteq 0 .. LastDay /\ before # {}
    BY <1>1, <1>6
  <2>2. PICK d \in before : \A c \in before : c <= d
    BY <1>1, <2>1, Lemmas!GreatestNatural
  <2>3. e <= LastDayOf(i, d)
    <3>1. CASE history[i][d].to = NoDay
      BY <1>1, <3>1 DEF LastDayOf
    <3>2. CASE history[i][d].to # NoDay
      <4>1. history[i][d].to + 1 \in Rows(i) /\ d <= history[i][d].to
        BY <1>2, <2>2, <3>2
      <4>2. history[i][d].to \in Nat /\ d \in Nat /\ e \in Nat
        BY <1>1, <2>2, <3>2
      <4>3. ~(history[i][d].to + 1 <= e)
        BY <2>2, <4>1, <4>2
      <4>4. QED
        BY <3>2, <4>2, <4>3 DEF LastDayOf
    <3>3. QED
      BY <3>1, <3>2
  <2>4. ASSUME NEW c \in Covering(i, e), c # d
        PROVE  FALSE
    <3>1. c \in Rows(i) /\ c <= e /\ e <= LastDayOf(i, c)
      BY DEF Covering
    <3>2. c < d /\ d <= e
      BY <1>1, <2>2, <2>4, <3>1
    <3>3. LastDayOf(i, c) < d
      BY <1>3, <2>2, <3>1, <3>2
    <3>4. LastDayOf(i, c) \in Nat /\ c \in Nat /\ d \in Nat /\ e \in Nat
      BY <1>1, <2>2, <3>1 DEF LastDayOf
    <3>5. QED
      BY <3>1, <3>2, <3>3, <3>4
  <2>5. d \in Covering(i, e)
    BY <2>2, <2>3 DEF Covering
  <2>6. QED
    BY <2>2, <2>4, <2>5
<1>7. QED
  BY <1>3, <1>5, <1>6

(* What holds of the value in force, given that the rows tile the days.    *)
LEMMA TiledMeansUnique == TypeOK /\ RowsChained => RowsTileTheDays
<1> SUFFICES ASSUME TypeOK, Tiled, NEW i \in Isin, Rows(i) # {}
             PROVE  /\ Cardinality(OpenDays(i)) = 1
                    /\ \A e \in Day : (\E d \in Rows(i) : d <= e) =>
                          Cardinality({d \in Rows(i) : d <= e /\ e <= LastDayOf(i, d)}) = 1
  BY ChainTiles DEF RowsTileTheDays
<1>1. Cardinality(OpenDays(i)) = 1
  BY FS_Singleton DEF Tiled
<1>2. ASSUME NEW e \in Day, \E d \in Rows(i) : d <= e
      PROVE  Cardinality({d \in Rows(i) : d <= e /\ e <= LastDayOf(i, d)}) = 1
  <2>1. PICK d : Covering(i, e) = {d}
    BY <1>2 DEF Tiled
  <2>2. QED
    BY <2>1, FS_Singleton DEF Covering
<1>3. QED
  BY <1>1, <1>2

(***************************************************************************)
(* What a commit writes.                                                   *)
(***************************************************************************)

(* What a session has read is a batch: a date, a source, values of         *)
(* instruments.                                                            *)
LEMMA BatchFacts ==
    ASSUME TypeOK, NEW s \in Session, batch[s] # NoBatch
    PROVE  /\ batch[s].effective \in Day /\ batch[s].source \in Source
           /\ \A i \in Members(s) : i \in Isin /\ Said(s, i) \in AllValues
<1>1. batch[s] \in Batch
  BY DEF TypeOK
<1>2. batch[s].values \in UNION {[I -> AllValues] : I \in SUBSET Isin}
  BY <1>1 DEF Batch
<1>3. PICK I \in SUBSET Isin : batch[s].values \in [I -> AllValues]
  BY <1>2
<1>4. QED
  BY <1>1, <1>3 DEF Batch, Members, Said

(* The row a batch writes is a row, and an open one.                       *)
LEMMA FreshFacts ==
    ASSUME TypeOK, NEW s \in Session, batch[s] # NoBatch, NEW i \in Members(s)
    PROVE  /\ Fresh(s, i) \in Version /\ Fresh(s, i) # NoVersion
           /\ Fresh(s, i).to = NoDay /\ Fresh(s, i).value = Said(s, i)
           /\ Fresh(s, i).source = batch[s].source
<1>1. batch[s].source \in Source /\ Said(s, i) \in AllValues
  BY BatchFacts
<1>2. NoDay \in Int
  BY DEF NoDay
<1>3. QED
  BY <1>1, <1>2, SourceAssumption DEF Fresh, Version, NoVersion

(* A change of instrument i: the row of the effective date is written, and *)
(* the row that was open, if another, ends the day before.                 *)
Changed(s, i) ==
    LET e == batch[s].effective IN
    /\ \A r \in Rows(i) : r <= e
    /\ \A d \in Day : history'[i][d] =
          IF d = e THEN Fresh(s, i)
          ELSE IF d \in OpenDays(i) THEN [history[i][d] EXCEPT !.to = e - 1] ELSE history[i][d]

(* A commit changes the instruments the batch applies to, as Changed says, *)
(* and no other (_apply_scd2).                                             *)
LEMMA CommitEffect ==
    ASSUME IInv, NEW s \in Session, Commit(s), NEW i \in Isin
    PROVE  /\ history'[i] \in [Day -> Version \cup {NoVersion}]
           /\ ~Applies(s, i) => history'[i] = history[i]
           /\ Applies(s, i) => i \in Members(s) /\ Changed(s, i)
<1> DEFINE e == batch[s].effective
           from == open[s][i].from
<1>1. TypeOK /\ Tiled /\ ReadIsCurrent(s) /\ batch[s] # NoBatch
  BY ChainTiles DEF IInv, Commit
<1>2. history'[i] = NewRows(s, i)
  BY DEF Commit
<1>3. /\ history[i] \in [Day -> Version \cup {NoVersion}]
      /\ \A d \in Day : history[i][d].to \in Day \cup {NoDay}
  BY <1>1 DEF TypeOK
<1>4. e \in Day /\ Day \subseteq Nat /\ NoDay \notin Day /\ e - 1 \in Int
  BY <1>1, BatchFacts, DaysAssumption DEF Day, NoDay
<1>5. /\ OpenDays(i) = {} => from = NoDay
      /\ OpenDays(i) # {} => from \in OpenDays(i)
  BY <1>1 DEF ReadIsCurrent
<1>6. /\ Rows(i) # {} => OpenDays(i) = {from} /\ \A r \in Rows(i) : r <= from
      /\ OpenDays(i) \subseteq Rows(i) /\ Rows(i) \subseteq Day
  BY <1>1, <1>5 DEF Tiled, OpenDays, Rows
<1>7. CASE ~Applies(s, i)
  <2>1. NewRows(s, i) = [d \in Day |-> history[i][d]]
    BY <1>7 DEF NewRows, Corrects, Opens
  <2>2. QED
    BY <1>2, <1>3, <1>7, <2>1
<1>8. CASE Applies(s, i)
  <2>1. i \in Members(s) /\ from <= e
    BY <1>8 DEF Applies
  <2>2. Fresh(s, i) \in Version
    BY <1>1, <2>1, FreshFacts
  <2>3. CASE from = e
    <3>1. Corrects(s, i) /\ ~Opens(s, i)
      BY <1>8, <2>3 DEF Corrects, Opens
    <3>2. OpenDays(i) = {e} /\ \A r \in Rows(i) : r <= e
      BY <1>4, <1>5, <1>6, <2>3
    <3>3. history[i][e] \in Version /\ history[i][e].to = NoDay
      BY <1>3, <3>2 DEF OpenDays
    <3>4. Restated(history[i][e], s, i) = Fresh(s, i)
      <4> DEFINE row == history[i][e]
      <4>1. row \in Version /\ Said(s, i) \in AllValues /\ batch[s].source \in Source
        BY <1>1, <2>1, <3>3, BatchFacts
      <4>2. /\ Restated(row, s, i) \in Version /\ Restated(row, s, i).value = Said(s, i)
            /\ Restated(row, s, i).to = row.to /\ Restated(row, s, i).source = batch[s].source
        BY <4>1 DEF Restated, Version
      <4>3. /\ Fresh(s, i).value = Said(s, i) /\ Fresh(s, i).to = NoDay
            /\ Fresh(s, i).source = batch[s].source
        BY DEF Fresh
      <4>4. \A p, q \in Version : p.value = q.value /\ p.to = q.to /\ p.source = q.source => p = q
        BY DEF Version
      <4>5. QED
        BY <2>2, <3>3, <4>2, <4>3, <4>4
    <3>5. NewRows(s, i) = [d \in Day |-> IF d = e THEN Fresh(s, i) ELSE history[i][d]]
      BY <3>1, <3>4 DEF NewRows
    <3>6. QED
      BY <1>2, <1>3, <1>8, <2>1, <2>2, <3>2, <3>5 DEF Changed
  <2>4. CASE from # e
    <3>1. Opens(s, i) /\ ~Corrects(s, i)
      BY <1>8, <2>4 DEF Corrects, Opens
    <3>2. NewRows(s, i) = [d \in Day |-> IF d = e THEN Fresh(s, i)
                                         ELSE IF d = from THEN [history[i][d] EXCEPT !.to = e - 1]
                                         ELSE history[i][d]]
      BY <2>4, <3>1 DEF NewRows
    <3>3. \A d \in Day : d = from <=> d \in OpenDays(i)
      BY <1>4, <1>5, <1>6
    <3>4. \A r \in Rows(i) : r <= e
      <4>1. CASE Rows(i) = {}
        BY <4>1
      <4>2. CASE Rows(i) # {}
        <5>1. from \in Nat
          BY <1>4, <1>6, <4>2
        <5>2. ASSUME NEW r \in Rows(i)
              PROVE  r <= e
          <6>1. r \in Nat /\ e \in Nat /\ r <= from
            BY <1>4, <1>6, <4>2
          <6>2. QED
            BY <2>1, <5>1, <6>1
        <5>3. QED
          BY <5>2
      <4>3. QED
        BY <4>1, <4>2
    <3>5. \A d \in OpenDays(i) : history[i][d] \in Version
      BY <1>3 DEF OpenDays
    <3>6. \A d \in OpenDays(i) : [history[i][d] EXCEPT !.to = e - 1] \in Version
      BY <1>4, <3>5 DEF Version
    <3>7. history'[i] \in [Day -> Version \cup {NoVersion}]
      BY <1>2, <1>3, <2>2, <3>2, <3>3, <3>6
    <3>8. \A d \in Day : history'[i][d] =
             IF d = e THEN Fresh(s, i)
             ELSE IF d \in OpenDays(i) THEN [history[i][d] EXCEPT !.to = e - 1] ELSE history[i][d]
      BY <1>2, <3>2, <3>3
    <3>9. QED
      BY <1>8, <2>1, <3>4, <3>7, <3>8 DEF Changed
  <2>5. QED
    BY <2>3, <2>4
<1>9. QED
  BY <1>7, <1>8

(* The rows after a change.                                                *)
LEMMA ChangedRows ==
    ASSUME IInv, NEW s \in Session, Commit(s), NEW i \in Isin, Changed(s, i), i \in Members(s)
    PROVE  LET e == batch[s].effective IN
           /\ e \in Day /\ e \in Nat /\ Day \subseteq Nat
           /\ Rows(i)' = Rows(i) \cup {e} /\ OpenDays(i)' = {e}
           /\ history'[i][e] = Fresh(s, i)
           /\ \A d \in Rows(i) \ {e} :
                 /\ d < e
                 /\ history'[i][d].value = history[i][d].value
                 /\ history'[i][d].to = IF history[i][d].to = NoDay THEN e - 1 ELSE history[i][d].to
<1> DEFINE e == batch[s].effective
<1>1. TypeOK /\ batch[s] # NoBatch
  BY DEF IInv, Commit
<1>2. e \in Day /\ Day \subseteq Nat /\ NoDay \notin Nat
  BY <1>1, BatchFacts, DaysAssumption DEF Day, NoDay
<1>3. Fresh(s, i) # NoVersion /\ Fresh(s, i).to = NoDay
  BY <1>1, FreshFacts
<1>4. /\ \A r \in Rows(i) : r <= e
      /\ \A d \in Day : history'[i][d] =
            IF d = e THEN Fresh(s, i)
            ELSE IF d \in OpenDays(i) THEN [history[i][d] EXCEPT !.to = e - 1] ELSE history[i][d]
  BY DEF Changed
<1>5. \A d \in Rows(i) \ {e} : d \in Day /\ d < e /\ e - 1 \in Nat
  BY <1>2, <1>4 DEF Rows
<1>6. \A d \in Rows(i) : history[i][d] \in Version
  BY <1>1 DEF TypeOK, Rows
<1>7. \A d \in Rows(i) \ {e} :
         /\ history'[i][d].value = history[i][d].value
         /\ history'[i][d].to = IF history[i][d].to = NoDay THEN e - 1 ELSE history[i][d].to
         /\ history'[i][d] # NoVersion
  <2> SUFFICES ASSUME NEW d \in Rows(i) \ {e}
               PROVE  /\ history'[i][d].value = history[i][d].value
                      /\ history'[i][d].to = IF history[i][d].to = NoDay THEN e - 1 ELSE history[i][d].to
                      /\ history'[i][d] # NoVersion
    OBVIOUS
  <2>1. d \in Day /\ history[i][d] # NoVersion /\ e - 1 \in Nat
    BY <1>5 DEF Rows
  <2>2. CASE history[i][d].to = NoDay
    <3>1. d \in OpenDays(i)
      BY <2>1, <2>2 DEF OpenDays
    <3>2. history'[i][d] = [history[i][d] EXCEPT !.to = e - 1]
      BY <1>4, <2>1, <3>1
    <3>3. history'[i][d].to = e - 1 /\ history'[i][d].value = history[i][d].value
      BY <1>6, <3>2 DEF Version
    <3>4. NoVersion.to = NoDay
      BY DEF NoVersion
    <3>5. QED
      BY <1>2, <2>1, <2>2, <3>3, <3>4
  <2>3. CASE history[i][d].to # NoDay
    <3>1. d \notin OpenDays(i)
      BY <2>3 DEF OpenDays
    <3>2. history'[i][d] = history[i][d]
      BY <1>4, <2>1, <3>1
    <3>3. QED
      BY <2>1, <2>3, <3>2
  <2>4. QED
    BY <2>2, <2>3
<1>8. \A d \in Day \ Rows(i) : d # e => history'[i][d] = NoVersion
  BY <1>4 DEF Rows, OpenDays
<1>9. history'[i][e] = Fresh(s, i)
  BY <1>2, <1>4
<1>10. Rows(i)' = Rows(i) \cup {e}
  BY <1>2, <1>3, <1>5, <1>7, <1>8, <1>9 DEF Rows
<1>11. OpenDays(i)' = {e}
  <2>1. OpenDays(i)' = {d \in Rows(i)' : history'[i][d].to = NoDay}
    BY DEF Rows, OpenDays
  <2>2. \A d \in Rows(i) \ {e} : history'[i][d].to # NoDay
    BY <1>2, <1>5, <1>7
  <2>3. QED
    BY <1>3, <1>9, <1>10, <2>1, <2>2
<1>12. QED
  BY <1>2, <1>5, <1>7, <1>9, <1>10, <1>11

(***************************************************************************)
(* The inductive invariant.                                                *)
(***************************************************************************)

(* A commit leaves rows.                                                   *)
LEMMA CommitTypes ==
    ASSUME IInv, NEW s \in Session, Commit(s)
    PROVE  /\ history' \in [Isin -> [Day -> Version \cup {NoVersion}]]
           /\ \A i \in Isin, d \in Day : history'[i][d].to \in Day \cup {NoDay}
<1>1. \A i \in Isin : history'[i] \in [Day -> Version \cup {NoVersion}]
  BY CommitEffect
<1>2. history' \in [Isin -> [Day -> Version \cup {NoVersion}]]
  BY <1>1 DEF Commit
<1>3. ASSUME NEW i \in Isin, NEW d \in Day
      PROVE  history'[i][d].to \in Day \cup {NoDay}
  <2>1. history[i][d].to \in Day \cup {NoDay}
    BY DEF IInv, TypeOK
  <2>2. CASE ~Applies(s, i)
    BY <2>1, <2>2, CommitEffect
  <2>3. CASE Applies(s, i)
    <3> DEFINE e == batch[s].effective
    <3>1. i \in Members(s) /\ Changed(s, i)
      BY <2>3, CommitEffect
    <3>2. /\ e \in Day /\ Rows(i)' = Rows(i) \cup {e} /\ history'[i][e] = Fresh(s, i)
          /\ \A c \in Rows(i) \ {e} :
                c < e /\ history'[i][c].to = IF history[i][c].to = NoDay THEN e - 1 ELSE history[i][c].to
      BY <3>1, ChangedRows
    <3>3. CASE d = e
      BY <3>2, <3>3 DEF Fresh
    <3>4. CASE d \in Rows(i) \ {e}
      <4>1. d < e /\ d \in Day /\ e \in Day => e - 1 \in Day
        BY DaysAssumption DEF Day
      <4>2. QED
        BY <2>1, <3>2, <3>4, <4>1
    <3>5. CASE d \notin Rows(i) \cup {e}
      <4>1. history'[i][d] = NoVersion
        BY <3>2, <3>5 DEF Rows
      <4>2. QED
        BY <4>1 DEF NoVersion
    <3>6. QED
      BY <3>3, <3>4, <3>5
  <2>4. QED
    BY <2>2, <2>3
<1>4. QED
  BY <1>2, <1>3

(* A commit leaves chains.                                                 *)
LEMMA CommitChains == ASSUME IInv, NEW s \in Session, Commit(s) PROVE RowsChained'
<1> SUFFICES ASSUME NEW i \in Isin, NEW d \in Rows(i)'
             PROVE  IF history'[i][d].to = NoDay
                    THEN \A r \in Rows(i)' : r <= d
                    ELSE /\ d <= history'[i][d].to /\ history'[i][d].to + 1 \in Rows(i)'
                         /\ \A r \in Rows(i)' : r <= d \/ history'[i][d].to < r
  BY DEF RowsChained
<1>1. \A c \in Rows(i) :
         IF history[i][c].to = NoDay
         THEN \A r \in Rows(i) : r <= c
         ELSE /\ c <= history[i][c].to /\ history[i][c].to + 1 \in Rows(i)
              /\ \A r \in Rows(i) : r <= c \/ history[i][c].to < r
  BY DEF IInv, RowsChained
<1>2. CASE ~Applies(s, i)
  <2>1. history'[i] = history[i]
    BY <1>2, CommitEffect
  <2>2. Rows(i)' = Rows(i)
    BY <2>1 DEF Rows
  <2>3. QED
    BY <1>1, <2>1, <2>2
<1>3. CASE Applies(s, i)
  <2> DEFINE e == batch[s].effective
  <2>1. i \in Members(s) /\ Changed(s, i)
    BY <1>3, CommitEffect
  <2>2. /\ e \in Nat /\ Day \subseteq Nat /\ Rows(i)' = Rows(i) \cup {e}
        /\ history'[i][e] = Fresh(s, i)
        /\ \A c \in Rows(i) \ {e} :
              c < e /\ history'[i][c].to = IF history[i][c].to = NoDay THEN e - 1 ELSE history[i][c].to
    BY <2>1, ChangedRows
  <2>3. \A c \in Rows(i) : c \in Nat /\ c <= e
    BY <2>2 DEF Rows
  <2>4. CASE d = e
    <3>1. history'[i][d].to = NoDay
      BY <2>2, <2>4 DEF Fresh
    <3>2. QED
      BY <2>2, <2>3, <2>4, <3>1
  <2>5. CASE d \in Rows(i) \ {e} /\ history[i][d].to = NoDay
    <3>1. history'[i][d].to = e - 1 /\ d < e /\ d \in Nat
      BY <2>2, <2>3, <2>5
    <3>2. \A r \in Rows(i)' : r <= d \/ e - 1 < r
      BY <1>1, <2>2, <2>3, <2>5
    <3>3. QED
      BY <2>2, <3>1, <3>2 DEF NoDay
  <2>6. CASE d \in Rows(i) \ {e} /\ history[i][d].to # NoDay
    <3> DEFINE to == history[i][d].to
    <3>1. history'[i][d].to = to /\ to \in Nat
      BY <2>2, <2>6 DEF IInv, TypeOK, Rows
    <3>2. d <= to /\ to + 1 \in Rows(i) /\ \A r \in Rows(i) : r <= d \/ to < r
      BY <1>1, <2>6
    <3>3. to < e
      <4>1. to + 1 <= e
        BY <2>3, <3>2
      <4>2. QED
        BY <2>2, <3>1, <4>1
    <3>4. QED
      BY <2>2, <2>6, <3>1, <3>2, <3>3
  <2>7. QED
    BY <2>2, <2>4, <2>5, <2>6
<1>4. QED
  BY <1>2, <1>3

(* A session without a batch is told from one that has read any.           *)
LEMMA NoBatchApart == NoBatch \notin Batch
  BY SourceAssumption DEF NoBatch, Batch

(* An empty history is a chain.                                            *)
LEMMA InitIInv == Init => IInv
<1> SUFFICES ASSUME Init PROVE IInv
  OBVIOUS
<1>1. TypeOK
  BY DEF Init, TypeOK, NoVersion, NoOpen
<1>2. \A i \in Isin : Rows(i) = {}
  BY DEF Init, Rows
<1>3. QED
  BY <1>1, <1>2 DEF IInv, Init, RowsChained

(* With the history unchanged, the rows are what they were.                *)
LEMMA HistoryKept == ASSUME IInv, UNCHANGED history PROVE RowsChained'
  BY DEF IInv, RowsChained, Rows

(* A session reads the open rows as they are.                              *)
LEMMA ReadStep == ASSUME IInv, NEW s \in Session, Read(s) PROVE IInv'
<1>1. PICK from \in [Isin -> Day \cup {NoDay}] :
         /\ \A i \in Isin : IF OpenDays(i) = {} THEN from[i] = NoDay ELSE from[i] \in OpenDays(i)
         /\ open' = [open EXCEPT ![s] = [i \in Isin |-> OpenRow(i, from[i])]]
  BY DEF Read
<1>2. TypeOK /\ UNCHANGED history
  BY DEF IInv, Read
<1>3. \A i \in Isin : OpenRow(i, from[i]) \in [from : Day \cup {NoDay}, row : Version \cup {NoVersion}]
  BY <1>2 DEF OpenRow, TypeOK
<1>4. TypeOK'
  <2>1. batch' \in [Session -> Batch \cup {NoBatch}]
    BY <1>2 DEF TypeOK, Read
  <2>2. [i \in Isin |-> OpenRow(i, from[i])]
           \in [Isin -> [from : Day \cup {NoDay}, row : Version \cup {NoVersion}]]
    BY <1>3
  <2>3. open' \in [Session -> [Isin -> [from : Day \cup {NoDay}, row : Version \cup {NoVersion}]]]
    BY <1>1, <1>2, <2>2 DEF TypeOK
  <2>4. QED
    BY <1>2, <2>1, <2>3 DEF TypeOK
<1>5. ASSUME NEW t \in Session, batch'[t] # NoBatch
      PROVE  ReadIsCurrent(t)'
  <2>1. \A i \in Isin : OpenDays(i)' = OpenDays(i) /\ \A d : OpenRow(i, d)' = OpenRow(i, d)
    BY <1>2 DEF OpenDays, OpenRow
  <2>2. CASE t = s
    <3>1. \A i \in Isin : open'[t][i] = OpenRow(i, from[i]) /\ open'[t][i].from = from[i]
      BY <1>1, <1>2, <2>2 DEF TypeOK, OpenRow
    <3>2. QED
      BY <1>1, <2>1, <3>1 DEF ReadIsCurrent
  <2>3. CASE t # s
    <3>1. batch[t] # NoBatch /\ open'[t] = open[t]
      BY <1>1, <1>2, <1>5, <2>3 DEF TypeOK, Read
    <3>2. ReadIsCurrent(t)
      BY <3>1 DEF IInv
    <3>3. QED
      BY <2>1, <3>1, <3>2 DEF ReadIsCurrent
  <2>4. QED
    BY <2>2, <2>3
<1>6. QED
  BY <1>2, <1>4, <1>5, HistoryKept DEF IInv

(* A session that ends lets go of its batch, and touches no other's.       *)
LEMMA FinishStep ==
    ASSUME TypeOK, NEW s \in Session, Finish(s)
    PROVE  /\ batch' \in [Session -> Batch \cup {NoBatch}]
           /\ open' \in [Session -> [Isin -> [from : Day \cup {NoDay}, row : Version \cup {NoVersion}]]]
           /\ \A t \in Session : t # s => batch'[t] = batch[t] /\ open'[t] = open[t]
           /\ batch'[s] = NoBatch
<1>1. NoOpen \in [Isin -> [from : Day \cup {NoDay}, row : Version \cup {NoVersion}]]
  BY DEF NoOpen
<1>2. QED
  BY <1>1 DEF TypeOK, Finish

(* A rollback leaves the rows alone.                                       *)
LEMMA RollbackStep == ASSUME IInv, NEW s \in Session, Rollback(s) PROVE IInv'
<1>1. TypeOK /\ UNCHANGED history /\ Finish(s)
  BY DEF IInv, Rollback
<1>2. TypeOK'
  BY <1>1, FinishStep DEF TypeOK
<1>3. ASSUME NEW t \in Session, batch'[t] # NoBatch
      PROVE  ReadIsCurrent(t)'
  <2>1. batch[t] # NoBatch /\ open'[t] = open[t]
    BY <1>1, <1>3, FinishStep
  <2>2. \A i \in Isin : OpenDays(i)' = OpenDays(i) /\ \A d : OpenRow(i, d)' = OpenRow(i, d)
    BY <1>1 DEF OpenDays, OpenRow
  <2>3. ReadIsCurrent(t)
    BY <2>1 DEF IInv
  <2>4. QED
    BY <2>1, <2>2, <2>3 DEF ReadIsCurrent
<1>4. QED
  BY <1>1, <1>2, <1>3, HistoryKept DEF IInv

(* No other session is open when one commits.                              *)
LEMMA CommitStep == ASSUME IInv, SessionsApart, NEW s \in Session, Commit(s) PROVE IInv'
<1>1. TypeOK /\ Finish(s) /\ batch[s] # NoBatch
  BY DEF IInv, Commit
<1>2. TypeOK'
  BY <1>1, FinishStep, CommitTypes DEF TypeOK
<1>3. \A t \in Session : batch'[t] = NoBatch
  BY <1>1, FinishStep DEF SessionsApart
<1>4. QED
  BY <1>2, <1>3, CommitChains DEF IInv

(* Each step keeps the invariant while sessions keep apart.                *)
LEMMA StepIInv == IInv /\ SessionsApart /\ [Next]_vars => IInv'
<1> SUFFICES ASSUME IInv, SessionsApart, [Next]_vars PROVE IInv'
  OBVIOUS
<1>1. ASSUME NEW s \in Session, Read(s)
      PROVE  IInv'
  BY <1>1, ReadStep
<1>2. ASSUME NEW s \in Session, Commit(s)
      PROVE  IInv'
  BY <1>2, CommitStep
<1>3. ASSUME NEW s \in Session, Rollback(s)
      PROVE  IInv'
  BY <1>3, RollbackStep
<1>4. CASE UNCHANGED vars
  BY <1>4 DEF vars, IInv, TypeOK, RowsChained, Rows, ReadIsCurrent, OpenDays, OpenRow
<1>5. QED
  BY <1>1, <1>2, <1>3, <1>4 DEF Next

(* While no two sessions are open at once, the rows form a chain and what  *)
(* a session has read of them stays true until it commits.                 *)
THEOREM HistoryInvariant == Spec /\ []SessionsApart => []IInv
<1>1. Init => IInv
  BY InitIInv
<1>2. IInv /\ SessionsApart /\ [Next]_vars => IInv'
  BY StepIInv
<1>3. QED
  BY <1>1, <1>2, PTL DEF Spec

(* While no two sessions are open at once, every day from the first row    *)
(* on has exactly one row and one row is open: the rows _apply_scd2        *)
(* closes and opens tile the days.                                         *)
THEOREM Tiling == Spec /\ []SessionsApart => []RowsTileTheDays
<1>1. IInv => RowsTileTheDays
  BY TiledMeansUnique DEF IInv
<1>2. QED
  BY <1>1, HistoryInvariant, PTL

(***************************************************************************)
(* Withdrawals.                                                            *)
(***************************************************************************)

(* With the history unchanged, the current values are what they were.      *)
LEMMA HistoryKeptCurrent ==
    ASSUME UNCHANGED history, NEW i \in Isin
    PROVE  Current(i)' = Current(i)
<1>1. OpenDays(i)' = OpenDays(i)
  BY DEF OpenDays
<1>2. QED
  BY <1>1 DEF Current

(* A value a commit takes away is one the batch counts as a withdrawal,    *)
(* and then the threshold has let it pass.                                 *)
LEMMA Withdrawn ==
    ASSUME IInv, NEW s \in Session, Commit(s), NEW i \in Isin,
           Current(i) # NoValue, Current(i)' = NoValue
    PROVE  i \in Members(s) /\ Withdraws(s, i) /\ ~SuppressWithdrawals(s)
<1> DEFINE e == batch[s].effective
           from == open[s][i].from
<1>1. TypeOK /\ Tiled /\ ReadIsCurrent(s) /\ batch[s] # NoBatch
  BY ChainTiles DEF IInv, Commit
<1>2. OpenDays(i) # {}
  BY DEF Current
<1>3. PICK d \in Day : OpenDays(i) = {d}
  BY <1>1, <1>2 DEF Tiled, OpenDays, Rows
<1>4. from = d /\ open[s][i].row = history[i][d]
  <2>1. from = d /\ open[s][i].row = OpenRow(i, from).row
    BY <1>1, <1>3 DEF ReadIsCurrent
  <2>2. d # NoDay
    BY DaysAssumption DEF Day, NoDay
  <2>3. QED
    BY <2>1, <2>2 DEF OpenRow
<1>5. Current(i) = open[s][i].row.value
  BY <1>3, <1>4 DEF Current
<1>6. Applies(s, i)
  <2>1. SUFFICES ASSUME ~Applies(s, i)
                 PROVE  FALSE
    OBVIOUS
  <2>2. history'[i] = history[i]
    BY <2>1, CommitEffect
  <2>3. OpenDays(i)' = OpenDays(i)
    BY <2>2 DEF OpenDays
  <2>4. QED
    BY <2>2, <2>3 DEF Current
<1>7. i \in Members(s) /\ Changed(s, i)
  BY <1>6, CommitEffect
<1>8. OpenDays(i)' = {e} /\ history'[i][e] = Fresh(s, i)
  BY <1>7, ChangedRows
<1>9. Said(s, i) = NoValue
  <2>1. Current(i)' = history'[i][e].value
    BY <1>8 DEF Current
  <2>2. QED
    BY <1>8, <2>1 DEF Fresh
<1>10. d # NoDay
  BY DaysAssumption DEF Day, NoDay
<1>11. QED
  BY <1>4, <1>5, <1>6, <1>7, <1>9, <1>10 DEF Applies, Withdraws, HasOpen

(* No step takes more values away than the threshold allows.               *)
LEMMA StepWithdraws ==
    IInv /\ [Next]_vars =>
        Cardinality({i \in Isin : Current(i) # NoValue /\ Current(i)' = NoValue}) <= MaxWithdrawals
<1> DEFINE gone == {i \in Isin : Current(i) # NoValue /\ Current(i)' = NoValue}
<1> SUFFICES ASSUME IInv, [Next]_vars
             PROVE  Cardinality(gone) <= MaxWithdrawals
  OBVIOUS
<1>1. CASE UNCHANGED history
  <2>1. gone = {}
    BY <1>1, HistoryKeptCurrent
  <2>2. QED
    BY <2>1, FS_EmptySet, WithdrawalsAssumption
<1>2. ASSUME NEW s \in Session, Commit(s)
      PROVE  Cardinality(gone) <= MaxWithdrawals
  <2> DEFINE counted == {i \in Members(s) : Withdraws(s, i)}
  <2>1. gone \subseteq counted
    BY <1>2, Withdrawn
  <2>2. CASE gone = {}
    BY <2>2, FS_EmptySet, WithdrawalsAssumption
  <2>3. CASE gone # {}
    <3>1. ~SuppressWithdrawals(s)
      BY <1>2, <2>3, Withdrawn
    <3>2. counted \subseteq Isin
      BY <1>2, BatchFacts DEF IInv, Commit
    <3>3. IsFiniteSet(counted)
      BY <3>2, FS_Subset, IsinAssumption
    <3>4. Cardinality(gone) <= Cardinality(counted) /\ IsFiniteSet(gone)
      BY <2>1, <3>3, FS_Subset
    <3>5. Cardinality(gone) \in Nat /\ Cardinality(counted) \in Nat
      BY <3>3, <3>4, FS_CardinalityType
    <3>6. ~(Cardinality(counted) > MaxWithdrawals)
      BY <3>1 DEF SuppressWithdrawals
    <3> HIDE DEF gone, counted
    <3>7. QED
      BY <3>4, <3>5, <3>6, WithdrawalsAssumption
  <2>4. QED
    BY <2>2, <2>3
<1>3. QED
  BY <1>1, <1>2 DEF Next, Read, Rollback, vars

(* One flaky upstream night withdraws no more values than the threshold    *)
(* _apply_scd2 guards them with.                                           *)
THEOREM WithdrawalsBounded == Spec /\ []SessionsApart => NoMassWithdrawal
<1>1. IInv /\ [Next]_vars =>
        [Cardinality({i \in Isin : Current(i) # NoValue /\ Current(i)' = NoValue})
           <= MaxWithdrawals]_vars
  BY StepWithdraws
<1>2. QED
  BY <1>1, HistoryInvariant, PTL DEF Spec, NoMassWithdrawal

(***************************************************************************)
(* The timeline.                                                           *)
(***************************************************************************)

(* What is in force on a day is a value or none.                           *)
LEMMA ValueTypes == TypeOK => \A i \in Isin, x \in Day : ValueOn(i, x) \in AllValues
<1> SUFFICES ASSUME TypeOK, NEW i \in Isin, NEW x \in Day
             PROVE  ValueOn(i, x) \in AllValues
  OBVIOUS
<1>1. \A d \in Day : history[i][d].value \in AllValues
  BY DEF TypeOK, Version, NoVersion, AllValues
<1>2. Covering(i, x) \subseteq Day
  BY DEF Covering, Rows
<1>3. QED
  BY <1>1, <1>2 DEF ValueOn, AllValues

(* From its last row on, an instrument has one value.                      *)
LEMMA LastRowSettles ==
    ASSUME TypeOK, Tiled, NEW i \in Isin, NEW e \in Day, \A r \in Rows(i) : r <= e,
           NEW x \in Day, e <= x
    PROVE  ValueOn(i, x) = ValueOn(i, e)
<1>1. Day \subseteq Nat /\ LastDay \in Nat /\ \A d \in Day : d <= LastDay
  BY DaysAssumption DEF Day
<1>2. CASE Rows(i) = {}
  BY <1>2 DEF ValueOn, Covering
<1>3. CASE Rows(i) # {}
  <2>1. PICK m \in Rows(i) : OpenDays(i) = {m}
    BY <1>3 DEF Tiled
  <2>2. LastDayOf(i, m) = LastDay /\ m \in Day /\ m <= e
    BY <2>1 DEF LastDayOf, OpenDays
  <2>3. m \in Covering(i, e) /\ m \in Covering(i, x)
    BY <1>1, <2>1, <2>2 DEF Covering
  <2>4. Covering(i, e) = {m} /\ Covering(i, x) = {m}
    <3>1. (\E d \in Rows(i) : d <= e) /\ (\E d \in Rows(i) : d <= x)
      BY <2>3 DEF Covering
    <3>2. QED
      BY <2>3, <3>1 DEF Tiled
  <2>5. QED
    BY <2>4 DEF ValueOn
<1>4. QED
  BY <1>2, <1>3

(* A change of instrument i records what the batch says from its effective *)
(* day on and leaves every day before it as it was.                        *)
LEMMA ChangeRecorded ==
    ASSUME IInv, TypeOK', Tiled', NEW s \in Session, Commit(s), NEW i \in Isin, Applies(s, i),
           NEW x \in Day
    PROVE  ValueOn(i, x)' = IF batch[s].effective <= x THEN Said(s, i) ELSE ValueOn(i, x)
<1>0. PICK e : e = batch[s].effective
  OBVIOUS
<1>1. /\ e \in Day /\ e \in Nat /\ x \in Nat /\ Day \subseteq Nat /\ LastDay \in Nat /\ \A d \in Day : d <= LastDay
      /\ Rows(i)' = Rows(i) \cup {e} /\ OpenDays(i)' = {e} /\ history'[i][e] = Fresh(s, i)
      /\ \A d \in Rows(i) \ {e} :
            /\ d < e
            /\ history'[i][d].value = history[i][d].value
            /\ history'[i][d].to = IF history[i][d].to = NoDay THEN e - 1 ELSE history[i][d].to
  <2>1. i \in Members(s) /\ Changed(s, i)
    BY CommitEffect
  <2>2. QED
    BY <1>0, <2>1, ChangedRows, DaysAssumption DEF Day
<1>2. CASE e <= x
  <2>1. LastDayOf(i, e)' = LastDay
    BY <1>1 DEF LastDayOf, Fresh
  <2>2. e \in Covering(i, x)'
    BY <1>1, <1>2, <2>1 DEF Covering
  <2>3. \E d \in Rows(i)' : d <= x
    BY <1>1, <1>2
  <2>4. Covering(i, x)' = {e}
    BY <2>2, <2>3 DEF Tiled
  <2>5. ValueOn(i, x)' = history'[i][e].value
    BY <2>4 DEF ValueOn
  <2>6. QED
    BY <1>0, <1>1, <1>2, <2>5 DEF Fresh
<1>3. CASE ~(e <= x)
  <2>1. x < e
    BY <1>1, <1>3
  <2>2. ASSUME NEW d \in Rows(i), d # e
        PROVE  x <= LastDayOf(i, d)' <=> x <= LastDayOf(i, d)
    <3>1. CASE history[i][d].to = NoDay
      <4>0. d \in Nat /\ d < e /\ history'[i][d].to = e - 1
        BY <1>1, <2>2, <3>1 DEF Rows
      <4>1. LastDayOf(i, d)' = e - 1
        BY <1>1, <4>0 DEF LastDayOf, NoDay
      <4>2. LastDayOf(i, d) = LastDay
        BY <3>1 DEF LastDayOf
      <4>3. QED
        BY <1>1, <2>1, <4>1, <4>2
    <3>2. CASE history[i][d].to # NoDay
      BY <1>1, <2>2, <3>2 DEF LastDayOf
    <3>3. QED
      BY <3>1, <3>2
  <2>3. Covering(i, x)' = {d \in Rows(i)' : d <= x /\ x <= LastDayOf(i, d)'}
    BY DEF Covering
  <2>4. Covering(i, x)' = Covering(i, x)
    <3>1. \A d \in Rows(i)' : d <= x => d \in Rows(i) /\ d # e
      BY <1>1, <1>3
    <3>2. \A d \in Rows(i) : d <= x => d # e
      BY <1>3
    <3>3. Rows(i) \subseteq Rows(i)'
      BY <1>1
    <3>4. QED
      BY <2>2, <2>3, <3>1, <3>2, <3>3 DEF Covering
  <2>5. \A d \in Covering(i, x) : history'[i][d].value = history[i][d].value
    BY <1>1, <1>3 DEF Covering
  <2>6. ValueOn(i, x)' = ValueOn(i, x)
    BY <2>4, <2>5 DEF ValueOn
  <2>7. QED
    BY <1>0, <1>3, <2>6
<1>4. QED
  BY <1>2, <1>3

(* The timeline the rows stand for.                                        *)
InForce == [i \in Isin |-> [x \in Day |-> ValueOn(i, x)]]

(* A commit is a batch of the timeline.                                    *)
LEMMA StepTimeline ==
    ASSUME IInv, TypeOK', Tiled', NEW s \in Session, Commit(s)
    PROVE  Timeline!Batch(batch[s].effective)
<1>0. PICK e : e = batch[s].effective
  OBVIOUS
<1>1. TypeOK /\ Tiled /\ batch[s] # NoBatch /\ e \in Day /\ e \in Nat /\ Day \subseteq Nat
  BY <1>0, BatchFacts, ChainTiles, DaysAssumption DEF IInv, Commit, Day
<1>2. InForce' \in [Isin -> [Day -> AllValues]]
  <2>1. (\A i \in Isin, x \in Day : ValueOn(i, x) \in AllValues)'
    BY ValueTypes, PTL
  <2>2. QED
    BY <2>1 DEF InForce
<1>3. ASSUME NEW i \in Isin, ~Applies(s, i)
      PROVE  InForce'[i] = InForce[i]
  <2>1. history'[i] = history[i]
    BY <1>3, CommitEffect
  <2>2. \A x : Covering(i, x)' = {d \in Rows(i)' : d <= x /\ x <= LastDayOf(i, d)'}
    BY DEF Covering
  <2>3. Rows(i)' = Rows(i) /\ \A d : LastDayOf(i, d)' = LastDayOf(i, d)
    BY <2>1 DEF Rows, LastDayOf
  <2>4. \A x : Covering(i, x)' = Covering(i, x)
    BY <2>2, <2>3 DEF Covering
  <2>5. ASSUME NEW x
        PROVE  ValueOn(i, x)' = ValueOn(i, x)
    <3>1. Covering(i, x)' = Covering(i, x)
      BY <2>4
    <3>2. QED
      BY <2>1, <3>1 DEF ValueOn
  <2>6. QED
    BY <2>5 DEF InForce
<1>4. ASSUME NEW i \in Isin, Applies(s, i)
      PROVE  /\ \A x \in Day : e <= x => InForce[i][x] = InForce[i][e]
             /\ \E v \in AllValues :
                   InForce'[i] = [x \in Day |-> IF e <= x THEN v ELSE InForce[i][x]]
  <2>1. i \in Members(s) /\ \A r \in Rows(i) : r <= e
    BY <1>0, <1>4, CommitEffect DEF Changed
  <2>2. \A x \in Day : e <= x => ValueOn(i, x) = ValueOn(i, e)
    BY <1>1, <2>1, LastRowSettles
  <2>3. Said(s, i) \in AllValues
    BY <1>1, <2>1, BatchFacts
  <2>4. \A x \in Day : ValueOn(i, x)' = IF e <= x THEN Said(s, i) ELSE ValueOn(i, x)
    BY <1>0, <1>4, ChangeRecorded
  <2>5. InForce'[i] = [x \in Day |-> IF e <= x THEN Said(s, i) ELSE InForce[i][x]]
    <3>1. InForce'[i] = [x \in Day |-> ValueOn(i, x)']
      BY DEF InForce
    <3>2. \A x \in Day : InForce[i][x] = ValueOn(i, x)
      BY DEF InForce
    <3>3. QED
      BY <2>4, <3>1, <3>2
  <2>6. QED
    BY <1>1, <2>2, <2>3, <2>5 DEF InForce
<1>5. QED
  BY <1>0, <1>2, <1>3, <1>4
     DEF Timeline!Batch, Timeline!Settled, Timeline!Record, Timeline!AllValues, AllValues, InForce

(* Each step is a step of the timeline or leaves it as it was.             *)
LEMMA StepImplements ==
    IInv /\ TypeOK' /\ Tiled' /\ [Next]_vars => [Timeline!Next]_InForce
<1> SUFFICES ASSUME IInv, TypeOK', Tiled', [Next]_vars
             PROVE  Timeline!Next \/ UNCHANGED InForce
  OBVIOUS
<1>1. CASE UNCHANGED history
  <2>1. \A i \in Isin, x \in Day : ValueOn(i, x)' = ValueOn(i, x)
    BY <1>1 DEF ValueOn, Covering, Rows, LastDayOf
  <2>2. QED
    BY <2>1 DEF InForce
<1>2. ASSUME NEW s \in Session, Commit(s)
      PROVE  Timeline!Next
  <2>1. batch[s].effective \in Day
    BY <1>2, BatchFacts DEF IInv, Commit
  <2>2. QED
    BY <1>2, <2>1, StepTimeline DEF Timeline!Next
<1>3. QED
  BY <1>1, <1>2 DEF Next, Read, Rollback, vars

(* The rows implement the timeline: a committed batch changes the value in *)
(* force from its effective date on, and rewrites no earlier day and no    *)
(* change recorded for a later one.                                        *)
THEOREM Implementation == Spec /\ []SessionsApart => ImplementsTimeline
<1>1. Init => Timeline!Init
  BY DEF Init, Timeline!Init, ValueOn, Covering, Rows
<1>2. IInv /\ IInv' /\ [Next]_vars => [Timeline!Next]_InForce
  <2>1. IInv => TypeOK /\ Tiled
    BY ChainTiles DEF IInv
  <2>2. IInv' => TypeOK' /\ Tiled'
    BY <2>1, PTL
  <2>3. QED
    BY <2>2, StepImplements
<1>3. [Timeline!Next]_InForce => [Timeline!Next]_[i \in Isin |-> [e \in Day |-> ValueOn(i, e)]]
  BY DEF InForce
<1>4. QED
  BY <1>1, <1>2, <1>3, HistoryInvariant, PTL DEF Spec, ImplementsTimeline, Timeline!Spec
=============================================================================
