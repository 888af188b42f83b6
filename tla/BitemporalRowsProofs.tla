------------------------ MODULE BitemporalRowsProofs ------------------------
(***************************************************************************)
(* Proofs about BitemporalRows: for every set of values, any number of     *)
(* keys and of sessions, however they overlap, a key keeps one current     *)
(* version and a version its value and its stamps; and what was believed   *)
(* at a time has one answer while no two sessions have overlapped.         *)
(***************************************************************************)
EXTENDS BitemporalRows, FiniteSetTheorems, TLAPS

Lemmas == INSTANCE IngestionRunsLemmas

(***************************************************************************)
(* Types.                                                                  *)
(***************************************************************************)

(* Keys and times are numbers, and the marks for none are not among them.  *)
LEMMA ConstantFacts ==
    /\ Key \subseteq Nat /\ Time \subseteq Nat /\ Null \notin Time /\ Null \in Nat
    /\ NotSelected \notin Nat /\ NumKeys \in Nat /\ MaxClock \in Nat /\ Key \subseteq 1 .. NumKeys + 1
  BY KeysAssumption, ClockAssumption DEF Key, Time, Null, NotSelected

(* No batch is told from any.                                              *)
LEMMA BatchesApart == NoBatch \notin [Key -> Value]
<1>1. 1 \in Key /\ DOMAIN NoBatch = {}
  BY KeysAssumption DEF Key, NoBatch
<1>2. QED
  BY <1>1

(* The version a session will insert is one.                               *)
LEMMA NewVersionType ==
    ASSUME IInv, NEW s \in Session, now[s] # Null, NEW k \in Key
    PROVE  /\ NewVersion(k, s) \in RowVersion /\ now[s] \in Time
           /\ NewVersion(k, s).superseded = Null /\ NewVersion(k, s).loaded = now[s]
<1>1. now[s] \in Time /\ fetched[s][k] \in Value
  BY DEF IInv, TypeOK, WritesApart
<1>2. QED
  BY <1>1 DEF NewVersion, RowVersion

(* Closing changes the end of the version the session selected, no more.   *)
LEMMA ClosedFacts ==
    ASSUME IInv, NEW s \in Session, now[s] # Null, NEW k \in Key
    PROVE  /\ Closed(k, s) \in Seq(RowVersion) /\ Len(Closed(k, s)) = Len(rows[k])
           /\ DOMAIN Closed(k, s) = DOMAIN rows[k] /\ DOMAIN rows[k] = 1 .. Len(rows[k])
           /\ Len(rows[k]) \in Nat
           /\ \A n \in DOMAIN rows[k] :
                 /\ Closed(k, s)[n].value = rows[k][n].value
                 /\ Closed(k, s)[n].loaded = rows[k][n].loaded
                 /\ Closed(k, s)[n].superseded =
                       IF n = selected[s][k] THEN now[s] ELSE rows[k][n].superseded
<1>1. now[s] \in Time /\ rows[k] \in Seq(RowVersion)
  BY DEF IInv, TypeOK
<1>2. /\ DOMAIN rows[k] = 1 .. Len(rows[k]) /\ Len(rows[k]) \in Nat
      /\ \A n \in DOMAIN rows[k] : rows[k][n] \in RowVersion
  BY <1>1
<1>3. ASSUME NEW n \in DOMAIN rows[k]
      PROVE  LET v == [rows[k][n] EXCEPT !.superseded = now[s]] IN
             /\ v \in RowVersion /\ v.value = rows[k][n].value /\ v.loaded = rows[k][n].loaded
             /\ v.superseded = now[s]
  BY <1>1, <1>2, <1>3 DEF RowVersion
<1>4. \A n \in DOMAIN rows[k] :
         /\ Closed(k, s)[n] \in RowVersion
         /\ Closed(k, s)[n].value = rows[k][n].value
         /\ Closed(k, s)[n].loaded = rows[k][n].loaded
         /\ Closed(k, s)[n].superseded = IF n = selected[s][k] THEN now[s] ELSE rows[k][n].superseded
  BY <1>2, <1>3 DEF Closed
<1>5. Closed(k, s) \in [1 .. Len(rows[k]) -> RowVersion]
  BY <1>2, <1>4 DEF Closed
<1>6. Closed(k, s) \in Seq(RowVersion) /\ Len(Closed(k, s)) = Len(rows[k])
  BY <1>2, <1>5
<1>7. QED
  BY <1>2, <1>4, <1>5, <1>6

(* What a commit makes of the versions of a key it supersedes.             *)
LEMMA CommitRows ==
    ASSUME IInv, NEW s \in Session, Commit(s), NEW k \in Key
    PROVE  /\ k \notin pending[s] => rows'[k] = rows[k]
           /\ k \in pending[s] =>
                 /\ rows'[k] \in Seq(RowVersion)
                 /\ Len(rows[k]) \in Nat /\ DOMAIN rows[k] = 1 .. Len(rows[k])
                 /\ DOMAIN rows'[k] = 1 .. Len(rows[k]) + 1 /\ Len(rows'[k]) = Len(rows[k]) + 1
                 /\ rows'[k][Len(rows[k]) + 1] = NewVersion(k, s)
                 /\ \A n \in DOMAIN rows[k] :
                       /\ rows'[k][n].value = rows[k][n].value
                       /\ rows'[k][n].loaded = rows[k][n].loaded
                       /\ rows'[k][n].superseded =
                             IF n = selected[s][k] THEN now[s] ELSE rows[k][n].superseded
<1>1. now[s] # Null
  BY DEF Commit
<1>2. rows'[k] = IF k \in pending[s] THEN Append(Closed(k, s), NewVersion(k, s)) ELSE rows[k]
  BY DEF Commit
<1>3. CASE k \notin pending[s]
  BY <1>2, <1>3
<1>4. CASE k \in pending[s]
  <2> DEFINE closed == Closed(k, s)
             new == NewVersion(k, s)
  <2>1. /\ closed \in Seq(RowVersion) /\ Len(closed) = Len(rows[k]) /\ new \in RowVersion
        /\ DOMAIN rows[k] = 1 .. Len(rows[k]) /\ Len(rows[k]) \in Nat
    BY <1>1, ClosedFacts, NewVersionType
  <2>2. rows'[k] = Append(closed, new)
    BY <1>2, <1>4
  <2>3. \A n \in DOMAIN rows[k] :
           /\ closed[n].value = rows[k][n].value
           /\ closed[n].loaded = rows[k][n].loaded
           /\ closed[n].superseded = IF n = selected[s][k] THEN now[s] ELSE rows[k][n].superseded
    BY <1>1, ClosedFacts
  <2> HIDE DEF closed, new
  <2>4. /\ rows'[k] \in Seq(RowVersion) /\ Len(rows'[k]) = Len(rows[k]) + 1
        /\ DOMAIN rows'[k] = 1 .. Len(rows[k]) + 1 /\ rows'[k][Len(rows[k]) + 1] = new
        /\ \A n \in DOMAIN rows[k] : rows'[k][n] = closed[n]
    BY <2>1, <2>2
  <2>5. QED
    BY <1>4, <2>1, <2>3, <2>4 DEF new
<1>5. QED
  BY <1>3, <1>4

(***************************************************************************)
(* One current version.                                                    *)
(***************************************************************************)
OneCurrent == \A k \in Key : rows[k] # <<>> => \E n \in DOMAIN rows[k] : Current(k) = {n}

(* A commit leaves its own version as the only current one of a key it     *)
(* supersedes.                                                             *)
LEMMA CommitCurrent ==
    ASSUME IInv, NEW s \in Session, Commit(s), NEW k \in Key, k \in pending[s]
    PROVE  Current(k)' = {Len(rows[k]) + 1} /\ Len(rows[k]) + 1 \in DOMAIN rows'[k]
<1> DEFINE new == Len(rows[k]) + 1
<1>1. /\ DOMAIN rows'[k] = 1 .. Len(rows[k]) + 1 /\ rows'[k][new] = NewVersion(k, s)
      /\ Len(rows[k]) \in Nat /\ DOMAIN rows[k] = 1 .. Len(rows[k])
      /\ \A n \in DOMAIN rows[k] :
            rows'[k][n].superseded = IF n = selected[s][k] THEN now[s] ELSE rows[k][n].superseded
  BY CommitRows
<1>2. now[s] # Null /\ Current(k) \subseteq {selected[s][k]}
  BY DEF Commit, IInv, WritesApart
<1>3. rows'[k][new].superseded = Null
  BY <1>1 DEF NewVersion
<1>4. \A n \in DOMAIN rows[k] : rows'[k][n].superseded # Null
  BY <1>1, <1>2 DEF Current
<1>5. QED
  BY <1>1, <1>3, <1>4 DEF Current

(* So there is one current version per key after a commit.                 *)
LEMMA CommitOneCurrent == ASSUME IInv, NEW s \in Session, Commit(s) PROVE OneCurrent'
<1> SUFFICES ASSUME NEW k \in Key, rows'[k] # <<>>
             PROVE  \E n \in DOMAIN rows'[k] : Current(k)' = {n}
  BY DEF OneCurrent
<1>1. CASE k \in pending[s]
  BY <1>1, CommitCurrent
<1>2. CASE k \notin pending[s]
  <2>1. rows'[k] = rows[k]
    BY <1>2, CommitRows
  <2>2. QED
    BY <2>1 DEF IInv, Current
<1>3. QED
  BY <1>1, <1>2

(* A session that ends lets go of everything.                              *)
LEMMA EndsFacts ==
    ASSUME TypeOK, NEW s \in Session, Ends(s)
    PROVE  /\ now' \in [Session -> Time \cup {Null}]
           /\ fetched' \in [Session -> [Key -> Value] \cup {NoBatch}]
           /\ at' \in [Session -> 1 .. NumKeys + 1]
           /\ selected' \in [Session -> [Key -> Nat \cup {NotSelected}]]
           /\ pending' \in [Session -> SUBSET Key]
           /\ now'[s] = Null /\ pending'[s] = {} /\ \A k \in Key : selected'[s][k] = NotSelected
           /\ \A t \in Session : t # s =>
                 /\ now'[t] = now[t] /\ fetched'[t] = fetched[t] /\ pending'[t] = pending[t]
                 /\ selected'[t] = selected[t]
<1>1. NothingSelected \in [Key -> Nat \cup {NotSelected}]
  BY DEF NothingSelected
<1>2. 1 \in 1 .. NumKeys + 1
  BY ConstantFacts
<1>3. now' \in [Session -> Time \cup {Null}] /\ at' \in [Session -> 1 .. NumKeys + 1]
  BY <1>2 DEF TypeOK, Ends
<1>4. fetched' \in [Session -> [Key -> Value] \cup {NoBatch}]
  BY DEF TypeOK, Ends
<1>5. selected' \in [Session -> [Key -> Nat \cup {NotSelected}]]
  BY <1>1 DEF TypeOK, Ends
<1>6. pending' \in [Session -> SUBSET Key]
  BY DEF TypeOK, Ends
<1>7. QED
  BY <1>3, <1>4, <1>5, <1>6 DEF TypeOK, Ends, NothingSelected

(***************************************************************************)
(* The inductive invariant, step by step.                                  *)
(***************************************************************************)

(* Empty tables satisfy the invariant.                                     *)
LEMMA InitIInv == Init => IInv
<1> SUFFICES ASSUME Init PROVE IInv
  OBVIOUS
<1>1. TypeOK
  <2>1. 1 \in 1 .. NumKeys + 1 /\ 0 \in 0 .. MaxClock
    BY ConstantFacts
  <2>2. rows \in [Key -> Seq(RowVersion)]
    BY DEF Init
  <2>3. selected \in [Session -> [Key -> Nat \cup {NotSelected}]]
    BY DEF Init, NothingSelected
  <2>4. QED
    BY <2>1, <2>2, <2>3 DEF Init, TypeOK
<1>2. WritesApart
  BY DEF Init, WritesApart, NothingSelected
<1>3. LivesChained
  BY DEF Init, LivesChained
<1>4. QED
  BY <1>1, <1>2, <1>3 DEF IInv, Init, Null

(* What is the same where the rows are: the versions of every key.         *)
LEMMA RowsKept == ASSUME IInv, UNCHANGED rows PROVE OneCurrent' /\ \A k : Current(k)' = Current(k)
  BY DEF IInv, OneCurrent, Current

(* A session begins, after every load that is committed.                   *)
LEMMA BeginStep == ASSUME IInv, NEW s \in Session, Begin(s) PROVE IInv'
<1>1. TypeOK /\ clock \in Nat /\ clock + 1 \in Time /\ UNCHANGED <<rows, at, selected, pending>>
  BY ConstantFacts DEF IInv, TypeOK, Begin, Time
<1>2. PICK f \in [Key -> Value] : fetched' = [fetched EXCEPT ![s] = f]
  BY DEF Begin
<1>3. /\ clock' = clock + 1 /\ now[s] = Null /\ now'[s] = clock + 1
      /\ \A t \in Session : t # s => now'[t] = now[t] /\ fetched'[t] = fetched[t]
      /\ fetched'[s] = f
  BY <1>1, <1>2 DEF Begin, TypeOK
<1>4. TypeOK'
  <2>1. clock' \in 0 .. MaxClock /\ now' \in [Session -> Time \cup {Null}]
    BY <1>1, ConstantFacts DEF Begin, TypeOK, Time
  <2>2. fetched' \in [Session -> [Key -> Value] \cup {NoBatch}]
    BY <1>1, <1>2 DEF TypeOK
  <2>3. overlapped' \in BOOLEAN
    BY <1>1 DEF Begin, TypeOK
  <2>4. QED
    BY <1>1, <2>1, <2>2, <2>3 DEF TypeOK
<1>5. \A k : Current(k)' = Current(k)
  BY <1>1, RowsKept
<1>6. WritesApart'
  <2>1. WritesApart /\ \A t \in Session : pending'[t] = pending[t] /\ selected'[t] = selected[t]
    BY <1>1 DEF IInv
  <2>2. \A t \in Session : now'[t] # Null => fetched'[t] \in [Key -> Value]
    BY <1>3, <2>1 DEF WritesApart
  <2>3. \A t \in Session : now[t] # Null => now'[t] # Null
    BY <1>3
  <2>4. QED
    BY <1>1, <1>5, <2>1, <2>2, <2>3 DEF WritesApart
<1>7. \A t \in Session : now'[t] <= clock'
  <2>1. \A t \in Session : now[t] <= clock /\ now[t] \in Nat
    BY <1>1, ConstantFacts DEF IInv, TypeOK
  <2>2. QED
    BY <1>1, <1>3, <2>1
<1>8. ASSUME ~overlapped'
      PROVE  LivesChained'
  <2>1. ~overlapped /\ LivesChained /\ \A t \in Session : now[t] = Null
    <3>1. overlapped' = (overlapped \/ \E t \in Session : now[t] # Null)
      BY DEF Begin
    <3>2. QED
      BY <1>8, <3>1 DEF IInv
  <2>2. \A t \in Session : now'[t] # Null => t = s /\ now'[t] = clock + 1
    BY <1>3, <2>1
  <2>3. \A k \in Key : \A n \in DOMAIN rows[k] : rows[k][n].loaded <= clock /\ rows[k][n].loaded \in Nat
    <3>1. \A k \in Key : \A n \in DOMAIN rows[k] : rows[k][n] \in RowVersion
      BY <1>1 DEF TypeOK
    <3>2. \A v \in RowVersion : v.loaded \in Nat
      BY ConstantFacts DEF RowVersion
    <3>3. QED
      BY <2>1, <3>1, <3>2 DEF LivesChained
  <2>4. \A k \in Key : \A n \in DOMAIN rows[k] :
           /\ rows[k][n].loaded <= clock'
           /\ \A t \in Session : now'[t] # Null => rows[k][n].loaded < now'[t]
    BY <1>1, <1>3, <2>2, <2>3
  <2>5. QED
    BY <1>1, <2>1, <2>2, <2>4 DEF LivesChained
<1>9. QED
  BY <1>1, <1>4, <1>6, <1>7, <1>8, RowsKept DEF IInv, OneCurrent

(* A session selects: the index has left it at most one version to find.   *)
LEMMA SelectStep == ASSUME IInv, NEW s \in Session, Select(s) PROVE IInv'
<1> DEFINE k == at[s]
           found == IF Current(k) = {} THEN 0 ELSE CHOOSE n \in Current(k) : TRUE
<1>1. /\ TypeOK /\ WritesApart /\ k \in Key /\ selected[s][k] = NotSelected
      /\ selected' = [selected EXCEPT ![s][k] = found]
      /\ UNCHANGED <<rows, clock, now, fetched, at, pending, overlapped>>
  BY DEF IInv, Select
<1>2. found \in 0 .. Len(rows[k])
  <2>1. Current(k) \subseteq 1 .. Len(rows[k]) /\ Len(rows[k]) \in Nat
    BY <1>1 DEF Current, TypeOK
  <2>2. QED
    BY <2>1
<1>3. TypeOK'
  <2>1. found \in Nat
    BY <1>1, <1>2 DEF TypeOK
  <2> HIDE DEF k, found
  <2>2. selected' \in [Session -> [Key -> Nat \cup {NotSelected}]]
    BY <1>1, <2>1 DEF TypeOK
  <2>3. QED
    BY <1>1, <2>2 DEF TypeOK
<1>4. WritesApart'
  <2>1. \A j : Current(j)' = Current(j)
    BY <1>1, RowsKept
  <2>2. k \notin pending[s]
    BY <1>1 DEF WritesApart
  <2>3. ASSUME NEW t \in Session, NEW j \in Key
        PROVE  /\ selected'[t][j] # NotSelected => selected'[t][j] \in 0 .. Len(rows[j])
               /\ j \in pending[t] => selected'[t][j] = selected[t][j]
    <3>1. CASE t = s /\ j = k
      <4>1. selected'[t][j] = found
        BY <1>1, <3>1 DEF TypeOK
      <4>2. QED
        BY <1>2, <2>2, <3>1, <4>1
    <3>2. CASE ~(t = s /\ j = k)
      <4>1. selected'[t][j] = selected[t][j]
        BY <1>1, <3>2 DEF TypeOK
      <4>2. QED
        BY <1>1, <4>1 DEF WritesApart
    <3>3. QED
      BY <3>1, <3>2
  <2>4. QED
    BY <1>1, <2>1, <2>3 DEF WritesApart
<1>5. QED
  BY <1>1, <1>3, <1>4, RowsKept DEF IInv, OneCurrent, LivesChained

(* The next chunk is a key, or the end.                                    *)
LEMMA NextChunkType ==
    ASSUME TypeOK, NEW s \in Session, at[s] \in Key, NextChunk(s)
    PROVE  at' \in [Session -> 1 .. NumKeys + 1]
<1>1. at[s] + 1 \in 1 .. NumKeys + 1
  BY KeysAssumption DEF Key
<1>2. QED
  BY <1>1 DEF TypeOK, NextChunk

(* A key whose value has not changed is passed over.                       *)
LEMMA KeepsRowStep == ASSUME IInv, NEW s \in Session, KeepsRow(s) PROVE IInv'
<1>1. TypeOK /\ UNCHANGED <<rows, clock, now, fetched, selected, pending, overlapped>>
  BY DEF IInv, KeepsRow
<1>2. TypeOK'
  BY <1>1, NextChunkType DEF TypeOK, KeepsRow, Selected
<1>3. QED
  BY <1>1, <1>2, RowsKept DEF IInv, OneCurrent, WritesApart, LivesChained

(* A session closes and inserts: no other has closed the key, and the      *)
(* index finds no current version but the one it closes.                   *)
LEMMA RestatesStep == ASSUME IInv, NEW s \in Session, Restates(s) PROVE IInv'
<1> DEFINE k == at[s]
<1>1. /\ TypeOK /\ WritesApart /\ k \in Key /\ now[s] # Null /\ selected[s][k] # NotSelected
      /\ Current(k) \subseteq {selected[s][k]} /\ \A t \in Session \ {s} : k \notin pending[t]
      /\ pending' = [pending EXCEPT ![s] = @ \cup {k}]
      /\ UNCHANGED <<rows, clock, now, fetched, selected, overlapped>>
  BY DEF IInv, Restates, Selected, Waits, Collides
<1>2. /\ pending'[s] = pending[s] \cup {k}
      /\ \A t \in Session \ {s} : pending'[t] = pending[t]
  BY <1>1 DEF TypeOK
<1>3. TypeOK'
  <2>1. pending' \in [Session -> SUBSET Key]
    BY <1>1 DEF TypeOK
  <2>2. QED
    BY <1>1, <2>1, NextChunkType DEF TypeOK, Restates
<1>4. WritesApart'
  <2>1. \A j : Current(j)' = Current(j)
    BY <1>1, RowsKept
  <2>2. ASSUME NEW t \in Session, NEW j \in Key, j \in pending'[t]
        PROVE  now[t] # Null /\ selected[t][j] # NotSelected /\ Current(j) \subseteq {selected[t][j]}
    <3>1. CASE t = s /\ j = k
      BY <1>1, <3>1
    <3>2. CASE ~(t = s /\ j = k)
      <4>1. j \in pending[t]
        BY <1>2, <2>2, <3>2
      <4>2. QED
        BY <1>1, <4>1 DEF WritesApart
    <3>3. QED
      BY <3>1, <3>2
  <2>3. \A t, u \in Session : t # u => pending'[t] \cap pending'[u] = {}
    <3>1. \A t, u \in Session : t # u => pending[t] \cap pending[u] = {}
      BY <1>1 DEF WritesApart
    <3>2. \A t \in Session \ {s} : pending'[t] \cap pending'[s] = {}
      BY <1>1, <1>2, <3>1
    <3>3. QED
      BY <1>2, <3>1, <3>2
  <2>4. QED
    BY <1>1, <2>1, <2>2, <2>3 DEF WritesApart
<1>5. QED
  BY <1>1, <1>3, <1>4, RowsKept DEF IInv, OneCurrent, LivesChained

(* With a session over, what is left is what the other sessions hold.      *)
LEMMA EndsApart ==
    ASSUME IInv, NEW s \in Session, Ends(s),
           \A k \in Key : k \notin pending[s] => rows'[k] = rows[k],
           \A k \in Key : Len(rows[k]) \in Nat /\ Len(rows'[k]) \in Nat /\ Len(rows[k]) <= Len(rows'[k])
    PROVE  WritesApart'
<1>1. TypeOK /\ WritesApart
  BY DEF IInv
<1>2. /\ now'[s] = Null /\ pending'[s] = {} /\ \A k \in Key : selected'[s][k] = NotSelected
      /\ \A t \in Session : t # s =>
            /\ now'[t] = now[t] /\ fetched'[t] = fetched[t] /\ pending'[t] = pending[t]
            /\ selected'[t] = selected[t]
  BY <1>1, EndsFacts
<1>3. \A t \in Session : now'[t] # Null => fetched'[t] \in [Key -> Value]
  BY <1>1, <1>2 DEF WritesApart
<1>4. ASSUME NEW t \in Session, NEW k \in Key
      PROVE  /\ selected'[t][k] # NotSelected => selected'[t][k] \in 0 .. Len(rows'[k])
             /\ k \in pending'[t] =>
                   /\ now'[t] # Null /\ selected'[t][k] # NotSelected
                   /\ Current(k)' \subseteq {selected'[t][k]}
  <2>1. CASE t = s
    BY <1>2, <2>1
  <2>2. CASE t # s
    <3>1. selected'[t][k] # NotSelected => selected'[t][k] \in 0 .. Len(rows'[k])
      <4>1. selected[t][k] # NotSelected => selected[t][k] \in 0 .. Len(rows[k])
        BY <1>1 DEF WritesApart
      <4>2. QED
        BY <1>2, <2>2, <4>1
    <3>2. ASSUME k \in pending'[t]
          PROVE  /\ now'[t] # Null /\ selected'[t][k] # NotSelected
                 /\ Current(k)' \subseteq {selected'[t][k]}
      <4>1. k \in pending[t] /\ k \notin pending[s]
        BY <1>1, <1>2, <2>2, <3>2 DEF WritesApart
      <4>2. Current(k)' = Current(k)
        BY <4>1 DEF Current
      <4>3. QED
        BY <1>1, <1>2, <2>2, <4>1, <4>2 DEF WritesApart
    <3>3. QED
      BY <3>1, <3>2
  <2>3. QED
    BY <2>1, <2>2
<1>5. \A t, u \in Session : t # u => pending'[t] \cap pending'[u] = {}
  BY <1>1, <1>2 DEF WritesApart
<1>6. QED
  BY <1>3, <1>4, <1>5 DEF WritesApart

(* A rollback leaves the versions alone.                                   *)
LEMMA RollbackStep == ASSUME IInv, NEW s \in Session, Rollback(s) PROVE IInv'
<1>1. TypeOK /\ Ends(s) /\ UNCHANGED <<rows, clock, overlapped>>
  BY DEF IInv, Rollback
<1>2. TypeOK'
  BY <1>1, EndsFacts DEF TypeOK
<1>3. WritesApart'
  <2>1. \A k \in Key : Len(rows[k]) \in Nat
    BY <1>1 DEF TypeOK
  <2>2. QED
    BY <1>1, <2>1, EndsApart
<1>4. \A t \in Session : now'[t] = now[t] \/ now'[t] = Null
  BY <1>1, EndsFacts
<1>5. \A t \in Session : now'[t] <= clock'
  <2>1. clock \in Nat /\ \A t \in Session : now[t] <= clock
    BY ConstantFacts DEF IInv, TypeOK
  <2>2. QED
    BY <1>1, <1>4, <2>1 DEF Null
<1>6. ~overlapped' => LivesChained'
  BY <1>1, <1>4 DEF IInv, LivesChained
<1>7. QED
  BY <1>1, <1>2, <1>3, <1>5, <1>6, RowsKept DEF IInv, OneCurrent

(* A commit ends the life of the last version of a key where the new one's *)
(* begins.                                                                 *)
LEMMA CommitLives ==
    ASSUME IInv, NEW s \in Session, Commit(s), LivesChained, NEW k \in Key, k \in pending[s],
           NEW n \in DOMAIN rows'[k]
    PROVE  /\ rows'[k][n].superseded = IF n = Len(rows'[k]) THEN Null ELSE rows'[k][n + 1].loaded
           /\ \A m \in DOMAIN rows'[k] : m < n => rows'[k][m].loaded < rows'[k][n].loaded
           /\ rows'[k][n].loaded <= clock
<1> DEFINE len == Len(rows[k])
<1>1. /\ len \in Nat /\ DOMAIN rows[k] = 1 .. len
      /\ DOMAIN rows'[k] = 1 .. len + 1 /\ Len(rows'[k]) = len + 1
      /\ rows'[k][len + 1] = NewVersion(k, s)
      /\ \A m \in DOMAIN rows[k] :
            /\ rows'[k][m].loaded = rows[k][m].loaded
            /\ rows'[k][m].superseded =
                  IF m = selected[s][k] THEN now[s] ELSE rows[k][m].superseded
  BY CommitRows
<1>2. /\ now[s] # Null /\ now[s] \in Nat /\ now[s] <= clock /\ clock \in Nat
      /\ Current(k) \subseteq {selected[s][k]}
  <2>1. now[s] # Null /\ now[s] <= clock /\ Current(k) \subseteq {selected[s][k]}
    BY DEF Commit, IInv, WritesApart
  <2>2. now[s] \in Time \cup {Null} /\ clock \in 0 .. MaxClock
    BY DEF IInv, TypeOK
  <2>3. now[s] \in Nat
    BY <2>2, ConstantFacts
  <2>4. clock \in Nat
    BY <2>2, ClockAssumption
  <2>5. QED
    BY <2>1, <2>3, <2>4
<1>3. \A m \in DOMAIN rows[k] :
         /\ rows[k][m].superseded = IF m = len THEN Null ELSE rows[k][m + 1].loaded
         /\ \A j \in DOMAIN rows[k] : j < m => rows[k][j].loaded < rows[k][m].loaded
         /\ rows[k][m].loaded <= clock /\ rows[k][m].loaded < now[s]
  BY <1>2 DEF LivesChained
<1>4. \A m \in DOMAIN rows[k] : rows[k][m].loaded \in Nat /\ rows[k][m].loaded # Null
  <2>1. \A m \in DOMAIN rows[k] : rows[k][m] \in RowVersion
    BY <1>1 DEF IInv, TypeOK
  <2>2. QED
    BY <2>1, ConstantFacts DEF RowVersion
<1>5. \A m \in DOMAIN rows[k] : m = selected[s][k] <=> m = len
  <2>1. ASSUME NEW m \in DOMAIN rows[k]
        PROVE  len \in Current(k) /\ len \in DOMAIN rows[k]
    BY <1>1, <1>3 DEF Current
  <2>2. QED
    BY <1>2, <2>1
<1>6. rows'[k][len + 1].loaded = now[s] /\ rows'[k][len + 1].superseded = Null
  BY <1>1 DEF NewVersion
<1> HIDE DEF len
<1>7. CASE n = len + 1
  <2>1. \A m \in DOMAIN rows'[k] : m < n => m \in DOMAIN rows[k]
    BY <1>1, <1>7
  <2>2. QED
    BY <1>1, <1>2, <1>3, <1>6, <1>7, <2>1
<1>8. CASE n # len + 1
  <2>1. n \in DOMAIN rows[k]
    BY <1>1, <1>8
  <2>2. \A m \in DOMAIN rows'[k] : m < n => m \in DOMAIN rows[k]
    BY <1>1, <2>1
  <2>3. rows'[k][n].superseded = rows'[k][n + 1].loaded
    <3>1. CASE n = len
      BY <1>1, <1>5, <1>6, <2>1, <3>1
    <3>2. CASE n # len
      <4>1. n + 1 \in DOMAIN rows[k]
        BY <1>1, <2>1, <3>2
      <4>2. QED
        BY <1>1, <1>3, <1>5, <2>1, <3>2, <4>1
    <3>3. QED
      BY <3>1, <3>2
  <2>4. QED
    BY <1>1, <1>3, <1>8, <2>1, <2>2, <2>3
<1>9. QED
  BY <1>7, <1>8

(* A commit keeps the invariant.                                           *)
LEMMA CommitStep == ASSUME IInv, NEW s \in Session, Commit(s) PROVE IInv'
<1>1. TypeOK /\ Ends(s) /\ UNCHANGED <<clock, overlapped>> /\ now[s] # Null
  BY DEF IInv, Commit
<1>2. \A k \in Key : rows'[k] \in Seq(RowVersion) /\ Len(rows[k]) <= Len(rows'[k])
  <2>1. \A k \in Key : rows[k] \in Seq(RowVersion) /\ Len(rows[k]) \in Nat
    BY <1>1 DEF TypeOK
  <2>2. QED
    BY <2>1, CommitRows
<1>3. TypeOK'
  <2>1. rows' \in [Key -> Seq(RowVersion)]
    BY <1>2 DEF Commit
  <2>2. QED
    BY <1>1, <2>1, EndsFacts DEF TypeOK
<1>4. WritesApart'
  <2>1. \A k \in Key : k \notin pending[s] => rows'[k] = rows[k]
    BY CommitRows
  <2>2. \A k \in Key : Len(rows[k]) \in Nat /\ Len(rows'[k]) \in Nat
    BY <1>1, <1>2 DEF TypeOK
  <2>3. QED
    BY <1>1, <1>2, <2>1, <2>2, EndsApart
<1>5. \A t \in Session : now'[t] = Null \/ (t # s /\ now'[t] = now[t])
  BY <1>1, EndsFacts
<1>6. \A t \in Session : now'[t] <= clock'
  <2>1. clock \in Nat /\ \A t \in Session : now[t] <= clock
    BY ConstantFacts DEF IInv, TypeOK
  <2>2. QED
    BY <1>1, <1>5, <2>1 DEF Null
<1>7. ASSUME ~overlapped'
      PROVE  LivesChained'
  <2>1. LivesChained /\ \A t \in Session : now'[t] = Null
    <3>1. LivesChained
      BY <1>1, <1>7 DEF IInv
    <3>2. QED
      BY <1>1, <1>5, <3>1 DEF LivesChained
  <2>2. ASSUME NEW k \in Key, NEW n \in DOMAIN rows'[k]
        PROVE  /\ rows'[k][n].superseded = IF n = Len(rows'[k]) THEN Null ELSE rows'[k][n + 1].loaded
               /\ \A m \in DOMAIN rows'[k] : m < n => rows'[k][m].loaded < rows'[k][n].loaded
               /\ rows'[k][n].loaded <= clock
    <3>1. CASE k \in pending[s]
      BY <2>1, <3>1, CommitLives
    <3>2. CASE k \notin pending[s]
      <4>1. rows'[k] = rows[k]
        BY <3>2, CommitRows
      <4>2. QED
        BY <2>1, <4>1 DEF LivesChained
    <3>3. QED
      BY <3>1, <3>2
  <2>3. QED
    BY <1>1, <2>1, <2>2 DEF LivesChained
<1>8. QED
  BY <1>3, <1>4, <1>6, <1>7, CommitOneCurrent DEF IInv, OneCurrent

(* Each step keeps the invariant, however sessions overlap.                *)
LEMMA StepIInv == IInv /\ [Next]_vars => IInv'
<1> SUFFICES ASSUME IInv, [Next]_vars PROVE IInv'
  OBVIOUS
<1>1. ASSUME NEW s \in Session, Begin(s) PROVE IInv'
  BY <1>1, BeginStep
<1>2. ASSUME NEW s \in Session, Select(s) PROVE IInv'
  BY <1>2, SelectStep
<1>3. ASSUME NEW s \in Session, KeepsRow(s) PROVE IInv'
  BY <1>3, KeepsRowStep
<1>4. ASSUME NEW s \in Session, Restates(s) PROVE IInv'
  BY <1>4, RestatesStep
<1>5. ASSUME NEW s \in Session, Commit(s) PROVE IInv'
  BY <1>5, CommitStep
<1>6. ASSUME NEW s \in Session, Rollback(s) PROVE IInv'
  BY <1>6, RollbackStep
<1>7. CASE UNCHANGED vars
  BY <1>7 DEF vars, IInv, TypeOK, WritesApart, LivesChained, Current
<1>8. QED
  BY <1>1, <1>2, <1>3, <1>4, <1>5, <1>6, <1>7 DEF Next

(* Sessions write apart, a key with versions has one current one, and      *)
(* lives are chained while no two sessions have overlapped.                *)
THEOREM BitemporalInvariant == Spec => []IInv
<1>1. Init => IInv
  BY InitIInv
<1>2. IInv /\ [Next]_vars => IInv'
  BY StepIInv
<1>3. QED
  BY <1>1, <1>2, PTL DEF Spec

(* Whatever sessions overlap, a key with versions has exactly one current  *)
(* one: the partial unique index turns the loser of a race into a failure. *)
THEOREM CurrentVersionUnique == Spec => []OneCurrentVersion
<1>1. IInv => OneCurrentVersion
  BY FS_Singleton DEF IInv, OneCurrentVersion
<1>2. QED
  BY <1>1, BitemporalInvariant, PTL

(***************************************************************************)
(* Nothing is forgotten.                                                   *)
(***************************************************************************)

(* Each version survives each step.                                        *)
LEMMA StepSurvives ==
    IInv /\ [Next]_vars =>
        \A k \in Key : \A n \in DOMAIN rows[k] :
            n \in DOMAIN rows'[k] /\ Survives(rows[k][n], rows'[k][n])
<1> SUFFICES ASSUME IInv, [Next]_vars, NEW k \in Key, NEW n \in DOMAIN rows[k]
             PROVE  n \in DOMAIN rows'[k] /\ Survives(rows[k][n], rows'[k][n])
  OBVIOUS
<1>1. CASE UNCHANGED rows
  BY <1>1 DEF Survives
<1>2. ASSUME NEW s \in Session, Commit(s)
      PROVE  n \in DOMAIN rows'[k] /\ Survives(rows[k][n], rows'[k][n])
  <2>1. CASE k \notin pending[s]
    <3>1. rows'[k] = rows[k]
      BY <1>2, <2>1, CommitRows
    <3>2. QED
      BY <3>1 DEF Survives
  <2>2. CASE k \in pending[s]
    <3>1. /\ Len(rows[k]) \in Nat /\ DOMAIN rows[k] = 1 .. Len(rows[k])
          /\ DOMAIN rows'[k] = 1 .. Len(rows[k]) + 1
          /\ rows'[k][n].value = rows[k][n].value /\ rows'[k][n].loaded = rows[k][n].loaded
          /\ rows'[k][n].superseded = IF n = selected[s][k] THEN now[s] ELSE rows[k][n].superseded
      BY <1>2, <2>2, CommitRows
    <3>2. rows[k] # <<>> /\ Current(k) \subseteq {selected[s][k]}
      BY <2>2 DEF IInv, WritesApart
    <3>3. n = selected[s][k] => rows[k][n].superseded = Null
      BY <3>2 DEF IInv, Current
    <3>4. QED
      BY <3>1, <3>3 DEF Survives
  <2>3. QED
    BY <2>1, <2>2
<1>3. QED
  BY <1>1, <1>2 DEF Next, Begin, Select, KeepsRow, Restates, Rollback, vars

(* A version keeps its value and its load time, and its end once it has    *)
(* one, whatever sessions overlap: the UPDATE that names it by id finds it *)
(* still current.                                                          *)
THEOREM HistoryAppendOnly == Spec => NothingForgotten
<1>1. IInv /\ [Next]_vars =>
        [\A k \in Key : \A n \in DOMAIN rows[k] :
            n \in DOMAIN rows'[k] /\ Survives(rows[k][n], rows'[k][n])]_vars
  BY StepSurvives
<1>2. QED
  BY <1>1, BitemporalInvariant, PTL DEF Spec, NothingForgotten

(***************************************************************************)
(* What was believed.                                                      *)
(***************************************************************************)

(* At a time not before the first load, the version loaded last by then is *)
(* the one believed.                                                       *)
LEMMA BeliefUnique ==
    ASSUME IInv, LivesChained, NEW k \in Key, NEW t \in Nat,
           \E n \in DOMAIN rows[k] : rows[k][n].loaded <= t
    PROVE  \E n : Believed(k, t) = {n}
<1> DEFINE before == {n \in DOMAIN rows[k] : rows[k][n].loaded <= t}
           len == Len(rows[k])
<1>1. len \in Nat /\ DOMAIN rows[k] = 1 .. len /\ \A n \in DOMAIN rows[k] : rows[k][n] \in RowVersion
  BY DEF IInv, TypeOK
<1>2. \A n \in DOMAIN rows[k] : rows[k][n].loaded \in Nat \ {Null}
  BY <1>1, ConstantFacts DEF RowVersion
<1>3. \A n \in DOMAIN rows[k] :
         /\ rows[k][n].superseded = IF n = len THEN Null ELSE rows[k][n + 1].loaded
         /\ \A m \in DOMAIN rows[k] : m < n => rows[k][m].loaded < rows[k][n].loaded
  BY DEF LivesChained
<1>4. before \subseteq 0 .. len /\ before # {}
  BY <1>1
<1> HIDE DEF len
<1>5. PICK n \in before : \A m \in before : m <= n
  BY <1>1, <1>4, Lemmas!GreatestNatural
<1>6. rows[k][n].superseded = Null \/ t < rows[k][n].superseded
  <2>1. CASE n = len
    BY <1>3, <1>5, <2>1
  <2>2. CASE n # len
    <3>1. n + 1 \in DOMAIN rows[k] /\ n \in Nat
      BY <1>1, <1>5, <2>2
    <3>2. n + 1 \notin before
      BY <1>5, <3>1
    <3>3. t < rows[k][n + 1].loaded
      BY <1>2, <3>1, <3>2
    <3>4. QED
      BY <1>3, <1>5, <2>2, <3>3
  <2>3. QED
    BY <2>1, <2>2
<1>7. ASSUME NEW m \in Believed(k, t), m # n
      PROVE  FALSE
  <2>1. m \in before /\ n \in DOMAIN rows[k] /\ rows[k][n].loaded <= t
    BY DEF Believed
  <2>2. m < n /\ m \in Nat /\ n \in Nat /\ m # len
    BY <1>1, <1>5, <1>7, <2>1
  <2>3. m + 1 \in DOMAIN rows[k] /\ rows[k][m].superseded = rows[k][m + 1].loaded
    <3>1. m \in 1 .. len /\ n \in 1 .. len
      BY <1>1, <2>1
    <3>2. m + 1 \in 1 .. len
      BY <1>1, <2>2, <3>1
    <3>3. QED
      BY <1>1, <1>3, <2>2, <3>1, <3>2
  <2>4. rows[k][m + 1].loaded <= rows[k][n].loaded
    <3>1. CASE m + 1 = n
      BY <1>2, <2>1, <3>1
    <3>2. CASE m + 1 # n
      <4>1. m + 1 < n
        BY <2>2, <3>2
      <4>2. QED
        BY <1>2, <1>3, <2>1, <2>3, <4>1
    <3>3. QED
      BY <3>1, <3>2
  <2>5. rows[k][m].superseded # Null /\ t < rows[k][m].superseded
    BY <1>2, <2>3 DEF Believed
  <2>6. QED
    BY <1>2, <2>1, <2>3, <2>4, <2>5
<1>8. n \in Believed(k, t)
  BY <1>5, <1>6 DEF Believed
<1>9. Believed(k, t) = {n}
  BY <1>7, <1>8
<1>10. QED
  BY <1>9

(* While no two sessions have overlapped, what was believed of a key at a  *)
(* time has one answer: lives begin where the ones before end.             *)
THEOREM BeliefHasOneAnswer == Spec => []BeliefAnswerable
<1>1. IInv => BeliefAnswerable
  <2> SUFFICES ASSUME IInv, ~overlapped, NEW k \in Key, NEW t \in 1 .. clock,
                      \E n \in DOMAIN rows[k] : rows[k][n].loaded <= t
               PROVE  Cardinality(Believed(k, t)) = 1
    BY DEF BeliefAnswerable
  <2>1. t \in Nat /\ LivesChained
    BY DEF IInv, TypeOK
  <2>2. PICK n : Believed(k, t) = {n}
    BY <2>1, BeliefUnique
  <2>3. QED
    BY <2>2, FS_Singleton
<1>2. QED
  BY <1>1, BitemporalInvariant, PTL
=============================================================================
