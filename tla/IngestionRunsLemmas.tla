------------------------ MODULE IngestionRunsLemmas ------------------------
(* What the operators of IngestionRuns return, for every history, and the  *)
(* induction over numbers that the proofs use, stated for sets.            *)
EXTENDS IngestionRuns, WellFoundedInduction, TLAPS

(* Every nonempty set of naturals has a least element.                     *)
LEMMA LeastNatural ==
    ASSUME NEW S, S \subseteq Nat, S # {}
    PROVE  \E d \in S : \A e \in S : d <= e
<1>1. PICK x \in S : \A y \in S : ~ (<<y, x>> \in OpToRel(<, Nat))
  BY WFMin, NatLessThanWellFounded
<1>2. \A y \in S : ~ (y < x)
  BY <1>1 DEF OpToRel
<1>3. QED
  BY <1>2

(* A set of numbers that has every number whose predecessors it has, has   *)
(* them all.                                                               *)
LEMMA StrongInduction ==
    ASSUME NEW S, \A n \in Nat : (\A k \in Nat : k < n => k \in S) => n \in S
    PROVE  Nat \subseteq S
<1>1. SUFFICES ASSUME Nat \ S # {} PROVE FALSE
  OBVIOUS
<1>2. PICK n \in Nat \ S : \A k \in Nat \ S : n <= k
  BY <1>1, LeastNatural
<1>3. \A k \in Nat : k < n => k \in S
  BY <1>2
<1>4. QED
  BY <1>2, <1>3

(* A set that has 0 and the successor of each of its members below n has   *)
(* all of 0 .. n.                                                          *)
LEMMA UpToInduction ==
    ASSUME NEW n \in Nat, NEW S, 0 \in S, \A i \in 0 .. n : i < n /\ i \in S => i + 1 \in S
    PROVE  0 .. n \subseteq S
<1> DEFINE T == S \union {k \in Nat : k > n}
<1>1. ASSUME NEW k \in Nat, \A j \in Nat : j < k => j \in T
      PROVE  k \in T
  <2>1. CASE k = 0 \/ k > n
    BY <2>1
  <2>2. CASE k # 0 /\ k <= n
    <3>1. k - 1 \in Nat /\ k - 1 < k /\ k - 1 \in 0 .. n /\ k - 1 < n
      BY <2>2
    <3>2. k - 1 \in S
      BY <1>1, <3>1
    <3>3. k - 1 + 1 = k
      OBVIOUS
    <3>4. QED
      BY <3>1, <3>2, <3>3
  <2>3. QED
    BY <2>1, <2>2
<1>2. Nat \subseteq T
  <2> HIDE DEF T
  <2>1. QED
    BY <1>1, StrongInduction
<1>3. QED
  BY <1>2

(* A nonempty set of naturals below a bound has a greatest element.        *)
LEMMA GreatestNatural ==
    ASSUME NEW n \in Nat, NEW S, S \subseteq 0 .. n, S # {}
    PROVE  \E d \in S : \A e \in S : e <= d
<1> DEFINE T == {n - e : e \in S}
<1>1. T \subseteq Nat
  OBVIOUS
<1>0. T # {}
  <2>1. PICK e \in S : TRUE
    OBVIOUS
  <2>2. n - e \in T
    OBVIOUS
  <2>3. QED
    BY <2>2
<1> HIDE DEF T
<1>2. PICK t \in T : \A u \in T : t <= u
  BY <1>0, <1>1, LeastNatural
<1>3. PICK d \in S : t = n - d
  BY DEF T
<1>4. ASSUME NEW e \in S
      PROVE  e <= d
  <2>1. n - e \in T
    BY DEF T
  <2>2. QED
    BY <2>1, <1>2, <1>3
<1>5. QED
  BY <1>4

(* Latest returns the greatest member of a nonempty set of days.           *)
LEMMA LatestIsGreatest ==
    ASSUME NEW n \in Nat, NEW S, S \subseteq 0 .. n, S # {}
    PROVE  Latest(S) \in S /\ \A e \in S : e <= Latest(S)
<1>1. \E d \in S : \A e \in S : e <= d
  BY GreatestNatural
<1>2. QED
  BY <1>1 DEF Latest

(* Earliest returns the least member of a nonempty set of days.            *)
LEMMA EarliestIsLeast ==
    ASSUME NEW S, S \subseteq Nat, S # {}
    PROVE  Earliest(S) \in S /\ \A e \in S : Earliest(S) <= e
<1>1. \E d \in S : \A e \in S : d <= e
  BY LeastNatural
<1>2. QED
  BY <1>1 DEF Earliest

(* Only a row that exists is ever kept over a new one, so recording never  *)
(* leaves a day without its row.                                           *)
LEMMA OverwritesFacts ==
    ASSUME NEW old, NEW row
    PROVE  ~ Overwrites(old, row) => old # NoRow
  BY DEF Overwrites, NoRow

(* What DatasetStart promises of its result: never above the bounded start *)
(* nor above a retry candidate at or above the floor, never below the      *)
(* floor.                                                                  *)
StartMeets(start, progress, floor) ==
    /\ start \in Nat
    /\ floor <= start
    /\ start <= BoundedStart(progress.processed_through, floor)
    /\ progress.earliest_failed # NoDay /\ floor <= progress.earliest_failed
         => start <= progress.earliest_failed
    /\ progress.earliest_recent_skip # NoDay /\ floor <= progress.earliest_recent_skip
         => start <= progress.earliest_recent_skip

(* DatasetStart keeps that promise.                                        *)
LEMMA DatasetStartFacts ==
    ASSUME NEW floor \in Nat, NEW progress,
           progress.processed_through \in Nat \cup {NoDay},
           progress.earliest_failed \in Nat \cup {NoDay},
           progress.earliest_recent_skip \in Nat \cup {NoDay}
    PROVE  StartMeets(DatasetStart(progress, floor), progress, floor)
<1> DEFINE processed == progress.processed_through
           failed == progress.earliest_failed
           skipped == progress.earliest_recent_skip
<1> DEFINE bounded == BoundedStart(processed, floor)
           first == PullBack(bounded, failed, floor)
<1>1. bounded \in Nat /\ floor <= bounded
  BY DEF BoundedStart, NoDay
<1>2. DatasetStart(progress, floor) = PullBack(first, skipped, floor)
  BY DEF DatasetStart
<1> HIDE DEF bounded, failed, skipped
<1>0. failed \in Nat \cup {NoDay} /\ skipped \in Nat \cup {NoDay}
  BY DEF failed, skipped
<1>3. /\ first \in Nat /\ floor <= first /\ first <= bounded
      /\ failed # NoDay /\ floor <= failed => first <= failed
  BY <1>0, <1>1 DEF PullBack, NoDay
<1> HIDE DEF first
<1>4. /\ PullBack(first, skipped, floor) \in Nat
      /\ floor <= PullBack(first, skipped, floor)
      /\ PullBack(first, skipped, floor) <= first
      /\ skipped # NoDay /\ floor <= skipped => PullBack(first, skipped, floor) <= skipped
  BY <1>0, <1>1, <1>3 DEF PullBack, NoDay
<1>5. QED
  BY <1>1, <1>2, <1>3, <1>4 DEF StartMeets, bounded, failed, skipped

(* What dataset_progress promises of the facts it reads off a history.     *)
ProgressMeets(P, D, history, cutoff) ==
    /\ P.processed_through \in D \cup {NoDay}
    /\ P.earliest_failed \in D \cup {NoDay}
    /\ P.earliest_recent_skip \in D \cup {NoDay}
    /\ P.processed_through # NoDay
         => history[P.processed_through].status \in {"success", "skipped"}
    /\ P.earliest_failed # NoDay => history[P.earliest_failed].status = "failed"
    /\ P.earliest_recent_skip # NoDay => P.earliest_recent_skip >= cutoff
    /\ \A d \in D : history[d].status \in {"success", "skipped"}
         => P.processed_through # NoDay /\ d <= P.processed_through
    /\ \A d \in D : history[d].status = "failed"
         => P.earliest_failed # NoDay /\ P.earliest_failed <= d
    /\ \A d \in D : history[d].status = "skipped" /\ d >= cutoff
         => P.earliest_recent_skip # NoDay /\ P.earliest_recent_skip <= d

(* DatasetProgress keeps that promise.                                     *)
LEMMA ProgressFacts ==
    ASSUME NEW n \in Nat, NEW D, D \subseteq 0 .. n, NEW history \in [D -> Row],
           NEW cutoff \in Int
    PROVE  ProgressMeets(DatasetProgress(history, cutoff), D, history, cutoff)
<1> DEFINE S == DaysWith(history, {"success", "skipped"})
           F == DaysWith(history, {"failed"})
           K == {d \in DaysWith(history, {"skipped"}) : d >= cutoff}
           P == DatasetProgress(history, cutoff)
<1>1. /\ P.processed_through = Latest(S) /\ P.earliest_failed = Earliest(F)
      /\ P.earliest_recent_skip = Earliest(K)
  BY DEF DatasetProgress
<1>2. /\ S = {d \in D : history[d].status \in {"success", "skipped"}}
      /\ F = {d \in D : history[d].status = "failed"}
      /\ K = {d \in D : history[d].status = "skipped" /\ d >= cutoff}
  BY DEF DaysWith
<1> HIDE DEF S, F, K, P
<1>3. S \subseteq 0 .. n /\ F \subseteq Nat /\ K \subseteq Nat
  <2>1. S \subseteq D /\ F \subseteq D /\ K \subseteq D
    BY <1>2, Zenon
  <2>2. D \subseteq Nat
    OBVIOUS
  <2>3. QED
    BY <2>1, <2>2
<1>4. S = {} => Latest(S) = NoDay
  BY DEF Latest
<1>5. S # {} => Latest(S) \in S /\ \A e \in S : e <= Latest(S)
  BY <1>3, LatestIsGreatest
<1>6. (F = {} => Earliest(F) = NoDay) /\ (K = {} => Earliest(K) = NoDay)
  BY DEF Earliest
<1>7. F # {} => Earliest(F) \in F /\ \A e \in F : Earliest(F) <= e
  BY <1>3, EarliestIsLeast
<1>8. K # {} => Earliest(K) \in K /\ \A e \in K : Earliest(K) <= e
  BY <1>3, EarliestIsLeast
<1>9. NoDay \notin D
  BY DEF NoDay
<1>10. QED
  BY <1>1, <1>2, <1>4, <1>5, <1>6, <1>7, <1>8, <1>9 DEF ProgressMeets, P
=============================================================================
