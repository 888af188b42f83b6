------------------------- MODULE AttributeTimeline --------------------------
(***************************************************************************)
(* What the effective-dated history of an attribute promises: every        *)
(* instrument has one value in force on every day, and a batch changes it  *)
(* from one day onward, never before that day and never under a change     *)
(* already recorded for a later day.                                       *)
(***************************************************************************)
EXTENDS Integers

CONSTANTS Isin, Day, Value, NoValue

VARIABLE inForce  \* inForce[i][d]: the value of instrument i in force on day d

AllValues == Value \cup {NoValue}

Init == inForce = [i \in Isin |-> [d \in Day |-> NoValue]]

(* Nothing is recorded for instrument i after day e.                       *)
Settled(i, e) == \A d \in Day : e <= d => inForce[i][d] = inForce[i][e]

Record(i, e, v) ==
    inForce'[i] = [d \in Day |-> IF e <= d THEN v ELSE inForce[i][d]]

Batch(e) ==
    /\ inForce' \in [Isin -> [Day -> AllValues]]
    /\ \A i \in Isin :
          \/ inForce'[i] = inForce[i]
          \/ Settled(i, e) /\ \E v \in AllValues : Record(i, e, v)

Next == \E e \in Day : Batch(e)

Spec == Init /\ [][Next]_inForce
=============================================================================
