------------------------- MODULE MCAttributeHistory -------------------------
(* Instances of AttributeHistory.                                          *)
EXTENDS AttributeHistory, TLC

CONSTANTS i1, i2, v1, v2

OneIsin == {i1}
TwoIsins == {i1, i2}
OneValue == {v1}
TwoValues == {v1, v2}
OneSource == {"bondcentral"}
TwoSources == {"bondcentral", "cdsl"}
OneSession == {1}

(* Instruments differ in nothing but their rows.                           *)
IsinSymmetry == Permutations(Isin)
=============================================================================
