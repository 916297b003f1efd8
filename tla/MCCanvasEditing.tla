--------------------------- MODULE MCCanvasEditing ---------------------------
(* Instances of CanvasEditing for TLC. *)
EXTENDS CanvasEditing, TLC

CONSTANTS sheet, plane, moving, still

(* One layer shows another asset at each frame, one the same at all. *)
Sources == [l \in Layer |-> [f \in Frame |-> IF l = moving /\ f = 0 THEN sheet ELSE plane]]

(* The contents are alike: nothing depends on which is which. *)
Contents == Permutations(Content)

===============================================================================
