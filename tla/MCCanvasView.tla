----------------------------- MODULE MCCanvasView -----------------------------
(* Instances of CanvasView for TLC. *)
EXTENDS CanvasView

(* Two overlapping views over five tiles at one level of detail. *)
Panning == {[left |-> x, scale |-> 1] : x \in {0, 3}}

(* Zooming in and out over three pairs of tiles. *)
Zooming == {[left |-> 0, scale |-> 2], [left |-> 2, scale |-> 1]}

Home == [left |-> 0, scale |-> 1]
HomeWide == [left |-> 0, scale |-> 2]

===============================================================================
