------------------------- MODULE MCAsyncFrameRenderer -------------------------
(* Instances of AsyncFrameRenderer for TLC. *)
EXTENDS AsyncFrameRenderer

(* Three requests from outside; with slots that call back, as many requests  *)
(* on documents of one layer, or more layers than threads.                   *)
MCUses == {[layers |-> 2, requests |-> 3, reentrant |-> FALSE],
           [layers |-> 3, requests |-> 2, reentrant |-> TRUE],
           [layers |-> 1, requests |-> 3, reentrant |-> TRUE]}
===============================================================================
