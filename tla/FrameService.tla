----------------------------- MODULE FrameService -----------------------------
(***************************************************************************)
(* What an asynchronous frame renderer promises to the thread that owns it: *)
(* frames are requested and withdrawn; of the requests that are open only   *)
(* the newest counts; a frame is delivered for that request or for none,    *)
(* and at most once.  AsyncFrameRenderer implements this.                   *)
(***************************************************************************)
EXTENDS Naturals

VARIABLES asked,    \* the newest request ever made, 0 before the first
          wanted,   \* the request whose frame is still wanted, 0 for none
          shown     \* the request whose frame was delivered last

vars == <<asked, wanted, shown>>

Init == asked = 0 /\ wanted = 0 /\ shown = 0

(* A new request replaces the one before it. *)
Ask ==
    /\ asked' = asked + 1
    /\ wanted' = asked'
    /\ UNCHANGED shown

Withdraw ==
    /\ wanted' = 0
    /\ UNCHANGED <<asked, shown>>

Deliver ==
    /\ wanted # 0
    /\ shown' = wanted
    /\ wanted' = 0
    /\ UNCHANGED asked

Next == Ask \/ Withdraw \/ Deliver

Spec == Init /\ [][Next]_vars
===============================================================================
