---------------------------- MODULE MCWorkingFile ----------------------------
(* Instances of WorkingFile for TLC. *)
EXTENDS WorkingFile, TLC

CONSTANTS s1, s2, p1, p2

OneProcess == [s \in Session |-> p1]
TwoProcesses == [s \in Session |-> IF s = s1 THEN p1 ELSE p2]

Blank == [format : {"current"}, body : {EmptyBody}]
BlankOldOrNew == [format : Format, body : {EmptyBody}]

===============================================================================
