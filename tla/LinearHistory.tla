---------------------------- MODULE LinearHistory ----------------------------
(***************************************************************************)
(* What undo and redo promise, with no gestures, failures or files in sight: *)
(* the picture has a bounded past and a future; a change ends the future; an *)
(* undo followed by a redo is as if nothing had happened.  Only where others *)
(* share the picture, or a call that fails leaves its edit behind, may it    *)
(* become another without an entry in the past.                              *)
(* BitmapHistory implements this: whole gestures are its changes.            *)
(***************************************************************************)
EXTENDS Sequences, SequencesExt

CONSTANTS Picture,  \* what can be shown
          Limit     \* how much of the past is kept

VARIABLES past,     \* the pictures undo goes back to, the newest last
          now,      \* the picture
          future,   \* the pictures redo goes forward to, the nearest last
          others    \* whether the picture has changed beside the history

vars == <<past, now, future, others>>

Newest(s) == IF Len(s) > Limit THEN Tail(s) ELSE s

Init ==
    /\ past = <<>> /\ future = <<>> /\ others = FALSE
    /\ now \in Picture

Change ==
    /\ past' = Newest(Append(past, now))
    /\ now' \in Picture \ {now}
    /\ future' = <<>>
    /\ UNCHANGED others

Undo ==
    /\ past # <<>>
    /\ now' = Last(past)
    /\ past' = Front(past)
    /\ future' = Append(future, now)
    /\ UNCHANGED others

Redo ==
    /\ future # <<>>
    /\ now' = Last(future)
    /\ future' = Front(future)
    /\ past' = Newest(Append(past, now))
    /\ UNCHANGED others

(* A gesture takes its place in a full past before it is known to change     *)
(* anything.                                                                 *)
Forget ==
    /\ Len(past) = Limit
    /\ past' = Tail(past)
    /\ UNCHANGED <<now, future, others>>

(* Others replace the picture, and leave past and future to their owner,     *)
(* whose running gesture may take the replacement back or keep it.  So does  *)
(* an edit that is made and reported as failed.                              *)
Overwrite ==
    /\ now' \in Picture
    /\ others' = TRUE
    /\ UNCHANGED <<past, future>>

(* A gesture on a picture others have changed or taken away keeps its place  *)
(* in the past whether it is completed or given up.                          *)
Join ==
    /\ others
    /\ past' = Append(past, now)
    /\ now' \in Picture
    /\ future' \in {future, <<>>}
    /\ UNCHANGED others

(* The history begins anew, of the same picture or another. *)
Restart ==
    /\ past' = <<>> /\ future' = <<>> /\ others' = FALSE
    /\ now' \in Picture

Next == Change \/ Undo \/ Redo \/ Forget \/ Overwrite \/ Join \/ Restart

Spec == Init /\ [][Next]_vars
===============================================================================
