------------------------------ MODULE BitmapItem ------------------------------
(***************************************************************************)
(* BitmapItem: a scene item around one BitmapEditor.  Bindings in the scene *)
(* read bitmapReady, canUndo, canRedo and revision only when a signal tells *)
(* them to, and the picture is painted only after update(); the item        *)
(* compares the editor before and after each call to know what to tell.     *)
(* An asset in chunks has an editor of its own and no item: while the       *)
(* editor of the model is that one, nothing is told and nothing goes stale. *)
(***************************************************************************)
EXTENDS BitmapHistory

CONSTANT Owned      \* the asset of m_ownedDocument

ASSUME OwnedAssumption == Owned \in Asset \ Chunked

VARIABLE stale      \* what the scene shows or holds of the item that is no longer so

itemVars == <<historyVars, stale>>

UndoRedo == <<CanUndo, CanRedo>>

(* What a step changed, whoever took it.                                     *)
Differs ==
    (IF Shown' # Shown THEN {"picture"} ELSE {})
      \union (IF IsBound' # IsBound THEN {"bitmap"} ELSE {})
      \union (IF revision' # revision THEN {"revision"} ELSE {})
      \union (IF UndoRedo' # UndoRedo THEN {"undoRedo"} ELSE {})

Tells(things) ==
    stale' = IF target' \in Chunked THEN {} ELSE (stale \union Differs) \ things

-----------------------------------------------------------------------------
(* Mutant of NotifyStateChange: an edit is taken for one that fills the      *)
(* undo list and leaves the redo list alone.                                 *)
NotifyStateChangeOfUndo ==
    (IF revision' # revision THEN {"revision"} ELSE {})
      \union (IF CanUndo' # CanUndo THEN {"undoRedo"} ELSE {})

(* notifyStateChange(): the revision and the two flags are compared with     *)
(* what they were before the call.                                           *)
NotifyStateChange ==
    (IF revision' # revision THEN {"revision"} ELSE {})
      \union (IF UndoRedo' # UndoRedo THEN {"undoRedo"} ELSE {})

(* finishEdit(): only a call that succeeded is painted.                      *)
FinishItemEdit(success) == IF success THEN {"picture"} ELSE {}

(* setPixel(), clear(), beginStrokeAt(), continueStrokeAt(), endStrokeAt(),  *)
(* undo() and redo().                                                        *)
Edit(call) == call /\ Tells(FinishItemEdit(result' = "ok") \union NotifyStateChange)

(* cancelStroke() has no result: that the editor has no error stands for it. *)
CancelItem == CallCancelStroke /\ Tells(FinishItemEdit(~error') \union NotifyStateChange)

(* bind() and unbind() tell everything.                                      *)
BindItem(a, f) == Bind(a, f) /\ stale' = IF result' = "ok" THEN {} ELSE stale
UnbindItem == Unbind /\ stale' = {}

(* createBitmap(): the document of the item is made anew and bound.          *)
CreateBitmap ==
    /\ pictures' \in {[pictures EXCEPT ![Owned] = p] : p \in Content}
    /\ target' = Owned /\ file' = "none"
    /\ undo' = <<>> /\ redo' = <<>>
    /\ active' = FALSE /\ changed' = FALSE
    /\ revision' = 0 /\ sole' = TRUE
    /\ result' = "none" /\ error' = FALSE
    /\ stale' = {}

(* refresh(), for what others changed.                                       *)
RefreshItem == stale # {} /\ stale' = {} /\ UNCHANGED historyVars

-----------------------------------------------------------------------------
ItemInit == HistoryInit /\ stale = {}

Calls ==
    \/ Edit(CallDirectEdit)
    \/ Edit(CallBeginStroke) \/ Edit(CallContinueStroke) \/ Edit(CallEndStroke)
    \/ CancelItem
    \/ Edit(CallUndo) \/ Edit(CallRedo)

Others == (FileGoes \/ \E a \in Asset : Overwrite(a)) /\ Tells({})

ItemNext ==
    \/ \E a \in Asset, f \in {"none", "open"} : BindItem(a, f)
    \/ UnbindItem \/ CreateBitmap \/ RefreshItem
    \/ Calls
    \/ Others

ItemSpec == ItemInit /\ [][ItemNext]_itemVars

-----------------------------------------------------------------------------
(* Properties                                                                *)

(* What a call may leave the scene wrong about: nothing, unless it goes to a *)
(* working file that fails; then the picture of an edit the file took and    *)
(* reported as failed, or that the file is gone.                             *)
Untold ==
    IF result' = "ok" \/ file # "open" THEN {}
    ELSE IF file' = "lost" THEN {"bitmap"}
    ELSE {"picture"}

(* A scene that follows the signals of the item is wrong only about what     *)
(* others changed and about the failures of a file: no call that succeeds,   *)
(* and none that is refused or rolled back, leaves behind a picture, a flag  *)
(* or a revision the scene does not know of.                                 *)
CallsAreAnnounced == [][result' # "none" => stale' \subseteq stale \union Untold]_itemVars
===============================================================================
