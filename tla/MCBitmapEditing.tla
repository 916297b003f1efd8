---------------------------- MODULE MCBitmapEditing ----------------------------
(***************************************************************************)
(* The bitmap editors at work in an item of their own, or in the canvas.    *)
(* The history is the same in both; what is not at work stays as it is.      *)
(***************************************************************************)
EXTENDS BitmapItem, MCCanvasEditing

CONSTANTS           \* bounds in the canvas
    CanvasRevisions,    \* changes counted by one binding
    CanvasHistory       \* entries of its undo history

VARIABLE work       \* "item" or "canvas"

editingVars == <<vars, stale, work>>

(* A canvas that has just rendered its document, without a selection.        *)
CanvasRests ==
    /\ binding = "memory" /\ attached = FALSE
    /\ selected = NoLayer /\ frame = 0
    /\ strokeCount = 0 /\ startCount = 0 /\ startRevision = 0
    /\ undoCounts = <<>> /\ redoCounts = <<>>
    /\ spareError = FALSE /\ rendered = TRUE
    /\ seek = NoSeek

EditingInit ==
    \/ work = "item" /\ ItemInit /\ CanvasRests
    \/ work = "canvas" /\ Init /\ stale = {}

ItemWorks == work = "item" /\ ItemNext /\ UNCHANGED <<canvasVars, work>>
CanvasWorks ==
    /\ work = "canvas" /\ Next
    /\ revision' <= CanvasRevisions /\ Len(undo') <= CanvasHistory
    /\ UNCHANGED <<stale, work>>

EditingNext == ItemWorks \/ CanvasWorks

EditingSpec == EditingInit /\ [][EditingNext]_editingVars

===============================================================================
