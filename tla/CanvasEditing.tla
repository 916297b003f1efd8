---------------------------- MODULE CanvasEditing ----------------------------
(***************************************************************************)
(* CanvasItem as an editor: the selected layer and frame decide which asset *)
(* its bitmap editors paint; strokes, undo and redo keep a count of strokes *)
(* beside the editor's history; each accepted edit schedules a render.  Two *)
(* editors are embedded, at most one of them bound (BitmapHistory).  Calls  *)
(* run on one thread, but a seek that cancels a stroke lets callbacks in.   *)
(***************************************************************************)
EXTENDS BitmapHistory

CONSTANTS Layer, NoLayer,
          Frame,
          Source        \* resolveAssetAt(): the asset of a layer at a frame

ASSUME CanvasAssumption ==
    /\ NoLayer \notin Layer
    /\ 0 \in Frame
    /\ Source \in [Layer -> [Frame -> Asset]]

VARIABLES
    binding,        \* the document is in "memory" or of a working "file"
    attached,       \* the file's binding is still the one the item was given
    selected,       \* m_selectedLayerId
    frame,          \* m_frame
    strokeCount,    \* m_strokeCount
    startCount, startRevision,  \* m_strokeStartCount, m_strokeStartRevision
    undoCounts, redoCounts,     \* m_undoStrokeCounts, m_redoStrokeCounts
    spareError,     \* the unbound editor's lastError() is not empty
    rendered,       \* the last step scheduled a render of new content
    seek            \* the setFrame() that waits for its cancelled stroke

countVars == <<strokeCount, startCount, startRevision, undoCounts, redoCounts>>
placeVars == <<binding, attached, selected, frame>>
canvasVars == <<placeVars, countVars, spareError, rendered, seek>>
vars == <<historyVars, canvasVars>>

NoSeek == [kind |-> "none"]
SeekTo(f) == [kind |-> "seek", to |-> f, from |-> frame, moved |-> FALSE]

(* fileBindingValid() *)
FileBindingValid == binding = "memory" \/ attached
EditorFile == IF binding = "file" THEN "open" ELSE "none"

Init ==
    /\ HistoryInit
    /\ binding \in {"memory", "file"} /\ attached = (binding = "file")
    /\ selected = NoLayer /\ frame = 0
    /\ strokeCount = 0 /\ startCount = 0 /\ startRevision = 0
    /\ undoCounts = <<>> /\ redoCounts = <<>>
    /\ spareError = FALSE /\ rendered = FALSE
    /\ seek = NoSeek

-----------------------------------------------------------------------------
(* Steps the calls share *)

(* An unbound chunked editor leaves its calls to the other one, which is not *)
(* bound either.                                                             *)
Reached == target \in Chunked => IsBound
ActiveEditorStrokeActive == active /\ Reached

Route(call) ==
    \/ Reached /\ call /\ UNCHANGED spareError
    \/ ~Reached /\ spareError' = TRUE /\ result' = "failed"
       /\ UNCHANGED <<documentVars, editorVars, error>>

(* The call of an editor may find the file gone.                             *)
FileStays == attached' = (attached /\ file' # "lost")
StaysInPlace == FileStays /\ UNCHANGED <<binding, selected, frame>>

(* A render of new content, or none; either way a waiting seek learns of it. *)
Renders(really) ==
    /\ rendered' = really
    /\ seek' = IF really /\ seek # NoSeek THEN [seek EXCEPT !.moved = TRUE] ELSE seek
Quiet == Renders(FALSE)

(* Mutant of FinishEdit: a stroke is rendered when it ends. *)
FinishEditLate == Renders(result' = "ok" /\ ~active')

(* finishEdit(): the layer still resolves to the bound asset, so that        *)
(* syncSelectedLayer() has nothing to do.                                    *)
FinishEdit == Renders(result' = "ok")

ResetEditState ==
    /\ strokeCount' = 0 /\ startCount' = 0 /\ startRevision' = 0
    /\ undoCounts' = <<>> /\ redoCounts' = <<>>

RecordCountHistory(prior) ==
    LET longer == Append(undoCounts, prior)
    IN  /\ undoCounts' = IF Len(longer) > HistoryLimit THEN Tail(longer) ELSE longer
        /\ redoCounts' = <<>>

UnbindEditors == Unbind /\ ResetEditState /\ spareError' = FALSE
BindEditor(a) == Bind(a, EditorFile) /\ ResetEditState /\ spareError' = FALSE
KeepEditors == UNCHANGED <<documentVars, editorVars, error, countVars, spareError>>
                    /\ result' = "none"

ClearSelection == selected' = NoLayer /\ UnbindEditors

(* Mutant of SyncSelectedLayer: a bound editor stays bound. *)
SyncUnlessBound(f) ==
    IF selected = NoLayer \/ ~FileBindingValid \/ IsBound
    THEN UNCHANGED selected /\ KeepEditors
    ELSE LET a == Source[selected][f]
         IN  IF pictures[a] = Gone THEN ClearSelection
             ELSE BindEditor(a) /\ UNCHANGED selected

(* The editor is bound to what the selected layer shows at frame f. *)
SyncSelectedLayer(f) ==
    IF selected = NoLayer \/ ~FileBindingValid
    THEN UNCHANGED selected /\ KeepEditors
    ELSE LET a == Source[selected][f]
         IN  IF pictures[a] = Gone THEN ClearSelection
             ELSE IF IsBound /\ target = a THEN UNCHANGED selected /\ KeepEditors
             ELSE BindEditor(a) /\ UNCHANGED selected

-----------------------------------------------------------------------------
(* Selection and frames *)

(* bindDocument() *)
BindDocument(b) ==
    /\ binding' = b /\ attached' = (b = "file")
    /\ frame' = 0
    /\ ClearSelection
    /\ Renders(TRUE)

SelectLayer(l) ==
    LET a == Source[l][frame]
    IN  /\ FileBindingValid /\ pictures[a] # Gone
        /\ selected' = l
        /\ IF IsBound /\ target = a THEN KeepEditors ELSE BindEditor(a)
        /\ UNCHANGED <<binding, attached, frame>>
        /\ Quiet

Deselect ==
    /\ selected # NoLayer \/ IsBound
    /\ ClearSelection
    /\ UNCHANGED <<binding, attached, frame>>
    /\ Quiet

(* refreshAsync() of a document that validates *)
Refresh ==
    /\ UNCHANGED <<binding, attached, frame>>
    /\ SyncSelectedLayer(frame)
    /\ IF FileBindingValid THEN Renders(TRUE)
       ELSE /\ rendered' = FALSE
            /\ seek' = IF seek = NoSeek THEN seek ELSE [seek EXCEPT !.moved = TRUE]

(* cancelStroke(): an error that either editor reports ends it; otherwise it *)
(* refreshes, which deselects a layer whose asset is gone.                   *)
CancelStrokeOn ==
    \/ /\ CallCancelStroke
       /\ result' = "failed" \/ spareError
       /\ rendered' = FALSE
       /\ UNCHANGED <<selected, countVars, spareError>>
    \/ /\ CallCancelStroke
       /\ result' = "ok" /\ ~spareError /\ Shown # Gone
       /\ rendered' = TRUE
       /\ UNCHANGED <<selected, countVars, spareError>>
    \/ /\ file # "lost" /\ ~spareError /\ Shown = Gone
       /\ ClearSelection
       /\ rendered' = TRUE

(* A chunked editor is not asked for its error once its file is gone: the    *)
(* refresh finds no valid document, which calls a waiting seek off.          *)
RefreshesInVain == target \in Chunked /\ file' = "lost" /\ ~spareError

Cancel ==
    /\ ActiveEditorStrokeActive
    /\ CancelStrokeOn
    /\ FileStays /\ UNCHANGED <<binding, frame>>
    /\ seek' = IF (rendered' \/ RefreshesInVain) /\ seek # NoSeek
               THEN [seek EXCEPT !.moved = TRUE] ELSE seek

(* setFrame(): a stroke is cancelled first, and what listens to that may     *)
(* call the item before the seek goes on.  At most one seek waits.           *)
SetFrame(f) ==
    /\ f # frame
    /\ IF ActiveEditorStrokeActive
       THEN /\ seek = NoSeek
            /\ CancelStrokeOn
            /\ seek' = IF rendered' THEN SeekTo(f) ELSE NoSeek
            /\ FileStays /\ UNCHANGED <<binding, frame>>
       ELSE /\ frame' = f
            /\ SyncSelectedLayer(f)
            /\ UNCHANGED <<binding, attached>>
            /\ Renders(TRUE)

(* Mutant of SeekStands: only another seek calls it off. *)
SeekStandsUnlessSought == frame = seek.from

SeekStands == frame = seek.from /\ ~seek.moved /\ ~ActiveEditorStrokeActive

ResumeSeek ==
    /\ seek # NoSeek
    /\ seek' = NoSeek
    /\ IF SeekStands
       THEN /\ frame' = seek.to
            /\ SyncSelectedLayer(seek.to)
            /\ rendered' = TRUE
       ELSE UNCHANGED <<frame, selected>> /\ KeepEditors /\ rendered' = FALSE
    /\ UNCHANGED <<binding, attached>>

-----------------------------------------------------------------------------
(* Edits of the selected layer *)

(* mapDocumentToSelectedAsset() needs a bound editor. *)
BeginStrokeAt ==
    /\ IsBound
    /\ startRevision' = revision /\ startCount' = strokeCount
    /\ CallBeginStroke
    /\ FinishEdit
    /\ StaysInPlace
    /\ UNCHANGED <<strokeCount, undoCounts, redoCounts, spareError>>

ContinueStrokeAt ==
    /\ IsBound
    /\ CallContinueStroke
    /\ FinishEdit
    /\ StaysInPlace
    /\ UNCHANGED <<countVars, spareError>>

EndStrokeAt ==
    /\ IsBound
    /\ CallEndStroke
    /\ IF result' = "ok" /\ startRevision # revision'
       THEN RecordCountHistory(startCount) /\ strokeCount' = strokeCount + 1
       ELSE UNCHANGED <<strokeCount, undoCounts, redoCounts>>
    /\ FinishEdit
    /\ StaysInPlace
    /\ UNCHANGED <<startCount, startRevision, spareError>>

(* replaceSelectedPixels(), clearSelectedLayer() *)
EditSelected(clears) ==
    /\ Route(CallDirectEdit)
    /\ IF result' = "ok" /\ revision' # revision
       THEN /\ RecordCountHistory(strokeCount)
            /\ strokeCount' = IF clears THEN 0 ELSE strokeCount
       ELSE UNCHANGED <<strokeCount, undoCounts, redoCounts>>
    /\ FinishEdit
    /\ StaysInPlace
    /\ UNCHANGED <<startCount, startRevision>>

(* Undo and redo move the count from one list to the other, if it is there.  *)
UndoSelected ==
    /\ Route(CallUndo)
    /\ IF result' = "ok" /\ undoCounts # <<>>
       THEN /\ redoCounts' = Append(redoCounts, strokeCount)
            /\ strokeCount' = Last(undoCounts) /\ undoCounts' = Front(undoCounts)
       ELSE UNCHANGED <<strokeCount, undoCounts, redoCounts>>
    /\ FinishEdit
    /\ StaysInPlace
    /\ UNCHANGED <<startCount, startRevision>>

RedoSelected ==
    /\ Route(CallRedo)
    /\ IF result' = "ok" /\ redoCounts # <<>>
       THEN /\ undoCounts' = Append(undoCounts, strokeCount)
            /\ strokeCount' = Last(redoCounts) /\ redoCounts' = Front(redoCounts)
       ELSE UNCHANGED <<strokeCount, undoCounts, redoCounts>>
    /\ FinishEdit
    /\ StaysInPlace
    /\ UNCHANGED <<startCount, startRevision>>

(* applyBrush() sets the brush of both editors.  Each refuses invalid values *)
(* and a change under its stroke.                                            *)
ApplyBrush(valid) ==
    /\ error' = (~valid \/ active) /\ spareError' = ~valid
    /\ result' = IF error' \/ spareError' THEN "failed" ELSE "ok"
    /\ UNCHANGED <<documentVars, editorVars, placeVars, countVars>>
    /\ Quiet

-----------------------------------------------------------------------------
(* What happens around the item *)

OthersOverwrite(a) == Overwrite(a) /\ UNCHANGED <<placeVars, countVars, spareError>> /\ Quiet

FileIsLost ==
    /\ binding = "file" /\ attached /\ attached' = FALSE
    /\ file' = IF file = "open" THEN "lost" ELSE file
    /\ result' = "none"
    /\ UNCHANGED <<pictures, editorVars, error, binding, selected, frame, countVars, spareError>>
    /\ Quiet

Next ==
    \/ \E b \in {"memory", "file"} : BindDocument(b)
    \/ \E l \in Layer : SelectLayer(l)
    \/ Deselect \/ Refresh
    \/ \E f \in Frame : SetFrame(f)
    \/ ResumeSeek
    \/ BeginStrokeAt \/ ContinueStrokeAt \/ EndStrokeAt \/ Cancel
    \/ \E clears \in BOOLEAN : EditSelected(clears)
    \/ UndoSelected \/ RedoSelected
    \/ \E valid \in BOOLEAN : ApplyBrush(valid)
    \/ \E a \in Asset : OthersOverwrite(a)
    \/ FileIsLost

Spec == Init /\ [][Next]_vars

-----------------------------------------------------------------------------
(* Properties *)

(* Every variable ranges over the values the code can store in it; without a *)
(* selection no editor is bound, and the counts fit the histories' limit     *)
(* although only one of the ways they grow checks it.                        *)
TypeOK ==
    /\ HistoryTypeOK
    /\ binding \in {"memory", "file"} /\ attached \in BOOLEAN
    /\ selected \in Layer \union {NoLayer} /\ frame \in Frame
    /\ selected = NoLayer <=> target = NoAsset
    /\ strokeCount \in Nat /\ startCount \in Nat /\ startRevision \in 0 .. MaxRevision
    /\ undoCounts \in Seq(Nat) /\ redoCounts \in Seq(Nat)
    /\ Len(undoCounts) + Len(redoCounts) <= HistoryLimit
    /\ spareError \in BOOLEAN /\ rendered \in BOOLEAN
    /\ seek = NoSeek \/ seek \in [kind : {"seek"}, to : Frame, from : Frame, moved : BOOLEAN]

(* What is painted is what the selected layer shows at the current frame,    *)
(* however seeks, selections and callbacks follow each other (README.md:404: *)
(* the selected layer is painted in document coordinates).                   *)
EditsWhatIsShown ==
    (selected # NoLayer /\ FileBindingValid) => target = Source[selected][frame]

(* An edit the item makes is rendered: it is not left to the host to call    *)
(* refresh().  Excepted is a cancelled stroke while the unbound editor still *)
(* holds an error, which cancelStroke() takes for its own, and an edit that  *)
(* a working file took and reported as failed.                               *)
EditsAreRendered ==
    [][(result' # "none" /\ pictures' # pictures /\ ~spareError)
          => rendered' \/ (file = "open" /\ result' = "failed")]_vars

(* A seek never takes the editor away from under a stroke, which would leave *)
(* painted pixels without an undo step: not even when callbacks of the       *)
(* cancellation begin another one (setFrame() checks what they left).        *)
SeeksSettleStrokes ==
    [][(frame' # frame /\ selected' # NoLayer) => ~ActiveEditorStrokeActive]_vars

(* "stroke count must follow selected-raster undo and redo history"          *)
(* (tests/CanvasItemRenderTest.cpp:474): each step of the history has the    *)
(* count it returns to.                                                      *)
CountsFollowHistory ==
    (~active /\ sole) => Len(undoCounts) = Len(undo) /\ Len(redoCounts) = Len(redo)

===============================================================================
