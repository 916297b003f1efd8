---------------------------- MODULE BitmapHistory ----------------------------
(***************************************************************************)
(* BitmapEditor and ChunkedBitmapEditor: strokes, direct edits, undo and    *)
(* redo of one raster asset at a time, in a document in memory or through a *)
(* working file.  Both editors keep the same history; where they differ,    *)
(* the asset that is bound says which of them is at work.                   *)
(***************************************************************************)
EXTENDS Naturals, Sequences, SequencesExt

CONSTANTS Asset,        \* raster assets of the document, by id
          Chunked,      \* those in chunks, for ChunkedBitmapEditor
          NoAsset,      \* nothing is bound
          Content,      \* what the editors can tell apart of an asset
          Gone,         \* the asset is no longer in the document
          HistoryLimit,
          MaxRevision   \* bound: changes counted by one binding

ASSUME HistoryAssumption ==
    /\ Chunked \subseteq Asset /\ NoAsset \notin Asset
    /\ Gone \notin Content
    /\ HistoryLimit \in Nat \ {0} /\ MaxRevision \in Nat

VARIABLES
    pictures,   \* the document: what each asset holds
    target,     \* m_assetId
    file,       \* m_file: "none", "open", or "lost" once its generation moved on
    undo, redo, \* m_undoHistory, m_redoHistory
    active,     \* m_strokeActive
    changed,    \* m_strokeChanged
    revision,   \* m_revision
    error,      \* m_lastError is not empty
    result,     \* how the last call ended; "none" after a step that is no call
    sole        \* history: since it was bound, only calls that succeeded changed the asset

documentVars == <<pictures, file>>
editorVars == <<target, undo, redo, active, changed, revision, sole>>
historyVars == <<documentVars, editorVars, error, result>>

Shown == IF target = NoAsset THEN Gone ELSE pictures[target]
IsBound == target # NoAsset /\ file # "lost" /\ Shown # Gone

HistoryInit ==
    /\ pictures \in [Asset -> Content]
    /\ target = NoAsset /\ file = "none"
    /\ undo = <<>> /\ redo = <<>>
    /\ active = FALSE /\ changed = FALSE
    /\ revision = 0
    /\ error = FALSE /\ result = "none"
    /\ sole = TRUE

-----------------------------------------------------------------------------
(* Steps the calls share *)

Succeeds == result' = "ok" /\ error' = FALSE
Fails == result' = "failed" /\ error' = TRUE /\ UNCHANGED <<documentVars, editorVars>>

(* recordSnapshot(); a full history forgets its oldest entry. *)
Snapshot(history) ==
    LET longer == Append(history, Shown)
    IN  IF Len(longer) > HistoryLimit THEN Tail(longer) ELSE longer

NoteChange == revision < MaxRevision /\ revision' = revision + 1
Show(picture) == pictures' = [pictures EXCEPT ![target] = picture]

(* The file took the edit, in the document too, and then reports a failure:  *)
(* the picture is the new one, the editor's copy is dropped.                 *)
Unreported(painted) ==
    /\ Shown # Gone /\ \E picture \in painted \ {Shown} : Show(picture)
    /\ sole' = FALSE
    /\ result' = "failed" /\ error' = TRUE
    /\ UNCHANGED <<file, target, undo, redo, active, changed, revision>>

(* The file cannot tell what became of the edit, and detaches itself.        *)
Detached ==
    /\ file' = "lost"
    /\ result' = "failed" /\ error' = TRUE
    /\ UNCHANGED <<pictures, editorVars>>

(* editFile(): the call works on a copy of the editor and of the document,   *)
(* and the editor takes over its copy only if the working file reports       *)
(* success.  An edit the callback accepts can fail in the file in more ways. *)
Call(step, accepted, painted) ==
    \/ file = "none" /\ step
    \/ file = "open" /\ step /\ result' = "ok"
    \/ file = "open" /\ accepted /\ (Unreported(painted) \/ Detached)
    \/ file # "none" /\ Fails

-----------------------------------------------------------------------------
(* Binding *)

(* bind(): a new history.  A bind that fails keeps the old one. *)
Bind(a, f) ==
    IF pictures[a] # Gone
    THEN /\ target' = a /\ file' = f
         /\ undo' = <<>> /\ redo' = <<>>
         /\ active' = FALSE /\ changed' = FALSE
         /\ revision' = 0 /\ sole' = TRUE
         /\ UNCHANGED pictures
         /\ Succeeds
    ELSE Fails

Unbind ==
    /\ target' = NoAsset /\ file' = "none"
    /\ undo' = <<>> /\ redo' = <<>>
    /\ active' = FALSE /\ changed' = FALSE
    /\ revision' = 0 /\ sole' = TRUE
    /\ UNCHANGED pictures
    /\ Succeeds

-----------------------------------------------------------------------------
(* Direct edits *)

(* setPixel(), clear(), replacePatch(), replacePixels(), replaceRegion():    *)
(* arguments may be invalid, or give the picture that is there.              *)
DirectEdit ==
    \/ Fails
    \/ /\ IsBound /\ ~active
       /\ UNCHANGED <<documentVars, editorVars>>
       /\ Succeeds
    \/ /\ IsBound /\ ~active
       /\ \E picture \in Content \ {Shown} : Show(picture)
       /\ undo' = Snapshot(undo) /\ redo' = <<>>
       /\ NoteChange
       /\ UNCHANGED <<target, file, active, changed, sole>>
       /\ Succeeds

-----------------------------------------------------------------------------
(* Strokes *)

(* What a stroke point does to the asset: no dab falls due or none touches   *)
(* it, or it is painted, be it with the colours it has.  The chunked editor  *)
(* must not paint an asset that is gone: its behaviour would be undefined.   *)
Untouched == UNCHANGED <<pictures, revision>>
Painted == Shown # Gone /\ (\E picture \in Content : Show(picture)) /\ NoteChange

(* Only BitmapEditor asks whether the asset is still there. *)
MayAppend == Shown # Gone \/ target \in Chunked

BeginStroke ==
    \/ Fails
    \/ /\ IsBound /\ ~active
       /\ undo' = Snapshot(undo)
       /\ active' = TRUE
       /\ \/ Untouched /\ changed' = FALSE
          \/ Painted /\ changed' = TRUE
       /\ UNCHANGED <<target, file, redo, sole>>
       /\ Succeeds

ContinueStroke ==
    \/ Fails
    \/ /\ active /\ MayAppend
       /\ \/ Untouched /\ UNCHANGED changed
          \/ Painted /\ changed' = TRUE
       /\ UNCHANGED <<target, file, undo, redo, active, sole>>
       /\ Succeeds

(* Mutant of SettleStroke: a stroke that restored the pixels is kept. *)
SettleAnyStroke(touched) ==
    IF changed \/ touched
    THEN redo' = <<>> /\ UNCHANGED undo
    ELSE undo' = Front(undo) /\ UNCHANGED redo

(* A stroke that changed nothing is taken out of the history. *)
SettleStroke(touched) ==
    IF (changed \/ touched) /\ Shown' # Last(undo)
    THEN redo' = <<>> /\ UNCHANGED undo
    ELSE undo' = Front(undo) /\ UNCHANGED redo

EndStroke ==
    \/ Fails
    \/ /\ active
       /\ UNCHANGED <<target, file, sole>>
       /\ \/ Untouched /\ SettleStroke(FALSE)
          \/ Painted /\ SettleStroke(TRUE)
       /\ active' = FALSE /\ changed' = FALSE
       /\ IF MayAppend THEN Succeeds ELSE result' = "failed" /\ error' = TRUE

(* Mutant of CancelNotes: a cancelled stroke is no change. *)
CancelNotesNever == UNCHANGED revision

(* Only BitmapEditor asks whether the stroke had changed anything. *)
CancelNotes ==
    IF target \in Chunked \/ Shown # Last(undo) THEN NoteChange ELSE UNCHANGED revision

CancelStroke ==
    IF active
    THEN /\ IF Shown # Gone
            THEN Show(Last(undo)) /\ undo' = Front(undo) /\ CancelNotes
            ELSE UNCHANGED <<pictures, undo, revision>>
         /\ active' = FALSE /\ changed' = FALSE
         /\ UNCHANGED <<target, file, redo, sole>>
         /\ Succeeds
    ELSE /\ result' = "ok" /\ error' = (error /\ file = "none")
         /\ UNCHANGED <<documentVars, editorVars>>

-----------------------------------------------------------------------------
(* Undo and redo *)

CanUndo == ~active /\ undo # <<>> /\ IsBound
CanRedo == ~active /\ redo # <<>> /\ IsBound

Undo ==
    IF CanUndo
    THEN /\ redo' = Append(redo, Shown)
         /\ Show(Last(undo)) /\ undo' = Front(undo)
         /\ NoteChange
         /\ UNCHANGED <<target, file, active, changed, sole>>
         /\ Succeeds
    ELSE Fails

(* Mutant of Redo: the picture it replaces is not kept. *)
RedoForgets ==
    IF CanRedo
    THEN /\ Show(Last(redo)) /\ redo' = Front(redo)
         /\ NoteChange
         /\ UNCHANGED <<target, file, undo, active, changed, sole>>
         /\ Succeeds
    ELSE Fails

Redo ==
    IF CanRedo
    THEN /\ undo' = Snapshot(undo)
         /\ Show(Last(redo)) /\ redo' = Front(redo)
         /\ NoteChange
         /\ UNCHANGED <<target, file, active, changed, sole>>
         /\ Succeeds
    ELSE Fails

-----------------------------------------------------------------------------
(* The calls, through a file or not *)

CallDirectEdit == Call(DirectEdit, IsBound /\ ~active, Content)
CallBeginStroke == Call(BeginStroke, IsBound /\ ~active, Content)
CallContinueStroke == Call(ContinueStroke, active /\ MayAppend, Content)
CallEndStroke == Call(EndStroke, active /\ MayAppend, Content)
CallCancelStroke == Call(CancelStroke, TRUE, IF active THEN {Last(undo)} ELSE {})
CallUndo == Call(Undo, CanUndo, {Last(undo)})
CallRedo == Call(Redo, CanRedo, {Last(redo)})

-----------------------------------------------------------------------------
(* What happens around the editor *)

(* Other code replaces, removes or restores an asset. *)
Overwrite(a) ==
    /\ pictures' \in {[pictures EXCEPT ![a] = p] : p \in (Content \union {Gone}) \ {pictures[a]}}
    /\ sole' = (sole /\ a # target)
    /\ result' = "none"
    /\ UNCHANGED <<target, file, undo, redo, active, changed, revision, error>>

(* The working file is closed, bound anew, or detached. *)
FileGoes ==
    /\ file = "open" /\ file' = "lost"
    /\ result' = "none"
    /\ UNCHANGED <<pictures, editorVars, error>>

HistoryNext ==
    \/ \E a \in Asset, f \in {"none", "open"} : Bind(a, f)
    \/ Unbind
    \/ CallDirectEdit
    \/ CallBeginStroke \/ CallContinueStroke \/ CallEndStroke \/ CallCancelStroke
    \/ CallUndo \/ CallRedo
    \/ \E a \in Asset : Overwrite(a)
    \/ FileGoes

HistorySpec == HistoryInit /\ [][HistoryNext]_historyVars

-----------------------------------------------------------------------------
(* Properties *)

Picture == Content \union {Gone}

(* Every variable ranges over the values the code can store in it; a stroke  *)
(* that is active has its snapshot, and the undo history stays within its    *)
(* limit (README.md:377).                                                    *)
HistoryTypeOK ==
    /\ pictures \in [Asset -> Picture]
    /\ target \in Asset \union {NoAsset}
    /\ file \in {"none", "open", "lost"}
    /\ undo \in Seq(Content) /\ redo \in Seq(Content)
    /\ Len(undo) <= HistoryLimit
    /\ active \in BOOLEAN /\ changed \in BOOLEAN
    /\ active => undo # <<>>
    /\ revision \in 0 .. MaxRevision
    /\ error \in BOOLEAN
    /\ result \in {"none", "ok", "failed"}
    /\ sole \in BOOLEAN

(* The past leaves out the stroke that is being made, and shows the picture  *)
(* it began from.                                                            *)
History == INSTANCE LinearHistory WITH
    Limit <- HistoryLimit,
    past <- IF active THEN Front(undo) ELSE undo,
    now <- IF active THEN Last(undo) ELSE Shown,
    future <- redo,
    others <- ~sole

(* One brush gesture is one undo operation (README.md:376), whatever became  *)
(* of its points, of the history's limit and of the writes to the file.      *)
GesturesAreUndoSteps == History!Spec

(* The revision tells every change the editor makes: views compare it around *)
(* a call to learn whether it changed anything (CanvasItem::endStrokeAt).    *)
(* The one call that changes a picture untold is an edit that a working file *)
(* took and reported as failed; it leaves history and stroke as they were.   *)
ChangesAreNoted ==
    [][(result' # "none" /\ pictures' # pictures) =>
          \/ revision' > revision
          \/ /\ file = "open" /\ result' = "failed"
             /\ UNCHANGED <<undo, redo, active, changed>>]_historyVars

(* As long as nobody else changes the asset, each undo and each redo that    *)
(* is offered shows another picture.                                         *)
EveryStepShows ==
    LET line == (IF active THEN undo ELSE Append(undo, Shown)) \o Reverse(redo)
    IN  sole => \A i \in 1 .. Len(line) - 1 : line[i] # line[i + 1]

===============================================================================
