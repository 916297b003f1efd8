-------------------------- MODULE BitmapEditingProofs --------------------------
(***************************************************************************)
(* What holds of the bitmap editors and of the two items around them, for   *)
(* any assets, contents, limits, layers, frames and sources.  First the     *)
(* editors: their type, that they implement LinearHistory, that the         *)
(* revision tells every change, and that every step of undo and redo shows  *)
(* something else.  HistoryInv is inductive and carries the first three;    *)
(* the last needs more of the contents of the stacks.  Then the items: the  *)
(* editor inside one takes the steps of BitmapHistory or stands still, so   *)
(* what is proved of it holds there.  EditInv adds what a CanvasItem keeps  *)
(* beside its editor; a BitmapItem tells the scene all that its calls do.   *)
(***************************************************************************)
EXTENDS CanvasEditing, BitmapItem, SequenceTheorems, TLAPS

(* Without its last element a sequence is one shorter. *)
LEMMA FrontProperties ==
    ASSUME NEW S, NEW s \in Seq(S), s # <<>>
    PROVE  Front(s) \in Seq(S) /\ Len(Front(s)) = Len(s) - 1 /\ Last(s) \in S
  <1>1. Len(s) \in Nat \ {0}
    OBVIOUS
  <1>2. Front(s) = SubSeq(s, 1, Len(s) - 1)
    BY DEF Front
  <1>3. Front(s) \in Seq(S) /\ Len(Front(s)) = Len(s) - 1
    <2>1. 1 \in Int /\ Len(s) - 1 \in Int /\ \A i \in 1 .. Len(s) - 1 : s[i] \in S
      BY <1>1
    <2>2. /\ SubSeq(s, 1, Len(s) - 1) \in Seq(S)
          /\ Len(SubSeq(s, 1, Len(s) - 1)) = IF 1 <= Len(s) - 1 THEN Len(s) - 1 - 1 + 1 ELSE 0
      BY <2>1, SubSeqProperties
    <2>3. /\ Front(s) \in Seq(S)
          /\ Len(Front(s)) = IF 1 <= Len(s) - 1 THEN Len(s) - 1 - 1 + 1 ELSE 0
      BY <1>2, <2>2, Zenon
    <2>4. \A n \in Nat \ {0} : (IF 1 <= n - 1 THEN n - 1 - 1 + 1 ELSE 0) = n - 1
      OBVIOUS
    <2>5. (IF 1 <= Len(s) - 1 THEN Len(s) - 1 - 1 + 1 ELSE 0) = Len(s) - 1
      BY <1>1, <2>4, Zenon
    <2> QED
      BY <2>3, <2>5, SMT
  <1>4. Last(s) \in S
    BY <1>1 DEF Last
  <1> QED
    BY <1>3, <1>4

(* An element appended is the last, and what was there is before it. *)
LEMMA FrontOfAppend ==
    ASSUME NEW S, NEW s \in Seq(S), NEW e \in S
    PROVE  Front(Append(s, e)) = s /\ Last(Append(s, e)) = e /\ Append(s, e) # <<>>
  BY DEF Front, Last

(* A sequence is what is before its last element, and that element. *)
LEMMA AppendOfFront ==
    ASSUME NEW S, NEW s \in Seq(S), s # <<>>
    PROVE  Append(Front(s), Last(s)) = s
  <1>1. Len(s) \in Nat \ {0} /\ Front(s) = SubSeq(s, 1, Len(s) - 1) /\ Last(s) = s[Len(s)]
    BY DEF Front, Last
  <1>2. Front(s) \in Seq(S) /\ Len(Front(s)) = Len(s) - 1 /\ Last(s) \in S
    BY FrontProperties
  <1>3. Len(Append(Front(s), Last(s))) = Len(s)
    BY <1>1, <1>2
  <1>4. \A i \in 1 .. Len(s) : Append(Front(s), Last(s))[i] = s[i]
    BY <1>1, <1>2
  <1> QED
    BY <1>2, <1>3, <1>4

(* A snapshot becomes the last entry of a history that stays within its      *)
(* limit; a full history loses its first entry for it.                       *)
LEMMA SnapshotProperties ==
    ASSUME Shown \in Content,
           NEW h \in Seq(Content), Len(h) <= HistoryLimit
    PROVE  /\ Snapshot(h) \in Seq(Content)
           /\ Snapshot(h) # <<>>
           /\ Len(Snapshot(h)) <= HistoryLimit
           /\ Last(Snapshot(h)) = Shown
           /\ Front(Snapshot(h)) = IF Len(h) = HistoryLimit THEN Tail(h) ELSE h
  <1>1. HistoryLimit \in Nat \ {0}
    BY HistoryAssumption
  <1>2. CASE Len(h) = HistoryLimit
    <2>1. Snapshot(h) = Tail(Append(h, Shown)) /\ h # <<>>
      BY <1>1, <1>2 DEF Snapshot
    <2>2. Tail(Append(h, Shown)) = Append(Tail(h), Shown) /\ Tail(h) \in Seq(Content)
      BY <2>1
    <2>3. Len(Tail(h)) = Len(h) - 1
      BY <2>1, HeadTailProperties
    <2>4. Len(Append(Tail(h), Shown)) = Len(Tail(h)) + 1
      BY <2>2
    <2>5. Front(Append(Tail(h), Shown)) = Tail(h) /\ Last(Append(Tail(h), Shown)) = Shown
      BY <2>2, FrontOfAppend
    <2>6. Append(Tail(h), Shown) \in Seq(Content) /\ Append(Tail(h), Shown) # <<>>
      BY <2>2, FrontOfAppend
    <2>7. Len(Append(Tail(h), Shown)) <= HistoryLimit
      BY <1>1, <1>2, <2>3, <2>4
    <2>8. Snapshot(h) = Append(Tail(h), Shown)
      BY <2>1, <2>2
    <2> QED
      BY <1>2, <2>5, <2>6, <2>7, <2>8, Zenon
  <1>3. CASE Len(h) # HistoryLimit
    <2>1. Snapshot(h) = Append(h, Shown)
      BY <1>1, <1>3 DEF Snapshot
    <2> QED
      BY <1>1, <1>3, <2>1, FrontOfAppend
  <1> QED
    BY <1>2, <1>3

-----------------------------------------------------------------------------
(* The inductive invariant *)

(* While nobody else changes the asset, a stroke has it to paint, and one    *)
(* that painted nothing shows what it began from.                            *)
StrokeIsAlone ==
    (active /\ sole) => Shown # Gone /\ (~changed => Shown = Last(undo))

HistoryInv == HistoryTypeOK /\ StrokeIsAlone

(* What is bound is an asset with a content. *)
LEMMA BoundShows ==
    ASSUME HistoryTypeOK, Shown # Gone
    PROVE  target \in Asset /\ Shown \in Content /\ Shown = pictures[target]
  BY HistoryAssumption DEF HistoryTypeOK, Shown, Picture

(* What is shown is a picture, or nothing. *)
LEMMA ShownType == ASSUME HistoryTypeOK PROVE Shown \in Picture
  BY DEF HistoryTypeOK, Shown, Picture

(* Before anything is bound, the invariant holds. *)
LEMMA HistoryInvInit == HistoryInit => HistoryInv
  <1> SUFFICES ASSUME HistoryInit PROVE HistoryInv
    OBVIOUS
  <1>1. HistoryTypeOK
    <2>1. pictures \in [Asset -> Picture]
      BY DEF HistoryInit, Picture
    <2>2. <<>> \in Seq(Content) /\ Len(<<>>) = 0
      OBVIOUS
    <2>3. undo = <<>> /\ redo = <<>> /\ ~active /\ ~changed /\ revision = 0 /\ ~error
          /\ target = NoAsset /\ file = "none" /\ result = "none" /\ sole
      BY DEF HistoryInit
    <2>4. HistoryLimit \in Nat /\ 0 \in 0 .. MaxRevision
      BY HistoryAssumption
    <2>5. undo \in Seq(Content) /\ redo \in Seq(Content) /\ Len(undo) <= HistoryLimit
      BY <2>2, <2>3, <2>4
    <2>6. active \in BOOLEAN /\ changed \in BOOLEAN /\ error \in BOOLEAN /\ sole \in BOOLEAN
      BY DEF HistoryInit
    <2> QED
      BY <2>1, <2>3, <2>4, <2>5, <2>6 DEF HistoryTypeOK
  <1> QED
    BY <1>1 DEF HistoryInv, StrokeIsAlone, HistoryInit

(* Painting gives the bound asset another content. *)
LEMMA PaintedType ==
    ASSUME HistoryTypeOK, Painted
    PROVE  /\ target \in Asset
           /\ pictures' \in [Asset -> Picture]
           /\ pictures'[target] \in Content
           /\ revision' \in 0 .. MaxRevision /\ revision' = revision + 1
  BY BoundShows, HistoryAssumption
     DEF HistoryTypeOK, Painted, Show, NoteChange, Picture

-----------------------------------------------------------------------------
(* What every step does: it keeps the invariant, it is a step or a stutter   *)
(* of LinearHistory, and a call that changes a picture counts the change or   *)
(* is an edit the file reports as failed.                                    *)

Mapped == [History!Next]_(History!vars)
Noted ==
    (result' # "none" /\ pictures' # pictures) =>
        \/ revision' > revision
        \/ /\ file = "open" /\ result' = "failed"
           /\ UNCHANGED <<undo, redo, active, changed>>
Kept == HistoryInv' /\ Mapped /\ Noted

(* A step that touches neither pictures nor editor. *)
LEMMA StaysPut ==
    ASSUME HistoryInv, UNCHANGED <<pictures, editorVars>>,
           file' \in {"none", "open", "lost"}, error' \in BOOLEAN,
           result' \in {"none", "ok", "failed"}
    PROVE  Kept
  <1> USE DEF editorVars
  <1>1. Shown' = Shown
    BY DEF Shown
  <1>2. HistoryInv'
    <2>1. HistoryTypeOK'
      BY DEF HistoryInv, HistoryTypeOK
    <2>2. StrokeIsAlone'
      BY <1>1 DEF HistoryInv, StrokeIsAlone
    <2> QED
      BY <2>1, <2>2 DEF HistoryInv
  <1>3. UNCHANGED History!vars
    BY <1>1 DEF History!vars
  <1> QED
    BY <1>2, <1>3 DEF Kept, Mapped, Noted

(* A call that fails changes nothing but the error. *)
LEMMA FailsStep == ASSUME HistoryInv, Fails PROVE Kept
  <1>1. file' \in {"none", "open", "lost"}
    BY DEF HistoryInv, HistoryTypeOK, Fails, documentVars
  <1>2. UNCHANGED <<pictures, editorVars>> /\ error' \in BOOLEAN /\ result' = "failed"
    BY DEF Fails, documentVars
  <1> QED
    BY <1>1, <1>2, StaysPut

(* A bind gives the editor a new history of a picture. *)
LEMMA BindStep ==
    ASSUME HistoryInv, NEW a \in Asset, NEW f \in {"none", "open"}, Bind(a, f)
    PROVE  Kept
  <1>1. CASE pictures[a] = Gone
    BY <1>1, FailsStep DEF Bind
  <1>2. CASE pictures[a] # Gone
    <2>1. /\ target' = a /\ file' = f /\ undo' = <<>> /\ redo' = <<>>
          /\ active' = FALSE /\ changed' = FALSE /\ revision' = 0 /\ sole' = TRUE
          /\ pictures' = pictures /\ result' = "ok" /\ error' = FALSE
      BY <1>2 DEF Bind, Succeeds
    <2>2. HistoryLimit \in Nat /\ 0 \in 0 .. MaxRevision /\ NoAsset \notin Asset
      BY HistoryAssumption
    <2>3. <<>> \in Seq(Content) /\ Len(<<>>) = 0
      OBVIOUS
    <2>4. HistoryTypeOK'
      <3>1. undo' \in Seq(Content) /\ redo' \in Seq(Content) /\ Len(undo') <= HistoryLimit
        BY <2>1, <2>2, <2>3
      <3> QED
        BY <2>1, <2>2, <3>1 DEF HistoryInv, HistoryTypeOK
    <2>5. Shown' \in Picture
      BY <2>4 DEF HistoryTypeOK, Shown, Picture
    <2>6. History!Restart
      BY <2>1, <2>5 DEF History!Restart
    <2> QED
      BY <2>1, <2>4, <2>6 DEF Kept, HistoryInv, StrokeIsAlone, Mapped, Noted, History!Next
  <1> QED
    BY <1>1, <1>2

(* Unbinding ends the history. *)
LEMMA UnbindStep == ASSUME HistoryInv, Unbind PROVE Kept
  <1>1. /\ target' = NoAsset /\ file' = "none" /\ undo' = <<>> /\ redo' = <<>>
        /\ active' = FALSE /\ changed' = FALSE /\ revision' = 0 /\ sole' = TRUE
        /\ pictures' = pictures /\ result' = "ok" /\ error' = FALSE
    BY DEF Unbind, Succeeds
  <1>2. HistoryLimit \in Nat /\ 0 \in 0 .. MaxRevision
    BY HistoryAssumption
  <1>3. undo' \in Seq(Content) /\ redo' \in Seq(Content) /\ Len(undo') <= HistoryLimit
    <2>1. <<>> \in Seq(Content) /\ Len(<<>>) = 0
      OBVIOUS
    <2> QED
      BY <1>1, <1>2, <2>1
  <1>4. HistoryTypeOK'
    BY <1>1, <1>2, <1>3 DEF HistoryInv, HistoryTypeOK
  <1>5. Shown' \in Picture
    BY <1>1 DEF Shown, Picture
  <1>6. History!Restart
    BY <1>1, <1>5 DEF History!Restart
  <1> QED
    BY <1>1, <1>4, <1>6 DEF Kept, HistoryInv, StrokeIsAlone, Mapped, Noted, History!Next

(* A picture put in the place of the one shown, between strokes, with both   *)
(* histories replaced by others of their type.                               *)
LEMMA ShowsAnother ==
    ASSUME HistoryInv, Shown # Gone, ~active, NEW p \in Content, Show(p), NoteChange,
           UNCHANGED <<target, file, active, changed, sole>>, result' = "ok", error' = FALSE,
           undo' \in Seq(Content), redo' \in Seq(Content), Len(undo') <= HistoryLimit
    PROVE  HistoryInv' /\ Noted /\ Shown' = p
  <1>1. target \in Asset /\ HistoryTypeOK
    BY BoundShows DEF HistoryInv
  <1>2. pictures' = [pictures EXCEPT ![target] = p] /\ p \in Picture
    BY DEF Show, Picture
  <1>3. pictures' \in [Asset -> Picture] /\ pictures'[target] = p
    BY <1>1, <1>2 DEF HistoryTypeOK
  <1>4. revision' = revision + 1 /\ revision < MaxRevision
    BY DEF NoteChange
  <1>5. revision' \in 0 .. MaxRevision /\ revision' > revision
    BY <1>1, <1>4, HistoryAssumption DEF HistoryTypeOK
  <1>6. HistoryTypeOK'
    BY <1>1, <1>3, <1>5 DEF HistoryTypeOK
  <1>7. Shown' = p
    BY <1>1, <1>3, HistoryAssumption DEF Shown
  <1> QED
    BY <1>5, <1>6, <1>7 DEF HistoryInv, StrokeIsAlone, Noted

(* The snapshot between strokes is what LinearHistory puts in the past. *)
LEMMA SnapshotIsPast ==
    ASSUME NEW h PROVE Snapshot(h) = History!Newest(Append(h, Shown))
  BY DEF Snapshot, History!Newest

(* Both modules mean the same by the ends of a sequence. *)
LEMMA SameEnds ==
    ASSUME NEW s PROVE History!Last(s) = Last(s) /\ History!Front(s) = Front(s)
  BY DEF History!Last, Last, History!Front, Front

(* A direct edit is a change, or nothing. *)
LEMMA DirectEditStep == ASSUME HistoryInv, DirectEdit PROVE Kept
  <1>1. CASE Fails
    BY <1>1, FailsStep
  <1>2. CASE UNCHANGED <<documentVars, editorVars>> /\ Succeeds
    <2>1. file' \in {"none", "open", "lost"} /\ error' \in BOOLEAN /\ result' = "ok"
      BY <1>2 DEF HistoryInv, HistoryTypeOK, documentVars, Succeeds
    <2>2. UNCHANGED <<pictures, editorVars>>
      BY <1>2 DEF documentVars
    <2> QED
      BY <2>1, <2>2, StaysPut
  <1>3. CASE /\ IsBound /\ ~active
             /\ \E picture \in Content \ {Shown} : Show(picture)
             /\ undo' = Snapshot(undo) /\ redo' = <<>>
             /\ NoteChange
             /\ UNCHANGED <<target, file, active, changed, sole>>
             /\ Succeeds
    <2>1. PICK p \in Content \ {Shown} : Show(p)
      BY <1>3
    <2>2. Shown # Gone /\ result' = "ok" /\ error' = FALSE
      BY <1>3 DEF IsBound, Succeeds
    <2>3. Shown \in Content /\ undo \in Seq(Content) /\ Len(undo) <= HistoryLimit
      BY <2>2, BoundShows DEF HistoryInv, HistoryTypeOK
    <2>4. undo' \in Seq(Content) /\ Len(undo') <= HistoryLimit
      BY <1>3, <2>3, SnapshotProperties
    <2>5. redo' \in Seq(Content)
      BY <1>3
    <2>6. HistoryInv' /\ Noted /\ Shown' = p
      BY <1>3, <2>1, <2>2, <2>4, <2>5, ShowsAnother
    <2>7. undo' = History!Newest(Append(undo, Shown))
      BY <1>3, SnapshotIsPast
    <2>8. History!Change
      BY <1>3, <2>1, <2>6, <2>7 DEF History!Change, Picture
    <2> QED
      BY <2>6, <2>8 DEF Kept, Mapped, History!Next
  <1> QED
    BY <1>1, <1>2, <1>3 DEF DirectEdit

(* The editor's undo is the history's. *)
LEMMA UndoStep == ASSUME HistoryInv, Undo PROVE Kept
  <1>1. CASE ~CanUndo
    BY <1>1, FailsStep DEF Undo
  <1>2. CASE CanUndo
    <2>1. /\ redo' = Append(redo, Shown) /\ Show(Last(undo)) /\ undo' = Front(undo)
          /\ NoteChange /\ UNCHANGED <<target, file, active, changed, sole>>
          /\ result' = "ok" /\ error' = FALSE
      BY <1>2 DEF Undo, Succeeds
    <2>2. ~active /\ undo # <<>> /\ Shown # Gone
      BY <1>2 DEF CanUndo, IsBound
    <2>3. /\ Shown \in Content /\ undo \in Seq(Content) /\ redo \in Seq(Content)
          /\ Len(undo) <= HistoryLimit /\ HistoryLimit \in Nat
      BY <2>2, BoundShows, HistoryAssumption DEF HistoryInv, HistoryTypeOK
    <2>4. Front(undo) \in Seq(Content) /\ Len(Front(undo)) = Len(undo) - 1
          /\ Last(undo) \in Content
      BY <2>2, <2>3, FrontProperties
    <2>5. undo' \in Seq(Content) /\ Len(undo') <= HistoryLimit
      BY <2>1, <2>3, <2>4
    <2>6. redo' \in Seq(Content)
      BY <2>1, <2>3
    <2>7. HistoryInv' /\ Noted /\ Shown' = Last(undo)
      BY <2>1, <2>2, <2>4, <2>5, <2>6, ShowsAnother
    <2>8. History!Last(undo) = Last(undo) /\ History!Front(undo) = Front(undo)
      BY SameEnds
    <2>9. History!Undo
      BY <2>1, <2>2, <2>7, <2>8 DEF History!Undo
    <2> QED
      BY <2>7, <2>9 DEF Kept, Mapped, History!Next
  <1> QED
    BY <1>1, <1>2

(* The editor's redo is the history's. *)
LEMMA RedoStep == ASSUME HistoryInv, Redo PROVE Kept
  <1>1. CASE ~CanRedo
    BY <1>1, FailsStep DEF Redo
  <1>2. CASE CanRedo
    <2>1. /\ undo' = Snapshot(undo) /\ Show(Last(redo)) /\ redo' = Front(redo)
          /\ NoteChange /\ UNCHANGED <<target, file, active, changed, sole>>
          /\ result' = "ok" /\ error' = FALSE
      BY <1>2 DEF Redo, Succeeds
    <2>2. ~active /\ redo # <<>> /\ Shown # Gone
      BY <1>2 DEF CanRedo, IsBound
    <2>3. /\ Shown \in Content /\ undo \in Seq(Content) /\ redo \in Seq(Content)
          /\ Len(undo) <= HistoryLimit
      BY <2>2, BoundShows DEF HistoryInv, HistoryTypeOK
    <2>4. Front(redo) \in Seq(Content) /\ Last(redo) \in Content
      BY <2>2, <2>3, FrontProperties
    <2>5. undo' \in Seq(Content) /\ Len(undo') <= HistoryLimit
      BY <2>1, <2>3, SnapshotProperties
    <2>6. HistoryInv' /\ Noted /\ Shown' = Last(redo)
      BY <2>1, <2>2, <2>4, <2>5, ShowsAnother
    <2>7. undo' = History!Newest(Append(undo, Shown))
      BY <2>1, SnapshotIsPast
    <2>8. History!Last(redo) = Last(redo) /\ History!Front(redo) = Front(redo)
      BY SameEnds
    <2>9. History!Redo
      BY <2>1, <2>2, <2>6, <2>7, <2>8 DEF History!Redo
    <2> QED
      BY <2>6, <2>9 DEF Kept, Mapped, History!Next
  <1> QED
    BY <1>1, <1>2

(* A point of a stroke leaves or paints the picture that is shown, and never *)
(* takes it away; what it paints is counted.                                 *)
LEMMA StrokePoint ==
    ASSUME HistoryInv, target' = target, Untouched \/ Painted
    PROVE  /\ pictures' \in [Asset -> Picture] /\ revision' \in 0 .. MaxRevision
           /\ Noted
           /\ Shown' \in Picture
           /\ Shown # Gone => Shown' # Gone
           /\ Untouched => Shown' = Shown
           /\ Painted => Shown # Gone
  <1>1. HistoryTypeOK
    BY DEF HistoryInv
  <1>2. CASE Untouched
    <2>1. pictures' = pictures /\ revision' = revision /\ Shown' = Shown
      BY <1>2 DEF Untouched, Shown
    <2>2. pictures' \in [Asset -> Picture] /\ revision' \in 0 .. MaxRevision
      BY <1>1, <2>1 DEF HistoryTypeOK
    <2>3. Shown \in Picture
      BY <1>1, ShownType
    <2>4. Painted => Shown # Gone
      BY DEF Painted
    <2> QED
      BY <2>1, <2>2, <2>3, <2>4 DEF Noted
  <1>3. CASE Painted
    <2>1. /\ target \in Asset /\ pictures' \in [Asset -> Picture]
          /\ pictures'[target] \in Content
          /\ revision' \in 0 .. MaxRevision /\ revision' = revision + 1
      BY <1>1, <1>3, PaintedType
    <2>2. Shown' = pictures'[target]
      BY <2>1, HistoryAssumption DEF Shown
    <2>3. Shown' \in Picture /\ Shown' # Gone
      BY <2>1, <2>2, HistoryAssumption DEF Picture
    <2>4. revision' > revision
      BY <1>1, <2>1, HistoryAssumption DEF HistoryTypeOK
    <2>5. Shown # Gone
      BY <1>3 DEF Painted
    <2>6. Untouched => Shown' = Shown
      BY DEF Untouched, Shown
    <2> QED
      BY <2>1, <2>3, <2>4, <2>5, <2>6 DEF Noted
  <1> QED
    BY <1>2, <1>3

(* A stroke begins from the picture that is shown; at most the oldest entry  *)
(* of the history gives way to it.                                           *)
LEMMA BeginStrokeStep == ASSUME HistoryInv, BeginStroke PROVE Kept
  <1>1. CASE Fails
    BY <1>1, FailsStep
  <1>2. CASE ~Fails
    <2>1. /\ IsBound /\ ~active
          /\ undo' = Snapshot(undo) /\ active' = TRUE
          /\ (Untouched /\ changed' = FALSE) \/ (Painted /\ changed' = TRUE)
          /\ target' = target /\ file' = file /\ redo' = redo /\ sole' = sole
          /\ result' = "ok" /\ error' = FALSE
      BY <1>2 DEF BeginStroke, Succeeds
    <2>2. Untouched \/ Painted
      BY <2>1
    <2>3. /\ pictures' \in [Asset -> Picture] /\ revision' \in 0 .. MaxRevision
          /\ Noted
          /\ Shown # Gone => Shown' # Gone
          /\ Untouched => Shown' = Shown
      BY <2>1, <2>2, StrokePoint
    <2>4. Shown # Gone
      BY <2>1 DEF IsBound
    <2>5. Shown \in Content /\ undo \in Seq(Content) /\ Len(undo) <= HistoryLimit
      BY <2>4, BoundShows DEF HistoryInv, HistoryTypeOK
    <2>6. /\ undo' \in Seq(Content) /\ undo' # <<>> /\ Len(undo') <= HistoryLimit
          /\ Last(undo') = Shown
          /\ Front(undo') = IF Len(undo) = HistoryLimit THEN Tail(undo) ELSE undo
      BY <2>1, <2>5, SnapshotProperties
    <2>7. HistoryTypeOK'
      <3>1. changed' \in BOOLEAN /\ active' \in BOOLEAN
        BY <2>1
      <3> QED
        BY <2>1, <2>3, <2>6, <3>1 DEF HistoryInv, HistoryTypeOK
    <2>8. StrokeIsAlone'
      BY <2>1, <2>3, <2>4, <2>6 DEF StrokeIsAlone
    <2>9. Mapped
      <3>1. CASE Len(undo) = HistoryLimit
        <4>1. History!Forget
          BY <2>1, <2>6, <3>1 DEF History!Forget
        <4> QED
          BY <4>1 DEF Mapped, History!Next
      <3>2. CASE Len(undo) # HistoryLimit
        BY <2>1, <2>6, <3>2 DEF Mapped, History!vars
      <3> QED
        BY <3>1, <3>2
    <2> QED
      BY <2>3, <2>7, <2>8, <2>9 DEF Kept, HistoryInv
  <1> QED
    BY <1>1, <1>2

(* The middle of a stroke is no business of the history. *)
LEMMA ContinueStrokeStep == ASSUME HistoryInv, ContinueStroke PROVE Kept
  <1>1. CASE Fails
    BY <1>1, FailsStep
  <1>2. CASE ~Fails
    <2>1. /\ active
          /\ (Untouched /\ changed' = changed) \/ (Painted /\ changed' = TRUE)
          /\ target' = target /\ file' = file /\ undo' = undo /\ redo' = redo
          /\ active' = active /\ sole' = sole
          /\ result' = "ok" /\ error' = FALSE
      BY <1>2 DEF ContinueStroke, Succeeds
    <2>2. Untouched \/ Painted
      BY <2>1
    <2>3. /\ pictures' \in [Asset -> Picture] /\ revision' \in 0 .. MaxRevision
          /\ Noted
          /\ Shown # Gone => Shown' # Gone
          /\ Untouched => Shown' = Shown
      BY <2>1, <2>2, StrokePoint
    <2>4. HistoryTypeOK'
      <3>1. changed' \in BOOLEAN
        BY <2>1 DEF HistoryInv, HistoryTypeOK
      <3> QED
        BY <2>1, <2>3, <3>1 DEF HistoryInv, HistoryTypeOK
    <2>5. StrokeIsAlone'
      BY <2>1, <2>3 DEF HistoryInv, StrokeIsAlone
    <2>6. Mapped
      BY <2>1 DEF Mapped, History!vars
    <2> QED
      BY <2>3, <2>4, <2>5, <2>6 DEF Kept, HistoryInv
  <1> QED
    BY <1>1, <1>2

(* The stroke's snapshot, and what there was before it. *)
LEMMA SnapshotTaken ==
    ASSUME HistoryTypeOK, active
    PROVE  /\ Last(undo) \in Content /\ Front(undo) \in Seq(Content)
           /\ Len(Front(undo)) <= HistoryLimit
           /\ History!Newest(Append(Front(undo), Last(undo))) = undo
           /\ Append(Front(undo), Last(undo)) = undo
  <1>1. undo \in Seq(Content) /\ undo # <<>> /\ Len(undo) <= HistoryLimit /\ HistoryLimit \in Nat
    BY HistoryAssumption DEF HistoryTypeOK
  <1>2. /\ Front(undo) \in Seq(Content) /\ Len(Front(undo)) = Len(undo) - 1
        /\ Last(undo) \in Content
    BY <1>1, FrontProperties
  <1>3. Append(Front(undo), Last(undo)) = undo
    BY <1>1, AppendOfFront
  <1>4. ~(Len(undo) > HistoryLimit) /\ Len(Front(undo)) <= HistoryLimit
    BY <1>1, <1>2
  <1>5. History!Newest(undo) = undo
    BY <1>4 DEF History!Newest
  <1> QED
    BY <1>2, <1>3, <1>4, <1>5

(* A stroke that ends is a change, or as if it had never been. *)
LEMMA EndStrokeStep == ASSUME HistoryInv, EndStroke PROVE Kept
  <1>1. CASE Fails
    BY <1>1, FailsStep
  <1>2. CASE ~Fails
    <2>1. /\ active
          /\ target' = target /\ file' = file /\ sole' = sole
          /\ \/ Untouched /\ SettleStroke(FALSE)
             \/ Painted /\ SettleStroke(TRUE)
          /\ active' = FALSE /\ changed' = FALSE
          /\ result' \in {"none", "ok", "failed"} /\ error' \in BOOLEAN
      BY <1>2 DEF EndStroke, Succeeds
    <2>2. Untouched \/ Painted
      BY <2>1
    <2>3. /\ pictures' \in [Asset -> Picture] /\ revision' \in 0 .. MaxRevision
          /\ Noted /\ Shown' \in Picture
          /\ Untouched => Shown' = Shown
      BY <2>1, <2>2, StrokePoint
    <2>4. HistoryTypeOK
      BY DEF HistoryInv
    <2>5. /\ Last(undo) \in Content /\ Front(undo) \in Seq(Content)
          /\ Len(Front(undo)) <= HistoryLimit
          /\ History!Newest(Append(Front(undo), Last(undo))) = undo
      BY <2>1, <2>4, SnapshotTaken
    <2>6. /\ undo \in Seq(Content) /\ redo \in Seq(Content) /\ Len(undo) <= HistoryLimit
          /\ <<>> \in Seq(Content)
      BY <2>4 DEF HistoryTypeOK
    <2>7. CASE redo' = <<>> /\ undo' = undo /\ Shown' # Last(undo)
      <3>1. HistoryTypeOK'
        <4>1. undo' \in Seq(Content) /\ redo' \in Seq(Content) /\ Len(undo') <= HistoryLimit
          BY <2>6, <2>7
        <4> QED
          BY <2>1, <2>3, <2>4, <4>1 DEF HistoryTypeOK
      <3>2. History!Change
        BY <2>1, <2>3, <2>5, <2>7 DEF History!Change
      <3> QED
        BY <2>1, <2>3, <3>1, <3>2 DEF Kept, HistoryInv, StrokeIsAlone, Mapped, History!Next
    <2>8. CASE /\ undo' = Front(undo) /\ redo' = redo
               /\ Shown' = Last(undo) \/ (Untouched /\ ~changed)
      <3>1. HistoryTypeOK'
        <4>1. undo' \in Seq(Content) /\ redo' \in Seq(Content) /\ Len(undo') <= HistoryLimit
          BY <2>5, <2>6, <2>8
        <4> QED
          BY <2>1, <2>3, <2>4, <4>1 DEF HistoryTypeOK
      <3>2. Mapped
        <4>1. CASE Shown' = Last(undo)
          BY <2>1, <2>8, <4>1 DEF Mapped, History!vars
        <4>2. CASE Shown' # Last(undo)
          <5>1. ~sole
            BY <2>1, <2>3, <2>8, <4>2 DEF HistoryInv, StrokeIsAlone
          <5>2. History!Overwrite
            BY <2>1, <2>3, <2>8, <5>1 DEF History!Overwrite
          <5> QED
            BY <5>2 DEF Mapped, History!Next
        <4> QED
          BY <4>1, <4>2
      <3> QED
        BY <2>1, <2>3, <3>1, <3>2 DEF Kept, HistoryInv, StrokeIsAlone
    <2> QED
      BY <2>1, <2>7, <2>8 DEF SettleStroke
  <1> QED
    BY <1>1, <1>2

(* A cancelled stroke is as if it had never been, unless others took its     *)
(* asset away: then it stays in the past.                                    *)
LEMMA CancelStrokeStep == ASSUME HistoryInv, CancelStroke PROVE Kept
  <1>1. HistoryTypeOK
    BY DEF HistoryInv
  <1>2. CASE ~active
    <2>1. result' = "ok" /\ error' \in BOOLEAN /\ UNCHANGED <<documentVars, editorVars>>
      BY <1>2, <1>1 DEF CancelStroke, HistoryTypeOK
    <2>2. file' \in {"none", "open", "lost"} /\ UNCHANGED <<pictures, editorVars>>
      BY <2>1, <1>1 DEF documentVars, HistoryTypeOK
    <2> QED
      BY <2>1, <2>2, StaysPut
  <1>3. CASE active
    <2>1. /\ IF Shown # Gone
             THEN Show(Last(undo)) /\ undo' = Front(undo) /\ CancelNotes
             ELSE UNCHANGED <<pictures, undo, revision>>
          /\ active' = FALSE /\ changed' = FALSE
          /\ target' = target /\ file' = file /\ redo' = redo /\ sole' = sole
          /\ result' = "ok" /\ error' = FALSE
      BY <1>3 DEF CancelStroke, Succeeds
    <2>2. /\ Last(undo) \in Content /\ Front(undo) \in Seq(Content)
          /\ Len(Front(undo)) <= HistoryLimit
          /\ Append(Front(undo), Last(undo)) = undo
      BY <1>1, <1>3, SnapshotTaken
    <2>3. CASE Shown = Gone
      <3>1. pictures' = pictures /\ undo' = undo /\ revision' = revision /\ Shown' = Shown
        BY <2>1, <2>3 DEF Shown
      <3>2. HistoryTypeOK'
        BY <1>1, <2>1, <3>1 DEF HistoryTypeOK
      <3>3. ~sole
        BY <1>3, <2>3 DEF HistoryInv, StrokeIsAlone
      <3>4. History!Join
        <4>1. Shown' \in Picture
          BY <2>3, <3>1 DEF Picture
        <4> QED
          BY <1>3, <2>1, <2>2, <3>1, <3>3, <4>1 DEF History!Join
      <3> QED
        BY <2>1, <3>1, <3>2, <3>4 DEF Kept, HistoryInv, StrokeIsAlone, Mapped, Noted, History!Next
    <2>4. CASE Shown # Gone
      <3>1. target \in Asset /\ Shown = pictures[target]
        BY <1>1, <2>4, BoundShows
      <3>2. pictures' = [pictures EXCEPT ![target] = Last(undo)] /\ undo' = Front(undo) /\ CancelNotes
        BY <2>1, <2>4 DEF Show
      <3>3. pictures' \in [Asset -> Picture] /\ pictures'[target] = Last(undo)
        BY <1>1, <2>2, <3>1, <3>2 DEF HistoryTypeOK, Picture
      <3>4. revision' \in 0 .. MaxRevision /\ (pictures' # pictures => revision' > revision)
        <4>1. CASE NoteChange
          BY <4>1, <1>1, HistoryAssumption DEF NoteChange, HistoryTypeOK
        <4>2. CASE ~NoteChange
          <5>1. revision' = revision /\ Shown = Last(undo)
            BY <3>2, <4>2 DEF CancelNotes
          <5>2. pictures' = pictures
            BY <1>1, <3>1, <3>2, <5>1 DEF HistoryTypeOK
          <5> QED
            BY <1>1, <5>1, <5>2 DEF HistoryTypeOK
        <4> QED
          BY <4>1, <4>2
      <3>5. Shown' = Last(undo)
        BY <2>1, <3>1, <3>3, HistoryAssumption DEF Shown
      <3>6. HistoryTypeOK'
        BY <1>1, <2>1, <2>2, <3>2, <3>3, <3>4 DEF HistoryTypeOK
      <3>7. Mapped
        BY <1>3, <2>1, <3>2, <3>5 DEF Mapped, History!vars
      <3> QED
        BY <2>1, <3>4, <3>6, <3>7 DEF Kept, HistoryInv, StrokeIsAlone, Noted
    <2> QED
      BY <2>3, <2>4
  <1> QED
    BY <1>2, <1>3

(* What others do to the asset that is bound is theirs to answer for. *)
LEMMA OverwriteStep == ASSUME HistoryInv, NEW a \in Asset, Overwrite(a) PROVE Kept
  <1>1. HistoryTypeOK
    BY DEF HistoryInv
  <1>2. PICK p \in (Content \union {Gone}) \ {pictures[a]} : pictures' = [pictures EXCEPT ![a] = p]
    BY DEF Overwrite
  <1>3. /\ sole' = (sole /\ a # target) /\ result' = "none"
        /\ target' = target /\ file' = file /\ undo' = undo /\ redo' = redo
        /\ active' = active /\ changed' = changed /\ revision' = revision /\ error' = error
    BY DEF Overwrite
  <1>4. HistoryTypeOK'
    <2>1. pictures' \in [Asset -> Picture]
      BY <1>1, <1>2 DEF HistoryTypeOK, Picture
    <2>2. sole' \in BOOLEAN
      BY <1>3
    <2> QED
      BY <1>1, <1>3, <2>1, <2>2 DEF HistoryTypeOK
  <1>5. CASE a = target
    <2>1. ~sole'
      BY <1>3, <1>5
    <2>2. Shown' \in Picture
      BY <1>4 DEF HistoryTypeOK, Shown, Picture
    <2>3. Last(undo) \in Picture \/ ~active
      BY <1>1, SnapshotTaken DEF Picture
    <2>4. History!Overwrite
      BY <1>1, <1>3, <2>1, <2>2, <2>3 DEF History!Overwrite, HistoryTypeOK
    <2> QED
      BY <1>3, <1>4, <2>1, <2>4 DEF Kept, HistoryInv, StrokeIsAlone, Mapped, Noted, History!Next
  <1>6. CASE a # target
    <2>1. Shown' = Shown
      BY <1>1, <1>2, <1>3, <1>6 DEF HistoryTypeOK, Shown
    <2>2. sole' = sole
      BY <1>1, <1>3, <1>6 DEF HistoryTypeOK
    <2>3. StrokeIsAlone'
      BY <1>3, <2>1, <2>2 DEF HistoryInv, StrokeIsAlone
    <2>4. Mapped
      BY <1>3, <2>1, <2>2 DEF Mapped, History!vars
    <2> QED
      BY <1>3, <1>4, <2>3, <2>4 DEF Kept, HistoryInv, Noted
  <1> QED
    BY <1>5, <1>6

(* A working file that goes takes nothing with it. *)
LEMMA FileGoesStep == ASSUME HistoryInv, FileGoes PROVE Kept
  <1>1. UNCHANGED <<pictures, editorVars>> /\ file' = "lost" /\ result' = "none" /\ error' \in BOOLEAN
    BY DEF FileGoes, HistoryInv, HistoryTypeOK
  <1> QED
    BY <1>1, StaysPut

(* An edit the file took and reports as failed is to the history what others *)
(* do to the asset; a file that detaches itself takes nothing with it.       *)
LEMMA FileFailureStep ==
    ASSUME HistoryInv, file = "open", NEW painted, painted \subseteq Content,
           Unreported(painted) \/ Detached
    PROVE  Kept
  <1>1. HistoryTypeOK
    BY DEF HistoryInv
  <1>2. CASE Detached
    <2>1. UNCHANGED <<pictures, editorVars>> /\ file' = "lost" /\ result' = "failed" /\ error' = TRUE
      BY <1>2 DEF Detached
    <2> QED
      BY <2>1, StaysPut
  <1>3. CASE Unreported(painted)
    <2>1. PICK picture \in Content : Show(picture)
      BY <1>3 DEF Unreported
    <2>2. /\ Shown # Gone /\ sole' = FALSE /\ result' = "failed" /\ error' = TRUE
          /\ file' = file /\ target' = target /\ undo' = undo /\ redo' = redo
          /\ active' = active /\ changed' = changed /\ revision' = revision
      BY <1>3 DEF Unreported
    <2>3. pictures' \in [Asset -> Picture]
      BY <1>1, <2>1, <2>2, BoundShows DEF Show, HistoryTypeOK, Picture
    <2>4. HistoryTypeOK'
      BY <1>1, <2>2, <2>3 DEF HistoryTypeOK
    <2>5. Shown' \in Picture
      BY <2>4 DEF HistoryTypeOK, Shown, Picture
    <2>6. Last(undo) \in Picture \/ ~active
      BY <1>1, SnapshotTaken DEF Picture
    <2>7. History!Overwrite
      BY <1>1, <2>2, <2>5, <2>6 DEF History!Overwrite, HistoryTypeOK
    <2> QED
      BY <2>2, <2>4, <2>7 DEF Kept, HistoryInv, StrokeIsAlone, Mapped, Noted, History!Next
  <1> QED
    BY <1>2, <1>3

(* What the calls of the editor may paint are contents.                      *)
LEMMA PaintedContents ==
    ASSUME HistoryTypeOK
    PROVE  /\ (IF active THEN {Last(undo)} ELSE {}) \subseteq Content
           /\ CanUndo => {Last(undo)} \subseteq Content
           /\ CanRedo => {Last(redo)} \subseteq Content
  <1>1. undo # <<>> => Last(undo) \in Content
    BY FrontProperties DEF HistoryTypeOK
  <1>2. redo # <<>> => Last(redo) \in Content
    BY FrontProperties DEF HistoryTypeOK
  <1> QED
    BY <1>1, <1>2 DEF HistoryTypeOK, CanUndo, CanRedo

(* Every call of the editors is a step of one of the kinds above.            *)
IsCall ==
    \/ CallDirectEdit \/ CallBeginStroke \/ CallContinueStroke \/ CallEndStroke
    \/ CallCancelStroke \/ CallUndo \/ CallRedo

IsStep ==
    \/ DirectEdit \/ BeginStroke \/ ContinueStroke \/ EndStroke \/ CancelStroke
    \/ Undo \/ Redo

LEMMA CallSteps ==
    ASSUME HistoryTypeOK, IsCall
    PROVE  \/ IsStep \/ Fails
           \/ /\ file = "open"
              /\ Detached \/ \E painted \in SUBSET Content : Unreported(painted)
  <1>1. CASE CallDirectEdit
    BY <1>1, Zenon DEF CallDirectEdit, Call, IsStep
  <1>2. CASE CallBeginStroke
    BY <1>2, Zenon DEF CallBeginStroke, Call, IsStep
  <1>3. CASE CallContinueStroke
    BY <1>3, Zenon DEF CallContinueStroke, Call, IsStep
  <1>4. CASE CallEndStroke
    BY <1>4, Zenon DEF CallEndStroke, Call, IsStep
  <1>5. CASE CallCancelStroke
    BY <1>5, PaintedContents, Zenon DEF CallCancelStroke, Call, IsStep
  <1>6. CASE CallUndo
    BY <1>6, PaintedContents, Zenon DEF CallUndo, Call, IsStep
  <1>7. CASE CallRedo
    BY <1>7, PaintedContents, Zenon DEF CallRedo, Call, IsStep
  <1> QED
    BY <1>1, <1>2, <1>3, <1>4, <1>5, <1>6, <1>7 DEF IsCall

-----------------------------------------------------------------------------
(* The theorems *)

(* Every step of the editors keeps what is claimed of a step. *)
LEMMA EveryStep == HistoryInv /\ [HistoryNext]_historyVars => Kept
  <1> SUFFICES ASSUME HistoryInv, [HistoryNext]_historyVars PROVE Kept
    OBVIOUS
  <1>1. CASE \E a \in Asset, f \in {"none", "open"} : Bind(a, f)
    BY <1>1, BindStep
  <1>2. CASE Unbind
    BY <1>2, UnbindStep
  <1>3. CASE IsCall
    <2>1. CASE IsStep
      BY <2>1, DirectEditStep, BeginStrokeStep, ContinueStrokeStep, EndStrokeStep,
         CancelStrokeStep, UndoStep, RedoStep DEF IsStep
    <2>2. CASE Fails
      BY <2>2, FailsStep
    <2>3. CASE /\ file = "open"
               /\ Detached \/ \E painted \in SUBSET Content : Unreported(painted)
      BY <2>3, FileFailureStep
    <2> QED
      BY <1>3, <2>1, <2>2, <2>3, CallSteps DEF HistoryInv
  <1>10. CASE \E a \in Asset : Overwrite(a)
    BY <1>10, OverwriteStep
  <1>11. CASE FileGoes
    BY <1>11, FileGoesStep
  <1>12. CASE UNCHANGED historyVars
    <2>1. UNCHANGED <<pictures, editorVars>> /\ UNCHANGED <<file, error, result>>
      BY <1>12 DEF historyVars, documentVars
    <2>2. /\ file' \in {"none", "open", "lost"} /\ error' \in BOOLEAN
          /\ result' \in {"none", "ok", "failed"}
      BY <2>1 DEF HistoryInv, HistoryTypeOK
    <2> QED
      BY <2>1, <2>2, StaysPut
  <1> QED
    BY <1>1, <1>2, <1>3, <1>10, <1>11, <1>12 DEF HistoryNext, IsCall

(* The invariant holds in every state of the editors. *)
LEMMA HistoryInvariance == HistorySpec => []HistoryInv
  <1>1. HistoryInv /\ [HistoryNext]_historyVars => HistoryInv'
    BY EveryStep DEF Kept
  <1> QED
    BY HistoryInvInit, <1>1, PTL DEF HistorySpec

(* HistoryTypeOK for any history limit: a stroke under way has its snapshot, *)
(* and no call of the editors lets the undo history grow past its limit.     *)
THEOREM HistoryTypeCorrect == HistorySpec => []HistoryTypeOK
  <1>1. HistoryInv => HistoryTypeOK
    BY DEF HistoryInv
  <1> QED
    BY HistoryInvariance, <1>1, PTL

(* The editors implement LinearHistory: one gesture is one undo operation    *)
(* (README.md:376), with any contents, limit and number of assets.           *)
THEOREM GesturesAreUndoStepsCorrect == HistorySpec => GesturesAreUndoSteps
  <1>1. HistoryInit => History!Init
    <2> SUFFICES ASSUME HistoryInit PROVE History!Init
      OBVIOUS
    <2>1. ~active /\ undo = <<>> /\ redo = <<>> /\ sole /\ target = NoAsset
      BY DEF HistoryInit
    <2>2. Shown \in Picture
      BY <2>1 DEF Shown, Picture
    <2> QED
      BY <2>1, <2>2 DEF History!Init
  <1>2. HistoryInv /\ [HistoryNext]_historyVars => [History!Next]_(History!vars)
    BY EveryStep DEF Kept, Mapped
  <1> QED
    BY HistoryInvariance, <1>1, <1>2, PTL DEF HistorySpec, GesturesAreUndoSteps, History!Spec

(* ChangesAreNoted: whatever a call did to a picture, comparing the revision *)
(* before and after it tells, but for an edit a file took and reported as    *)
(* failed; that one leaves the history and the stroke as they were.          *)
THEOREM ChangesAreNotedCorrect == HistorySpec => ChangesAreNoted
  <1>1. HistoryInv /\ [HistoryNext]_historyVars =>
          [(result' # "none" /\ pictures' # pictures) =>
              \/ revision' > revision
              \/ /\ file = "open" /\ result' = "failed"
                 /\ UNCHANGED <<undo, redo, active, changed>>]_historyVars
    BY EveryStep DEF Kept, Noted
  <1> QED
    BY HistoryInvariance, <1>1, PTL DEF HistorySpec, ChangesAreNoted

-----------------------------------------------------------------------------
(* No picture stands twice in a row in the line from the oldest undo to the  *)
(* farthest redo.  LinearHistory keeps it so, and every step is one of its.  *)

Alternates(s) == \A i \in 1 .. Len(s) - 1 : s[i] # s[i + 1]

Past == IF active THEN Front(undo) ELSE undo
Now == IF active THEN Last(undo) ELSE Shown

(* Both ways from the picture each step leads to another one.                *)
LineInv == sole => Alternates(Append(Past, Now)) /\ Alternates(Append(redo, Now))

(* A sequence alternates that is lengthened by another picture, and only so. *)
LEMMA AlternatesAppend ==
    ASSUME NEW S, NEW s \in Seq(S), NEW e \in S
    PROVE  Alternates(Append(s, e)) <=> Alternates(s) /\ (s # <<>> => Last(s) # e)
  <1> DEFINE t == Append(s, e)
             n == Len(s)
  <1>1. n \in Nat /\ Len(t) = n + 1 /\ t[n + 1] = e /\ \A i \in 1 .. n : t[i] = s[i]
    BY AppendProperties, LenProperties
  <1>2. s # <<>> <=> n > 0
    BY <1>1, EmptySeq
  <1>3. s # <<>> => Last(s) = s[n]
    BY DEF Last
  <1> HIDE DEF t, n
  <1>4. ASSUME Alternates(t) PROVE Alternates(s) /\ (s # <<>> => Last(s) # e)
    <2>1. \A i \in 1 .. n : t[i] # t[i + 1]
      BY <1>1, <1>4 DEF Alternates
    <2>2. \A i \in 1 .. n - 1 : s[i] # s[i + 1]
      <3> SUFFICES ASSUME NEW i \in 1 .. n - 1 PROVE s[i] # s[i + 1]
        OBVIOUS
      <3>1. i \in 1 .. n /\ i + 1 \in 1 .. n
        BY <1>1
      <3> QED
        BY <1>1, <2>1, <3>1
    <2>3. s # <<>> => s[n] # e
      <3> SUFFICES ASSUME s # <<>> PROVE s[n] # e
        OBVIOUS
      <3>1. n \in 1 .. n
        BY <1>1, <1>2
      <3> QED
        BY <1>1, <2>1, <3>1
    <2> QED
      BY <1>3, <2>2, <2>3 DEF Alternates, n
  <1>5. ASSUME Alternates(s), s # <<>> => Last(s) # e PROVE Alternates(t)
    <2> SUFFICES ASSUME NEW i \in 1 .. n PROVE t[i] # t[i + 1]
      BY <1>1 DEF Alternates
    <2>1. CASE i = n
      BY <1>1, <1>2, <1>3, <1>5, <2>1
    <2>2. CASE i # n
      <3>1. i \in 1 .. n - 1 /\ i + 1 \in 1 .. n
        BY <1>1, <2>2
      <3>2. s[i] # s[i + 1]
        BY <1>5, <3>1 DEF Alternates, n
      <3> QED
        BY <1>1, <3>1, <3>2
    <2> QED
      BY <2>1, <2>2
  <1> QED
    BY <1>4, <1>5 DEF t

(* So does one without its first picture.                                    *)
LEMMA AlternatesTail ==
    ASSUME NEW S, NEW s \in Seq(S), s # <<>>, Alternates(s)
    PROVE  /\ Tail(s) \in Seq(S) /\ Alternates(Tail(s))
           /\ Tail(s) # <<>> => Last(Tail(s)) = Last(s)
  <1> DEFINE t == Tail(s)
             n == Len(s)
  <1>1. /\ n \in Nat \ {0} /\ t \in Seq(S) /\ Len(t) = n - 1
        /\ \A i \in 1 .. n - 1 : t[i] = s[i + 1]
    BY HeadTailProperties, EmptySeq
  <1>2. t # <<>> => n - 1 > 0 /\ Last(t) = t[n - 1]
    BY <1>1, EmptySeq DEF Last
  <1>3. Last(s) = s[n]
    BY DEF Last
  <1> HIDE DEF t, n
  <1>4. Alternates(t)
    <2> SUFFICES ASSUME NEW i \in 1 .. n - 2 PROVE t[i] # t[i + 1]
      BY <1>1 DEF Alternates
    <2>1. i \in 1 .. n - 1 /\ i + 1 \in 1 .. n - 1
      BY <1>1
    <2>2. s[i + 1] # s[i + 1 + 1]
      BY <2>1 DEF Alternates, n
    <2> QED
      BY <1>1, <2>1, <2>2
  <1>5. t # <<>> => Last(t) = Last(s)
    <2> SUFFICES ASSUME t # <<>> PROVE Last(t) = Last(s)
      OBVIOUS
    <2>1. n - 1 \in 1 .. n - 1 /\ n - 1 + 1 = n
      BY <1>1, <1>2
    <2> QED
      BY <1>1, <1>2, <1>3, <2>1
  <1> QED
    BY <1>1, <1>4, <1>5 DEF t

(* One that alternates up to its last element does so before it.             *)
LEMMA AlternatesFront ==
    ASSUME NEW S, NEW s \in Seq(S), s # <<>>, Alternates(s)
    PROVE  Alternates(Append(Front(s), Last(s)))
  BY AppendOfFront

(* Leaving out the oldest picture of a full past changes nothing to that.    *)
LEMMA AlternatesNewest ==
    ASSUME NEW S, NEW s \in Seq(S), NEW e \in S, Alternates(Append(s, e)), NEW f \in S, e # f
    PROVE  Alternates(Append(History!Newest(Append(s, e)), f))
  <1> DEFINE t == Append(s, e)
  <1>1. t \in Seq(S) /\ t # <<>> /\ Last(t) = e
    BY FrontOfAppend
  <1>2. CASE History!Newest(t) = t
    BY <1>1, <1>2, AlternatesAppend
  <1>3. CASE History!Newest(t) = Tail(t)
    <2>1. Tail(t) \in Seq(S) /\ Alternates(Tail(t)) /\ (Tail(t) # <<>> => Last(Tail(t)) = e)
      BY <1>1, AlternatesTail
    <2>2. Alternates(Append(Tail(t), f))
      BY <2>1, AlternatesAppend
    <2> QED
      BY <1>3, <2>2
  <1> QED
    BY <1>2, <1>3 DEF History!Newest

(* What the invariant says of the line's parts.                              *)
LEMMA LineType ==
    ASSUME HistoryTypeOK
    PROVE  Past \in Seq(Picture) /\ redo \in Seq(Picture) /\ Now \in Picture
  <1>1. undo \in Seq(Content) /\ redo \in Seq(Content) /\ Content \subseteq Picture
    BY DEF HistoryTypeOK, Picture
  <1>2. CASE active
    <2>1. Last(undo) \in Content /\ Front(undo) \in Seq(Content)
      BY <1>2, SnapshotTaken
    <2> QED
      BY <1>1, <1>2, <2>1, SeqMonotonic DEF Past, Now
  <1>3. CASE ~active
    BY <1>1, <1>3, ShownType, SeqMonotonic DEF Past, Now
  <1> QED
    BY <1>2, <1>3

(* A history with nothing in it alternates.                                  *)
LEMMA LineOfOne ==
    ASSUME Past = <<>>, redo = <<>>
    PROVE  LineInv
  BY DEF LineInv, Alternates

(* Each step of LinearHistory keeps the line.                                *)
LEMMA LineStep == ASSUME HistoryTypeOK, HistoryTypeOK', LineInv, Mapped PROVE LineInv'
  <1>1. /\ Past \in Seq(Picture) /\ redo \in Seq(Picture) /\ Now \in Picture
    BY LineType
  <1>2. /\ Past' \in Seq(Picture) /\ redo' \in Seq(Picture) /\ Now' \in Picture
    <2>1. undo' \in Seq(Content) /\ redo' \in Seq(Content) /\ Content \subseteq Picture
      BY DEF HistoryTypeOK, Picture
    <2>2. CASE active'
      <3>1. undo' # <<>>
        BY <2>2 DEF HistoryTypeOK
      <3>2. Last(undo') \in Content /\ Front(undo') \in Seq(Content)
        BY <2>1, <3>1, FrontProperties
      <3> QED
        BY <2>1, <2>2, <3>2, SeqMonotonic DEF Past, Now
    <2>3. CASE ~active'
      <3>1. Shown' \in Picture
        BY DEF HistoryTypeOK, Shown, Picture
      <3> QED
        BY <2>1, <2>3, <3>1, SeqMonotonic DEF Past, Now
    <2> QED
      BY <2>2, <2>3
  <1> SUFFICES ASSUME sole'
               PROVE  Alternates(Append(Past', Now')) /\ Alternates(Append(redo', Now'))
    BY DEF LineInv
  <1>3. CASE UNCHANGED History!vars
    <2>1. Past' = Past /\ Now' = Now /\ redo' = redo /\ (~sole)' = ~sole
      BY <1>3 DEF History!vars, Past, Now
    <2> QED
      BY <2>1 DEF LineInv
  <1>4. CASE History!Change
    <2>1. /\ Past' = History!Newest(Append(Past, Now)) /\ Now' # Now
          /\ redo' = <<>> /\ (~sole)' = ~sole
      BY <1>4 DEF History!Change, Past, Now
    <2>2. Alternates(Append(Past, Now))
      BY <2>1 DEF LineInv
    <2>3. Alternates(Append(Past', Now'))
      BY <1>1, <1>2, <2>1, <2>2, AlternatesNewest
    <2>4. Alternates(Append(redo', Now'))
      BY <2>1 DEF Alternates
    <2> QED
      BY <2>3, <2>4
  <1>5. CASE History!Undo
    <2>1. /\ Past # <<>> /\ Now' = Last(Past) /\ Past' = Front(Past)
          /\ redo' = Append(redo, Now) /\ (~sole)' = ~sole
      BY <1>5, SameEnds DEF History!Undo, Past, Now
    <2>2. Alternates(Append(Past, Now)) /\ Alternates(Append(redo, Now))
      BY <2>1 DEF LineInv
    <2>3. Alternates(Past) /\ Last(Past) # Now
      BY <1>1, <2>1, <2>2, AlternatesAppend
    <2>4. Alternates(Append(Past', Now'))
      BY <1>1, <2>1, <2>3, AlternatesFront
    <2>5. redo' # <<>> /\ Last(redo') = Now
      BY <1>1, <2>1, FrontOfAppend
    <2>6. Alternates(Append(redo', Now'))
      BY <1>2, <2>1, <2>2, <2>3, <2>5, AlternatesAppend
    <2> QED
      BY <2>4, <2>6
  <1>6. CASE History!Redo
    <2>1. /\ redo # <<>> /\ Now' = Last(redo) /\ redo' = Front(redo)
          /\ Past' = History!Newest(Append(Past, Now)) /\ (~sole)' = ~sole
      BY <1>6, SameEnds DEF History!Redo, Past, Now
    <2>2. Alternates(Append(Past, Now)) /\ Alternates(Append(redo, Now))
      BY <2>1 DEF LineInv
    <2>3. Alternates(redo) /\ Last(redo) # Now
      BY <1>1, <2>1, <2>2, AlternatesAppend
    <2>4. Alternates(Append(Past', Now'))
      BY <1>1, <1>2, <2>1, <2>2, <2>3, AlternatesNewest
    <2>5. Alternates(Append(redo', Now'))
      BY <1>1, <2>1, <2>3, AlternatesFront
    <2> QED
      BY <2>4, <2>5
  <1>7. CASE History!Forget
    <2>1. /\ Len(Past) = HistoryLimit /\ Past' = Tail(Past) /\ Now' = Now
          /\ redo' = redo /\ (~sole)' = ~sole
      BY <1>7 DEF History!Forget, Past, Now
    <2>2. Alternates(Append(Past, Now)) /\ Alternates(Append(redo, Now))
      BY <2>1 DEF LineInv
    <2>3. Past # <<>>
      BY <1>1, <2>1, HistoryAssumption, EmptySeq
    <2>4. Alternates(Past) /\ Last(Past) # Now
      BY <1>1, <2>2, <2>3, AlternatesAppend
    <2>5. /\ Tail(Past) \in Seq(Picture) /\ Alternates(Tail(Past))
          /\ Tail(Past) # <<>> => Last(Tail(Past)) = Last(Past)
      BY <1>1, <2>3, <2>4, AlternatesTail
    <2>6. Alternates(Append(Past', Now'))
      BY <1>1, <2>1, <2>4, <2>5, AlternatesAppend
    <2> QED
      BY <2>1, <2>2, <2>6
  <1>8. CASE History!Overwrite \/ History!Join
    <2>1. (~sole)' = TRUE
      <3>1. HistoryTypeOK
        OBVIOUS
      <3> QED
        BY <1>8 DEF History!Overwrite, History!Join, HistoryTypeOK
    <2> QED
      BY <2>1
  <1>9. CASE History!Restart
    <2>1. Past' = <<>> /\ redo' = <<>>
      BY <1>9 DEF History!Restart, Past
    <2> QED
      BY <2>1 DEF Alternates
  <1> QED
    BY <1>3, <1>4, <1>5, <1>6, <1>7, <1>8, <1>9 DEF Mapped, History!Next

(* A line that alternates both ways shows another picture at every step.     *)
LEMMA LineShows == ASSUME HistoryTypeOK, LineInv PROVE EveryStepShows
  <1> DEFINE front == Append(Past, Now)
             line == (IF active THEN undo ELSE Append(undo, Shown)) \o Reverse(redo)
             m == Len(front)
             n == Len(redo)
  <1>1. Past \in Seq(Picture) /\ redo \in Seq(Picture) /\ Now \in Picture
    BY LineType
  <1>2. line = front \o Reverse(redo)
    BY SnapshotTaken DEF Past, Now
  <1>3. n \in Nat /\ Reverse(redo) \in Seq(Picture) /\ Len(Reverse(redo)) = n
        /\ \A i \in 1 .. n : Reverse(redo)[i] = redo[n - i + 1]
    <2>1. n \in Nat /\ \A i \in 1 .. n : redo[n - i + 1] \in Picture
      BY <1>1, LenProperties
    <2>2. Reverse(redo) = [i \in 1 .. n |-> redo[(n - i) + 1]]
      BY DEF Reverse
    <2> QED
      BY <2>1, <2>2
  <1>4. front \in Seq(Picture) /\ m \in Nat \ {0} /\ Last(front) = Now /\ front[m] = Now
    <2>1. front \in Seq(Picture) /\ front # <<>> /\ Last(front) = Now
      BY <1>1, FrontOfAppend
    <2> QED
      BY <2>1, EmptySeq DEF Last
  <1>5. (sole => \A i \in 1 .. Len(line) - 1 : line[i] # line[i + 1]) => EveryStepShows
    BY DEF EveryStepShows
  <1> HIDE DEF front, line
  <1>6. /\ Len(line) = m + n
        /\ \A i \in 1 .. m + n :
               line[i] = IF i <= m THEN front[i] ELSE Reverse(redo)[i - m]
    <2> DEFINE back == Reverse(redo)
    <2>1. back \in Seq(Picture) /\ Len(back) = n /\ line = front \o back
      BY <1>2, <1>3
    <2> HIDE DEF back
    <2>2. /\ Len(front \o back) = Len(front) + Len(back)
          /\ \A i \in 1 .. Len(front) + Len(back) :
                 (front \o back)[i] = IF i <= Len(front) THEN front[i] ELSE back[i - Len(front)]
      BY <1>4, <2>1, ConcatProperties
    <2> QED
      BY <2>1, <2>2 DEF back
  <1>7. \A i \in 1 .. m : line[i] = front[i]
    BY <1>3, <1>4, <1>6
  <1>8. \A k \in 1 .. n : line[m + k] = redo[n - k + 1]
    <2> SUFFICES ASSUME NEW k \in 1 .. n PROVE line[m + k] = redo[n - k + 1]
      OBVIOUS
    <2>1. m + k \in 1 .. m + n /\ ~(m + k <= m) /\ m + k - m = k
      BY <1>3, <1>4
    <2> QED
      BY <1>3, <1>6, <2>1
  <1> SUFFICES ASSUME sole, NEW i \in 1 .. m + n - 1 PROVE line[i] # line[i + 1]
    BY <1>5, <1>6
  <1>9. Alternates(front) /\ Alternates(redo) /\ (redo # <<>> => Last(redo) # Now)
    BY <1>1, AlternatesAppend DEF LineInv, front
  <1>10. CASE i < m
    <2>1. i \in 1 .. m - 1 /\ i \in 1 .. m /\ i + 1 \in 1 .. m
      BY <1>4, <1>10
    <2> QED
      BY <1>7, <1>9, <2>1 DEF Alternates
  <1>11. CASE i = m
    <2>1. n > 0 /\ 1 \in 1 .. n /\ n - 1 + 1 = n /\ m \in 1 .. m
      BY <1>3, <1>4, <1>11
    <2>2. line[i] = Now /\ line[i + 1] = redo[n]
      BY <1>4, <1>7, <1>8, <1>11, <2>1
    <2>3. redo # <<>> /\ Last(redo) = redo[n]
      BY <1>1, <2>1, EmptySeq DEF Last
    <2> QED
      BY <1>9, <2>2, <2>3
  <1>12. CASE i > m
    <2> DEFINE k == i - m
               j == n - k
    <2>1. k \in 1 .. n /\ k + 1 \in 1 .. n /\ j \in 1 .. n - 1
      BY <1>3, <1>4, <1>12
    <2>2. i = m + k /\ i + 1 = m + (k + 1) /\ n - k + 1 = j + 1 /\ n - (k + 1) + 1 = j
      BY <1>3, <1>4
    <2> HIDE DEF k, j
    <2>3. line[i] = redo[j + 1] /\ line[i + 1] = redo[j]
      BY <1>8, <2>1, <2>2
    <2>4. redo[j] # redo[j + 1]
      BY <1>9, <2>1 DEF Alternates
    <2> QED
      BY <2>3, <2>4
  <1> QED
    BY <1>4, <1>10, <1>11, <1>12

(* EveryStepShows: as long as nobody else changes the asset, no undo and no  *)
(* redo that is offered leaves the picture as it is, for any limit.          *)
THEOREM EveryStepShowsCorrect == HistorySpec => []EveryStepShows
  <1>1. HistoryInit => LineInv
    <2> SUFFICES ASSUME HistoryInit PROVE LineInv
      OBVIOUS
    <2> QED
      BY LineOfOne DEF HistoryInit, Past
  <1>2. HistoryInv /\ LineInv /\ [HistoryNext]_historyVars => LineInv'
    BY EveryStep, LineStep DEF Kept, HistoryInv
  <1>3. HistoryInv /\ LineInv => EveryStepShows
    BY LineShows DEF HistoryInv
  <1> QED
    BY <1>1, <1>2, <1>3, HistoryInvariance, PTL DEF HistorySpec

-----------------------------------------------------------------------------

(* The editor is bound exactly while a layer is selected, to what that layer *)
(* shows at the current frame.                                               *)
SelectionInv ==
    /\ binding \in {"memory", "file"} /\ attached \in BOOLEAN
    /\ selected \in Layer \union {NoLayer} /\ frame \in Frame
    /\ selected = NoLayer <=> target = NoAsset
    /\ EditsWhatIsShown

(* Undo and redo move counts between the lists, so that it is enough that    *)
(* one of them checks the limit.                                             *)
CountsInv ==
    /\ strokeCount \in Nat /\ startCount \in Nat /\ startRevision \in 0 .. MaxRevision
    /\ undoCounts \in Seq(Nat) /\ redoCounts \in Seq(Nat)
    /\ Len(undoCounts) + Len(redoCounts) <= HistoryLimit

Seek == [kind : {"seek"}, to : Frame, from : Frame, moved : BOOLEAN]

SignalsInv ==
    /\ spareError \in BOOLEAN /\ rendered \in BOOLEAN
    /\ seek = NoSeek \/ seek \in Seek

EditInv == HistoryInv /\ SelectionInv /\ CountsInv /\ SignalsInv

EditKept == Kept /\ SelectionInv' /\ CountsInv' /\ SignalsInv'

LEMMA EditInvInit == Init => EditInv
  <1> SUFFICES ASSUME Init PROVE EditInv
    OBVIOUS
  <1>1. HistoryInv
    BY HistoryInvInit DEF Init
  <1>2. 0 \in 0 .. MaxRevision /\ HistoryLimit \in Nat /\ 0 \in Frame
    BY HistoryAssumption, CanvasAssumption
  <1>3. SelectionInv
    BY <1>2 DEF Init, HistoryInit, SelectionInv, EditsWhatIsShown
  <1>4. CountsInv
    <2>1. <<>> \in Seq(Nat) /\ Len(<<>>) = 0
      OBVIOUS
    <2> QED
      BY <1>2, <2>1 DEF Init, CountsInv
  <1>5. SignalsInv
    BY DEF Init, SignalsInv
  <1> QED
    BY <1>1, <1>3, <1>4, <1>5 DEF EditInv

-----------------------------------------------------------------------------
(* What the shared steps do                                                  *)

LEMMA RendersFacts ==
    ASSUME SignalsInv, NEW really \in BOOLEAN, Renders(really)
    PROVE  rendered' \in BOOLEAN /\ (seek' = NoSeek \/ seek' \in Seek)
  BY DEF SignalsInv, Renders, Seek

LEMMA ResetFacts == ASSUME ResetEditState PROVE CountsInv'
  <1>1. <<>> \in Seq(Nat) /\ Len(<<>>) = 0 /\ 0 \in 0 .. MaxRevision /\ HistoryLimit \in Nat
    BY HistoryAssumption
  <1> QED
    BY <1>1 DEF ResetEditState, CountsInv

LEMMA RecordFacts ==
    ASSUME CountsInv, NEW n \in Nat, RecordCountHistory(n)
    PROVE  /\ undoCounts' \in Seq(Nat) /\ redoCounts' \in Seq(Nat)
           /\ Len(undoCounts') + Len(redoCounts') <= HistoryLimit
  <1>1. /\ undoCounts \in Seq(Nat) /\ Len(undoCounts) \in Nat /\ Len(undoCounts) <= HistoryLimit
        /\ HistoryLimit \in Nat
    <2>1. Len(undoCounts) \in Nat /\ Len(redoCounts) \in Nat
      BY DEF CountsInv
    <2> QED
      BY <2>1, HistoryAssumption DEF CountsInv
  <1> DEFINE longer == Append(undoCounts, n)
  <1>2. /\ longer \in Seq(Nat) /\ Len(longer) = Len(undoCounts) + 1 /\ longer # <<>>
        /\ Tail(longer) \in Seq(Nat) /\ Len(Tail(longer)) = Len(undoCounts)
    BY <1>1
  <1>3. /\ undoCounts' = IF Len(longer) > HistoryLimit THEN Tail(longer) ELSE longer
        /\ redoCounts' = <<>>
    BY DEF RecordCountHistory
  <1>4. undoCounts' \in Seq(Nat) /\ Len(undoCounts') <= HistoryLimit
    BY <1>1, <1>2, <1>3
  <1>5. redoCounts' \in Seq(Nat) /\ Len(redoCounts') = 0
    BY <1>3
  <1>6. Len(undoCounts') \in Nat
    BY <1>4
  <1> QED
    BY <1>4, <1>5, <1>6

LEMMA KeepEditorsFacts ==
    ASSUME EditInv, KeepEditors
    PROVE  Kept /\ CountsInv' /\ spareError' \in BOOLEAN /\ target' = target
  <1>1. UNCHANGED <<pictures, editorVars>> /\ target' = target
          /\ file' \in {"none", "open", "lost"} /\ error' \in BOOLEAN /\ result' = "none"
    BY DEF KeepEditors, documentVars, editorVars, EditInv, HistoryInv, HistoryTypeOK
  <1>2. Kept
    BY <1>1, StaysPut DEF EditInv
  <1> QED
    BY <1>1, <1>2 DEF KeepEditors, countVars, CountsInv, SignalsInv, EditInv

LEMMA ClearSelectionFacts ==
    ASSUME EditInv, ClearSelection, binding' \in {"memory", "file"}, attached' \in BOOLEAN,
           frame' \in Frame
    PROVE  Kept /\ SelectionInv' /\ CountsInv' /\ spareError' \in BOOLEAN
  <1>1. Unbind /\ ResetEditState /\ spareError' = FALSE /\ selected' = NoLayer
    BY DEF ClearSelection, UnbindEditors
  <1>2. Kept /\ CountsInv'
    BY <1>1, UnbindStep, ResetFacts DEF EditInv
  <1>3. SelectionInv'
    BY <1>1 DEF Unbind, SelectionInv, EditsWhatIsShown
  <1> QED
    BY <1>1, <1>2, <1>3

LEMMA BindEditorFacts ==
    ASSUME EditInv, NEW a \in Asset, pictures[a] # Gone, BindEditor(a)
    PROVE  Kept /\ CountsInv' /\ spareError' \in BOOLEAN /\ target' = a
  <1>1. Bind(a, EditorFile) /\ ResetEditState /\ spareError' = FALSE
          /\ EditorFile \in {"none", "open"}
    BY DEF BindEditor, EditorFile
  <1> QED
    BY <1>1, BindStep, ResetFacts DEF EditInv, Bind

(* Bound anew or not, the editor has what the layer shows at frame f.        *)
LEMMA SyncFacts ==
    ASSUME EditInv, NEW f \in Frame, SyncSelectedLayer(f), UNCHANGED <<binding, attached>>,
           frame' = f
    PROVE  Kept /\ SelectionInv' /\ CountsInv' /\ spareError' \in BOOLEAN
  <1>1. SelectionInv
    BY DEF EditInv
  <1> DEFINE a == Source[selected][f]
  <1>2. CASE selected = NoLayer \/ ~FileBindingValid
    <2>1. UNCHANGED selected /\ KeepEditors
      BY <1>2 DEF SyncSelectedLayer
    <2> QED
      BY <1>1, <1>2, <2>1, KeepEditorsFacts DEF SelectionInv, EditsWhatIsShown, FileBindingValid
  <1>3. CASE selected # NoLayer /\ FileBindingValid
    <2>1. selected \in Layer /\ a \in Asset /\ NoAsset \notin Asset
      BY <1>1, <1>3, CanvasAssumption, HistoryAssumption DEF SelectionInv
    <2>2. CASE pictures[a] = Gone
      BY <1>1, <1>3, <2>2, ClearSelectionFacts DEF SyncSelectedLayer, SelectionInv
    <2>3. CASE pictures[a] # Gone /\ IsBound /\ target = a
      <3>1. UNCHANGED selected /\ KeepEditors
        BY <1>3, <2>3 DEF SyncSelectedLayer
      <3> QED
        BY <1>1, <2>1, <2>3, <3>1, KeepEditorsFacts
           DEF SelectionInv, EditsWhatIsShown, FileBindingValid
    <2>4. CASE pictures[a] # Gone /\ ~(IsBound /\ target = a)
      <3>1. BindEditor(a) /\ UNCHANGED selected
        BY <1>3, <2>4 DEF SyncSelectedLayer
      <3> QED
        BY <1>1, <1>3, <2>1, <2>4, <3>1, BindEditorFacts DEF SelectionInv, EditsWhatIsShown
    <2> QED
      BY <2>2, <2>3, <2>4
  <1> QED
    BY <1>2, <1>3

(* A call of the editor is a step of its history, and keeps its target.      *)
LEMMA CallFacts ==
    ASSUME EditInv, IsCall
    PROVE  Kept /\ target' = target
  <1>1. HistoryInv /\ HistoryTypeOK
    BY DEF EditInv, HistoryInv
  <1>2. Kept
    <2>1. HistoryNext
      BY DEF IsCall, HistoryNext
    <2> QED
      BY <1>1, <2>1, EveryStep
  <1>3. target' = target
    <2>1. CASE IsStep
      BY <2>1 DEF IsStep, DirectEdit, BeginStroke, ContinueStroke, EndStroke, CancelStroke,
         Undo, Redo, Fails, editorVars
    <2>2. CASE Fails \/ Detached \/ \E painted \in SUBSET Content : Unreported(painted)
      BY <2>2 DEF Fails, Detached, Unreported, editorVars
    <2> QED
      BY <1>1, <2>1, <2>2, CallSteps
  <1> QED
    BY <1>2, <1>3

(* A step that leaves the place alone keeps what is said of it.              *)
LEMMA SamePlace ==
    ASSUME SelectionInv, StaysInPlace \/ UNCHANGED placeVars, target' = target
    PROVE  SelectionInv'
  <1>1. /\ binding' = binding /\ selected' = selected /\ frame' = frame
        /\ attached' \in BOOLEAN /\ (attached' => attached)
    <2>1. CASE StaysInPlace
      <3>1. attached' = (attached /\ file' # "lost")
        BY <2>1 DEF StaysInPlace, FileStays
      <3>2. attached' \in BOOLEAN /\ (attached' => attached)
        BY <3>1, Zenon
      <3> QED
        BY <2>1, <3>2 DEF StaysInPlace
    <2>2. CASE UNCHANGED placeVars
      BY <2>2 DEF SelectionInv, placeVars
    <2> QED
      BY <2>1, <2>2
  <1>2. FileBindingValid' => FileBindingValid
    BY <1>1 DEF FileBindingValid
  <1>3. (selected' # NoLayer /\ FileBindingValid') => target' = Source[selected'][frame']
    BY <1>1, <1>2 DEF SelectionInv, EditsWhatIsShown
  <1>4. /\ binding' \in {"memory", "file"}
        /\ selected' \in Layer \union {NoLayer} /\ frame' \in Frame
        /\ (selected' = NoLayer <=> target' = NoAsset)
    BY <1>1 DEF SelectionInv
  <1> QED
    BY <1>1, <1>3, <1>4 DEF SelectionInv, EditsWhatIsShown

LEMMA CancelFacts ==
    ASSUME EditInv, CancelStrokeOn, FileStays, UNCHANGED <<binding, frame>>
    PROVE  Kept /\ SelectionInv' /\ CountsInv' /\ spareError' \in BOOLEAN /\ rendered' \in BOOLEAN
  <1>1. SelectionInv /\ CountsInv /\ SignalsInv
    BY DEF EditInv
  <1>2. CASE CallCancelStroke /\ UNCHANGED <<selected, countVars, spareError>> /\ rendered' \in BOOLEAN
    <2>1. Kept /\ target' = target
      BY <1>2, CallFacts DEF IsCall
    <2>2. SelectionInv'
      BY <1>1, <1>2, <2>1, SamePlace DEF StaysInPlace
    <2> QED
      BY <1>1, <1>2, <2>1, <2>2 DEF CountsInv, SignalsInv, countVars
  <1>3. CASE ClearSelection /\ rendered' = TRUE
    BY <1>1, <1>3, ClearSelectionFacts DEF SelectionInv, FileStays
  <1> QED
    BY <1>2, <1>3 DEF CancelStrokeOn

-----------------------------------------------------------------------------
(* Selection and frames                                                      *)

LEMMA BindDocumentStep ==
    ASSUME EditInv, NEW b \in {"memory", "file"}, BindDocument(b) PROVE EditKept
  <1>1. /\ ClearSelection /\ Renders(TRUE) /\ SignalsInv
        /\ binding' \in {"memory", "file"} /\ attached' \in BOOLEAN /\ frame' \in Frame
    BY CanvasAssumption DEF BindDocument, EditInv
  <1> QED
    BY <1>1, ClearSelectionFacts, RendersFacts DEF EditKept, SignalsInv

LEMMA SelectLayerStep == ASSUME EditInv, NEW l \in Layer, SelectLayer(l) PROVE EditKept
  <1> DEFINE a == Source[l][frame]
  <1>1. SelectionInv /\ SignalsInv
    BY DEF EditInv
  <1>2. a \in Asset /\ NoAsset \notin Asset /\ l # NoLayer
    BY <1>1, CanvasAssumption, HistoryAssumption DEF SelectionInv
  <1>3. /\ pictures[a] # Gone /\ selected' = l /\ UNCHANGED <<binding, attached, frame>>
        /\ IF IsBound /\ target = a THEN KeepEditors ELSE BindEditor(a)
        /\ Renders(FALSE)
    BY DEF SelectLayer, Quiet
  <1>4. Kept /\ CountsInv' /\ spareError' \in BOOLEAN /\ target' = a
    BY <1>2, <1>3, KeepEditorsFacts, BindEditorFacts
  <1>5. SelectionInv'
    BY <1>1, <1>2, <1>3, <1>4 DEF SelectionInv, EditsWhatIsShown
  <1> QED
    BY <1>1, <1>3, <1>4, <1>5, RendersFacts DEF EditKept, SignalsInv

LEMMA DeselectStep == ASSUME EditInv, Deselect PROVE EditKept
  <1>1. /\ ClearSelection /\ Renders(FALSE) /\ SignalsInv
        /\ binding' \in {"memory", "file"} /\ attached' \in BOOLEAN /\ frame' \in Frame
    BY DEF Deselect, Quiet, EditInv, SelectionInv
  <1> QED
    BY <1>1, ClearSelectionFacts, RendersFacts DEF EditKept, SignalsInv

LEMMA RefreshStep == ASSUME EditInv, Refresh PROVE EditKept
  <1>1. SignalsInv /\ frame \in Frame
    BY DEF EditInv, SelectionInv
  <1>2. Kept /\ SelectionInv' /\ CountsInv' /\ spareError' \in BOOLEAN
    BY <1>1, SyncFacts DEF Refresh
  <1>3. rendered' \in BOOLEAN /\ (seek' = NoSeek \/ seek' \in Seek)
    BY <1>1, RendersFacts DEF Refresh, SignalsInv, Seek
  <1> QED
    BY <1>2, <1>3 DEF EditKept, SignalsInv

LEMMA CancelStep == ASSUME EditInv, Cancel PROVE EditKept
  <1>1. SignalsInv
    BY DEF EditInv
  <1>2. CancelStrokeOn /\ FileStays /\ UNCHANGED <<binding, frame>>
    BY DEF Cancel
  <1>3. seek' = NoSeek \/ seek' \in Seek
    BY <1>1 DEF Cancel, SignalsInv, Seek
  <1> QED
    BY <1>2, <1>3, CancelFacts DEF EditKept, SignalsInv

LEMMA SetFrameStep == ASSUME EditInv, NEW f \in Frame, SetFrame(f) PROVE EditKept
  <1>1. SignalsInv /\ frame \in Frame
    BY DEF EditInv, SelectionInv
  <1>2. CASE ActiveEditorStrokeActive
    <2>1. CancelStrokeOn /\ FileStays /\ UNCHANGED <<binding, frame>>
            /\ seek' = IF rendered' THEN SeekTo(f) ELSE NoSeek
      BY <1>2 DEF SetFrame
    <2>2. seek' = NoSeek \/ seek' \in Seek
      BY <1>1, <2>1 DEF SeekTo, Seek
    <2> QED
      BY <2>1, <2>2, CancelFacts DEF EditKept, SignalsInv
  <1>3. CASE ~ActiveEditorStrokeActive
    <2>1. frame' = f /\ SyncSelectedLayer(f) /\ UNCHANGED <<binding, attached>> /\ Renders(TRUE)
      BY <1>3 DEF SetFrame
    <2> QED
      BY <1>1, <2>1, SyncFacts, RendersFacts DEF EditKept, SignalsInv
  <1> QED
    BY <1>2, <1>3

LEMMA ResumeSeekStep == ASSUME EditInv, ResumeSeek PROVE EditKept
  <1>1. SelectionInv /\ SignalsInv /\ seek \in Seek /\ seek' = NoSeek
          /\ UNCHANGED <<binding, attached>>
    BY DEF EditInv, SignalsInv, ResumeSeek
  <1>2. CASE SeekStands
    <2>1. frame' = seek.to /\ SyncSelectedLayer(seek.to) /\ rendered' = TRUE /\ seek.to \in Frame
      BY <1>1, <1>2 DEF ResumeSeek, Seek
    <2> QED
      BY <1>1, <2>1, SyncFacts DEF EditKept, SignalsInv
  <1>3. CASE ~SeekStands
    <2>1. UNCHANGED <<frame, selected>> /\ KeepEditors /\ rendered' = FALSE
      BY <1>3 DEF ResumeSeek
    <2>2. Kept /\ CountsInv' /\ spareError' \in BOOLEAN /\ target' = target
      BY <2>1, KeepEditorsFacts
    <2>3. SelectionInv'
      BY <1>1, <2>1, <2>2, SamePlace DEF placeVars
    <2> QED
      BY <1>1, <2>1, <2>2, <2>3 DEF EditKept, SignalsInv
  <1> QED
    BY <1>2, <1>3

-----------------------------------------------------------------------------
(* Edits                                                                     *)

(* A call on the selected layer keeps EditInv if it keeps the counts.        *)
LEMMA CallOnSelection ==
    ASSUME EditInv, IsCall, StaysInPlace, CountsInv', spareError' \in BOOLEAN, FinishEdit
    PROVE  EditKept
  <1>1. Kept /\ target' = target
    BY CallFacts
  <1>2. SelectionInv'
    BY <1>1, SamePlace DEF EditInv
  <1>3. rendered' \in BOOLEAN /\ (seek' = NoSeek \/ seek' \in Seek)
    BY RendersFacts DEF EditInv, FinishEdit
  <1> QED
    BY <1>1, <1>2, <1>3 DEF EditKept, SignalsInv

(* So does a call that reaches no editor.                                    *)
LEMMA CallOnNothing ==
    ASSUME EditInv, UNCHANGED <<documentVars, editorVars>>, error' \in BOOLEAN,
           StaysInPlace \/ UNCHANGED placeVars,
           result' \in {"none", "ok", "failed"}, CountsInv', spareError' \in BOOLEAN,
           rendered' \in BOOLEAN, seek' = NoSeek \/ seek' \in Seek
    PROVE  EditKept
  <1>1. UNCHANGED <<pictures, editorVars>> /\ target' = target /\ file' \in {"none", "open", "lost"}
    BY DEF documentVars, editorVars, EditInv, HistoryInv, HistoryTypeOK
  <1>2. Kept
    BY <1>1, StaysPut DEF EditInv
  <1>3. SelectionInv'
    BY <1>1, SamePlace DEF EditInv
  <1> QED
    BY <1>2, <1>3 DEF EditKept, SignalsInv

LEMMA RouteFacts ==
    ASSUME EditInv, NEW step \in {"edit", "undo", "redo"},
           \/ step = "edit" /\ Route(CallDirectEdit)
           \/ step = "undo" /\ Route(CallUndo)
           \/ step = "redo" /\ Route(CallRedo),
           StaysInPlace, CountsInv', FinishEdit
    PROVE  EditKept
  <1>1. SignalsInv
    BY DEF EditInv
  <1>2. CASE IsCall /\ UNCHANGED spareError
    BY <1>1, <1>2, CallOnSelection DEF SignalsInv
  <1>3. CASE spareError' = TRUE /\ result' = "failed" /\ UNCHANGED <<documentVars, editorVars, error>>
    <2>1. rendered' \in BOOLEAN /\ (seek' = NoSeek \/ seek' \in Seek)
      BY <1>1, RendersFacts DEF FinishEdit
    <2>2. error' \in BOOLEAN
      BY <1>3 DEF EditInv, HistoryInv, HistoryTypeOK
    <2> QED
      BY <1>3, <2>1, <2>2, CallOnNothing
  <1> QED
    BY <1>2, <1>3 DEF Route, IsCall

LEMMA StrokeSteps ==
    ASSUME EditInv, BeginStrokeAt \/ ContinueStrokeAt PROVE EditKept
  <1>1. CountsInv /\ SignalsInv /\ revision \in 0 .. MaxRevision
    BY DEF EditInv, HistoryInv, HistoryTypeOK
  <1>2. /\ IsCall /\ StaysInPlace /\ spareError' = spareError /\ FinishEdit
        /\ UNCHANGED <<strokeCount, undoCounts, redoCounts>>
        /\ startRevision' \in {startRevision, revision} /\ startCount' \in {startCount, strokeCount}
    BY DEF BeginStrokeAt, ContinueStrokeAt, IsCall, countVars
  <1>3. CountsInv'
    BY <1>1, <1>2 DEF CountsInv
  <1> QED
    BY <1>1, <1>2, <1>3, CallOnSelection DEF SignalsInv

LEMMA EndStrokeAtStep == ASSUME EditInv, EndStrokeAt PROVE EditKept
  <1>1. CountsInv /\ SignalsInv
    BY DEF EditInv
  <1>2. /\ IsCall /\ StaysInPlace /\ spareError' = spareError /\ FinishEdit
        /\ UNCHANGED <<startCount, startRevision>>
    BY DEF EndStrokeAt, IsCall
  <1>3. CountsInv'
    <2>1. CASE RecordCountHistory(startCount) /\ strokeCount' = strokeCount + 1
      BY <1>1, <1>2, <2>1, RecordFacts DEF CountsInv
    <2>2. CASE UNCHANGED <<strokeCount, undoCounts, redoCounts>>
      BY <1>1, <1>2, <2>2 DEF CountsInv
    <2> QED
      BY <2>1, <2>2 DEF EndStrokeAt
  <1> QED
    BY <1>1, <1>2, <1>3, CallOnSelection DEF SignalsInv

LEMMA EditSelectedStep ==
    ASSUME EditInv, NEW clears \in BOOLEAN, EditSelected(clears) PROVE EditKept
  <1>1. CountsInv
    BY DEF EditInv
  <1>2. Route(CallDirectEdit) /\ StaysInPlace /\ FinishEdit /\ UNCHANGED <<startCount, startRevision>>
    BY DEF EditSelected
  <1>3. CountsInv'
    <2>1. CASE RecordCountHistory(strokeCount) /\ strokeCount' \in {0, strokeCount}
      BY <1>1, <1>2, <2>1, RecordFacts DEF CountsInv
    <2>2. CASE UNCHANGED <<strokeCount, undoCounts, redoCounts>>
      BY <1>1, <1>2, <2>2 DEF CountsInv
    <2> QED
      BY <2>1, <2>2 DEF EditSelected
  <1> QED
    BY <1>2, <1>3, RouteFacts

(* A count moved from the end of one list to the end of the other.           *)
LEMMA MovedCount ==
    ASSUME NEW from \in Seq(Nat), from # <<>>, NEW to \in Seq(Nat), NEW n \in Nat,
           Len(from) + Len(to) <= HistoryLimit
    PROVE  /\ Last(from) \in Nat /\ Front(from) \in Seq(Nat) /\ Append(to, n) \in Seq(Nat)
           /\ Len(Front(from)) + Len(Append(to, n)) <= HistoryLimit
  <1>1. Last(from) \in Nat /\ Front(from) \in Seq(Nat) /\ Len(Front(from)) = Len(from) - 1
    BY FrontProperties
  <1>2. Append(to, n) \in Seq(Nat) /\ Len(Append(to, n)) = Len(to) + 1
    OBVIOUS
  <1>3. Len(from) \in Nat /\ Len(to) \in Nat
    OBVIOUS
  <1> QED
    BY <1>1, <1>2, <1>3

LEMMA UndoSelectedStep == ASSUME EditInv, UndoSelected PROVE EditKept
  <1>1. CountsInv
    BY DEF EditInv
  <1>2. Route(CallUndo) /\ StaysInPlace /\ FinishEdit /\ UNCHANGED <<startCount, startRevision>>
    BY DEF UndoSelected
  <1>3. CountsInv'
    <2>1. CASE undoCounts # <<>> /\ redoCounts' = Append(redoCounts, strokeCount)
               /\ strokeCount' = Last(undoCounts) /\ undoCounts' = Front(undoCounts)
      BY <1>1, <1>2, <2>1, MovedCount DEF CountsInv
    <2>2. CASE UNCHANGED <<strokeCount, undoCounts, redoCounts>>
      BY <1>1, <1>2, <2>2 DEF CountsInv
    <2> QED
      BY <2>1, <2>2 DEF UndoSelected
  <1> QED
    BY <1>2, <1>3, RouteFacts

LEMMA RedoSelectedStep == ASSUME EditInv, RedoSelected PROVE EditKept
  <1>1. CountsInv
    BY DEF EditInv
  <1>2. Route(CallRedo) /\ StaysInPlace /\ FinishEdit /\ UNCHANGED <<startCount, startRevision>>
    BY DEF RedoSelected
  <1>3. CountsInv'
    <2>1. CASE redoCounts # <<>> /\ undoCounts' = Append(undoCounts, strokeCount)
               /\ strokeCount' = Last(redoCounts) /\ redoCounts' = Front(redoCounts)
      <3>1. Len(redoCounts) + Len(undoCounts) <= HistoryLimit
        <4>1. Len(redoCounts) \in Nat /\ Len(undoCounts) \in Nat
          BY <1>1 DEF CountsInv
        <4> QED
          BY <1>1, <4>1 DEF CountsInv
      <3>2. /\ strokeCount' \in Nat /\ redoCounts' \in Seq(Nat) /\ undoCounts' \in Seq(Nat)
            /\ Len(redoCounts') + Len(undoCounts') <= HistoryLimit
        BY <1>1, <2>1, <3>1, MovedCount DEF CountsInv
      <3>3. Len(redoCounts') \in Nat /\ Len(undoCounts') \in Nat
        BY <3>2
      <3> QED
        BY <1>1, <1>2, <3>2, <3>3 DEF CountsInv
    <2>2. CASE UNCHANGED <<strokeCount, undoCounts, redoCounts>>
      BY <1>1, <1>2, <2>2 DEF CountsInv
    <2> QED
      BY <2>1, <2>2 DEF RedoSelected
  <1> QED
    BY <1>2, <1>3, RouteFacts

LEMMA ApplyBrushStep ==
    ASSUME EditInv, NEW valid \in BOOLEAN, ApplyBrush(valid) PROVE EditKept
  <1>1. SignalsInv /\ CountsInv /\ active \in BOOLEAN
    BY DEF EditInv, HistoryInv, HistoryTypeOK
  <1>2. /\ error' \in BOOLEAN /\ spareError' \in BOOLEAN /\ result' \in {"ok", "failed"}
        /\ UNCHANGED <<documentVars, editorVars, placeVars, countVars>> /\ Renders(FALSE)
    BY <1>1 DEF ApplyBrush, Quiet
  <1>3. rendered' \in BOOLEAN /\ (seek' = NoSeek \/ seek' \in Seek)
    BY <1>1, <1>2, RendersFacts
  <1>4. CountsInv'
    BY <1>1, <1>2 DEF CountsInv, countVars
  <1> QED
    BY <1>2, <1>3, <1>4, CallOnNothing

-----------------------------------------------------------------------------
(* What happens around the item                                              *)

LEMMA OthersOverwriteStep ==
    ASSUME EditInv, NEW a \in Asset, OthersOverwrite(a) PROVE EditKept
  <1>1. SelectionInv /\ CountsInv /\ SignalsInv /\ HistoryInv
    BY DEF EditInv
  <1>2. Overwrite(a) /\ UNCHANGED <<placeVars, countVars, spareError>> /\ Renders(FALSE)
    BY DEF OthersOverwrite, Quiet
  <1>3. Kept
    BY <1>1, <1>2, OverwriteStep
  <1>4. target' = target
    BY <1>2 DEF Overwrite
  <1>5. SelectionInv'
    BY <1>1, <1>2, <1>4, SamePlace
  <1> QED
    BY <1>1, <1>2, <1>3, <1>5, RendersFacts DEF EditKept, CountsInv, SignalsInv, countVars

LEMMA FileIsLostStep == ASSUME EditInv, FileIsLost PROVE EditKept
  <1>1. SelectionInv /\ CountsInv /\ SignalsInv /\ HistoryInv /\ HistoryTypeOK
    BY DEF EditInv, HistoryInv
  <1>2. /\ UNCHANGED <<pictures, editorVars, error, selected, frame, countVars, spareError>>
        /\ binding = "file" /\ binding' = binding /\ attached' = FALSE
        /\ file' \in {file, "lost"} /\ result' = "none" /\ Renders(FALSE)
    BY DEF FileIsLost, Quiet
  <1>3. Kept
    BY <1>1, <1>2, StaysPut DEF HistoryTypeOK
  <1>4. SelectionInv'
    BY <1>1, <1>2 DEF SelectionInv, EditsWhatIsShown, FileBindingValid, editorVars
  <1> QED
    BY <1>1, <1>2, <1>3, <1>4, RendersFacts DEF EditKept, CountsInv, SignalsInv, countVars

-----------------------------------------------------------------------------
(* The specification                                                         *)

LEMMA EditStep == EditInv /\ [Next]_vars => EditKept
  <1> SUFFICES ASSUME EditInv, [Next]_vars PROVE EditKept
    OBVIOUS
  <1>1. CASE UNCHANGED vars
    <2>1. UNCHANGED <<documentVars, editorVars, placeVars, error, result, countVars, spareError,
                      rendered, seek>>
      BY <1>1 DEF vars, historyVars, canvasVars
    <2>2. CountsInv'
      BY <2>1 DEF EditInv, CountsInv, countVars
    <2> QED
      BY <2>1, <2>2, CallOnNothing DEF EditInv, SignalsInv, HistoryInv, HistoryTypeOK
  <1>2. CASE Next
    BY <1>2, BindDocumentStep, SelectLayerStep, DeselectStep, RefreshStep, SetFrameStep,
       ResumeSeekStep, StrokeSteps, EndStrokeAtStep, CancelStep, EditSelectedStep,
       UndoSelectedStep, RedoSelectedStep, ApplyBrushStep, OthersOverwriteStep, FileIsLostStep
       DEF Next
  <1> QED
    BY <1>1, <1>2

LEMMA EditInvariance == Spec => []EditInv
  <1>1. EditInv /\ [Next]_vars => EditInv'
    BY EditStep DEF EditKept, Kept, EditInv
  <1> QED
    BY EditInvInit, <1>1, PTL DEF Spec

(* Every variable of the item keeps its type; the two lists of stroke counts *)
(* together stay within the limit of the editor's history, although only one *)
(* of the ways they grow checks it (CanvasItem::recordStrokeCountHistory).   *)
THEOREM TypeCorrect == Spec => []TypeOK
  <1>1. EditInv => TypeOK
    BY DEF EditInv, HistoryInv, SelectionInv, CountsInv, SignalsInv, Seek, TypeOK
  <1> QED
    BY <1>1, EditInvariance, PTL

(* Whatever layers, frames and sources a document has, and however seeks,    *)
(* selections and callbacks follow each other, the editor paints what the    *)
(* selected layer shows (CanvasItem::syncSelectedLayer).                     *)
THEOREM EditsWhatIsShownCorrect == Spec => []EditsWhatIsShown
  <1>1. EditInv => EditsWhatIsShown
    BY DEF EditInv, SelectionInv
  <1> QED
    BY <1>1, EditInvariance, PTL

(* The editors embedded in the item implement LinearHistory under all that   *)
(* the item does with them: binding, seeking, cancelling, routing.           *)
THEOREM ItemKeepsGestures == Spec => GesturesAreUndoSteps
  <1>1. Init => History!Init
    <2> SUFFICES ASSUME Init PROVE History!Init
      OBVIOUS
    <2>1. ~active /\ undo = <<>> /\ redo = <<>> /\ sole /\ target = NoAsset
      BY DEF Init, HistoryInit
    <2>2. Shown \in Picture
      BY <2>1 DEF Shown, Picture
    <2> QED
      BY <2>1, <2>2 DEF History!Init
  <1>2. EditInv /\ [Next]_vars => [History!Next]_(History!vars)
    BY EditStep DEF EditKept, Kept, Mapped
  <1> QED
    BY <1>1, <1>2, EditInvariance, PTL DEF Spec, GesturesAreUndoSteps, History!Spec

(* A seek moves on only when no stroke is under way, whatever the callbacks  *)
(* of the stroke it cancelled did meanwhile (CanvasItem::setFrame).          *)
THEOREM SeeksSettleStrokesCorrect == Spec => SeeksSettleStrokes
  <1>1. [Next]_vars =>
          [(frame' # frame /\ selected' # NoLayer) => ~ActiveEditorStrokeActive]_vars
    <2> SUFFICES ASSUME Next, frame' # frame, selected' # NoLayer PROVE ~ActiveEditorStrokeActive
      OBVIOUS
    <2>1. CASE \E f \in Frame : SetFrame(f)
      BY <2>1 DEF SetFrame
    <2>2. CASE ResumeSeek
      BY <2>2 DEF ResumeSeek, SeekStands
    <2>3. CASE \E b \in {"memory", "file"} : BindDocument(b)
      BY <2>3 DEF BindDocument, ClearSelection
    <2>4. CASE \E a \in Asset : OthersOverwrite(a)
      BY <2>4 DEF OthersOverwrite, placeVars
    <2>5. CASE \/ \E l \in Layer : SelectLayer(l)
               \/ Deselect \/ Refresh \/ Cancel \/ FileIsLost
      BY <2>5 DEF SelectLayer, Deselect, Refresh, Cancel, FileIsLost
    <2>6. CASE \/ BeginStrokeAt \/ ContinueStrokeAt \/ EndStrokeAt
               \/ \E clears \in BOOLEAN : EditSelected(clears)
               \/ UndoSelected \/ RedoSelected
               \/ \E valid \in BOOLEAN : ApplyBrush(valid)
      BY <2>6 DEF BeginStrokeAt, ContinueStrokeAt, EndStrokeAt, EditSelected, UndoSelected,
         RedoSelected, ApplyBrush, StaysInPlace, placeVars
    <2> QED
      BY <2>1, <2>2, <2>3, <2>4, <2>5, <2>6 DEF Next
  <1> QED
    BY <1>1, PTL DEF Spec, SeeksSettleStrokes

(* A call of the editor that changes a picture succeeds, or the file reports *)
(* that it did not.                                                          *)
LEMMA ChangesSucceed ==
    ASSUME HistoryTypeOK, IsCall, pictures' # pictures
    PROVE  result' = "ok" \/ (file = "open" /\ result' = "failed")
  <1>1. ~Fails /\ ~Detached
    BY DEF Fails, Detached, documentVars
  <1>2. CASE DirectEdit
    BY <1>1, <1>2 DEF DirectEdit, Succeeds
  <1>3. CASE BeginStroke \/ ContinueStroke
    BY <1>1, <1>3 DEF BeginStroke, ContinueStroke, Succeeds
  <1>4. CASE EndStroke
    <2>1. Shown # Gone \/ result' = "ok"
      BY <1>1, <1>4 DEF EndStroke, Untouched, Painted
    <2> QED
      BY <1>1, <1>4, <2>1 DEF EndStroke, MayAppend, Succeeds
  <1>5. CASE CancelStroke
    BY <1>1, <1>5 DEF CancelStroke, Succeeds
  <1>6. CASE Undo \/ Redo
    BY <1>1, <1>6 DEF Undo, Redo, Succeeds
  <1>7. CASE file = "open" /\ \E painted \in SUBSET Content : Unreported(painted)
    BY <1>7 DEF Unreported
  <1> QED
    BY <1>1, <1>2, <1>3, <1>4, <1>5, <1>6, <1>7, CallSteps DEF IsStep

(* Around the calls of the editor, the item changes no picture.              *)
LEMMA PlacesKeepPictures ==
    ASSUME \/ ClearSelection \/ KeepEditors \/ (\E a : BindEditor(a))
           \/ (\E f : SyncSelectedLayer(f))
    PROVE  UNCHANGED pictures
  <1>1. ASSUME ClearSelection \/ KeepEditors PROVE UNCHANGED pictures
    BY <1>1 DEF ClearSelection, UnbindEditors, Unbind, KeepEditors, documentVars
  <1>2. ASSUME NEW a, BindEditor(a) PROVE UNCHANGED pictures
    BY <1>2 DEF BindEditor, Bind, Fails, documentVars
  <1> QED
    BY <1>1, <1>2 DEF SyncSelectedLayer

(* No call that changes a picture leaves it to the host to refresh the item, *)
(* whatever the picture, the binding and the editor in use, but for a stroke *)
(* cancelled while the other editor holds an error and an edit that a file   *)
(* took and reported as failed (CanvasItem::finishEdit, cancelStroke).       *)
THEOREM EditsAreRenderedCorrect == Spec => EditsAreRendered
  <1>1. HistoryTypeOK /\ [Next]_vars =>
          [(result' # "none" /\ pictures' # pictures /\ ~spareError)
              => rendered' \/ (file = "open" /\ result' = "failed")]_vars
    <2> SUFFICES ASSUME HistoryTypeOK, Next, result' # "none", pictures' # pictures, ~spareError,
                        ~(file = "open" /\ result' = "failed")
                 PROVE  rendered'
      OBVIOUS
    <2>1. ASSUME IsCall, FinishEdit PROVE rendered'
      BY <2>1, ChangesSucceed DEF FinishEdit, Renders
    <2>2. ASSUME CancelStrokeOn PROVE rendered'
      <3>1. CASE CallCancelStroke /\ (result' = "failed" \/ spareError)
        BY <3>1, ChangesSucceed DEF IsCall
      <3> QED
        BY <2>2, <3>1 DEF CancelStrokeOn
    <2>3. CASE BeginStrokeAt \/ ContinueStrokeAt \/ EndStrokeAt
      BY <2>1, <2>3 DEF BeginStrokeAt, ContinueStrokeAt, EndStrokeAt, IsCall
    <2>4. CASE (\E clears \in BOOLEAN : EditSelected(clears)) \/ UndoSelected \/ RedoSelected
      <3>1. FinishEdit /\ (Route(CallDirectEdit) \/ Route(CallUndo) \/ Route(CallRedo))
        BY <2>4 DEF EditSelected, UndoSelected, RedoSelected
      <3> QED
        BY <2>1, <3>1 DEF Route, IsCall, documentVars
    <2>5. CASE Cancel
      BY <2>2, <2>5 DEF Cancel
    <2>6. CASE \E f \in Frame : SetFrame(f)
      <3>1. PICK f \in Frame : SetFrame(f)
        BY <2>6
      <3>2. CancelStrokeOn \/ SyncSelectedLayer(f)
        BY <3>1 DEF SetFrame
      <3> QED
        BY <2>2, <3>2, PlacesKeepPictures
    <2>7. CASE ResumeSeek
      <3>1. SyncSelectedLayer(seek.to) \/ KeepEditors
        BY <2>7 DEF ResumeSeek
      <3> QED
        BY <3>1, PlacesKeepPictures
    <2>8. CASE \/ \E b \in {"memory", "file"} : BindDocument(b)
               \/ \E l \in Layer : SelectLayer(l)
               \/ Deselect \/ Refresh
      <3>1. \/ ClearSelection \/ KeepEditors \/ \E a : BindEditor(a)
            \/ SyncSelectedLayer(frame)
        BY <2>8 DEF BindDocument, SelectLayer, Deselect, Refresh
      <3> QED
        BY <3>1, PlacesKeepPictures
    <2>9. CASE \/ \E valid \in BOOLEAN : ApplyBrush(valid)
               \/ \E a \in Asset : OthersOverwrite(a)
               \/ FileIsLost
      BY <2>9 DEF ApplyBrush, OthersOverwrite, Overwrite, FileIsLost, documentVars
    <2> QED
      BY <2>3, <2>4, <2>5, <2>6, <2>7, <2>8, <2>9 DEF Next
  <1>2. EditInv => HistoryTypeOK
    BY DEF EditInv, HistoryInv
  <1> QED
    BY <1>1, <1>2, EditInvariance, PTL DEF Spec, EditsAreRendered

-------------------------------------------------------------------------------
(* The item that owns an editor                                              *)

(* createBitmap() begins a history of a new picture.                         *)
LEMMA CreateBitmapStep == ASSUME HistoryInv, CreateBitmap PROVE Kept
  <1>1. /\ target' = Owned /\ file' = "none" /\ undo' = <<>> /\ redo' = <<>>
        /\ active' = FALSE /\ changed' = FALSE /\ revision' = 0 /\ sole' = TRUE
        /\ result' = "none" /\ error' = FALSE
    BY DEF CreateBitmap
  <1>2. PICK p \in Content : pictures' = [pictures EXCEPT ![Owned] = p]
    BY DEF CreateBitmap
  <1>3. Owned \in Asset /\ HistoryLimit \in Nat /\ 0 \in 0 .. MaxRevision
    BY OwnedAssumption, HistoryAssumption
  <1>4. undo' \in Seq(Content) /\ redo' \in Seq(Content) /\ Len(undo') <= HistoryLimit
    <2>1. <<>> \in Seq(Content) /\ Len(<<>>) = 0
      OBVIOUS
    <2> QED
      BY <1>1, <1>3, <2>1
  <1>5. pictures' \in [Asset -> Picture]
    BY <1>2 DEF HistoryInv, HistoryTypeOK, Picture
  <1>6. HistoryTypeOK'
    BY <1>1, <1>3, <1>4, <1>5 DEF HistoryTypeOK
  <1>7. Shown' \in Picture
    BY <1>1, <1>3, <1>5 DEF Shown, Picture
  <1>8. History!Restart
    BY <1>1, <1>7 DEF History!Restart
  <1> QED
    BY <1>1, <1>6, <1>8 DEF Kept, HistoryInv, StrokeIsAlone, Mapped, Noted, History!Next

(* Every step of the item keeps what is claimed of a step of its editor.     *)
LEMMA EveryItemStep == HistoryInv /\ [ItemNext]_itemVars => Kept
  <1> SUFFICES ASSUME HistoryInv, [ItemNext]_itemVars PROVE Kept
    OBVIOUS
  <1>1. CASE [HistoryNext]_historyVars
    BY <1>1, EveryStep
  <1>2. CASE CreateBitmap
    BY <1>2, CreateBitmapStep
  <1>3. [HistoryNext]_historyVars \/ CreateBitmap
    BY DEF ItemNext, BindItem, UnbindItem, RefreshItem, Calls, Edit, CancelItem, Others, HistoryNext,
           itemVars
  <1> QED
    BY <1>1, <1>2, <1>3

(* The editor's invariant holds in every state of the item. *)
LEMMA ItemInvariance == ItemSpec => []HistoryInv
  <1>1. HistoryInv /\ [ItemNext]_itemVars => HistoryInv'
    BY EveryItemStep DEF Kept
  <1>2. ItemInit => HistoryInv
    BY HistoryInvInit DEF ItemInit
  <1> QED
    BY <1>1, <1>2, PTL DEF ItemSpec

(* EveryStepShows of the item: also when it makes its own bitmap anew, what  *)
(* its undo and redo offer is another picture than the one shown.            *)
THEOREM ItemStepsShow == ItemSpec => []EveryStepShows
  <1>1. ItemInit => LineInv
    <2> SUFFICES ASSUME ItemInit PROVE LineInv
      OBVIOUS
    <2> QED
      BY LineOfOne DEF ItemInit, HistoryInit, Past
  <1>2. HistoryInv /\ LineInv /\ [ItemNext]_itemVars => LineInv'
    BY EveryItemStep, LineStep DEF Kept, HistoryInv
  <1>3. HistoryInv /\ LineInv => EveryStepShows
    BY LineShows DEF HistoryInv
  <1> QED
    BY <1>1, <1>2, <1>3, ItemInvariance, PTL DEF ItemSpec

-----------------------------------------------------------------------------
(* What a call changes, it tells. *)

(* A call leaves the binding alone, and the asset in or out of the document; *)
(* another picture it shows only if it succeeds.                             *)
Told ==
    /\ target' = target /\ file' = file
    /\ Shown' = Gone <=> Shown = Gone
    /\ Shown' # Shown => result' = "ok" /\ ~error'

(* A call that fails shows nothing.                                          *)
LEMMA FailsTold == ASSUME Fails PROVE Told
  BY DEF Fails, documentVars, editorVars, Told, Shown

(* What is shown after a picture was put in the place of another.            *)
LEMMA ShowTold ==
    ASSUME HistoryInv, Shown # Gone, NEW p \in Content, Show(p), target' = target
    PROVE  Shown' = p /\ Shown' # Gone
  <1>1. target \in Asset /\ HistoryTypeOK
    BY BoundShows DEF HistoryInv
  <1>2. pictures'[target] = p
    BY <1>1 DEF Show, HistoryTypeOK
  <1> QED
    BY <1>1, <1>2, HistoryAssumption DEF Shown

(* The direct edits.                                                         *)
LEMMA DirectEditTold == ASSUME HistoryInv, DirectEdit PROVE Told
  <1>1. CASE Fails
    BY <1>1, FailsTold
  <1>2. CASE UNCHANGED <<documentVars, editorVars>> /\ Succeeds
    BY <1>2 DEF documentVars, editorVars, Told, Shown
  <1>3. CASE /\ IsBound
             /\ \E picture \in Content \ {Shown} : Show(picture)
             /\ UNCHANGED <<target, file>>
             /\ Succeeds
    <2>1. PICK p \in Content \ {Shown} : Show(p)
      BY <1>3
    <2>2. Shown # Gone /\ Shown' # Gone
      BY <1>3, <2>1, ShowTold DEF IsBound
    <2> QED
      BY <1>3, <2>2 DEF Told, Succeeds
  <1> QED
    BY <1>1, <1>2, <1>3 DEF DirectEdit

(* A stroke point that is not painted shows nothing else; a painted one is   *)
(* never the asset's removal.                                                *)
LEMMA PointTold ==
    ASSUME HistoryInv, target' = target, file' = file, Untouched \/ Painted,
           Painted => result' = "ok" /\ ~error'
    PROVE  Told
  <1>1. /\ Shown # Gone => Shown' # Gone
        /\ Untouched => Shown' = Shown
        /\ Painted => Shown # Gone
    BY StrokePoint
  <1> QED
    BY <1>1 DEF Told

(* The points of a stroke.                                                   *)
LEMMA StrokeTold ==
    ASSUME HistoryInv, BeginStroke \/ ContinueStroke \/ EndStroke
    PROVE  Told
  <1>1. CASE Fails
    BY <1>1, FailsTold
  <1>2. CASE ~Fails
    <2>1. target' = target /\ file' = file /\ (Untouched \/ Painted)
      BY <1>2 DEF BeginStroke, ContinueStroke, EndStroke
    <2>2. Painted => MayAppend
      BY DEF Painted, MayAppend
    <2>3. Painted => result' = "ok" /\ ~error'
      BY <1>2, <2>2 DEF BeginStroke, ContinueStroke, EndStroke, Succeeds
    <2> QED
      BY <2>1, <2>3, PointTold
  <1> QED
    BY <1>1, <1>2

(* A stroke that is cancelled shows the picture it began from.               *)
LEMMA CancelTold == ASSUME HistoryInv, CancelStroke PROVE Told
  <1>1. CASE ~active
    BY <1>1 DEF CancelStroke, documentVars, editorVars, Told, Shown
  <1>2. CASE active /\ Shown = Gone
    BY <1>2 DEF CancelStroke, Told, Shown
  <1>3. CASE active /\ Shown # Gone
    <2>1. /\ Show(Last(undo)) /\ target' = target /\ file' = file
          /\ result' = "ok" /\ error' = FALSE
      BY <1>3 DEF CancelStroke, Succeeds
    <2>2. Last(undo) \in Content
      BY <1>3, SnapshotTaken DEF HistoryInv
    <2>3. Shown' # Gone
      BY <1>3, <2>1, <2>2, ShowTold
    <2> QED
      BY <1>3, <2>1, <2>3 DEF Told
  <1> QED
    BY <1>1, <1>2, <1>3

(* Undo and redo show a picture of the history.                              *)
LEMMA UndoTold == ASSUME HistoryInv, Undo \/ Redo PROVE Told
  <1>1. CASE Fails
    BY <1>1, FailsTold
  <1>2. CASE Undo /\ CanUndo
    <2>1. /\ Show(Last(undo)) /\ target' = target /\ file' = file /\ Shown # Gone
          /\ undo # <<>> /\ result' = "ok" /\ error' = FALSE
      BY <1>2 DEF Undo, CanUndo, IsBound, Succeeds
    <2>2. Last(undo) \in Content
      BY <2>1, FrontProperties DEF HistoryInv, HistoryTypeOK
    <2>3. Shown' # Gone
      BY <2>1, <2>2, ShowTold
    <2> QED
      BY <2>1, <2>3 DEF Told
  <1>3. CASE Redo /\ CanRedo
    <2>1. /\ Show(Last(redo)) /\ target' = target /\ file' = file /\ Shown # Gone
          /\ redo # <<>> /\ result' = "ok" /\ error' = FALSE
      BY <1>3 DEF Redo, CanRedo, IsBound, Succeeds
    <2>2. Last(redo) \in Content
      BY <2>1, FrontProperties DEF HistoryInv, HistoryTypeOK
    <2>3. Shown' # Gone
      BY <2>1, <2>2, ShowTold
    <2> QED
      BY <2>1, <2>3 DEF Told
  <1> QED
    BY <1>1, <1>2, <1>3 DEF Undo, Redo

(* Of what a call changed, the signals leave nothing out.                    *)
LEMMA EditAnnounced ==
    ASSUME Told, Tells(FinishItemEdit(result' = "ok") \union NotifyStateChange)
                     \/ Tells(FinishItemEdit(~error') \union NotifyStateChange)
    PROVE  stale' \subseteq stale
  <1>1. IsBound' = IsBound
    BY DEF Told, IsBound
  <1>2. Differs \subseteq NotifyStateChange \union (IF Shown' # Shown THEN {"picture"} ELSE {})
    BY <1>1 DEF Differs, NotifyStateChange
  <1>3. Shown' # Shown => FinishItemEdit(result' = "ok") = {"picture"}
                          /\ FinishItemEdit(~error') = {"picture"}
    BY DEF Told, FinishItemEdit
  <1>4. stale' = {}
          \/ stale' = (stale \union Differs) \ (FinishItemEdit(result' = "ok") \union NotifyStateChange)
          \/ stale' = (stale \union Differs) \ (FinishItemEdit(~error') \union NotifyStateChange)
    BY DEF Tells
  <1> QED
    BY <1>2, <1>3, <1>4

(* What the failures of a file leave untold.                                 *)
LEMMA FileFailureTold ==
    ASSUME HistoryTypeOK, file = "open", NEW painted, painted \subseteq Content,
           Unreported(painted) \/ Detached,
           Tells(FinishItemEdit(result' = "ok") \union NotifyStateChange)
               \/ Tells(FinishItemEdit(~error') \union NotifyStateChange)
    PROVE  stale' \subseteq stale \union Untold
  <1>1. stale' \subseteq stale \union (Differs \ NotifyStateChange)
    BY DEF Tells
  <1>2. Differs \subseteq NotifyStateChange \union (IF Shown' # Shown THEN {"picture"} ELSE {})
                             \union (IF IsBound' # IsBound THEN {"bitmap"} ELSE {})
    BY DEF Differs, NotifyStateChange
  <1>3. CASE Detached
    <2>1. file' = "lost" /\ result' = "failed" /\ Shown' = Shown
      BY <1>3 DEF Detached, editorVars, Shown
    <2>2. Untold = {"bitmap"}
      BY <2>1 DEF Untold
    <2> QED
      BY <1>1, <1>2, <2>1, <2>2
  <1>4. CASE Unreported(painted)
    <2>1. PICK picture \in Content : Show(picture)
      BY <1>4 DEF Unreported
    <2>2. /\ file' = file /\ target' = target /\ result' = "failed" /\ Shown # Gone
      BY <1>4 DEF Unreported
    <2>3. Shown' # Gone
      <3>1. target \in Asset
        BY <2>2, BoundShows
      <3>2. pictures'[target] = picture
        BY <2>1, <3>1 DEF Show, HistoryTypeOK
      <3> QED
        BY <2>2, <3>1, <3>2, HistoryAssumption DEF Shown
    <2>4. IsBound' = IsBound
      BY <2>2, <2>3 DEF IsBound
    <2>5. Untold = {"picture"}
      BY <2>2 DEF Untold
    <2> QED
      BY <1>1, <1>2, <2>4, <2>5
  <1> QED
    BY <1>3, <1>4

(* CallsAreAnnounced: whatever bitmaps, limits and files, and however a call *)
(* ends, no binding of the scene is left with what the call made untrue, but *)
(* for what a file reported as failed all the same or lost in the call.      *)
THEOREM CallsAreAnnouncedCorrect == ItemSpec => CallsAreAnnounced
  <1>1. HistoryInv /\ [ItemNext]_itemVars =>
          [result' # "none" => stale' \subseteq stale \union Untold]_itemVars
    <2> SUFFICES ASSUME HistoryInv, ItemNext, result' # "none"
                 PROVE  stale' \subseteq stale \union Untold
      OBVIOUS
    <2>1. CASE \E a \in Asset, f \in {"none", "open"} : BindItem(a, f)
      BY <2>1 DEF BindItem
    <2>2. CASE UnbindItem \/ CreateBitmap \/ RefreshItem
      BY <2>2 DEF UnbindItem, CreateBitmap, RefreshItem
    <2>3. CASE Calls
      <3>1. IsCall
        BY <2>3 DEF Calls, Edit, CancelItem, IsCall
      <3>2. Tells(FinishItemEdit(result' = "ok") \union NotifyStateChange)
              \/ Tells(FinishItemEdit(~error') \union NotifyStateChange)
        BY <2>3 DEF Calls, Edit, CancelItem
      <3>3. CASE IsStep \/ Fails
        <4>1. Told
          BY <3>3, FailsTold, DirectEditTold, StrokeTold, CancelTold, UndoTold DEF IsStep
        <4> QED
          BY <3>2, <4>1, EditAnnounced
      <3>4. CASE /\ file = "open"
                 /\ Detached \/ \E painted \in SUBSET Content : Unreported(painted)
        BY <3>2, <3>4, FileFailureTold DEF HistoryInv
      <3> QED
        BY <3>1, <3>3, <3>4, CallSteps DEF HistoryInv
    <2>4. CASE Others
      BY <2>4 DEF Others, FileGoes, Overwrite
    <2> QED
      BY <2>1, <2>2, <2>3, <2>4 DEF ItemNext
  <1> QED
    BY <1>1, ItemInvariance, PTL DEF ItemSpec, CallsAreAnnounced
===============================================================================
