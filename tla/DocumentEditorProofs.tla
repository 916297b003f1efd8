------------------------- MODULE DocumentEditorProofs -------------------------
(***************************************************************************)
(* What holds of the editors of a document and of a drawing, whatever      *)
(* their calls are given and in whatever order they come.  Every edit of a *)
(* drawing that counts is one that the drawing shows.  A document behind a *)
(* working file stays valid, a document has its type, what does not come   *)
(* through leaves no trace in it, and every reference finds what it names. *)
(* The third needs the type: what an operation takes back it can only put  *)
(* back as it was when it knows what it took.  The last needs the          *)
(* references element by element (EachResolves), and that calls which do   *)
(* not validate what they leave keep them.                                 *)
(***************************************************************************)
EXTENDS DocumentEditor, VectorEditor, SequenceTheorems, FiniteSetTheorems,
        WellFoundedInduction, NaturalsInduction, TLAPS

(* What becomes of an outcome: it is counted, committed without being        *)
(* reported, or the document stays unless the operation says nothing changed.*)
LEMMA PerformDoes ==
    ASSUME revision \in Nat, unreported \in Nat, NEW outcome, NEW touch, Perform(outcome, touch)
    PROVE  /\ session' = session /\ revision' \in Nat /\ unreported' \in Nat
           /\ binding' \in {binding, "lost"}
           /\ Edited => /\ outcome.result = "applied" /\ doc' = outcome.doc /\ touched' = touch
                        /\ binding \in {"memory", "file"} /\ binding' = binding
                        /\ binding = "file" => Valid(doc')
           /\ ~Edited => \/ doc' = doc
                         \/ /\ binding = "memory" /\ binding' = binding
                            /\ doc' = outcome.doc /\ outcome.result # "applied"
           /\ Edited /\ revision' # revision + 1 => binding = "file" /\ unreported' = unreported + 1
  <1>1. CASE InMemory(outcome, touch)
    <2>1. CASE outcome.result = "applied"
      BY <1>1, <2>1 DEF InMemory, Counted, Edited
    <2>2. CASE outcome.result # "applied"
      BY <1>1, <2>2 DEF InMemory, countVars, Edited
    <2> QED
      BY <2>1, <2>2
  <1>2. CASE EditFile(outcome, touch)
    <2>1. CASE RefuseDraft(outcome)
      BY <1>2, <2>1 DEF EditFile, RefuseDraft, countVars, Edited
    <2>2. CASE Commits(outcome) /\ CommitDraft(outcome, touch)
      <3>1. outcome.result = "applied" /\ Valid(outcome.doc) /\ binding = "file"
        BY <1>2, <2>2 DEF Commits, EditFile
      <3>2. /\ doc' = outcome.doc /\ touched' = touch /\ binding' = binding /\ session' = session
            /\ \/ revision' = revision + 1 /\ unreported' = unreported
               \/ revision' = revision /\ unreported' = unreported + 1
        BY <2>2 DEF CommitDraft, Counted
      <3>3. Valid(doc')
        BY <3>1, <3>2
      <3> QED
        BY <3>1, <3>2, <3>3 DEF Edited
    <2> QED
      BY <1>2, <2>1, <2>2 DEF EditFile
  <1> QED
    BY <1>1, <1>2 DEF Perform

(* In memory nothing is promised; through a file the draft is validated      *)
(* before it becomes the document, and otherwise the document stays.         *)
LEMMA PerformKeepsFileValid ==
    ASSUME FileStaysValid, NEW outcome, NEW touch, Perform(outcome, touch)
    PROVE  FileStaysValid'
  <1>1. CASE InMemory(outcome, touch)
    BY <1>1 DEF InMemory, FileStaysValid
  <1>2. CASE EditFile(outcome, touch)
    <2>1. binding = "file" /\ Valid(doc)
      BY <1>2 DEF EditFile, FileStaysValid
    <2>2. CASE RefuseDraft(outcome)
      <3>1. doc' = doc
        BY <2>2 DEF RefuseDraft
      <3> QED
        BY <2>1, <3>1 DEF FileStaysValid
    <2>3. CASE Commits(outcome) /\ CommitDraft(outcome, touch)
      <3>1. doc' = outcome.doc /\ Valid(outcome.doc)
        BY <2>3 DEF Commits, CommitDraft
      <3> QED
        BY <3>1 DEF FileStaysValid
    <2> QED
      BY <1>2, <2>2, <2>3 DEF EditFile
  <1> QED
    BY <1>1, <1>2 DEF Perform

(* A file is bound only while its document validates.                        *)
LEMMA SessionKeepsFileValid ==
    ASSUME FileStaysValid, Bind \/ Unbind \/ FileGoes PROVE FileStaysValid'
  <1>1. CASE Bind
    <2>1. doc' = doc /\ Valid(doc)
      BY <1>1 DEF Bind
    <2> QED
      BY <2>1 DEF FileStaysValid
  <1>2. CASE Unbind \/ FileGoes
    BY <1>2 DEF Unbind, FileGoes, FileStaysValid
  <1> QED
    BY <1>1, <1>2

LEMMA EditsKeepFileValid ==
    ASSUME FileStaysValid, [Next]_vars PROVE FileStaysValid'
  <1>1. CASE UNCHANGED vars
    BY <1>1 DEF vars, FileStaysValid
  <1>2. CASE Bind \/ Unbind \/ FileGoes
    BY <1>2, SessionKeepsFileValid
  <1>3. CASE EditCanvas
    BY <1>3, PerformKeepsFileValid DEF EditCanvas
  <1>4. CASE EditMetadata
    BY <1>4, PerformKeepsFileValid DEF EditMetadata
  <1>5. CASE EditAssets
    BY <1>5, PerformKeepsFileValid DEF EditAssets
  <1>6. CASE EditPaths
    BY <1>6, PerformKeepsFileValid DEF EditPaths
  <1>7. CASE EditAudio
    BY <1>7, PerformKeepsFileValid DEF EditAudio
  <1>8. CASE EditClips
    BY <1>8, PerformKeepsFileValid DEF EditClips
  <1>9. CASE EditLayers
    BY <1>9, PerformKeepsFileValid DEF EditLayers
  <1>10. CASE EditLayerProperties
    BY <1>10, PerformKeepsFileValid DEF EditLayerProperties
  <1>11. CASE EditSources
    BY <1>11, PerformKeepsFileValid DEF EditSources
  <1>12. CASE EditKeyframes
    BY <1>12, PerformKeepsFileValid DEF EditKeyframes
  <1>13. CASE EditControlAssets
    BY <1>13, PerformKeepsFileValid DEF EditControlAssets
  <1>14. CASE EditControlLayers
    BY <1>14, PerformKeepsFileValid DEF EditControlLayers
  <1>15. CASE EditArtboard
    BY <1>15, PerformKeepsFileValid DEF EditArtboard
  <1> QED
    BY <1>1, <1>2, <1>3, <1>4, <1>5, <1>6, <1>7, <1>8, <1>9, <1>10, <1>11, <1>12, <1>13, <1>14,
       <1>15 DEF Next

(* Whatever operations are called, in whatever order, with whatever ids and  *)
(* values, accepted or refused, and whether commits fail or the file goes:   *)
(* the document an editor shows through its file is valid                    *)
(* (DocumentEditor::editFile, validate()).                                   *)
THEOREM FileStaysValidCorrect == Spec => []FileStaysValid
  <1>1. Init => FileStaysValid
    BY DEF Init, FileStaysValid
  <1>2. FileStaysValid /\ [Next]_vars => FileStaysValid'
    BY EditsKeepFileValid
  <1> QED
    BY <1>1, <1>2, PTL DEF Spec

-------------------------------------------------------------------------------
(* Sequences: one element put in, taken out or changed                       *)

(* What is left when the element at i is taken out.                          *)
LEMMA RemoveAtProperties ==
    ASSUME NEW S, NEW s \in Seq(S), NEW i \in 1 .. Len(s)
    PROVE  /\ RemoveAt(s, i) \in Seq(S) /\ Len(RemoveAt(s, i)) = Len(s) - 1
           /\ \A j \in 1 .. Len(s) - 1 : RemoveAt(s, i)[j] = IF j < i THEN s[j] ELSE s[j + 1]
  <1> DEFINE front == SubSeq(s, 1, i - 1)
             back == SubSeq(s, i + 1, Len(s))
  <1>1. Len(s) \in Nat /\ i \in Nat /\ i - 1 \in Int /\ i + 1 \in Int
    BY LenProperties
  <1>2. front \in Seq(S) /\ Len(front) = i - 1 /\ \A j \in 1 .. i - 1 : front[j] = s[j]
    BY <1>1, SubSeqProperties, ElementOfSeq
  <1>3. /\ back \in Seq(S) /\ Len(back) = Len(s) - i
        /\ \A j \in 1 .. Len(s) - i : back[j] = s[i + j]
    BY <1>1, SubSeqProperties, ElementOfSeq
  <1>4. RemoveAt(s, i) = front \o back
    BY DEF RemoveAt
  <1> HIDE DEF front, back
  <1>5. /\ front \o back \in Seq(S) /\ Len(front \o back) = Len(s) - 1
        /\ \A j \in 1 .. Len(s) - 1 :
                (front \o back)[j] = IF j <= i - 1 THEN front[j] ELSE back[j - (i - 1)]
    <2>1. /\ front \o back \in Seq(S) /\ Len(front \o back) = Len(front) + Len(back)
          /\ \A j \in 1 .. Len(front) + Len(back) :
                (front \o back)[j] = IF j <= Len(front) THEN front[j] ELSE back[j - Len(front)]
      BY <1>2, <1>3, ConcatProperties
    <2>2. Len(front) + Len(back) = Len(s) - 1
      BY <1>1, <1>2, <1>3
    <2> QED
      BY <1>2, <2>1, <2>2
  <1>6. ASSUME NEW j \in 1 .. Len(s) - 1
        PROVE  RemoveAt(s, i)[j] = IF j < i THEN s[j] ELSE s[j + 1]
    <2>1. CASE j < i
      BY <1>1, <1>2, <1>4, <1>5, <2>1
    <2>2. CASE ~(j < i)
      <3>1. j - (i - 1) \in 1 .. Len(s) - i /\ i + (j - (i - 1)) = j + 1 /\ ~(j <= i - 1)
        BY <1>1, <2>2
      <3> QED
        BY <1>3, <1>4, <1>5, <2>2, <3>1
    <2> QED
      BY <2>1, <2>2
  <1> QED
    BY <1>4, <1>5, <1>6

(* t is s with e put in at i.                                                *)
IsInsertion(t, s, i, e) ==
    /\ Len(t) = Len(s) + 1
    /\ \A j \in 1 .. Len(s) + 1 : t[j] = IF j < i THEN s[j] ELSE IF j = i THEN e ELSE s[j - 1]

LEMMA InsertAtProperties ==
    ASSUME NEW S, NEW s \in Seq(S), NEW i \in 1 .. Len(s) + 1, NEW e \in S
    PROVE  InsertAt(s, i, e) \in Seq(S) /\ IsInsertion(InsertAt(s, i, e), s, i, e)
  <1> DEFINE front == SubSeq(s, 1, i - 1)
             back == SubSeq(s, i, Len(s))
  <1>1. Len(s) \in Nat /\ i \in Nat /\ i - 1 \in Int
    BY LenProperties
  <1>2. front \in Seq(S) /\ Len(front) = i - 1 /\ \A j \in 1 .. i - 1 : front[j] = s[j]
    BY <1>1, SubSeqProperties, ElementOfSeq
  <1>3. /\ back \in Seq(S) /\ Len(back) = Len(s) - i + 1
        /\ \A j \in 1 .. Len(s) - i + 1 : back[j] = s[i + j - 1]
    BY <1>1, SubSeqProperties, ElementOfSeq
  <1>4. <<e>> \in Seq(S) /\ Len(<<e>>) = 1 /\ <<e>>[1] = e
    OBVIOUS
  <1>5. InsertAt(s, i, e) = front \o <<e>> \o back
    BY DEF InsertAt
  <1> DEFINE one == <<e>>
  <1> HIDE DEF front, back, one
  <1>6. /\ front \o one \in Seq(S) /\ Len(front \o one) = i
        /\ \A j \in 1 .. i : (front \o one)[j] = IF j <= i - 1 THEN front[j] ELSE one[j - (i - 1)]
    BY <1>1, <1>2, <1>4, ConcatProperties DEF one
  <1> DEFINE upTo == front \o one
  <1> HIDE DEF upTo
  <1>7. /\ upTo \o back \in Seq(S) /\ Len(upTo \o back) = Len(s) + 1
        /\ \A j \in 1 .. Len(s) + 1 : (upTo \o back)[j] = IF j <= i THEN upTo[j] ELSE back[j - i]
    <2>1. /\ upTo \in Seq(S) /\ Len(upTo) = i
      BY <1>6 DEF upTo
    <2>2. /\ upTo \o back \in Seq(S) /\ Len(upTo \o back) = Len(upTo) + Len(back)
          /\ \A j \in 1 .. Len(upTo) + Len(back) :
                (upTo \o back)[j] = IF j <= Len(upTo) THEN upTo[j] ELSE back[j - Len(upTo)]
      BY <1>3, <2>1, ConcatProperties
    <2>3. Len(upTo) + Len(back) = Len(s) + 1
      BY <1>1, <1>3, <2>1
    <2> QED
      BY <2>1, <2>2, <2>3
  <1>8. InsertAt(s, i, e) = upTo \o back
    BY <1>5 DEF upTo, one
  <1>9. ASSUME NEW j \in 1 .. Len(s) + 1
        PROVE  InsertAt(s, i, e)[j] = IF j < i THEN s[j] ELSE IF j = i THEN e ELSE s[j - 1]
    <2>1. CASE j < i
      <3>1. j \in 1 .. i - 1 /\ j <= i - 1 /\ j \in 1 .. i
        BY <1>1, <2>1
      <3>2. upTo[j] = s[j]
        BY <1>2, <1>6, <3>1 DEF upTo
      <3> QED
        BY <1>7, <1>8, <2>1, <3>1, <3>2
    <2>2. CASE j = i
      <3>1. i \in 1 .. i /\ ~(i <= i - 1) /\ i - (i - 1) = 1 /\ i <= i
        BY <1>1
      <3>2. upTo[i] = one[1]
        BY <1>6, <3>1 DEF upTo
      <3>3. one[1] = e
        BY <1>4 DEF one
      <3> QED
        BY <1>1, <1>7, <1>8, <2>2, <3>1, <3>2, <3>3
    <2>3. CASE i < j
      <3>1. j - i \in 1 .. Len(s) - i + 1 /\ i + (j - i) - 1 = j - 1 /\ ~(j <= i) /\ ~(j < i) /\ j # i
        BY <1>1, <2>3
      <3>2. back[j - i] = s[j - 1]
        BY <1>3, <3>1
      <3> QED
        BY <1>7, <1>8, <3>1, <3>2
    <2> QED
      BY <1>1, <2>1, <2>2, <2>3
  <1> QED
    BY <1>7, <1>8, <1>9 DEF IsInsertion

LEMMA RemoveTheInserted ==
    ASSUME NEW S, NEW s \in Seq(S), NEW i \in 1 .. Len(s) + 1, NEW e \in S
    PROVE  RemoveAt(InsertAt(s, i, e), i) = s
  <1> DEFINE t == InsertAt(s, i, e)
  <1>1. /\ t \in Seq(S) /\ Len(t) = Len(s) + 1
        /\ \A j \in 1 .. Len(s) + 1 : t[j] = IF j < i THEN s[j] ELSE IF j = i THEN e ELSE s[j - 1]
    <2>1. t \in Seq(S) /\ IsInsertion(t, s, i, e)
      BY InsertAtProperties
    <2> HIDE DEF t
    <2> QED
      BY <2>1 DEF IsInsertion
  <1> HIDE DEF t
  <1>2. Len(s) \in Nat /\ i \in 1 .. Len(t)
    BY <1>1, LenProperties
  <1>3. /\ RemoveAt(t, i) \in Seq(S) /\ Len(RemoveAt(t, i)) = Len(t) - 1
        /\ \A j \in 1 .. Len(t) - 1 : RemoveAt(t, i)[j] = IF j < i THEN t[j] ELSE t[j + 1]
    BY <1>1, <1>2, RemoveAtProperties
  <1>4. ASSUME NEW j \in 1 .. Len(s) PROVE RemoveAt(t, i)[j] = s[j]
    <2>1. j \in 1 .. Len(t) - 1 /\ j \in 1 .. Len(s) + 1 /\ j + 1 \in 1 .. Len(s) + 1 /\ (j + 1) - 1 = j
      BY <1>1, <1>2
    <2>2. CASE j < i
      BY <1>1, <1>3, <2>1, <2>2
    <2>3. CASE ~(j < i)
      <3>1. ~(j + 1 < i) /\ j + 1 # i
        BY <1>2, <2>3
      <3>2. t[j + 1] = s[j]
        BY <1>1, <2>1, <3>1
      <3> QED
        BY <1>3, <2>1, <2>3, <3>2
    <2> QED
      BY <2>2, <2>3
  <1>5. Len(RemoveAt(t, i)) = Len(s)
    BY <1>1, <1>2, <1>3
  <1> QED
    BY <1>3, <1>4, <1>5, SeqEqual DEF t

LEMMA RemoveTheReplaced ==
    ASSUME NEW S, NEW s \in Seq(S), NEW i \in 1 .. Len(s), NEW e \in S
    PROVE  /\ ReplaceAt(s, i, e) \in Seq(S) /\ Len(ReplaceAt(s, i, e)) = Len(s)
           /\ ReplaceAt(s, i, e)[i] = e
           /\ RemoveAt(ReplaceAt(s, i, e), i) = RemoveAt(s, i)
  <1> DEFINE t == ReplaceAt(s, i, e)
  <1>1. /\ t \in Seq(S) /\ Len(t) = Len(s)
        /\ \A j \in 1 .. Len(s) : t[j] = IF j = i THEN e ELSE s[j]
    BY ExceptSeq DEF ReplaceAt
  <1>2. Len(s) \in Nat
    BY LenProperties
  <1> HIDE DEF t
  <1>3. /\ RemoveAt(t, i) \in Seq(S) /\ Len(RemoveAt(t, i)) = Len(s) - 1
        /\ \A j \in 1 .. Len(s) - 1 : RemoveAt(t, i)[j] = IF j < i THEN t[j] ELSE t[j + 1]
    BY <1>1, RemoveAtProperties
  <1>4. /\ RemoveAt(s, i) \in Seq(S) /\ Len(RemoveAt(s, i)) = Len(s) - 1
        /\ \A j \in 1 .. Len(s) - 1 : RemoveAt(s, i)[j] = IF j < i THEN s[j] ELSE s[j + 1]
    BY RemoveAtProperties
  <1>5. \A j \in 1 .. Len(s) - 1 : RemoveAt(t, i)[j] = RemoveAt(s, i)[j]
    BY <1>1, <1>2, <1>3, <1>4
  <1>6. RemoveAt(t, i) = RemoveAt(s, i)
    <2> DEFINE a == RemoveAt(t, i)
               b == RemoveAt(s, i)
    <2> HIDE DEF a, b
    <2> QED
      BY <1>3, <1>4, <1>5, SeqEqual DEF a, b
  <1> QED
    BY <1>1, <1>6 DEF t

-----------------------------------------------------------------------------
(* The drawing                                                               *)

(* The editor is bound to an asset of the document.                          *)
DrawingInv == DrawingTypeOK /\ (drawingBinding # "none" => assetId \in DrawingIds)

(* What an edit that counts does to the drawing.                             *)
Shown(old, new) ==
    /\ new \in VectorAsset /\ new.kind = old.kind
    /\ IF new.viewport # old.viewport THEN new.paths = old.paths
       ELSE DiffersInOnePath(old.paths, new.paths)
    /\ new = old => \E i, j \in DOMAIN old.paths : i < j /\ old.paths[i] = old.paths[j]

EditShown ==
    edits' + failedEdits' = edits + failedEdits + 1 =>
        LET old == assets[assetId]
            new == assets'[assetId]
        IN  /\ ValidDocument'
            /\ \A id \in DrawingIds \ {assetId} : assets'[id] = assets[id]
            /\ old.kind = "Vector" /\ new.kind = "Vector"
            /\ IF new.viewport # old.viewport THEN new.paths = old.paths
               ELSE DiffersInOnePath(old.paths, new.paths)
            /\ new = old =>
                  \E i, j \in DOMAIN old.paths : i < j /\ old.paths[i] = old.paths[j]

DrawingKept == DrawingInv' /\ EditShown

(* A step that is not an edit.                                               *)
LEMMA NoEditKeeps ==
    ASSUME DrawingInv, DrawingInv',
           \/ edits' = 0 /\ failedEdits' = 0
           \/ edits' = edits /\ failedEdits' = failedEdits
    PROVE  DrawingKept
  <1>1. edits \in Nat /\ failedEdits \in Nat
    BY DEF DrawingInv, DrawingTypeOK
  <1>2. edits' + failedEdits' # edits + failedEdits + 1
    BY <1>1
  <1> QED
    BY <1>2 DEF DrawingKept, EditShown

(* A call has to show what it does only where the document editor accepts it. *)
LEMMA CallKeeps ==
    ASSUME DrawingInv, NEW refused, NEW same, NEW new, Call(refused, same, new),
           drawingBinding # "none" /\ ~refused /\ ~same => Shown(Bound, new)
    PROVE  DrawingKept
  <1> DEFINE accepted == /\ drawingBinding # "lost" /\ ValidDocument /\ IsVector(assetId)
                         /\ ~refused /\ ~same /\ ValidVector(new)
  <1>1. /\ drawingBinding # "none" /\ drawingBinding' \in {drawingBinding, "lost"}
        /\ assetId' = assetId /\ assetId \in DrawingIds
        /\ edits \in Nat /\ failedEdits \in Nat /\ assets \in [DrawingIds -> VectorAsset]
        /\ drawingBinding \in {"none", "memory", "file", "lost"}
    BY DEF Call, DrawingInv, DrawingTypeOK
  <1>2. CASE /\ accepted
             /\ assets' = [assets EXCEPT ![assetId] = new]
             /\ \/ edits' = edits + 1 /\ UNCHANGED failedEdits
                \/ failedEdits' = failedEdits + 1 /\ UNCHANGED edits
    <2>1. Shown(assets[assetId], new) /\ assets[assetId].kind = "Vector"
      BY <1>1, <1>2 DEF Bound, IsVector
    <2>2. /\ assets'[assetId] = new
          /\ \A id \in DrawingIds \ {assetId} : assets'[id] = assets[id]
          /\ assets' \in [DrawingIds -> VectorAsset]
      BY <1>1, <1>2, <2>1 DEF Shown
    <2>3. ValidVector(new) /\ \A id \in DrawingIds : ValidVector(assets[id])
      BY <1>2 DEF ValidDocument
    <2>4. \A id \in DrawingIds : ValidVector(assets'[id])
      BY <2>2, <2>3
    <2>5. ValidDocument'
      BY <2>4 DEF ValidDocument
    <2>6. edits' \in Nat /\ failedEdits' \in Nat
      BY <1>1, <1>2
    <2>7. DrawingInv'
      BY <1>1, <2>2, <2>6 DEF DrawingInv, DrawingTypeOK
    <2>8. EditShown
      BY <2>1, <2>2, <2>5 DEF EditShown, Shown
    <2> QED
      BY <2>7, <2>8 DEF DrawingKept
  <1>3. CASE UNCHANGED <<assets, edits, failedEdits>>
    <2>1. DrawingInv'
      BY <1>1, <1>3 DEF DrawingInv, DrawingTypeOK
    <2> QED
      BY <1>3, <2>1, NoEditKeeps
  <1> QED
    BY <1>2, <1>3 DEF Call

LEMMA BoundType ==
    ASSUME DrawingInv, drawingBinding # "none"
    PROVE  /\ Bound \in VectorAsset /\ Bound.paths \in Seq(VectorPath)
           /\ Len(Bound.paths) \in Nat /\ DOMAIN Bound.paths = 1 .. Len(Bound.paths)
  <1>1. Bound \in VectorAsset
    BY DEF DrawingInv, DrawingTypeOK, Bound
  <1>2. Bound.paths \in Seq(VectorPath)
    BY <1>1 DEF VectorAsset
  <1> QED
    BY <1>1, <1>2, LenProperties

(* Other paths in a drawing: one of them is another, or two changed places   *)
(* that are equal.                                                           *)
LEMMA OtherPathsShow ==
    ASSUME NEW old \in VectorAsset, NEW paths \in Seq(VectorPath),
           DiffersInOnePath(old.paths, paths),
           paths = old.paths =>
                \E i, j \in DOMAIN old.paths : i < j /\ old.paths[i] = old.paths[j]
    PROVE  Shown(old, [old EXCEPT !.paths = paths])
  <1> DEFINE new == [old EXCEPT !.paths = paths]
  <1>1. new \in VectorAsset /\ new.kind = old.kind /\ new.viewport = old.viewport /\ new.paths = paths
    BY DEF VectorAsset
  <1> HIDE DEF new
  <1>2. Shown(old, new)
    BY <1>1 DEF Shown
  <1> QED
    BY <1>2 DEF new

LEMMA SetViewportKeeps ==
    ASSUME DrawingInv, NEW extent \in Int, SetViewport(extent) PROVE DrawingKept
  <1> DEFINE new == [Bound EXCEPT !.viewport = extent]
  <1>1. ASSUME drawingBinding # "none", Bound.viewport # extent PROVE Shown(Bound, new)
    <2>1. Bound \in VectorAsset
      BY <1>1, BoundType
    <2>2. new \in VectorAsset /\ new.kind = Bound.kind /\ new.viewport = extent /\ new.paths = Bound.paths
      BY <2>1 DEF VectorAsset
    <2> HIDE DEF new
    <2> QED
      BY <1>1, <2>2 DEF Shown
  <1> HIDE DEF new
  <1>2. Call(FALSE, Bound.viewport = extent, new)
    BY DEF SetViewport, new
  <1> QED
    BY <1>1, <1>2, CallKeeps

LEMMA InsertPathKeeps ==
    ASSUME DrawingInv, NEW path \in VectorPath, NEW at \in Nat \union {AppendIndex},
           InsertPath(path, at)
    PROVE  DrawingKept
  <1> DEFINE new == Drawing(Inserted(Bound.paths, at, path))
  <1>1. ASSUME drawingBinding # "none", ~IsOutside(at, Bound.paths) PROVE Shown(Bound, new)
    <2> DEFINE s == Bound.paths
               i == InsertionIndex(at, s) + 1
               t == InsertAt(s, i, path)
    <2>1. Bound \in VectorAsset /\ s \in Seq(VectorPath) /\ Len(s) \in Nat
      BY <1>1, BoundType
    <2>2. i \in 1 .. Len(s) + 1
      BY <1>1, <2>1 DEF IsOutside, InsertionIndex, AppendIndex
    <2>3. new = [Bound EXCEPT !.paths = t]
      BY DEF Drawing, Inserted
    <2> HIDE DEF s, i, new
    <2>4. t \in Seq(VectorPath) /\ IsInsertion(t, s, i, path) /\ RemoveAt(t, i) = s
      BY <2>1, <2>2, InsertAtProperties, RemoveTheInserted
    <2> HIDE DEF t
    <2>5. Len(t) = Len(s) + 1 /\ DOMAIN t = 1 .. Len(t) /\ t # s
      BY <2>1, <2>4, LenProperties DEF IsInsertion
    <2>6. i \in DOMAIN t
      BY <2>2, <2>5
    <2>7. DiffersInOnePath(s, t)
      BY <2>4, <2>6 DEF DiffersInOnePath
    <2> QED
      BY <2>1, <2>3, <2>4, <2>5, <2>7, OtherPathsShow DEF s
  <1> HIDE DEF new
  <1>2. Call(IsOutside(at, Bound.paths), FALSE, new)
    BY DEF InsertPath, new
  <1> QED
    BY <1>1, <1>2, CallKeeps

LEMMA RemovePathKeeps ==
    ASSUME DrawingInv, NEW p \in Nat \ {0}, RemovePath(p) PROVE DrawingKept
  <1> DEFINE new == Drawing(RemoveAt(Bound.paths, p))
  <1>1. ASSUME drawingBinding # "none", ~(p > Len(Bound.paths)) PROVE Shown(Bound, new)
    <2> DEFINE s == Bound.paths
               t == RemoveAt(s, p)
    <2>1. Bound \in VectorAsset /\ s \in Seq(VectorPath) /\ Len(s) \in Nat /\ DOMAIN s = 1 .. Len(s)
      BY <1>1, BoundType
    <2>2. p \in 1 .. Len(s)
      BY <1>1, <2>1
    <2>3. new = [Bound EXCEPT !.paths = t]
      BY DEF Drawing
    <2> HIDE DEF s, new
    <2>4. t \in Seq(VectorPath) /\ Len(t) = Len(s) - 1
      BY <2>1, <2>2, RemoveAtProperties
    <2>5. DiffersInOnePath(s, t)
      BY <2>1, <2>2 DEF DiffersInOnePath
    <2> HIDE DEF t
    <2>6. t # s
      BY <2>1, <2>4
    <2> QED
      BY <2>1, <2>3, <2>4, <2>5, <2>6, OtherPathsShow DEF s
  <1> HIDE DEF new
  <1>2. Call(p > Len(Bound.paths), FALSE, new)
    BY DEF RemovePath, new
  <1> QED
    BY <1>1, <1>2, CallKeeps

LEMMA MovePathKeeps ==
    ASSUME DrawingInv, NEW p \in Nat \ {0}, NEW to \in Nat, MovePath(p, to) PROVE DrawingKept
  <1> DEFINE new == Drawing(MoveElement(Bound.paths, p, to))
             refused == p > Len(Bound.paths) \/ to >= Len(Bound.paths)
             same == p = to + 1
  <1>1. ASSUME drawingBinding # "none", ~refused, ~same PROVE Shown(Bound, new)
    <2> DEFINE s == Bound.paths
               i == to + 1
               r == RemoveAt(s, p)
               t == InsertAt(r, i, s[p])
    <2>1. Bound \in VectorAsset /\ s \in Seq(VectorPath) /\ Len(s) \in Nat /\ DOMAIN s = 1 .. Len(s)
      BY <1>1, BoundType
    <2>2. p \in 1 .. Len(s) /\ i \in 1 .. Len(s) /\ i # p
      BY <1>1, <2>1
    <2>3. new = [Bound EXCEPT !.paths = t]
      BY DEF Drawing, MoveElement
    <2> HIDE DEF s, i, new
    <2>4. r \in Seq(VectorPath) /\ Len(r) = Len(s) - 1 /\ s[p] \in VectorPath
      BY <2>1, <2>2, RemoveAtProperties, ElementOfSeq
    <2>5. i \in 1 .. Len(r) + 1
      BY <2>1, <2>2, <2>4
    <2>6. t \in Seq(VectorPath) /\ IsInsertion(t, r, i, s[p]) /\ RemoveAt(t, i) = r
      <3> HIDE DEF r
      <3> QED
        BY <2>4, <2>5, InsertAtProperties, RemoveTheInserted
    <2> HIDE DEF t
    <2>7. Len(t) = Len(s) /\ t[i] = s[p] /\ DOMAIN t = 1 .. Len(t)
      <3> HIDE DEF r
      <3> QED
        BY <2>1, <2>2, <2>4, <2>6, LenProperties DEF IsInsertion
    <2>8. DiffersInOnePath(s, t)
      BY <2>1, <2>2, <2>6, <2>7 DEF DiffersInOnePath
    <2>9. t = s => \E j, k \in DOMAIN s : j < k /\ s[j] = s[k]
      BY <2>1, <2>2, <2>7
    <2> QED
      BY <2>1, <2>3, <2>6, <2>8, <2>9, OtherPathsShow DEF s
  <1>2. Call(refused, same, new)
    BY DEF MovePath
  <1> HIDE DEF new, refused, same
  <1> QED
    BY <1>1, <1>2, CallKeeps

-----------------------------------------------------------------------------
(* One path, changed                                                         *)

LEMMA EditPathKeeps ==
    ASSUME DrawingInv, NEW p \in Nat \ {0}, NEW refused, NEW same, NEW path,
           EditPath(p, refused, same, path),
           drawingBinding # "none" /\ p \in 1 .. Len(Bound.paths) /\ ~refused /\ ~same
                => path \in VectorPath /\ path # Bound.paths[p]
    PROVE  DrawingKept
  <1> DEFINE new == Drawing(ReplaceAt(Bound.paths, p, path))
  <1>1. ASSUME drawingBinding # "none", ~(p > Len(Bound.paths) \/ refused), ~same
        PROVE  Shown(Bound, new)
    <2> DEFINE s == Bound.paths
               t == ReplaceAt(s, p, path)
    <2>1. Bound \in VectorAsset /\ s \in Seq(VectorPath) /\ Len(s) \in Nat /\ DOMAIN s = 1 .. Len(s)
      BY <1>1, BoundType
    <2>2. p \in 1 .. Len(s)
      BY <1>1, <2>1
    <2>3. path \in VectorPath /\ path # s[p]
      BY <1>1, <2>2
    <2>4. new = [Bound EXCEPT !.paths = t]
      BY DEF Drawing
    <2> HIDE DEF s, new
    <2>5. t \in Seq(VectorPath) /\ Len(t) = Len(s) /\ t[p] = path /\ RemoveAt(t, p) = RemoveAt(s, p)
      BY <2>1, <2>2, <2>3, RemoveTheReplaced
    <2> HIDE DEF t
    <2>6. DOMAIN t = 1 .. Len(s) /\ t # s
      BY <2>3, <2>5, LenProperties
    <2>7. DiffersInOnePath(s, t)
      BY <2>1, <2>2, <2>5, <2>6 DEF DiffersInOnePath
    <2> QED
      BY <2>1, <2>4, <2>5, <2>6, <2>7, OtherPathsShow DEF s
  <1> HIDE DEF new
  <1>2. Call(p > Len(Bound.paths) \/ refused, same, new)
    BY DEF EditPath, new
  <1> QED
    BY <1>1, <1>2, CallKeeps

LEMMA BoundPath ==
    ASSUME DrawingInv, drawingBinding # "none", NEW p \in 1 .. Len(Bound.paths)
    PROVE  /\ Bound.paths[p] \in VectorPath /\ CommandsOf(p) \in Seq(PathCommand)
           /\ Len(CommandsOf(p)) \in Nat
  <1>1. Bound.paths[p] \in VectorPath
    BY BoundType, ElementOfSeq
  <1>2. CommandsOf(p) \in Seq(PathCommand)
    BY <1>1 DEF VectorPath, CommandsOf
  <1> QED
    BY <1>1, <1>2, LenProperties

LEMMA EditCommandsKeeps ==
    ASSUME DrawingInv, NEW p \in Nat \ {0}, NEW refused, NEW same, NEW commands,
           EditCommands(p, refused, same, commands),
           drawingBinding # "none" /\ p \in 1 .. Len(Bound.paths) /\ ~refused /\ ~same
                => commands \in Seq(PathCommand) /\ commands # CommandsOf(p)
    PROVE  DrawingKept
  <1> DEFINE path == [Bound.paths[p] EXCEPT !.commands = commands]
  <1>1. ASSUME drawingBinding # "none", p \in 1 .. Len(Bound.paths), ~refused, ~same
        PROVE  path \in VectorPath /\ path # Bound.paths[p]
    <2>1. Bound.paths[p] \in VectorPath
      BY <1>1, BoundPath
    <2>2. commands \in Seq(PathCommand) /\ commands # Bound.paths[p].commands
      BY <1>1 DEF CommandsOf
    <2>3. path.commands = commands
      BY <2>1 DEF VectorPath
    <2>4. path \in VectorPath
      BY <2>1, <2>2 DEF VectorPath
    <2> HIDE DEF path
    <2> QED
      BY <2>2, <2>3, <2>4
  <1>2. EditPath(p, refused, same, path)
    BY DEF EditCommands
  <1> HIDE DEF path
  <1> QED
    BY <1>1, <1>2, EditPathKeeps

LEMMA InsertCommandKeeps ==
    ASSUME DrawingInv, NEW p \in Nat \ {0}, NEW at \in Nat \union {AppendIndex},
           NEW command \in PathCommand, InsertCommand(p, at, command)
    PROVE  DrawingKept
  <1> DEFINE refused == IsOutside(at, CommandsOf(p))
             new == Inserted(CommandsOf(p), at, command)
  <1>1. ASSUME drawingBinding # "none", p \in 1 .. Len(Bound.paths), ~refused
        PROVE  new \in Seq(PathCommand) /\ new # CommandsOf(p)
    <2> DEFINE s == CommandsOf(p)
               i == InsertionIndex(at, s) + 1
               t == InsertAt(s, i, command)
    <2>1. s \in Seq(PathCommand) /\ Len(s) \in Nat
      BY <1>1, BoundPath
    <2>2. i \in 1 .. Len(s) + 1
      BY <1>1, <2>1 DEF IsOutside, InsertionIndex, AppendIndex
    <2>3. new = t
      BY DEF Inserted
    <2> HIDE DEF s, i, new
    <2>4. t \in Seq(PathCommand) /\ IsInsertion(t, s, i, command)
      BY <2>1, <2>2, InsertAtProperties
    <2> HIDE DEF t
    <2> QED
      BY <2>1, <2>3, <2>4 DEF IsInsertion, s
  <1>2. EditCommands(p, refused, FALSE, new)
    BY DEF InsertCommand
  <1> HIDE DEF new, refused
  <1> QED
    BY <1>1, <1>2, EditCommandsKeeps

LEMMA ReplaceCommandKeeps ==
    ASSUME DrawingInv, NEW p \in Nat \ {0}, NEW c \in Nat \ {0}, NEW command \in PathCommand,
           ReplaceCommand(p, c, command)
    PROVE  DrawingKept
  <1> DEFINE refused == c > Len(CommandsOf(p))
             same == CommandsOf(p)[c] = command
             new == ReplaceAt(CommandsOf(p), c, command)
  <1>1. ASSUME drawingBinding # "none", p \in 1 .. Len(Bound.paths), ~refused, ~same
        PROVE  new \in Seq(PathCommand) /\ new # CommandsOf(p)
    <2>1. CommandsOf(p) \in Seq(PathCommand) /\ c \in 1 .. Len(CommandsOf(p))
      BY <1>1, BoundPath
    <2>2. new \in Seq(PathCommand) /\ new[c] = command
      BY <2>1, RemoveTheReplaced
    <2> HIDE DEF new
    <2> QED
      BY <1>1, <2>2
  <1>2. EditCommands(p, refused, same, new)
    BY DEF ReplaceCommand
  <1> HIDE DEF new, refused, same
  <1> QED
    BY <1>1, <1>2, EditCommandsKeeps

LEMMA RemoveCommandKeeps ==
    ASSUME DrawingInv, NEW p \in Nat \ {0}, NEW c \in Nat \ {0}, RemoveCommand(p, c)
    PROVE  DrawingKept
  <1> DEFINE refused == c > Len(CommandsOf(p))
             new == RemoveAt(CommandsOf(p), c)
  <1>1. ASSUME drawingBinding # "none", p \in 1 .. Len(Bound.paths), ~refused
        PROVE  new \in Seq(PathCommand) /\ new # CommandsOf(p)
    <2>1. CommandsOf(p) \in Seq(PathCommand) /\ c \in 1 .. Len(CommandsOf(p))
      BY <1>1, BoundPath
    <2>2. new \in Seq(PathCommand) /\ Len(new) = Len(CommandsOf(p)) - 1
      BY <2>1, RemoveAtProperties
    <2>3. Len(CommandsOf(p)) \in Nat
      BY <1>1, BoundPath
    <2> HIDE DEF new
    <2> QED
      BY <2>2, <2>3
  <1>2. EditCommands(p, refused, FALSE, new)
    BY DEF RemoveCommand
  <1> HIDE DEF new, refused
  <1> QED
    BY <1>1, <1>2, EditCommandsKeeps

LEMMA CloseOfKeeps ==
    ASSUME DrawingInv, NEW p \in Nat \ {0}, CloseOf(p) PROVE DrawingKept
  <1> DEFINE new == Append(CommandsOf(p), ClosePath)
             same == EndsClosed(CommandsOf(p))
  <1>1. ASSUME drawingBinding # "none", p \in 1 .. Len(Bound.paths)
        PROVE  new \in Seq(PathCommand) /\ new # CommandsOf(p)
    <2>1. CommandsOf(p) \in Seq(PathCommand) /\ Len(CommandsOf(p)) \in Nat
      BY <1>1, BoundPath
    <2>2. ClosePath \in PathCommand
      BY DEF ClosePath, Command, PathCommand
    <2>3. new \in Seq(PathCommand) /\ Len(new) = Len(CommandsOf(p)) + 1
      BY <2>1, <2>2, AppendProperties
    <2> HIDE DEF new
    <2> QED
      BY <2>1, <2>3
  <1>2. EditCommands(p, FALSE, same, new)
    BY DEF CloseOf
  <1> HIDE DEF new, same
  <1> QED
    BY <1>1, <1>2, EditCommandsKeeps

LEMMA OpenOfKeeps ==
    ASSUME DrawingInv, NEW p \in Nat \ {0}, OpenOf(p) PROVE DrawingKept
  <1> DEFINE new == Front(CommandsOf(p))
             same == ~EndsClosed(CommandsOf(p))
  <1>1. ASSUME drawingBinding # "none", p \in 1 .. Len(Bound.paths), ~same
        PROVE  new \in Seq(PathCommand) /\ new # CommandsOf(p)
    <2> DEFINE s == CommandsOf(p)
    <2>1. s \in Seq(PathCommand) /\ Len(s) \in Nat /\ s # <<>>
      BY <1>1, BoundPath DEF EndsClosed
    <2>2. Len(s) # 0
      BY <2>1, EmptySeq
    <2>3. new = SubSeq(s, 1, Len(s) - 1)
      BY DEF Front
    <2> HIDE DEF s, new
    <2>4. /\ Len(s) - 1 \in Nat
          /\ \A i \in 1 .. Len(s) - 1 : s[i] \in PathCommand
      BY <2>1, <2>2, ElementOfSeq
    <2>5. new \in Seq(PathCommand) /\ Len(new) = Len(s) - 1
      <3> DEFINE n == Len(s) - 1
      <3>1. n \in Int /\ 1 \in Int /\ \A i \in 1 .. n : s[i] \in PathCommand
        BY <2>4
      <3>2. n >= 0
        BY <2>4
      <3>3. new = SubSeq(s, 1, n)
        BY <2>3
      <3> HIDE DEF n
      <3>4. /\ SubSeq(s, 1, n) \in Seq(PathCommand)
            /\ Len(SubSeq(s, 1, n)) = IF 1 <= n THEN n - 1 + 1 ELSE 0
        BY <3>1, SubSeqProperties
      <3>5. Len(new) = n
        BY <3>1, <3>2, <3>3, <3>4
      <3> QED
        BY <3>3, <3>4, <3>5 DEF n
    <2> QED
      BY <2>1, <2>2, <2>5 DEF s
  <1>2. EditCommands(p, FALSE, same, new)
    BY DEF OpenOf
  <1> HIDE DEF new, same
  <1> QED
    BY <1>1, <1>2, EditCommandsKeeps

LEMMA SetPointKeeps ==
    ASSUME DrawingInv, NEW p \in Nat \ {0}, NEW c \in Nat \ {0}, NEW n, NEW point \in Plane,
           NEW refused, SetPoint(p, c, n, point, refused),
           drawingBinding # "none" /\ p \in 1 .. Len(Bound.paths)
           /\ c \in 1 .. Len(CommandsOf(p)) /\ ~refused
                => n \in 1 .. Len(CommandsOf(p)[c].points)
    PROVE  DrawingKept
  <1> DEFINE outside == c > Len(CommandsOf(p)) \/ refused
             command == CommandsOf(p)[c]
             same == command.points[n] = point
             moved == [command EXCEPT !.points[n] = point]
             new == ReplaceAt(CommandsOf(p), c, moved)
  <1>1. ASSUME drawingBinding # "none", p \in 1 .. Len(Bound.paths), ~outside, ~same
        PROVE  new \in Seq(PathCommand) /\ new # CommandsOf(p)
    <2>1. CommandsOf(p) \in Seq(PathCommand) /\ c \in 1 .. Len(CommandsOf(p))
      BY <1>1, BoundPath
    <2>2. command \in PathCommand /\ n \in 1 .. Len(command.points)
      BY <1>1, <2>1, ElementOfSeq
    <2>3. command.points \in Seq(Plane)
      BY <2>2 DEF PathCommand
    <2> DEFINE points == [command.points EXCEPT ![n] = point]
    <2>4. points \in Seq(Plane) /\ points[n] = point
      BY <2>2, <2>3, ExceptSeq
    <2>5. moved \in PathCommand /\ moved.points = points
      BY <2>2, <2>4 DEF PathCommand
    <2>6. moved # command
      BY <1>1, <2>4, <2>5
    <2> HIDE DEF moved
    <2>7. new \in Seq(PathCommand) /\ new[c] = moved
      BY <2>1, <2>5, RemoveTheReplaced
    <2> HIDE DEF new
    <2> QED
      BY <2>6, <2>7
  <1>2. EditCommands(p, outside, same, new)
    BY DEF SetPoint
  <1> HIDE DEF new, outside, same
  <1> QED
    BY <1>1, <1>2, EditCommandsKeeps

LEMMA SetAnchorPointKeeps ==
    ASSUME DrawingInv, NEW p \in Nat \ {0}, NEW c \in Nat \ {0}, NEW point \in Plane,
           SetAnchorPoint(p, c, point)
    PROVE  DrawingKept
  <1> DEFINE points == CommandsOf(p)[c].points
             n == Len(points)
             refused == points = <<>>
  <1>1. ASSUME drawingBinding # "none", p \in 1 .. Len(Bound.paths),
               c \in 1 .. Len(CommandsOf(p)), ~refused
        PROVE  n \in 1 .. Len(points)
    <2>1. CommandsOf(p)[c] \in PathCommand
      BY <1>1, BoundPath, ElementOfSeq
    <2>2. points \in Seq(Plane)
      BY <2>1 DEF PathCommand
    <2> HIDE DEF points
    <2>3. Len(points) \in Nat /\ Len(points) # 0
      BY <1>1, <2>2, LenProperties, EmptySeq
    <2> QED
      BY <2>3
  <1>2. SetPoint(p, c, n, point, refused)
    BY DEF SetAnchorPoint
  <1> HIDE DEF n, refused
  <1> QED
    BY <1>1, <1>2, SetPointKeeps

LEMMA SetControlPointKeeps ==
    ASSUME DrawingInv, NEW p \in Nat \ {0}, NEW c \in Nat \ {0}, NEW n \in Nat \ {0},
           NEW point \in Plane, SetControlPoint(p, c, n, point)
    PROVE  DrawingKept
  <1> DEFINE points == CommandsOf(p)[c].points
             refused == n >= Len(points)
  <1>1. ASSUME drawingBinding # "none", p \in 1 .. Len(Bound.paths),
               c \in 1 .. Len(CommandsOf(p)), ~refused
        PROVE  n \in 1 .. Len(points)
    <2>1. CommandsOf(p)[c] \in PathCommand
      BY <1>1, BoundPath, ElementOfSeq
    <2>2. points \in Seq(Plane)
      BY <2>1 DEF PathCommand
    <2> HIDE DEF points
    <2>3. Len(points) \in Nat
      BY <2>2, LenProperties
    <2> QED
      BY <1>1, <2>3
  <1>2. SetPoint(p, c, n, point, refused)
    BY DEF SetControlPoint
  <1> HIDE DEF refused
  <1> QED
    BY <1>1, <1>2, SetPointKeeps

LEMMA SetPathPaintKeeps ==
    ASSUME DrawingInv, NEW p \in Nat \ {0}, NEW fill \in Fills, NEW stroke \in Strokes,
           SetPathPaint(p, fill, stroke)
    PROVE  DrawingKept
  <1> DEFINE old == Bound.paths[p]
             same == old.fill = fill /\ old.stroke = stroke
             new == [old EXCEPT !.fill = fill, !.stroke = stroke]
  <1>1. ASSUME drawingBinding # "none", p \in 1 .. Len(Bound.paths), ~same
        PROVE  new \in VectorPath /\ new # old
    <2>1. old \in VectorPath
      BY <1>1, BoundPath
    <2>2. new \in VectorPath /\ new.fill = fill /\ new.stroke = stroke
      BY <2>1 DEF VectorPath
    <2> HIDE DEF new
    <2> QED
      BY <1>1, <2>2
  <1>2. EditPath(p, FALSE, same, new)
    BY DEF SetPathPaint
  <1> HIDE DEF new, same
  <1> QED
    BY <1>1, <1>2, EditPathKeeps

-----------------------------------------------------------------------------
(* Every step                                                                *)

(* The commands that calls make of the points they are given.                *)
LEMMA CommandsAreTyped ==
    ASSUME NEW a \in Plane, NEW b \in Plane, NEW d \in Plane
    PROVE  /\ MoveTo(a) \in PathCommand /\ LineTo(a) \in PathCommand
           /\ QuadraticTo(a, b) \in PathCommand /\ CubicTo(a, b, d) \in PathCommand
  BY DEF MoveTo, LineTo, QuadraticTo, CubicTo, Command, PathCommand

(* Calls count from 1, or name a place from 0.                               *)
LEMMA NumbersArePlaces ==
    ASSUME DrawingCallsAssumption
    PROVE  Numbers \subseteq Nat \ {0} /\ Indices \subseteq Nat /\ Extents \subseteq Int
  BY DEF DrawingCallsAssumption, Indices

LEMMA EditDrawnPathsKeep ==
    ASSUME DrawingCallsAssumption, DrawingInv, EditDrawnPaths PROVE DrawingKept
  <1>1. CASE \E extent \in Extents : SetViewport(extent)
    BY <1>1, NumbersArePlaces, SetViewportKeeps
  <1>2. CASE \E path \in NewPaths, at \in Indices \union {AppendIndex} : InsertPath(path, at)
    <2>1. PICK path \in NewPaths, at \in Indices \union {AppendIndex} : InsertPath(path, at)
      BY <1>2
    <2>2. path \in VectorPath /\ at \in Nat \union {AppendIndex}
      BY NumbersArePlaces DEF DrawingCallsAssumption
    <2> QED
      BY <2>1, <2>2, InsertPathKeeps
  <1>3. CASE \E fill \in Fills, stroke \in Strokes : CreatePath(NaN, fill, stroke, AppendIndex)
    <2>1. PICK fill \in Fills, stroke \in Strokes : CreatePath(NaN, fill, stroke, AppendIndex)
      BY <1>3
    <2>2. MoveTo(NaN) \in PathCommand
      BY CommandsAreTyped DEF DrawingCallsAssumption
    <2>3. Path(<<MoveTo(NaN)>>, fill, stroke) \in VectorPath
      BY <2>2 DEF Path, VectorPath
    <2> QED
      BY <2>1, <2>3, InsertPathKeeps DEF CreatePath
  <1>4. CASE \E p \in Numbers : RemovePath(p) \/ \E to \in Indices : MovePath(p, to)
    BY <1>4, NumbersArePlaces, RemovePathKeeps, MovePathKeeps
  <1>5. CASE \E p \in Numbers, fill \in Fills, stroke \in Strokes : SetPathPaint(p, fill, stroke)
    BY <1>5, NumbersArePlaces, SetPathPaintKeeps
  <1> QED
    BY <1>1, <1>2, <1>3, <1>4, <1>5 DEF EditDrawnPaths

LEMMA EditCommandsOfKeep ==
    ASSUME DrawingCallsAssumption, DrawingInv, NEW p \in Nat \ {0}, EditCommandsOf(p)
    PROVE  DrawingKept
  <1>1. CASE \E command \in NewCommands, at \in Indices \union {AppendIndex} :
                InsertCommand(p, at, command)
    <2>1. PICK command \in NewCommands, at \in Indices \union {AppendIndex} :
                InsertCommand(p, at, command)
      BY <1>1
    <2>2. command \in PathCommand /\ at \in Nat \union {AppendIndex}
      BY NumbersArePlaces DEF DrawingCallsAssumption
    <2> QED
      BY <2>1, <2>2, InsertCommandKeeps
  <1>2. CASE \E command \in NewCommands, c \in Numbers : ReplaceCommand(p, c, command)
    BY <1>2, NumbersArePlaces, ReplaceCommandKeeps DEF DrawingCallsAssumption
  <1>3. CASE \E c \in Numbers : RemoveCommand(p, c)
    BY <1>3, NumbersArePlaces, RemoveCommandKeeps
  <1>4. CASE CloseOf(p) \/ OpenOf(p)
    BY <1>4, NumbersArePlaces, CloseOfKeeps, OpenOfKeeps
  <1> QED
    BY <1>1, <1>2, <1>3, <1>4 DEF EditCommandsOf

LEMMA EditPointsKeep ==
    ASSUME DrawingCallsAssumption, DrawingInv, NEW p \in Nat \ {0}, EditPoints(p)
    PROVE  DrawingKept
  <1>1. PICK point \in Points :
            \/ AppendMoveTo(p, point) \/ AppendLineTo(p, point)
            \/ \E control \in Points : AppendQuadraticBezierTo(p, control, point)
                                       \/ AppendCubicBezierTo(p, control, point, point)
            \/ \E c \in Numbers : SetAnchorPoint(p, c, point)
                                 \/ \E n \in Numbers : SetControlPoint(p, c, n, point)
    BY DEF EditPoints
  <1>2. point \in Plane /\ Points \subseteq Plane
    BY DEF DrawingCallsAssumption
  <1>3. ASSUME NEW command \in PathCommand, InsertCommand(p, AppendIndex, command)
        PROVE  DrawingKept
    BY <1>3, NumbersArePlaces, InsertCommandKeeps
  <1>4. CASE AppendMoveTo(p, point) \/ AppendLineTo(p, point)
    BY <1>2, <1>3, <1>4, CommandsAreTyped DEF AppendMoveTo, AppendLineTo
  <1>5. CASE \E control \in Points : AppendQuadraticBezierTo(p, control, point)
                                     \/ AppendCubicBezierTo(p, control, point, point)
    <2>1. PICK control \in Points : AppendQuadraticBezierTo(p, control, point)
                                    \/ AppendCubicBezierTo(p, control, point, point)
      BY <1>5
    <2>2. /\ QuadraticTo(control, point) \in PathCommand
          /\ CubicTo(control, point, point) \in PathCommand
      BY <1>2, CommandsAreTyped
    <2> QED
      BY <1>3, <2>1, <2>2 DEF AppendQuadraticBezierTo, AppendCubicBezierTo
  <1>6. CASE \E c \in Numbers : SetAnchorPoint(p, c, point)
                               \/ \E n \in Numbers : SetControlPoint(p, c, n, point)
    BY <1>2, <1>6, NumbersArePlaces, SetAnchorPointKeeps, SetControlPointKeeps
  <1> QED
    BY <1>1, <1>4, <1>5, <1>6

LEMMA FreshIsTyped == ASSUME DrawingCallsAssumption PROVE Fresh \subseteq VectorAsset
  <1>1. NoVector \in VectorAsset
    BY DEF NoVector, VectorAsset
  <1> QED
    BY <1>1 DEF Fresh, DrawingCallsAssumption

LEMMA DrawingInitIsTyped == ASSUME DrawingCallsAssumption, DrawingInit PROVE DrawingInv
  BY FreshIsTyped DEF DrawingInit, DrawingInv, DrawingTypeOK

LEMMA DrawingStep ==
    ASSUME DrawingCallsAssumption, DrawingInv, [DrawingNext]_drawingVars PROVE DrawingKept
  <1>1. ASSUME NEW id \in DrawingIds, BindDrawing(id) PROVE DrawingKept
    <2>1. DrawingInv'
      BY <1>1 DEF BindDrawing, DrawingInv, DrawingTypeOK
    <2> QED
      BY <1>1, <2>1, NoEditKeeps DEF BindDrawing
  <1>2. ASSUME NEW id \in DrawingIds, NEW asset \in Fresh, PutAsset(id, asset)
        PROVE  DrawingKept
    <2>1. asset \in VectorAsset
      BY FreshIsTyped
    <2>2. DrawingInv'
      BY <1>2, <2>1 DEF PutAsset, DrawingInv, DrawingTypeOK
    <2> QED
      BY <1>2, <2>2, NoEditKeeps DEF PutAsset
  <1>3. CASE UnbindDrawing
    <2>1. DrawingInv'
      BY <1>3 DEF UnbindDrawing, DrawingInv, DrawingTypeOK
    <2> QED
      BY <1>3, <2>1, NoEditKeeps DEF UnbindDrawing
  <1>4. CASE DrawingFileGoes
    <2>1. DrawingInv'
      BY <1>4 DEF DrawingFileGoes, DrawingInv, DrawingTypeOK
    <2> QED
      BY <1>4, <2>1, NoEditKeeps DEF DrawingFileGoes
  <1>5. CASE UNCHANGED drawingVars
    <2>1. DrawingInv'
      BY <1>5 DEF drawingVars, DrawingInv, DrawingTypeOK
    <2> QED
      BY <1>5, <2>1, NoEditKeeps DEF drawingVars
  <1>6. CASE EditDrawnPaths
    BY <1>6, EditDrawnPathsKeep
  <1>7. CASE \E p \in Numbers : EditCommandsOf(p) \/ EditPoints(p)
    BY <1>7, NumbersArePlaces, EditCommandsOfKeep, EditPointsKeep
  <1> QED
    BY <1>1, <1>2, <1>3, <1>4, <1>5, <1>6, <1>7 DEF DrawingNext

(* The assets are well-formed, and an editor that is bound names one of      *)
(* them: whatever editors, owners and files do.                              *)
THEOREM DrawingTypeCorrect ==
    ASSUME DrawingCallsAssumption PROVE DrawingSpec => []DrawingTypeOK
  <1>1. DrawingInit => DrawingInv
    BY DrawingInitIsTyped
  <1>2. DrawingInv /\ [DrawingNext]_drawingVars => DrawingInv'
    BY DrawingStep DEF DrawingKept
  <1>3. DrawingInv => DrawingTypeOK
    BY DEF DrawingInv
  <1> QED
    BY <1>1, <1>2, <1>3, PTL DEF DrawingSpec

(* An edit that counts shows in one path of the bound asset or in its        *)
(* viewport, leaves the document valid and touches no other asset: for any   *)
(* number of assets, paths and commands.                                     *)
THEOREM EditsShowInTheDrawingCorrect ==
    ASSUME DrawingCallsAssumption PROVE DrawingSpec => EditsShowInTheDrawing
  <1>1. DrawingInit => DrawingInv
    BY DrawingInitIsTyped
  <1>2. DrawingInv /\ [DrawingNext]_drawingVars => DrawingInv'
    BY DrawingStep DEF DrawingKept
  <1>3. DrawingInv /\ [DrawingNext]_drawingVars => [EditShown]_drawingVars
    BY DrawingStep DEF DrawingKept
  <1>4. DrawingSpec => [][EditShown]_drawingVars
    BY <1>1, <1>2, <1>3, PTL DEF DrawingSpec
  <1> QED
    BY <1>4 DEF EditsShowInTheDrawing, EditShown

-----------------------------------------------------------------------------
(* Sequences in another order                                                *)

(* Precedes is an order of the places: no two are equal, and each two are    *)
(* related.                                                                  *)
IsOrder(precedes, places) ==
    /\ \A i \in places : <<i, i>> \in precedes
    /\ \A i, j \in places : \/ <<i, j>> \in precedes
                            \/ <<j, i>> \in precedes
    /\ \A i, j \in places : <<i, j>> \in precedes /\ <<j, i>> \in precedes => i = j
    /\ \A i, j, k \in places : <<i, j>> \in precedes /\ <<j, k>> \in precedes => <<i, k>> \in precedes

UpTo(precedes, places, i) == {j \in places : <<j, i>> \in precedes}

(* Places in an order are counted through.                                   *)
LEMMA EveryRankIsTaken ==
    ASSUME NEW places, IsFiniteSet(places), NEW precedes, IsOrder(precedes, places)
    PROVE  \A n \in 1 .. Cardinality(places) :
                \E i \in places : Cardinality(UpTo(precedes, places, i)) = n
  <1> DEFINE Before(i) == UpTo(precedes, places, i)
             rank == [i \in places |-> Cardinality(Before(i))]
             ranks == 1 .. Cardinality(places)
  <1>1. ASSUME NEW i \in places
        PROVE  Before(i) \subseteq places /\ i \in Before(i) /\ IsFiniteSet(Before(i))
    <2>1. Before(i) \subseteq places /\ i \in Before(i)
      BY DEF UpTo, IsOrder
    <2> QED
      BY <2>1, FS_Subset
  <1>2. Cardinality(places) \in Nat
    BY FS_CardinalityType
  <1>3. ASSUME NEW i \in places PROVE rank[i] \in ranks
    <2>1. Cardinality(Before(i)) \in Nat /\ Cardinality(Before(i)) <= Cardinality(places)
      BY <1>1, FS_CardinalityType, FS_Subset
    <2>2. Cardinality(Before(i)) # 0
      BY <1>1, FS_EmptySet
    <2> QED
      BY <1>2, <2>1, <2>2
  <1>4. ASSUME NEW i \in places, NEW j \in places, rank[i] = rank[j] PROVE i = j
    <2>1. ASSUME NEW a \in places, NEW b \in places, rank[a] = rank[b], <<a, b>> \in precedes
          PROVE  a = b
      <3>1. Before(a) \subseteq Before(b)
        BY <2>1 DEF UpTo, IsOrder
      <3>2. Before(a) = Before(b)
        BY <1>1, <2>1, <3>1, FS_Subset
      <3>3. b \in Before(a)
        BY <1>1, <3>2
      <3> QED
        BY <2>1, <3>3 DEF UpTo, IsOrder
    <2> QED
      BY <1>4, <2>1 DEF IsOrder
  <1>5. rank \in Injection(places, ranks)
    BY <1>3, <1>4 DEF Injection, IsInjective
  <1>6. IsFiniteSet(ranks) /\ Cardinality(ranks) = Cardinality(places)
    BY <1>2, FS_Interval
  <1>7. rank \in Surjection(places, ranks)
    BY <1>5, <1>6, FS_Injection
  <1> QED
    BY <1>7 DEF Surjection

(* Elements in the order of ranks that are all taken are a sequence.         *)
LEMMA ArrangedType ==
    ASSUME NEW S, NEW s, NEW places, IsFiniteSet(places), \A i \in places : s[i] \in S,
           NEW precedes, IsOrder(precedes, places),
           NEW rank, rank = [i \in places |-> Cardinality(UpTo(precedes, places, i))]
    PROVE  Arranged(s, rank) \in Seq(S)
  <1> DEFINE Place(n) == CHOOSE i \in places : rank[i] = n
             t == [n \in 1 .. Cardinality(places) |-> s[Place(n)]]
  <1>1. DOMAIN rank = places /\ Cardinality(places) \in Nat
    BY FS_CardinalityType
  <1>2. Arranged(s, rank) = t
    BY <1>1 DEF Arranged
  <1>3. ASSUME NEW n \in 1 .. Cardinality(places) PROVE Place(n) \in places
    <2>1. PICK i \in places : Cardinality(UpTo(precedes, places, i)) = n
      BY EveryRankIsTaken
    <2>2. rank[i] = n
      BY <2>1
    <2> QED
      BY <2>2
  <1>4. t \in Seq(S)
    <2>1. \A n \in 1 .. Cardinality(places) : s[Place(n)] \in S
      BY <1>3
    <2> HIDE DEF Place
    <2> QED
      BY <1>1, <2>1
  <1> QED
    BY <1>2, <1>4

(* The positions of a sequence, and sets of them, are finite.                *)
LEMMA PlacesAreFinite ==
    ASSUME NEW S, NEW s \in Seq(S), NEW places, places \subseteq DOMAIN s
    PROVE  /\ IsFiniteSet(places) /\ places \subseteq Nat
           /\ Cardinality(places) \in Nat /\ Cardinality(places) <= Len(s)
           /\ \A i \in places : s[i] \in S
  <1>1. DOMAIN s = 1 .. Len(s) /\ Len(s) \in Nat
    BY LenProperties
  <1>2. IsFiniteSet(DOMAIN s) /\ Cardinality(DOMAIN s) = Len(s)
    <2>1. 1 \in Int /\ Len(s) \in Int
      BY <1>1
    <2>2. /\ IsFiniteSet(1 .. Len(s))
          /\ Cardinality(1 .. Len(s)) = IF 1 > Len(s) THEN 0 ELSE Len(s) - 1 + 1
      BY <2>1, FS_Interval
    <2> QED
      BY <1>1, <2>2
  <1>3. IsFiniteSet(places) /\ Cardinality(places) <= Len(s)
    BY <1>2, FS_Subset
  <1> QED
    BY <1>1, <1>3, FS_CardinalityType, ElementOfSeq

(* What stays of a sequence is a sequence.                                   *)
LEMMA KeptType ==
    ASSUME NEW S, NEW s \in Seq(S), NEW places, places \subseteq DOMAIN s
    PROVE  Kept(s, places) \in Seq(S)
  <1> DEFINE precedes == {p \in places \X places : p[1] <= p[2]}
             rank == [i \in places |-> Cardinality({j \in places : j <= i})]
  <1>1. IsFiniteSet(places) /\ places \subseteq Nat /\ \A i \in places : s[i] \in S
    BY PlacesAreFinite
  <1>2. \A i, j \in places : <<i, j>> \in precedes <=> i <= j
    OBVIOUS
  <1> HIDE DEF precedes
  <1>3. IsOrder(precedes, places)
    BY <1>1, <1>2 DEF IsOrder
  <1>4. \A i \in places : UpTo(precedes, places, i) = {j \in places : j <= i}
    BY <1>2 DEF UpTo
  <1>5. rank = [i \in places |-> Cardinality(UpTo(precedes, places, i))]
    BY <1>4
  <1>6. Kept(s, places) = Arranged(s, rank)
    BY DEF Kept
  <1> HIDE DEF rank
  <1> QED
    BY <1>1, <1>3, <1>5, <1>6, ArrangedType

(* What std::stable_sort leaves is a sequence of the same length.            *)
LEMMA SortedByType ==
    ASSUME NEW S, NEW s \in Seq(S), NEW number, \A i \in DOMAIN s : number[i] \in Int
    PROVE  SortedBy(s, number) \in Seq(S)
  <1> DEFINE places == DOMAIN s
             First(j, i) == \/ number[j] < number[i]
                            \/ number[j] = number[i] /\ j <= i
             precedes == {p \in places \X places : First(p[1], p[2])}
             rank == [i \in places |-> Cardinality({j \in places : First(j, i)})]
  <1>1. IsFiniteSet(places) /\ places \subseteq Nat /\ \A i \in places : s[i] \in S
    BY PlacesAreFinite
  <1>2. \A i, j \in places : <<j, i>> \in precedes <=> First(j, i)
    OBVIOUS
  <1>3. SortedBy(s, number) = Arranged(s, rank)
    BY DEF SortedBy
  <1> HIDE DEF precedes
  <1>4. IsOrder(precedes, places)
    BY <1>1, <1>2 DEF IsOrder
  <1>5. \A i \in places : UpTo(precedes, places, i) = {j \in places : First(j, i)}
    BY <1>2 DEF UpTo
  <1>6. rank = [i \in places |-> Cardinality(UpTo(precedes, places, i))]
    BY <1>5
  <1> HIDE DEF rank, places
  <1> QED
    BY <1>1, <1>3, <1>4, <1>6, ArrangedType

(* An element changed, wherever it is.                                       *)
LEMMA ChangedType ==
    ASSUME NEW S, NEW s \in Seq(S), NEW i, NEW e, i \in DOMAIN s => e \in S
    PROVE  [s EXCEPT ![i] = e] \in Seq(S)
  <1>1. CASE i \in DOMAIN s
    <2>1. i \in 1 .. Len(s) /\ e \in S
      BY <1>1, LenProperties
    <2> QED
      BY <2>1, ExceptSeq
  <1>2. CASE i \notin DOMAIN s
    <2>1. [s EXCEPT ![i] = e] = s
      BY <1>2
    <2> QED
      BY <2>1
  <1> QED
    BY <1>1, <1>2

(* An element put in at a position that is not outside.                      *)
LEMMA InsertedType ==
    ASSUME NEW S, NEW s \in Seq(S), NEW at \in Nat \union {AppendIndex}, ~IsOutside(at, s),
           NEW e \in S
    PROVE  Inserted(s, at, e) \in Seq(S)
  <1>1. Len(s) \in Nat
    BY LenProperties
  <1>2. InsertionIndex(at, s) + 1 \in 1 .. Len(s) + 1
    BY <1>1 DEF IsOutside, InsertionIndex, AppendIndex
  <1> QED
    BY <1>2, InsertAtProperties DEF Inserted

(* An element taken out and put in elsewhere.                                *)
LEMMA MovedType ==
    ASSUME NEW S, NEW s \in Seq(S), NEW from \in DOMAIN s, NEW to \in Nat, to < Len(s)
    PROVE  MoveElement(s, from, to) \in Seq(S)
  <1>1. Len(s) \in Nat /\ from \in 1 .. Len(s)
    BY LenProperties
  <1>2. RemoveAt(s, from) \in Seq(S) /\ Len(RemoveAt(s, from)) = Len(s) - 1 /\ s[from] \in S
    BY <1>1, RemoveAtProperties, ElementOfSeq
  <1>3. to + 1 \in 1 .. Len(RemoveAt(s, from)) + 1
    BY <1>1, <1>2
  <1> DEFINE t == RemoveAt(s, from)
  <1> HIDE DEF t
  <1>4. InsertAt(t, to + 1, s[from]) \in Seq(S)
    BY <1>2, <1>3, InsertAtProperties DEF t
  <1> QED
    BY <1>4 DEF MoveElement, t

(* What has an id is found at a position.                                    *)
LEMMA ItemProperties ==
    ASSUME NEW s, NEW id, Has(s, id)
    PROVE  Item(s, id) \in DOMAIN s /\ s[Item(s, id)].id = id /\ Found(s, id).id = id
  BY DEF Has, Item, Found

LEMMA FoundType ==
    ASSUME NEW S, NEW s \in Seq(S), NEW id, Has(s, id)
    PROVE  /\ Item(s, id) \in DOMAIN s /\ DOMAIN s = 1 .. Len(s)
           /\ Found(s, id) \in S /\ Found(s, id).id = id
  <1>1. Item(s, id) \in DOMAIN s /\ Found(s, id).id = id
    BY ItemProperties
  <1> QED
    BY <1>1, LenProperties, ElementOfSeq DEF Found

-----------------------------------------------------------------------------
(* What the order of a rearranged sequence is                                *)

(* A set of numbers that is not empty has a least one.                       *)
LEMMA LeastNumber ==
    ASSUME NEW T \in SUBSET Nat, T # {}
    PROVE  \E n \in T : \A m \in T : n <= m
  <1> DEFINE R == OpToRel(<, Nat)
  <1>1. IsWellFoundedOn(R, Nat)
    BY NatLessThanWellFounded
  <1>2. \A m, n \in Nat : m < n => <<m, n>> \in R
    BY DEF OpToRel
  <1> HIDE DEF R
  <1>3. PICK n \in T : \A m \in T : <<m, n>> \notin R
    BY <1>1, WFMin
  <1>4. \A m \in T : ~(m < n)
    BY <1>2, <1>3
  <1> QED
    BY <1>4

(* t has the elements that s has at some places, in an order of the places.  *)
Rearranges(t, s, places, precedes) ==
    \E from \in [DOMAIN t -> places] :
        /\ \A n \in DOMAIN from : t[n] = s[from[n]]
        /\ \A i \in places : \E n \in DOMAIN from : from[n] = i
        /\ \A n, m \in DOMAIN from : n < m =>
                <<from[n], from[m]>> \in precedes /\ from[n] # from[m]

(* What is at each place was somewhere, and the places are in order.         *)
LEMMA ArrangedOrder ==
    ASSUME NEW s, NEW places, IsFiniteSet(places), NEW precedes, IsOrder(precedes, places),
           NEW rank, rank = [i \in places |-> Cardinality(UpTo(precedes, places, i))]
    PROVE  Rearranges(Arranged(s, rank), s, places, precedes)
  <1> DEFINE ranks == 1 .. Cardinality(places)
             from == [n \in ranks |-> CHOOSE i \in places : rank[i] = n]
  <1>1. DOMAIN rank = places /\ Cardinality(places) \in Nat
    BY FS_CardinalityType
  <1>2. DOMAIN Arranged(s, rank) = ranks
    BY <1>1 DEF Arranged
  <1>3. ASSUME NEW n \in ranks PROVE from[n] \in places /\ rank[from[n]] = n
    <2>1. PICK i \in places : Cardinality(UpTo(precedes, places, i)) = n
      BY EveryRankIsTaken
    <2>2. rank[i] = n
      BY <2>1
    <2> QED
      BY <2>2
  <1>4. \A n \in ranks : Arranged(s, rank)[n] = s[from[n]]
    BY <1>1 DEF Arranged
  <1>5. ASSUME NEW i \in places
        PROVE  /\ UpTo(precedes, places, i) \subseteq places /\ IsFiniteSet(UpTo(precedes, places, i))
               /\ rank[i] \in ranks /\ i \in UpTo(precedes, places, i)
    <2>1. UpTo(precedes, places, i) \subseteq places /\ i \in UpTo(precedes, places, i)
      BY DEF UpTo, IsOrder
    <2>2. IsFiniteSet(UpTo(precedes, places, i))
      BY <2>1, FS_Subset
    <2>3. /\ Cardinality(UpTo(precedes, places, i)) \in Nat
          /\ Cardinality(UpTo(precedes, places, i)) <= Cardinality(places)
      BY <2>1, <2>2, FS_CardinalityType, FS_Subset
    <2>4. Cardinality(UpTo(precedes, places, i)) # 0
      BY <2>1, <2>2, FS_EmptySet
    <2> QED
      BY <1>1, <2>1, <2>2, <2>3, <2>4
  <1>6. ASSUME NEW i \in places, NEW j \in places, <<j, i>> \in precedes PROVE rank[j] <= rank[i]
    <2>1. UpTo(precedes, places, j) \subseteq UpTo(precedes, places, i)
      BY <1>6 DEF UpTo, IsOrder
    <2> QED
      BY <1>5, <2>1, FS_Subset
  <1>7. ASSUME NEW i \in places, NEW j \in places, rank[i] = rank[j] PROVE i = j
    <2>1. ASSUME NEW a \in places, NEW b \in places, rank[a] = rank[b], <<a, b>> \in precedes
          PROVE  a = b
      <3>1. UpTo(precedes, places, a) \subseteq UpTo(precedes, places, b)
        BY <2>1 DEF UpTo, IsOrder
      <3>2. UpTo(precedes, places, a) = UpTo(precedes, places, b)
        BY <1>5, <2>1, <3>1, FS_Subset
      <3>3. b \in UpTo(precedes, places, a)
        BY <1>5, <3>2
      <3> QED
        BY <2>1, <3>3 DEF UpTo, IsOrder
    <2> QED
      BY <1>7, <2>1 DEF IsOrder
  <1> HIDE DEF from
  <1>8. ASSUME NEW i \in places PROVE \E n \in ranks : from[n] = i
    <2>1. rank[i] \in ranks
      BY <1>5
    <2>2. from[rank[i]] \in places /\ rank[from[rank[i]]] = rank[i]
      BY <1>3, <2>1
    <2> QED
      BY <1>7, <2>1, <2>2
  <1>9. ASSUME NEW n \in ranks, NEW m \in ranks, n < m
        PROVE  <<from[n], from[m]>> \in precedes /\ from[n] # from[m]
    <2>1. /\ from[n] \in places /\ rank[from[n]] = n
          /\ from[m] \in places /\ rank[from[m]] = m
      BY <1>3
    <2>2. ~(<<from[m], from[n]>> \in precedes)
      BY <1>1, <1>6, <1>9, <2>1
    <2> QED
      BY <1>1, <1>9, <2>1, <2>2 DEF IsOrder
  <1>10. from \in [ranks -> places] /\ DOMAIN from = ranks
    BY <1>3 DEF from
  <1>11. from \in [DOMAIN Arranged(s, rank) -> places]
    BY <1>2, <1>10
  <1>12. /\ \A n \in DOMAIN from : Arranged(s, rank)[n] = s[from[n]]
         /\ \A i \in places : \E n \in DOMAIN from : from[n] = i
         /\ \A n, m \in DOMAIN from : n < m =>
                <<from[n], from[m]>> \in precedes /\ from[n] # from[m]
    BY <1>4, <1>8, <1>9, <1>10
  <1> QED
    BY <1>11, <1>12, Zenon DEF Rearranges

(* What stays of a sequence stays in its order.                              *)
LEMMA KeptOrder ==
    ASSUME NEW S, NEW s \in Seq(S), NEW places, places \subseteq DOMAIN s
    PROVE  \E from \in [DOMAIN Kept(s, places) -> places] :
              /\ \A n \in DOMAIN from : Kept(s, places)[n] = s[from[n]]
              /\ \A i \in places : \E n \in DOMAIN from : from[n] = i
              /\ \A n, m \in DOMAIN from : n < m => from[n] < from[m]
  <1> DEFINE precedes == {p \in places \X places : p[1] <= p[2]}
             rank == [i \in places |-> Cardinality({j \in places : j <= i})]
  <1>1. IsFiniteSet(places) /\ places \subseteq Nat /\ \A i \in places : s[i] \in S
    BY PlacesAreFinite
  <1>2. \A i, j \in places : <<i, j>> \in precedes <=> i <= j
    OBVIOUS
  <1> HIDE DEF precedes
  <1>3. IsOrder(precedes, places)
    BY <1>1, <1>2 DEF IsOrder
  <1>4. \A i \in places : UpTo(precedes, places, i) = {j \in places : j <= i}
    BY <1>2 DEF UpTo
  <1>5. rank = [i \in places |-> Cardinality(UpTo(precedes, places, i))]
    BY <1>4
  <1>6. Kept(s, places) = Arranged(s, rank)
    BY DEF Kept
  <1> HIDE DEF rank
  <1>7. Rearranges(Arranged(s, rank), s, places, precedes)
    BY <1>1, <1>3, <1>5, ArrangedOrder
  <1>8. PICK from \in [DOMAIN Arranged(s, rank) -> places] :
              /\ \A n \in DOMAIN from : Arranged(s, rank)[n] = s[from[n]]
              /\ \A i \in places : \E n \in DOMAIN from : from[n] = i
              /\ \A n, m \in DOMAIN from : n < m =>
                    <<from[n], from[m]>> \in precedes /\ from[n] # from[m]
    BY <1>7, Zenon DEF Rearranges
  <1>9. ASSUME NEW n \in DOMAIN from, NEW m \in DOMAIN from, n < m PROVE from[n] < from[m]
    <2>1. <<from[n], from[m]>> \in precedes /\ from[n] # from[m]
      BY <1>8, <1>9
    <2>2. from[n] \in places /\ from[m] \in places
      BY <1>8
    <2>3. from[n] <= from[m]
      BY <1>2, <2>1, <2>2
    <2> QED
      BY <1>1, <2>1, <2>2, <2>3
  <1>10. \A n, m \in DOMAIN from : n < m => from[n] < from[m]
    BY <1>9
  <1> QED
    BY <1>6, <1>8, <1>10, Zenon

(* t has the elements of s in the order of their numbers.                    *)
Sorts(t, s, number) ==
    \E from \in [DOMAIN t -> DOMAIN s] :
        /\ \A n \in DOMAIN from : t[n] = s[from[n]]
        /\ \A i \in DOMAIN s : \E n \in DOMAIN from : from[n] = i
        /\ \A n, m \in DOMAIN from : n < m =>
                number[from[n]] <= number[from[m]] /\ from[n] # from[m]

(* So does what std::stable_sort leaves.                                     *)
LEMMA SortedByOrder ==
    ASSUME NEW S, NEW s \in Seq(S), NEW number, \A i \in DOMAIN s : number[i] \in Int
    PROVE  Sorts(SortedBy(s, number), s, number)
  <1> DEFINE places == DOMAIN s
             First(j, i) == \/ number[j] < number[i]
                            \/ number[j] = number[i] /\ j <= i
             precedes == {p \in places \X places : First(p[1], p[2])}
             rank == [i \in places |-> Cardinality({j \in places : First(j, i)})]
  <1>1. IsFiniteSet(places) /\ places \subseteq Nat /\ \A i \in places : s[i] \in S
    BY PlacesAreFinite
  <1>2. \A i, j \in places : <<j, i>> \in precedes <=> First(j, i)
    OBVIOUS
  <1>3. SortedBy(s, number) = Arranged(s, rank)
    BY DEF SortedBy
  <1> HIDE DEF precedes
  <1>4. IsOrder(precedes, places)
    BY <1>1, <1>2 DEF IsOrder
  <1>5. \A i \in places : UpTo(precedes, places, i) = {j \in places : First(j, i)}
    BY <1>2 DEF UpTo
  <1>6. rank = [i \in places |-> Cardinality(UpTo(precedes, places, i))]
    BY <1>5
  <1> HIDE DEF rank
  <1>7. Rearranges(Arranged(s, rank), s, places, precedes)
    BY <1>1, <1>4, <1>6, ArrangedOrder
  <1>8. PICK from \in [DOMAIN Arranged(s, rank) -> places] :
              /\ \A n \in DOMAIN from : Arranged(s, rank)[n] = s[from[n]]
              /\ \A i \in places : \E n \in DOMAIN from : from[n] = i
              /\ \A n, m \in DOMAIN from : n < m =>
                    <<from[n], from[m]>> \in precedes /\ from[n] # from[m]
    BY <1>7, Zenon DEF Rearranges
  <1>9. ASSUME NEW n \in DOMAIN from, NEW m \in DOMAIN from, n < m
        PROVE  number[from[n]] <= number[from[m]] /\ from[n] # from[m]
    <2>1. <<from[n], from[m]>> \in precedes /\ from[n] # from[m]
      BY <1>8, <1>9
    <2>2. from[n] \in places /\ from[m] \in places
      BY <1>8
    <2>3. First(from[n], from[m])
      BY <1>2, <2>1, <2>2
    <2> QED
      BY <2>1, <2>2, <2>3
  <1>10. \A n, m \in DOMAIN from : n < m =>
            number[from[n]] <= number[from[m]] /\ from[n] # from[m]
    BY <1>9
  <1> QED
    <2>1. Sorts(Arranged(s, rank), s, number)
      BY <1>8, <1>10, Zenon DEF Sorts
    <2> QED
      BY <1>3, <2>1

(* Numbers that ascend from each place to the next ascend between all.       *)
LEMMA AscendFromNextToNext ==
    ASSUME NEW n \in Nat, NEW value, \A i \in 1 .. n : value[i] \in Int,
           \A i \in 1 .. n : i > 1 => value[i - 1] < value[i]
    PROVE  \A i, j \in 1 .. n : i < j => value[i] < value[j]
  <1> DEFINE T == {j \in 1 .. n : \E i \in 1 .. n : i < j /\ ~(value[i] < value[j])}
  <1>1. CASE T = {}
    BY <1>1
  <1>2. CASE T # {}
    <2>1. T \in SUBSET Nat
      OBVIOUS
    <2>2. PICK j \in T : \A k \in T : j <= k
      BY <1>2, <2>1, LeastNumber
    <2>3. PICK i \in 1 .. n : i < j /\ ~(value[i] < value[j])
      BY <2>2
    <2>4. j \in 1 .. n /\ j > 1 /\ value[j - 1] < value[j] /\ j - 1 \in 1 .. n
      BY <2>2, <2>3
    <2>5. i # j - 1
      BY <2>3, <2>4
    <2>6. i < j - 1
      BY <2>3, <2>4, <2>5
    <2>7. j - 1 \notin T
      BY <2>2, <2>4
    <2>8. value[i] < value[j - 1]
      BY <2>3, <2>4, <2>6, <2>7
    <2> QED
      BY <2>3, <2>4, <2>8
  <1> QED
    BY <1>1, <1>2

(* There is one way to list numbers in order.                                *)
LEMMA AscendingIsUnique ==
    ASSUME NEW s \in Seq(Int), NEW t \in Seq(Int), Ascending(s), Ascending(t),
           \A i \in DOMAIN s : \E j \in DOMAIN t : t[j] = s[i],
           \A j \in DOMAIN t : \E i \in DOMAIN s : s[i] = t[j]
    PROVE  s = t
  <1>1. /\ DOMAIN s = 1 .. Len(s) /\ Len(s) \in Nat /\ \A i \in 1 .. Len(s) : s[i] \in Int
        /\ DOMAIN t = 1 .. Len(t) /\ Len(t) \in Nat /\ \A i \in 1 .. Len(t) : t[i] \in Int
    BY LenProperties, ElementOfSeq
  <1> DEFINE Differ(i) == ~(i \in DOMAIN s /\ i \in DOMAIN t /\ s[i] = t[i])
             T == {i \in Nat : (i \in DOMAIN s \/ i \in DOMAIN t) /\ Differ(i)}
  <1>2. CASE T = {}
    <2>1. ASSUME NEW i \in Nat, i \in DOMAIN s \/ i \in DOMAIN t
          PROVE  i \in DOMAIN s /\ i \in DOMAIN t /\ s[i] = t[i]
      BY <1>2, <2>1
    <2> HIDE DEF T
    <2>2. Len(s) = Len(t)
      <3>1. Len(s) > 0 => Len(s) <= Len(t)
        <4>1. Len(s) > 0 => Len(s) \in Nat /\ Len(s) \in DOMAIN s
          BY <1>1
        <4>2. Len(s) > 0 => Len(s) \in DOMAIN t
          BY <2>1, <4>1
        <4> QED
          BY <1>1, <4>2
      <3>2. Len(t) > 0 => Len(t) <= Len(s)
        <4>1. Len(t) > 0 => Len(t) \in Nat /\ Len(t) \in DOMAIN t
          BY <1>1
        <4>2. Len(t) > 0 => Len(t) \in DOMAIN s
          BY <2>1, <4>1
        <4> QED
          BY <1>1, <4>2
      <3>3. Len(s) \in Nat /\ Len(t) \in Nat
        BY <1>1
      <3> QED
        BY <3>1, <3>2, <3>3
    <2>3. \A i \in 1 .. Len(s) : s[i] = t[i]
      BY <1>1, <2>1
    <2> QED
      BY <2>2, <2>3, SeqEqual
  <1>3. CASE T # {}
    <2>1. T \in SUBSET Nat
      OBVIOUS
    <2>2. PICK n \in T : \A m \in T : n <= m
      BY <1>3, <2>1, LeastNumber
    <2>3. \A i \in Nat : i < n /\ (i \in DOMAIN s \/ i \in DOMAIN t) =>
            i \in DOMAIN s /\ i \in DOMAIN t /\ s[i] = t[i]
      <3>1. \A i \in Nat : i < n => ~(n <= i)
        BY <2>2
      <3> QED
        BY <2>2, <3>1
    <2>4. ASSUME NEW a \in Seq(Int), NEW b \in Seq(Int), Ascending(a), Ascending(b),
                 \A i \in DOMAIN a : \E j \in DOMAIN b : b[j] = a[i],
                 \A i \in Nat : i < n /\ (i \in DOMAIN a \/ i \in DOMAIN b) =>
                    i \in DOMAIN a /\ i \in DOMAIN b /\ a[i] = b[i],
                 n \in DOMAIN a
          PROVE  n \in DOMAIN b /\ b[n] <= a[n]
      <3>1. PICK j \in DOMAIN b : b[j] = a[n]
        BY <2>4
      <3>2. /\ DOMAIN a = 1 .. Len(a) /\ Len(a) \in Nat /\ \A i \in 1 .. Len(a) : a[i] \in Int
            /\ DOMAIN b = 1 .. Len(b) /\ Len(b) \in Nat /\ \A i \in 1 .. Len(b) : b[i] \in Int
        BY LenProperties, ElementOfSeq
      <3>3. ~(j < n)
        <4>1. SUFFICES ASSUME j < n PROVE FALSE
          OBVIOUS
        <4>2. j \in DOMAIN a /\ a[j] = b[j]
          BY <2>4, <3>1, <3>2, <4>1
        <4>3. a[j] < a[n]
          BY <2>4, <4>1, <4>2 DEF Ascending
        <4> QED
          BY <2>4, <3>1, <3>2, <4>2, <4>3
      <3>4. n \in DOMAIN b
        BY <2>2, <2>4, <3>1, <3>2, <3>3
      <3>5. n = j \/ b[n] < b[j]
        BY <2>4, <3>1, <3>2, <3>3, <3>4 DEF Ascending
      <3> QED
        BY <2>4, <3>1, <3>2, <3>4, <3>5
    <2>5. n \in DOMAIN s \/ n \in DOMAIN t
      BY <2>2
    <2>6. n \in DOMAIN s => n \in DOMAIN t /\ t[n] <= s[n]
      BY <2>3, <2>4
    <2>7. n \in DOMAIN t => n \in DOMAIN s /\ s[n] <= t[n]
      BY <2>3, <2>4
    <2>8. s[n] = t[n] /\ n \in DOMAIN s /\ n \in DOMAIN t
      BY <1>1, <2>5, <2>6, <2>7
    <2> QED
      BY <2>2, <2>8
  <1> QED
    BY <1>2, <1>3

-----------------------------------------------------------------------------
(* What finds what, element by element                                       *)

LayerResolves(d, layer) ==
    /\ layer.appearance.mask # 0 => Has(d.assets, layer.appearance.mask)
    /\ layer.appearance.vectorMask # 0 => Has(d.assets, layer.appearance.vectorMask)
    /\ ~layer.keyed => Has(d.assets, layer.asset)
    /\ layer.board # 0 => Has(d.boards, layer.board)

KeyResolves(d, key) == Has(d.layers, key.layer) /\ Has(d.assets, key.asset)

KeysAscend(keys) == \A i, j \in DOMAIN keys : i < j => keys[i].layer < keys[j].layer

FramesInOrder(frames) ==
    /\ \A i, j \in DOMAIN frames : i < j => frames[i].at < frames[j].at
    /\ \A i \in DOMAIN frames : KeysAscend(frames[i].keys)

BoardFoundIn(d, id) == id = 0 \/ Has(d.boards, id)

EachResolves(d) ==
    /\ \A i \in DOMAIN d.layers : LayerResolves(d, d.layers[i])
    /\ \A i \in DOMAIN d.frames : \A k \in DOMAIN d.frames[i].keys :
            KeyResolves(d, d.frames[i].keys[k])
    /\ \A t \in DOMAIN d.tracks : \A c \in DOMAIN d.tracks[t].clips :
            Has(d.audio, d.tracks[t].clips[c].asset)
    /\ \A c \in DOMAIN d.canvases : BoardFoundIn(d, d.canvases[c])
    /\ BoardFoundIn(d, d.cover)
    /\ FramesInOrder(d.frames)
    /\ IndexMatchesFrames(d)

LEMMA HasIsAmong ==
    ASSUME NEW s, NEW id
    PROVE  id \in {e.id : e \in ToSet(s)} <=> Has(s, id)
  BY DEF ToSet, Has

LEMMA ReferencesAre ==
    ASSUME NEW d, NEW id
    PROVE  id \in ReferencedAssets(d) <=>
                \/ \E i \in DOMAIN d.layers : id \in MaskIds(d.layers[i])
                \/ \E i \in DOMAIN d.layers : ~d.layers[i].keyed /\ id = d.layers[i].asset
                \/ \E i \in DOMAIN d.frames : \E k \in DOMAIN d.frames[i].keys :
                        Has(d.layers, d.frames[i].keys[k].layer) /\ id = d.frames[i].keys[k].asset
  <1> DEFINE Masks == UNION {MaskIds(d.layers[i]) : i \in DOMAIN d.layers}
             Sources == {d.layers[i].asset : i \in {j \in DOMAIN d.layers : ~d.layers[j].keyed}}
             KeyAssets(i) == {d.frames[i].keys[j].asset :
                                j \in {k \in DOMAIN d.frames[i].keys :
                                          Has(d.layers, d.frames[i].keys[k].layer)}}
             Keyed == UNION {KeyAssets(i) : i \in DOMAIN d.frames}
  <1>1. ReferencedAssets(d) = Sources \union Masks \union Keyed
    BY Zenon DEF ReferencedAssets
  <1>2. id \in Masks <=> \E i \in DOMAIN d.layers : id \in MaskIds(d.layers[i])
    OBVIOUS
  <1>3. id \in Sources <=> \E i \in DOMAIN d.layers : ~d.layers[i].keyed /\ id = d.layers[i].asset
    OBVIOUS
  <1>4. \A i : id \in KeyAssets(i) <=>
            \E k \in DOMAIN d.frames[i].keys :
                Has(d.layers, d.frames[i].keys[k].layer) /\ id = d.frames[i].keys[k].asset
    OBVIOUS
  <1> HIDE DEF Masks, Sources, KeyAssets
  <1>5. id \in Keyed <=> \E i \in DOMAIN d.frames : id \in KeyAssets(i)
    OBVIOUS
  <1> HIDE DEF Keyed
  <1> QED
    BY <1>1, <1>2, <1>3, <1>4, <1>5

LEMMA EachThenAllResolve == ASSUME NEW d, EachResolves(d) PROVE Resolves(d)
  <1>1. AssetsResolve(d)
    <2>1. ASSUME NEW id \in ReferencedAssets(d) PROVE Has(d.assets, id)
      BY <2>1, ReferencesAre DEF EachResolves, LayerResolves, KeyResolves, MaskIds
    <2> QED
      BY <2>1, HasIsAmong DEF AssetsResolve
  <1>2. KeysResolve(d)
    BY DEF KeysResolve, EachResolves, KeyResolves, ToSet
  <1>3. ClipsResolve(d)
    BY DEF ClipsResolve, EachResolves, ToSet
  <1>4. BoardsResolve(d)
    <2>1. ASSUME NEW id \in ToSet(d.canvases) \union {d.cover}
          PROVE  id \in {0} \union {board.id : board \in ToSet(d.boards)}
      <3>1. id = 0 \/ Has(d.boards, id)
        BY <2>1 DEF EachResolves, BoardFoundIn, ToSet
      <3> QED
        BY <3>1, HasIsAmong
    <2>2. \A layer \in ToSet(d.layers) : layer.board # 0 => Has(d.boards, layer.board)
      BY DEF EachResolves, LayerResolves, ToSet
    <2> QED
      BY <2>1, <2>2 DEF BoardsResolve
  <1>5. FramesAscend(d.frames)
    BY DEF FramesAscend, EachResolves, FramesInOrder, KeysAscend, ToSet
  <1> QED
    BY <1>1, <1>2, <1>3, <1>4, <1>5 DEF Resolves, EachResolves

LEMMA AllThenEachResolves == ASSUME NEW d, Resolves(d) PROVE EachResolves(d)
  <1>1. ASSUME NEW id \in ReferencedAssets(d) PROVE Has(d.assets, id)
    BY <1>1, HasIsAmong DEF Resolves, AssetsResolve
  <1>2. \A i \in DOMAIN d.frames : \A k \in DOMAIN d.frames[i].keys :
            KeyResolves(d, d.frames[i].keys[k])
    <2>1. ASSUME NEW i \in DOMAIN d.frames, NEW k \in DOMAIN d.frames[i].keys
          PROVE  Has(d.layers, d.frames[i].keys[k].layer)
      <3>1. d.frames[i] \in ToSet(d.frames) /\ d.frames[i].keys[k] \in ToSet(d.frames[i].keys)
        BY DEF ToSet
      <3> QED
        BY <3>1 DEF Resolves, KeysResolve
    <2>2. ASSUME NEW i \in DOMAIN d.frames, NEW k \in DOMAIN d.frames[i].keys
          PROVE  Has(d.assets, d.frames[i].keys[k].asset)
      BY <1>1, <2>1, ReferencesAre
    <2> QED
      BY <2>1, <2>2 DEF KeyResolves
  <1>3. \A i \in DOMAIN d.layers : LayerResolves(d, d.layers[i])
    <2>1. ASSUME NEW i \in DOMAIN d.layers
          PROVE  /\ \A id \in MaskIds(d.layers[i]) : Has(d.assets, id)
                 /\ ~d.layers[i].keyed => Has(d.assets, d.layers[i].asset)
      BY <1>1, ReferencesAre
    <2>2. ASSUME NEW i \in DOMAIN d.layers
          PROVE  d.layers[i].board # 0 => Has(d.boards, d.layers[i].board)
      <3>1. d.layers[i] \in ToSet(d.layers)
        BY DEF ToSet
      <3> QED
        BY <3>1 DEF Resolves, BoardsResolve
    <2> QED
      BY <2>1, <2>2 DEF LayerResolves, MaskIds
  <1>4. \A t \in DOMAIN d.tracks : \A c \in DOMAIN d.tracks[t].clips :
            Has(d.audio, d.tracks[t].clips[c].asset)
    <2>1. ASSUME NEW t \in DOMAIN d.tracks, NEW c \in DOMAIN d.tracks[t].clips
          PROVE  Has(d.audio, d.tracks[t].clips[c].asset)
      <3>1. d.tracks[t] \in ToSet(d.tracks) /\ d.tracks[t].clips[c] \in ToSet(d.tracks[t].clips)
        BY DEF ToSet
      <3> QED
        BY <3>1 DEF Resolves, ClipsResolve
    <2> QED
      BY <2>1
  <1>5. ASSUME NEW id \in ToSet(d.canvases) \union {d.cover} PROVE BoardFoundIn(d, id)
    <2>1. id \in {0} \union {board.id : board \in ToSet(d.boards)}
      BY DEF Resolves, BoardsResolve
    <2> QED
      BY <2>1, HasIsAmong DEF BoardFoundIn
  <1>6. /\ \A c \in DOMAIN d.canvases : BoardFoundIn(d, d.canvases[c])
        /\ BoardFoundIn(d, d.cover)
    BY <1>5 DEF ToSet
  <1>7. FramesInOrder(d.frames)
    <2>1. ASSUME NEW f \in DOMAIN d.frames PROVE KeysAscend(d.frames[f].keys)
      <3>1. d.frames[f] \in ToSet(d.frames)
        BY DEF ToSet
      <3> QED
        BY <3>1 DEF Resolves, FramesAscend, KeysAscend
    <2> QED
      BY <2>1 DEF Resolves, FramesAscend, FramesInOrder
  <1> QED
    BY <1>2, <1>3, <1>4, <1>6, <1>7 DEF EachResolves, Resolves

(* A valid document is whole.                                                *)
LEMMA ValidResolves ==
    ASSUME NEW d \in CanvasDocument, Valid(d) PROVE EachResolves(d)
  <1>1. /\ ValidLayers(d) /\ ValidFrames(d) /\ ValidAudio(d) /\ ValidPublication(d)
        /\ IndexMatchesFrames(d)
    BY DEF Valid
  <1>2. \A i \in DOMAIN d.layers : LayerResolves(d, d.layers[i])
    <2>1. ASSUME NEW i \in DOMAIN d.layers
          PROVE  /\ ValidAppearance(d, i) /\ ValidProperties(d, d.layers[i])
                 /\ ValidSource(d, d.layers[i])
      BY <1>1 DEF ValidLayers
    <2> QED
      BY <2>1 DEF LayerResolves, ValidAppearance, ValidMask, HasKind, ValidProperties, ValidSource,
                  ReferenceIsValid
  <1>3. \A i \in DOMAIN d.frames : \A k \in DOMAIN d.frames[i].keys :
            KeyResolves(d, d.frames[i].keys[k])
    BY <1>1 DEF ValidFrames, ValidKeyframe, ReferenceIsValid, KeyResolves
  <1>4. \A t \in DOMAIN d.tracks : \A c \in DOMAIN d.tracks[t].clips :
            Has(d.audio, d.tracks[t].clips[c].asset)
    BY <1>1 DEF ValidAudio, ValidTrack, ClipFits
  <1>5. /\ \A c \in DOMAIN d.canvases : BoardFoundIn(d, d.canvases[c])
        /\ BoardFoundIn(d, d.cover)
    <2>1. CASE d.published
      BY <1>1, <2>1 DEF ValidPublication, BoardFoundIn
    <2>2. CASE ~d.published
      BY <2>2 DEF CanvasDocument, BoardFoundIn
    <2> QED
      BY <2>1, <2>2
  <1>6. /\ d.frames \in Seq(CanvasFrame) /\ DOMAIN d.frames = 1 .. Len(d.frames)
        /\ Len(d.frames) \in Nat
        /\ \A i \in DOMAIN d.frames : d.frames[i].at \in Int /\ d.frames[i].keys \in Seq(FrameKeyframe)
    <2>1. d.frames \in Seq(CanvasFrame)
      BY DEF CanvasDocument
    <2>2. DOMAIN d.frames = 1 .. Len(d.frames) /\ Len(d.frames) \in Nat
      BY <2>1, LenProperties
    <2>3. \A i \in DOMAIN d.frames : d.frames[i] \in CanvasFrame
      BY <2>1, <2>2, ElementOfSeq
    <2> QED
      BY <2>1, <2>2, <2>3 DEF CanvasFrame
  <1>7. FramesInOrder(d.frames)
    <2>1. ASSUME NEW i \in DOMAIN d.frames, NEW j \in DOMAIN d.frames, i < j
          PROVE  d.frames[i].at < d.frames[j].at
      <3> DEFINE value == [k \in 1 .. Len(d.frames) |-> d.frames[k].at]
      <3>1. /\ \A k \in 1 .. Len(d.frames) : value[k] \in Int
            /\ \A k \in 1 .. Len(d.frames) : k > 1 => value[k - 1] < value[k]
        <4>1. \A k \in DOMAIN d.frames : k > 1 => d.frames[k - 1].at < d.frames[k].at
          BY <1>1 DEF ValidFrames
        <4>2. \A k \in DOMAIN d.frames : d.frames[k].at \in Int
          BY <1>6
        <4>3. DOMAIN d.frames = 1 .. Len(d.frames) /\ Len(d.frames) \in Nat
          BY <1>6
        <4>4. ASSUME NEW k \in 1 .. Len(d.frames), k > 1 PROVE value[k - 1] < value[k]
          <5>1. k - 1 \in 1 .. Len(d.frames)
            BY <4>3, <4>4
          <5>2. value[k - 1] = d.frames[k - 1].at /\ value[k] = d.frames[k].at
            BY <5>1
          <5> QED
            BY <4>1, <4>3, <4>4, <5>2
        <4> QED
          BY <4>2, <4>3, <4>4
      <3>2. \A k, l \in 1 .. Len(d.frames) : k < l => value[k] < value[l]
        <4> HIDE DEF value
        <4> QED
          BY <1>6, <3>1, AscendFromNextToNext
      <3> QED
        BY <1>6, <2>1, <3>2
    <2>2. ASSUME NEW i \in DOMAIN d.frames PROVE KeysAscend(d.frames[i].keys)
      <3> DEFINE keys == d.frames[i].keys
                 value == [k \in 1 .. Len(keys) |-> keys[k].layer]
      <3>1. keys \in Seq(FrameKeyframe) /\ DOMAIN keys = 1 .. Len(keys) /\ Len(keys) \in Nat
        BY <1>6, LenProperties
      <3>2. \A k \in DOMAIN keys : keys[k].layer \in Int
        <4>1. \A k \in DOMAIN keys : keys[k] \in FrameKeyframe
          BY <3>1, ElementOfSeq
        <4> QED
          BY <4>1 DEF FrameKeyframe
      <3>3. \A k \in DOMAIN keys : k > 1 => keys[k - 1].layer < keys[k].layer
        BY <1>1 DEF ValidFrames
      <3> HIDE DEF keys
      <3>4. /\ \A k \in 1 .. Len(keys) : value[k] \in Int
            /\ \A k \in 1 .. Len(keys) : k > 1 => value[k - 1] < value[k]
        BY <3>1, <3>2, <3>3
      <3>5. \A k, l \in 1 .. Len(keys) : k < l => value[k] < value[l]
        <4> HIDE DEF value
        <4> QED
          BY <3>1, <3>4, AscendFromNextToNext
      <3>6. KeysAscend(keys)
        BY <3>1, <3>5 DEF KeysAscend
      <3> QED
        BY <3>6 DEF keys
    <2> QED
      BY <2>1, <2>2 DEF FramesInOrder
  <1> QED
    BY <1>1, <1>2, <1>3, <1>4, <1>5, <1>7 DEF EachResolves

-----------------------------------------------------------------------------
(* What is in a sequence that an element was taken out of, or moved in       *)

LEMMA RemovedElements ==
    ASSUME NEW S, NEW s \in Seq(S), NEW i \in DOMAIN s
    PROVE  /\ \A k \in DOMAIN RemoveAt(s, i) : \E j \in DOMAIN s : j # i /\ RemoveAt(s, i)[k] = s[j]
           /\ \A j \in DOMAIN s : j # i =>
                \E k \in DOMAIN RemoveAt(s, i) : RemoveAt(s, i)[k] = s[j]
  <1> DEFINE t == RemoveAt(s, i)
  <1>1. DOMAIN s = 1 .. Len(s) /\ Len(s) \in Nat /\ i \in 1 .. Len(s)
    BY LenProperties
  <1>2. /\ t \in Seq(S) /\ Len(t) = Len(s) - 1
        /\ \A j \in 1 .. Len(s) - 1 : t[j] = IF j < i THEN s[j] ELSE s[j + 1]
    BY <1>1, RemoveAtProperties
  <1> HIDE DEF t
  <1>3. DOMAIN t = 1 .. Len(s) - 1
    BY <1>2, LenProperties
  <1>4. ASSUME NEW k \in DOMAIN t PROVE \E j \in DOMAIN s : j # i /\ t[k] = s[j]
    <2>1. CASE k < i
      BY <1>1, <1>2, <1>3, <2>1
    <2>2. CASE ~(k < i)
      <3>1. k + 1 \in DOMAIN s /\ k + 1 # i /\ t[k] = s[k + 1]
        BY <1>1, <1>2, <1>3, <2>2
      <3> QED
        BY <3>1
    <2> QED
      BY <2>1, <2>2
  <1>5. ASSUME NEW j \in DOMAIN s, j # i PROVE \E k \in DOMAIN t : t[k] = s[j]
    <2>1. CASE j < i
      BY <1>1, <1>2, <1>3, <2>1
    <2>2. CASE ~(j < i)
      <3>1. j - 1 \in DOMAIN t /\ ~(j - 1 < i) /\ (j - 1) + 1 = j
        BY <1>1, <1>3, <1>5, <2>2
      <3>2. t[j - 1] = s[j]
        BY <1>2, <1>3, <3>1
      <3> QED
        BY <3>1, <3>2
    <2> QED
      BY <2>1, <2>2
  <1> QED
    BY <1>4, <1>5 DEF t

LEMMA MovedElements ==
    ASSUME NEW S, NEW s \in Seq(S), NEW from \in DOMAIN s, NEW to \in Nat, to < Len(s)
    PROVE  /\ \A k \in DOMAIN MoveElement(s, from, to) : \E j \in DOMAIN s :
                MoveElement(s, from, to)[k] = s[j]
           /\ \A j \in DOMAIN s : \E k \in DOMAIN MoveElement(s, from, to) :
                MoveElement(s, from, to)[k] = s[j]
  <1> DEFINE t == RemoveAt(s, from)
             u == InsertAt(t, to + 1, s[from])
  <1>1. DOMAIN s = 1 .. Len(s) /\ Len(s) \in Nat /\ from \in 1 .. Len(s) /\ s[from] \in S
    BY LenProperties, ElementOfSeq
  <1>2. t \in Seq(S) /\ Len(t) = Len(s) - 1
    BY <1>1, RemoveAtProperties
  <1>3. /\ \A k \in DOMAIN t : \E j \in DOMAIN s : j # from /\ t[k] = s[j]
        /\ \A j \in DOMAIN s : j # from => \E k \in DOMAIN t : t[k] = s[j]
    BY RemovedElements
  <1>4. MoveElement(s, from, to) = u
    BY DEF MoveElement
  <1> HIDE DEF t
  <1>5. to + 1 \in 1 .. Len(t) + 1
    BY <1>1, <1>2
  <1>6. u \in Seq(S) /\ IsInsertion(u, t, to + 1, s[from])
    BY <1>1, <1>2, <1>5, InsertAtProperties
  <1> HIDE DEF u
  <1>7. DOMAIN u = 1 .. Len(t) + 1 /\ DOMAIN t = 1 .. Len(t) /\ Len(t) \in Nat
    BY <1>2, <1>6, LenProperties DEF IsInsertion
  <1>8. ASSUME NEW k \in DOMAIN u PROVE \E j \in DOMAIN s : u[k] = s[j]
    <2>1. CASE k = to + 1
      BY <1>6, <1>7, <2>1 DEF IsInsertion
    <2>2. CASE k < to + 1
      <3>1. k \in DOMAIN t /\ u[k] = t[k]
        BY <1>5, <1>6, <1>7, <2>2 DEF IsInsertion
      <3> QED
        BY <1>3, <3>1
    <2>3. CASE k > to + 1
      <3>1. k - 1 \in DOMAIN t /\ u[k] = t[k - 1]
        BY <1>5, <1>6, <1>7, <2>3 DEF IsInsertion
      <3> QED
        BY <1>3, <3>1
    <2> QED
      BY <1>7, <2>1, <2>2, <2>3
  <1>9. ASSUME NEW j \in DOMAIN s PROVE \E k \in DOMAIN u : u[k] = s[j]
    <2>1. CASE j = from
      <3>1. to + 1 \in DOMAIN u /\ u[to + 1] = s[from]
        BY <1>5, <1>6, <1>7 DEF IsInsertion
      <3> QED
        BY <2>1, <3>1
    <2>2. CASE j # from
      <3>1. PICK k \in DOMAIN t : t[k] = s[j]
        BY <1>3, <2>2
      <3>2. CASE k < to + 1
        <4>1. k \in DOMAIN u /\ u[k] = t[k]
          BY <1>6, <1>7, <3>2 DEF IsInsertion
        <4> QED
          BY <3>1, <4>1
      <3>3. CASE ~(k < to + 1)
        <4>1. k + 1 \in DOMAIN u /\ u[k + 1] = t[k]
          BY <1>6, <1>7, <3>3 DEF IsInsertion
        <4> QED
          BY <3>1, <4>1
      <3> QED
        BY <3>2, <3>3
    <2> QED
      BY <2>1, <2>2
  <1> QED
    BY <1>4, <1>8, <1>9

-----------------------------------------------------------------------------
(* What still finds all it names                                             *)

SameBut(new, d, fields) ==
    /\ DOMAIN new = DOMAIN d
    /\ \A f \in DOMAIN d : f \notin fields => new[f] = d[f]

LEMMA SameFields ==
    ASSUME NEW d \in CanvasDocument, NEW new, NEW fields, SameBut(new, d, fields)
    PROVE  /\ "assets" \notin fields => new.assets = d.assets
           /\ "layers" \notin fields => new.layers = d.layers
           /\ "frames" \notin fields => new.frames = d.frames
           /\ "audio" \notin fields => new.audio = d.audio
           /\ "tracks" \notin fields => new.tracks = d.tracks
           /\ "boards" \notin fields => new.boards = d.boards
           /\ "canvases" \notin fields => new.canvases = d.canvases
           /\ "cover" \notin fields => new.cover = d.cover
  <1>1. {"assets", "layers", "frames", "audio", "tracks", "boards", "canvases", "cover"}
            \subseteq DOMAIN d
    BY DEF CanvasDocument
  <1> QED
    BY <1>1 DEF SameBut

(* The ids of s are ids of t.                                                *)
KeepsIds(s, t) == \A i \in DOMAIN s : Has(t, s[i].id)

LEMMA IdsStay == ASSUME NEW s, NEW t, KeepsIds(s, t), NEW id, Has(s, id) PROVE Has(t, id)
  BY DEF KeepsIds, Has

LEMMA OwnIds == ASSUME NEW s PROVE KeepsIds(s, s)
  BY DEF KeepsIds, Has

(* What a layer and its keyframes refer to, and the frames it lists.         *)
SameLinks(a, b) ==
    /\ a.id = b.id /\ a.keyed = b.keyed /\ a.asset = b.asset /\ a.index = b.index
    /\ a.appearance = b.appearance /\ a.board = b.board

(* A document that has all that another one has and refers to no more finds  *)
(* what it refers to if that one did.                                        *)
LEMMA FewerReferences ==
    ASSUME NEW d, NEW new, EachResolves(d),
           KeepsIds(d.assets, new.assets), KeepsIds(d.layers, new.layers),
           KeepsIds(d.boards, new.boards), KeepsIds(d.audio, new.audio),
           \A i \in DOMAIN new.layers : \E j \in DOMAIN d.layers : SameLinks(new.layers[i], d.layers[j]),
           new.frames = d.frames,
           \A t \in DOMAIN new.tracks : \E u \in DOMAIN d.tracks : new.tracks[t] = d.tracks[u],
           new.canvases = d.canvases, new.cover = d.cover
    PROVE  EachResolves(new)
  <1>1. ASSUME NEW i \in DOMAIN new.layers PROVE LayerResolves(new, new.layers[i])
    <2>1. PICK j \in DOMAIN d.layers : SameLinks(new.layers[i], d.layers[j])
      OBVIOUS
    <2>2. LayerResolves(d, d.layers[j])
      BY DEF EachResolves
    <2> QED
      BY <2>1, <2>2, IdsStay DEF SameLinks, LayerResolves
  <1>2. ASSUME NEW i \in DOMAIN new.frames, NEW k \in DOMAIN new.frames[i].keys
        PROVE  KeyResolves(new, new.frames[i].keys[k])
    <2>1. KeyResolves(d, d.frames[i].keys[k])
      BY DEF EachResolves
    <2> QED
      BY <2>1, IdsStay DEF KeyResolves
  <1>3. ASSUME NEW t \in DOMAIN new.tracks, NEW c \in DOMAIN new.tracks[t].clips
        PROVE  Has(new.audio, new.tracks[t].clips[c].asset)
    <2>1. PICK u \in DOMAIN d.tracks : new.tracks[t] = d.tracks[u]
      OBVIOUS
    <2>2. Has(d.audio, d.tracks[u].clips[c].asset)
      BY <2>1 DEF EachResolves
    <2> QED
      BY <2>1, <2>2, IdsStay
  <1>4. /\ \A c \in DOMAIN new.canvases : BoardFoundIn(new, new.canvases[c])
        /\ BoardFoundIn(new, new.cover)
    BY IdsStay DEF EachResolves, BoardFoundIn
  <1>5. FramesInOrder(new.frames)
    BY DEF EachResolves
  <1>6. IndexMatchesFrames(new)
    <2>1. ASSUME NEW i \in DOMAIN new.layers, new.layers[i].keyed
          PROVE  new.layers[i].index = OwnedFrames(new.frames, new.layers[i].id)
      <3>1. PICK j \in DOMAIN d.layers : SameLinks(new.layers[i], d.layers[j])
        OBVIOUS
      <3>2. d.layers[j].keyed => d.layers[j].index = OwnedFrames(d.frames, d.layers[j].id)
        BY DEF EachResolves, IndexMatchesFrames
      <3> QED
        BY <2>1, <3>1, <3>2 DEF SameLinks
    <2> QED
      BY <2>1 DEF IndexMatchesFrames
  <1> QED
    BY <1>1, <1>2, <1>3, <1>4, <1>5, <1>6 DEF EachResolves

LEMMA OwnLinks == ASSUME NEW s, NEW i \in DOMAIN s PROVE \E j \in DOMAIN s : SameLinks(s[i], s[j])
  BY DEF SameLinks

(* The same assets, or more, in some order.                                  *)
LEMMA AssetsStay ==
    ASSUME NEW d \in CanvasDocument, NEW new, SameBut(new, d, {"assets", "minor"}),
           KeepsIds(d.assets, new.assets), EachResolves(d)
    PROVE  EachResolves(new)
  <1>1. /\ new.layers = d.layers /\ new.frames = d.frames /\ new.audio = d.audio
        /\ new.tracks = d.tracks /\ new.boards = d.boards /\ new.canvases = d.canvases
        /\ new.cover = d.cover
    BY SameFields
  <1> QED
    BY <1>1, OwnIds, OwnLinks, FewerReferences

(* The same layers in some order, whatever they are called and look like.    *)
LEMMA LayersStay ==
    ASSUME NEW d \in CanvasDocument, NEW new, SameBut(new, d, {"layers"}),
           KeepsIds(d.layers, new.layers), EachResolves(d),
           \A i \in DOMAIN new.layers : \E j \in DOMAIN d.layers : SameLinks(new.layers[i], d.layers[j])
    PROVE  EachResolves(new)
  <1>1. /\ new.assets = d.assets /\ new.frames = d.frames /\ new.audio = d.audio
        /\ new.tracks = d.tracks /\ new.boards = d.boards /\ new.canvases = d.canvases
        /\ new.cover = d.cover
    BY SameFields
  <1> QED
    BY <1>1, OwnIds, FewerReferences

(* The same tracks, or fewer, in some order.                                 *)
LEMMA TracksStay ==
    ASSUME NEW d \in CanvasDocument, NEW new, SameBut(new, d, {"tracks"}), EachResolves(d),
           \A t \in DOMAIN new.tracks : \E u \in DOMAIN d.tracks : new.tracks[t] = d.tracks[u]
    PROVE  EachResolves(new)
  <1>1. /\ new.assets = d.assets /\ new.layers = d.layers /\ new.frames = d.frames
        /\ new.audio = d.audio /\ new.boards = d.boards /\ new.canvases = d.canvases
        /\ new.cover = d.cover
    BY SameFields
  <1> QED
    BY <1>1, OwnIds, OwnLinks, FewerReferences

LEMMA OtherFieldsStay ==
    ASSUME NEW d \in CanvasDocument, NEW new, EachResolves(d),
           SameBut(new, d, {"minor", "author", "width", "origin", "rate", "prompt"})
    PROVE  EachResolves(new)
  <1>1. /\ new.assets = d.assets /\ new.layers = d.layers /\ new.frames = d.frames
        /\ new.audio = d.audio /\ new.tracks = d.tracks /\ new.boards = d.boards
        /\ new.canvases = d.canvases /\ new.cover = d.cover
    BY SameFields
  <1> QED
    BY <1>1, OwnIds, OwnLinks, FewerReferences

LEMMA RaisedResolves ==
    ASSUME NEW d \in CanvasDocument, EachResolves(d)
    PROVE  EachResolves(RecordDocumentChange(d)) /\ EachResolves(Raised(d))
  <1>1. SameBut(RecordDocumentChange(d), d, {"minor", "author", "width", "origin", "rate", "prompt"})
    BY DEF RecordDocumentChange, SameBut
  <1>2. Raised(d) = RecordDocumentChange(d)
    BY DEF Raised, RecordDocumentChange
  <1> QED
    BY <1>1, <1>2, OtherFieldsStay

(* Audio is removed that no clip plays.                                      *)
LEMMA UnusedAudioGoes ==
    ASSUME NEW d \in CanvasDocument, NEW new, SameBut(new, d, {"audio"}), EachResolves(d),
           NEW id, \A i \in DOMAIN d.audio : d.audio[i].id # id => Has(new.audio, d.audio[i].id),
           \A t \in DOMAIN d.tracks : \A c \in DOMAIN d.tracks[t].clips :
                d.tracks[t].clips[c].asset # id
    PROVE  EachResolves(new)
  <1>1. /\ new.assets = d.assets /\ new.layers = d.layers /\ new.frames = d.frames
        /\ new.tracks = d.tracks /\ new.boards = d.boards
        /\ new.canvases = d.canvases /\ new.cover = d.cover
    BY SameFields
  <1>2. \A i \in DOMAIN new.layers : LayerResolves(new, new.layers[i])
    BY <1>1 DEF EachResolves, LayerResolves
  <1>3. \A i \in DOMAIN new.frames : \A k \in DOMAIN new.frames[i].keys :
            KeyResolves(new, new.frames[i].keys[k])
    BY <1>1 DEF EachResolves, KeyResolves
  <1>4. ASSUME NEW t \in DOMAIN new.tracks, NEW c \in DOMAIN new.tracks[t].clips
        PROVE  Has(new.audio, new.tracks[t].clips[c].asset)
    <2>1. /\ Has(d.audio, new.tracks[t].clips[c].asset)
          /\ new.tracks[t].clips[c].asset # id
      BY <1>1 DEF EachResolves
    <2> QED
      BY <2>1 DEF Has
  <1>5. /\ \A c \in DOMAIN new.canvases : BoardFoundIn(new, new.canvases[c])
        /\ BoardFoundIn(new, new.cover)
    BY <1>1 DEF EachResolves, BoardFoundIn
  <1>6. FramesInOrder(new.frames) /\ IndexMatchesFrames(new)
    BY <1>1 DEF EachResolves, IndexMatchesFrames
  <1> QED
    BY <1>2, <1>3, <1>4, <1>5, <1>6 DEF EachResolves

(* Nothing is published any more.                                            *)
LEMMA PublicationGoes ==
    ASSUME NEW d \in CanvasDocument, NEW new, EachResolves(d),
           SameBut(new, d, {"published", "canvases", "cover"}), new.canvases = <<>>, new.cover = 0
    PROVE  EachResolves(new)
  <1>1. /\ new.assets = d.assets /\ new.layers = d.layers /\ new.frames = d.frames
        /\ new.tracks = d.tracks /\ new.boards = d.boards /\ new.audio = d.audio
    BY SameFields
  <1>2. \A i \in DOMAIN new.layers : LayerResolves(new, new.layers[i])
    BY <1>1 DEF EachResolves, LayerResolves
  <1>3. \A i \in DOMAIN new.frames : \A k \in DOMAIN new.frames[i].keys :
            KeyResolves(new, new.frames[i].keys[k])
    BY <1>1 DEF EachResolves, KeyResolves
  <1>4. \A t \in DOMAIN new.tracks : \A c \in DOMAIN new.tracks[t].clips :
            Has(new.audio, new.tracks[t].clips[c].asset)
    BY <1>1 DEF EachResolves
  <1>5. /\ \A c \in DOMAIN new.canvases : BoardFoundIn(new, new.canvases[c])
        /\ BoardFoundIn(new, new.cover)
    BY DEF BoardFoundIn
  <1>6. FramesInOrder(new.frames) /\ IndexMatchesFrames(new)
    BY <1>1 DEF EachResolves, IndexMatchesFrames
  <1> QED
    BY <1>2, <1>3, <1>4, <1>5, <1>6 DEF EachResolves

-----------------------------------------------------------------------------
(* An operation leaves a document, the one it was called on when it is not   *)
(* applied, and a whole one when that was whole.                             *)
NoTrace(d, outcome) ==
    /\ outcome.doc \in CanvasDocument
    /\ outcome.result # "applied" => outcome.doc = d
    /\ EachResolves(d) => EachResolves(outcome.doc)

(* Putting fields back is putting back a document that differs in no other.  *)
LEMMA RestoredIs ==
    ASSUME NEW d \in CanvasDocument, NEW new, NEW fields, SameBut(new, d, fields)
    PROVE  Restored(new, d, fields) = d
  <1>1. d = [f \in DOMAIN d |-> d[f]]
    BY DEF CanvasDocument
  <1>2. \A f \in DOMAIN d : d[f] = IF f \in fields THEN d[f] ELSE new[f]
    BY DEF SameBut
  <1> QED
    BY <1>1, <1>2 DEF Restored

(* The fields of a document change one at a time.                            *)
DocumentOf(N, I, W) ==
    [minor : N, width : W, infinite : BOOLEAN, origin : I, chunkSize : N,
     rate : I, frameCount : I, prompt : STRING, author : N,
     published : BOOLEAN, canvases : Seq(N), cover : N,
     assets : Seq(VisualAsset), layers : Seq(CanvasLayer), frames : Seq(CanvasFrame),
     audio : Seq(AudioAsset), tracks : Seq(AudioTrack), boards : Seq(Artboard)]

IsWhole(d) == d.published \/ (d.canvases = <<>> /\ d.cover = 0)

LEMMA DocumentIs == CanvasDocument = {d \in DocumentOf(Nat, Int, Extent) : IsWhole(d)}
  BY Zenon DEF CanvasDocument, DocumentOf, IsWhole

(* A document is a record of these fields.                                   *)
LEMMA FieldsOf ==
    ASSUME NEW N, NEW I, NEW W, NEW d \in DocumentOf(N, I, W), NEW n \in N, NEW i \in I
    PROVE  /\ [d EXCEPT !.minor = n] \in DocumentOf(N, I, W)
           /\ [d EXCEPT !.author = n] \in DocumentOf(N, I, W)
           /\ [d EXCEPT !.cover = n] \in DocumentOf(N, I, W)
           /\ \A w \in W : [d EXCEPT !.width = w] \in DocumentOf(N, I, W)
           /\ [d EXCEPT !.origin = i] \in DocumentOf(N, I, W)
           /\ [d EXCEPT !.rate = i] \in DocumentOf(N, I, W)
           /\ [d EXCEPT !.frameCount = i] \in DocumentOf(N, I, W)
           /\ \A v \in STRING : [d EXCEPT !.prompt = v] \in DocumentOf(N, I, W)
           /\ \A v \in BOOLEAN : [d EXCEPT !.published = v] \in DocumentOf(N, I, W)
           /\ \A s \in Seq(N) : [d EXCEPT !.canvases = s] \in DocumentOf(N, I, W)
           /\ \A s \in Seq(VisualAsset) : [d EXCEPT !.assets = s] \in DocumentOf(N, I, W)
           /\ \A s \in Seq(CanvasLayer) : [d EXCEPT !.layers = s] \in DocumentOf(N, I, W)
           /\ \A s \in Seq(CanvasFrame) : [d EXCEPT !.frames = s] \in DocumentOf(N, I, W)
           /\ \A s \in Seq(AudioAsset) : [d EXCEPT !.audio = s] \in DocumentOf(N, I, W)
           /\ \A s \in Seq(AudioTrack) : [d EXCEPT !.tracks = s] \in DocumentOf(N, I, W)
           /\ \A s \in Seq(Artboard) : [d EXCEPT !.boards = s] \in DocumentOf(N, I, W)
  BY DEF DocumentOf

(* What is published stays while other fields change.                       *)
LEMMA PublicationStays ==
    ASSUME NEW d \in DocumentOf(Nat, Int, Extent), NEW f \in DOMAIN d, NEW v,
           f \notin {"published", "canvases", "cover"}
    PROVE  IsWhole([d EXCEPT ![f] = v]) <=> IsWhole(d)
  <1>1. {"published", "canvases", "cover"} \subseteq DOMAIN d
    BY DEF DocumentOf
  <1> QED
    BY <1>1 DEF IsWhole

(* A field takes any value of its type.                                      *)
LEMMA FieldsChange ==
    ASSUME NEW d \in CanvasDocument
    PROVE  /\ \A n \in Nat : /\ [d EXCEPT !.minor = n] \in CanvasDocument
                            /\ [d EXCEPT !.author = n] \in CanvasDocument
           /\ \A w \in Extent : [d EXCEPT !.width = w] \in CanvasDocument
           /\ \A i \in Int : /\ [d EXCEPT !.origin = i] \in CanvasDocument
                            /\ [d EXCEPT !.rate = i] \in CanvasDocument
                            /\ [d EXCEPT !.frameCount = i] \in CanvasDocument
           /\ \A v \in STRING : [d EXCEPT !.prompt = v] \in CanvasDocument
           /\ \A s \in Seq(VisualAsset) : [d EXCEPT !.assets = s] \in CanvasDocument
           /\ \A s \in Seq(CanvasLayer) : [d EXCEPT !.layers = s] \in CanvasDocument
           /\ \A s \in Seq(CanvasFrame) : [d EXCEPT !.frames = s] \in CanvasDocument
           /\ \A s \in Seq(AudioAsset) : [d EXCEPT !.audio = s] \in CanvasDocument
           /\ \A s \in Seq(AudioTrack) : [d EXCEPT !.tracks = s] \in CanvasDocument
           /\ \A s \in Seq(Artboard) : [d EXCEPT !.boards = s] \in CanvasDocument
  <1>1. d \in DocumentOf(Nat, Int, Extent) /\ IsWhole(d) /\ 0 \in Nat /\ 0 \in Int
    BY DocumentIs
  <1>2. {"minor", "author", "width", "origin", "rate", "frameCount", "prompt", "assets", "layers",
         "frames", "audio", "tracks", "boards"} \subseteq DOMAIN d
    BY <1>1 DEF DocumentOf
  <1>3. \A v : /\ IsWhole([d EXCEPT !.minor = v]) /\ IsWhole([d EXCEPT !.author = v])
               /\ IsWhole([d EXCEPT !.width = v]) /\ IsWhole([d EXCEPT !.origin = v])
               /\ IsWhole([d EXCEPT !.rate = v]) /\ IsWhole([d EXCEPT !.frameCount = v])
               /\ IsWhole([d EXCEPT !.prompt = v]) /\ IsWhole([d EXCEPT !.assets = v])
               /\ IsWhole([d EXCEPT !.layers = v]) /\ IsWhole([d EXCEPT !.frames = v])
               /\ IsWhole([d EXCEPT !.audio = v]) /\ IsWhole([d EXCEPT !.tracks = v])
               /\ IsWhole([d EXCEPT !.boards = v])
    BY <1>1, <1>2, PublicationStays
  <1> QED
    BY <1>1, <1>3, DocumentIs, FieldsOf, Zenon

(* And have their types.                                                     *)
LEMMA FieldTypes ==
    ASSUME NEW d \in CanvasDocument
    PROVE  /\ d.minor \in Nat /\ d.width \in Extent /\ d.width \in Int
           /\ d.infinite \in BOOLEAN /\ d.origin \in Int
           /\ d.chunkSize \in Nat /\ d.rate \in Int /\ d.frameCount \in Int
           /\ d.canvases \in Seq(Nat) /\ d.cover \in Nat
           /\ d.assets \in Seq(VisualAsset) /\ d.layers \in Seq(CanvasLayer)
           /\ d.frames \in Seq(CanvasFrame) /\ d.audio \in Seq(AudioAsset)
           /\ d.tracks \in Seq(AudioTrack) /\ d.boards \in Seq(Artboard)
  <1>1. Extent \subseteq Int
    BY DEF Extent, CoordinateMax
  <1> QED
    BY <1>1 DEF CanvasDocument

LEMMA RaisedType ==
    ASSUME NEW d \in CanvasDocument
    PROVE  Raised(d) \in CanvasDocument /\ RecordDocumentChange(d) \in CanvasDocument
  BY FieldsChange DEF Raised, RecordDocumentChange, CurrentFormatMinor

(* An operation that ends without validate().                                *)
LEMMA UncheckedNoTrace ==
    ASSUME NEW d \in CanvasDocument, NEW refused, NEW same, NEW new,
           Valid(d) /\ ~refused => new \in CanvasDocument,
           Valid(d) /\ ~refused /\ ~same /\ EachResolves(d) => EachResolves(new)
    PROVE  NoTrace(d, Unchecked(d, refused, same, new))
  <1>1. CASE Valid(d) /\ ~refused
    BY <1>1, RaisedType, RaisedResolves DEF NoTrace, Unchecked, Checked, Outcome, Applied
  <1>2. CASE ~(Valid(d) /\ ~refused)
    BY <1>2 DEF NoTrace, Unchecked, Checked, Outcome
  <1> QED
    BY <1>1, <1>2

(* validate() decides, and the fields that changed are put back.             *)
LEMMA EditOrNoTrace ==
    ASSUME NEW d \in CanvasDocument, NEW refused, NEW same, NEW new, NEW undone,
           Valid(d) /\ ~refused /\ ~same => new \in CanvasDocument /\ undone = d
    PROVE  NoTrace(d, EditOr(d, refused, same, new, undone))
  <1>1. CASE Valid(d) /\ ~refused /\ ~same
    <2>1. CASE Valid(new)
      <3>1. EachResolves(new)
        BY <1>1, <2>1, ValidResolves
      <3> QED
        BY <1>1, <2>1, <3>1, RaisedType, RaisedResolves
           DEF NoTrace, EditOr, Checked, Outcome, Applied
    <2>2. CASE ~Valid(new)
      BY <1>1, <2>2 DEF NoTrace, EditOr, Checked, Outcome
    <2> QED
      BY <2>1, <2>2
  <1>2. CASE ~(Valid(d) /\ ~refused /\ ~same)
    BY <1>2 DEF NoTrace, EditOr, Checked, Outcome
  <1> QED
    BY <1>1, <1>2

(* The same, behind the checks an operation begins with.                     *)
LEMMA EditNoTrace ==
    ASSUME NEW d \in CanvasDocument, NEW refused, NEW same, NEW new, NEW fields,
           Valid(d) /\ ~refused => new \in CanvasDocument /\ SameBut(new, d, fields)
    PROVE  NoTrace(d, Edit(d, refused, same, new, fields))
  <1>1. Valid(d) /\ ~refused /\ ~same =>
            new \in CanvasDocument /\ Restored(new, d, fields) = d
    BY RestoredIs
  <1> QED
    BY <1>1, EditOrNoTrace DEF Edit

(* A check refuses, or the rest of the operation decides.                    *)
LEMMA CheckedNoTrace ==
    ASSUME NEW d \in CanvasDocument, NEW refused, NEW outcome,
           Valid(d) /\ ~refused => NoTrace(d, outcome)
    PROVE  NoTrace(d, Checked(d, refused, outcome))
  BY DEF NoTrace, Checked, Outcome

(* What finds nothing to do returns before it changes anything.              *)
LEMMA UnchangedNoTrace ==
    ASSUME NEW d \in CanvasDocument, NEW how PROVE NoTrace(d, Outcome(d, how))
  BY DEF NoTrace, Outcome

-----------------------------------------------------------------------------
(* Canvas, timeline and metadata                                             *)

LEMMA CanvasCallsLeaveNoTrace ==
    ASSUME NEW d \in CanvasDocument, NEW n \in Nat, n <= CoordinateMax
    PROVE  /\ NoTrace(d, SetCanvasExtent(d, n))
           /\ NoTrace(d, SetFrameRate(d, n))
           /\ NoTrace(d, SetFrameCount(d, n))
  <1> n \in Int /\ n \in Extent
    BY DEF Extent, CoordinateMax
  <1>1. LET new == [d EXCEPT !.width = n]
        IN  new \in CanvasDocument /\ SameBut(new, d, {"width"})
    BY FieldsChange DEF SameBut
  <1>2. LET new == [d EXCEPT !.rate = n]
        IN  new \in CanvasDocument /\ SameBut(new, d, {"rate"})
    BY FieldsChange DEF SameBut
  <1>3. LET new == [d EXCEPT !.frameCount = n]
        IN  new \in CanvasDocument /\ SameBut(new, d, {"frameCount"})
    BY FieldsChange DEF SameBut
  <1>4. NoTrace(d, SetCanvasExtent(d, n))
    BY <1>1, EditNoTrace DEF SetCanvasExtent
  <1>5. NoTrace(d, SetFrameRate(d, n))
    BY <1>2, EditNoTrace DEF SetFrameRate
  <1>6. NoTrace(d, SetFrameCount(d, n))
    BY <1>3, EditNoTrace DEF SetFrameCount
  <1> QED
    BY <1>4, <1>5, <1>6

(* Chunks begin and end at whole numbers.                                    *)
LEMMA MultipleType ==
    ASSUME NEW v \in Int, NEW step \in Nat, step > 0
    PROVE  /\ FloorToMultiple(v, step) \in Int /\ FloorToMultiple(v, step) <= v
           /\ CeilToMultiple(v, step) \in Int /\ CeilToMultiple(v, step) >= v
  <1>1. \A n \in Nat : n % step \in Nat /\ n % step < step
    OBVIOUS
  <1>2. /\ Remainder(v, step) \in Int
        /\ -step < Remainder(v, step) /\ Remainder(v, step) < step
    BY <1>1 DEF Remainder
  <1> QED
    BY <1>2 DEF FloorToMultiple, CeilToMultiple

(* ensureInfiniteCanvasRegion() grows the canvas by chunks, or puts it back. *)
LEMMA InfiniteRegionLeavesNoTrace ==
    ASSUME NEW d \in CanvasDocument, NEW origin \in Int, NEW width \in Nat
    PROVE  NoTrace(d, EnsureInfiniteCanvasRegion(d, origin, width))
  <1> DEFINE left == FloorToMultiple(IF origin < d.origin THEN origin ELSE d.origin, d.chunkSize)
             ends == {d.origin + d.width, origin + width}
             end == CHOOSE e \in ends : \A f \in ends : f <= e
             right == CeilToMultiple(end, d.chunkSize)
             new == [d EXCEPT !.origin = left, !.width = right - left]
             refused == \/ ~d.infinite \/ width <= 0
                        \/ left < -CoordinateMax - 1 \/ right > CoordinateMax
                        \/ right - left > CoordinateMax
             same == left = d.origin /\ right - left = d.width
  <1>1. ASSUME Valid(d), ~refused PROVE new \in CanvasDocument /\ SameBut(new, d, {"origin", "width"})
    <2>1. d.chunkSize \in Nat /\ d.chunkSize > 0 /\ d.width > 0
      BY <1>1 DEF Valid, ValidCanvas, ChunkSizes
    <2>2. d.origin \in Int /\ d.width \in Int
      BY FieldTypes
    <2>3. end \in Int /\ d.origin + d.width <= end
      <3>1. \E e \in ends : \A f \in ends : f <= e
        BY <2>2
      <3>2. end \in ends /\ \A f \in ends : f <= end
        BY <3>1
      <3> HIDE DEF end
      <3> QED
        BY <2>2, <3>2
    <2>4. left \in Int /\ right \in Int /\ left <= d.origin /\ end <= right
      <3> DEFINE start == IF origin < d.origin THEN origin ELSE d.origin
      <3>1. start \in Int /\ start <= d.origin
        BY <2>2
      <3> HIDE DEF end, start
      <3>2. left \in Int /\ left <= start
        BY <2>1, <3>1, MultipleType DEF start
      <3>3. right \in Int /\ end <= right
        BY <2>1, <2>3, MultipleType
      <3> QED
        BY <2>2, <3>1, <3>2, <3>3
    <2> HIDE DEF left, right, end
    <2>5. 0 < right - left
      BY <2>1, <2>2, <2>3, <2>4
    <2>6. new = [[d EXCEPT !.origin = left] EXCEPT !.width = right - left] /\ right - left \in Extent
      BY <1>1, <2>4, <2>5 DEF Extent, CoordinateMax
    <2>7. new \in CanvasDocument
      BY <2>4, <2>6, FieldsChange
    <2>8. SameBut(new, d, {"origin", "width"})
      BY DEF SameBut
    <2> QED
      BY <2>7, <2>8
  <1>2. EnsureInfiniteCanvasRegion(d, origin, width) = Edit(d, refused, same, new, {"origin", "width"})
    BY DEF EnsureInfiniteCanvasRegion
  <1> HIDE DEF refused, same, new
  <1> QED
    BY <1>1, <1>2, EditNoTrace

LEMMA PromptLeavesNoTrace ==
    ASSUME TextsAreStrings, NEW d \in CanvasDocument, NEW v \in STRING
    PROVE  NoTrace(d, SetStableDiffusionMetadata(d, v)) /\ NoTrace(d, ClearStableDiffusionMetadata(d))
  <1> DEFINE minor == IF d.minor < 2 THEN 2 ELSE d.minor
             new == [d EXCEPT !.prompt = v, !.minor = IF @ < 2 THEN 2 ELSE @]
             cleared == [d EXCEPT !.prompt = "none"]
  <1>1. new \in CanvasDocument
    <2>1. minor \in Nat /\ new = [[d EXCEPT !.prompt = v] EXCEPT !.minor = minor]
      BY FieldTypes
    <2> HIDE DEF minor
    <2> QED
      BY <2>1, FieldsChange
  <1>2. SameBut(new, d, {"prompt", "minor"})
    BY DEF SameBut
  <1>3. cleared \in CanvasDocument /\ SameBut(cleared, d, {"prompt"})
    <2>1. "none" \in STRING
      BY DEF TextsAreStrings
    <2>2. cleared \in CanvasDocument
      BY <2>1, FieldsChange
    <2> QED
      BY <2>2 DEF SameBut
  <1>4. NoTrace(d, SetStableDiffusionMetadata(d, v))
    BY <1>1, <1>2, EditNoTrace DEF SetStableDiffusionMetadata
  <1>5. NoTrace(d, ClearStableDiffusionMetadata(d))
    BY <1>3, EditNoTrace DEF ClearStableDiffusionMetadata
  <1> QED
    BY <1>4, <1>5

LEMMA PublicationType ==
    ASSUME NEW d \in CanvasDocument, NEW published \in BOOLEAN, NEW canvases \in Seq(Nat),
           NEW cover \in Nat, published \/ (canvases = <<>> /\ cover = 0)
    PROVE  [d EXCEPT !.published = published, !.canvases = canvases, !.cover = cover]
                \in CanvasDocument
  <1> DEFINE e == [d EXCEPT !.published = published]
             f == [e EXCEPT !.canvases = canvases]
             g == [f EXCEPT !.cover = cover]
  <1>1. d \in DocumentOf(Nat, Int, Extent) /\ 0 \in Nat /\ 0 \in Int
    BY DocumentIs
  <1>2. e \in DocumentOf(Nat, Int, Extent)
    BY <1>1, FieldsOf
  <1>3. f \in DocumentOf(Nat, Int, Extent)
    <2> HIDE DEF e
    <2> QED
      BY <1>1, <1>2, FieldsOf
  <1>4. g \in DocumentOf(Nat, Int, Extent)
    <2> HIDE DEF f
    <2> QED
      BY <1>1, <1>3, FieldsOf
  <1>5. IsWhole(g)
    BY <1>1 DEF IsWhole, DocumentOf
  <1> QED
    BY <1>4, <1>5, DocumentIs

LEMMA PublicationLeavesNoTrace ==
    ASSUME NEW d \in CanvasDocument, NEW canvases \in Seq(Nat), NEW cover \in Nat
    PROVE  /\ NoTrace(d, SetPublicationMetadata(d, canvases, cover))
           /\ NoTrace(d, ClearPublicationMetadata(d))
  <1> DEFINE new == [Raised(d) EXCEPT !.published = TRUE, !.canvases = canvases, !.cover = cover]
             cleared == [d EXCEPT !.published = FALSE, !.canvases = <<>>, !.cover = 0]
  <1>1. new \in CanvasDocument
    BY RaisedType, PublicationType
  <1>2. SameBut(new, d, {"published", "canvases", "cover", "minor"})
    BY DEF SameBut, Raised
  <1>3. cleared \in CanvasDocument
    <2>1. <<>> \in Seq(Nat) /\ 0 \in Nat
      OBVIOUS
    <2> QED
      BY <2>1, PublicationType
  <1>4. NoTrace(d, SetPublicationMetadata(d, canvases, cover))
    BY <1>1, <1>2, EditNoTrace DEF SetPublicationMetadata
  <1>5. NoTrace(d, ClearPublicationMetadata(d))
    <2>1. SameBut(cleared, d, {"published", "canvases", "cover"})
      BY DEF SameBut
    <2>2. cleared.canvases = <<>> /\ cleared.cover = 0
      BY DEF CanvasDocument
    <2>3. EachResolves(d) => EachResolves(cleared)
      BY <2>1, <2>2, PublicationGoes
    <2> QED
      BY <1>3, <2>3, UncheckedNoTrace DEF ClearPublicationMetadata
  <1> QED
    BY <1>4, <1>5

LEMMA AuthorLeavesNoTrace ==
    ASSUME NEW d \in CanvasDocument, NEW author \in Nat
    PROVE  NoTrace(d, SetFileAuthor(d, author))
  <1>1. [Raised(d) EXCEPT !.author = author] \in CanvasDocument
    BY RaisedType, FieldsChange
  <1>2. NoTrace(d, IF d.author = author THEN Outcome(d, "unchanged")
                   ELSE Outcome([Raised(d) EXCEPT !.author = author], "applied"))
    <2>1. SameBut([Raised(d) EXCEPT !.author = author], d,
                  {"minor", "author", "width", "origin", "rate", "prompt"})
      BY DEF SameBut, Raised
    <2>2. EachResolves(d) => EachResolves([Raised(d) EXCEPT !.author = author])
      BY <2>1, OtherFieldsStay
    <2> QED
      BY <1>1, <2>2 DEF NoTrace, Outcome
  <1> QED
    BY <1>2, CheckedNoTrace DEF SetFileAuthor

-----------------------------------------------------------------------------
(* Visual assets                                                             *)

LEMMA VisualType ==
    ASSUME NEW id \in Nat, NEW kind \in AssetKind, NEW parts \in Seq(STRING)
    PROVE  Visual(id, kind, parts) \in VisualAsset /\ Visual(id, kind, parts).kind = kind
  BY DEF Visual, VisualAsset

LEMMA PartsType ==
    ASSUME NEW asset \in VisualAsset, NEW parts \in Seq(STRING)
    PROVE  [asset EXCEPT !.parts = parts] \in VisualAsset
  BY DEF VisualAsset

LEMMA NewIdType ==
    ASSUME NEW asset \in VisualAsset, NEW id \in Nat
    PROVE  [asset EXCEPT !.id = id] \in VisualAsset
  <1> DEFINE A(N) == [id : N, kind : AssetKind, parts : Seq(STRING)]
  <1>1. \A N : \A a \in A(N), n \in N : [a EXCEPT !.id = n] \in A(N)
    OBVIOUS
  <1>2. VisualAsset = A(Nat)
    BY Zenon DEF VisualAsset
  <1> HIDE DEF A
  <1> QED
    BY <1>1, <1>2

LEMMA InsertedAssetLeavesNoTrace ==
    ASSUME NEW d \in CanvasDocument, NEW asset \in VisualAsset, NEW at \in Nat \union {AppendIndex}
    PROVE  NoTrace(d, InsertPlainAsset(d, asset, at)) /\ NoTrace(d, InsertTypedAsset(d, asset, at))
  <1> DEFINE new == InsertedAsset(d, asset, at)
             raised == InsertedAsset(Raised(d), asset, at)
  <1>1. ASSUME ~IsOutside(at, d.assets)
        PROVE  /\ new \in CanvasDocument /\ SameBut(new, d, {"assets"})
               /\ raised \in CanvasDocument /\ SameBut(raised, d, {"assets", "minor"})
    <2> DEFINE s == Inserted(d.assets, at, asset)
    <2>1. s \in Seq(VisualAsset)
      BY <1>1, FieldTypes, InsertedType
    <2>2. new = [d EXCEPT !.assets = s] /\ raised = [Raised(d) EXCEPT !.assets = s]
      BY DEF InsertedAsset, Raised
    <2> HIDE DEF s
    <2>3. new \in CanvasDocument /\ raised \in CanvasDocument
      <3> HIDE DEF new, raised
      <3> QED
        BY <2>1, <2>2, FieldsChange, RaisedType
    <2>4. SameBut(new, d, {"assets"}) /\ SameBut(raised, d, {"assets", "minor"})
      <3> HIDE DEF new, raised
      <3> QED
        BY <2>2 DEF SameBut, Raised
    <2> QED
      BY <2>3, <2>4
  <1> HIDE DEF new, raised
  <1>2. NoTrace(d, InsertPlainAsset(d, asset, at))
    BY <1>1, EditNoTrace DEF InsertPlainAsset, new
  <1>3. NoTrace(d, InsertTypedAsset(d, asset, at))
    BY <1>1, EditNoTrace DEF InsertTypedAsset, raised
  <1> QED
    BY <1>2, <1>3

LEMMA WithPartsType ==
    ASSUME NEW d \in CanvasDocument, NEW id, NEW parts \in Seq(STRING)
    PROVE  /\ WithParts(d, id, parts) \in CanvasDocument
           /\ SameBut(WithParts(d, id, parts), d, {"assets"})
  <1> DEFINE i == Item(d.assets, id)
             changed == [d.assets[i] EXCEPT !.parts = parts]
             s == [d.assets EXCEPT ![i] = changed]
  <1>1. i \in DOMAIN d.assets => changed \in VisualAsset
    <2>1. i \in DOMAIN d.assets => d.assets[i] \in VisualAsset
      BY FieldTypes, LenProperties, ElementOfSeq
    <2> QED
      BY <2>1, PartsType
  <1>2. s \in Seq(VisualAsset)
    <2> HIDE DEF i, changed
    <2> QED
      BY <1>1, FieldTypes, ChangedType
  <1>3. WithParts(d, id, parts) = [d EXCEPT !.assets = s]
    BY DEF WithParts
  <1> HIDE DEF s
  <1> QED
    BY <1>2, <1>3, FieldsChange DEF SameBut

(* Another content keeps the id of the asset.                                *)
LEMMA WithPartsResolves ==
    ASSUME NEW d \in CanvasDocument, NEW id, NEW parts \in Seq(STRING), EachResolves(d)
    PROVE  EachResolves(WithParts(d, id, parts))
  <1> DEFINE i == Item(d.assets, id)
             s == [d.assets EXCEPT ![i] = [d.assets[i] EXCEPT !.parts = parts]]
             new == WithParts(d, id, parts)
  <1>1. new.assets = s
    BY DEF WithParts, CanvasDocument
  <1>2. \A j \in DOMAIN d.assets : j \in DOMAIN s /\ s[j].id = d.assets[j].id
    <2>1. \A j \in DOMAIN d.assets : d.assets[j] \in VisualAsset
      BY FieldTypes, LenProperties, ElementOfSeq
    <2> HIDE DEF i
    <2> QED
      BY <2>1 DEF VisualAsset
  <1> HIDE DEF s
  <1>3. KeepsIds(d.assets, new.assets)
    BY <1>1, <1>2 DEF KeepsIds, Has
  <1>4. SameBut(new, d, {"assets", "minor"})
    BY WithPartsType DEF SameBut
  <1> HIDE DEF new
  <1> QED
    BY <1>3, <1>4, AssetsStay DEF new

LEMMA ReplacedAssetLeavesNoTrace ==
    ASSUME NEW d \in CanvasDocument, NEW id, NEW asset \in VisualAsset
    PROVE  NoTrace(d, ReplaceTypedAsset(d, id, asset))
  <1>1. asset.parts \in Seq(STRING)
    BY DEF VisualAsset
  <1> QED
    BY <1>1, WithPartsType, EditNoTrace DEF ReplaceTypedAsset

LEMMA PartsLeaveNoTrace ==
    ASSUME NEW d \in CanvasDocument, NEW id, NEW parts \in Seq(STRING)
    PROVE  NoTrace(d, ReplaceVectorData(d, id, parts))
  BY WithPartsType, EditNoTrace DEF ReplaceVectorData

LEMMA MovedAssetLeavesNoTrace ==
    ASSUME NEW d \in CanvasDocument, NEW id, NEW to \in Nat
    PROVE  NoTrace(d, MoveAsset(d, id, to))
  <1> DEFINE from == Item(d.assets, id)
             s == MoveElement(d.assets, from, to)
             new == [d EXCEPT !.assets = MoveElement(@, from, to)]
  <1>1. ASSUME Has(d.assets, id), to < Len(d.assets) PROVE new \in CanvasDocument
    <2>1. s \in Seq(VisualAsset)
      BY <1>1, FieldTypes, FoundType, MovedType
    <2>2. new = [d EXCEPT !.assets = s]
      OBVIOUS
    <2> HIDE DEF s
    <2> QED
      BY <2>1, <2>2, FieldsChange
  <1> DEFINE refused == ~Has(d.assets, id) \/ to >= Len(d.assets)
             same == from = to + 1
  <1>2. ~refused => new \in CanvasDocument
    <2>1. Len(d.assets) \in Nat
      BY FieldTypes, LenProperties
    <2> QED
      BY <1>1, <2>1
  <1>3. MoveAsset(d, id, to) = Unchecked(d, refused, same, new)
    BY DEF MoveAsset
  <1>4. ASSUME ~refused, EachResolves(d) PROVE EachResolves(new)
    <2>1. Len(d.assets) \in Nat /\ d.assets \in Seq(VisualAsset)
      BY FieldTypes, LenProperties
    <2>2. \A j \in DOMAIN d.assets : \E k \in DOMAIN s : s[k] = d.assets[j]
      <3>1. from \in DOMAIN d.assets /\ to < Len(d.assets)
        BY <1>4, <2>1, FoundType
      <3> HIDE DEF from
      <3> QED
        BY <2>1, <3>1, MovedElements
    <2>3. SameBut(new, d, {"assets", "minor"}) /\ new.assets = s
      BY DEF SameBut, CanvasDocument
    <2> HIDE DEF s
    <2>4. KeepsIds(d.assets, s)
      BY <2>2 DEF KeepsIds, Has
    <2> HIDE DEF new
    <2> QED
      BY <1>4, <2>3, <2>4, AssetsStay
  <1> HIDE DEF new, refused, same
  <1> QED
    BY <1>2, <1>3, <1>4, UncheckedNoTrace

LEMMA RemovedType ==
    ASSUME NEW S, NEW s \in Seq(S), NEW i \in DOMAIN s
    PROVE  RemoveAt(s, i) \in Seq(S)
  BY LenProperties, RemoveAtProperties

LEMMA RemovedAssetLeavesNoTrace ==
    ASSUME NEW d \in CanvasDocument, NEW id
    PROVE  NoTrace(d, RemoveAsset(d, id))
  <1> DEFINE s == RemoveAt(d.assets, Item(d.assets, id))
             new == [d EXCEPT !.assets = RemoveAt(@, Item(@, id))]
  <1>1. ASSUME Has(d.assets, id) PROVE new \in CanvasDocument /\ SameBut(new, d, {"assets"})
    <2>1. s \in Seq(VisualAsset)
      BY <1>1, FieldTypes, FoundType, RemovedType
    <2>2. new = [d EXCEPT !.assets = s]
      OBVIOUS
    <2> HIDE DEF s
    <2> QED
      BY <2>1, <2>2, FieldsChange DEF SameBut
  <1> HIDE DEF new
  <1> QED
    BY <1>1, EditNoTrace DEF RemoveAsset, new

-------------------------------------------------------------------------------
(* The fields of a layer                                                     *)

(* Layers, one field at a time.                                              *)
LayerOf(N, I) ==
    [id : N, name : STRING, kind : LayerKind, board : N, x : I, visible : BOOLEAN,
     opacity : N, blend : N, appearance : Appearance,
     keyed : BOOLEAN, asset : N, index : Seq(N), range : Seq(N), motion : Seq(N),
     control : ControlSettings, setup : STRING, playback : Seq(N)]

LEMMA LayerIs == CanvasLayer = {l \in LayerOf(Nat, Int) : IsVariant(l)}
  BY Zenon DEF CanvasLayer, LayerOf

LEMMA LayerFieldsOf ==
    ASSUME NEW N, NEW I, NEW l \in LayerOf(N, I), NEW n \in N, NEW i \in I
    PROVE  /\ [l EXCEPT !.id = n] \in LayerOf(N, I)
           /\ [l EXCEPT !.board = n] \in LayerOf(N, I)
           /\ [l EXCEPT !.opacity = n] \in LayerOf(N, I)
           /\ [l EXCEPT !.blend = n] \in LayerOf(N, I)
           /\ [l EXCEPT !.asset = n] \in LayerOf(N, I)
           /\ [l EXCEPT !.x = i] \in LayerOf(N, I)
           /\ \A v \in STRING : /\ [l EXCEPT !.name = v] \in LayerOf(N, I)
                                /\ [l EXCEPT !.setup = v] \in LayerOf(N, I)
           /\ \A v \in LayerKind : [l EXCEPT !.kind = v] \in LayerOf(N, I)
           /\ \A v \in BOOLEAN : /\ [l EXCEPT !.visible = v] \in LayerOf(N, I)
                                 /\ [l EXCEPT !.keyed = v] \in LayerOf(N, I)
           /\ \A v \in Appearance : [l EXCEPT !.appearance = v] \in LayerOf(N, I)
           /\ \A v \in ControlSettings : [l EXCEPT !.control = v] \in LayerOf(N, I)
           /\ \A s \in Seq(N) : /\ [l EXCEPT !.index = s] \in LayerOf(N, I)
                                /\ [l EXCEPT !.range = s] \in LayerOf(N, I)
                                /\ [l EXCEPT !.motion = s] \in LayerOf(N, I)
                                /\ [l EXCEPT !.playback = s] \in LayerOf(N, I)
  BY DEF LayerOf

(* Properties do not tell the alternatives of the variant apart.             *)
LEMMA VariantStays ==
    ASSUME NEW l \in LayerOf(Nat, Int), NEW f \in DOMAIN l, NEW v,
           f \notin {"kind", "keyed", "asset", "index", "control", "setup", "playback"}
    PROVE  IsVariant([l EXCEPT ![f] = v]) <=> IsVariant(l)
  <1>1. {"kind", "keyed", "asset", "index", "control", "setup", "playback"} \subseteq DOMAIN l
    BY DEF LayerOf
  <1> QED
    BY <1>1 DEF IsVariant

(* A property of a layer takes any value of its type.                        *)
LEMMA LayerFieldsChange ==
    ASSUME NEW l \in CanvasLayer
    PROVE  /\ \A n \in Nat : /\ [l EXCEPT !.id = n] \in CanvasLayer
                            /\ [l EXCEPT !.board = n] \in CanvasLayer
                            /\ [l EXCEPT !.opacity = n] \in CanvasLayer
                            /\ [l EXCEPT !.blend = n] \in CanvasLayer
           /\ \A i \in Int : [l EXCEPT !.x = i] \in CanvasLayer
           /\ \A v \in STRING : [l EXCEPT !.name = v] \in CanvasLayer
           /\ \A v \in BOOLEAN : [l EXCEPT !.visible = v] \in CanvasLayer
           /\ \A v \in Appearance : [l EXCEPT !.appearance = v] \in CanvasLayer
           /\ \A s \in Seq(Nat) : /\ [l EXCEPT !.range = s] \in CanvasLayer
                                  /\ [l EXCEPT !.motion = s] \in CanvasLayer
  <1>1. l \in LayerOf(Nat, Int) /\ IsVariant(l) /\ 0 \in Nat /\ 0 \in Int
    BY LayerIs
  <1>2. {"id", "board", "opacity", "blend", "x", "name", "visible", "appearance", "range",
         "motion"} \subseteq DOMAIN l
    BY <1>1 DEF LayerOf
  <1>3. \A v : /\ IsVariant([l EXCEPT !.id = v]) /\ IsVariant([l EXCEPT !.board = v])
               /\ IsVariant([l EXCEPT !.opacity = v]) /\ IsVariant([l EXCEPT !.blend = v])
               /\ IsVariant([l EXCEPT !.x = v]) /\ IsVariant([l EXCEPT !.name = v])
               /\ IsVariant([l EXCEPT !.visible = v]) /\ IsVariant([l EXCEPT !.appearance = v])
               /\ IsVariant([l EXCEPT !.range = v]) /\ IsVariant([l EXCEPT !.motion = v])
    BY <1>1, <1>2, VariantStays
  <1> QED
    BY <1>1, <1>3, LayerIs, LayerFieldsOf, Zenon

(* The sources a layer can have: a keyframed one has an index and no asset,  *)
(* a static one an asset and no index.                                       *)
StaticFrom(l, asset) == [l EXCEPT !.keyed = FALSE, !.asset = asset, !.index = <<>>]
KeyedFrom(l) == [l EXCEPT !.keyed = TRUE, !.asset = 0]

LEMMA SourcesChange ==
    ASSUME NEW l \in CanvasLayer, NEW n \in Nat, NEW s \in Seq(Nat)
    PROVE  /\ l.keyed \/ [l EXCEPT !.asset = n] \in CanvasLayer
           /\ ~l.keyed \/ [l EXCEPT !.index = s] \in CanvasLayer
           /\ [l EXCEPT !.index = <<>>] \in CanvasLayer
           /\ StaticFrom(l, n) \in CanvasLayer
           /\ KeyedFrom(l) \in CanvasLayer
  <1>1. l \in LayerOf(Nat, Int) /\ IsVariant(l) /\ 0 \in Nat /\ 0 \in Int /\ <<>> \in Seq(Nat)
    BY LayerIs
  <1>2. /\ [l EXCEPT !.asset = n] \in LayerOf(Nat, Int)
        /\ [l EXCEPT !.index = s] \in LayerOf(Nat, Int)
        /\ [l EXCEPT !.index = <<>>] \in LayerOf(Nat, Int)
    BY <1>1, LayerFieldsOf, Zenon
  <1> DEFINE static == [l EXCEPT !.keyed = FALSE]
             of == [static EXCEPT !.asset = n]
             keyed == [l EXCEPT !.keyed = TRUE]
  <1>3. /\ StaticFrom(l, n) = [of EXCEPT !.index = <<>>]
        /\ KeyedFrom(l) = [keyed EXCEPT !.asset = 0]
    BY DEF StaticFrom, KeyedFrom
  <1>4. StaticFrom(l, n) \in LayerOf(Nat, Int) /\ KeyedFrom(l) \in LayerOf(Nat, Int)
    <2>1. static \in LayerOf(Nat, Int) /\ keyed \in LayerOf(Nat, Int)
      BY <1>1, LayerFieldsOf, Zenon
    <2> HIDE DEF static, keyed
    <2>2. of \in LayerOf(Nat, Int)
      BY <1>1, <2>1, LayerFieldsOf, Zenon
    <2> HIDE DEF of
    <2>3. [of EXCEPT !.index = <<>>] \in LayerOf(Nat, Int)
      BY <1>1, <2>2, LayerFieldsOf, Zenon
    <2>4. [keyed EXCEPT !.asset = 0] \in LayerOf(Nat, Int)
      BY <1>1, <2>1, LayerFieldsOf, Zenon
    <2> QED
      BY <1>3, <2>3, <2>4
  <1> HIDE DEF static, of, keyed
  <1>5. /\ l.keyed \/ IsVariant([l EXCEPT !.asset = n])
        /\ ~l.keyed \/ IsVariant([l EXCEPT !.index = s])
        /\ IsVariant([l EXCEPT !.index = <<>>])
        /\ IsVariant(StaticFrom(l, n)) /\ IsVariant(KeyedFrom(l))
    BY <1>1 DEF IsVariant, LayerOf, StaticFrom, KeyedFrom
  <1> QED
    BY <1>2, <1>4, <1>5, LayerIs

(* The settings it can have, by its kind.                                    *)
LEMMA SettingsChange ==
    ASSUME NEW l \in CanvasLayer
    PROVE  /\ \A v \in ControlSettings :
                    HasRole(l.kind) => [l EXCEPT !.control = v] \in CanvasLayer
           /\ \A v \in STRING : HasSetup(l.kind) => [l EXCEPT !.setup = v] \in CanvasLayer
           /\ \A v \in Seq(Nat) : l.kind = "Video" => [l EXCEPT !.playback = v] \in CanvasLayer
  <1>1. l \in LayerOf(Nat, Int) /\ IsVariant(l) /\ 0 \in Nat /\ 0 \in Int
    BY LayerIs
  <1>2. /\ \A v \in ControlSettings : [l EXCEPT !.control = v] \in LayerOf(Nat, Int)
        /\ \A v \in STRING : [l EXCEPT !.setup = v] \in LayerOf(Nat, Int)
        /\ \A v \in Seq(Nat) : [l EXCEPT !.playback = v] \in LayerOf(Nat, Int)
    BY <1>1, LayerFieldsOf, Zenon
  <1>3. \A v : /\ HasRole(l.kind) => IsVariant([l EXCEPT !.control = v])
               /\ HasSetup(l.kind) => IsVariant([l EXCEPT !.setup = v])
               /\ l.kind = "Video" => IsVariant([l EXCEPT !.playback = v])
    BY <1>1 DEF IsVariant, LayerOf
  <1> QED
    BY <1>2, <1>3, LayerIs

LEMMA OfTypeType ==
    ASSUME TextsAreStrings, NEW l \in CanvasLayer, NEW kind \in LayerKind, HasRole(kind)
    PROVE  OfType(kind, l) \in CanvasLayer
  <1>1. l \in LayerOf(Nat, Int) /\ IsVariant(l) /\ 0 \in Nat /\ 0 \in Int
    BY LayerIs
  <1> DEFINE setup == IF HasSetup(kind) THEN l.setup ELSE NoSetup
             named == [l EXCEPT !.kind = kind]
             still == [named EXCEPT !.playback = NoPlayback]
  <1>2. NoPlayback \in Seq(Nat) /\ setup \in STRING
    <2>1. l.setup \in STRING /\ NoSetup \in STRING
      BY <1>1 DEF NoSetup, LayerOf, TextsAreStrings
    <2>2. NoPlayback \in Seq(Nat)
      BY DEF NoPlayback
    <2> QED
      BY <2>1, <2>2
  <1>3. OfType(kind, l) = [still EXCEPT !.setup = setup]
    BY DEF OfType
  <1>4. IsVariant(OfType(kind, l))
    <2>1. {"kind", "keyed", "asset", "index", "control", "setup", "playback"} \subseteq DOMAIN l
      BY <1>1 DEF LayerOf
    <2> QED
      BY <1>1, <2>1 DEF IsVariant, OfType
  <1> HIDE DEF setup
  <1>5. OfType(kind, l) \in LayerOf(Nat, Int)
    <2>1. named \in LayerOf(Nat, Int)
      BY <1>1, LayerFieldsOf, Zenon
    <2> HIDE DEF named
    <2>2. still \in LayerOf(Nat, Int)
      BY <1>1, <1>2, <2>1, LayerFieldsOf, Zenon
    <2> HIDE DEF still
    <2>3. [still EXCEPT !.setup = setup] \in LayerOf(Nat, Int)
      BY <1>1, <1>2, <2>2, LayerFieldsOf, Zenon
    <2> QED
      BY <1>3, <2>3
  <1> QED
    BY <1>4, <1>5, LayerIs

LEMMA LayerFieldTypes ==
    ASSUME NEW l \in CanvasLayer
    PROVE  /\ l.id \in Nat /\ l.board \in Nat /\ l.x \in Int /\ l.appearance \in Appearance
           /\ l.keyed \in BOOLEAN /\ l.asset \in Nat /\ l.index \in Seq(Nat)
           /\ l.control \in ControlSettings /\ l.kind \in LayerKind
  BY DEF CanvasLayer

LEMMA MasksType ==
    ASSUME NEW a \in Appearance, NEW m \in Nat, NEW v \in Nat
    PROVE  [a EXCEPT !.mask = m, !.vectorMask = v] \in Appearance
  <1> DEFINE A(N) == [clipped : BOOLEAN, mask : N, vectorMask : N, fill : N]
  <1>1. \A N : \A b \in A(N), x, y \in N : [b EXCEPT !.mask = x, !.vectorMask = y] \in A(N)
    OBVIOUS
  <1>2. Appearance = A(Nat)
    BY Zenon DEF Appearance
  <1> HIDE DEF A
  <1> QED
    BY <1>1, <1>2

LEMMA MappedType ==
    ASSUME NEW T, NEW s, NEW S, s \in Seq(S), NEW t, t = [i \in DOMAIN s |-> t[i]],
           \A i \in DOMAIN s : t[i] \in T
    PROVE  t \in Seq(T)
  <1>1. DOMAIN s = 1 .. Len(s) /\ Len(s) \in Nat
    BY LenProperties
  <1> QED
    BY <1>1

-----------------------------------------------------------------------------
(* The references to an asset, renamed                                       *)

RenamedLook(a, from, to) ==
    [a EXCEPT !.mask = Renamed(@, from, to), !.vectorMask = Renamed(@, from, to)]
RenamedSource(l, from, to) == IF l.keyed THEN l.asset ELSE Renamed(l.asset, from, to)

LEMMA RenamedInIs ==
    ASSUME NEW l, NEW from, NEW to
    PROVE  RenamedIn(l, from, to) =
                [[l EXCEPT !.asset = RenamedSource(l, from, to)]
                   EXCEPT !.appearance = RenamedLook(l.appearance, from, to)]
  BY DEF RenamedIn, RenamedLook, RenamedSource

LEMMA RenamedLookType ==
    ASSUME NEW a \in Appearance, NEW from, NEW to \in Nat
    PROVE  RenamedLook(a, from, to) \in Appearance
  <1>1. a.mask \in Nat /\ a.vectorMask \in Nat
    BY DEF Appearance
  <1>2. Renamed(a.mask, from, to) \in Nat /\ Renamed(a.vectorMask, from, to) \in Nat
    BY <1>1 DEF Renamed
  <1> QED
    BY <1>2, MasksType DEF RenamedLook

LEMMA RenamedInType ==
    ASSUME NEW l \in CanvasLayer, NEW from, NEW to \in Nat
    PROVE  RenamedIn(l, from, to) \in CanvasLayer
  <1> DEFINE asset == RenamedSource(l, from, to)
             look == RenamedLook(l.appearance, from, to)
             e == [l EXCEPT !.asset = asset]
  <1>1. asset \in Nat /\ (l.keyed => asset = l.asset)
    BY LayerFieldTypes DEF Renamed, RenamedSource
  <1>2. look \in Appearance
    BY LayerFieldTypes, RenamedLookType
  <1>3. e \in CanvasLayer
    <2> HIDE DEF asset
    <2>1. CASE l.keyed
      <3>1. e = l
        BY <1>1, <2>1 DEF CanvasLayer
      <3> QED
        BY <3>1
    <2>2. CASE ~l.keyed
      <3>1. <<>> \in Seq(Nat)
        OBVIOUS
      <3> QED
        BY <1>1, <2>2, <3>1, SourcesChange
    <2> QED
      BY <2>1, <2>2
  <1>4. RenamedIn(l, from, to) = [e EXCEPT !.appearance = look]
    BY RenamedInIs
  <1> HIDE DEF e, look
  <1> QED
    BY <1>2, <1>3, <1>4, LayerFieldsChange

LEMMA LookBack ==
    ASSUME NEW a \in Appearance, NEW from, NEW to, a.mask # to, a.vectorMask # to
    PROVE  RenamedLook(RenamedLook(a, from, to), to, from) = a
  <1> DEFINE b == RenamedLook(a, from, to)
             c == RenamedLook(b, to, from)
  <1>1. /\ b = [f \in DOMAIN a |-> b[f]]
        /\ \A f \in DOMAIN a \ {"mask", "vectorMask"} : b[f] = a[f]
        /\ b.mask = Renamed(a.mask, from, to) /\ b.vectorMask = Renamed(a.vectorMask, from, to)
    BY DEF RenamedLook, Appearance
  <1>2. "mask" \in DOMAIN b /\ "vectorMask" \in DOMAIN b
    BY DEF RenamedLook, Appearance
  <1> HIDE DEF b
  <1>3. /\ c = [f \in DOMAIN b |-> c[f]]
        /\ \A f \in DOMAIN b \ {"mask", "vectorMask"} : c[f] = b[f]
        /\ c.mask = Renamed(b.mask, to, from) /\ c.vectorMask = Renamed(b.vectorMask, to, from)
    BY <1>2 DEF RenamedLook
  <1> HIDE DEF c
  <1>4. c.mask = a.mask /\ c.vectorMask = a.vectorMask
    BY <1>1, <1>3 DEF Renamed
  <1>5. DOMAIN b = DOMAIN a
    BY <1>1
  <1>6. \A f \in DOMAIN a : c[f] = a[f]
    BY <1>1, <1>3, <1>4, <1>5
  <1>7. a = [f \in DOMAIN a |-> a[f]]
    BY DEF Appearance
  <1>8. c = [f \in DOMAIN a |-> c[f]]
    BY <1>3, <1>5
  <1>9. c = a
    BY <1>6, <1>7, <1>8
  <1> QED
    BY <1>9 DEF c, b

(* Named back, a layer refers to what it did, if the new id was not in use.  *)
LEMMA RenamedBack ==
    ASSUME NEW l \in CanvasLayer, NEW from, NEW to,
           l.keyed \/ l.asset # to, l.appearance.mask # to, l.appearance.vectorMask # to
    PROVE  RenamedIn(RenamedIn(l, from, to), to, from) = l
  <1> DEFINE m == RenamedIn(l, from, to)
             n == RenamedIn(m, to, from)
  <1>1. /\ m = [f \in DOMAIN l |-> m[f]]
        /\ \A f \in DOMAIN l \ {"asset", "appearance"} : m[f] = l[f]
        /\ m.keyed = l.keyed
        /\ m.asset = RenamedSource(l, from, to)
        /\ m.appearance = RenamedLook(l.appearance, from, to)
    BY RenamedInIs DEF CanvasLayer
  <1>2. DOMAIN m = DOMAIN l /\ "asset" \in DOMAIN l /\ "appearance" \in DOMAIN l
    BY <1>1 DEF CanvasLayer
  <1> HIDE DEF m
  <1>3. /\ n = [f \in DOMAIN m |-> n[f]]
        /\ \A f \in DOMAIN m \ {"asset", "appearance"} : n[f] = m[f]
        /\ n.asset = RenamedSource(m, to, from)
        /\ n.appearance = RenamedLook(m.appearance, to, from)
    BY <1>2, RenamedInIs
  <1> HIDE DEF n
  <1>4. n.asset = l.asset
    BY <1>1, <1>3 DEF Renamed, RenamedSource
  <1>5. n.appearance = l.appearance
    BY <1>1, <1>3, LayerFieldTypes, LookBack
  <1>6. \A f \in DOMAIN l : n[f] = l[f]
    BY <1>1, <1>2, <1>3, <1>4, <1>5
  <1>7. l = [f \in DOMAIN l |-> l[f]] /\ n = [f \in DOMAIN l |-> n[f]]
    BY <1>2, <1>3 DEF CanvasLayer
  <1>8. n = l
    BY <1>6, <1>7
  <1> QED
    BY <1>8 DEF n, m

-------------------------------------------------------------------------------
(* The references to an asset in keyframes                                   *)

LEMMA KeyChanges ==
    ASSUME NEW key \in FrameKeyframe, NEW n \in Nat, NEW m \in Nat
    PROVE  /\ [key EXCEPT !.asset = n] \in FrameKeyframe
           /\ [key EXCEPT !.layer = n] \in FrameKeyframe
           /\ [key EXCEPT !.layer = n, !.asset = m] \in FrameKeyframe
  <1> DEFINE K(N) == [layer : N, asset : N]
  <1>1. \A N : \A k \in K(N), x, y \in N :
            /\ [k EXCEPT !.asset = x] \in K(N)
            /\ [k EXCEPT !.layer = x] \in K(N)
            /\ [k EXCEPT !.layer = x, !.asset = y] \in K(N)
    OBVIOUS
  <1>2. FrameKeyframe = K(Nat)
    BY Zenon DEF FrameKeyframe
  <1> HIDE DEF K
  <1> QED
    BY <1>1, <1>2

LEMMA NewKeyType ==
    ASSUME NEW n \in Nat, NEW m \in Nat PROVE [layer |-> n, asset |-> m] \in FrameKeyframe
  BY DEF FrameKeyframe

LEMMA FrameChanges ==
    ASSUME NEW frame \in CanvasFrame, NEW keys \in Seq(FrameKeyframe)
    PROVE  [frame EXCEPT !.keys = keys] \in CanvasFrame
  BY DEF CanvasFrame

LEMMA RenamedFrameType ==
    ASSUME NEW frame \in CanvasFrame, NEW from, NEW to \in Nat
    PROVE  RenamedFrame(frame, from, to) \in CanvasFrame
  <1> DEFINE keys == RenamedKeys(frame.keys, from, to)
  <1>1. frame.keys \in Seq(FrameKeyframe)
    BY DEF CanvasFrame
  <1>2. \A k \in DOMAIN frame.keys : keys[k] \in FrameKeyframe
    <2> TAKE k \in DOMAIN frame.keys
    <2>1. frame.keys[k] \in FrameKeyframe
      BY <1>1, LenProperties, ElementOfSeq
    <2>2. Renamed(frame.keys[k].asset, from, to) \in Nat
      BY <2>1 DEF Renamed, FrameKeyframe
    <2>3. keys[k] = [frame.keys[k] EXCEPT !.asset = Renamed(frame.keys[k].asset, from, to)]
      BY DEF RenamedKeys, RenamedKey
    <2> QED
      BY <2>1, <2>2, <2>3, KeyChanges
  <1>3. keys = [k \in DOMAIN frame.keys |-> keys[k]]
    BY DEF RenamedKeys
  <1> HIDE DEF keys
  <1>4. keys \in Seq(FrameKeyframe)
    BY <1>1, <1>2, <1>3, MappedType
  <1> QED
    BY <1>4, FrameChanges DEF RenamedFrame, keys

(* So does a keyframe.                                                       *)
LEMMA KeyBack ==
    ASSUME NEW key \in FrameKeyframe, NEW from, NEW to, key.asset # to
    PROVE  RenamedKey(RenamedKey(key, from, to), to, from) = key
  <1>1. Renamed(Renamed(key.asset, from, to), to, from) = key.asset
    BY DEF Renamed
  <1> DEFINE m == RenamedKey(key, from, to)
             n == RenamedKey(m, to, from)
  <1>2. /\ m = [f \in {"layer", "asset"} |-> m[f]] /\ m.layer = key.layer
        /\ m.asset = Renamed(key.asset, from, to)
    BY DEF FrameKeyframe, RenamedKey
  <1> HIDE DEF m
  <1>3. /\ n = [f \in {"layer", "asset"} |-> n[f]] /\ n.layer = m.layer
        /\ n.asset = Renamed(m.asset, to, from)
    BY <1>2 DEF RenamedKey
  <1> HIDE DEF n
  <1>4. n.layer = key.layer /\ n.asset = key.asset
    BY <1>1, <1>2, <1>3
  <1>5. key = [f \in {"layer", "asset"} |-> key[f]]
    BY DEF FrameKeyframe
  <1>6. n = key
    BY <1>3, <1>4, <1>5
  <1> QED
    BY <1>6 DEF n, m

(* And every keyframe of a frame.                                            *)
LEMMA FrameBack ==
    ASSUME NEW frame \in CanvasFrame, NEW from, NEW to,
           \A k \in DOMAIN frame.keys : frame.keys[k].asset # to
    PROVE  RenamedFrame(RenamedFrame(frame, from, to), to, from) = frame
  <1> DEFINE keys == frame.keys
             there == RenamedKeys(keys, from, to)
             back == RenamedKeys(there, to, from)
             m == RenamedFrame(frame, from, to)
             n == RenamedFrame(m, to, from)
  <1>1. keys \in Seq(FrameKeyframe) /\ keys = [k \in DOMAIN keys |-> keys[k]]
    <2>1. keys \in Seq(FrameKeyframe)
      BY DEF CanvasFrame
    <2> HIDE DEF keys
    <2> QED
      BY <2>1
  <1>2. \A k \in DOMAIN keys : back[k] = keys[k]
    <2> TAKE k \in DOMAIN keys
    <2>1. keys[k] \in FrameKeyframe
      BY <1>1, LenProperties, ElementOfSeq
    <2>2. there[k] = RenamedKey(keys[k], from, to) /\ DOMAIN there = DOMAIN keys
      BY DEF RenamedKeys
    <2>3. back[k] = RenamedKey(there[k], to, from)
      <3> HIDE DEF there
      <3> QED
        BY <2>2 DEF RenamedKeys
    <2> HIDE DEF back, there
    <2> QED
      BY <2>1, <2>2, <2>3, KeyBack
  <1>3. back = [k \in DOMAIN keys |-> back[k]]
    BY DEF RenamedKeys
  <1>4. back = keys
    <2> HIDE DEF back, keys
    <2> QED
      BY <1>1, <1>2, <1>3
  <1>5. m = [f \in {"at", "keys"} |-> m[f]] /\ m.at = frame.at /\ m.keys = there
    <2> HIDE DEF there
    <2> QED
      BY DEF RenamedFrame, CanvasFrame, there
  <1> HIDE DEF m, there, keys
  <1>6. n = [f \in {"at", "keys"} |-> n[f]] /\ n.at = m.at /\ n.keys = back
    <2> HIDE DEF back
    <2> QED
      BY <1>5 DEF RenamedFrame, back
  <1> HIDE DEF n, back
  <1>7. n.at = frame.at /\ n.keys = frame.keys
    BY <1>4, <1>5, <1>6 DEF keys
  <1>8. frame = [f \in {"at", "keys"} |-> frame[f]]
    BY DEF CanvasFrame
  <1>9. n = frame
    BY <1>6, <1>7, <1>8
  <1> QED
    BY <1>9 DEF n, m

LEMMA WithReferencesType ==
    ASSUME NEW d \in CanvasDocument, NEW from, NEW to \in Nat
    PROVE  WithReferences(d, from, to) \in CanvasDocument
  <1> DEFINE layers == [i \in DOMAIN d.layers |-> RenamedIn(d.layers[i], from, to)]
             frames == [i \in DOMAIN d.frames |-> RenamedFrame(d.frames[i], from, to)]
             e == [d EXCEPT !.layers = layers]
  <1>1. layers \in Seq(CanvasLayer)
    <2>1. \A i \in DOMAIN d.layers : layers[i] \in CanvasLayer
      BY FieldTypes, LenProperties, ElementOfSeq, RenamedInType
    <2>2. layers = [i \in DOMAIN d.layers |-> layers[i]]
      OBVIOUS
    <2> HIDE DEF layers
    <2> QED
      BY <2>1, <2>2, FieldTypes, MappedType
  <1>2. frames \in Seq(CanvasFrame)
    <2>1. \A i \in DOMAIN d.frames : frames[i] \in CanvasFrame
      BY FieldTypes, LenProperties, ElementOfSeq, RenamedFrameType
    <2>2. frames = [i \in DOMAIN d.frames |-> frames[i]]
      OBVIOUS
    <2> HIDE DEF frames
    <2> QED
      BY <2>1, <2>2, FieldTypes, MappedType
  <1>3. WithReferences(d, from, to) = [e EXCEPT !.frames = frames]
    BY DEF WithReferences
  <1> HIDE DEF layers, frames
  <1>4. e \in CanvasDocument
    BY <1>1, FieldsChange
  <1> HIDE DEF e
  <1> QED
    BY <1>2, <1>3, <1>4, FieldsChange

-------------------------------------------------------------------------------
(* A visual asset renamed, and named back                                    *)

WithId(held, from, to) == [held EXCEPT ![Item(held, from)].id = to]

LEMMA WithIdType ==
    ASSUME NEW s \in Seq(VisualAsset), NEW from, NEW to \in Nat, Has(s, from)
    PROVE  WithId(s, from, to) \in Seq(VisualAsset)
  <1> DEFINE i == Item(s, from)
             changed == [s[i] EXCEPT !.id = to]
  <1>1. i \in DOMAIN s /\ s[i] \in VisualAsset
    BY FoundType DEF Found
  <1>2. changed \in VisualAsset
    BY <1>1, NewIdType
  <1>3. WithId(s, from, to) = [s EXCEPT ![i] = changed]
    BY DEF WithId
  <1> HIDE DEF changed, i
  <1> QED
    BY <1>2, <1>3, ChangedType

(* A new id taken back leaves the assets as they were.                       *)
LEMMA IdBack ==
    ASSUME NEW s \in Seq(VisualAsset), NEW from, NEW to, Has(s, from), ~Has(s, to)
    PROVE  WithId(WithId(s, from, to), to, from) = s
  <1> DEFINE i == Item(s, from)
             t == WithId(s, from, to)
             u == WithId(t, to, from)
  <1>1. i \in DOMAIN s /\ s[i] \in VisualAsset /\ s[i].id = from
    BY FoundType DEF Found
  <1>2. /\ DOMAIN t = DOMAIN s
        /\ \A j \in DOMAIN s : j # i => t[j] = s[j]
        /\ t[i] = [s[i] EXCEPT !.id = to]
    BY <1>1 DEF WithId
  <1>3. t[i].id = to
    BY <1>1, <1>2 DEF VisualAsset
  <1> HIDE DEF t, i
  <1>4. \A j \in DOMAIN t : t[j].id = to => j = i
    BY <1>2 DEF Has
  <1>5. Item(t, to) = i
    BY <1>1, <1>2, <1>3, <1>4 DEF Item
  <1>6. u = [t EXCEPT ![i] = [t[i] EXCEPT !.id = from]]
    BY <1>5 DEF WithId
  <1>7. [t[i] EXCEPT !.id = from] = s[i]
    <2>1. [[s[i] EXCEPT !.id = to] EXCEPT !.id = from] = s[i]
      BY <1>1 DEF VisualAsset
    <2> QED
      BY <1>2, <2>1
  <1>8. \A j \in DOMAIN s : u[j] = s[j]
    BY <1>1, <1>2, <1>6, <1>7
  <1>9. u = [j \in DOMAIN s |-> u[j]] /\ s = [j \in DOMAIN s |-> s[j]]
    <2>1. u = [j \in DOMAIN t |-> u[j]]
      BY <1>6
    <2> QED
      BY <1>2, <2>1
  <1> HIDE DEF u
  <1>10. u = s
    BY <1>8, <1>9
  <1> QED
    BY <1>10 DEF u, t

LEMMA WithAssetIdType ==
    ASSUME NEW d \in CanvasDocument, NEW from, NEW to \in Nat, Has(d.assets, from)
    PROVE  /\ WithAssetId(d, from, to) \in CanvasDocument
           /\ WithAssetId(d, from, to) = [d EXCEPT !.assets = WithId(d.assets, from, to)]
  <1>1. WithAssetId(d, from, to) = [d EXCEPT !.assets = WithId(d.assets, from, to)]
    BY DEF WithAssetId, WithId
  <1>2. WithId(d.assets, from, to) \in Seq(VisualAsset)
    BY FieldTypes, WithIdType
  <1> QED
    BY <1>1, <1>2, FieldsChange

(* A valid document refers to assets it has.                                 *)
LEMMA ReferencesAreKnown ==
    ASSUME NEW d \in CanvasDocument, Valid(d), NEW to, to # 0, ~Has(d.assets, to)
    PROVE  /\ \A i \in DOMAIN d.layers :
                    /\ d.layers[i].keyed \/ d.layers[i].asset # to
                    /\ d.layers[i].appearance.mask # to
                    /\ d.layers[i].appearance.vectorMask # to
           /\ \A i \in DOMAIN d.frames : \A k \in DOMAIN d.frames[i].keys :
                    d.frames[i].keys[k].asset # to
  <1>1. ASSUME NEW i \in DOMAIN d.layers
        PROVE  /\ d.layers[i].keyed \/ d.layers[i].asset # to
               /\ d.layers[i].appearance.mask # to
               /\ d.layers[i].appearance.vectorMask # to
    <2>1. ValidAppearance(d, i) /\ ValidSource(d, d.layers[i])
      BY DEF Valid, ValidLayers
    <2>2. d.layers[i].keyed \/ d.layers[i].asset # to
      BY <2>1 DEF ValidSource, ReferenceIsValid
    <2>3. /\ ValidMask(d, d.layers[i].appearance.mask, "Raster")
          /\ ValidMask(d, d.layers[i].appearance.vectorMask, "Vector")
      BY <2>1 DEF ValidAppearance
    <2> QED
      BY <2>2, <2>3 DEF ValidMask, HasKind
  <1>2. ASSUME NEW i \in DOMAIN d.frames, NEW k \in DOMAIN d.frames[i].keys
        PROVE  d.frames[i].keys[k].asset # to
    <2>1. ValidKeyframe(d, d.frames[i].keys[k])
      BY DEF Valid, ValidFrames
    <2> QED
      BY <2>1 DEF ValidKeyframe, ReferenceIsValid
  <1> QED
    BY <1>1, <1>2

(* renameVisualAsset() undoes a rename by renaming back.                     *)
LEMMA RenameAssetLeavesNoTrace ==
    ASSUME NEW d \in CanvasDocument, NEW id \in Nat, NEW to \in Nat
    PROVE  NoTrace(d, RenameAsset(d, id, to))
  <1> DEFINE new == RenamedAsset(d, id, to)
             back == WithReferences(WithAssetId(new, to, id), to, id)
             refused == ~Has(d.assets, id) \/ (id # to /\ (to = 0 \/ Has(d.assets, to)))
             same == id = to
  <1>1. ASSUME Valid(d), ~refused, id # to
        PROVE  new \in CanvasDocument /\ back = d
    <2> DEFINE e == WithAssetId(d, id, to)
               f == WithAssetId(new, to, id)
    <2>1. Has(d.assets, id) /\ to # 0 /\ ~Has(d.assets, to)
      BY <1>1
    <2>2. e \in CanvasDocument /\ e = [d EXCEPT !.assets = WithId(d.assets, id, to)]
      BY <2>1, WithAssetIdType
    <2>3. new = WithReferences(e, id, to)
      BY DEF RenamedAsset
    <2> HIDE DEF new, e
    <2>4. new \in CanvasDocument
      BY <2>2, <2>3, WithReferencesType
    <2>5. /\ DOMAIN new = DOMAIN d
          /\ new.assets = WithId(d.assets, id, to)
          /\ new.layers = [i \in DOMAIN d.layers |-> RenamedIn(d.layers[i], id, to)]
          /\ new.frames = [i \in DOMAIN d.frames |-> RenamedFrame(d.frames[i], id, to)]
          /\ \A x \in DOMAIN d \ {"assets", "layers", "frames"} : new[x] = d[x]
      <3>1. /\ DOMAIN e = DOMAIN d /\ e.assets = WithId(d.assets, id, to)
            /\ e.layers = d.layers /\ e.frames = d.frames
            /\ \A x \in DOMAIN d \ {"assets"} : e[x] = d[x]
        BY <2>2 DEF CanvasDocument
      <3>2. {"layers", "frames", "assets"} \subseteq DOMAIN e
        BY <2>2 DEF CanvasDocument
      <3> QED
        BY <2>3, <3>1, <3>2 DEF WithReferences
    <2>6. Has(new.assets, to)
      <3> DEFINE i == Item(d.assets, id)
      <3>1. i \in DOMAIN d.assets /\ d.assets[i] \in VisualAsset
        BY <2>1, FieldTypes, FoundType DEF Found
      <3>2. i \in DOMAIN new.assets /\ new.assets[i].id = to
        BY <2>5, <3>1 DEF WithId, VisualAsset
      <3> QED
        BY <3>2 DEF Has
    <2>7. f \in CanvasDocument /\ f = [new EXCEPT !.assets = WithId(new.assets, to, id)]
      BY <2>4, <2>6, WithAssetIdType
    <2>8. WithId(new.assets, to, id) = d.assets
      BY <2>1, <2>5, FieldTypes, IdBack
    <2> HIDE DEF f
    <2>9. /\ DOMAIN f = DOMAIN d /\ f.assets = d.assets
          /\ f.layers = new.layers /\ f.frames = new.frames
          /\ \A x \in DOMAIN d \ {"assets"} : f[x] = new[x]
      BY <2>5, <2>7, <2>8 DEF CanvasDocument
    <2>10. /\ DOMAIN back = DOMAIN d /\ back.assets = d.assets
           /\ back.layers = [i \in DOMAIN f.layers |-> RenamedIn(f.layers[i], to, id)]
           /\ back.frames = [i \in DOMAIN f.frames |-> RenamedFrame(f.frames[i], to, id)]
           /\ \A x \in DOMAIN d \ {"assets", "layers", "frames"} : back[x] = f[x]
           /\ back = [x \in DOMAIN back |-> back[x]]
      <3>1. {"layers", "frames", "assets"} \subseteq DOMAIN f /\ back = WithReferences(f, to, id)
        BY <2>7 DEF CanvasDocument, f
      <3> HIDE DEF back
      <3> QED
        BY <2>9, <3>1 DEF WithReferences
    <2> HIDE DEF back
    <2>11. back.layers = d.layers
      <3>1. DOMAIN f.layers = DOMAIN d.layers
        BY <2>5, <2>9
      <3>2. \A i \in DOMAIN d.layers : back.layers[i] = d.layers[i]
        <4> TAKE i \in DOMAIN d.layers
        <4>1. d.layers[i] \in CanvasLayer
          BY FieldTypes, LenProperties, ElementOfSeq
        <4>2. back.layers[i] = RenamedIn(RenamedIn(d.layers[i], id, to), to, id)
          BY <2>5, <2>9, <2>10, <3>1
        <4> QED
          BY <1>1, <2>1, <4>1, <4>2, ReferencesAreKnown, RenamedBack
      <3>3. d.layers = [i \in DOMAIN d.layers |-> d.layers[i]]
        BY FieldTypes
      <3> QED
        BY <2>10, <3>1, <3>2, <3>3
    <2>12. back.frames = d.frames
      <3>1. DOMAIN f.frames = DOMAIN d.frames
        BY <2>5, <2>9
      <3>2. \A i \in DOMAIN d.frames : back.frames[i] = d.frames[i]
        <4> TAKE i \in DOMAIN d.frames
        <4>1. d.frames[i] \in CanvasFrame
          BY FieldTypes, LenProperties, ElementOfSeq
        <4>2. back.frames[i] = RenamedFrame(RenamedFrame(d.frames[i], id, to), to, id)
          BY <2>5, <2>9, <2>10, <3>1
        <4> QED
          BY <1>1, <2>1, <4>1, <4>2, ReferencesAreKnown, FrameBack
      <3>3. d.frames = [i \in DOMAIN d.frames |-> d.frames[i]]
        BY FieldTypes
      <3> QED
        BY <2>10, <3>1, <3>2, <3>3
    <2>13. \A x \in DOMAIN d : back[x] = d[x]
      BY <2>5, <2>9, <2>10, <2>11, <2>12
    <2>14. d = [x \in DOMAIN d |-> d[x]]
      BY DEF CanvasDocument
    <2> QED
      BY <2>4, <2>10, <2>13, <2>14
  <1>2. RenameAsset(d, id, to) = EditOr(d, refused, same, new, back)
    BY DEF RenameAsset
  <1>3. Valid(d) /\ ~refused /\ ~same => new \in CanvasDocument /\ back = d
    BY <1>1
  <1> HIDE DEF refused, same, new, back
  <1> QED
    BY <1>2, <1>3, EditOrNoTrace

-------------------------------------------------------------------------------
(* The paths of a visual asset, as the editor of the document has them       *)

LEMMA PathsType ==
    ASSUME NEW d \in CanvasDocument, NEW id, NEW kind, HasKind(d, id, kind)
    PROVE  /\ Paths(d, id) \in Seq(STRING) /\ Len(Paths(d, id)) \in Nat
           /\ DOMAIN Paths(d, id) = 1 .. Len(Paths(d, id))
  <1>1. Found(d.assets, id) \in VisualAsset
    BY FieldTypes, FoundType DEF HasKind
  <1>2. Paths(d, id) \in Seq(STRING)
    BY <1>1 DEF VisualAsset, Paths
  <1> QED
    BY <1>2, LenProperties

LEMMA InsertPathLeavesNoTrace ==
    ASSUME NEW d \in CanvasDocument, NEW id, NEW path \in STRING, NEW at \in Nat \union {AppendIndex}
    PROVE  NoTrace(d, InsertVectorPath(d, id, path, at))
  <1> DEFINE parts == Inserted(Paths(d, id), at, path)
  <1>1. HasKind(d, id, "Vector") /\ ~IsOutside(at, Paths(d, id)) => parts \in Seq(STRING)
    BY PathsType, InsertedType
  <1> HIDE DEF parts
  <1> QED
    BY <1>1, WithPartsType, EditNoTrace DEF InsertVectorPath, parts

LEMMA ReplacePathLeavesNoTrace ==
    ASSUME NEW d \in CanvasDocument, NEW id, NEW index \in Nat, NEW path \in STRING
    PROVE  NoTrace(d, ReplaceVectorPath(d, id, index, path))
  <1> DEFINE parts == ReplaceAt(Paths(d, id), index + 1, path)
             refused == ~HasKind(d, id, "Vector") \/ index >= Len(Paths(d, id))
  <1>1. ~refused => parts \in Seq(STRING)
    BY PathsType, ChangedType DEF ReplaceAt
  <1>2. ReplaceVectorPath(d, id, index, path) =
            Edit(d, refused, FALSE, WithParts(d, id, parts), {"assets"})
    BY DEF ReplaceVectorPath
  <1> HIDE DEF parts, refused
  <1> QED
    BY <1>1, <1>2, WithPartsType, EditNoTrace

LEMMA MovePathLeavesNoTrace ==
    ASSUME NEW d \in CanvasDocument, NEW id, NEW from \in Nat, NEW to \in Nat
    PROVE  NoTrace(d, MoveVectorPath(d, id, from, to))
  <1> DEFINE parts == MoveElement(Paths(d, id), from + 1, to)
             refused == \/ ~HasKind(d, id, "Vector")
                        \/ from >= Len(Paths(d, id)) \/ to >= Len(Paths(d, id))
             same == from = to
  <1>1. ~refused => parts \in Seq(STRING)
    <2> SUFFICES ASSUME ~refused PROVE parts \in Seq(STRING)
      OBVIOUS
    <2>1. from + 1 \in DOMAIN Paths(d, id) /\ to < Len(Paths(d, id)) /\ Paths(d, id) \in Seq(STRING)
      BY PathsType
    <2> QED
      BY <2>1, MovedType
  <1>2. MoveVectorPath(d, id, from, to) = Unchecked(d, refused, same, WithParts(d, id, parts))
    BY DEF MoveVectorPath
  <1> HIDE DEF parts, refused, same
  <1> QED
    BY <1>1, <1>2, WithPartsType, WithPartsResolves, UncheckedNoTrace

LEMMA RemovePathLeavesNoTrace ==
    ASSUME NEW d \in CanvasDocument, NEW id, NEW index \in Nat
    PROVE  NoTrace(d, RemoveVectorPath(d, id, index))
  <1> DEFINE parts == RemoveAt(Paths(d, id), index + 1)
             refused == ~HasKind(d, id, "Vector") \/ index >= Len(Paths(d, id))
  <1>1. ~refused => parts \in Seq(STRING)
    <2> SUFFICES ASSUME ~refused PROVE parts \in Seq(STRING)
      OBVIOUS
    <2>1. index + 1 \in DOMAIN Paths(d, id) /\ Paths(d, id) \in Seq(STRING)
      BY PathsType
    <2> QED
      BY <2>1, RemovedType
  <1>2. RemoveVectorPath(d, id, index) = Unchecked(d, refused, FALSE, WithParts(d, id, parts))
    BY DEF RemoveVectorPath
  <1> HIDE DEF parts, refused
  <1> QED
    BY <1>1, <1>2, WithPartsType, WithPartsResolves, UncheckedNoTrace

-----------------------------------------------------------------------------
(* Audio                                                                     *)

LEMMA InsertAudioLeavesNoTrace ==
    ASSUME NEW d \in CanvasDocument, NEW asset \in AudioAsset, NEW at \in Nat \union {AppendIndex}
    PROVE  NoTrace(d, InsertAudioAsset(d, asset, at))
  <1> DEFINE s == Inserted(d.audio, at, asset)
             new == [Raised(d) EXCEPT !.audio = Inserted(@, at, asset)]
  <1>1. ASSUME ~IsOutside(at, d.audio)
        PROVE  new \in CanvasDocument /\ SameBut(new, d, {"audio", "minor"})
    <2>1. s \in Seq(AudioAsset)
      BY <1>1, FieldTypes, InsertedType
    <2>2. new = [Raised(d) EXCEPT !.audio = s]
      BY DEF Raised
    <2> HIDE DEF s, new
    <2>3. new \in CanvasDocument
      BY <2>1, <2>2, FieldsChange, RaisedType
    <2> QED
      BY <2>2, <2>3 DEF SameBut, Raised
  <1> HIDE DEF new
  <1> QED
    BY <1>1, EditNoTrace DEF InsertAudioAsset, new

LEMMA ReplaceAudioLeavesNoTrace ==
    ASSUME NEW d \in CanvasDocument, NEW id, NEW asset \in AudioAsset
    PROVE  NoTrace(d, ReplaceAudioAsset(d, id, asset))
  <1> DEFINE i == Item(d.audio, id)
             s == [d.audio EXCEPT ![i] = asset]
             new == [d EXCEPT !.audio[Item(d.audio, id)] = asset]
  <1>1. s \in Seq(AudioAsset)
    BY FieldTypes, ChangedType
  <1>2. new = [d EXCEPT !.audio = s]
    OBVIOUS
  <1> HIDE DEF s, new
  <1>3. new \in CanvasDocument
    BY <1>1, <1>2, FieldsChange
  <1>4. SameBut(new, d, {"audio"})
    BY <1>2 DEF SameBut
  <1> QED
    BY <1>3, <1>4, EditNoTrace DEF ReplaceAudioAsset, new

LEMMA RemoveAudioLeavesNoTrace ==
    ASSUME NEW d \in CanvasDocument, NEW id
    PROVE  NoTrace(d, RemoveAudioAsset(d, id))
  <1> DEFINE s == RemoveAt(d.audio, Item(d.audio, id))
             new == [d EXCEPT !.audio = RemoveAt(@, Item(@, id))]
  <1>1. ASSUME Has(d.audio, id) PROVE new \in CanvasDocument
    <2>1. s \in Seq(AudioAsset)
      BY <1>1, FieldTypes, FoundType, RemovedType
    <2>2. new = [d EXCEPT !.audio = s]
      OBVIOUS
    <2> HIDE DEF s
    <2> QED
      BY <2>1, <2>2, FieldsChange
  <1> DEFINE refused == \/ ~Has(d.audio, id)
                        \/ \E t \in ToSet(d.tracks) : \E clip \in ToSet(t.clips) : clip.asset = id
  <1>2. RemoveAudioAsset(d, id) = Unchecked(d, refused, FALSE, new)
    BY DEF RemoveAudioAsset
  <1>3. ~refused => new \in CanvasDocument
    BY <1>1
  <1>4. ASSUME ~refused, EachResolves(d) PROVE EachResolves(new)
    <2>1. SameBut(new, d, {"audio"}) /\ new.audio = s
      BY DEF SameBut, CanvasDocument
    <2>2. Item(d.audio, id) \in DOMAIN d.audio /\ d.audio[Item(d.audio, id)].id = id
      BY <1>4, ItemProperties
    <2>3. \A j \in DOMAIN d.audio : j # Item(d.audio, id) =>
                \E k \in DOMAIN s : s[k] = d.audio[j]
      BY <2>2, FieldTypes, RemovedElements
    <2> HIDE DEF s
    <2>4. \A j \in DOMAIN d.audio : d.audio[j].id # id => Has(new.audio, d.audio[j].id)
      BY <2>1, <2>2, <2>3 DEF Has
    <2>5. ASSUME NEW t \in DOMAIN d.tracks, NEW c \in DOMAIN d.tracks[t].clips
          PROVE  d.tracks[t].clips[c].asset # id
      <3>1. d.tracks[t] \in ToSet(d.tracks) /\ d.tracks[t].clips[c] \in ToSet(d.tracks[t].clips)
        BY DEF ToSet
      <3> QED
        BY <1>4, <3>1
    <2> HIDE DEF new
    <2> QED
      BY <1>4, <2>1, <2>4, <2>5, UnusedAudioGoes
  <1> HIDE DEF new, refused
  <1> QED
    BY <1>2, <1>3, <1>4, UncheckedNoTrace

LEMMA WithTrackType ==
    ASSUME NEW d \in CanvasDocument, NEW id, NEW track \in AudioTrack
    PROVE  WithTrack(d, id, track) \in CanvasDocument /\ SameBut(WithTrack(d, id, track), d, {"tracks"})
  <1> DEFINE s == [d.tracks EXCEPT ![Item(d.tracks, id)] = track]
  <1>1. s \in Seq(AudioTrack)
    BY FieldTypes, ChangedType
  <1>2. WithTrack(d, id, track) = [d EXCEPT !.tracks = s]
    BY DEF WithTrack
  <1> HIDE DEF s
  <1> QED
    BY <1>1, <1>2, FieldsChange DEF SameBut

LEMMA ReplaceTrackLeavesNoTrace ==
    ASSUME NEW d \in CanvasDocument, NEW id, NEW track \in AudioTrack
    PROVE  NoTrace(d, ReplaceAudioTrack(d, id, track))
  BY WithTrackType, EditNoTrace DEF ReplaceAudioTrack

LEMMA InsertTrackLeavesNoTrace ==
    ASSUME NEW d \in CanvasDocument, NEW track \in AudioTrack, NEW at \in Nat \union {AppendIndex}
    PROVE  NoTrace(d, InsertAudioTrack(d, track, at))
  <1> DEFINE s == Inserted(d.tracks, at, track)
             new == [Raised(d) EXCEPT !.tracks = Inserted(@, at, track)]
  <1>1. ASSUME ~IsOutside(at, d.tracks)
        PROVE  new \in CanvasDocument /\ SameBut(new, d, {"tracks", "minor"})
    <2>1. s \in Seq(AudioTrack)
      BY <1>1, FieldTypes, InsertedType
    <2>2. new = [Raised(d) EXCEPT !.tracks = s]
      BY DEF Raised
    <2> HIDE DEF s, new
    <2>3. new \in CanvasDocument
      BY <2>1, <2>2, FieldsChange, RaisedType
    <2> QED
      BY <2>2, <2>3 DEF SameBut, Raised
  <1> HIDE DEF new
  <1> QED
    BY <1>1, EditNoTrace DEF InsertAudioTrack, new

LEMMA MoveTrackLeavesNoTrace ==
    ASSUME NEW d \in CanvasDocument, NEW id, NEW to \in Nat
    PROVE  NoTrace(d, MoveAudioTrack(d, id, to))
  <1> DEFINE from == Item(d.tracks, id)
             s == MoveElement(d.tracks, from, to)
             new == [d EXCEPT !.tracks = MoveElement(@, from, to)]
             refused == ~Has(d.tracks, id) \/ to >= Len(d.tracks)
             same == from = to + 1
  <1>1. ASSUME ~refused PROVE new \in CanvasDocument
    <2>1. Len(d.tracks) \in Nat
      BY FieldTypes, LenProperties
    <2>2. s \in Seq(AudioTrack)
      BY <1>1, <2>1, FieldTypes, FoundType, MovedType
    <2>3. new = [d EXCEPT !.tracks = s]
      OBVIOUS
    <2> HIDE DEF s
    <2> QED
      BY <2>2, <2>3, FieldsChange
  <1>2. MoveAudioTrack(d, id, to) = Unchecked(d, refused, same, new)
    BY DEF MoveAudioTrack
  <1>3. ASSUME ~refused, EachResolves(d) PROVE EachResolves(new)
    <2>1. SameBut(new, d, {"tracks"}) /\ new.tracks = s
      BY DEF SameBut, CanvasDocument
    <2>2. Len(d.tracks) \in Nat /\ d.tracks \in Seq(AudioTrack)
      BY FieldTypes, LenProperties
    <2>3. from \in DOMAIN d.tracks /\ to < Len(d.tracks)
      BY <1>3, <2>2, FoundType
    <2>4. \A k \in DOMAIN s : \E j \in DOMAIN d.tracks : s[k] = d.tracks[j]
      <3> HIDE DEF from
      <3> QED
        BY <2>2, <2>3, MovedElements
    <2> HIDE DEF new, s
    <2> QED
      BY <1>3, <2>1, <2>4, TracksStay
  <1> HIDE DEF new, refused, same
  <1> QED
    BY <1>1, <1>2, <1>3, UncheckedNoTrace

LEMMA RemoveTrackLeavesNoTrace ==
    ASSUME NEW d \in CanvasDocument, NEW id
    PROVE  NoTrace(d, RemoveAudioTrack(d, id))
  <1> DEFINE s == RemoveAt(d.tracks, Item(d.tracks, id))
             new == [d EXCEPT !.tracks = RemoveAt(@, Item(@, id))]
  <1>1. Has(d.tracks, id) => new \in CanvasDocument
    <2>1. Has(d.tracks, id) => s \in Seq(AudioTrack)
      BY FieldTypes, FoundType, RemovedType
    <2>2. new = [d EXCEPT !.tracks = s]
      OBVIOUS
    <2> HIDE DEF s
    <2> QED
      BY <2>1, <2>2, FieldsChange
  <1>2. ASSUME Has(d.tracks, id), EachResolves(d) PROVE EachResolves(new)
    <2>1. SameBut(new, d, {"tracks"}) /\ new.tracks = s
      BY DEF SameBut, CanvasDocument
    <2>2. Item(d.tracks, id) \in DOMAIN d.tracks
      BY <1>2, ItemProperties
    <2>3. \A k \in DOMAIN s : \E j \in DOMAIN d.tracks : s[k] = d.tracks[j]
      BY <2>2, FieldTypes, RemovedElements
    <2> HIDE DEF new, s
    <2> QED
      BY <1>2, <2>1, <2>3, TracksStay
  <1> HIDE DEF new
  <1> QED
    BY <1>1, <1>2, UncheckedNoTrace DEF RemoveAudioTrack, new

(* The clips of a track, sorted by where they start.                         *)
LEMMA ClipsType ==
    ASSUME NEW track \in AudioTrack, NEW clips \in Seq(AudioClip)
    PROVE  [track EXCEPT !.clips = clips] \in AudioTrack
  BY DEF AudioTrack

LEMMA SortedByStartType ==
    ASSUME NEW clips \in Seq(AudioClip) PROVE SortedByStart(clips) \in Seq(AudioClip)
  <1> DEFINE number == [i \in DOMAIN clips |-> clips[i].start]
  <1>1. \A i \in DOMAIN clips : number[i] \in Int
    <2>1. \A i \in DOMAIN clips : clips[i] \in AudioClip
      BY LenProperties, ElementOfSeq
    <2> QED
      BY <2>1 DEF AudioClip
  <1> HIDE DEF number
  <1>2. SortedBy(clips, number) \in Seq(AudioClip)
    BY <1>1, SortedByType
  <1> QED
    BY <1>2 DEF SortedByStart, number

LEMMA TrackFound ==
    ASSUME NEW d \in CanvasDocument, NEW id, Has(d.tracks, id)
    PROVE  Found(d.tracks, id) \in AudioTrack /\ Found(d.tracks, id).clips \in Seq(AudioClip)
  <1>1. Found(d.tracks, id) \in AudioTrack
    BY FieldTypes, FoundType
  <1> QED
    BY <1>1 DEF AudioTrack

LEMMA ClipCallsLeaveNoTrace ==
    ASSUME NEW d \in CanvasDocument, NEW id, NEW clip \in AudioClip, NEW clipId
    PROVE  /\ NoTrace(d, InsertAudioClip(d, id, clip))
           /\ NoTrace(d, ReplaceAudioClip(d, id, clipId, clip))
           /\ NoTrace(d, RemoveAudioClip(d, id, clipId))
  <1> DEFINE track == Found(d.tracks, id)
             clips == track.clips
             i == Item(clips, clipId)
             inserted == SortedByStart(Append(clips, clip))
             replaced == SortedByStart(ReplaceAt(clips, i, clip))
             removed == RemoveAt(clips, i)
  <1>1. ASSUME Has(d.tracks, id) PROVE NoTrace(d, ReplaceAudioTrack(d, id, [track EXCEPT !.clips = inserted]))
    <2>1. track \in AudioTrack /\ clips \in Seq(AudioClip)
      BY <1>1, TrackFound
    <2>2. Append(clips, clip) \in Seq(AudioClip)
      <3> HIDE DEF clips
      <3> QED
        BY <2>1
    <2>3. inserted \in Seq(AudioClip)
      BY <2>2, SortedByStartType
    <2> HIDE DEF track, inserted
    <2> QED
      BY <2>1, <2>3, ClipsType, ReplaceTrackLeavesNoTrace
  <1>2. ASSUME HasClip(d, id, clipId)
        PROVE  /\ NoTrace(d, ReplaceAudioTrack(d, id, [track EXCEPT !.clips = replaced]))
               /\ NoTrace(d, ReplaceAudioTrack(d, id, [track EXCEPT !.clips = removed]))
    <2>1. track \in AudioTrack /\ clips \in Seq(AudioClip)
      BY <1>2, TrackFound DEF HasClip
    <2>2. i \in DOMAIN clips
      BY <1>2, ItemProperties DEF HasClip
    <2>3. ReplaceAt(clips, i, clip) \in Seq(AudioClip)
      <3> HIDE DEF clips, i
      <3> QED
        BY <2>1, ChangedType DEF ReplaceAt
    <2>4. replaced \in Seq(AudioClip)
      BY <2>3, SortedByStartType
    <2>5. removed \in Seq(AudioClip)
      <3> HIDE DEF clips, i
      <3> QED
        BY <2>1, <2>2, RemovedType
    <2> HIDE DEF track, replaced, removed
    <2> QED
      BY <2>1, <2>4, <2>5, ClipsType, ReplaceTrackLeavesNoTrace
  <1>3. NoTrace(d, InsertAudioClip(d, id, clip))
    BY <1>1, CheckedNoTrace DEF InsertAudioClip
  <1>4. NoTrace(d, ReplaceAudioClip(d, id, clipId, clip))
    BY <1>2, CheckedNoTrace DEF ReplaceAudioClip
  <1>5. NoTrace(d, RemoveAudioClip(d, id, clipId))
    BY <1>2, CheckedNoTrace DEF RemoveAudioClip
  <1> QED
    BY <1>3, <1>4, <1>5

-----------------------------------------------------------------------------
(* Keys and frames                                                           *)

LEMMA FrameTypes ==
    ASSUME NEW frames \in Seq(CanvasFrame), NEW i \in DOMAIN frames
    PROVE  /\ frames[i] \in CanvasFrame /\ frames[i].at \in Nat
           /\ frames[i].keys \in Seq(FrameKeyframe)
           /\ \A k \in DOMAIN frames[i].keys : frames[i].keys[k] \in FrameKeyframe
  <1>1. frames[i] \in CanvasFrame
    BY LenProperties, ElementOfSeq
  <1>2. frames[i].at \in Nat /\ frames[i].keys \in Seq(FrameKeyframe)
    BY <1>1 DEF CanvasFrame
  <1> QED
    BY <1>1, <1>2, LenProperties, ElementOfSeq

LEMMA KeyTypes ==
    ASSUME NEW key \in FrameKeyframe PROVE key.layer \in Nat /\ key.asset \in Nat
  BY DEF FrameKeyframe

(* What validation says of the frames.                                       *)
LEMMA FramesAreValid ==
    ASSUME NEW d \in CanvasDocument, Valid(d)
    PROVE  /\ d.frames \in Seq(CanvasFrame) /\ FramesInOrder(d.frames)
           /\ \A i \in DOMAIN d.frames :
                /\ d.frames[i].keys # <<>>
                /\ \A k \in DOMAIN d.frames[i].keys :
                        ValidKeyframe(d, d.frames[i].keys[k])
  <1>1. EachResolves(d)
    BY ValidResolves
  <1> QED
    BY <1>1, FieldTypes DEF EachResolves, Valid, ValidFrames

(* The frame and the key there are what they are found as.                   *)
LEMMA KeyIsFound ==
    ASSUME NEW d \in CanvasDocument, FramesInOrder(d.frames), NEW i \in DOMAIN d.frames,
           NEW k \in DOMAIN d.frames[i].keys
    PROVE  /\ HasKey(d, d.frames[i].keys[k].layer, d.frames[i].at)
           /\ KeyAsset(d, d.frames[i].keys[k].layer, d.frames[i].at) = d.frames[i].keys[k].asset
  <1> DEFINE frames == d.frames
             at == frames[i].at
             keys == frames[i].keys
             layer == keys[k].layer
  <1>1. /\ frames \in Seq(CanvasFrame) /\ DOMAIN frames = 1 .. Len(frames)
        /\ keys \in Seq(FrameKeyframe) /\ DOMAIN keys = 1 .. Len(keys)
    BY FieldTypes, FrameTypes, LenProperties
  <1>2. /\ \A j \in DOMAIN frames : frames[j].at \in Nat
        /\ \A j \in DOMAIN keys : keys[j].layer \in Nat
    BY <1>1, FrameTypes, KeyTypes
  <1>3. FrameOf(frames, at) = i
    <2>1. \A j \in DOMAIN frames : frames[j].at = at => j = i
      <3> SUFFICES ASSUME NEW j \in DOMAIN frames, frames[j].at = at, j # i PROVE FALSE
        OBVIOUS
      <3>1. j < i \/ i < j
        BY <1>1
      <3> QED
        BY <1>2, <3>1 DEF FramesInOrder
    <2> QED
      BY <2>1 DEF FrameOf
  <1>4. KeyOf(frames[i], layer) = k
    <2>1. \A j \in DOMAIN keys : keys[j].layer = layer => j = k
      <3> SUFFICES ASSUME NEW j \in DOMAIN keys, keys[j].layer = layer, j # k PROVE FALSE
        OBVIOUS
      <3>1. j < k \/ k < j
        BY <1>1
      <3> QED
        BY <1>2, <3>1 DEF FramesInOrder, KeysAscend
    <2> QED
      BY <2>1 DEF KeyOf
  <1> QED
    BY <1>3, <1>4 DEF KeyAsset, HasKey, HasFrame, OwnsKey

LEMMA SortedKeysType ==
    ASSUME NEW keys \in Seq(FrameKeyframe) PROVE SortedKeys(keys) \in Seq(FrameKeyframe)
  <1> DEFINE number == [k \in DOMAIN keys |-> keys[k].layer]
  <1>1. \A k \in DOMAIN keys : number[k] \in Int
    <2>1. \A k \in DOMAIN keys : keys[k] \in FrameKeyframe
      BY LenProperties, ElementOfSeq
    <2> QED
      BY <2>1 DEF FrameKeyframe
  <1> HIDE DEF number
  <1>2. SortedBy(keys, number) \in Seq(FrameKeyframe)
    BY <1>1, SortedByType
  <1> QED
    BY <1>2 DEF SortedKeys, number

LEMMA InsertedAfter ==
    ASSUME NEW S, NEW s \in Seq(S), NEW places, places \subseteq DOMAIN s, NEW e \in S
    PROVE  InsertAt(s, Cardinality(places) + 1, e) \in Seq(S)
  <1> DEFINE n == Cardinality(places)
  <1>1. n \in Nat /\ n <= Len(s) /\ Len(s) \in Nat
    BY PlacesAreFinite, LenProperties
  <1>2. n + 1 \in 1 .. Len(s) + 1
    <2> HIDE DEF n
    <2> QED
      BY <1>1
  <1> HIDE DEF n
  <1>3. InsertAt(s, n + 1, e) \in Seq(S)
    BY <1>2, InsertAtProperties
  <1> QED
    BY <1>3 DEF n

(* A keyframe put in where std::lower_bound finds its place.                 *)
LEMMA InsertKeyType ==
    ASSUME NEW keys \in Seq(FrameKeyframe), NEW key \in FrameKeyframe
    PROVE  InsertKey(keys, key) \in Seq(FrameKeyframe)
  <1> DEFINE places == {k \in DOMAIN keys : keys[k].layer < key.layer}
  <1>1. places \subseteq DOMAIN keys
    OBVIOUS
  <1> HIDE DEF places
  <1>2. InsertAt(keys, Cardinality(places) + 1, key) \in Seq(FrameKeyframe)
    BY <1>1, InsertedAfter
  <1> QED
    BY <1>2 DEF InsertKey, places

(* Another sequence of keys at a frame.                                      *)
LEMMA KeysChange ==
    ASSUME NEW frames \in Seq(CanvasFrame), NEW i, NEW keys,
           i \in DOMAIN frames => keys \in Seq(FrameKeyframe)
    PROVE  [frames EXCEPT ![i].keys = keys] \in Seq(CanvasFrame)
  <1> DEFINE changed == [frames[i] EXCEPT !.keys = keys]
  <1>1. i \in DOMAIN frames => changed \in CanvasFrame
    BY FrameTypes, FrameChanges
  <1>2. [frames EXCEPT ![i].keys = keys] = [frames EXCEPT ![i] = changed]
    OBVIOUS
  <1> HIDE DEF changed
  <1> QED
    BY <1>1, <1>2, ChangedType

(* Put into the frame at its time, or into a new one.                        *)
LEMMA InsertFrameType ==
    ASSUME NEW frames \in Seq(CanvasFrame), NEW f \in Nat, NEW key \in FrameKeyframe
    PROVE  InsertFrameKeyframe(frames, f, key) \in Seq(CanvasFrame)
  <1>1. CASE HasFrame(frames, f)
    <2> DEFINE i == FrameOf(frames, f)
               keys == InsertKey(frames[i].keys, key)
    <2>1. i \in DOMAIN frames
      BY <1>1 DEF HasFrame, FrameOf
    <2>2. keys \in Seq(FrameKeyframe)
      BY <2>1, FrameTypes, InsertKeyType
    <2>3. InsertFrameKeyframe(frames, f, key) = [frames EXCEPT ![i].keys = keys]
      BY <1>1 DEF InsertFrameKeyframe
    <2> HIDE DEF i, keys
    <2> QED
      BY <2>2, <2>3, KeysChange
  <1>2. CASE ~HasFrame(frames, f)
    <2> DEFINE places == {i \in DOMAIN frames : frames[i].at < f}
               frame == [at |-> f, keys |-> <<key>>]
    <2>1. places \subseteq DOMAIN frames
      OBVIOUS
    <2>2. frame \in CanvasFrame
      <3>1. <<key>> \in Seq(FrameKeyframe)
        OBVIOUS
      <3> QED
        BY <3>1 DEF CanvasFrame
    <2>3. InsertFrameKeyframe(frames, f, key) = InsertAt(frames, Cardinality(places) + 1, frame)
      BY <1>2 DEF InsertFrameKeyframe
    <2> HIDE DEF places, frame
    <2> QED
      BY <2>1, <2>2, <2>3, InsertedAfter
  <1> QED
    BY <1>1, <1>2

LEMMA KeysWithoutType ==
    ASSUME NEW keys \in Seq(FrameKeyframe), NEW layers
    PROVE  KeysWithout(keys, layers) \in Seq(FrameKeyframe)
  <1> DEFINE places == {k \in DOMAIN keys : keys[k].layer \notin layers}
  <1>1. places \subseteq DOMAIN keys
    OBVIOUS
  <1> HIDE DEF places
  <1>2. Kept(keys, places) \in Seq(FrameKeyframe)
    BY <1>1, KeptType
  <1> QED
    BY <1>2 DEF KeysWithout, places

(* Keyframes of layers taken out, and the frames left empty with them.       *)
LEMMA WithoutKeysType ==
    ASSUME NEW frames \in Seq(CanvasFrame), NEW layers
    PROVE  WithoutKeys(frames, layers) \in Seq(CanvasFrame)
  <1> DEFINE left == [i \in DOMAIN frames |-> [frames[i] EXCEPT !.keys = KeysWithout(@, layers)]]
             places == {i \in DOMAIN left : left[i].keys # <<>>}
  <1>1. left \in Seq(CanvasFrame)
    <2>1. \A i \in DOMAIN frames : left[i] \in CanvasFrame
      <3> TAKE i \in DOMAIN frames
      <3>1. left[i] = [frames[i] EXCEPT !.keys = KeysWithout(frames[i].keys, layers)]
        OBVIOUS
      <3> HIDE DEF left
      <3> QED
        BY <3>1, FrameTypes, KeysWithoutType, FrameChanges
    <2>2. left = [i \in DOMAIN frames |-> left[i]]
      OBVIOUS
    <2> HIDE DEF left
    <2> QED
      BY <2>1, <2>2, MappedType
  <1>2. WithoutKeys(frames, layers) = Kept(left, places)
    BY DEF WithoutKeys
  <1>3. places \subseteq DOMAIN left
    OBVIOUS
  <1> HIDE DEF places, left
  <1> QED
    BY <1>1, <1>2, <1>3, KeptType

(* One keyframe taken out, and its frame with it when it was the last.       *)
LEMMA EraseFrameType ==
    ASSUME NEW frames \in Seq(CanvasFrame), NEW f, HasFrame(frames, f), NEW layer
    PROVE  EraseFrameKeyframe(frames, f, layer) \in Seq(CanvasFrame)
  <1> DEFINE at == FrameOf(frames, f)
             keys == KeysWithout(frames[at].keys, {layer})
  <1>1. at \in DOMAIN frames
    BY DEF HasFrame, FrameOf
  <1>2. keys \in Seq(FrameKeyframe)
    BY <1>1, FrameTypes, KeysWithoutType
  <1>3. EraseFrameKeyframe(frames, f, layer) =
            IF keys = <<>> THEN RemoveAt(frames, at) ELSE [frames EXCEPT ![at].keys = keys]
    BY DEF EraseFrameKeyframe
  <1> HIDE DEF at, keys
  <1>4. RemoveAt(frames, at) \in Seq(CanvasFrame)
    BY <1>1, RemovedType
  <1>5. [frames EXCEPT ![at].keys = keys] \in Seq(CanvasFrame)
    BY <1>2, KeysChange
  <1> QED
    BY <1>3, <1>4, <1>5

LEMMA RelabelledType ==
    ASSUME NEW keys \in Seq(FrameKeyframe), NEW from, NEW to \in Nat
    PROVE  RelabelledKeys(keys, from, to) \in Seq(FrameKeyframe)
  <1> DEFINE u == RelabelledKeys(keys, from, to)
  <1>1. \A k \in DOMAIN keys : u[k] \in FrameKeyframe
    <2> TAKE k \in DOMAIN keys
    <2>1. keys[k] \in FrameKeyframe
      BY LenProperties, ElementOfSeq
    <2>2. Renamed(keys[k].layer, from, to) \in Nat
      BY <2>1, KeyTypes DEF Renamed
    <2>3. u[k] = [keys[k] EXCEPT !.layer = Renamed(keys[k].layer, from, to)]
      BY DEF RelabelledKeys
    <2> HIDE DEF u
    <2> QED
      BY <2>1, <2>2, <2>3, KeyChanges
  <1>2. u = [k \in DOMAIN keys |-> u[k]]
    BY DEF RelabelledKeys
  <1> HIDE DEF u
  <1>3. u \in Seq(FrameKeyframe)
    BY <1>1, <1>2, MappedType
  <1> QED
    BY <1>3 DEF u

(* Keyframes of a layer under its new id, sorted again.                      *)
LEMMA RenameKeyframesType ==
    ASSUME NEW frames \in Seq(CanvasFrame), NEW from, NEW to \in Nat
    PROVE  RenameLayerKeyframes(frames, from, to) \in Seq(CanvasFrame)
  <1> DEFINE t == RenameLayerKeyframes(frames, from, to)
  <1>1. \A keys \in Seq(FrameKeyframe) : RelabelledKeys(keys, from, to) \in Seq(FrameKeyframe)
    BY RelabelledType
  <1>2. \A i \in DOMAIN frames : t[i] \in CanvasFrame
    <2> TAKE i \in DOMAIN frames
    <2> DEFINE keys == SortedKeys(RelabelledKeys(frames[i].keys, from, to))
    <2>1. keys \in Seq(FrameKeyframe)
      BY <1>1, FrameTypes, SortedKeysType
    <2>2. t[i] = IF ~OwnsKey(frames[i], from) THEN frames[i] ELSE [frames[i] EXCEPT !.keys = keys]
      BY DEF RenameLayerKeyframes
    <2> HIDE DEF t, keys
    <2>3. [frames[i] EXCEPT !.keys = keys] \in CanvasFrame
      BY <2>1, FrameTypes, FrameChanges
    <2> QED
      BY <2>2, <2>3, FrameTypes
  <1>3. t = [i \in DOMAIN frames |-> t[i]]
    BY DEF RenameLayerKeyframes
  <1> HIDE DEF t
  <1>4. t \in Seq(CanvasFrame)
    BY <1>2, <1>3, MappedType
  <1> QED
    BY <1>4 DEF t

(* The frames that have a keyframe of a layer, which rebuildIndices() lists. *)
LEMMA OwnedFramesType ==
    ASSUME NEW frames \in Seq(CanvasFrame), NEW layer
    PROVE  OwnedFrames(frames, layer) \in Seq(Nat)
  <1> DEFINE places == {i \in DOMAIN frames : OwnsKey(frames[i], layer)}
             owners == Kept(frames, places)
             t == [i \in DOMAIN owners |-> owners[i].at]
  <1>1. places \subseteq DOMAIN frames
    OBVIOUS
  <1>2. OwnedFrames(frames, layer) = t
    BY DEF OwnedFrames
  <1>3. owners \in Seq(CanvasFrame)
    <2> HIDE DEF places
    <2> QED
      BY <1>1, KeptType
  <1> HIDE DEF owners
  <1>4. \A i \in DOMAIN owners : t[i] \in Nat
    BY <1>3, FrameTypes
  <1>5. t = [i \in DOMAIN owners |-> t[i]]
    OBVIOUS
  <1> HIDE DEF t
  <1> QED
    BY <1>2, <1>3, <1>4, <1>5, MappedType

LEMMA KeyAssetType ==
    ASSUME NEW d \in CanvasDocument, NEW layer, NEW f, HasKey(d, layer, f)
    PROVE  KeyAsset(d, layer, f) \in Nat
  <1> DEFINE at == FrameOf(d.frames, f)
             k == KeyOf(d.frames[at], layer)
  <1>1. at \in DOMAIN d.frames
    BY DEF HasKey, HasFrame, FrameOf
  <1>2. k \in DOMAIN d.frames[at].keys
    BY DEF HasKey, OwnsKey, KeyOf
  <1>3. d.frames[at].keys[k] \in FrameKeyframe
    <2> HIDE DEF at, k
    <2> QED
      BY <1>1, <1>2, FieldTypes, FrameTypes
  <1> QED
    BY <1>3, KeyTypes DEF KeyAsset

-----------------------------------------------------------------------------
(* Keyframes placed one after another                                        *)

(* The frames after each of the first m placements.                          *)
Placed(frames, layer, placements, after, n) ==
    IF n = 0 THEN frames
    ELSE InsertFrameKeyframe(after[n - 1], placements[n].at,
                             [layer |-> layer, asset |-> placements[n].asset])

IsPlacing(frames, layer, placements, m, after) ==
    after = [n \in 0 .. m |-> Placed(frames, layer, placements, after, n)]

(* Each placement has frames to go into, and leaves frames.                  *)
LEMMA PlacingExists ==
    ASSUME NEW frames, NEW layer, NEW placements, NEW m \in Nat
    PROVE  \E after : IsPlacing(frames, layer, placements, m, after)
  <1> DEFINE Exists(n) == \E after : IsPlacing(frames, layer, placements, n, after)
             missing == {n \in Nat : ~Exists(n)}
  <1>1. SUFFICES ASSUME missing # {} PROVE FALSE
    OBVIOUS
  <1>2. PICK n \in missing : \A other \in missing : n <= other
    <2>1. missing \in SUBSET Nat
      OBVIOUS
    <2> HIDE DEF missing
    <2> QED
      BY <1>1, <2>1, LeastNumber
  <1>3. CASE n = 0
    <2> DEFINE first == [k \in 0 .. n |-> frames]
    <2>1. \A k \in 0 .. n : k = 0
      BY <1>3
    <2>2. first = [k \in 0 .. n |-> Placed(frames, layer, placements, first, k)]
      BY <2>1 DEF Placed
    <2> QED
      BY <2>2 DEF IsPlacing
  <1>4. CASE n # 0
    <2>1. n \in Nat /\ n - 1 \in Nat /\ n - 1 \notin missing
      BY <1>2, <1>4
    <2>2. PICK before : IsPlacing(frames, layer, placements, n - 1, before)
      BY <2>1
    <2> DEFINE after == [k \in 0 .. n |-> Placed(frames, layer, placements, before, k)]
    <2>3. \A k \in 0 .. n - 1 : before[k] = Placed(frames, layer, placements, before, k)
      BY <2>1, <2>2 DEF IsPlacing
    <2>4. \A k \in 0 .. n - 1 : after[k] = before[k]
      BY <2>1, <2>3
    <2>5. ASSUME NEW k \in 0 .. n
          PROVE  Placed(frames, layer, placements, before, k) = Placed(frames, layer, placements, after, k)
      <3>1. k # 0 => k - 1 \in 0 .. n - 1
        BY <2>1
      <3> HIDE DEF after
      <3> QED
        BY <2>4, <3>1 DEF Placed
    <2>6. after = [k \in 0 .. n |-> Placed(frames, layer, placements, after, k)]
      BY <2>5
    <2> QED
      BY <2>6 DEF IsPlacing
  <1> QED
    BY <1>3, <1>4

(* Placements put in one after the other leave frames.                       *)
LEMMA InsertPlacementsType ==
    ASSUME NEW frames \in Seq(CanvasFrame), NEW layer \in Nat,
           NEW placements \in Seq(KeyframePlacement)
    PROVE  InsertPlacements(frames, layer, placements) \in Seq(CanvasFrame)
  <1> DEFINE m == Len(placements)
             after == CHOOSE after : IsPlacing(frames, layer, placements, m, after)
  <1>1. m \in Nat /\ DOMAIN placements = 1 .. m
    BY LenProperties
  <1>2. IsPlacing(frames, layer, placements, m, after)
    <2> HIDE DEF m
    <2> QED
      BY <1>1, PlacingExists
  <1>3. InsertPlacements(frames, layer, placements) = after[m]
    BY Zenon DEF InsertPlacements, IsPlacing, Placed
  <1> HIDE DEF after, m
  <1>4. after[0] = frames
    BY <1>1, <1>2 DEF IsPlacing, Placed
  <1>5. \A n \in 1 .. m : after[n] = InsertFrameKeyframe(after[n - 1], placements[n].at,
                                        [layer |-> layer, asset |-> placements[n].asset])
    BY <1>1, <1>2 DEF IsPlacing, Placed
  <1> DEFINE broken == {n \in 0 .. m : after[n] \notin Seq(CanvasFrame)}
  <1>6. broken = {}
    <2> SUFFICES ASSUME broken # {} PROVE FALSE
      OBVIOUS
    <2>1. PICK n \in broken : \A other \in broken : n <= other
      <3>1. broken \in SUBSET Nat
        OBVIOUS
      <3> HIDE DEF broken
      <3> QED
        BY <3>1, LeastNumber
    <2>2. n # 0
      BY <1>4, <2>1
    <2>3. n \in 1 .. m /\ n - 1 \in 0 .. m /\ n - 1 \notin broken
      BY <1>1, <2>1, <2>2
    <2>4. after[n - 1] \in Seq(CanvasFrame)
      BY <2>3
    <2>5. placements[n] \in KeyframePlacement
      BY <1>1, <2>3, ElementOfSeq DEF m
    <2>6. placements[n].at \in Nat /\ placements[n].asset \in Nat
      BY <2>5 DEF KeyframePlacement
    <2>7. [layer |-> layer, asset |-> placements[n].asset] \in FrameKeyframe
      BY <2>6, NewKeyType
    <2>8. after[n] \in Seq(CanvasFrame)
      BY <1>5, <2>3, <2>4, <2>6, <2>7, InsertFrameType
    <2> QED
      BY <2>1, <2>8
  <1> QED
    BY <1>1, <1>3, <1>6

LEMMA SortedPlacementsType ==
    ASSUME NEW placements \in Seq(KeyframePlacement)
    PROVE  SortedPlacements(placements) \in Seq(KeyframePlacement)
  <1> DEFINE number == [i \in DOMAIN placements |-> placements[i].at]
  <1>1. \A i \in DOMAIN placements : number[i] \in Int
    <2>1. \A i \in DOMAIN placements : placements[i] \in KeyframePlacement
      BY LenProperties, ElementOfSeq
    <2> QED
      BY <2>1 DEF KeyframePlacement
  <1> HIDE DEF number
  <1>2. SortedBy(placements, number) \in Seq(KeyframePlacement)
    BY <1>1, SortedByType
  <1> QED
    BY <1>2 DEF SortedPlacements, number

-----------------------------------------------------------------------------
(* Layers of a document                                                      *)

LEMMA LayerFound ==
    ASSUME NEW d \in CanvasDocument, NEW id, Has(d.layers, id)
    PROVE  /\ Layer(d, id) \in CanvasLayer /\ Layer(d, id).id = id
           /\ Item(d.layers, id) \in DOMAIN d.layers
           /\ d.layers[Item(d.layers, id)] = Layer(d, id)
  <1>1. Found(d.layers, id) \in CanvasLayer /\ Found(d.layers, id).id = id
    BY FieldTypes, FoundType
  <1>2. Item(d.layers, id) \in DOMAIN d.layers
    BY FieldTypes, FoundType
  <1> QED
    BY <1>1, <1>2 DEF Layer, Found

LEMMA WithLayerType ==
    ASSUME NEW d \in CanvasDocument, NEW id, NEW layer \in CanvasLayer
    PROVE  WithLayer(d, id, layer) \in CanvasDocument /\ SameBut(WithLayer(d, id, layer), d, {"layers"})
  <1> DEFINE s == [d.layers EXCEPT ![Item(d.layers, id)] = layer]
  <1>1. s \in Seq(CanvasLayer)
    BY FieldTypes, ChangedType
  <1>2. WithLayer(d, id, layer) = [d EXCEPT !.layers = s]
    BY DEF WithLayer
  <1> HIDE DEF s
  <1> QED
    BY <1>1, <1>2, FieldsChange DEF SameBut

(* rebuildIndices() over new frames leaves a document.                       *)
LEMMA ReindexedType ==
    ASSUME NEW d \in CanvasDocument, NEW frames \in Seq(CanvasFrame), NEW id
    PROVE  /\ Reindexed(d, frames, id) \in CanvasDocument
           /\ SameBut(Reindexed(d, frames, id), d, {"layers", "frames"})
  <1> DEFINE i == Item(d.layers, id)
             index == IF Layer(d, id).keyed THEN OwnedFrames(frames, id) ELSE d.layers[i].index
             changed == [d.layers[i] EXCEPT !.index = index]
             s == [d.layers EXCEPT ![i] = changed]
             e == [d EXCEPT !.frames = frames]
  <1>1. i \in DOMAIN d.layers => changed \in CanvasLayer
    <2>1. i \in DOMAIN d.layers => d.layers[i] \in CanvasLayer
      BY FieldTypes, LenProperties, ElementOfSeq
    <2>2. i \in DOMAIN d.layers =>
            IF d.layers[i].keyed THEN index \in Seq(Nat) ELSE index = d.layers[i].index
      BY <2>1, LayerFieldTypes, OwnedFramesType DEF Layer, Found
    <2> HIDE DEF i, index
    <2>3. CASE i \in DOMAIN d.layers /\ d.layers[i].keyed
      BY <2>1, <2>2, <2>3, SourcesChange
    <2>4. CASE i \in DOMAIN d.layers /\ ~d.layers[i].keyed
      <3>1. changed = d.layers[i]
        BY <2>1, <2>2, <2>4 DEF CanvasLayer
      <3> QED
        BY <2>1, <2>4, <3>1
    <2> QED
      BY <2>3, <2>4
  <1>2. s \in Seq(CanvasLayer)
    <2> HIDE DEF i, changed
    <2> QED
      BY <1>1, FieldTypes, ChangedType
  <1>3. Reindexed(d, frames, id) = [e EXCEPT !.layers = s]
    BY DEF Reindexed
  <1>4. e \in CanvasDocument
    BY FieldsChange
  <1> HIDE DEF s
  <1>5. [e EXCEPT !.layers = s] \in CanvasDocument
    <2> HIDE DEF e
    <2> QED
      BY <1>2, <1>4, FieldsChange
  <1>6. SameBut([e EXCEPT !.layers = s], d, {"layers", "frames"})
    BY DEF SameBut
  <1> QED
    BY <1>3, <1>5, <1>6

LEMMA SameButAgain ==
    ASSUME NEW d, NEW e, NEW f, NEW A, NEW B, NEW C, SameBut(e, d, A), SameBut(f, e, B),
           A \subseteq C, B \subseteq C
    PROVE  SameBut(f, d, C)
  BY DEF SameBut

LEMMA RaisedSame ==
    ASSUME NEW d, NEW layer
    PROVE  SameBut(Raised(d), d, {"minor"}) /\ SameBut(RaisedFor(d, layer), d, {"minor"})
  BY DEF SameBut, Raised, RaisedFor

LEMMA RaisedForType ==
    ASSUME NEW d \in CanvasDocument, NEW layer
    PROVE  RaisedFor(d, layer) \in CanvasDocument
  BY RaisedType DEF RaisedFor

-----------------------------------------------------------------------------
(* The frames that own a key of a layer                                      *)

OwnersMatch(frames, layer, others, other) ==
    \A i \in DOMAIN frames : OwnsKey(frames[i], layer) =>
        \E j \in DOMAIN others : OwnsKey(others[j], other) /\ others[j].at = frames[i].at

(* The times of the frames that own a key, in order.                         *)
ListsOwners(owned, frames, layer) ==
    /\ owned \in Seq(Int) /\ Ascending(owned)
    /\ \A n \in DOMAIN owned : \E i \in DOMAIN frames :
            OwnsKey(frames[i], layer) /\ owned[n] = frames[i].at
    /\ \A i \in DOMAIN frames : OwnsKey(frames[i], layer) =>
            \E n \in DOMAIN owned : owned[n] = frames[i].at

LEMMA OwnedFramesProperties ==
    ASSUME NEW frames \in Seq(CanvasFrame), FramesInOrder(frames), NEW layer
    PROVE  ListsOwners(OwnedFrames(frames, layer), frames, layer)
  <1> DEFINE places == {i \in DOMAIN frames : OwnsKey(frames[i], layer)}
             owners == Kept(frames, places)
             owned == OwnedFrames(frames, layer)
  <1>1. owned = [n \in DOMAIN owners |-> owners[n].at]
    BY DEF OwnedFrames
  <1>2. places \subseteq DOMAIN frames /\ \A i \in places : OwnsKey(frames[i], layer)
    OBVIOUS
  <1>3. \A i \in DOMAIN frames : OwnsKey(frames[i], layer) => i \in places
    OBVIOUS
  <1>4. owned \in Seq(Int)
    <2>1. owned \in Seq(Nat)
      BY OwnedFramesType
    <2> HIDE DEF owned
    <2>2. \A n \in DOMAIN owned : owned[n] \in Int
      BY <2>1, LenProperties, ElementOfSeq
    <2> QED
      BY <2>1, <2>2, LenProperties, SeqDef
  <1> HIDE DEF owned, places
  <1>5. PICK from \in [DOMAIN owners -> places] :
            /\ \A n \in DOMAIN from : owners[n] = frames[from[n]]
            /\ \A i \in places : \E n \in DOMAIN from : from[n] = i
            /\ \A n, m \in DOMAIN from : n < m => from[n] < from[m]
    BY <1>2, KeptOrder
  <1> HIDE DEF owners
  <1>6. DOMAIN owned = DOMAIN owners /\ DOMAIN from = DOMAIN owners
        /\ \A n \in DOMAIN owned : from[n] \in places /\ owned[n] = frames[from[n]].at
    BY <1>1, <1>5
  <1>7. Ascending(owned)
    <2>1. ASSUME NEW n \in DOMAIN owned, NEW m \in DOMAIN owned, n < m PROVE owned[n] < owned[m]
      <3>1. from[n] < from[m] /\ from[n] \in DOMAIN frames /\ from[m] \in DOMAIN frames
        BY <1>2, <1>5, <1>6, <2>1
      <3>2. frames[from[n]].at < frames[from[m]].at
        BY <3>1 DEF FramesInOrder
      <3> QED
        BY <1>6, <3>2
    <2> QED
      BY <2>1 DEF Ascending
  <1>8. \A n \in DOMAIN owned : \E i \in DOMAIN frames :
            OwnsKey(frames[i], layer) /\ owned[n] = frames[i].at
    BY <1>2, <1>6
  <1>9. ASSUME NEW i \in DOMAIN frames, OwnsKey(frames[i], layer)
        PROVE  \E n \in DOMAIN owned : owned[n] = frames[i].at
    <2>1. PICK n \in DOMAIN from : from[n] = i
      BY <1>3, <1>5, <1>9
    <2> QED
      BY <1>6, <2>1
  <1> QED
    BY <1>4, <1>7, <1>8, <1>9 DEF owned, ListsOwners

(* Who owns keys at the same times has the same index.                       *)
LEMMA SameOwners ==
    ASSUME NEW frames \in Seq(CanvasFrame), NEW others \in Seq(CanvasFrame),
           FramesInOrder(frames), FramesInOrder(others), NEW layer, NEW other,
           OwnersMatch(frames, layer, others, other), OwnersMatch(others, other, frames, layer)
    PROVE  OwnedFrames(frames, layer) = OwnedFrames(others, other)
  <1> DEFINE s == OwnedFrames(frames, layer)
             t == OwnedFrames(others, other)
  <1>1. ListsOwners(s, frames, layer) /\ ListsOwners(t, others, other)
    BY OwnedFramesProperties
  <1> HIDE DEF s, t
  <1>2. ASSUME NEW n \in DOMAIN s PROVE \E m \in DOMAIN t : t[m] = s[n]
    <2>1. PICK i \in DOMAIN frames : OwnsKey(frames[i], layer) /\ s[n] = frames[i].at
      BY <1>1 DEF ListsOwners
    <2>2. PICK j \in DOMAIN others : OwnsKey(others[j], other) /\ others[j].at = frames[i].at
      BY <2>1 DEF OwnersMatch
    <2>3. PICK m \in DOMAIN t : t[m] = others[j].at
      BY <1>1, <2>2 DEF ListsOwners
    <2> QED
      BY <2>1, <2>2, <2>3
  <1>3. ASSUME NEW m \in DOMAIN t PROVE \E n \in DOMAIN s : s[n] = t[m]
    <2>1. PICK j \in DOMAIN others : OwnsKey(others[j], other) /\ t[m] = others[j].at
      BY <1>1 DEF ListsOwners
    <2>2. PICK i \in DOMAIN frames : OwnsKey(frames[i], layer) /\ frames[i].at = others[j].at
      BY <2>1 DEF OwnersMatch
    <2>3. PICK n \in DOMAIN s : s[n] = frames[i].at
      BY <1>1, <2>2 DEF ListsOwners
    <2> QED
      BY <2>1, <2>2, <2>3
  <1>4. s = t
    BY <1>1, <1>2, <1>3, AscendingIsUnique DEF ListsOwners
  <1> QED
    BY <1>4 DEF s, t

-----------------------------------------------------------------------------
(* Frames without the keys of layers                                         *)

LEMMA KeysWithoutProperties ==
    ASSUME NEW keys \in Seq(FrameKeyframe), KeysAscend(keys), NEW layers
    PROVE  LET left == KeysWithout(keys, layers)
           IN  /\ KeysAscend(left)
               /\ \A n \in DOMAIN left : \E k \in DOMAIN keys :
                    left[n] = keys[k] /\ keys[k].layer \notin layers
               /\ \A k \in DOMAIN keys : keys[k].layer \notin layers =>
                    \E n \in DOMAIN left : left[n] = keys[k]
  <1> DEFINE places == {k \in DOMAIN keys : keys[k].layer \notin layers}
             left == Kept(keys, places)
  <1>1. KeysWithout(keys, layers) = left
    BY DEF KeysWithout
  <1>2. /\ places \subseteq DOMAIN keys
        /\ \A k \in DOMAIN keys : k \in places <=> keys[k].layer \notin layers
    OBVIOUS
  <1> HIDE DEF places
  <1>3. PICK from \in [DOMAIN left -> places] :
            /\ \A n \in DOMAIN from : left[n] = keys[from[n]]
            /\ \A i \in places : \E n \in DOMAIN from : from[n] = i
            /\ \A n, m \in DOMAIN from : n < m => from[n] < from[m]
    BY <1>2, KeptOrder
  <1> HIDE DEF left
  <1>4. DOMAIN from = DOMAIN left /\ \A n \in DOMAIN left : from[n] \in places
    BY <1>3
  <1>5. KeysAscend(left)
    <2>1. ASSUME NEW n \in DOMAIN left, NEW m \in DOMAIN left, n < m
          PROVE  left[n].layer < left[m].layer
      <3>1. from[n] < from[m] /\ from[n] \in DOMAIN keys /\ from[m] \in DOMAIN keys
        BY <1>2, <1>3, <1>4, <2>1
      <3>2. keys[from[n]].layer < keys[from[m]].layer
        BY <3>1 DEF KeysAscend
      <3> QED
        BY <1>3, <1>4, <3>2
    <2> QED
      BY <2>1 DEF KeysAscend
  <1>6. \A n \in DOMAIN left : \E k \in DOMAIN keys :
            left[n] = keys[k] /\ keys[k].layer \notin layers
    BY <1>2, <1>3, <1>4
  <1>7. \A k \in DOMAIN keys : keys[k].layer \notin layers => \E n \in DOMAIN left : left[n] = keys[k]
    BY <1>2, <1>3, <1>4
  <1> QED
    BY <1>1, <1>5, <1>6, <1>7

(* Each frame that is left has keys that its frame had.                      *)
KeysLeft(left, frame, layers) ==
    /\ left.at = frame.at
    /\ \A k \in DOMAIN left.keys : \E l \in DOMAIN frame.keys :
            left.keys[k] = frame.keys[l] /\ frame.keys[l].layer \notin layers

LEMMA WithoutKeysProperties ==
    ASSUME NEW frames \in Seq(CanvasFrame), FramesInOrder(frames), NEW layers
    PROVE  LET left == WithoutKeys(frames, layers)
           IN  /\ FramesInOrder(left)
               /\ \A n \in DOMAIN left : \E i \in DOMAIN frames : KeysLeft(left[n], frames[i], layers)
               /\ \A layer : layer \notin layers =>
                        OwnersMatch(frames, layer, left, layer) /\ OwnersMatch(left, layer, frames, layer)
  <1> DEFINE mapped == [i \in DOMAIN frames |-> [frames[i] EXCEPT !.keys = KeysWithout(@, layers)]]
             places == {i \in DOMAIN mapped : mapped[i].keys # <<>>}
             left == Kept(mapped, places)
  <1>1. WithoutKeys(frames, layers) = left
    BY DEF WithoutKeys
  <1>2. ASSUME NEW i \in DOMAIN frames
        PROVE  /\ mapped[i] \in CanvasFrame
               /\ mapped[i].at = frames[i].at /\ mapped[i].keys = KeysWithout(frames[i].keys, layers)
    <2>1. mapped[i] = [frames[i] EXCEPT !.keys = KeysWithout(frames[i].keys, layers)]
      OBVIOUS
    <2>2. frames[i] \in CanvasFrame /\ KeysWithout(frames[i].keys, layers) \in Seq(FrameKeyframe)
      BY FrameTypes, KeysWithoutType
    <2> HIDE DEF mapped
    <2> QED
      BY <2>1, <2>2 DEF CanvasFrame
  <1>3. DOMAIN mapped = DOMAIN frames
    OBVIOUS
  <1>4. mapped \in Seq(CanvasFrame)
    <2>1. mapped = [i \in DOMAIN frames |-> mapped[i]]
      OBVIOUS
    <2> HIDE DEF mapped
    <2> QED
      BY <1>2, <2>1, MappedType
  <1>5. /\ places \subseteq DOMAIN mapped
        /\ \A i \in DOMAIN mapped : i \in places <=> mapped[i].keys # <<>>
    OBVIOUS
  <1> HIDE DEF places, mapped
  <1>6. PICK from \in [DOMAIN left -> places] :
            /\ \A n \in DOMAIN from : left[n] = mapped[from[n]]
            /\ \A i \in places : \E n \in DOMAIN from : from[n] = i
            /\ \A n, m \in DOMAIN from : n < m => from[n] < from[m]
    BY <1>4, <1>5, KeptOrder
  <1> HIDE DEF left
  <1>7. DOMAIN from = DOMAIN left /\ \A n \in DOMAIN left : from[n] \in places /\ from[n] \in DOMAIN frames
    BY <1>3, <1>5, <1>6
  <1>8. ASSUME NEW i \in DOMAIN frames
        PROVE  /\ KeysAscend(mapped[i].keys) /\ KeysLeft(mapped[i], frames[i], layers)
               /\ \A k \in DOMAIN frames[i].keys : frames[i].keys[k].layer \notin layers =>
                    \E n \in DOMAIN mapped[i].keys : mapped[i].keys[n] = frames[i].keys[k]
    <2>1. KeysAscend(frames[i].keys) /\ frames[i].keys \in Seq(FrameKeyframe)
      BY FrameTypes DEF FramesInOrder
    <2> QED
      BY <1>2, <2>1, KeysWithoutProperties DEF KeysLeft
  <1>9. FramesInOrder(left)
    <2>1. ASSUME NEW n \in DOMAIN left, NEW m \in DOMAIN left, n < m PROVE left[n].at < left[m].at
      <3>1. from[n] < from[m] /\ from[n] \in DOMAIN frames /\ from[m] \in DOMAIN frames
        BY <1>6, <1>7, <2>1
      <3>2. frames[from[n]].at < frames[from[m]].at
        BY <3>1 DEF FramesInOrder
      <3> QED
        BY <1>2, <1>6, <1>7, <3>1, <3>2
    <2>2. \A n \in DOMAIN left : KeysAscend(left[n].keys)
      BY <1>6, <1>7, <1>8
    <2> QED
      BY <2>1, <2>2 DEF FramesInOrder
  <1>10. \A n \in DOMAIN left : \E i \in DOMAIN frames : KeysLeft(left[n], frames[i], layers)
    BY <1>6, <1>7, <1>8
  <1>11. ASSUME NEW layer, layer \notin layers PROVE OwnersMatch(frames, layer, left, layer)
    <2>1. ASSUME NEW i \in DOMAIN frames, OwnsKey(frames[i], layer)
          PROVE  \E n \in DOMAIN left : OwnsKey(left[n], layer) /\ left[n].at = frames[i].at
      <3>1. PICK k \in DOMAIN frames[i].keys : frames[i].keys[k].layer = layer
        BY <2>1 DEF OwnsKey
      <3>2. PICK l \in DOMAIN mapped[i].keys : mapped[i].keys[l] = frames[i].keys[k]
        BY <1>8, <1>11, <3>1
      <3>3. mapped[i].keys # <<>>
        BY <3>2
      <3>4. i \in places
        BY <1>3, <1>5, <3>3
      <3>5. PICK n \in DOMAIN from : from[n] = i
        BY <1>6, <3>4
      <3>6. left[n] = mapped[i] /\ n \in DOMAIN left
        BY <1>6, <1>7, <3>5
      <3> QED
        BY <1>2, <3>1, <3>2, <3>6 DEF OwnsKey
    <2> QED
      BY <2>1 DEF OwnersMatch
  <1>12. ASSUME NEW layer, layer \notin layers PROVE OwnersMatch(left, layer, frames, layer)
    <2>1. ASSUME NEW n \in DOMAIN left, OwnsKey(left[n], layer)
          PROVE  \E i \in DOMAIN frames : OwnsKey(frames[i], layer) /\ frames[i].at = left[n].at
      <3>1. PICK i \in DOMAIN frames : KeysLeft(left[n], frames[i], layers)
        BY <1>10
      <3> QED
        BY <2>1, <3>1 DEF KeysLeft, OwnsKey
    <2> QED
      BY <2>1 DEF OwnersMatch
  <1> QED
    BY <1>1, <1>9, <1>10, <1>11, <1>12

-----------------------------------------------------------------------------
(* The keyframes of a layer under its new id                                 *)

(* The keys are the ones that were there, under their layers' new ids.       *)
Relabels(keys, old, from, to) ==
    /\ KeysAscend(keys)
    /\ \A n \in DOMAIN keys : \E k \in DOMAIN old :
            keys[n].layer = Renamed(old[k].layer, from, to) /\ keys[n].asset = old[k].asset
    /\ \A k \in DOMAIN old : \E n \in DOMAIN keys :
            keys[n].layer = Renamed(old[k].layer, from, to) /\ keys[n].asset = old[k].asset

LEMMA RelabelledProperties ==
    ASSUME NEW keys \in Seq(FrameKeyframe), KeysAscend(keys), NEW from, NEW to \in Nat,
           \A k \in DOMAIN keys : keys[k].layer # to
    PROVE  Relabels(SortedKeys(RelabelledKeys(keys, from, to)), keys, from, to)
  <1> DEFINE new == RelabelledKeys(keys, from, to)
             number == [k \in DOMAIN new |-> new[k].layer]
             sorted == SortedBy(new, number)
  <1>1. new \in Seq(FrameKeyframe)
    BY RelabelledType
  <1>2. DOMAIN new = DOMAIN keys
    BY DEF RelabelledKeys
  <1>3. ASSUME NEW k \in DOMAIN keys
        PROVE  /\ new[k].layer = Renamed(keys[k].layer, from, to) /\ new[k].asset = keys[k].asset
               /\ keys[k].layer \in Int
    <2>1. keys[k] \in FrameKeyframe
      BY LenProperties, ElementOfSeq
    <2> QED
      BY <2>1 DEF RelabelledKeys, FrameKeyframe
  <1>4. SortedKeys(new) = sorted
    BY DEF SortedKeys
  <1> HIDE DEF new
  <1>5. ASSUME NEW k \in DOMAIN keys, NEW l \in DOMAIN keys, k # l PROVE new[k].layer # new[l].layer
    <2>1. DOMAIN keys \subseteq Int
      BY LenProperties
    <2>2. keys[k].layer # keys[l].layer
      BY <1>3, <1>5, <2>1 DEF KeysAscend
    <2> QED
      BY <1>3, <2>2 DEF Renamed
  <1>6. \A k \in DOMAIN new : number[k] = new[k].layer /\ number[k] \in Int
    BY <1>2, <1>3 DEF Renamed
  <1> HIDE DEF number, sorted
  <1>7. PICK place \in [DOMAIN sorted -> DOMAIN new] :
            /\ \A n \in DOMAIN place : sorted[n] = new[place[n]]
            /\ \A i \in DOMAIN new : \E n \in DOMAIN place : place[n] = i
            /\ \A n, m \in DOMAIN place : n < m =>
                    number[place[n]] <= number[place[m]] /\ place[n] # place[m]
    <2>1. \A k \in DOMAIN new : number[k] \in Int
      BY <1>6
    <2>2. Sorts(SortedBy(new, number), new, number)
      BY <1>1, <2>1, SortedByOrder
    <2>3. Sorts(sorted, new, number)
      BY <2>2 DEF sorted
    <2> QED
      BY <2>3, Zenon DEF Sorts
  <1>8. DOMAIN place = DOMAIN sorted /\ \A n \in DOMAIN sorted : place[n] \in DOMAIN keys
    BY <1>2, <1>7
  <1>9. KeysAscend(sorted)
    <2>1. ASSUME NEW n \in DOMAIN sorted, NEW m \in DOMAIN sorted, n < m
          PROVE  sorted[n].layer < sorted[m].layer
      <3>1. number[place[n]] <= number[place[m]] /\ place[n] # place[m]
        BY <1>7, <1>8, <2>1
      <3>2. place[n] \in DOMAIN keys /\ place[m] \in DOMAIN keys
        BY <1>8
      <3>3. number[place[n]] # number[place[m]]
        BY <1>2, <1>5, <1>6, <3>1, <3>2
      <3>4. /\ number[place[n]] \in Int /\ number[place[m]] \in Int
            /\ sorted[n].layer = number[place[n]] /\ sorted[m].layer = number[place[m]]
        BY <1>2, <1>6, <1>7, <1>8, <3>2
      <3> QED
        BY <3>1, <3>3, <3>4
    <2> QED
      BY <2>1 DEF KeysAscend
  <1>10. \A n \in DOMAIN sorted : \E k \in DOMAIN keys :
            sorted[n].layer = Renamed(keys[k].layer, from, to) /\ sorted[n].asset = keys[k].asset
    BY <1>3, <1>7, <1>8
  <1>11. \A k \in DOMAIN keys : \E n \in DOMAIN sorted :
            sorted[n].layer = Renamed(keys[k].layer, from, to) /\ sorted[n].asset = keys[k].asset
    BY <1>2, <1>3, <1>7, <1>8
  <1>12. Relabels(sorted, keys, from, to)
    BY <1>9, <1>10, <1>11 DEF Relabels
  <1> QED
    BY <1>4, <1>12 DEF new

LEMMA RenamedFrames ==
    ASSUME NEW frames \in Seq(CanvasFrame), FramesInOrder(frames), NEW from, NEW to \in Nat,
           \A i \in DOMAIN frames : \A k \in DOMAIN frames[i].keys : frames[i].keys[k].layer # to
    PROVE  LET new == RenameLayerKeyframes(frames, from, to)
           IN  /\ FramesInOrder(new) /\ DOMAIN new = DOMAIN frames
               /\ \A i \in DOMAIN frames : Relabels(new[i].keys, frames[i].keys, from, to)
               /\ \A layer : layer # from /\ layer # to =>
                        OwnersMatch(frames, layer, new, layer) /\ OwnersMatch(new, layer, frames, layer)
  <1> DEFINE new == RenameLayerKeyframes(frames, from, to)
  <1>1. DOMAIN new = DOMAIN frames
    BY DEF RenameLayerKeyframes
  <1>2. ASSUME NEW i \in DOMAIN frames
        PROVE  new[i].at = frames[i].at /\ Relabels(new[i].keys, frames[i].keys, from, to)
    <2> DEFINE keys == SortedKeys(RelabelledKeys(frames[i].keys, from, to))
    <2>1. new[i] = IF ~OwnsKey(frames[i], from) THEN frames[i] ELSE [frames[i] EXCEPT !.keys = keys]
      BY DEF RenameLayerKeyframes
    <2>2. frames[i] \in CanvasFrame /\ frames[i].keys \in Seq(FrameKeyframe)
          /\ KeysAscend(frames[i].keys)
      BY FrameTypes DEF FramesInOrder
    <2>3. Relabels(keys, frames[i].keys, from, to)
      BY <2>2, RelabelledProperties
    <2> HIDE DEF new, keys
    <2>4. CASE OwnsKey(frames[i], from)
      BY <2>1, <2>2, <2>3, <2>4 DEF CanvasFrame
    <2>5. CASE ~OwnsKey(frames[i], from)
      <3>1. \A k \in DOMAIN frames[i].keys :
                Renamed(frames[i].keys[k].layer, from, to) = frames[i].keys[k].layer
        BY <2>5 DEF OwnsKey, Renamed
      <3> QED
        BY <2>1, <2>2, <2>5, <3>1 DEF Relabels
    <2> QED
      BY <2>4, <2>5
  <1> HIDE DEF new
  <1>3. FramesInOrder(new)
    BY <1>1, <1>2 DEF FramesInOrder, Relabels
  <1>4. ASSUME NEW layer, layer # from, layer # to
        PROVE  OwnersMatch(frames, layer, new, layer) /\ OwnersMatch(new, layer, frames, layer)
    <2>1. \A id : Renamed(id, from, to) = layer <=> id = layer
      BY <1>4 DEF Renamed
    <2>2. ASSUME NEW i \in DOMAIN frames PROVE OwnsKey(frames[i], layer) <=> OwnsKey(new[i], layer)
      BY <1>2, <2>1 DEF Relabels, OwnsKey
    <2> QED
      BY <1>1, <1>2, <2>2 DEF OwnersMatch
  <1> QED
    BY <1>1, <1>2, <1>3, <1>4 DEF new

-----------------------------------------------------------------------------
(* A layer under a new id, and a document without one of its layers          *)

(* What refers to no layer resolves as long as what it refers to is there.   *)
OtherReferences(new, d) ==
    /\ new.assets = d.assets /\ new.audio = d.audio /\ new.tracks = d.tracks
    /\ new.boards = d.boards /\ new.canvases = d.canvases /\ new.cover = d.cover

LEMMA LayersAndFramesResolve ==
    ASSUME NEW d, NEW new, EachResolves(d), OtherReferences(new, d),
           \A i \in DOMAIN new.layers : \E j \in DOMAIN d.layers :
                /\ new.layers[i].keyed = d.layers[j].keyed /\ new.layers[i].asset = d.layers[j].asset
                /\ new.layers[i].appearance = d.layers[j].appearance
                /\ new.layers[i].board = d.layers[j].board,
           \A i \in DOMAIN new.frames : \A k \in DOMAIN new.frames[i].keys :
                /\ Has(new.layers, new.frames[i].keys[k].layer)
                /\ Has(d.assets, new.frames[i].keys[k].asset),
           FramesInOrder(new.frames), IndexMatchesFrames(new)
    PROVE  EachResolves(new)
  <1>1. ASSUME NEW i \in DOMAIN new.layers PROVE LayerResolves(new, new.layers[i])
    <2>1. PICK j \in DOMAIN d.layers :
                /\ new.layers[i].keyed = d.layers[j].keyed /\ new.layers[i].asset = d.layers[j].asset
                /\ new.layers[i].appearance = d.layers[j].appearance
                /\ new.layers[i].board = d.layers[j].board
      OBVIOUS
    <2>2. LayerResolves(d, d.layers[j])
      BY DEF EachResolves
    <2> QED
      BY <2>1, <2>2 DEF LayerResolves, OtherReferences
  <1>2. \A i \in DOMAIN new.frames : \A k \in DOMAIN new.frames[i].keys :
            KeyResolves(new, new.frames[i].keys[k])
    BY DEF KeyResolves, OtherReferences
  <1>3. /\ \A t \in DOMAIN new.tracks : \A c \in DOMAIN new.tracks[t].clips :
                Has(new.audio, new.tracks[t].clips[c].asset)
        /\ \A c \in DOMAIN new.canvases : BoardFoundIn(new, new.canvases[c])
        /\ BoardFoundIn(new, new.cover)
    BY DEF EachResolves, OtherReferences, BoardFoundIn
  <1> QED
    BY <1>1, <1>2, <1>3 DEF EachResolves

LEMMA RenamedLayerResolves ==
    ASSUME NEW d \in CanvasDocument, NEW id \in Nat, NEW to \in Nat, id # to,
           Has(d.layers, id), ~Has(d.layers, to), Distinct(d.layers), EachResolves(d)
    PROVE  EachResolves(Reindexed(WithLayer(d, id, [Layer(d, id) EXCEPT !.id = to]),
                                  RenameLayerKeyframes(d.frames, id, to), to))
  <1> DEFINE p == Item(d.layers, id)
             renamed == [d.layers[p] EXCEPT !.id = to]
             s == [d.layers EXCEPT ![p] = renamed]
             frames == RenameLayerKeyframes(d.frames, id, to)
             held == WithLayer(d, id, renamed)
             new == Reindexed(held, frames, to)
  <1>1. /\ d.layers \in Seq(CanvasLayer) /\ p \in DOMAIN d.layers /\ d.layers[p] = Layer(d, id)
        /\ d.layers[p].id = id /\ d.layers[p] \in CanvasLayer
        /\ d.frames \in Seq(CanvasFrame) /\ FramesInOrder(d.frames)
    BY LayerFound, FieldTypes DEF EachResolves
  <1>2. held.layers = s /\ held = [d EXCEPT !.layers = s]
    BY DEF WithLayer, CanvasDocument
  <1> HIDE DEF held
  <1>3. /\ DOMAIN s = DOMAIN d.layers /\ s[p] = renamed
        /\ \A k \in DOMAIN s : k # p => s[k] = d.layers[k]
    BY <1>1
  <1>4. /\ renamed.id = to /\ renamed.keyed = d.layers[p].keyed /\ renamed.asset = d.layers[p].asset
        /\ renamed.appearance = d.layers[p].appearance /\ renamed.board = d.layers[p].board
        /\ renamed \in CanvasLayer
    <2>1. \A l \in CanvasLayer :
            LET e == [l EXCEPT !.id = to]
            IN  /\ e.id = to /\ e.keyed = l.keyed /\ e.asset = l.asset
                /\ e.appearance = l.appearance /\ e.board = l.board
      BY DEF CanvasLayer
    <2>2. \A l \in CanvasLayer : [l EXCEPT !.id = to] \in CanvasLayer
      BY LayerFieldsChange
    <2> HIDE DEF p
    <2> QED
      BY <1>1, <2>1, <2>2
  <1> HIDE DEF s, renamed
  <1>5. Item(s, to) = p
    <2>1. \A k \in DOMAIN s : s[k].id = to <=> k = p
      BY <1>1, <1>3, <1>4 DEF Has
    <2> QED
      BY <1>1, <1>3, <2>1 DEF Item
  <1> DEFINE index == IF renamed.keyed THEN OwnedFrames(frames, to) ELSE renamed.index
             last == [renamed EXCEPT !.index = index]
             t == [s EXCEPT ![p] = last]
  <1>6. new = [held EXCEPT !.frames = frames, !.layers = t]
    <2>1. Layer(held, to) = renamed
      BY <1>2, <1>3, <1>5 DEF Layer, Found
    <2>2. Item(held.layers, to) = p
      BY <1>2, <1>5
    <2>3. held.layers[p] = renamed
      BY <1>2, <1>3
    <2> QED
      BY <1>2, <2>1, <2>2, <2>3 DEF Reindexed
  <1> HIDE DEF p
  <1>7. /\ DOMAIN t = DOMAIN d.layers /\ t[p] = last
        /\ \A k \in DOMAIN t : k # p => t[k] = d.layers[k]
    BY <1>1, <1>3
  <1>8. /\ last.id = to /\ last.keyed = d.layers[p].keyed /\ last.asset = d.layers[p].asset
        /\ last.appearance = d.layers[p].appearance /\ last.board = d.layers[p].board
        /\ last.keyed => last.index = OwnedFrames(frames, to)
    BY <1>4 DEF CanvasLayer
  <1> HIDE DEF new, t, last, frames
  <1>9. new.layers = t /\ new.frames = frames /\ OtherReferences(new, d)
    BY <1>2, <1>6 DEF OtherReferences, CanvasDocument
  <1>10. \A i \in DOMAIN d.frames : \A k \in DOMAIN d.frames[i].keys :
            /\ Has(d.layers, d.frames[i].keys[k].layer) /\ Has(d.assets, d.frames[i].keys[k].asset)
            /\ d.frames[i].keys[k].layer # to
    BY DEF EachResolves, KeyResolves
  <1>11. /\ FramesInOrder(frames) /\ DOMAIN frames = DOMAIN d.frames
         /\ \A i \in DOMAIN d.frames : Relabels(frames[i].keys, d.frames[i].keys, id, to)
         /\ \A layer : layer # id /\ layer # to =>
                OwnersMatch(d.frames, layer, frames, layer) /\ OwnersMatch(frames, layer, d.frames, layer)
    BY <1>1, <1>10, RenamedFrames DEF frames
  <1>12. frames \in Seq(CanvasFrame)
    BY <1>1, RenameKeyframesType DEF frames
  <1>13. ASSUME NEW other, Has(d.layers, other) PROVE Has(t, Renamed(other, id, to))
    <2>1. CASE other = id
      BY <1>1, <1>7, <1>8, <2>1 DEF Has, Renamed
    <2>2. CASE other # id
      <3>1. PICK k \in DOMAIN d.layers : d.layers[k].id = other
        BY <1>13 DEF Has
      <3>2. k # p
        BY <1>1, <2>2, <3>1
      <3> QED
        BY <1>7, <2>2, <3>1, <3>2 DEF Has, Renamed
    <2> QED
      BY <2>1, <2>2
  <1>14. ASSUME NEW i \in DOMAIN frames, NEW k \in DOMAIN frames[i].keys
         PROVE  Has(t, frames[i].keys[k].layer) /\ Has(d.assets, frames[i].keys[k].asset)
    <2>1. PICK l \in DOMAIN d.frames[i].keys :
                /\ frames[i].keys[k].layer = Renamed(d.frames[i].keys[l].layer, id, to)
                /\ frames[i].keys[k].asset = d.frames[i].keys[l].asset
      BY <1>11 DEF Relabels
    <2> QED
      BY <1>10, <1>11, <1>13, <2>1
  <1>15. ASSUME NEW k \in DOMAIN t, t[k].keyed PROVE t[k].index = OwnedFrames(frames, t[k].id)
    <2>1. CASE k = p
      BY <1>7, <1>8, <1>15, <2>1
    <2>2. CASE k # p
      <3>1. t[k] = d.layers[k] /\ k \in DOMAIN d.layers
        BY <1>7, <2>2
      <3>2. d.layers[k].id # id /\ d.layers[k].id # to
        BY <1>1, <2>2, <3>1 DEF Distinct, Has
      <3>3. d.layers[k].index = OwnedFrames(d.frames, d.layers[k].id)
        BY <1>15, <3>1 DEF EachResolves, IndexMatchesFrames
      <3>4. OwnedFrames(d.frames, d.layers[k].id) = OwnedFrames(frames, d.layers[k].id)
        <4>1. PICK layer : layer = d.layers[k].id
          OBVIOUS
        <4>2. OwnersMatch(d.frames, layer, frames, layer) /\ OwnersMatch(frames, layer, d.frames, layer)
          BY <1>11, <3>2, <4>1
        <4>3. OwnedFrames(d.frames, layer) = OwnedFrames(frames, layer)
          BY <1>1, <1>11, <1>12, <4>2, SameOwners
        <4> QED
          BY <4>1, <4>3
      <3> QED
        BY <3>1, <3>3, <3>4
    <2> QED
      BY <2>1, <2>2
  <1>16. IndexMatchesFrames(new)
    BY <1>9, <1>15 DEF IndexMatchesFrames
  <1>17. \A i \in DOMAIN t : \E j \in DOMAIN d.layers :
                /\ t[i].keyed = d.layers[j].keyed /\ t[i].asset = d.layers[j].asset
                /\ t[i].appearance = d.layers[j].appearance /\ t[i].board = d.layers[j].board
    BY <1>1, <1>7, <1>8
  <1>18. EachResolves(new)
    BY <1>9, <1>11, <1>14, <1>16, <1>17, LayersAndFramesResolve
  <1> QED
    BY <1>1, <1>18 DEF new, held, renamed, frames, p

LEMMA WithoutLayerResolves ==
    ASSUME NEW d \in CanvasDocument, NEW id, Has(d.layers, id), Distinct(d.layers), EachResolves(d),
           NEW new, SameBut(new, d, {"layers", "frames"}),
           new.layers = RemoveAt(d.layers, Item(d.layers, id)),
           new.frames = RemoveLayerKeyframes(d.frames, id)
    PROVE  EachResolves(new)
  <1> DEFINE p == Item(d.layers, id)
             s == RemoveAt(d.layers, p)
             frames == WithoutKeys(d.frames, {id})
  <1>1. /\ d.layers \in Seq(CanvasLayer) /\ p \in DOMAIN d.layers /\ d.layers[p].id = id
        /\ d.frames \in Seq(CanvasFrame) /\ FramesInOrder(d.frames)
    BY LayerFound, FieldTypes DEF EachResolves
  <1>2. new.layers = s /\ new.frames = frames /\ frames \in Seq(CanvasFrame)
    BY <1>1, WithoutKeysType DEF RemoveLayerKeyframes
  <1> HIDE DEF p
  <1>3. /\ \A k \in DOMAIN s : \E j \in DOMAIN d.layers : j # p /\ s[k] = d.layers[j]
        /\ \A j \in DOMAIN d.layers : j # p => \E k \in DOMAIN s : s[k] = d.layers[j]
    BY <1>1, RemovedElements
  <1>4. /\ FramesInOrder(frames)
        /\ \A n \in DOMAIN frames : \E i \in DOMAIN d.frames : KeysLeft(frames[n], d.frames[i], {id})
        /\ \A layer : layer # id =>
                OwnersMatch(d.frames, layer, frames, layer) /\ OwnersMatch(frames, layer, d.frames, layer)
    <2>1. \A layer : layer # id => layer \notin {id}
      OBVIOUS
    <2> QED
      BY <1>1, <2>1, WithoutKeysProperties
  <1> HIDE DEF s, frames
  <1>5. \A other : Has(d.layers, other) /\ other # id => Has(s, other)
    BY <1>1, <1>3 DEF Has
  <1>6. ASSUME NEW n \in DOMAIN frames, NEW k \in DOMAIN frames[n].keys
        PROVE  Has(s, frames[n].keys[k].layer) /\ Has(d.assets, frames[n].keys[k].asset)
    <2>1. PICK i \in DOMAIN d.frames : KeysLeft(frames[n], d.frames[i], {id})
      BY <1>4
    <2>2. PICK l \in DOMAIN d.frames[i].keys :
                frames[n].keys[k] = d.frames[i].keys[l] /\ d.frames[i].keys[l].layer # id
      BY <2>1 DEF KeysLeft
    <2>3. KeyResolves(d, d.frames[i].keys[l])
      BY DEF EachResolves
    <2> QED
      BY <1>5, <2>2, <2>3 DEF KeyResolves
  <1>7. ASSUME NEW k \in DOMAIN s, s[k].keyed PROVE s[k].index = OwnedFrames(frames, s[k].id)
    <2>1. PICK j \in DOMAIN d.layers : j # p /\ s[k] = d.layers[j]
      BY <1>3
    <2>2. d.layers[j].id # id
      BY <1>1, <2>1 DEF Distinct
    <2>3. d.layers[j].index = OwnedFrames(d.frames, d.layers[j].id)
      BY <1>7, <2>1 DEF EachResolves, IndexMatchesFrames
    <2>4. OwnedFrames(d.frames, d.layers[j].id) = OwnedFrames(frames, d.layers[j].id)
      <3>1. PICK layer : layer = d.layers[j].id
        OBVIOUS
      <3>2. OwnersMatch(d.frames, layer, frames, layer) /\ OwnersMatch(frames, layer, d.frames, layer)
        BY <1>4, <2>2, <3>1
      <3>3. OwnedFrames(d.frames, layer) = OwnedFrames(frames, layer)
        BY <1>1, <1>2, <1>4, <3>2, SameOwners
      <3> QED
        BY <3>1, <3>3
    <2> QED
      BY <2>1, <2>3, <2>4
  <1>8. IndexMatchesFrames(new)
    BY <1>2, <1>7 DEF IndexMatchesFrames
  <1>9. OtherReferences(new, d)
    BY SameFields DEF OtherReferences
  <1>10. \A i \in DOMAIN s : \E j \in DOMAIN d.layers :
                /\ s[i].keyed = d.layers[j].keyed /\ s[i].asset = d.layers[j].asset
                /\ s[i].appearance = d.layers[j].appearance /\ s[i].board = d.layers[j].board
    BY <1>3
  <1> QED
    BY <1>2, <1>4, <1>6, <1>8, <1>9, <1>10, LayersAndFramesResolve

-------------------------------------------------------------------------------
(* Layers put in, replaced, renamed, moved and removed                       *)

LEMMA LayersWith ==
    ASSUME NEW d \in CanvasDocument, NEW layer, NEW at \in Nat \union {AppendIndex},
           ~IsOutside(at, d.layers), NEW new \in CanvasLayer
    PROVE  LET held == [RaisedFor(d, layer) EXCEPT !.layers = Inserted(@, at, new)]
           IN  held \in CanvasDocument /\ SameBut(held, d, {"layers", "minor"}) /\ held.frames = d.frames
  <1> DEFINE s == Inserted(d.layers, at, new)
             r == RaisedFor(d, layer)
             held == [r EXCEPT !.layers = Inserted(@, at, new)]
  <1>1. s \in Seq(CanvasLayer)
    BY FieldTypes, InsertedType
  <1>2. r \in CanvasDocument /\ r.layers = d.layers /\ r.frames = d.frames /\ SameBut(r, d, {"minor"})
    <2>1. r.layers = d.layers /\ r.frames = d.frames
      BY DEF RaisedFor, Raised, CanvasDocument
    <2> QED
      BY <2>1, RaisedForType, RaisedSame
  <1> HIDE DEF r
  <1>3. held = [r EXCEPT !.layers = s]
    BY <1>2
  <1> HIDE DEF s, held
  <1>4. held \in CanvasDocument
    BY <1>1, <1>2, <1>3, FieldsChange
  <1>5. SameBut(held, d, {"layers", "minor"})
    BY <1>2, <1>3 DEF SameBut
  <1>6. held.frames = d.frames
    BY <1>2, <1>3
  <1> QED
    BY <1>4, <1>5, <1>6 DEF held, r

LEMMA InsertLayerLeavesNoTrace ==
    ASSUME NEW d \in CanvasDocument, NEW layer \in CanvasLayer, NEW at \in Nat \union {AppendIndex}
    PROVE  NoTrace(d, InsertLayer(d, layer, at))
  <1> DEFINE new == [RaisedFor(d, layer) EXCEPT !.layers = Inserted(@, at, layer)]
             refused == CannotInsert(d, layer, at)
  <1>1. ~refused => new \in CanvasDocument /\ SameBut(new, d, {"layers", "minor"})
    BY LayersWith DEF CannotInsert
  <1>2. InsertLayer(d, layer, at) = Edit(d, refused, FALSE, new, {"layers", "minor"})
    BY DEF InsertLayer
  <1> HIDE DEF new, refused
  <1> QED
    BY <1>1, <1>2, EditNoTrace

LEMMA InsertKeyframedLeavesNoTrace ==
    ASSUME NEW d \in CanvasDocument, NEW layer \in CanvasLayer,
           NEW placements \in Seq(KeyframePlacement), NEW at \in Nat \union {AppendIndex}
    PROVE  NoTrace(d, InsertKeyframedLayer(d, layer, placements, at))
  <1> DEFINE plain == [layer EXCEPT !.index = <<>>]
             held == [RaisedFor(d, layer) EXCEPT !.layers = Inserted(@, at, plain)]
             frames == InsertPlacements(d.frames, layer.id, SortedPlacements(placements))
             new == Reindexed(held, frames, layer.id)
             refused == ~layer.keyed \/ CannotInsert(d, layer, at)
  <1>1. plain \in CanvasLayer
    <2>1. <<>> \in Seq(Nat) /\ 0 \in Nat
      OBVIOUS
    <2> QED
      BY <2>1, SourcesChange
  <1>2. frames \in Seq(CanvasFrame)
    BY FieldTypes, LayerFieldTypes, SortedPlacementsType, InsertPlacementsType
  <1>3. ~refused => held \in CanvasDocument /\ SameBut(held, d, {"layers", "minor"})
    <2> HIDE DEF plain
    <2> QED
      BY <1>1, LayersWith DEF CannotInsert
  <1> HIDE DEF held, frames
  <1>4. ~refused => new \in CanvasDocument /\ SameBut(new, held, {"layers", "frames"})
    BY <1>2, <1>3, ReindexedType
  <1>5. ~refused => new \in CanvasDocument /\ SameBut(new, d, {"layers", "frames", "minor"})
    <2> HIDE DEF new, refused
    <2> QED
      BY <1>3, <1>4, SameButAgain
  <1>6. InsertKeyframedLayer(d, layer, placements, at) =
            Edit(d, refused, FALSE, new, {"layers", "frames", "minor"})
    BY DEF InsertKeyframedLayer, held, frames
  <1> HIDE DEF new, refused
  <1> QED
    BY <1>5, <1>6, EditNoTrace

(* A layer of either kind.                                                   *)
LEMMA InsertEitherLeavesNoTrace ==
    ASSUME NEW d \in CanvasDocument, NEW layer \in CanvasLayer,
           NEW placements \in Seq(KeyframePlacement), NEW at \in Nat \union {AppendIndex}
    PROVE  /\ NoTrace(d, InsertStaticLayer(d, layer, at))
           /\ NoTrace(d, InsertDynamicLayer(d, layer, placements, at))
  <1> DEFINE static == [layer EXCEPT !.keyed = FALSE, !.index = <<>>]
             dynamic == [layer EXCEPT !.keyed = TRUE, !.asset = 0]
  <1>1. static \in CanvasLayer
    <2>1. layer.asset \in Nat /\ <<>> \in Seq(Nat)
      BY LayerFieldTypes
    <2>2. "asset" \in DOMAIN layer
      BY LayerIs DEF LayerOf
    <2>3. static = StaticFrom(layer, layer.asset)
      BY <2>2 DEF StaticFrom
    <2> HIDE DEF static
    <2> QED
      BY <2>1, <2>3, SourcesChange
  <1>2. dynamic \in CanvasLayer
    <2>1. 0 \in Nat /\ <<>> \in Seq(Nat) /\ dynamic = KeyedFrom(layer)
      BY DEF KeyedFrom
    <2> HIDE DEF dynamic
    <2> QED
      BY <2>1, SourcesChange
  <1> HIDE DEF static, dynamic
  <1>3. NoTrace(d, InsertStaticLayer(d, layer, at))
    BY <1>1, InsertLayerLeavesNoTrace, UnchangedNoTrace DEF InsertStaticLayer, static
  <1>4. NoTrace(d, InsertDynamicLayer(d, layer, placements, at))
    BY <1>2, InsertKeyframedLeavesNoTrace, UnchangedNoTrace DEF InsertDynamicLayer, dynamic
  <1> QED
    BY <1>3, <1>4

(* A replaced layer that stays keyframed takes its keyframes along.          *)
LEMMA ReplaceLayerLeavesNoTrace ==
    ASSUME NEW d \in CanvasDocument, NEW id, NEW layer \in CanvasLayer
    PROVE  NoTrace(d, ReplaceLayer(d, id, layer))
  <1> DEFINE frames == IF layer.id = id THEN d.frames
                       ELSE RenameLayerKeyframes(d.frames, id, layer.id)
             raised == RaisedFor(d, layer)
             held == WithLayer(raised, id, layer)
             left == RemoveLayerKeyframes(frames, layer.id)
             static == [held EXCEPT !.frames = RemoveLayerKeyframes(frames, layer.id)]
             keyed == Reindexed(held, frames, layer.id)
             new == IF layer.keyed THEN keyed ELSE static
             refused == \/ ~Has(d.layers, id) \/ layer.id = 0
                        \/ layer.id # id /\ Has(d.layers, layer.id)
  <1>1. frames \in Seq(CanvasFrame)
    BY FieldTypes, LayerFieldTypes, RenameKeyframesType
  <1>2. raised \in CanvasDocument /\ SameBut(raised, d, {"minor"})
    BY RaisedForType, RaisedSame
  <1> HIDE DEF frames, raised
  <1>3. held \in CanvasDocument /\ SameBut(held, raised, {"layers"})
    BY <1>2, WithLayerType
  <1> HIDE DEF held
  <1>4. SameBut(held, d, {"layers", "minor"})
    BY <1>2, <1>3, SameButAgain
  <1>5. keyed \in CanvasDocument /\ SameBut(keyed, held, {"layers", "frames"})
    BY <1>1, <1>3, ReindexedType
  <1>6. left \in Seq(CanvasFrame)
    BY <1>1, WithoutKeysType DEF RemoveLayerKeyframes
  <1>7. static = [held EXCEPT !.frames = left]
    OBVIOUS
  <1> HIDE DEF left, static, keyed
  <1>8. static \in CanvasDocument
    BY <1>3, <1>6, <1>7, FieldsChange
  <1>9. SameBut(static, held, {"frames"})
    BY <1>7 DEF SameBut
  <1>10. new \in CanvasDocument /\ SameBut(new, held, {"layers", "frames"})
    BY <1>5, <1>8, <1>9 DEF SameBut
  <1>11. SameBut(new, d, {"layers", "frames", "minor"})
    <2> HIDE DEF new
    <2> QED
      BY <1>4, <1>10, SameButAgain
  <1>12. ReplaceLayer(d, id, layer) = Edit(d, refused, FALSE, new, {"layers", "frames", "minor"})
    BY DEF ReplaceLayer, held, raised, frames, static, keyed
  <1> HIDE DEF new, refused
  <1> QED
    BY <1>10, <1>11, <1>12, EditNoTrace

(* Under a new id a layer keeps its keyframes, or it keeps its id.           *)
LEMMA RenameLayerLeavesNoTrace ==
    ASSUME NEW d \in CanvasDocument, NEW id \in Nat, NEW to \in Nat
    PROVE  NoTrace(d, RenameLayer(d, id, to))
  <1> DEFINE renamed == [Layer(d, id) EXCEPT !.id = to]
             held == WithLayer(d, id, renamed)
             frames == RenameLayerKeyframes(d.frames, id, to)
             new == Reindexed(held, frames, to)
             refused == ~Has(d.layers, id) \/ (id # to /\ (to = 0 \/ Has(d.layers, to)))
             same == id = to
  <1>1. ~refused => renamed \in CanvasLayer
    BY LayerFound, LayerFieldsChange
  <1>2. ~refused => held \in CanvasDocument
    <2> HIDE DEF renamed, refused
    <2> QED
      BY <1>1, WithLayerType
  <1>3. frames \in Seq(CanvasFrame)
    BY FieldTypes, RenameKeyframesType
  <1>4. ~refused => new \in CanvasDocument
    <2> HIDE DEF held, frames, refused
    <2> QED
      BY <1>2, <1>3, ReindexedType
  <1>5. RenameLayer(d, id, to) = Unchecked(d, refused, same, new)
    BY DEF RenameLayer
  <1>6. Valid(d) /\ ~refused /\ ~same /\ EachResolves(d) => EachResolves(new)
    BY RenamedLayerResolves DEF Valid, ValidLayers
  <1> HIDE DEF new, refused, same
  <1> QED
    BY <1>4, <1>5, <1>6, UncheckedNoTrace

LEMMA MoveLayerLeavesNoTrace ==
    ASSUME NEW d \in CanvasDocument, NEW id, NEW to \in Nat
    PROVE  NoTrace(d, MoveLayer(d, id, to))
  <1> DEFINE from == Item(d.layers, id)
             s == MoveElement(d.layers, from, to)
             new == [d EXCEPT !.layers = MoveElement(@, from, to)]
             refused == ~Has(d.layers, id) \/ to >= Len(d.layers)
             same == from = to + 1
  <1>1. ASSUME ~refused PROVE new \in CanvasDocument
    <2>1. Len(d.layers) \in Nat
      BY FieldTypes, LenProperties
    <2>2. s \in Seq(CanvasLayer)
      BY <1>1, <2>1, FieldTypes, FoundType, MovedType
    <2>3. new = [d EXCEPT !.layers = s]
      OBVIOUS
    <2> HIDE DEF s
    <2> QED
      BY <2>2, <2>3, FieldsChange
  <1>2. MoveLayer(d, id, to) = Unchecked(d, refused, same, new)
    BY DEF MoveLayer
  <1>3. ASSUME ~refused, EachResolves(d) PROVE EachResolves(new)
    <2>1. SameBut(new, d, {"layers"}) /\ new.layers = s
      BY DEF SameBut, CanvasDocument
    <2>2. Len(d.layers) \in Nat /\ d.layers \in Seq(CanvasLayer)
      BY FieldTypes, LenProperties
    <2>3. from \in DOMAIN d.layers /\ to < Len(d.layers)
      BY <1>3, <2>2, FoundType
    <2>4. /\ \A k \in DOMAIN s : \E j \in DOMAIN d.layers : s[k] = d.layers[j]
          /\ \A j \in DOMAIN d.layers : \E k \in DOMAIN s : s[k] = d.layers[j]
      <3> HIDE DEF from
      <3> QED
        BY <2>2, <2>3, MovedElements
    <2> HIDE DEF new, s
    <2>5. KeepsIds(d.layers, s) /\ \A k \in DOMAIN s : \E j \in DOMAIN d.layers : SameLinks(s[k], d.layers[j])
      BY <2>4 DEF KeepsIds, Has, SameLinks
    <2> QED
      BY <1>3, <2>1, <2>5, LayersStay
  <1> HIDE DEF new, refused, same
  <1> QED
    BY <1>1, <1>2, <1>3, UncheckedNoTrace

(* A removed layer takes its keyframes with it, or stays.                    *)
LEMMA RemoveLayerLeavesNoTrace ==
    ASSUME NEW d \in CanvasDocument, NEW id
    PROVE  NoTrace(d, RemoveLayer(d, id))
  <1> DEFINE frames == RemoveLayerKeyframes(d.frames, id)
             s == RemoveAt(d.layers, Item(d.layers, id))
             e == [d EXCEPT !.frames = frames]
             new == [d EXCEPT !.frames = RemoveLayerKeyframes(@, id),
                              !.layers = RemoveAt(@, Item(@, id))]
  <1>1. frames \in Seq(CanvasFrame)
    BY FieldTypes, WithoutKeysType DEF RemoveLayerKeyframes
  <1>2. Has(d.layers, id) => s \in Seq(CanvasLayer)
    BY FieldTypes, FoundType, RemovedType
  <1>3. new = [e EXCEPT !.layers = s]
    OBVIOUS
  <1> HIDE DEF frames, s, new
  <1>4. e \in CanvasDocument
    BY <1>1, FieldsChange
  <1>5. Has(d.layers, id) => new \in CanvasDocument
    <2> HIDE DEF e
    <2> QED
      BY <1>2, <1>3, <1>4, FieldsChange
  <1>6. /\ SameBut(new, d, {"layers", "frames"})
        /\ new.layers = s /\ new.frames = frames
    BY <1>3 DEF SameBut, CanvasDocument
  <1>7. Valid(d) /\ Has(d.layers, id) /\ EachResolves(d) => EachResolves(new)
    BY <1>6, WithoutLayerResolves DEF Valid, ValidLayers, s, frames
  <1> HIDE DEF e
  <1> QED
    BY <1>5, <1>7, UncheckedNoTrace DEF RemoveLayer, new

-------------------------------------------------------------------------------
(* The settings of a layer                                                   *)

(* A layer replaced, in a document of this version or a raised one.          *)
LEMMA RaisedWithLayer ==
    ASSUME NEW d \in CanvasDocument, NEW id, NEW layer \in CanvasLayer
    PROVE  /\ WithLayer(Raised(d), id, layer) \in CanvasDocument
           /\ SameBut(WithLayer(Raised(d), id, layer), d, {"layers", "minor"})
           /\ SameBut(WithLayer(d, id, layer), d, {"layers", "minor"})
  <1>1. Raised(d) \in CanvasDocument /\ SameBut(Raised(d), d, {"minor"})
    BY RaisedType, RaisedSame
  <1> DEFINE r == Raised(d)
             e == WithLayer(r, id, layer)
  <1> HIDE DEF r
  <1>2. e \in CanvasDocument /\ SameBut(e, r, {"layers"})
    BY <1>1, WithLayerType DEF r
  <1> HIDE DEF e
  <1>3. SameBut(e, d, {"layers", "minor"})
    BY <1>1, <1>2, SameButAgain DEF r
  <1>4. SameBut(WithLayer(d, id, layer), d, {"layers", "minor"})
    BY WithLayerType DEF SameBut
  <1> QED
    BY <1>2, <1>3, <1>4 DEF e, r

(* A layer that refers to what it did and is referred to as it was.          *)
LEMMA ChangedLayerResolves ==
    ASSUME NEW d \in CanvasDocument, NEW id, Has(d.layers, id), NEW layer \in CanvasLayer,
           SameLinks(layer, Layer(d, id)), EachResolves(d)
    PROVE  EachResolves(WithLayer(d, id, layer))
  <1> DEFINE i == Item(d.layers, id)
             s == [d.layers EXCEPT ![i] = layer]
             new == WithLayer(d, id, layer)
  <1>1. new.layers = s
    BY DEF WithLayer, CanvasDocument
  <1>2. i \in DOMAIN d.layers /\ Layer(d, id) = d.layers[i]
    BY ItemProperties DEF Layer, Found
  <1> HIDE DEF i
  <1>3. /\ DOMAIN s = DOMAIN d.layers
        /\ \A k \in DOMAIN s : SameLinks(s[k], d.layers[k])
    <2>1. SameLinks(layer, d.layers[i])
      BY <1>2
    <2>2. ASSUME NEW k \in DOMAIN s PROVE SameLinks(s[k], d.layers[k])
      <3>1. CASE k = i
        BY <2>1, <3>1
      <3>2. CASE k # i
        BY <3>2 DEF SameLinks
      <3> QED
        BY <3>1, <3>2
    <2> QED
      BY <2>2
  <1> HIDE DEF s
  <1>4. KeepsIds(d.layers, s)
    BY <1>3 DEF KeepsIds, Has, SameLinks
  <1>5. SameBut(new, d, {"layers"})
    BY WithLayerType
  <1> HIDE DEF new
  <1> QED
    BY <1>1, <1>3, <1>4, <1>5, LayersStay DEF new

LEMMA SetLayerNameLeavesNoTrace ==
    ASSUME NEW d \in CanvasDocument, NEW id, NEW v \in STRING
    PROVE  NoTrace(d, SetLayerName(d, id, v))
  <1> DEFINE changed == [Layer(d, id) EXCEPT !.name = v]
  <1>1. Has(d.layers, id) => changed \in CanvasLayer
    BY LayerFound, LayerFieldsChange
  <1> HIDE DEF changed
  <1>2. Has(d.layers, id) => WithLayer(d, id, changed) \in CanvasDocument
    BY <1>1, WithLayerType
  <1>3. Has(d.layers, id) => SameLinks(changed, Layer(d, id))
    BY LayerFound DEF changed, CanvasLayer, SameLinks
  <1>4. Has(d.layers, id) /\ EachResolves(d) => EachResolves(WithLayer(d, id, changed))
    BY <1>1, <1>3, ChangedLayerResolves
  <1> QED
    BY <1>2, <1>4, UncheckedNoTrace DEF SetLayerName, changed

LEMMA SetLayerVisibleLeavesNoTrace ==
    ASSUME NEW d \in CanvasDocument, NEW id, NEW v \in BOOLEAN
    PROVE  NoTrace(d, SetLayerVisible(d, id, v))
  <1> DEFINE changed == [Layer(d, id) EXCEPT !.visible = v]
  <1>1. Has(d.layers, id) => changed \in CanvasLayer
    BY LayerFound, LayerFieldsChange
  <1> HIDE DEF changed
  <1>2. Has(d.layers, id) => WithLayer(d, id, changed) \in CanvasDocument
    BY <1>1, WithLayerType
  <1>3. Has(d.layers, id) => SameLinks(changed, Layer(d, id))
    BY LayerFound DEF changed, CanvasLayer, SameLinks
  <1>4. Has(d.layers, id) /\ EachResolves(d) => EachResolves(WithLayer(d, id, changed))
    BY <1>1, <1>3, ChangedLayerResolves
  <1> QED
    BY <1>2, <1>4, UncheckedNoTrace DEF SetLayerVisible, changed

LEMMA SetLayerOpacityLeavesNoTrace ==
    ASSUME NEW d \in CanvasDocument, NEW id, NEW v \in Nat
    PROVE  NoTrace(d, SetLayerOpacity(d, id, v))
  <1> DEFINE changed == [Layer(d, id) EXCEPT !.opacity = v]
  <1>1. Has(d.layers, id) => changed \in CanvasLayer
    BY LayerFound, LayerFieldsChange
  <1> HIDE DEF changed
  <1> QED
    BY <1>1, WithLayerType, EditNoTrace DEF SetLayerOpacity, changed

LEMMA SetLayerTransformLeavesNoTrace ==
    ASSUME NEW d \in CanvasDocument, NEW id, NEW v \in Int
    PROVE  NoTrace(d, SetLayerTransform(d, id, v))
  <1> DEFINE changed == [Layer(d, id) EXCEPT !.x = v]
  <1>1. Has(d.layers, id) => changed \in CanvasLayer
    BY LayerFound, LayerFieldsChange
  <1> HIDE DEF changed
  <1> QED
    BY <1>1, WithLayerType, EditNoTrace DEF SetLayerTransform, changed

LEMMA SetLayerBlendModeLeavesNoTrace ==
    ASSUME NEW d \in CanvasDocument, NEW id, NEW v \in Nat
    PROVE  NoTrace(d, SetLayerBlendMode(d, id, v))
  <1> DEFINE changed == [Layer(d, id) EXCEPT !.blend = v]
             new == WithLayer((IF v > 4 THEN Raised(d) ELSE d), id, changed)
             same == Layer(d, id).blend = v
  <1>1. Has(d.layers, id) => changed \in CanvasLayer
    BY LayerFound, LayerFieldsChange
  <1>2. SetLayerBlendMode(d, id, v) = Edit(d, ~Has(d.layers, id), same, new, {"layers", "minor"})
    BY DEF SetLayerBlendMode
  <1> HIDE DEF changed, same
  <1>3. Has(d.layers, id) => new \in CanvasDocument /\ SameBut(new, d, {"layers", "minor"})
    BY <1>1, RaisedWithLayer, WithLayerType
  <1> HIDE DEF new
  <1> QED
    BY <1>2, <1>3, EditNoTrace

LEMMA SetLayerAppearanceLeavesNoTrace ==
    ASSUME NEW d \in CanvasDocument, NEW id, NEW v \in Appearance
    PROVE  NoTrace(d, SetLayerAppearance(d, id, v))
  <1> DEFINE changed == [Layer(d, id) EXCEPT !.appearance = v]
             new == WithLayer(Raised(d), id, changed)
             same == Layer(d, id).appearance = v
  <1>1. Has(d.layers, id) => changed \in CanvasLayer
    BY LayerFound, LayerFieldsChange
  <1>2. SetLayerAppearance(d, id, v) = Edit(d, ~Has(d.layers, id), same, new, {"layers", "minor"})
    BY DEF SetLayerAppearance
  <1> HIDE DEF changed, same
  <1>3. Has(d.layers, id) => new \in CanvasDocument /\ SameBut(new, d, {"layers", "minor"})
    BY <1>1, RaisedWithLayer, WithLayerType
  <1> HIDE DEF new
  <1> QED
    BY <1>2, <1>3, EditNoTrace

LEMMA SetLayerFrameRangeLeavesNoTrace ==
    ASSUME NEW d \in CanvasDocument, NEW id, NEW v \in Seq(Nat)
    PROVE  NoTrace(d, SetLayerFrameRange(d, id, v))
  <1> DEFINE changed == [Layer(d, id) EXCEPT !.range = v]
             new == WithLayer((IF v # <<>> THEN Raised(d) ELSE d), id, changed)
             same == Layer(d, id).range = v
  <1>1. Has(d.layers, id) => changed \in CanvasLayer
    BY LayerFound, LayerFieldsChange
  <1>2. SetLayerFrameRange(d, id, v) = Edit(d, ~Has(d.layers, id), same, new, {"layers", "minor"})
    BY DEF SetLayerFrameRange
  <1> HIDE DEF changed, same
  <1>3. Has(d.layers, id) => new \in CanvasDocument /\ SameBut(new, d, {"layers", "minor"})
    BY <1>1, RaisedWithLayer, WithLayerType
  <1> HIDE DEF new
  <1> QED
    BY <1>2, <1>3, EditNoTrace

LEMMA SetLayerMotionLeavesNoTrace ==
    ASSUME NEW d \in CanvasDocument, NEW id, NEW v \in Seq(Nat)
    PROVE  NoTrace(d, SetLayerMotion(d, id, v))
  <1> DEFINE changed == [Layer(d, id) EXCEPT !.motion = v]
             outcome == IF Layer(d, id).motion = v THEN Outcome(d, "unchanged")
                        ELSE ReplaceLayer(d, id, changed)
             refused == ~Has(d.layers, id)
  <1>1. Has(d.layers, id) => changed \in CanvasLayer
    BY LayerFound, LayerFieldsChange
  <1>2. SetLayerMotion(d, id, v) = Checked(d, refused, outcome)
    BY DEF SetLayerMotion
  <1> HIDE DEF changed
  <1>3. ~refused => NoTrace(d, outcome)
    BY <1>1, ReplaceLayerLeavesNoTrace, UnchangedNoTrace
  <1> HIDE DEF outcome, refused
  <1> QED
    BY <1>2, <1>3, CheckedNoTrace

LEMMA SetVideoPlaybackLeavesNoTrace ==
    ASSUME NEW d \in CanvasDocument, NEW id, NEW v \in Seq(Nat)
    PROVE  NoTrace(d, SetVideoPlayback(d, id, v))
  <1> DEFINE changed == [Layer(d, id) EXCEPT !.playback = v]
             outcome == IF Layer(d, id).playback = v THEN Outcome(d, "unchanged")
                        ELSE ReplaceLayer(d, id, changed)
             refused == ~Has(d.layers, id) \/ Layer(d, id).kind # "Video"
  <1>1. ~refused => changed \in CanvasLayer
    BY LayerFound, SettingsChange
  <1>2. SetVideoPlayback(d, id, v) = Checked(d, refused, outcome)
    BY DEF SetVideoPlayback
  <1> HIDE DEF changed
  <1>3. ~refused => NoTrace(d, outcome)
    BY <1>1, ReplaceLayerLeavesNoTrace, UnchangedNoTrace
  <1> HIDE DEF outcome, refused
  <1> QED
    BY <1>2, <1>3, CheckedNoTrace

-----------------------------------------------------------------------------
(* Sources and keyframes                                                     *)

LEMMA SetStaticSourceLeavesNoTrace ==
    ASSUME NEW d \in CanvasDocument, NEW id, NEW asset \in Nat
    PROVE  NoTrace(d, SetStaticSource(d, id, asset))
  <1> DEFINE layer == Layer(d, id)
             changed == [layer EXCEPT !.keyed = FALSE, !.asset = asset, !.index = <<>>]
             held == WithLayer(d, id, changed)
             frames == RemoveLayerKeyframes(d.frames, id)
             new == [held EXCEPT !.frames = RemoveLayerKeyframes(@, id)]
             same == ~Layer(d, id).keyed /\ Layer(d, id).asset = asset
  <1>1. Has(d.layers, id) => changed \in CanvasLayer
    <2> SUFFICES ASSUME Has(d.layers, id) PROVE changed \in CanvasLayer
      OBVIOUS
    <2>1. layer \in CanvasLayer /\ <<>> \in Seq(Nat)
      BY LayerFound
    <2>2. changed = StaticFrom(layer, asset)
      BY DEF StaticFrom
    <2> HIDE DEF layer, changed
    <2> QED
      BY <2>1, <2>2, SourcesChange
  <1>2. frames \in Seq(CanvasFrame)
    BY FieldTypes, WithoutKeysType DEF RemoveLayerKeyframes
  <1>3. SetStaticSource(d, id, asset) = Edit(d, ~Has(d.layers, id), same, new, {"layers", "frames"})
    BY DEF SetStaticSource
  <1>4. held.frames = d.frames
    BY DEF WithLayer, CanvasDocument
  <1> HIDE DEF changed, same
  <1>5. Has(d.layers, id) => held \in CanvasDocument /\ SameBut(held, d, {"layers"})
    BY <1>1, WithLayerType
  <1> HIDE DEF held
  <1>6. new = [held EXCEPT !.frames = frames]
    BY <1>4
  <1> HIDE DEF frames, new
  <1>7. Has(d.layers, id) => new \in CanvasDocument
    BY <1>2, <1>5, <1>6, FieldsChange
  <1>8. Has(d.layers, id) => SameBut(new, d, {"layers", "frames"})
    BY <1>5, <1>6 DEF SameBut
  <1> QED
    BY <1>3, <1>7, <1>8, EditNoTrace

LEMMA SetKeyframedSourceLeavesNoTrace ==
    ASSUME NEW d \in CanvasDocument, NEW id \in Nat, NEW placements \in Seq(KeyframePlacement)
    PROVE  NoTrace(d, SetKeyframedSource(d, id, placements))
  <1> DEFINE layer == Layer(d, id)
             sorted == SortedPlacements(placements)
             changed == [layer EXCEPT !.keyed = TRUE, !.asset = 0]
             held == WithLayer(d, id, changed)
             left == RemoveLayerKeyframes(d.frames, id)
             frames == InsertPlacements(left, id, sorted)
             new == Reindexed(held, frames, id)
             same == Layer(d, id).keyed /\ KeyframePlacements(d, id) = sorted
  <1>1. Has(d.layers, id) => changed \in CanvasLayer
    <2> SUFFICES ASSUME Has(d.layers, id) PROVE changed \in CanvasLayer
      OBVIOUS
    <2>1. layer \in CanvasLayer /\ 0 \in Nat /\ <<>> \in Seq(Nat)
      BY LayerFound
    <2>2. changed = KeyedFrom(layer)
      BY DEF KeyedFrom
    <2> HIDE DEF layer, changed
    <2> QED
      BY <2>1, <2>2, SourcesChange
  <1>2. left \in Seq(CanvasFrame)
    BY FieldTypes, WithoutKeysType DEF RemoveLayerKeyframes
  <1>3. sorted \in Seq(KeyframePlacement)
    BY SortedPlacementsType
  <1>4. SetKeyframedSource(d, id, placements) =
            Edit(d, ~Has(d.layers, id), same, new, {"layers", "frames"})
    BY DEF SetKeyframedSource
  <1> HIDE DEF changed, same, left, sorted
  <1>5. frames \in Seq(CanvasFrame)
    BY <1>2, <1>3, InsertPlacementsType
  <1>6. Has(d.layers, id) => held \in CanvasDocument /\ SameBut(held, d, {"layers"})
    BY <1>1, WithLayerType
  <1> HIDE DEF held, frames
  <1>7. Has(d.layers, id) => new \in CanvasDocument /\ SameBut(new, held, {"layers", "frames"})
    BY <1>5, <1>6, ReindexedType
  <1> HIDE DEF new
  <1>8. Has(d.layers, id) => SameBut(new, d, {"layers", "frames"})
    BY <1>6, <1>7, SameButAgain
  <1> QED
    BY <1>4, <1>7, <1>8, EditNoTrace

LEMMA WithKeyAssetType ==
    ASSUME NEW frames \in Seq(CanvasFrame), NEW id, NEW f, NEW asset \in Nat
    PROVE  WithKeyAsset(frames, id, f, asset) \in Seq(CanvasFrame)
  <1> DEFINE at == FrameOf(frames, f)
             k == KeyOf(frames[at], id)
             old == frames[at].keys
             key == [old[k] EXCEPT !.asset = asset]
             keys == [old EXCEPT ![k] = key]
  <1>1. at \in DOMAIN frames => keys \in Seq(FrameKeyframe)
    <2> SUFFICES ASSUME at \in DOMAIN frames PROVE keys \in Seq(FrameKeyframe)
      OBVIOUS
    <2>1. old \in Seq(FrameKeyframe) /\ \A j \in DOMAIN old : old[j] \in FrameKeyframe
      <3> HIDE DEF at
      <3> QED
        BY FrameTypes
    <2> HIDE DEF old, k
    <2>2. k \in DOMAIN old => key \in FrameKeyframe
      BY <2>1, KeyChanges
    <2> HIDE DEF key
    <2> QED
      BY <2>1, <2>2, ChangedType
  <1>2. WithKeyAsset(frames, id, f, asset) = [frames EXCEPT ![at].keys = keys]
    BY DEF WithKeyAsset
  <1> HIDE DEF keys, at, key, old, k
  <1>3. [frames EXCEPT ![at].keys = keys] \in Seq(CanvasFrame)
    BY <1>1, KeysChange
  <1> QED
    BY <1>2, <1>3

LEMMA NewFramesLeaveNoTrace ==
    ASSUME NEW d \in CanvasDocument, NEW id, NEW frames, NEW refused, NEW same,
           Valid(d) /\ ~refused => frames \in Seq(CanvasFrame)
    PROVE  NoTrace(d, Edit(d, refused, same, Reindexed(d, frames, id), {"layers", "frames"}))
  BY ReindexedType, EditNoTrace

LEMMA InsertKeyframeLeavesNoTrace ==
    ASSUME NEW d \in CanvasDocument, NEW id \in Nat, NEW f \in Nat, NEW asset \in Nat
    PROVE  NoTrace(d, InsertKeyframe(d, id, f, asset))
  <1> DEFINE frames == InsertFrameKeyframe(d.frames, f, [layer |-> id, asset |-> asset])
  <1>1. frames \in Seq(CanvasFrame)
    BY FieldTypes, NewKeyType, InsertFrameType
  <1> HIDE DEF frames
  <1> QED
    BY <1>1, NewFramesLeaveNoTrace DEF InsertKeyframe, frames

LEMMA SetKeyframeAssetLeavesNoTrace ==
    ASSUME NEW d \in CanvasDocument, NEW id, NEW f, NEW asset \in Nat
    PROVE  NoTrace(d, SetKeyframeAsset(d, id, f, asset))
  <1> DEFINE frames == WithKeyAsset(d.frames, id, f, asset)
             new == [d EXCEPT !.frames = WithKeyAsset(@, id, f, asset)]
  <1>1. frames \in Seq(CanvasFrame)
    BY FieldTypes, WithKeyAssetType
  <1>2. new = [d EXCEPT !.frames = frames]
    OBVIOUS
  <1> HIDE DEF frames, new
  <1>3. new \in CanvasDocument
    BY <1>1, <1>2, FieldsChange
  <1>4. SameBut(new, d, {"frames"})
    BY <1>2 DEF SameBut
  <1> QED
    BY <1>3, <1>4, EditNoTrace DEF SetKeyframeAsset, new

(* An asset of its own for a keyframe: both are there after, or neither.     *)
LEMMA SetContentLeavesNoTrace ==
    ASSUME NEW d \in CanvasDocument, NEW id \in Nat, NEW f \in Nat, NEW content \in VisualAsset
    PROVE  NoTrace(d, SetDynamicFrameContent(d, id, f, content))
  <1> DEFINE frames == IF HasKey(d, id, f) THEN WithKeyAsset(d.frames, id, f, content.id)
                       ELSE InsertFrameKeyframe(d.frames, f, [layer |-> id, asset |-> content.id])
             assets0 == Append(d.assets, content)
             e == [d EXCEPT !.assets = Append(@, content)]
             new == Reindexed(e, frames, id)
             refused == \/ ~IsKeyframed(d, id)
                        \/ LayerContent(Layer(d, id)) # AssetContent(content)
                        \/ f >= d.frameCount
                        \/ content.id = 0 \/ Has(d.assets, content.id)
  <1>1. content.id \in Nat
    BY DEF VisualAsset
  <1>2. frames \in Seq(CanvasFrame)
    BY <1>1, FieldTypes, NewKeyType, InsertFrameType, WithKeyAssetType
  <1>3. assets0 \in Seq(VisualAsset)
    BY FieldTypes
  <1>4. SetDynamicFrameContent(d, id, f, content) =
            Edit(d, refused, FALSE, new, {"assets", "layers", "frames"})
    BY DEF SetDynamicFrameContent
  <1>5. e = [d EXCEPT !.assets = assets0]
    OBVIOUS
  <1> HIDE DEF assets0, frames, e
  <1>6. e \in CanvasDocument /\ SameBut(e, d, {"assets"})
    BY <1>3, <1>5, FieldsChange DEF SameBut
  <1>7. new \in CanvasDocument /\ SameBut(new, e, {"layers", "frames"})
    BY <1>2, <1>6, ReindexedType
  <1> HIDE DEF new
  <1>8. SameBut(new, d, {"assets", "layers", "frames"})
    BY <1>6, <1>7, SameButAgain
  <1> HIDE DEF refused
  <1> QED
    BY <1>4, <1>7, <1>8, EditNoTrace

(* A keyframe taken out and put in at another frame, or left.                *)
LEMMA MoveKeyframeLeavesNoTrace ==
    ASSUME NEW d \in CanvasDocument, NEW id \in Nat, NEW f \in Nat, NEW to \in Nat
    PROVE  NoTrace(d, MoveKeyframe(d, id, f, to))
  <1> DEFINE erased == EraseFrameKeyframe(d.frames, f, id)
             key == [layer |-> id, asset |-> KeyAsset(d, id, f)]
             frames == InsertFrameKeyframe(erased, to, key)
             refused == ~IsKeyframed(d, id) \/ ~HasKey(d, id, f) \/ (f # to /\ HasKey(d, id, to))
             same == f = to
  <1>1. ~refused => erased \in Seq(CanvasFrame) /\ key \in FrameKeyframe
    <2> SUFFICES ASSUME ~refused PROVE erased \in Seq(CanvasFrame) /\ key \in FrameKeyframe
      OBVIOUS
    <2>1. HasKey(d, id, f) /\ HasFrame(d.frames, f)
      BY DEF HasKey
    <2> QED
      BY <2>1, FieldTypes, EraseFrameType, KeyAssetType, NewKeyType
  <1> HIDE DEF erased, key
  <1>2. ~refused => frames \in Seq(CanvasFrame)
    BY <1>1, InsertFrameType
  <1>3. MoveKeyframe(d, id, f, to) =
            Edit(d, refused, same, Reindexed(d, frames, id), {"layers", "frames"})
    BY DEF MoveKeyframe, erased, key
  <1> HIDE DEF frames, refused, same
  <1> QED
    BY <1>2, <1>3, NewFramesLeaveNoTrace

LEMMA RemoveKeyframeLeavesNoTrace ==
    ASSUME NEW d \in CanvasDocument, NEW id, NEW f
    PROVE  NoTrace(d, RemoveKeyframe(d, id, f))
  <1> DEFINE frames == EraseFrameKeyframe(d.frames, f, id)
             refused == ~IsKeyframed(d, id) \/ ~HasKey(d, id, f)
  <1>1. ~refused => frames \in Seq(CanvasFrame)
    BY FieldTypes, EraseFrameType DEF HasKey
  <1>2. RemoveKeyframe(d, id, f) =
            Edit(d, refused, FALSE, Reindexed(d, frames, id), {"layers", "frames"})
    BY DEF RemoveKeyframe
  <1> HIDE DEF frames, refused
  <1> QED
    BY <1>1, <1>2, NewFramesLeaveNoTrace

-------------------------------------------------------------------------------
(* ControlNet data                                                           *)

(* The kinds ControlNet data comes in.                                       *)
LEMMA ControlKinds ==
    /\ ControlKind = {"Mlsd", "Canny", "Scribble", "LineArt", "NormalMap", "Shuffle", "Tile",
                      "Reference", "IpAdapter", "Depth", "Pose"}
    /\ ControlKind \subseteq AssetKind
    /\ ControlKind \union {"SemanticSegment"} \subseteq LayerKind
  BY DEF ControlKind, ControlFormat, AssetKind, LayerKind

LEMMA ControlAssetLeavesNoTrace ==
    ASSUME NEW d \in CanvasDocument, NEW kind \in ControlKind, NEW id \in Nat,
           NEW parts \in Seq(STRING), NEW at \in Nat \union {AppendIndex}
    PROVE  /\ NoTrace(d, InsertControlAsset(d, kind, id, parts, at))
           /\ NoTrace(d, ReplaceControlAsset(d, kind, id, parts))
  <1>1. Visual(id, kind, parts) \in VisualAsset
    BY ControlKinds, VisualType
  <1> QED
    BY <1>1, InsertedAssetLeavesNoTrace, ReplacedAssetLeavesNoTrace
       DEF InsertControlAsset, ReplaceControlAsset

LEMMA SetPartLeavesNoTrace ==
    ASSUME NEW d \in CanvasDocument, NEW kind \in ControlKind, NEW id \in Nat,
           NEW index \in Nat, NEW refused, NEW value \in STRING
    PROVE  NoTrace(d, SetPart(d, kind, id, index, refused, value))
  <1> DEFINE parts == Found(d.assets, id).parts
             changed == ReplaceAt(parts, index + 1, value)
             outcome == ReplaceControlAsset(d, kind, id, changed)
             no == ~HasPart(d, id, kind, index) \/ refused
  <1>1. HasPart(d, id, kind, index) => changed \in Seq(STRING)
    <2> SUFFICES ASSUME HasPart(d, id, kind, index) PROVE changed \in Seq(STRING)
      OBVIOUS
    <2>1. Found(d.assets, id) \in VisualAsset
      BY FieldTypes, FoundType DEF HasPart, HasKind
    <2>2. parts \in Seq(STRING)
      BY <2>1 DEF VisualAsset
    <2> HIDE DEF parts
    <2> QED
      BY <2>2, ChangedType DEF ReplaceAt
  <1> HIDE DEF changed
  <1>2. HasPart(d, id, kind, index) => NoTrace(d, outcome)
    <2>1. 0 \in Nat \union {AppendIndex}
      OBVIOUS
    <2> QED
      BY <1>1, <2>1, ControlAssetLeavesNoTrace
  <1>3. SetPart(d, kind, id, index, refused, value) = Checked(d, no, outcome)
    BY DEF SetPart, changed
  <1>4. ~no => NoTrace(d, outcome)
    BY <1>2
  <1> HIDE DEF no, outcome
  <1> QED
    BY <1>3, <1>4, CheckedNoTrace

(* The calls are named after the kind they are for.                          *)
LEMMA AssetCallsOf ==
    ASSUME NEW kind \in ControlKind, NEW d, NEW id, NEW parts, NEW at
    PROVE  /\ InsertAssetOf(kind, d, id, parts, at) = InsertControlAsset(d, kind, id, parts, at)
           /\ ReplaceAssetOf(kind, d, id, parts) = ReplaceControlAsset(d, kind, id, parts)
  <1>1. CASE kind = "Mlsd"
    BY <1>1 DEF InsertAssetOf, ReplaceAssetOf, InsertMlsdAsset, ReplaceMlsdAsset
  <1>2. CASE kind = "Canny"
    BY <1>2 DEF InsertAssetOf, ReplaceAssetOf, InsertCannyAsset, ReplaceCannyAsset
  <1>3. CASE kind = "Scribble"
    BY <1>3 DEF InsertAssetOf, ReplaceAssetOf, InsertScribbleAsset, ReplaceScribbleAsset
  <1>4. CASE kind = "LineArt"
    BY <1>4 DEF InsertAssetOf, ReplaceAssetOf, InsertLineArtAsset, ReplaceLineArtAsset
  <1>5. CASE kind = "NormalMap"
    BY <1>5 DEF InsertAssetOf, ReplaceAssetOf, InsertNormalMapAsset, ReplaceNormalMapAsset
  <1>6. CASE kind = "Shuffle"
    BY <1>6 DEF InsertAssetOf, ReplaceAssetOf, InsertShuffleAsset, ReplaceShuffleAsset
  <1>7. CASE kind = "Tile"
    BY <1>7 DEF InsertAssetOf, ReplaceAssetOf, InsertTileAsset, ReplaceTileAsset
  <1>8. CASE kind = "Reference"
    BY <1>8 DEF InsertAssetOf, ReplaceAssetOf, InsertReferenceAsset, ReplaceReferenceAsset
  <1>9. CASE kind = "IpAdapter"
    BY <1>9 DEF InsertAssetOf, ReplaceAssetOf, InsertIpAdapterAsset, ReplaceIpAdapterAsset
  <1>10. CASE kind = "Depth"
    BY <1>10 DEF InsertAssetOf, ReplaceAssetOf, InsertDepthAsset, ReplaceDepthAsset
  <1>11. CASE kind = "Pose"
    BY <1>11 DEF InsertAssetOf, ReplaceAssetOf, InsertPoseAsset, ReplacePoseAsset
  <1> QED
    BY <1>1, <1>2, <1>3, <1>4, <1>5, <1>6, <1>7, <1>8, <1>9, <1>10, <1>11, ControlKinds

LEMMA PartCallsOf ==
    ASSUME NEW kind \in ControlKind, NEW d, NEW id, NEW index, NEW value
    PROVE  \E refused : SetPartOf(kind, d, id, index, value) = SetPart(d, kind, id, index, refused, value)
  <1>1. CASE kind = "Mlsd"
    BY <1>1 DEF SetPartOf, SetMlsdSegment
  <1>2. CASE kind = "Canny"
    BY <1>2 DEF SetPartOf, SetCannySample
  <1>3. CASE kind = "Scribble"
    BY <1>3 DEF SetPartOf, SetScribbleSample
  <1>4. CASE kind = "LineArt"
    BY <1>4 DEF SetPartOf, SetLineArtSample
  <1>5. CASE kind = "NormalMap"
    BY <1>5 DEF SetPartOf, SetNormalMapSample
  <1>6. CASE kind = "Shuffle"
    BY <1>6 DEF SetPartOf, SetShuffleSample
  <1>7. CASE kind = "Tile"
    BY <1>7 DEF SetPartOf, SetTileSample
  <1>8. CASE kind = "Reference"
    BY <1>8 DEF SetPartOf, SetReferenceSample
  <1>10. CASE kind = "Depth"
    BY <1>10 DEF SetPartOf, SetDepthSample
  <1>9. CASE kind = "IpAdapter"
    BY <1>9 DEF SetPartOf, SetIpAdapterValue
  <1>11. CASE kind = "Pose"
    <2>1. CASE value \in Anchors
      <3>1. SetPartOf(kind, d, id, index, value) = SetPoseAnchor(d, id, index, value)
        BY <1>11, <2>1 DEF SetPartOf
      <3> QED
        BY <1>11, <3>1 DEF SetPoseAnchor
    <2>2. CASE value \notin Anchors
      <3>1. SetPartOf(kind, d, id, index, value) = SetPoseExpressionWeight(d, id, index, value)
        BY <1>11, <2>2 DEF SetPartOf
      <3> QED
        BY <1>11, <3>1 DEF SetPoseExpressionWeight
    <2> QED
      BY <2>1, <2>2
  <1> QED
    BY <1>1, <1>2, <1>3, <1>4, <1>5, <1>6, <1>7, <1>8, <1>9, <1>10, <1>11, ControlKinds

LEMMA LayerCallsOf ==
    ASSUME NEW kind \in ControlKind \union {"SemanticSegment"}, NEW d, NEW layer, NEW placements, NEW at
    PROVE  InsertLayerOf(kind, d, layer, placements, at) = InsertControlLayer(d, kind, layer, placements, at)
  <1>1. CASE kind = "Mlsd"
    BY <1>1 DEF InsertLayerOf, InsertMlsdLayer
  <1>2. CASE kind = "Canny"
    BY <1>2 DEF InsertLayerOf, InsertCannyLayer
  <1>3. CASE kind = "Scribble"
    BY <1>3 DEF InsertLayerOf, InsertScribbleLayer
  <1>4. CASE kind = "LineArt"
    BY <1>4 DEF InsertLayerOf, InsertLineArtLayer
  <1>5. CASE kind = "NormalMap"
    BY <1>5 DEF InsertLayerOf, InsertNormalMapLayer
  <1>6. CASE kind = "Shuffle"
    BY <1>6 DEF InsertLayerOf, InsertShuffleLayer
  <1>7. CASE kind = "Tile"
    BY <1>7 DEF InsertLayerOf, InsertTileLayer
  <1>8. CASE kind = "Reference"
    BY <1>8 DEF InsertLayerOf, InsertReferenceLayer
  <1>9. CASE kind = "IpAdapter"
    BY <1>9 DEF InsertLayerOf, InsertIpAdapterLayer
  <1>10. CASE kind = "Depth"
    BY <1>10 DEF InsertLayerOf, InsertDepthLayer
  <1>11. CASE kind = "Pose"
    BY <1>11 DEF InsertLayerOf, InsertPoseLayer
  <1>12. CASE kind = "SemanticSegment"
    BY <1>12 DEF InsertLayerOf, InsertSemanticSegmentLayer
  <1> QED
    BY <1>1, <1>2, <1>3, <1>4, <1>5, <1>6, <1>7, <1>8, <1>9, <1>10, <1>11, <1>12, ControlKinds

LEMMA ControlLayerLeavesNoTrace ==
    ASSUME TextsAreStrings, NEW d \in CanvasDocument, NEW kind \in LayerKind, HasRole(kind),
           NEW layer \in CanvasLayer,
           NEW placements \in Seq(KeyframePlacement), NEW at \in Nat \union {AppendIndex}
    PROVE  NoTrace(d, InsertControlLayer(d, kind, layer, placements, at))
  <1> DEFINE typed == OfType(kind, layer)
  <1>1. typed \in CanvasLayer
    BY OfTypeType
  <1> HIDE DEF typed
  <1>2. NoTrace(d, InsertKeyframedLayer(d, typed, placements, at))
    BY <1>1, InsertKeyframedLeavesNoTrace
  <1>3. NoTrace(d, InsertLayer(d, typed, at))
    BY <1>1, InsertLayerLeavesNoTrace
  <1>4. NoTrace(d, Outcome(d, "rejected"))
    BY UnchangedNoTrace
  <1> QED
    BY <1>2, <1>3, <1>4 DEF InsertControlLayer, typed

LEMMA SetSetupLeavesNoTrace ==
    ASSUME NEW d \in CanvasDocument, NEW kind, HasSetup(kind), NEW id, NEW setup \in STRING
    PROVE  NoTrace(d, SetSetup(d, kind, id, setup))
  <1> DEFINE changed == [Layer(d, id) EXCEPT !.setup = setup]
             outcome == IF Layer(d, id).setup = setup THEN Outcome(d, "unchanged")
                        ELSE ReplaceLayer(d, id, changed)
             refused == ~IsKind(d, id, kind)
  <1>1. ~refused => changed \in CanvasLayer
    BY LayerFound, SettingsChange DEF IsKind
  <1>2. SetSetup(d, kind, id, setup) = Checked(d, refused, outcome)
    BY DEF SetSetup
  <1> HIDE DEF changed, refused
  <1>3. ~refused => NoTrace(d, outcome)
    BY <1>1, ReplaceLayerLeavesNoTrace, UnchangedNoTrace
  <1> HIDE DEF outcome
  <1> QED
    BY <1>2, <1>3, CheckedNoTrace

LEMMA SettingsLeaveNoTrace ==
    ASSUME NEW d \in CanvasDocument, NEW id, NEW settings, IsControl(d, id) => settings \in ControlSettings
    PROVE  NoTrace(d, SetControlNetSettings(d, id, settings))
  <1> DEFINE changed == [Layer(d, id) EXCEPT !.control = settings]
             outcome == IF Layer(d, id).control = settings THEN Outcome(d, "unchanged")
                        ELSE ReplaceLayer(d, id, changed)
             refused == ~IsControl(d, id)
  <1>1. ~refused => changed \in CanvasLayer
    BY LayerFound, SettingsChange DEF IsControl
  <1>2. SetControlNetSettings(d, id, settings) = Checked(d, refused, outcome)
    BY DEF SetControlNetSettings
  <1> HIDE DEF changed, refused
  <1>3. ~refused => NoTrace(d, outcome)
    BY <1>1, ReplaceLayerLeavesNoTrace, UnchangedNoTrace
  <1> HIDE DEF outcome
  <1> QED
    BY <1>2, <1>3, CheckedNoTrace

LEMMA PatchLeavesNoTrace ==
    ASSUME NEW d \in CanvasDocument, NEW id, NEW patch,
           "model" \in DOMAIN patch => patch.model \in STRING,
           "scale" \in DOMAIN patch => patch.scale \in Nat
    PROVE  NoTrace(d, PatchControlNetSettings(d, id, patch))
  <1> DEFINE control == Layer(d, id).control
             settings == [f \in DOMAIN control |-> IF f \in DOMAIN patch THEN patch[f] ELSE control[f]]
             outcome == SetControlNetSettings(d, id, settings)
             refused == ~IsControl(d, id)
  <1>1. IsControl(d, id) => settings \in ControlSettings
    <2> SUFFICES ASSUME IsControl(d, id) PROVE settings \in ControlSettings
      OBVIOUS
    <2>1. control \in ControlSettings
      BY LayerFound, LayerFieldTypes DEF IsControl
    <2> HIDE DEF control
    <2> QED
      BY <2>1 DEF ControlSettings
  <1>2. PatchControlNetSettings(d, id, patch) = Checked(d, refused, outcome)
    BY DEF PatchControlNetSettings
  <1> HIDE DEF settings
  <1>3. NoTrace(d, outcome)
    BY <1>1, SettingsLeaveNoTrace
  <1> HIDE DEF outcome, refused
  <1> QED
    BY <1>2, <1>3, CheckedNoTrace

(* Assets replaced by others of the same ids.                                *)
LEMMA WithAssetsType ==
    ASSUME NEW d \in CanvasDocument, NEW given \in Seq(VisualAsset)
    PROVE  WithAssets(d, given) \in CanvasDocument /\ SameBut(WithAssets(d, given), d, {"assets"})
  <1> DEFINE s == [i \in DOMAIN d.assets |->
                    IF Has(given, d.assets[i].id) THEN Found(given, d.assets[i].id) ELSE d.assets[i]]
  <1>1. \A i \in DOMAIN d.assets : s[i] \in VisualAsset
    <2> TAKE i \in DOMAIN d.assets
    <2>1. d.assets[i] \in VisualAsset
      BY FieldTypes, LenProperties, ElementOfSeq
    <2>2. Has(given, d.assets[i].id) => Found(given, d.assets[i].id) \in VisualAsset
      BY FoundType
    <2> QED
      BY <2>1, <2>2
  <1>2. s = [i \in DOMAIN d.assets |-> s[i]]
    OBVIOUS
  <1>3. WithAssets(d, given) = [d EXCEPT !.assets = s]
    BY DEF WithAssets
  <1> HIDE DEF s
  <1>4. s \in Seq(VisualAsset)
    BY <1>1, <1>2, FieldTypes, MappedType
  <1> QED
    BY <1>3, <1>4, FieldsChange DEF SameBut

(* A layer replaced together with its assets, or nothing.                    *)
LEMMA ParametersLeaveNoTrace ==
    ASSUME NEW d \in CanvasDocument, NEW id, NEW layer \in CanvasLayer, NEW given \in Seq(VisualAsset)
    PROVE  NoTrace(d, SetControlNetParameters(d, id, layer, given))
  <1> DEFINE prior == Layer(d, id)
             required == SourceAssets(d, prior)
             e == WithAssets(d, given)
             new == WithLayer(e, id, layer)
             refused ==
                \/ ~IsControl(d, id) \/ layer.kind # prior.kind \/ layer.id # id
                \/ <<layer.keyed, layer.asset, layer.index>> # <<prior.keyed, prior.asset, prior.index>>
                \/ Len(given) # Cardinality(required)
                \/ {given[i].id : i \in DOMAIN given} # required
                \/ \E i \in DOMAIN given : ~HasKind(d, given[i].id, given[i].kind)
  <1>1. e \in CanvasDocument /\ SameBut(e, d, {"assets"})
    BY WithAssetsType
  <1>2. SetControlNetParameters(d, id, layer, given) =
            Edit(d, refused, FALSE, new, {"layers", "assets"})
    BY DEF SetControlNetParameters
  <1> HIDE DEF e, refused
  <1>3. new \in CanvasDocument /\ SameBut(new, e, {"layers"})
    BY <1>1, WithLayerType
  <1> HIDE DEF new
  <1>4. SameBut(new, d, {"layers", "assets"})
    BY <1>1, <1>3, SameButAgain
  <1> QED
    BY <1>2, <1>3, <1>4, EditNoTrace

-----------------------------------------------------------------------------
(* Artboards                                                                 *)

(* What was appended is cut off again.                                       *)
LEMMA CutBack ==
    ASSUME NEW S, NEW s \in Seq(S), NEW t \in Seq(S)
    PROVE  /\ s \o t \in Seq(S)
           /\ SubSeq(s \o t, 1, Len(s)) = s /\ SubSeq(s, 1, Len(s)) = s
  <1>1. Len(s) \in Nat /\ Len(t) \in Nat /\ 1 \in Int /\ Len(s) \in Int
    BY LenProperties
  <1>2. /\ s \o t \in Seq(S) /\ Len(s \o t) = Len(s) + Len(t)
        /\ \A j \in 1 .. Len(s) + Len(t) : (s \o t)[j] = IF j <= Len(s) THEN s[j] ELSE t[j - Len(s)]
    BY ConcatProperties
  <1> DEFINE u == s \o t
  <1>3. /\ u \in Seq(S) /\ Len(s) <= Len(u) /\ Len(u) \in Nat
        /\ \A j \in 1 .. Len(s) : u[j] = s[j]
    BY <1>1, <1>2
  <1> HIDE DEF u
  <1>4. ASSUME NEW r \in Seq(S), Len(s) <= Len(r), \A j \in 1 .. Len(s) : r[j] = s[j]
        PROVE  SubSeq(r, 1, Len(s)) = s
    <2>1. \A j \in 1 .. Len(s) : r[j] \in S /\ 1 + j - 1 = j
      BY <1>1, <1>4, ElementOfSeq
    <2>2. Len(r) \in Nat /\ \A j \in 1 .. Len(s) : j \in 1 .. Len(r)
      BY <1>1, <1>4, LenProperties
    <2>3. /\ SubSeq(r, 1, Len(s)) \in Seq(S) /\ Len(SubSeq(r, 1, Len(s))) = Len(s)
          /\ \A j \in 1 .. Len(s) : SubSeq(r, 1, Len(s))[j] = r[1 + j - 1]
      BY <1>1, <1>4, <2>1, <2>2, SubSeqProperties, ElementOfSeq
    <2> DEFINE front == SubSeq(r, 1, Len(s))
    <2> HIDE DEF front
    <2>4. front \in Seq(S) /\ Len(front) = Len(s) /\ \A j \in 1 .. Len(s) : front[j] = s[j]
      BY <1>4, <2>1, <2>3 DEF front
    <2>5. front = s
      BY <2>4, SeqEqual
    <2> QED
      BY <2>5 DEF front
  <1> QED
    BY <1>1, <1>2, <1>3, <1>4 DEF u

(* What editArtboards() puts back is the document as it was.                 *)
LEMMA ArtboardEditNoTrace ==
    ASSUME NEW d \in CanvasDocument, NEW refused, NEW same, NEW new,
           Valid(d) /\ ~refused =>
                /\ new \in CanvasDocument
                /\ SameBut(new, d, TouchedByArtboards \union {"assets"})
                /\ SubSeq(new.assets, 1, Len(d.assets)) = d.assets
    PROVE  NoTrace(d, EditArtboards(d, refused, same, new))
  <1> DEFINE r == Restored(new, d, TouchedByArtboards)
             undone == [r EXCEPT !.assets = SubSeq(@, 1, Len(d.assets))]
  <1>1. ASSUME Valid(d), ~refused PROVE Raised(new) \in CanvasDocument /\ undone = d
    <2>1. /\ new \in CanvasDocument
          /\ \A f \in DOMAIN d : f \notin TouchedByArtboards /\ f # "assets" => new[f] = d[f]
          /\ SubSeq(new.assets, 1, Len(d.assets)) = d.assets
      BY <1>1 DEF SameBut
    <2>2. "assets" \in DOMAIN d /\ "assets" \notin TouchedByArtboards
      BY DEF CanvasDocument, TouchedByArtboards
    <2>3. /\ DOMAIN r = DOMAIN d /\ r.assets = new.assets
          /\ \A f \in DOMAIN d : f # "assets" => r[f] = d[f]
      BY <2>1, <2>2 DEF Restored
    <2> HIDE DEF r
    <2>4. /\ undone = [f \in DOMAIN d |-> undone[f]]
          /\ undone.assets = d.assets
          /\ \A f \in DOMAIN d : f # "assets" => undone[f] = d[f]
      BY <2>1, <2>2, <2>3
    <2>5. d = [f \in DOMAIN d |-> d[f]]
      BY DEF CanvasDocument
    <2> HIDE DEF undone
    <2>6. \A f \in DOMAIN d : undone[f] = d[f]
      BY <2>4
    <2>7. undone = d
      BY <2>4, <2>5, <2>6
    <2> QED
      BY <2>1, <2>7, RaisedType
  <1>2. EditArtboards(d, refused, same, new) = EditOr(d, refused, same, Raised(new), undone)
    BY DEF EditArtboards
  <1> HIDE DEF undone
  <1> QED
    BY <1>1, <1>2, EditOrNoTrace

LEMMA BoardsEditNoTrace ==
    ASSUME NEW d \in CanvasDocument, NEW refused, NEW same, NEW new, NEW fields,
           fields \subseteq TouchedByArtboards,
           Valid(d) /\ ~refused => new \in CanvasDocument /\ SameBut(new, d, fields)
    PROVE  NoTrace(d, EditArtboards(d, refused, same, new))
  <1>1. ASSUME Valid(d), ~refused
        PROVE  /\ SameBut(new, d, TouchedByArtboards \union {"assets"})
               /\ SubSeq(new.assets, 1, Len(d.assets)) = d.assets
    <2>1. SameBut(new, d, fields)
      BY <1>1
    <2>2. "assets" \in DOMAIN d /\ "assets" \notin fields
      BY DEF CanvasDocument, TouchedByArtboards
    <2>3. new.assets = d.assets
      BY <2>1, <2>2 DEF SameBut
    <2>4. SubSeq(d.assets, 1, Len(d.assets)) = d.assets
      BY FieldTypes, CutBack
    <2> QED
      BY <2>1, <2>3, <2>4 DEF SameBut
  <1> QED
    BY <1>1, ArtboardEditNoTrace

BoardOf(N, I) ==
    [id : N, name : STRING, origin : I, width : I, background : N, visible : BOOLEAN]

LEMMA BoardIs == Artboard = BoardOf(Nat, Int)
  BY Zenon DEF Artboard, BoardOf

LEMMA BoardFieldsOf ==
    ASSUME NEW N, NEW I, NEW b \in BoardOf(N, I), NEW n \in N, NEW i \in I, NEW j \in I
    PROVE  /\ \A v \in STRING : [b EXCEPT !.name = v] \in BoardOf(N, I)
           /\ \A v \in BOOLEAN : [b EXCEPT !.visible = v] \in BoardOf(N, I)
           /\ [b EXCEPT !.background = n] \in BoardOf(N, I)
           /\ [b EXCEPT !.origin = i, !.width = j] \in BoardOf(N, I)
           /\ [b EXCEPT !.id = n, !.origin = i] \in BoardOf(N, I)
           /\ b.origin \in I
  BY DEF BoardOf

LEMMA BoardFieldsChange ==
    ASSUME NEW b \in Artboard, NEW n \in Nat, NEW i \in Int, NEW j \in Int
    PROVE  /\ \A v \in STRING : [b EXCEPT !.name = v] \in Artboard
           /\ \A v \in BOOLEAN : [b EXCEPT !.visible = v] \in Artboard
           /\ [b EXCEPT !.background = n] \in Artboard
           /\ [b EXCEPT !.origin = i, !.width = j] \in Artboard
           /\ [b EXCEPT !.id = n, !.origin = i] \in Artboard
           /\ b.origin \in Int
  <1>1. b \in BoardOf(Nat, Int)
    BY BoardIs
  <1> QED
    BY <1>1, BoardIs, BoardFieldsOf, Zenon

LEMMA BoardFound ==
    ASSUME NEW d \in CanvasDocument, NEW id, Has(d.boards, id)
    PROVE  Board(d, id) \in Artboard /\ Item(d.boards, id) \in DOMAIN d.boards
  BY FieldTypes, FoundType DEF Board

LEMMA WithBoardType ==
    ASSUME NEW d \in CanvasDocument, NEW id, NEW board \in Artboard
    PROVE  WithBoard(d, id, board) \in CanvasDocument /\ SameBut(WithBoard(d, id, board), d, {"boards"})
  <1> DEFINE s == [d.boards EXCEPT ![Item(d.boards, id)] = board]
  <1>1. s \in Seq(Artboard)
    BY FieldTypes, ChangedType
  <1>2. WithBoard(d, id, board) = [d EXCEPT !.boards = s]
    BY DEF WithBoard
  <1> HIDE DEF s
  <1> QED
    BY <1>1, <1>2, FieldsChange DEF SameBut

LEMMA WithBoardNoTrace ==
    ASSUME NEW d \in CanvasDocument, NEW id, NEW same, NEW board,
           Has(d.boards, id) => board \in Artboard
    PROVE  NoTrace(d, EditArtboards(d, ~Has(d.boards, id), same, WithBoard(d, id, board)))
  <1> DEFINE new == WithBoard(d, id, board)
             refused == ~Has(d.boards, id)
  <1>1. ~refused => new \in CanvasDocument /\ SameBut(new, d, {"boards"})
    BY WithBoardType
  <1>2. {"boards"} \subseteq TouchedByArtboards
    BY DEF TouchedByArtboards
  <1> DEFINE fields == {"boards"}
  <1> HIDE DEF new, refused, fields
  <1>3. fields \subseteq TouchedByArtboards /\ (~refused => new \in CanvasDocument /\ SameBut(new, d, fields))
    BY <1>1, <1>2 DEF fields
  <1>4. NoTrace(d, EditArtboards(d, refused, same, new))
    <2> HIDE <1>1, <1>2
    <2> QED
      BY <1>3, BoardsEditNoTrace
  <1> QED
    BY <1>4 DEF new, refused

LEMMA ArtboardSettersLeaveNoTrace ==
    ASSUME NEW d \in CanvasDocument, NEW id
    PROVE  /\ \A v \in STRING : NoTrace(d, SetArtboardName(d, id, v))
           /\ \A v \in BOOLEAN : NoTrace(d, SetArtboardVisible(d, id, v))
           /\ \A n \in Nat : NoTrace(d, SetArtboardBackground(d, id, n))
           /\ \A i, j \in Int : NoTrace(d, SetArtboardRegion(d, id, i, j))
  <1>1. ASSUME NEW v \in STRING PROVE NoTrace(d, SetArtboardName(d, id, v))
    <2> DEFINE board == [Board(d, id) EXCEPT !.name = v]
    <2>1. 0 \in Nat /\ 0 \in Int
      OBVIOUS
    <2>2. Has(d.boards, id) => board \in Artboard
      BY <2>1, BoardFound, BoardFieldsChange
    <2> HIDE DEF board
    <2> QED
      BY <2>2, WithBoardNoTrace DEF SetArtboardName, board
  <1>2. ASSUME NEW v \in BOOLEAN PROVE NoTrace(d, SetArtboardVisible(d, id, v))
    <2> DEFINE board == [Board(d, id) EXCEPT !.visible = v]
    <2>1. 0 \in Nat /\ 0 \in Int
      OBVIOUS
    <2>2. Has(d.boards, id) => board \in Artboard
      BY <2>1, BoardFound, BoardFieldsChange
    <2> HIDE DEF board
    <2> QED
      BY <2>2, WithBoardNoTrace DEF SetArtboardVisible, board
  <1>3. ASSUME NEW n \in Nat PROVE NoTrace(d, SetArtboardBackground(d, id, n))
    <2> DEFINE board == [Board(d, id) EXCEPT !.background = n]
    <2>1. 0 \in Int
      OBVIOUS
    <2>2. Has(d.boards, id) => board \in Artboard
      BY <2>1, BoardFound, BoardFieldsChange
    <2> HIDE DEF board
    <2> QED
      BY <2>2, WithBoardNoTrace DEF SetArtboardBackground, board
  <1>4. ASSUME NEW i \in Int, NEW j \in Int PROVE NoTrace(d, SetArtboardRegion(d, id, i, j))
    <2> DEFINE board == [Board(d, id) EXCEPT !.origin = i, !.width = j]
    <2>1. 0 \in Nat
      OBVIOUS
    <2>2. Has(d.boards, id) => board \in Artboard
      BY <2>1, BoardFound, BoardFieldsChange
    <2> HIDE DEF board
    <2> QED
      BY <2>2, WithBoardNoTrace DEF SetArtboardRegion, board
  <1> QED
    BY <1>1, <1>2, <1>3, <1>4

LEMMA InsertArtboardLeavesNoTrace ==
    ASSUME NEW d \in CanvasDocument, NEW board \in Artboard, NEW at \in Nat \union {AppendIndex}
    PROVE  NoTrace(d, InsertArtboard(d, board, at))
  <1> DEFINE s == Inserted(d.boards, at, board)
             new == [d EXCEPT !.boards = Inserted(@, at, board)]
             refused == Has(d.boards, board.id) \/ IsOutside(at, d.boards)
  <1>1. ~refused => s \in Seq(Artboard)
    BY FieldTypes, InsertedType
  <1>2. new = [d EXCEPT !.boards = s]
    OBVIOUS
  <1>3. InsertArtboard(d, board, at) = EditArtboards(d, refused, FALSE, new)
    BY DEF InsertArtboard
  <1>4. {"boards"} \subseteq TouchedByArtboards
    BY DEF TouchedByArtboards
  <1> HIDE DEF s, new, refused
  <1>5. ~refused => new \in CanvasDocument
    BY <1>1, <1>2, FieldsChange
  <1>6. SameBut(new, d, {"boards"})
    BY <1>2 DEF SameBut
  <1> QED
    BY <1>3, <1>4, <1>5, <1>6, BoardsEditNoTrace

LEMMA MoveArtboardLeavesNoTrace ==
    ASSUME NEW d \in CanvasDocument, NEW id, NEW to \in Nat
    PROVE  NoTrace(d, MoveArtboard(d, id, to))
  <1> DEFINE from == Item(d.boards, id)
             s == MoveElement(d.boards, from, to)
             new == [d EXCEPT !.boards = MoveElement(@, from, to)]
             refused == ~Has(d.boards, id) \/ to >= Len(d.boards)
             same == from = to + 1
  <1>1. ~refused => s \in Seq(Artboard)
    <2>1. Len(d.boards) \in Nat
      BY FieldTypes, LenProperties
    <2> QED
      BY <2>1, FieldTypes, FoundType, MovedType
  <1>2. new = [d EXCEPT !.boards = s]
    OBVIOUS
  <1>3. MoveArtboard(d, id, to) = EditArtboards(d, refused, same, new)
    BY DEF MoveArtboard
  <1>4. {"boards"} \subseteq TouchedByArtboards
    BY DEF TouchedByArtboards
  <1> HIDE DEF s, new, refused, same
  <1>5. ~refused => new \in CanvasDocument
    BY <1>1, <1>2, FieldsChange
  <1>6. SameBut(new, d, {"boards"})
    BY <1>2 DEF SameBut
  <1> QED
    BY <1>3, <1>4, <1>5, <1>6, BoardsEditNoTrace

LEMMA SetLayerArtboardLeavesNoTrace ==
    ASSUME NEW d \in CanvasDocument, NEW id, NEW board \in Nat
    PROVE  NoTrace(d, SetLayerArtboard(d, id, board))
  <1> DEFINE prior == Layer(d, id)
             x == prior.x + BoardOrigin(d, prior.board) - BoardOrigin(d, board)
             moved == [prior EXCEPT !.x = x]
             changed == [moved EXCEPT !.board = board]
             new == WithLayer(d, id, changed)
             refused == ~Has(d.layers, id) \/ (board # 0 /\ ~Has(d.boards, board))
             same == prior.board = board
  <1>1. ASSUME NEW b, b = 0 \/ Has(d.boards, b) PROVE BoardOrigin(d, b) \in Int
    <2>1. CASE b = 0
      BY <2>1 DEF BoardOrigin
    <2>2. CASE b # 0
      <3>1. Found(d.boards, b) \in Artboard
        BY <1>1, <2>2, BoardFound DEF Board
      <3> QED
        BY <2>2, <3>1 DEF BoardOrigin, Artboard
    <2> QED
      BY <2>1, <2>2
  <1>2. ASSUME Valid(d), ~refused PROVE changed \in CanvasLayer
    <2>1. prior \in CanvasLayer /\ \E i \in DOMAIN d.layers : d.layers[i] = prior
      BY <1>2, LayerFound
    <2>2. prior.board = 0 \/ Has(d.boards, prior.board)
      BY <1>2, <2>1 DEF Valid, ValidLayers, ValidProperties
    <2>3. x \in Int
      <3>1. BoardOrigin(d, prior.board) \in Int /\ BoardOrigin(d, board) \in Int
        BY <1>1, <1>2, <2>2
      <3>2. prior.x \in Int
        BY <2>1, LayerFieldTypes
      <3> HIDE DEF prior
      <3> QED
        BY <3>1, <3>2
    <2> HIDE DEF prior, x
    <2>4. moved \in CanvasLayer
      BY <2>1, <2>3, LayerFieldsChange
    <2> HIDE DEF moved
    <2> QED
      BY <2>4, LayerFieldsChange
  <1>3. SetLayerArtboard(d, id, board) = EditArtboards(d, refused, same, new)
    BY DEF SetLayerArtboard
  <1>4. {"layers"} \subseteq TouchedByArtboards
    BY DEF TouchedByArtboards
  <1> HIDE DEF changed, refused, same
  <1>5. Valid(d) /\ ~refused => new \in CanvasDocument /\ SameBut(new, d, {"layers"})
    BY <1>2, WithLayerType
  <1> DEFINE fields == {"layers"}
  <1> HIDE DEF new, fields
  <1>6. fields \subseteq TouchedByArtboards
    BY <1>4 DEF fields
  <1>7. Valid(d) /\ ~refused => new \in CanvasDocument /\ SameBut(new, d, fields)
    BY <1>5 DEF fields
  <1> QED
    BY <1>3, <1>6, <1>7, BoardsEditNoTrace

-----------------------------------------------------------------------------
(* The copy of an artboard                                                   *)

LEMMA CopyIdType ==
    ASSUME NEW n \in Nat, NEW m \in Nat PROVE CopyId(n, m) \in Nat
  BY DEF CopyId

LEMMA CopiedAssetsType ==
    ASSUME NEW d \in CanvasDocument, NEW board, NEW to \in Nat
    PROVE  CopiedAssets(d, board, to) \in Seq(VisualAsset)
  <1> DEFINE places == {i \in DOMAIN d.assets : d.assets[i].id \in SourcesOn(d, board)}
             sources == Kept(d.assets, places)
             t == [i \in DOMAIN sources |-> [sources[i] EXCEPT !.id = CopyId(to, @)]]
  <1>1. CopiedAssets(d, board, to) = t
    BY DEF CopiedAssets
  <1>2. sources \in Seq(VisualAsset)
    <2>1. places \subseteq DOMAIN d.assets
      OBVIOUS
    <2> HIDE DEF places
    <2> QED
      BY <2>1, FieldTypes, KeptType
  <1> HIDE DEF sources
  <1>3. ASSUME NEW i \in DOMAIN sources PROVE t[i] \in VisualAsset
    <2>1. sources[i] \in VisualAsset
      BY <1>2, LenProperties, ElementOfSeq
    <2>2. CopyId(to, sources[i].id) \in Nat
      <3>1. sources[i].id \in Nat
        BY <2>1 DEF VisualAsset
      <3> QED
        BY <3>1, CopyIdType
    <2>3. t[i] = [sources[i] EXCEPT !.id = CopyId(to, sources[i].id)]
      OBVIOUS
    <2> HIDE DEF t
    <2> QED
      BY <2>1, <2>2, <2>3, NewIdType
  <1>4. t = [i \in DOMAIN sources |-> t[i]]
    OBVIOUS
  <1> HIDE DEF t
  <1> QED
    BY <1>1, <1>2, <1>3, <1>4, MappedType

LEMMA OnBoardType ==
    ASSUME NEW d \in CanvasDocument, NEW board
    PROVE  OnBoard(d, board) \in Seq(CanvasLayer) /\ PlacesOn(d, board) \subseteq DOMAIN d.layers
  <1>1. PlacesOn(d, board) \subseteq DOMAIN d.layers
    BY DEF PlacesOn
  <1> QED
    BY <1>1, FieldTypes, KeptType DEF OnBoard

LEMMA CopiedLayersType ==
    ASSUME NEW d \in CanvasDocument, NEW board, NEW to \in Nat
    PROVE  CopiedLayers(d, board, to) \in Seq(CanvasLayer)
  <1> DEFINE layers == OnBoard(d, board)
             t == [i \in DOMAIN layers |->
                    [layers[i] EXCEPT !.id = CopyId(to, @), !.board = to,
                                      !.asset = IF layers[i].keyed THEN @ ELSE CopyId(to, @)]]
  <1>1. CopiedLayers(d, board, to) = t
    BY DEF CopiedLayers
  <1>2. layers \in Seq(CanvasLayer)
    BY OnBoardType
  <1> HIDE DEF layers
  <1>3. ASSUME NEW i \in DOMAIN layers PROVE t[i] \in CanvasLayer
    <2> DEFINE layer == layers[i]
               id == CopyId(to, layer.id)
               asset == IF layer.keyed THEN layer.asset ELSE CopyId(to, layer.asset)
               named == [layer EXCEPT !.id = id]
               placed == [named EXCEPT !.board = to]
    <2>1. layer \in CanvasLayer
      BY <1>2, LenProperties, ElementOfSeq
    <2>2. id \in Nat /\ asset \in Nat /\ (layer.keyed => asset = layer.asset) /\ <<>> \in Seq(Nat)
      <3>1. layer.id \in Nat /\ layer.asset \in Nat
        BY <2>1, LayerFieldTypes
      <3>2. CopyId(to, layer.id) \in Nat /\ CopyId(to, layer.asset) \in Nat
        BY <3>1, CopyIdType
      <3> QED
        BY <3>1, <3>2
    <2>3. t[i] = [placed EXCEPT !.asset = asset]
      <3>1. /\ [layer EXCEPT !.id = id, !.board = to, !.asset = asset] =
                    [placed EXCEPT !.asset = asset]
            /\ t[i] = [layer EXCEPT !.id = id, !.board = to,
                                    !.asset = IF layer.keyed THEN @ ELSE CopyId(to, @)]
        OBVIOUS
      <3> QED
        BY <3>1, Zenon
    <2> HIDE DEF layer, id, asset, t
    <2>4. named \in CanvasLayer
      BY <2>1, <2>2, LayerFieldsChange
    <2> HIDE DEF named
    <2>5. placed \in CanvasLayer
      BY <2>4, LayerFieldsChange
    <2>6. placed.keyed = layer.keyed /\ placed.asset = layer.asset
      BY <2>1 DEF placed, named, CanvasLayer
    <2> HIDE DEF placed
    <2>7. CASE layer.keyed
      <3>1. t[i] = placed
        BY <2>2, <2>3, <2>5, <2>6, <2>7 DEF CanvasLayer
      <3> QED
        BY <2>5, <3>1
    <2>8. CASE ~layer.keyed
      BY <2>2, <2>3, <2>5, <2>6, <2>8, SourcesChange
    <2> QED
      BY <2>7, <2>8
  <1>4. t = [i \in DOMAIN layers |-> t[i]]
    OBVIOUS
  <1> HIDE DEF t
  <1> QED
    BY <1>1, <1>2, <1>3, <1>4, MappedType

LEMMA CopiedKeysType ==
    ASSUME NEW d, NEW keys \in Seq(FrameKeyframe), NEW board, NEW to \in Nat
    PROVE  CopiedKeys(d, keys, board, to) \in Seq(FrameKeyframe)
  <1> DEFINE places == {k \in DOMAIN keys : Layer(d, keys[k].layer).board = board}
             mine == KeysOn(d, keys, board)
             t == [i \in DOMAIN mine |->
                    [mine[i] EXCEPT !.layer = CopyId(to, @), !.asset = CopyId(to, @)]]
  <1>1. CopiedKeys(d, keys, board, to) = SortedKeys(keys \o t)
    BY DEF CopiedKeys
  <1>2. mine \in Seq(FrameKeyframe)
    <2>1. places \subseteq DOMAIN keys
      OBVIOUS
    <2>2. mine = Kept(keys, places)
      BY DEF KeysOn
    <2> HIDE DEF places, mine
    <2> QED
      BY <2>1, <2>2, KeptType
  <1> HIDE DEF mine
  <1>3. ASSUME NEW i \in DOMAIN mine PROVE t[i] \in FrameKeyframe
    <2>1. mine[i] \in FrameKeyframe
      BY <1>2, LenProperties, ElementOfSeq
    <2> DEFINE layer == CopyId(to, mine[i].layer)
               asset == CopyId(to, mine[i].asset)
    <2>2. layer \in Nat /\ asset \in Nat
      BY <2>1, KeyTypes, CopyIdType
    <2>3. t[i] = [mine[i] EXCEPT !.layer = layer, !.asset = asset]
      OBVIOUS
    <2> HIDE DEF t, layer, asset
    <2>4. [mine[i] EXCEPT !.layer = layer, !.asset = asset] \in FrameKeyframe
      BY <2>1, <2>2, KeyChanges
    <2> QED
      BY <2>3, <2>4
  <1>4. t = [i \in DOMAIN mine |-> t[i]]
    OBVIOUS
  <1> HIDE DEF t
  <1>5. t \in Seq(FrameKeyframe)
    BY <1>2, <1>3, <1>4, MappedType
  <1>6. keys \o t \in Seq(FrameKeyframe)
    BY <1>5, CutBack
  <1> QED
    BY <1>1, <1>6, SortedKeysType

LEMMA CopiedFramesType ==
    ASSUME NEW d \in CanvasDocument, NEW board, NEW to \in Nat
    PROVE  [i \in DOMAIN d.frames |-> CopiedFrame(d, d.frames[i], board, to)] \in Seq(CanvasFrame)
  <1> DEFINE t == [i \in DOMAIN d.frames |-> CopiedFrame(d, d.frames[i], board, to)]
  <1>1. d.frames \in Seq(CanvasFrame)
    BY FieldTypes
  <1>2. ASSUME NEW i \in DOMAIN d.frames PROVE t[i] \in CanvasFrame
    <2>1. d.frames[i] \in CanvasFrame /\ d.frames[i].keys \in Seq(FrameKeyframe)
      BY <1>1, FrameTypes
    <2>2. CopiedKeys(d, d.frames[i].keys, board, to) \in Seq(FrameKeyframe)
      BY <2>1, CopiedKeysType
    <2> QED
      BY <2>1, <2>2, FrameChanges DEF CopiedFrame
  <1>3. t = [i \in DOMAIN d.frames |-> t[i]]
    OBVIOUS
  <1> HIDE DEF t
  <1>4. t \in Seq(CanvasFrame)
    BY <1>1, <1>2, <1>3, MappedType
  <1> QED
    BY <1>4 DEF t

LEMMA DuplicateArtboardLeavesNoTrace ==
    ASSUME NEW d \in CanvasDocument, NEW id, NEW to \in Nat, NEW origin \in Int,
           NEW at \in Nat \union {AppendIndex}
    PROVE  NoTrace(d, DuplicateArtboard(d, id, to, origin, at))
  <1> DEFINE copies == CopiedAssets(d, id, to)
             layers == CopiedLayers(d, id, to)
             board == [Board(d, id) EXCEPT !.id = to, !.origin = origin]
             allAssets == d.assets \o copies
             allLayers == d.layers \o layers
             frames == [i \in DOMAIN d.frames |-> CopiedFrame(d, d.frames[i], id, to)]
             boards == Inserted(d.boards, at, board)
             e == [d EXCEPT !.assets = allAssets]
             f == [e EXCEPT !.layers = allLayers]
             g == [f EXCEPT !.frames = frames]
             new == [g EXCEPT !.boards = boards]
             refused ==
                \/ ~Has(d.boards, id) \/ Has(d.boards, to) \/ IsOutside(at, d.boards)
                \/ \E i \in DOMAIN copies : Has(d.assets, copies[i].id)
                \/ \E i \in DOMAIN layers : Has(d.layers, layers[i].id) \/ Has(d.tracks, layers[i].id)
  <1>1. DuplicateArtboard(d, id, to, origin, at) = EditArtboards(d, refused, FALSE, new)
    <2> DEFINE direct == [d EXCEPT !.assets = allAssets, !.layers = allLayers,
                                   !.frames = frames, !.boards = boards]
    <2>1. DuplicateArtboard(d, id, to, origin, at) = EditArtboards(d, refused, FALSE, direct)
      BY DEF DuplicateArtboard
    <2>2. direct = new
      <3> HIDE DEF allAssets, allLayers, frames, boards
      <3> QED
        OBVIOUS
    <2> QED
      BY <2>1, <2>2
  <1>2. /\ allAssets \in Seq(VisualAsset) /\ SubSeq(allAssets, 1, Len(d.assets)) = d.assets
        /\ allLayers \in Seq(CanvasLayer)
    <2>1. copies \in Seq(VisualAsset) /\ layers \in Seq(CanvasLayer)
      BY CopiedAssetsType, CopiedLayersType
    <2> HIDE DEF copies, layers
    <2> QED
      BY <2>1, FieldTypes, CutBack
  <1>3. frames \in Seq(CanvasFrame)
    BY CopiedFramesType
  <1>4. ~refused => boards \in Seq(Artboard)
    <2>1. ~refused => Has(d.boards, id) /\ ~IsOutside(at, d.boards)
      OBVIOUS
    <2> HIDE DEF refused
    <2>2. ~refused => board \in Artboard
      <3>1. 0 \in Nat /\ 0 \in Int
        OBVIOUS
      <3> QED
        BY <2>1, <3>1, BoardFound, BoardFieldsChange
    <2> HIDE DEF board
    <2> QED
      BY <2>1, <2>2, FieldTypes, InsertedType
  <1> HIDE DEF refused, allAssets, allLayers, frames, boards
  <1>5. e \in CanvasDocument /\ SameBut(e, d, {"assets"}) /\ e.assets = allAssets
    <2>1. e \in CanvasDocument
      BY <1>2, FieldsChange
    <2>2. SameBut(e, d, {"assets"}) /\ e.assets = allAssets
      BY DEF SameBut, CanvasDocument
    <2> QED
      BY <2>1, <2>2
  <1> HIDE DEF e
  <1>6. f \in CanvasDocument /\ SameBut(f, e, {"layers"}) /\ f.assets = e.assets
    <2>1. f \in CanvasDocument
      BY <1>2, <1>5, FieldsChange
    <2>2. SameBut(f, e, {"layers"}) /\ f.assets = e.assets
      BY DEF SameBut
    <2> QED
      BY <2>1, <2>2
  <1> HIDE DEF f
  <1>7. g \in CanvasDocument /\ SameBut(g, f, {"frames"}) /\ g.assets = f.assets
    <2>1. g \in CanvasDocument
      BY <1>3, <1>6, FieldsChange
    <2>2. SameBut(g, f, {"frames"}) /\ g.assets = f.assets
      BY DEF SameBut
    <2> QED
      BY <2>1, <2>2
  <1> HIDE DEF g
  <1>8. (~refused => new \in CanvasDocument) /\ SameBut(new, g, {"boards"}) /\ new.assets = g.assets
    <2>1. ~refused => new \in CanvasDocument
      BY <1>4, <1>7, FieldsChange
    <2>2. SameBut(new, g, {"boards"}) /\ new.assets = g.assets
      BY DEF SameBut
    <2> QED
      BY <2>1, <2>2
  <1> HIDE DEF new
  <1>9. SameBut(new, d, TouchedByArtboards \union {"assets"})
    <2> DEFINE all == TouchedByArtboards \union {"assets"}
    <2>1. {"assets"} \subseteq all /\ {"layers"} \subseteq all /\ {"frames"} \subseteq all /\ {"boards"} \subseteq all
      BY DEF TouchedByArtboards
    <2> HIDE DEF all
    <2>2. SameBut(f, d, all)
      BY <1>5, <1>6, <2>1, SameButAgain
    <2>3. SameBut(g, d, all)
      BY <1>7, <2>1, <2>2, SameButAgain
    <2>4. SameBut(new, d, all)
      BY <1>8, <2>1, <2>3, SameButAgain
    <2> QED
      BY <2>4 DEF all
  <1>10. SubSeq(new.assets, 1, Len(d.assets)) = d.assets
    BY <1>2, <1>5, <1>6, <1>7, <1>8
  <1> QED
    BY <1>1, <1>8, <1>9, <1>10, ArtboardEditNoTrace

-----------------------------------------------------------------------------
(* The removal of an artboard                                                *)

(* A board taken out of the boards and of what is published.                 *)
LEMMA WithoutBoardType ==
    ASSUME NEW d \in CanvasDocument, NEW id
    PROVE  /\ WithoutBoard(d, id) \in CanvasDocument
           /\ SameBut(WithoutBoard(d, id), d, TouchedByArtboards)
  <1> DEFINE canvases == Kept(d.canvases, {i \in DOMAIN d.canvases : d.canvases[i] # id})
             cover == IF d.cover # id \/ ~d.published THEN d.cover
                      ELSE IF canvases = <<>> THEN 0 ELSE Head(canvases)
             places == {i \in DOMAIN d.boards : d.boards[i].id # id}
             boards == Kept(d.boards, places)
             e == [d EXCEPT !.boards = boards]
             f == [e EXCEPT !.canvases = canvases]
             new == [f EXCEPT !.cover = cover]
  <1>1. canvases \in Seq(Nat)
    <2> DEFINE kept == {i \in DOMAIN d.canvases : d.canvases[i] # id}
    <2>1. kept \subseteq DOMAIN d.canvases
      OBVIOUS
    <2> HIDE DEF kept
    <2>2. Kept(d.canvases, kept) \in Seq(Nat)
      BY <2>1, FieldTypes, KeptType
    <2> QED
      BY <2>2 DEF kept
  <1>2. boards \in Seq(Artboard)
    <2>1. places \subseteq DOMAIN d.boards
      OBVIOUS
    <2> HIDE DEF places
    <2> QED
      BY <2>1, FieldTypes, KeptType
  <1>3. WithoutBoard(d, id) = new
    BY DEF WithoutBoard
  <1>9. d.published \/ (canvases = <<>> /\ cover = 0)
    <2>1. CASE d.published
      BY <2>1
    <2>2. CASE ~d.published
      <3>1. d.canvases = <<>> /\ d.cover = 0
        BY <2>2 DEF CanvasDocument
      <3>2. canvases = <<>>
        <4>1. {i \in DOMAIN d.canvases : d.canvases[i] # id} = {}
          BY <3>1
        <4> DEFINE rank == [i \in {j \in DOMAIN d.canvases : d.canvases[j] # id} |->
                                Cardinality({j \in {k \in DOMAIN d.canvases : d.canvases[k] # id} : j <= i})]
        <4>2. canvases = Arranged(d.canvases, rank) /\ DOMAIN rank = {}
          BY <4>1 DEF Kept
        <4> HIDE DEF rank, canvases
        <4>3. Cardinality(DOMAIN rank) = 0
          BY <4>2, FS_EmptySet
        <4>4. DOMAIN canvases = 1 .. 0
          BY <4>2, <4>3 DEF Arranged
        <4>5. Len(canvases) = 0
          BY <1>1, <4>4, LenProperties
        <4> QED
          BY <1>1, <4>5, EmptySeq
      <3> QED
        BY <2>2, <3>1, <3>2
    <2> QED
      BY <2>1, <2>2
  <1> HIDE DEF canvases, boards
  <1>4. cover \in Nat
    <2>1. canvases # <<>> => Head(canvases) \in Nat
      BY <1>1, HeadTailProperties
    <2> QED
      BY <2>1, FieldTypes
  <1> HIDE DEF cover
  <1>5. e \in CanvasDocument
    BY <1>2, FieldsChange
  <1>6. d.published \in BOOLEAN
    BY DEF CanvasDocument
  <1>7. new \in CanvasDocument
    <2>1. e.published = d.published
      BY <1>6 DEF CanvasDocument
    <2>2. new = [e EXCEPT !.published = d.published, !.canvases = canvases, !.cover = cover]
      BY <1>5, <2>1 DEF CanvasDocument
    <2> HIDE DEF e
    <2> QED
      BY <1>1, <1>4, <1>6, <1>9, <1>5, <2>2, PublicationType
  <1>8. SameBut(new, d, TouchedByArtboards)
    BY DEF SameBut, TouchedByArtboards
  <1> QED
    BY <1>3, <1>7, <1>8

(* The layers of a removed board stay in the world, where they were.         *)
LEMMA KeepLayersType ==
    ASSUME NEW d \in CanvasDocument, NEW id, Has(d.boards, id)
    PROVE  KeepLayers(d, id) \in CanvasDocument /\ SameBut(KeepLayers(d, id), d, TouchedByArtboards)
  <1> DEFINE origin == Board(d, id).origin
             t == [i \in DOMAIN d.layers |->
                    IF d.layers[i].board = id
                    THEN [d.layers[i] EXCEPT !.x = @ + origin, !.board = 0] ELSE d.layers[i]]
  <1>1. origin \in Int
    BY BoardFound DEF Artboard
  <1>2. KeepLayers(d, id) = [d EXCEPT !.layers = t]
    BY DEF KeepLayers, Released
  <1> HIDE DEF origin
  <1>3. d.layers \in Seq(CanvasLayer)
    BY FieldTypes
  <1>4. ASSUME NEW i \in DOMAIN d.layers PROVE t[i] \in CanvasLayer
    <2> DEFINE layer == d.layers[i]
               x == layer.x + origin
               moved == [layer EXCEPT !.x = x]
               kept == [moved EXCEPT !.board = 0]
    <2>1. layer \in CanvasLayer
      BY <1>3, LenProperties, ElementOfSeq
    <2>2. x \in Int
      BY <1>1, <2>1, LayerFieldTypes
    <2>3. t[i] = IF layer.board = id THEN kept ELSE layer
      OBVIOUS
    <2> HIDE DEF t, layer, x
    <2>4. moved \in CanvasLayer
      BY <2>1, <2>2, LayerFieldsChange
    <2> HIDE DEF moved
    <2>5. kept \in CanvasLayer
      BY <2>4, LayerFieldsChange
    <2> HIDE DEF kept
    <2> QED
      BY <2>1, <2>3, <2>5
  <1>5. t = [i \in DOMAIN d.layers |-> t[i]]
    OBVIOUS
  <1> HIDE DEF t
  <1>6. t \in Seq(CanvasLayer)
    BY <1>3, <1>4, <1>5, MappedType
  <1>7. [d EXCEPT !.layers = t] \in CanvasDocument
    BY <1>6, FieldsChange
  <1>8. SameBut([d EXCEPT !.layers = t], d, TouchedByArtboards)
    BY DEF SameBut, TouchedByArtboards
  <1> QED
    BY <1>2, <1>7, <1>8

(* Or they go, and their keyframes with them.                                *)
LEMMA DeleteLayersType ==
    ASSUME NEW d \in CanvasDocument, NEW id
    PROVE  DeleteLayers(d, id) \in CanvasDocument /\ SameBut(DeleteLayers(d, id), d, TouchedByArtboards)
  <1> DEFINE left == DOMAIN d.layers \ PlacesOn(d, id)
             gone == {d.layers[i].id : i \in PlacesOn(d, id)}
             layers == Kept(d.layers, left)
             frames == WithoutKeys(d.frames, gone)
             e == [d EXCEPT !.layers = layers]
             new == [e EXCEPT !.frames = frames]
  <1>1. DeleteLayers(d, id) = new
    BY DEF DeleteLayers
  <1>2. layers \in Seq(CanvasLayer)
    <2>1. left \subseteq DOMAIN d.layers
      OBVIOUS
    <2> HIDE DEF left
    <2> QED
      BY <2>1, FieldTypes, KeptType
  <1>3. frames \in Seq(CanvasFrame)
    <2> HIDE DEF gone
    <2> QED
      BY FieldTypes, WithoutKeysType
  <1> HIDE DEF layers, frames
  <1>4. e \in CanvasDocument
    BY <1>2, FieldsChange
  <1>5. new \in CanvasDocument
    <2> HIDE DEF e
    <2> QED
      BY <1>3, <1>4, FieldsChange
  <1>6. SameBut(new, d, TouchedByArtboards)
    BY DEF SameBut, TouchedByArtboards
  <1> QED
    BY <1>1, <1>5, <1>6

LEMMA RemoveArtboardLeavesNoTrace ==
    ASSUME NEW d \in CanvasDocument, NEW id, NEW removal
    PROVE  NoTrace(d, RemoveArtboard(d, id, removal))
  <1> DEFINE e == IF removal = "KeepLayers" THEN KeepLayers(d, id) ELSE DeleteLayers(d, id)
             new == WithoutBoard(e, id)
             refused == ~Has(d.boards, id)
  <1>1. RemoveArtboard(d, id, removal) = EditArtboards(d, refused, FALSE, new)
    BY DEF RemoveArtboard
  <1>2. ~refused => e \in CanvasDocument /\ SameBut(e, d, TouchedByArtboards)
    BY KeepLayersType, DeleteLayersType
  <1> HIDE DEF e
  <1>3. ~refused => new \in CanvasDocument /\ SameBut(new, e, TouchedByArtboards)
    BY <1>2, WithoutBoardType
  <1> DEFINE fields == TouchedByArtboards
  <1>4. fields \subseteq TouchedByArtboards /\ fields \subseteq fields
    OBVIOUS
  <1> HIDE DEF new, refused, fields
  <1>5. ~refused => new \in CanvasDocument /\ SameBut(new, d, fields)
    BY <1>2, <1>3, <1>4, SameButAgain DEF fields
  <1> QED
    BY <1>1, <1>4, <1>5, BoardsEditNoTrace

-----------------------------------------------------------------------------
(* The calls of the editor                                                   *)

(* What each step does.                                                      *)
DocumentKept ==
    /\ DocumentTypeOK'
    /\ revision' # revision + 1 =>
            \/ doc' = doc
            \/ /\ binding = "file" /\ binding' = "file" /\ Valid(doc')
               /\ unreported' = unreported + 1
    /\ EachResolves(doc) => EachResolves(doc')

(* Whatever becomes of an outcome without a trace, the step leaves none.     *)
LEMMA PerformKeeps ==
    ASSUME DocumentTypeOK, NEW outcome, NEW touch, Perform(outcome, touch), NoTrace(doc, outcome)
    PROVE  DocumentKept
  <1>1. /\ doc \in CanvasDocument /\ revision \in Nat /\ unreported \in Nat
        /\ binding \in {"none", "memory", "file", "lost"} /\ session \in Sessions
        /\ outcome.doc \in CanvasDocument
        /\ outcome.result # "applied" => outcome.doc = doc
        /\ EachResolves(doc) => EachResolves(outcome.doc)
    BY DEF DocumentTypeOK, NoTrace
  <1>2. /\ session' = session /\ revision' \in Nat /\ unreported' \in Nat
        /\ binding' \in {binding, "lost"}
    BY <1>1, PerformDoes
  <1>3. doc' \in {doc, outcome.doc}
    BY <1>1, PerformDoes
  <1>4. ASSUME revision' # revision + 1, doc' # doc
        PROVE  /\ binding = "file" /\ binding' = "file" /\ Valid(doc')
               /\ unreported' = unreported + 1
    <2>1. Edited
      BY <1>1, <1>4, PerformDoes
    <2> QED
      BY <1>1, <1>4, <2>1, PerformDoes
  <1>5. doc' \in CanvasDocument /\ (EachResolves(doc) => EachResolves(doc'))
    BY <1>1, <1>3
  <1>6. DocumentTypeOK'
    BY <1>1, <1>2, <1>5 DEF DocumentTypeOK
  <1> QED
    BY <1>4, <1>5, <1>6 DEF DocumentKept

(* What calls are given has types, and every index is one or the end.        *)
LEMMA CallTypes ==
    ASSUME DocumentCallsAssumption
    PROVE  /\ AssetIds \subseteq Nat /\ LayerIds \subseteq Nat
           /\ BoardIds \subseteq Nat /\ AudioIds \subseteq Nat
           /\ FrameNumbers \subseteq Nat /\ Counts \subseteq Nat
           /\ \A n \in Counts : n <= CoordinateMax
           /\ Indexes \subseteq Nat \union {AppendIndex}
           /\ \A i \in Indexes : i >= 0 => i \in Nat
           /\ Values \subseteq STRING
  BY DEF DocumentCallsAssumption, AppendDocumentIndex, AppendIndex

LEMMA Tuples ==
    ASSUME NEW S, NEW a \in S, NEW b \in S PROVE <<a>> \in Seq(S) /\ <<a, b>> \in Seq(S)
  OBVIOUS

LEMMA EditCanvasKeeps ==
    ASSUME DocumentCallsAssumption, DocumentTypeOK, EditCanvas PROVE DocumentKept
  <1>1. doc \in CanvasDocument
    BY DEF DocumentTypeOK
  <1>2. \A n \in Counts : /\ NoTrace(doc, SetCanvasExtent(doc, n))
                          /\ NoTrace(doc, SetFrameRate(doc, n))
                          /\ NoTrace(doc, SetFrameCount(doc, n))
    BY <1>1, CallTypes, CanvasCallsLeaveNoTrace
  <1>3. \A x \in Places, n \in Counts : NoTrace(doc, EnsureInfiniteCanvasRegion(doc, x, n))
    BY <1>1, CallTypes, InfiniteRegionLeavesNoTrace DEF DocumentCallsAssumption
  <1> QED
    BY <1>2, <1>3, PerformKeeps DEF EditCanvas

LEMMA EditMetadataKeeps ==
    ASSUME DocumentCallsAssumption, DocumentTypeOK, EditMetadata PROVE DocumentKept
  <1>1. doc \in CanvasDocument
    BY DEF DocumentTypeOK
  <1>2. \A v \in Values : NoTrace(doc, SetStableDiffusionMetadata(doc, v))
    BY <1>1, CallTypes, PromptLeavesNoTrace DEF DocumentCallsAssumption
  <1>3. NoTrace(doc, ClearStableDiffusionMetadata(doc))
    <2>1. TextsAreStrings /\ "none" \in STRING
      BY DEF DocumentCallsAssumption, TextsAreStrings
    <2> QED
      BY <1>1, <2>1, PromptLeavesNoTrace
  <1>4. \A b, c \in BoardIds \union {0} :
            /\ NoTrace(doc, SetPublicationMetadata(doc, <<b, c>>, c))
            /\ NoTrace(doc, SetPublicationMetadata(doc, <<b>>, c))
    <2> TAKE b, c \in BoardIds \union {0}
    <2>1. b \in Nat /\ c \in Nat
      BY CallTypes
    <2>2. <<b, c>> \in Seq(Nat) /\ <<b>> \in Seq(Nat)
      BY <2>1
    <2> QED
      BY <1>1, <2>1, <2>2, PublicationLeavesNoTrace
  <1>5. NoTrace(doc, ClearPublicationMetadata(doc))
    <2>1. <<>> \in Seq(Nat) /\ 0 \in Nat
      OBVIOUS
    <2> QED
      BY <1>1, <2>1, PublicationLeavesNoTrace
  <1>6. \A author \in {0, 1} : NoTrace(doc, SetFileAuthor(doc, author))
    BY <1>1, AuthorLeavesNoTrace
  <1> QED
    BY <1>2, <1>3, <1>4, <1>5, <1>6, PerformKeeps DEF EditMetadata

LEMMA EditAssetsKeeps ==
    ASSUME DocumentCallsAssumption, DocumentTypeOK, EditAssets PROVE DocumentKept
  <1>1. doc \in CanvasDocument
    BY DEF DocumentTypeOK
  <1>2. ASSUME NEW a \in AssetIds, NEW v \in Values
        PROVE  /\ Visual(a, "Raster", <<v>>) \in VisualAsset
               /\ Visual(a, "Vector", <<v>>) \in VisualAsset
               /\ Visual(a, "Chunked", <<v>>) \in VisualAsset
               /\ Visual(a, "Video", <<v, v>>) \in VisualAsset
               /\ Visual(a, "Video", <<v>>) \in VisualAsset
    <2>1. a \in Nat /\ v \in STRING
      BY CallTypes
    <2>2. <<v>> \in Seq(STRING) /\ <<v, v>> \in Seq(STRING)
      BY <2>1, Tuples
    <2>3. "Raster" \in AssetKind /\ "Vector" \in AssetKind /\ "Chunked" \in AssetKind /\ "Video" \in AssetKind
      BY DEF AssetKind
    <2> QED
      BY <2>1, <2>2, <2>3, VisualType
  <1>3. ASSUME NEW a \in AssetIds, NEW v \in Values, NEW at \in Indexes
        PROVE  /\ NoTrace(doc, InsertRasterAsset(doc, a, v, at))
               /\ NoTrace(doc, InsertVectorAsset(doc, a, <<v>>, at))
               /\ NoTrace(doc, InsertChunkedRasterAsset(doc, a, <<v>>, at))
               /\ NoTrace(doc, InsertVideoAsset(doc, a, <<v, v>>, at))
    <2>1. at \in Nat \union {AppendIndex}
      BY CallTypes
    <2> QED
      BY <1>1, <1>2, <2>1, InsertedAssetLeavesNoTrace
         DEF InsertRasterAsset, InsertVectorAsset, InsertChunkedRasterAsset, InsertVideoAsset
  <1>4. ASSUME NEW a \in AssetIds, NEW v \in Values
        PROVE  /\ NoTrace(doc, ReplaceRasterPixels(doc, a, v))
               /\ NoTrace(doc, ReplaceVectorData(doc, a, <<v>>))
               /\ NoTrace(doc, ReplaceVideoAsset(doc, a, Visual(a, "Video", <<v>>)))
    <2>1. <<v>> \in Seq(STRING)
      BY CallTypes
    <2> QED
      BY <1>1, <1>2, <2>1, ReplacedAssetLeavesNoTrace, PartsLeaveNoTrace
         DEF ReplaceRasterPixels, ReplaceVideoAsset
  <1>5. \A a, b \in AssetIds : NoTrace(doc, RenameAsset(doc, a, b))
    BY <1>1, CallTypes, RenameAssetLeavesNoTrace
  <1>6. \A a \in AssetIds, to \in Indexes : to >= 0 => NoTrace(doc, MoveAsset(doc, a, to))
    BY <1>1, CallTypes, MovedAssetLeavesNoTrace
  <1>7. \A a \in AssetIds : NoTrace(doc, RemoveAsset(doc, a))
    BY <1>1, RemovedAssetLeavesNoTrace
  <1> QED
    BY <1>3, <1>4, <1>5, <1>6, <1>7, PerformKeeps DEF EditAssets

LEMMA EditPathsKeeps ==
    ASSUME DocumentCallsAssumption, DocumentTypeOK, EditPaths PROVE DocumentKept
  <1>1. doc \in CanvasDocument
    BY DEF DocumentTypeOK
  <1>2. \A a \in AssetIds, i \in Indexes, v \in Values : NoTrace(doc, InsertVectorPath(doc, a, v, i))
    BY <1>1, CallTypes, InsertPathLeavesNoTrace
  <1>3. \A a \in AssetIds, i \in Indexes, v \in Values :
            i >= 0 => NoTrace(doc, ReplaceVectorPath(doc, a, i, v))
    BY <1>1, CallTypes, ReplacePathLeavesNoTrace
  <1>4. \A a \in AssetIds, i, to \in Indexes :
            i >= 0 /\ to >= 0 => NoTrace(doc, MoveVectorPath(doc, a, i, to))
    BY <1>1, CallTypes, MovePathLeavesNoTrace
  <1>5. \A a \in AssetIds, i \in Indexes : i >= 0 => NoTrace(doc, RemoveVectorPath(doc, a, i))
    BY <1>1, CallTypes, RemovePathLeavesNoTrace
  <1> QED
    BY <1>2, <1>3, <1>4, <1>5, PerformKeeps DEF EditPaths

LEMMA EditAudioKeeps ==
    ASSUME DocumentCallsAssumption, DocumentTypeOK, EditAudio PROVE DocumentKept
  <1>1. doc \in CanvasDocument
    BY DEF DocumentTypeOK
  <1>2. \A a \in AudioIds, n \in Counts : [id |-> a, length |-> n] \in AudioAsset
    BY CallTypes DEF AudioAsset
  <1>3. Tracks \subseteq AudioTrack
    <2>1. {<<>>} \subseteq Seq(AudioClip)
      OBVIOUS
    <2>2. AudioIds \union LayerIds \subseteq Nat /\ {1, 2} \subseteq Nat
      BY CallTypes
    <2>3. \A I, J, N, G, C, D : I \subseteq N /\ G \subseteq N /\ C \subseteq D =>
                [id : I, gain : G, clips : C] \subseteq [id : N, gain : N, clips : D]
      OBVIOUS
    <2> QED
      BY <2>1, <2>2, <2>3 DEF Tracks, AudioTrack
  <1>4. \A a \in AudioIds, n \in Counts, at \in Indexes :
            NoTrace(doc, InsertAudioAsset(doc, [id |-> a, length |-> n], at))
    BY <1>1, <1>2, CallTypes, InsertAudioLeavesNoTrace
  <1>5. \A a \in AudioIds, n \in Counts :
            NoTrace(doc, ReplaceAudioAsset(doc, a, [id |-> a, length |-> n]))
    BY <1>1, <1>2, ReplaceAudioLeavesNoTrace
  <1>6. \A a \in AudioIds : /\ NoTrace(doc, RemoveAudioAsset(doc, a))
                            /\ NoTrace(doc, RemoveAudioTrack(doc, a))
    BY <1>1, RemoveAudioLeavesNoTrace, RemoveTrackLeavesNoTrace
  <1>7. \A t \in Tracks, at \in Indexes : NoTrace(doc, InsertAudioTrack(doc, t, at))
    BY <1>1, <1>3, CallTypes, InsertTrackLeavesNoTrace
  <1>8. \A a \in AudioIds, t \in Tracks : NoTrace(doc, ReplaceAudioTrack(doc, a, t))
    BY <1>1, <1>3, ReplaceTrackLeavesNoTrace
  <1>9. \A a \in AudioIds, to \in Indexes : to >= 0 => NoTrace(doc, MoveAudioTrack(doc, a, to))
    BY <1>1, CallTypes, MoveTrackLeavesNoTrace
  <1> QED
    BY <1>4, <1>5, <1>6, <1>7, <1>8, <1>9, PerformKeeps DEF EditAudio

LEMMA EditClipsKeeps ==
    ASSUME DocumentCallsAssumption, DocumentTypeOK, EditClips PROVE DocumentKept
  <1>1. doc \in CanvasDocument
    BY DEF DocumentTypeOK
  <1>2. Clips \subseteq AudioClip
    BY CallTypes DEF Clips, AudioClip
  <1>3. ASSUME NEW t \in AudioIds, NEW clip \in Clips
        PROVE  /\ NoTrace(doc, InsertAudioClip(doc, t, clip))
               /\ NoTrace(doc, ReplaceAudioClip(doc, t, clip.id, clip))
    BY <1>1, <1>2, ClipCallsLeaveNoTrace
  <1>4. ASSUME NEW t \in AudioIds, NEW c \in AudioIds PROVE NoTrace(doc, RemoveAudioClip(doc, t, c))
    <2> DEFINE clip == [id |-> 0, asset |-> 0, start |-> 0, duration |-> 0, offset |-> 0]
    <2>1. clip \in AudioClip
      BY DEF AudioClip
    <2> HIDE DEF clip
    <2> QED
      BY <1>1, <2>1, ClipCallsLeaveNoTrace
  <1> QED
    BY <1>3, <1>4, PerformKeeps DEF EditClips

LEMMA EditLayersKeeps ==
    ASSUME DocumentCallsAssumption, DocumentTypeOK, EditLayers PROVE DocumentKept
  <1>1. doc \in CanvasDocument
    BY DEF DocumentTypeOK
  <1>2. NewLayers \subseteq CanvasLayer /\ Placements \subseteq Seq(KeyframePlacement)
    BY DEF DocumentCallsAssumption
  <1>3. ASSUME NEW layer \in NewLayers, NEW at \in Indexes
        PROVE  /\ NoTrace(doc, InsertStaticLayer(doc, layer, at))
               /\ NoTrace(doc, InsertLayer(doc, layer, at))
    <2>1. at \in Nat \union {AppendIndex} /\ <<>> \in Seq(KeyframePlacement)
      BY CallTypes
    <2> QED
      BY <1>1, <1>2, <2>1, InsertEitherLeavesNoTrace, InsertLayerLeavesNoTrace
  <1>4. ASSUME NEW layer \in NewLayers, NEW placements \in Placements
        PROVE  /\ NoTrace(doc, InsertDynamicLayer(doc, layer, placements, AppendDocumentIndex))
               /\ NoTrace(doc, InsertKeyframedLayer(doc, layer, placements, AppendDocumentIndex))
    <2>1. AppendDocumentIndex \in Nat \union {AppendIndex}
      BY DEF AppendDocumentIndex
    <2> QED
      BY <1>1, <1>2, <2>1, InsertEitherLeavesNoTrace, InsertKeyframedLeavesNoTrace
  <1>5. \A id \in LayerIds, layer \in NewLayers : NoTrace(doc, ReplaceLayer(doc, id, layer))
    BY <1>1, <1>2, ReplaceLayerLeavesNoTrace
  <1>6. \A id \in LayerIds, to \in LayerIds \union AudioIds : NoTrace(doc, RenameLayer(doc, id, to))
    BY <1>1, CallTypes, RenameLayerLeavesNoTrace
  <1>7. \A id \in LayerIds, to \in Indexes : to >= 0 => NoTrace(doc, MoveLayer(doc, id, to))
    BY <1>1, CallTypes, MoveLayerLeavesNoTrace
  <1>8. \A id \in LayerIds : NoTrace(doc, RemoveLayer(doc, id))
    BY <1>1, RemoveLayerLeavesNoTrace
  <1> QED
    BY <1>3, <1>4, <1>5, <1>6, <1>7, <1>8, PerformKeeps DEF EditLayers

LEMMA EditLayerPropertiesKeeps ==
    ASSUME DocumentCallsAssumption, DocumentTypeOK, EditLayerProperties PROVE DocumentKept
  <1>1. doc \in CanvasDocument
    BY DEF DocumentTypeOK
  <1>2. PICK id \in LayerIds :
            \/ \E name \in Values : Perform(SetLayerName(doc, id, name), Nothing)
            \/ \E visible \in BOOLEAN : Perform(SetLayerVisible(doc, id, visible), Nothing)
            \/ \E opacity \in {0, 2} : Perform(SetLayerOpacity(doc, id, opacity), Nothing)
            \/ \E x \in Places : Perform(SetLayerTransform(doc, id, x), Moves({id}))
            \/ \E blend \in {0, 5, 9} : Perform(SetLayerBlendMode(doc, id, blend), Nothing)
            \/ \E look \in Appearances : Perform(SetLayerAppearance(doc, id, look), Nothing)
            \/ \E range \in Ranges : Perform(SetLayerFrameRange(doc, id, range), Whole(id))
            \/ \E f \in FrameNumbers : Perform(SetLayerMotion(doc, id, <<0, f>>), Nothing)
            \/ \E from \in {0, 1}, to \in {0, 2} :
                    Perform(SetVideoPlayback(doc, id, <<from, to>>), Nothing)
    BY DEF EditLayerProperties
  <1>3. \A name \in Values : NoTrace(doc, SetLayerName(doc, id, name))
    BY <1>1, CallTypes, SetLayerNameLeavesNoTrace
  <1>4. \A visible \in BOOLEAN : NoTrace(doc, SetLayerVisible(doc, id, visible))
    BY <1>1, SetLayerVisibleLeavesNoTrace
  <1>5. \A opacity \in {0, 2} : NoTrace(doc, SetLayerOpacity(doc, id, opacity))
    BY <1>1, SetLayerOpacityLeavesNoTrace
  <1>6. \A x \in Places : NoTrace(doc, SetLayerTransform(doc, id, x))
    BY <1>1, SetLayerTransformLeavesNoTrace DEF DocumentCallsAssumption
  <1>7. \A blend \in {0, 5, 9} : NoTrace(doc, SetLayerBlendMode(doc, id, blend))
    BY <1>1, SetLayerBlendModeLeavesNoTrace
  <1>8. \A look \in Appearances : NoTrace(doc, SetLayerAppearance(doc, id, look))
    BY <1>1, SetLayerAppearanceLeavesNoTrace DEF DocumentCallsAssumption
  <1>9. \A range \in Ranges : NoTrace(doc, SetLayerFrameRange(doc, id, range))
    BY <1>1, SetLayerFrameRangeLeavesNoTrace DEF DocumentCallsAssumption
  <1>10. \A f \in FrameNumbers : NoTrace(doc, SetLayerMotion(doc, id, <<0, f>>))
    <2>1. \A f \in FrameNumbers : <<0, f>> \in Seq(Nat)
      BY CallTypes
    <2> QED
      BY <1>1, <2>1, SetLayerMotionLeavesNoTrace
  <1>11. \A from \in {0, 1}, to \in {0, 2} : NoTrace(doc, SetVideoPlayback(doc, id, <<from, to>>))
    <2>1. \A from \in {0, 1}, to \in {0, 2} : <<from, to>> \in Seq(Nat)
      OBVIOUS
    <2> QED
      BY <1>1, <2>1, SetVideoPlaybackLeavesNoTrace
  <1> QED
    BY <1>2, <1>3, <1>4, <1>5, <1>6, <1>7, <1>8, <1>9, <1>10, <1>11, PerformKeeps

LEMMA EditSourcesKeeps ==
    ASSUME DocumentCallsAssumption, DocumentTypeOK, EditSources PROVE DocumentKept
  <1>1. doc \in CanvasDocument
    BY DEF DocumentTypeOK
  <1>2. \A id \in LayerIds, a \in AssetIds : NoTrace(doc, SetStaticSource(doc, id, a))
    BY <1>1, CallTypes, SetStaticSourceLeavesNoTrace
  <1>3. \A id \in LayerIds, placements \in Placements :
            NoTrace(doc, SetKeyframedSource(doc, id, placements))
    BY <1>1, CallTypes, SetKeyframedSourceLeavesNoTrace DEF DocumentCallsAssumption
  <1> QED
    BY <1>2, <1>3, PerformKeeps DEF EditSources

LEMMA EditKeyframesKeeps ==
    ASSUME DocumentCallsAssumption, DocumentTypeOK, EditKeyframes PROVE DocumentKept
  <1>1. doc \in CanvasDocument
    BY DEF DocumentTypeOK
  <1>2. \A id \in LayerIds, f \in FrameNumbers, a \in AssetIds :
            /\ NoTrace(doc, InsertKeyframe(doc, id, f, a))
            /\ NoTrace(doc, SetKeyframeAsset(doc, id, f, a))
    BY <1>1, CallTypes, InsertKeyframeLeavesNoTrace, SetKeyframeAssetLeavesNoTrace
  <1>3. ASSUME NEW id \in LayerIds, NEW f \in FrameNumbers, NEW a \in AssetIds,
               NEW kind \in {"Raster", "Vector"}, NEW v \in Values
        PROVE  NoTrace(doc, SetDynamicFrameContent(doc, id, f, Visual(a, kind, <<v>>)))
    <2>1. id \in Nat /\ f \in Nat /\ a \in Nat /\ v \in STRING
      BY CallTypes
    <2>2. kind \in AssetKind
      BY DEF AssetKind
    <2>3. <<v>> \in Seq(STRING)
      BY <2>1, Tuples
    <2>4. Visual(a, kind, <<v>>) \in VisualAsset
      BY <2>1, <2>2, <2>3, VisualType
    <2> QED
      BY <1>1, <2>1, <2>4, SetContentLeavesNoTrace
  <1>4. \A id \in LayerIds, f, to \in FrameNumbers : NoTrace(doc, MoveKeyframe(doc, id, f, to))
    BY <1>1, CallTypes, MoveKeyframeLeavesNoTrace
  <1>5. \A id \in LayerIds, f \in FrameNumbers : NoTrace(doc, RemoveKeyframe(doc, id, f))
    BY <1>1, RemoveKeyframeLeavesNoTrace
  <1> QED
    BY <1>2, <1>3, <1>4, <1>5, PerformKeeps DEF EditKeyframes

LEMMA EditControlAssetsKeeps ==
    ASSUME DocumentCallsAssumption, DocumentTypeOK, EditControlAssets PROVE DocumentKept
  <1>1. /\ doc \in CanvasDocument /\ session.kind \in ControlKind
        /\ session.parts \subseteq STRING
    BY DEF DocumentTypeOK, EditControlAssets, DocumentCallsAssumption
  <1>2. AppendDocumentIndex \in Nat \union {AppendIndex}
    BY DEF AppendDocumentIndex
  <1>3. PICK a \in AssetIds, v \in session.parts, w \in session.parts :
            \/ Perform(InsertAssetOf(session.kind, doc, a, <<v, w>>, AppendDocumentIndex), Nothing)
            \/ Perform(ReplaceAssetOf(session.kind, doc, a, <<v, w>>), Asset(a))
            \/ \E i \in 0 .. 2 : Perform(SetPartOf(session.kind, doc, a, i, v), Asset(a))
    BY DEF EditControlAssets
  <1>4. a \in Nat /\ v \in STRING /\ w \in STRING
    BY <1>1, CallTypes
  <1>5. <<v, w>> \in Seq(STRING)
    BY <1>4, Tuples
  <1>6. /\ NoTrace(doc, InsertAssetOf(session.kind, doc, a, <<v, w>>, AppendDocumentIndex))
        /\ NoTrace(doc, ReplaceAssetOf(session.kind, doc, a, <<v, w>>))
    <2> DEFINE kind == session.kind
               parts == <<v, w>>
               at == AppendDocumentIndex
    <2>1. kind \in ControlKind /\ parts \in Seq(STRING) /\ at \in Nat \union {AppendIndex}
      BY <1>1, <1>2, <1>5
    <2> HIDE DEF kind, parts, at
    <2>2. /\ InsertAssetOf(kind, doc, a, parts, at) = InsertControlAsset(doc, kind, a, parts, at)
          /\ ReplaceAssetOf(kind, doc, a, parts) = ReplaceControlAsset(doc, kind, a, parts)
      BY <2>1, AssetCallsOf
    <2>3. /\ NoTrace(doc, InsertControlAsset(doc, kind, a, parts, at))
          /\ NoTrace(doc, ReplaceControlAsset(doc, kind, a, parts))
      BY <1>1, <1>4, <2>1, ControlAssetLeavesNoTrace
    <2> QED
      BY <2>2, <2>3 DEF kind, parts, at
  <1>7. \A i \in 0 .. 2 : NoTrace(doc, SetPartOf(session.kind, doc, a, i, v))
    <2> TAKE i \in 0 .. 2
    <2>1. PICK refused : SetPartOf(session.kind, doc, a, i, v) = SetPart(doc, session.kind, a, i, refused, v)
      BY <1>1, PartCallsOf
    <2> QED
      BY <1>1, <1>4, <2>1, SetPartLeavesNoTrace
  <1> QED
    BY <1>3, <1>6, <1>7, PerformKeeps

LEMMA EditControlLayersKeeps ==
    ASSUME DocumentCallsAssumption, DocumentTypeOK, EditControlLayers PROVE DocumentKept
  <1>1. /\ doc \in CanvasDocument /\ session.kind \in ControlKind \union {"SemanticSegment"}
        /\ HasRole(session.kind) /\ TextsAreStrings /\ session.parts \subseteq STRING
        /\ NewLayers \subseteq CanvasLayer /\ Placements \subseteq Seq(KeyframePlacement)
        /\ "s2" \in STRING /\ "bad" \in STRING /\ "A" \in STRING /\ "B" \in STRING
    BY DEF DocumentTypeOK, EditControlLayers, DocumentCallsAssumption, Called, TextsAreStrings,
           HasRole
  <1>2. AppendDocumentIndex \in Nat \union {AppendIndex}
    BY DEF AppendDocumentIndex
  <1>3. \A layer \in NewLayers, placements \in Placements :
            NoTrace(doc, InsertLayerOf(session.kind, doc, layer, placements, AppendDocumentIndex))
    <2> TAKE layer \in NewLayers, placements \in Placements
    <2> DEFINE kind == session.kind
               at == AppendDocumentIndex
    <2>1. /\ kind \in ControlKind \union {"SemanticSegment"} /\ kind \in LayerKind
          /\ HasRole(kind) /\ at \in Nat \union {AppendIndex}
          /\ layer \in CanvasLayer /\ placements \in Seq(KeyframePlacement)
      BY <1>1, <1>2, ControlKinds
    <2> HIDE DEF kind, at
    <2>2. InsertLayerOf(kind, doc, layer, placements, at) =
                InsertControlLayer(doc, kind, layer, placements, at)
      BY <2>1, LayerCallsOf
    <2>3. NoTrace(doc, InsertControlLayer(doc, kind, layer, placements, at))
      BY <1>1, <2>1, ControlLayerLeavesNoTrace
    <2> QED
      BY <2>2, <2>3 DEF kind, at
  <1>4. \A id \in LayerIds, setup \in {"s2", "bad"} :
            /\ NoTrace(doc, SetReferenceSettings(doc, id, setup))
            /\ NoTrace(doc, SetSemanticSegmentation(doc, id, setup))
    <2>1. HasSetup("Reference") /\ HasSetup("SemanticSegment")
      BY DEF HasSetup
    <2> QED
      BY <1>1, <2>1, SetSetupLeavesNoTrace DEF SetReferenceSettings, SetSemanticSegmentation
  <1>5. ASSUME NEW id \in LayerIds, NEW model \in {"A", "B"}, NEW scale \in {0, 2}
        PROVE  /\ NoTrace(doc, SetControlNetSettings(doc, id, [model |-> model, scale |-> scale]))
               /\ NoTrace(doc, PatchControlNetSettings(doc, id, [model |-> model]))
               /\ NoTrace(doc, PatchControlNetSettings(doc, id, [scale |-> scale]))
    <2>1. model \in STRING /\ scale \in Nat
      BY <1>1
    <2>2. [model |-> model, scale |-> scale] \in ControlSettings
      BY <2>1 DEF ControlSettings
    <2>3. NoTrace(doc, SetControlNetSettings(doc, id, [model |-> model, scale |-> scale]))
      BY <1>1, <2>2, SettingsLeaveNoTrace
    <2> DEFINE one == [model |-> model]
               other == [scale |-> scale]
    <2>4. /\ "model" \in DOMAIN one => one.model \in STRING
          /\ "scale" \in DOMAIN one => one.scale \in Nat
      BY <2>1
    <2>5. /\ "model" \in DOMAIN other => other.model \in STRING
          /\ "scale" \in DOMAIN other => other.scale \in Nat
      BY <2>1
    <2> HIDE DEF one, other
    <2>6. NoTrace(doc, PatchControlNetSettings(doc, id, one))
      BY <1>1, <2>4, PatchLeavesNoTrace
    <2>7. NoTrace(doc, PatchControlNetSettings(doc, id, other))
      BY <1>1, <2>5, PatchLeavesNoTrace
    <2> QED
      BY <2>3, <2>6, <2>7 DEF one, other
  <1>6. ASSUME NEW id \in LayerIds, NEW layer \in ToSet(doc.layers),
               NEW a \in ToSet(doc.assets), NEW b \in ToSet(doc.assets),
               NEW v \in session.parts, NEW model \in {"A", "B"},
               NEW given \in {<<[a EXCEPT !.parts = <<v, v>>]>>, <<[a EXCEPT !.parts = <<v, v>>], b>>}
        PROVE  NoTrace(doc, SetControlNetParameters(doc, id, WithModel(layer, model), given))
    <2>1. layer \in CanvasLayer /\ a \in VisualAsset /\ b \in VisualAsset
      <3>1. \A S : \A s \in Seq(S) : \A e \in ToSet(s) : e \in S
        BY LenProperties, ElementOfSeq DEF ToSet
      <3> QED
        BY <1>1, <3>1, FieldTypes
    <2>2. v \in STRING /\ model \in STRING
      BY <1>1
    <2> DEFINE copy == [a EXCEPT !.parts = <<v, v>>]
               control == [layer.control EXCEPT !.model = model]
               typed == [layer EXCEPT !.control = control]
    <2>3. copy \in VisualAsset
      <3>1. <<v, v>> \in Seq(STRING)
        BY <2>2, Tuples
      <3> QED
        BY <2>1, <3>1, PartsType
    <2>4. given \in Seq(VisualAsset)
      <3>1. given = <<copy>> \/ given = <<copy, b>>
        OBVIOUS
      <3> HIDE DEF copy
      <3> QED
        BY <2>1, <2>3, <3>1, Tuples
    <2>5. control \in ControlSettings
      BY <2>1, <2>2, LayerFieldTypes DEF ControlSettings
    <2>6. WithModel(layer, model) = IF HasRole(layer.kind) THEN typed ELSE layer
      BY DEF WithModel
    <2> HIDE DEF control
    <2>7. HasRole(layer.kind) => typed \in CanvasLayer
      BY <2>1, <2>5, SettingsChange
    <2> HIDE DEF typed
    <2>8. WithModel(layer, model) \in CanvasLayer
      BY <2>1, <2>6, <2>7
    <2> HIDE DEF WithModel
    <2> QED
      BY <1>1, <2>4, <2>8, ParametersLeaveNoTrace
  <1>7. CASE \E layer \in NewLayers, placements \in Placements :
                Perform(InsertLayerOf(session.kind, doc, layer, placements, AppendDocumentIndex), Nothing)
    BY <1>3, <1>7, PerformKeeps
  <1>8. CASE \E id \in LayerIds, setup \in {"s2", "bad"} :
                \/ Perform(SetReferenceSettings(doc, id, setup), Nothing)
                \/ Perform(SetSemanticSegmentation(doc, id, setup), Nothing)
    BY <1>4, <1>8, PerformKeeps
  <1>9. CASE \E id \in LayerIds, model \in {"A", "B"}, scale \in {0, 2} :
                \/ Perform(SetControlNetSettings(doc, id, [model |-> model, scale |-> scale]), Nothing)
                \/ Perform(PatchControlNetSettings(doc, id, [model |-> model]), Nothing)
                \/ Perform(PatchControlNetSettings(doc, id, [scale |-> scale]), Nothing)
    BY <1>5, <1>9, PerformKeeps
  <1>10. CASE \E id \in LayerIds, layer \in ToSet(doc.layers), a, b \in ToSet(doc.assets),
                v \in session.parts, model \in {"A", "B"} :
                \E given \in {<<[a EXCEPT !.parts = <<v, v>>]>>, <<[a EXCEPT !.parts = <<v, v>>], b>>} :
                    Perform(SetControlNetParameters(doc, id, WithModel(layer, model), given),
                            Asset(a.id))
    <2>1. PICK id \in LayerIds, layer \in ToSet(doc.layers), a \in ToSet(doc.assets),
               b \in ToSet(doc.assets), v \in session.parts, model \in {"A", "B"} :
                \E given \in {<<[a EXCEPT !.parts = <<v, v>>]>>, <<[a EXCEPT !.parts = <<v, v>>], b>>} :
                    Perform(SetControlNetParameters(doc, id, WithModel(layer, model), given),
                            Asset(a.id))
      BY <1>10
    <2>2. PICK given \in {<<[a EXCEPT !.parts = <<v, v>>]>>, <<[a EXCEPT !.parts = <<v, v>>], b>>} :
                    Perform(SetControlNetParameters(doc, id, WithModel(layer, model), given),
                            Asset(a.id))
      BY <2>1
    <2>3. NoTrace(doc, SetControlNetParameters(doc, id, WithModel(layer, model), given))
      BY <1>6
    <2> QED
      BY <2>2, <2>3, PerformKeeps
  <1> QED
    BY <1>7, <1>8, <1>9, <1>10 DEF EditControlLayers

LEMMA EditArtboardKeeps ==
    ASSUME DocumentCallsAssumption, DocumentTypeOK, EditArtboard PROVE DocumentKept
  <1>1. doc \in CanvasDocument
    BY DEF DocumentTypeOK
  <1>2. Places \subseteq Int /\ "n" \in STRING
    BY DEF DocumentCallsAssumption, TextsAreStrings
  <1>3. ASSUME NEW b \in BoardIds, NEW x \in Places, NEW at \in Indexes
        PROVE  NoTrace(doc, InsertArtboard(doc, [id |-> b, origin |-> x, width |-> 2, name |-> "n",
                                                 background |-> 0, visible |-> TRUE], at))
    <2> DEFINE board == [id |-> b, origin |-> x, width |-> 2, name |-> "n",
                         background |-> 0, visible |-> TRUE]
    <2>1. board \in Artboard
      BY <1>2, CallTypes DEF Artboard
    <2> HIDE DEF board
    <2>2. NoTrace(doc, InsertArtboard(doc, board, at))
      BY <1>1, <2>1, CallTypes, InsertArtboardLeavesNoTrace
    <2> QED
      BY <2>2 DEF board
  <1>4. ASSUME NEW b \in BoardIds
        PROVE  /\ \A v \in Values : NoTrace(doc, SetArtboardName(doc, b, v))
               /\ \A x \in Places, n \in Counts : NoTrace(doc, SetArtboardRegion(doc, b, x, n))
               /\ \A argb \in {0, 1} : NoTrace(doc, SetArtboardBackground(doc, b, argb))
               /\ \A visible \in BOOLEAN : NoTrace(doc, SetArtboardVisible(doc, b, visible))
    <2>1. /\ \A v \in Values : v \in STRING
          /\ \A x \in Places : x \in Int
          /\ \A n \in Counts : n \in Int
          /\ \A argb \in {0, 1} : argb \in Nat
      BY <1>2, CallTypes
    <2> QED
      BY <1>1, <2>1, ArtboardSettersLeaveNoTrace
  <1>5. \A b \in BoardIds, to \in Indexes : to >= 0 => NoTrace(doc, MoveArtboard(doc, b, to))
    BY <1>1, CallTypes, MoveArtboardLeavesNoTrace
  <1>6. \A removal : \A b \in BoardIds : NoTrace(doc, RemoveArtboard(doc, b, removal))
    BY <1>1, RemoveArtboardLeavesNoTrace
  <1>7. \A id \in LayerIds, b \in BoardIds \union {0} : NoTrace(doc, SetLayerArtboard(doc, id, b))
    BY <1>1, CallTypes, SetLayerArtboardLeavesNoTrace
  <1>8. \A b, c \in BoardIds, x \in Places, at \in Indexes :
            NoTrace(doc, DuplicateArtboard(doc, b, c, x, at))
    BY <1>1, <1>2, CallTypes, DuplicateArtboardLeavesNoTrace
  <1> QED
    BY <1>3, <1>4, <1>5, <1>6, <1>7, <1>8, PerformKeeps DEF EditArtboard

-----------------------------------------------------------------------------
(* Every step, and every run                                                 *)

(* Every step keeps the type, and what is not an edit keeps the document.    *)
LEMMA DocumentStep ==
    ASSUME DocumentCallsAssumption, DocumentTypeOK, [Next]_vars PROVE DocumentKept
  <1>1. CASE UNCHANGED vars
    BY <1>1 DEF vars, countVars, DocumentKept, DocumentTypeOK
  <1>2. CASE Bind
    <2>1. /\ doc' = doc /\ session' = session /\ revision' = 0 /\ unreported' = 0
          /\ binding' \in {"memory", "file"}
      BY <1>2 DEF Bind
    <2> QED
      BY <2>1 DEF DocumentKept, DocumentTypeOK
  <1>3. CASE Unbind \/ FileGoes
    <2>1. /\ doc' = doc /\ session' = session /\ revision' \in {0, revision}
          /\ unreported' \in {0, unreported} /\ binding' \in {"none", "lost"}
      BY <1>3 DEF Unbind, FileGoes, countVars
    <2> QED
      BY <2>1 DEF DocumentKept, DocumentTypeOK
  <1> QED
    BY <1>1, <1>2, <1>3, EditCanvasKeeps, EditMetadataKeeps, EditAssetsKeeps, EditPathsKeeps,
       EditAudioKeeps, EditClipsKeeps, EditLayersKeeps, EditLayerPropertiesKeeps, EditSourcesKeeps,
       EditKeyframesKeeps, EditControlAssetsKeeps, EditControlLayersKeeps, EditArtboardKeeps
       DEF Next

(* Whatever is called with values of the types of the interface, in whatever *)
(* order, applied, refused or failed: what the editor holds is a document,    *)
(* with the types of Document.h, a binding and a revision                    *)
(* (DocumentEditor's operations, Document.h).                                *)
THEOREM DocumentTypeCorrect ==
    DocumentCallsAssumption => (Spec => []DocumentTypeOK)
  <1> SUFFICES ASSUME DocumentCallsAssumption PROVE Spec => []DocumentTypeOK
    OBVIOUS
  <1>1. Init => DocumentTypeOK
    BY DEF Init, DocumentTypeOK, DocumentCallsAssumption
  <1>2. DocumentTypeOK /\ [Next]_vars => DocumentTypeOK'
    BY DocumentStep DEF DocumentKept
  <1> QED
    BY <1>1, <1>2, PTL DEF Spec

(* An operation that is refused, that finds nothing to do, whose result does *)
(* not validate or whose file does not take it leaves the document exactly   *)
(* as it was.  In a file it worked on a draft; in memory it has put back     *)
(* what it changed, piece by piece, and the pieces make up the same document *)
(* (the rollbacks of DocumentEditor.cpp, editArtboards(), editFile()).  What *)
(* a file commits and then reports as failed (DocumentFile.cpp:519-528) is   *)
(* the one edit an editor does not count; it validated.                      *)
THEOREM RejectedEditLeavesNoTraceCorrect ==
    DocumentCallsAssumption => (Spec => RejectedEditLeavesNoTrace)
  <1> SUFFICES ASSUME DocumentCallsAssumption PROVE Spec => RejectedEditLeavesNoTrace
    OBVIOUS
  <1>1. DocumentTypeOK /\ [Next]_vars =>
            [revision' # revision + 1 =>
                \/ doc' = doc
                \/ /\ binding = "file" /\ binding' = "file" /\ Valid(doc')
                   /\ unreported' = unreported + 1]_vars
    BY DocumentStep DEF DocumentKept
  <1>2. Spec => []DocumentTypeOK
    BY DocumentTypeCorrect
  <1> QED
    BY <1>1, <1>2, PTL DEF Spec, RejectedEditLeavesNoTrace

(* Whatever is renamed, moved, copied or removed, every reference of the     *)
(* document finds what it names, the frames stay sorted and the index of a   *)
(* keyframed layer lists the frames that own its keyframes, if the document  *)
(* to start from is like that.  Where validate() decides (ValidateLayers()   *)
(* and the rest of ValidateDocument()) it has looked; what ends without it   *)
(* (renameLayer(), removeLayer(), moveVisualAsset() and their like) keeps it *)
(* by what it does, and a rollback by putting everything back.               *)
THEOREM ReferencesResolveCorrect ==
    DocumentCallsAssumption /\ SessionsAssumption => (Spec => []ReferencesResolve)
  <1> SUFFICES ASSUME DocumentCallsAssumption, SessionsAssumption
               PROVE  Spec => []ReferencesResolve
    OBVIOUS
  <1> DEFINE EveryReferenceResolves == EachResolves(doc)
  <1>1. Init => EveryReferenceResolves
    <2>1. Init => Resolves(doc)
      BY DEF Init, SessionsAssumption
    <2> QED
      BY <2>1, AllThenEachResolves
  <1>2. DocumentTypeOK /\ EveryReferenceResolves /\ [Next]_vars => EveryReferenceResolves'
    BY DocumentStep DEF DocumentKept
  <1>3. EveryReferenceResolves => ReferencesResolve
    BY EachThenAllResolve DEF ReferencesResolve
  <1>4. Spec => []DocumentTypeOK
    BY DocumentTypeCorrect
  <1> HIDE DEF EveryReferenceResolves
  <1> QED
    BY <1>1, <1>2, <1>3, <1>4, PTL DEF Spec
===============================================================================
