------------------------------- MODULE MCEditors -------------------------------
(***************************************************************************)
(* What an application does to documents and projects: the structural       *)
(* editors of a document and of a timeline project, the editor of the paths *)
(* of a drawing, and the upgrade of a file.  They share no state, so a      *)
(* behaviour works with one of them, chosen by Init.                         *)
(***************************************************************************)
EXTENDS MCDocumentEditor, StoredDocument, RenderedDocument, TimelineEditor, VectorEditor,
        IiscUpgrade

VARIABLE work       \* "document", "timeline", "drawing" or "upgrade"

Samples == INSTANCE TimelineProjects
MCTimelineSessions == Samples!SampleSessions
MCTimelinePlaces == {AppendIndex, 1}

(* The values these sessions give have the types that calls take.            *)
ASSUME TimelineSessionsAreTyped == TimelineCallsAssumption

(* Files of older versions, current ones and one that is corrupt; others put *)
(* a snapshot or a current working file in their place.                      *)
MCInputs ==
    {Snapshot(Infinite), WorkingFile(Filmed), WorkingFile(Boarded), File("working", {}, 0)}
MCReplacements == {Snapshot(Prompted), WorkingFile(Stacked)}

(* A drawing of two paths, one of them with a curve, and one that is not     *)
(* valid.                                                                    *)
Outline == Path(<<MoveTo("p"), QuadraticTo("p", "q"), ClosePath>>, <<"red">>, <<>>)
Line == Path(<<MoveTo("p"), LineTo("q")>>, <<>>, <<1>>)
Headless == Path(<<LineTo("q")>>, <<"red">>, <<>>)

MCNewPaths == {Line, Headless}
MCNewCommands == {LineTo("nan"), CubicTo("p", "q", "q"), ClosePath}
MCOtherDrawings == {Vector(1, <<Outline, Line>>), Vector(0, <<Line>>)}

ASSUME DocumentValuesAreTyped == DocumentCallsAssumption
ASSUME DocumentsAreWhole == SessionsAssumption
ASSUME DrawingValuesAreTyped == DrawingCallsAssumption
ASSUME UpgradeFilesAreWritten == UpgradeFilesAssumption

editorsVars == <<storedVars, timelineVars, upgradeVars, drawingVars, work>>

NoDocument == StoredInit /\ session = Session(Blank, {}, 0)
NoTimeline == TimelineInit /\ timelineSession = Samples!NestingSession
NoUpgrade == UpgradeInit /\ input = WorkingFile(Boarded)
NoDrawing == DrawingInit /\ assets = [id \in DrawingIds |-> NoVector]

(* What is not worked with stays as it is.                                   *)
EditorsInit ==
    \/ work = "document" /\ StoredInit /\ NoTimeline /\ NoUpgrade /\ NoDrawing
    \/ work = "timeline" /\ NoDocument /\ TimelineInit /\ NoUpgrade /\ NoDrawing
    \/ work = "upgrade" /\ NoDocument /\ NoTimeline /\ UpgradeInit /\ NoDrawing
    \/ work = "drawing" /\ NoDocument /\ NoTimeline /\ NoUpgrade /\ DrawingInit

EditDocument ==
    work = "document" /\ StoredNext /\ UNCHANGED <<timelineVars, upgradeVars, drawingVars, work>>
EditTimeline ==
    work = "timeline" /\ TimelineNext /\ UNCHANGED <<storedVars, upgradeVars, drawingVars, work>>
Upgrade ==
    work = "upgrade" /\ UpgradeNext /\ UNCHANGED <<storedVars, timelineVars, drawingVars, work>>
EditDrawing ==
    work = "drawing" /\ DrawingNext /\ UNCHANGED <<storedVars, timelineVars, upgradeVars, work>>

EditorsNext == EditDocument \/ EditTimeline \/ Upgrade \/ EditDrawing

EditorsSpec == EditorsInit /\ [][EditorsNext]_editorsVars

(* At the far place a motion overflows from its second key on, and so does   *)
(* one mask at once; no filter of a changed appearance takes a video.        *)
MCTransformFits(x, motion, f) == ~(x = 5 /\ Len(motion) > 1 /\ f >= motion[2])
MCMaskFits(x, motion, id, f) == ~(x = 5 /\ id = 3)
MCFiltersApply(appearance, asset) == asset.kind = "Video" => appearance = PlainAppearance

(* Limits that some edits of the larger documents reach.                     *)
MCLimits ==
    [assets |-> 5, layers |-> 5, boards |-> 3, frames |-> 3, audio |-> 3, tracks |-> 3,
     keyframes |-> 5, motion |-> 2, clips |-> 2, samples |-> 6, entries |-> 2, pixels |-> 7,
     parts |-> 6, texts |-> 34]
===============================================================================
