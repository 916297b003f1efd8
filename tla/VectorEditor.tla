------------------------------ MODULE VectorEditor ------------------------------
(***************************************************************************)
(* VectorEditor bound to one vector asset of a document, in memory or       *)
(* through a working file.  Every call looks the asset up by its id again:  *)
(* others remove it, give its id to content of another kind, or change the  *)
(* document so that it is not valid any more.  Most calls copy a path,      *)
(* change one command of the copy and hand it to the document editor, which *)
(* validates and commits it.  What a call returned is not kept: no operation *)
(* reads it.                                                                 *)
(***************************************************************************)
EXTENDS Items

CONSTANTS
    DrawingIds,     \* of the assets of the document
    Extents,        \* viewports that calls set
    Numbers,        \* paths, commands and points that calls name, from 1
    Plane,          \* the points that commands can have
    Points, NaN,    \* where calls lead commands; NaN is not finite
    NewPaths,       \* paths that calls insert
    NewCommands,    \* commands that calls insert or put in the place of others
    OtherDrawings,  \* vector assets that others put in the document
    MaxEdits        \* bound on the edits of the editor, reported or not

VARIABLES
    assets,         \* the assets of the document
    drawingBinding, \* "none", "memory", "file" or "lost"
    assetId,        \* m_assetId
    edits,          \* m_documentEditor.revision()
    failedEdits     \* edits that the file kept and reported as failed

drawingVars == <<assets, drawingBinding, assetId, edits, failedEdits>>

-----------------------------------------------------------------------------
(* A command has its control points and then its anchor.                     *)

Command(kind, points) == [kind |-> kind, points |-> points]
MoveTo(p) == Command("MoveTo", <<p>>)
LineTo(p) == Command("LineTo", <<p>>)
QuadraticTo(c, p) == Command("QuadraticTo", <<c, p>>)
CubicTo(c1, c2, p) == Command("CubicTo", <<c1, c2, p>>)
ClosePath == Command("ClosePath", <<>>)

(* A stroke is its width; <<>> in place of a paint is none.                  *)
Path(commands, fill, stroke) == [commands |-> commands, fill |-> fill, stroke |-> stroke]
Fills == {<<>>, <<"red">>}
Strokes == {<<>>, <<0>>, <<1>>}

PathCommand ==
    [kind : {"MoveTo", "LineTo", "QuadraticTo", "CubicTo", "ClosePath"}, points : Seq(Plane)]

VectorPath == [commands : Seq(PathCommand), fill : Fills, stroke : Strokes]

VectorAsset == [kind : {"Vector", "other"}, viewport : Int, paths : Seq(VectorPath)]

(* What calls and others give has the type it is given as.                   *)
DrawingCallsAssumption ==
    /\ Extents \subseteq Int /\ Numbers \subseteq Nat \ {0}
    /\ Points \union {NaN} \subseteq Plane
    /\ NewCommands \subseteq PathCommand /\ NewPaths \subseteq VectorPath
    /\ OtherDrawings \subseteq VectorAsset

Vector(viewport, paths) == [kind |-> "Vector", viewport |-> viewport, paths |-> paths]

(* An image has taken the id, or nothing has it.                             *)
NoVector == [kind |-> "other", viewport |-> 1, paths |-> <<>>]

ValidPath(path) ==
    /\ path.commands # <<>> /\ Head(path.commands).kind = "MoveTo"
    /\ path.fill # <<>> \/ path.stroke # <<>>
    /\ path.stroke # <<0>>
    /\ \A command \in ToSet(path.commands) : NaN \notin ToSet(command.points)

ValidVector(asset) == asset.viewport > 0 /\ \A path \in ToSet(asset.paths) : ValidPath(path)

(* An invalid drawing stands for whatever can be wrong in a document.        *)
ValidDocument == \A id \in DrawingIds : ValidVector(assets[id])

IsVector(id) == assets[id].kind = "Vector"

-----------------------------------------------------------------------------
(* A call through the document editor: what it validates and commits.  A    *)
(* file may fail to commit, and may be detached by that; it may also commit  *)
(* and still report a failure, which the editor then does not count.         *)
Call(refused, same, new) ==
    LET accepted ==
            /\ drawingBinding # "lost" /\ ValidDocument /\ IsVector(assetId)
            /\ ~refused /\ ~same /\ ValidVector(new)
        Edit ==
            /\ accepted
            /\ assets' = [assets EXCEPT ![assetId] = new]
            /\ \/ edits' = edits + 1 /\ UNCHANGED failedEdits
               \/ drawingBinding = "file" /\ failedEdits' = failedEdits + 1 /\ UNCHANGED edits
            /\ UNCHANGED drawingBinding
        NoEdit ==
            /\ accepted => drawingBinding = "file"
            /\ \/ UNCHANGED drawingBinding
               \/ accepted /\ drawingBinding' = "lost"
            /\ UNCHANGED <<assets, edits, failedEdits>>
    IN  /\ drawingBinding # "none" /\ edits + failedEdits < MaxEdits
        /\ Edit \/ NoEdit
        /\ UNCHANGED assetId

Bound == assets[assetId]
Drawing(paths) == [Bound EXCEPT !.paths = paths]

SetViewport(extent) ==
    Call(FALSE, Bound.viewport = extent, [Bound EXCEPT !.viewport = extent])

InsertPath(path, at) ==
    Call(IsOutside(at, Bound.paths), FALSE, Drawing(Inserted(Bound.paths, at, path)))

CreatePath(start, fill, stroke, at) == InsertPath(Path(<<MoveTo(start)>>, fill, stroke), at)

MovePath(p, to) ==
    Call(p > Len(Bound.paths) \/ to >= Len(Bound.paths), p = to + 1,
         Drawing(MoveElement(Bound.paths, p, to)))

RemovePath(p) == Call(p > Len(Bound.paths), FALSE, Drawing(RemoveAt(Bound.paths, p)))

-----------------------------------------------------------------------------
(* copyPath() and replacePath(): one path of the asset, changed.             *)

CommandsOf(p) == Bound.paths[p].commands

EditPath(p, refused, same, path) ==
    Call(p > Len(Bound.paths) \/ refused, same, Drawing(ReplaceAt(Bound.paths, p, path)))

EditCommands(p, refused, same, commands) ==
    EditPath(p, refused, same, [Bound.paths[p] EXCEPT !.commands = commands])

InsertCommand(p, at, command) ==
    EditCommands(p, IsOutside(at, CommandsOf(p)), FALSE, Inserted(CommandsOf(p), at, command))

AppendMoveTo(p, point) == InsertCommand(p, AppendIndex, MoveTo(point))
AppendLineTo(p, point) == InsertCommand(p, AppendIndex, LineTo(point))
AppendQuadraticBezierTo(p, c, point) == InsertCommand(p, AppendIndex, QuadraticTo(c, point))
AppendCubicBezierTo(p, c1, c2, point) == InsertCommand(p, AppendIndex, CubicTo(c1, c2, point))

ReplaceCommand(p, c, command) ==
    EditCommands(p, c > Len(CommandsOf(p)), CommandsOf(p)[c] = command,
                 ReplaceAt(CommandsOf(p), c, command))

RemoveCommand(p, c) ==
    EditCommands(p, c > Len(CommandsOf(p)), FALSE, RemoveAt(CommandsOf(p), c))

EndsClosed(commands) == commands # <<>> /\ Last(commands) = ClosePath

CloseOf(p) == EditCommands(p, FALSE, EndsClosed(CommandsOf(p)), Append(CommandsOf(p), ClosePath))
OpenOf(p) == EditCommands(p, FALSE, ~EndsClosed(CommandsOf(p)), Front(CommandsOf(p)))

\* Mutant: a point that is there already is put there again.
SetPointAgain(p, c, n, point, refused) ==
    EditCommands(p, c > Len(CommandsOf(p)) \/ refused, FALSE,
                 ReplaceAt(CommandsOf(p), c, [CommandsOf(p)[c] EXCEPT !.points[n] = point]))

(* The n-th point of a command; a ClosePath has none.                        *)
SetPoint(p, c, n, point, refused) ==
    LET command == CommandsOf(p)[c]
    IN  EditCommands(p, c > Len(CommandsOf(p)) \/ refused, command.points[n] = point,
                     ReplaceAt(CommandsOf(p), c, [command EXCEPT !.points[n] = point]))

SetAnchorPoint(p, c, point) ==
    LET points == CommandsOf(p)[c].points
    IN  SetPoint(p, c, Len(points), point, points = <<>>)

SetControlPoint(p, c, n, point) ==
    SetPoint(p, c, n, point, n >= Len(CommandsOf(p)[c].points))

SetPathPaint(p, fill, stroke) ==
    EditPath(p, FALSE, Bound.paths[p].fill = fill /\ Bound.paths[p].stroke = stroke,
             [Bound.paths[p] EXCEPT !.fill = fill, !.stroke = stroke])

-----------------------------------------------------------------------------
(* The steps                                                                 *)

Fresh == OtherDrawings \union {NoVector}

(* bind(): the editor starts on assets nobody has drawn in, which bounds     *)
(* what a behaviour draws.                                                   *)
BindDrawing(id) ==
    /\ \A other \in DrawingIds : assets[other] \in Fresh
    /\ edits' = 0 /\ failedEdits' = 0
    /\ IF ValidDocument /\ IsVector(id)
       THEN drawingBinding' \in {"memory", "file"} /\ assetId' = id
       ELSE drawingBinding' = "none" /\ assetId' = 0
    /\ UNCHANGED assets

UnbindDrawing ==
    /\ drawingBinding' = "none" /\ assetId' = 0 /\ edits' = 0 /\ failedEdits' = 0
    /\ UNCHANGED assets

DrawingFileGoes ==
    /\ drawingBinding = "file" /\ drawingBinding' = "lost"
    /\ UNCHANGED <<assets, assetId, edits, failedEdits>>

(* Other editors change the assets; the owner of a document in memory can    *)
(* also do what no editor accepts.                                           *)
PutAsset(id, asset) ==
    /\ ValidVector(asset) \/ drawingBinding \in {"none", "memory"}
    /\ assets' = [assets EXCEPT ![id] = asset]
    /\ UNCHANGED <<drawingBinding, assetId, edits, failedEdits>>

Indices == {n - 1 : n \in Numbers}

EditDrawnPaths ==
    \/ \E extent \in Extents : SetViewport(extent)
    \/ \E path \in NewPaths, at \in Indices \union {AppendIndex} : InsertPath(path, at)
    \/ \E fill \in Fills, stroke \in Strokes : CreatePath(NaN, fill, stroke, AppendIndex)
    \/ \E p \in Numbers : RemovePath(p) \/ \E to \in Indices : MovePath(p, to)
    \/ \E p \in Numbers, fill \in Fills, stroke \in Strokes : SetPathPaint(p, fill, stroke)

EditCommandsOf(p) ==
    \/ \E command \in NewCommands :
            \/ \E at \in Indices \union {AppendIndex} : InsertCommand(p, at, command)
            \/ \E c \in Numbers : ReplaceCommand(p, c, command)
    \/ \E c \in Numbers : RemoveCommand(p, c)
    \/ CloseOf(p) \/ OpenOf(p)

EditPoints(p) ==
    \E point \in Points :
        \/ AppendMoveTo(p, point) \/ AppendLineTo(p, point)
        \/ \E control \in Points : AppendQuadraticBezierTo(p, control, point)
                                   \/ AppendCubicBezierTo(p, control, point, point)
        \/ \E c \in Numbers : SetAnchorPoint(p, c, point)
                             \/ \E n \in Numbers : SetControlPoint(p, c, n, point)

DrawingInit ==
    /\ assets \in [DrawingIds -> Fresh] /\ \A id \in DrawingIds : ValidVector(assets[id])
    /\ drawingBinding = "none" /\ assetId = 0 /\ edits = 0 /\ failedEdits = 0

DrawingNext ==
    \/ \E id \in DrawingIds : BindDrawing(id) \/ \E asset \in Fresh : PutAsset(id, asset)
    \/ UnbindDrawing \/ DrawingFileGoes
    \/ EditDrawnPaths
    \/ \E p \in Numbers : EditCommandsOf(p) \/ EditPoints(p)

DrawingSpec == DrawingInit /\ [][DrawingNext]_drawingVars

-----------------------------------------------------------------------------
(* Properties                                                                *)

DrawingTypeOK ==
    /\ assets \in [DrawingIds -> VectorAsset]
    /\ drawingBinding \in {"none", "memory", "file", "lost"}
    /\ assetId \in DrawingIds \union {0}
    /\ edits \in Nat /\ failedEdits \in Nat

(* One path has been put in, taken out, changed or moved.                    *)
DiffersInOnePath(a, b) ==
    \/ \E i \in DOMAIN a : \/ RemoveAt(a, i) = b
                          \/ \E j \in DOMAIN b : RemoveAt(a, i) = RemoveAt(b, j)
    \/ \E j \in DOMAIN b : RemoveAt(b, j) = a

(* An edit that is made, be it counted or kept by a file that reports it as  *)
(* failed, shows in the drawing: one path of the bound asset, or its         *)
(* viewport, is different (paths that are equal may change places), and the  *)
(* document is still valid.  No other asset changes, not even one that has   *)
(* taken the id of the drawing with content of another kind.  What changes   *)
(* nothing is neither counted nor committed.                                 *)
EditsShowInTheDrawing ==
    [][edits' + failedEdits' = edits + failedEdits + 1 =>
        LET old == assets[assetId]
            new == assets'[assetId]
        IN  /\ ValidDocument'
            /\ \A id \in DrawingIds \ {assetId} : assets'[id] = assets[id]
            /\ old.kind = "Vector" /\ new.kind = "Vector"
            /\ IF new.viewport # old.viewport THEN new.paths = old.paths
               ELSE DiffersInOnePath(old.paths, new.paths)
            /\ new = old =>
                  \E i, j \in DOMAIN old.paths : i < j /\ old.paths[i] = old.paths[j]]_drawingVars
===============================================================================
