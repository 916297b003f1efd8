# A TLA+ model of iiSharedCanvas

iiSharedCanvas is a C++23 library for canvas documents: a document model with
validation, editors over it, working files that write every edit through to
SQLite, Qt Quick items that render documents asynchronously, and timeline
projects. This directory models its stateful core in TLA+, checks it with TLC, and
proves the central safety results with TLAPS.

Paths below are relative to the repository (`src/...` is its library source);
`PROJECT.json` maps every definition to its lines, and lists the runs, the
mutants that show each property can fail, the hazards and the theorems.

## 1. Inventory

### The parts and their state

| Part | State | Operations | Works with |
|---|---|---|---|
| `File/DocumentFile` | path, SQLite connection, `data_version`, document, revision, binding generation, last result, `editing` flag | `create`, `open`, `close`, `edit`, `upgradeFormat` | SQLite, the process-wide source lock, the presentation queue (iiFileProvider) |
| `File/IiscInput`, `File/IiscUpgrade` | none across calls | read-only snapshot of a working file; staged upgrade | the source lock, `DocumentFile` |
| `QtAdapter/AsyncFrameRenderer` | next request id, pending and running request, `busy`, `discardRunning`, future watcher; per run a preflight job, a layer counter, a count of remaining workers | `request`, `cancel`, `finishCurrent`; jobs on the global thread pool | `Render/FrameRenderer`, its owner through signals |
| `QtAdapter/CanvasItem` | bound document or file, validity, frame, artboard, sampling, viewport, content generation, render snapshot, schedule flag, two tile caches, selection, stroke state, undo counts | bind, refresh, edit, seek, viewport, strokes, undo/redo; timer and renderer callbacks | `AsyncFrameRenderer`, `DocumentEditor`, the bitmap editors, `DocumentFile` |
| `QtAdapter/BitmapItem` | one asset's view and editor | as above, synchronous | `BitmapEditor` |
| `Bitmap/BitmapEditor`, `ChunkedBitmapEditor` | binding, stroke state and snapshot, undo and redo stacks (at most 32), revision, dirty bounds, last error | gestures, undo, redo, fill, replace | a `Document` or a `DocumentFile` |
| `Document/DocumentEditor`, `ArtboardEditor` | binding, revision, last result | about ninety edits, most of them refuse - change - validate - put back by hand; through a file, on a draft that is committed | `Validation`, `DocumentFile` |
| `Document/Document` | the document with assets, layers, frames, artboards, authorship ledger | pure sampling of sources, motion, visibility | everything |
| `Validation` | none | the predicate each commit is checked against | |
| `Serialization/IiscCodec` | none | documents to bytes or records and back | `DocumentFile`, importers |
| `Render` | none | composition of a frame from layers | the renderer |
| `Timeline/TimelineProject`, `TimelineEditor` | the project; binding and revision | about thirty edits of sources, sequences, tracks, clips and profiles, each copy - change - validate - replace; exact rational time | nothing else: a project lives in memory |
| `Vector/VectorEditor` | binding, asset id, last result | about twenty edits of paths, commands, points and paints of one asset, each on a copy handed to the document editor | `DocumentEditor` |
| `Timeline/TimelineInterchange` | none | projects to XML and EDL text | |
| the rest of `Vector`, `ControlNet`, `Layered`, `Media`, `Audio`, `Video`, `Metadata`, `Camera`, bitmap codecs | none across calls | parsing, decoding, parameter checks, rasterising | documents |
| `Native/*` | as their counterparts | the build without Qt; `Native/DocumentFile.cpp` repeats `File/DocumentFile.cpp` over other library types | |

### What is hard

* **Working file.** Sessions of several processes, other SQLite tools, and the
  presentation worker of each process meet on one path. Every step of `editImpl`
  can fail, COMMIT can report an error although it landed, the process can die,
  the path can be moved. Memory is a second copy of the disk and has to agree
  with it through all of that.
* **Renderer.** The owner's thread, the preflight job and the layer workers
  interleave; cancellation is cooperative; the end of a run reaches the owner as
  a posted event that may be dropped or arrive late; `busyChanged` slots re-enter.
* **Canvas view.** Between a request and its result the document, the frame, the
  artboard, the sampling, the viewport or the whole binding may change; caches
  with limits outlive generations; requests coalesce behind one timer.
* **Editors.** Histories at their limit, gestures that change nothing or are
  cancelled, writes that fail in the middle of a gesture.
* **Structure.** Ids refer across assets, layers, frames and artboards; keyframes
  are owned by frames and listed by layers; long sequences of legal edits must keep
  them consistent, and every operation undoes by hand what it did when the result
  does not validate.
* **Storage.** A commit writes only the rows that changed, and leaves a payload
  where an earlier commit put it, while positions move and the version of the
  document rises. Encoder and decoder count the limits separately.
* **Upgrade.** A file is read, and then read or compared again and replaced, while
  other programs commit to it, put another in its place or create the output.
* **Rendering.** Composition asks again, by code of its own, what validation asked of
  clipping, artboards, masks and ranges; where the two disagree a document that opens
  cannot be shown.
* **Drawings.** The vector editor keeps an id; the asset behind it may be gone or of
  another kind at the next call.
* **Timeline.** Clips, sequences and media have rates of their own; sequences nest.

### What makes each part correct

* Working file: memory is always a committed version; no commit overwrites a
  version its session has not seen; a failed call leaves no trace and no lock, and no
  transaction unless its rollback fails where nobody looks; revision and ledger advance
  together; every call returns; an acknowledged change is presented if it can be read.
* Renderer: one run at a time; no partial frame; only the newest request is
  published, once, never after `cancel`; `busy()` is truthful and ends.
* Canvas view: what is marked current shows the current picture; an invalid view
  shows nothing; tiles do not overlap; what is visible gets drawn and
  `rendering()` tells when.
* Editors: one gesture is one undo step; undo and redo are inverse; a failed write
  changes nothing, unless the file took it and reports the failure afterwards.
* Structure: an accepted edit leaves a valid document and touches what it says; a
  refused one leaves nothing, with the same exception.
* Storage: the rows of a file read back as the document that is shown.
* Rendering: what validation accepts can be rendered at every frame, unless the transforms,
  masks or filters drawn there overflow or do not apply, and an artboard alone shows what it
  shows in the frame.
* Drawings: an edit that was made is one path, or the viewport, that changed.
* Upgrade: whatever becomes of the call, the content stays, at the newest format.
* Timeline: clips, groups, transitions and nested sequences name what exists;
  clips last exactly as long as what they play.

## 2. Modules

| Module | Models | Code |
|---|---|---|
| `DocumentRegister` | abstract: each file one versioned document, changed in single compare-and-replace steps | what `docs/PERSISTENCE.md` promises |
| `WorkingFile` | `DocumentFile`, step by step, with its environment; refines `DocumentRegister` | `File/DocumentFile.cpp`, `Document/DocumentCommit_p.hpp` |
| `WorkingFileProofs` | theorems about `WorkingFile`, its refinement of `DocumentRegister` among them | |
| `FrameService` | abstract: the newest request is delivered at most once, unless withdrawn | |
| `AsyncFrameRenderer` | the renderer with its pool; refines `FrameService` | `QtAdapter/AsyncFrameRenderer.cpp` |
| `AsyncFrameRendererProofs` | theorems about it, the refinement among them | |
| `CanvasView` | `CanvasItem`'s presentation, composed with `FrameService` | `QtAdapter/CanvasItem.cpp` |
| `CanvasViewProofs` | theorems about `CanvasView` | |
| `LinearHistory` | abstract: a picture with a bounded past and a future | what `README.md` promises of undo and redo |
| `BitmapHistory` | both bitmap editors; refines `LinearHistory` | `Bitmap/BitmapEditor.cpp`, `Bitmap/ChunkedBitmapEditor.cpp` |
| `CanvasEditing` | `CanvasItem` as an editor, extends `BitmapHistory` | `QtAdapter/CanvasItem.cpp` |
| `BitmapItem` | `BitmapItem`, extends `BitmapHistory` | `QtAdapter/BitmapItem.cpp` |
| `BitmapEditingProofs` | theorems about `BitmapHistory`, `CanvasEditing` and `BitmapItem` | |
| `Items` | ordered collections of things with ids | loops shared by the editors |
| `Document` | the document as a value, keyframe resolution, `validate()` | `Document/Document.cpp`, `Validation/Validation.cpp` |
| `DocumentEdits`, `LayerEdits`, `ControlNetEdits`, `ArtboardEdits` | each operation as a function from a document to the document it leaves | `Document/DocumentEditor.cpp`, `Document/ArtboardEditor.cpp` |
| `DocumentEditor` | the editor, in memory and through a file | `Document/DocumentEditor.cpp` |
| `DocumentEditorProofs` | theorems about it and about `VectorEditor` | |
| `DocumentRecords` | the rows of a document, what a commit writes, what reading rebuilds | `Serialization/IiscCodec.cpp`, `Document/DocumentCommit_p.hpp` |
| `StoredDocument` | `DocumentEditor` composed with `DocumentRecords` | `File/DocumentFile.cpp` |
| `IiscUpgrade` | `upgradeIiscFile` among other programs | `File/IiscUpgrade.cpp` |
| `StoredDocumentProofs` | theorems about `StoredDocument` and `IiscUpgrade` | |
| `FrameComposition` | what a document renders to at a frame, as a whole and one artboard at a time | `Render/FrameRenderer.cpp`, `Document/CanvasSampling.cpp` |
| `RenderedDocument` | `DocumentEditor` with the renderer: the property that ties them | |
| `RenderedDocumentProofs` | theorems about it: what is rendered, where layers lie, what a copy shares | |
| `VectorEditor` | the editor of one drawing | `Vector/VectorEditor.cpp` |
| `Timeline` | the project as a value, `validateTimelineProject`, exact time | `Timeline/TimelineProject.cpp` |
| `TimelineEditor` | the editor of a project | `Timeline/TimelineEditor.cpp` |
| `TimelineEditorProofs` | theorems about the projects it edits | |
| `TimelineProjects` | projects to start from | |
| `MCEditors` | the document editor with the renderer, the timeline editor, the upgrade and the vector editor, one to a behaviour | |
| `MCBitmapEditing` | `BitmapItem` and `CanvasEditing` around the bitmap editors, one to a behaviour | |
| `MCWorkingFile`, `MCAsyncFrameRenderer`, `MCCanvasView`, `MCCanvasEditing`, `MCDocumentEditor` | instances | |

### WorkingFile

A session (`DocumentFile` object) runs one call at a time; `pc` says where in the
call it is. The steps are cut where someone else can come in: at the source lock,
at `BEGIN IMMEDIATE`, at the ownership check, at the write, at COMMIT, at the
adoption of the prepared draft, at the verification after a failure and at the
enqueue. `create` is `CreateFile, CreateLock, CreateWrite, CreateAdopt, Notify`
with `CreateThrows, RemoveCreated` for its handlers; `edit` is `BeginEdit,
Callback, AcquireSource, BeginImmediate, CheckOwnership, WriteRecords, Commit,
AdoptCommit, Notify` with one action per failure and `Detach` / `StayAttached` for
the outcome verification of the `FileFailure` handler.

`store` is the disk by file identity (not by path: `at` is what the path stands
for), `stale` is what `PRAGMA data_version` would reveal, `committed` is the
history of everything ever durable. A document is its format, artwork, ledger
length and the runtime author; encoding drops the author and decoding resets it.
SQLite, the source lock and the presentation queue belong to libraries outside
the repository and are modelled from their use (entries marked external).

What the environment may do is chosen by the constant `Faults`: I/O errors and
lost COMMIT outcomes (`io`), allocation failures (`memory`), a throwing enqueue
(`notify`), process death (`crash`), another SQLite tool (`foreign`), removal of
the path (`remove`). One assumption is in a guard: a foreign tool does not write
a file before its `create` has returned. Without it a foreign commit between
`create`'s COMMIT and its read of `data_version`, under an unchanged revision,
would count as seen.

The `FileFailure` handler of `editImpl` asks `inTransaction()` after its rollback and detaches
if there still is one. The handler of `std::exception` (`DocumentFile.cpp:560-564`) does not:
if an allocation fails and the rollback of the unwinding scope fails too, the session goes
on, attached and idle, inside an open transaction that keeps other writers out
(`AllocationFails`; `stranded` is the history of such sessions). Its next `BEGIN IMMEDIATE`
fails, and that failure is verified and detaches it. What `docs/API.md:51-52` says of the
source lock, "rollback/outcome verification remains inside it", is not so there;
`IdleHoldsNothing` says what is.

The worker's read of the path may fail as well (`WorkerFails`: sidecars, byte budgets, the
temporary directory, a file that is busy or does not open, `IiscInput.cpp:15-62`). It is not
tried again; the next change asks for the next read.

### AsyncFrameRenderer

One action per owner call (`RequestFrame`, `Cancel`), two for `finishCurrent`
(`FinishCurrent` up to the `busyChanged` emission, `Publish` after it, so that
slots can call back in between when `Reentrant`), and one per step of the jobs:
`PreflightStarts, PreflightAnswers, PreflightFinishes, PreflightSpawns`, and for each
layer worker `WorkerStarts, LoopTest, ClaimLayer, RenderLayer, Leave, Compose,
WorkerFinishes`. The counters are those of the code. `posted` is the watcher's
finished event, which `setFuture` on the next run drops. Pixels are abstracted to
how often each layer was rendered.

### CanvasView

All of it runs on the item's thread, so an action is one call or one event. The
renderer is its abstract promise, `FrameService`, which `AsyncFrameRenderer` is
shown to implement; it is embedded with `INSTANCE`, and delivery carries what the
newest request asked for (`payload`). The plane has one axis; tiles, levels of
detail, the ring around the view, nearest-first order and clipping follow
`visibleTileRequests` (the levels of detail of the code end at 2^21, here at 8). The
caches are sets of tiles, each with the number of its last use. Of `m_tileUseCounter`
only the order of the uses matters, so a cache is numbered anew from 1 whenever some
of its tiles are used, added or trimmed (`Numbered`), which keeps the states finite;
a request has its place in the order of the requests instead of a position in a
vector, and layers are numbers, the lowest first. A picture is the tuple of the content, the
artboard, the frame and the sampling it was rendered from, which is what tells
a stale tile from a current one. An edit of the document may widen the canvas (`EditDocument`);
the width of the item follows the document (`ensureCanvasRegion`). An assignment to `viewport` stands for any of
the panning and zooming calls; `Renderer!Withdraw` for `cancel()`.

### BitmapHistory

One action per call of an editor. `BitmapEditor` and `ChunkedBitmapEditor` keep their
histories alike; whether the bound asset is in `Chunked` says which of them is at
work, and the few places where they differ (`MayAppend`, `CancelNotes`) ask that.
`Call` is `editFile`: the step is made on copies, and the editor adopts its copy only if the
working file reports success. Through a file a call may therefore end in three more ways.
It fails and leaves everything as it was; or the file commits and adopts the new picture
and then reports a failure (finding 1), so that the picture changes while the editor keeps
the history it had (`Unreported`); or the file cannot tell what became of the edit and
detaches itself within the call (`Detached`).

A picture is a member of `Content`: what counts is whether two
pictures are equal, since `endStroke` compares pixels. A point of a stroke may paint
nothing, paint something, or paint the colours that are there; the latter raises
the revision all the same. `Overwrite` stands for everyone else who holds the
document. `sole` is a history variable: since the asset was bound, nobody did so and no
edit was taken and reported as failed; to the history of an editor the two are alike.

`LinearHistory` knows no gestures. In the mapping the past leaves out the snapshot
of the stroke that is being made, and the picture shown is the one the stroke
began from; so a stroke is invisible until it ends, and then it is one change or
nothing. Three steps are in the abstract module because the code has them:
`Forget` (a stroke that begins at the limit costs the oldest entry even if it comes
to nothing), `Overwrite` (others, or an edit the file took and reported as failed), and
`Join` (cancelling a stroke whose asset others removed keeps its snapshot).

Painting an asset that was removed in the middle of a chunked stroke is undefined
behaviour in the code and no step of the model.

### CanvasEditing

Extends `BitmapHistory` with the item around it. The two embedded editors are one
here, because every path that binds one unbinds the other; what is left of the
unbound one is its last error (`spareError`), which `activeEditorError` may prefer.
The layer's asset at a frame is the constant `Source`. Each call of the item is an
action; `refresh` at the end of an edit re-synchronises the selection, which has
nothing to do there. `setFrame` is cut in two where `cancelStroke` emits signals:
`SetFrame` cancels and leaves a waiting `seek`, any call may come in, and `ResumeSeek`
goes on if the state the code compares has not moved. A file that detaches itself within
a call leaves the item without its attachment (`FileStays`); a chunked editor is then no
longer asked for its error, so that the cancellation refreshes an item without a valid
document, renders nothing and calls a waiting seek off (`RefreshesInVain`).

Seen while translating, and not runs of their own:

* A `busyChanged` slot of the renderer that calls `cancel()` and then `request()` clears
  `discardRunning`, so that the canceled frame is published. This is why
  `ImplementsFrameService` is stated for slots that do not call back.
* After an invalid brush setting, `cancelStroke` takes the unbound editor's error
  for its own: it returns before `refresh`, and a seek is given up silently.
  `EditsAreRendered` excepts this; without the exception TLC finds it in five states.
* An edit that a working file took and reported as failed is an error to the item as to the
  editor: it is not rendered until something else refreshes. `EditsAreRendered` excepts
  this too, and `CallsAreAnnounced` excepts its picture.
* A brush set during a chunked stroke reaches `m_editor` but not the chunked editor,
  and is reported as a failure.
* `selectLayer` in the middle of a stroke binds the other asset; the points painted
  so far stay, without an undo step.
* `clearSelection` and `resetEditState` look at the active stroke after unbinding, so
  that `liveStrokeActiveChanged` is not emitted.

### BitmapItem

Extends `BitmapHistory` with the scene item around one `BitmapEditor`. `stale` is what a
scene that follows the signals of the item holds and that is no longer so: each
call adds what it changed and removes what it tells of (`finishEdit`,
`notifyStateChange`). `Untold` is what only a failing file leaves: a picture it took and
reported as failed, or its own loss. A stroke whose end the file refused stays active and is
continued by the next press, as in the code.

### Document, its edits and DocumentEditor

A document is a record of sequences of records with ids; 0 is the empty id. `Document`
keeps every rule of `validate()` that relates parts of a document to each other; a
payload is a sequence of parts, of which `"bad"` fails the rules local to one asset.
A layer has the fields of all kinds of layer; that those of the other kinds are empty,
which a variant of C++ gives for nothing, is part of its type (`IsVariant`).
Rates, extents and formats are numbers; the two axes of the canvas are one.

An operation is a function to an `Outcome`. `Edit` is the shape most of them have:
refuse, change, validate, and put back by hand the fields that were saved: the
rollback is modelled by the fields it names (`Restored`), so that a forgotten one is
seen. `Unchecked` is the shape of those that do not validate what they leave.
`DocumentEditor` makes one step of every operation (`Perform`): in memory the outcome
is the document; through a file the operation works on a draft, which is committed
if it validates and the write succeeds (`editFile`). A draft that is not committed is
dropped, and the file may detach itself over it (`RefuseDraft`); one that is committed is
the document, but the file may report a failure all the same, so that the editor does not
count the edit (`CommitDraft`). `unreported` counts those, up to the bound `losses` of the
session. `touched` notes what the call set
out to change, which is what the locality properties compare with.

### DocumentRecords and StoredDocument

A row has a kind, an id, a position and a payload. Encoding leaves the payload of an
asset that did not change out (`<<>>`), and a commit keeps the stored one
(`WriteRecords`). What a version of the format does not store is absent from the
payload (`Since`) and rebuilt by default (`Decoded`), so that an edit that raises the
format on the way has to write more. Both sides count the limits on their own.
Digests are taken to tell payloads apart; sizes in bytes and the entries of the
ledger are left out (the ledger is in `WorkingFile`); a text counts one byte. The
editor stamps the ledger in every commit, so `editImpl`'s own second write does not
occur here.

### FrameComposition

Operators over `Document`, no state of its own. A picture is kept as what is painted at
each position of the one-axis world, from bottom to top: artboards in their order, each
with its background and its artwork, then the artwork of no artboard; a clipped layer
is painted over its base and not without it. `Composable` is what `composeFrameLayers`
tests of a batch, apart from validation, and `RenderLayer` what it gets of each layer
(visibility, the video frame, the asset at the frame, the masks it dereferences).

A layer can be refused for its numbers as well. Validation asks of transforms, motions and
masks that their entries be finite (`Validation.cpp:50-58`, 211-231, 598-605); the renderer
refuses what they make, a sampled transform, its determinant or the product with the view
that overflows, or a filter that does not take the asset (`FrameRenderer.cpp:923-972`), and
`tests/CanvasMediaTest.cpp:189-198` and `docs/CANVAS_MEDIA.md:37` want it so. Which numbers
these are is arithmetic of doubles; the module leaves it to the constants
`TransformFits`, `MaskFits` and `FiltersApply`, and says where each is asked (`Fits`). The
operators of the instance (`MCTransformFits` and its like in `MCEditors`) refuse some
layers each: a motion that overflows from its second key on, a mask at once, a filter on a video.

`EveryFrameRenders` (in `RenderedDocument`) relates the three sets of rules, validation, sampling and
composition, for every frame of every valid document the editors reach: a frame renders
if and only if the layers drawn in it fit.
Left out: blending, masks' and filters' pixels, the numbers of transforms, levels of detail; an asset
covers all that is rendered, and videos run at one frame a second without holding
their last frame.

### VectorEditor

One action per call. A command is its kind and its points, the anchor last; one of the
points that calls may give is not finite. `Call` is the way through the document editor:
it looks up the asset again, validates and commits; a file may refuse the commit, keep it and
report a failure (`failedEdits` counts these), or detach itself.
Others put drawings, an invalid one among them, or content of another kind under any id
at any time; in a file, only what validates. `NoVector` stands for an asset that is gone
too: the editor refuses both alike. Binding starts over only from assets nobody drew in,
which bounds behaviours. The last result is left out, since no operation reads it.
`Numbers` and `Extents` are the numbers and viewports that calls name;
`DrawingCallsAssumption` says of what types the values are that calls and others give.

### IiscUpgrade

One call in phases: sniffing, opening or reading, upgrading or staging, and the COMMIT,
the exclusive creation or the compare-and-replace at its end; every phase may fail,
and other programs act between any two. A snapshot is stood for by the rows its
payload would have. COMMIT after the file was moved goes to the file that was opened.
A failure after COMMIT is finding 1 and left to `WorkingFile`. `Inputs` and `Replacements`
are the files that lie at the path to begin with and that others put there; one that can
be read was written by the program (`UpgradeFilesAssumption`, which TLC evaluates for the
instance in `MCEditors`), one that cannot is anything.

### Timeline and TimelineEditor

`wellFormed` stands for the checks local to one object; what relates objects, time
bases, nesting, groups and representations is modelled as it is. Ranges may not end
beyond `TickMax` (100 for 2^63-1); durations are compared by cancelling common factors
(`clipDurationsMatch`), and `ClipsPlayExactly` checks that against the products. Every operation goes through
`EditProject`: copy, change, validate as a whole, replace. Ends that leave the project alone
are alike. Left out: clients that change the project through the mutable
`project()`; more than one bound project. A session begins unbound with a project given to
it; `TimelineCallsAssumption` says of what types the values are that calls may give.
The search for cycles is a recursive function over the set of nodes that are being visited
(`HasCycle`); the memory of nodes already done is left out, since it changes no answer.
`sequenceGraphHasCycle` inserts into the map it
iterates over when a nested sequence is missing, which is undefined; such a project
is refused in the model.

## 3. Runs

| Run | Shows |
|---|---|
| `working_file_processes` | two processes, one session each; I/O errors, lost outcomes, allocation failures, crashes, throwing notifications; rollbacks that fail, old and new formats, two edits: `IdleHoldsNothing` (between calls a session holds nothing but a transaction stranded by a rollback nobody verified, and begins no edit in it), `MemoryIsCommitted`, `LedgerMatchesRevision`, `NoLostUpdate`, and refinement of `DocumentRegister` |
| `working_file_presentation` | one session used twice, the presentation worker over a queue of one, reads of the worker that fail, a foreign writer, removal of the path, I/O errors, allocation failures: `FreshSessionSeesTheDisk`, `FailedCallLeavesNoTrace`, and `CallReturns`, `ChangeIsPresented` under fairness |
| `working_file_notify`, `working_file_undo` | violations, see findings |
| `renderer` | as many layers as threads, more layers than threads, and slots that call back: `FramesAreComplete`, `BusyMatchesWork`, `PublishedInOrder`, refinement of `FrameService`, and `BusyEnds`, `NewestIsAnswered` under fairness |
| `canvas_view` | documents of one and of five tiles, moved over, sought, edited, closed, with failing renders: `PresentationIsComplete`, `TilesDoNotOverlap`, `CurrentTilesShowTheSnapshot`, `InvalidShowsNothing`, and `VisibleIsShown` under fairness |
| `canvas_zoom` | a violation, see findings |
| `bitmap_editing` | a raster and a chunked asset, in memory and through a file that refuses an edit, takes it and reports a failure, or detaches itself in the call, with other writers; `BitmapItem` around the editor: `EveryStepShows`, `ChangesAreNoted`, `CallsAreAnnounced`, and refinement of `LinearHistory` (`GesturesAreUndoSteps`); the canvas around it, with two layers, two frames and seeks interrupted by any other call: `EditsWhatIsShown`, `EditsAreRendered`, `SeeksSettleStrokes`. `Init` chooses which of the two a behaviour works with |
| `canvas_stroke_count` | a violation, see findings |
| `document_editing` | every operation of the document editor, in memory and through a file that may report a committed edit as failed or detach itself: `ReferencesResolve`, `FileStaysValid`, `RejectedEditLeavesNoTrace`, `ContentIsLocal`, `PlacementIsLocal`, `DuplicatesAreIndependent`, and with the rows of the file `FileReadsBack`, with the frames rendered `EveryFrameRenders`; every operation of the timeline editor: `TimelineIsConnected`, `RepresentationsAreInterchangeable`, `ClipsPlayExactly`; the upgrade among other programs: `UpgradesKeepContent`; every call of the vector editor among other editors: `EditsShowInTheDrawing`. The four share no state; `Init` chooses which one a behaviour works with |
| `duplicate_masks`, `document_validity` | violations, see findings |

### Bounds

* Two sessions are enough for every conflict of the working file: each property
  relates one session to the disk or to one rival. `MaxRevision` 2 gives a create
  and two edits, so that a session can be behind by more than it wrote; `MaxGeneration`
  1 lets a session object live once (a session that reopens is a fresh one).
  `working_file_presentation` has one session, so it can afford two generations and
  a third revision, which the foreign writer or the session itself may take.
  There two runtime authors are told apart; between processes the author, which encoding
  drops, plays no part. One file identity suffices where the path is
  not reused. Where `MaxRevision` is reached, `RevisionExhausted` takes the code's
  early error path, which makes the bound the numeric limit of the revision column; the
  arithmetic beyond 63 bits has no room in the model. With one session, `CallReturns` meets
  the source lock, SQLite's lock and the queue in the order of the code, but not the
  source locks of several sessions against each other; a call takes one only.
* Three requests: one that runs, one pending, one that replaces it. Three layers
  on two threads make a worker take a second layer; two layers on two threads
  make the last decrement a race. With slots that call back there are two requests on
  three layers, or three on one.
* `canvas_view`: two views of two pixels over a document of five, whose rings overlap,
  and a document of one tile; four requests let a view move away, come back and be
  refreshed, and a result cross two changes. All composed tiles fit into the cache,
  the layer tiles do not, so the fallback to composed tiles is exercised.
* `bitmap_editing`: a history limit of 2 stands for 32; it is reached, exceeded and
  undone within `MaxRevision` 4, the number of changes counted by one binding (a bind
  starts over). Two contents are enough for changes, restorations and no-ops, one
  asset of each kind for everything the editors distinguish. The contents are symmetric.
  In the canvas a binding counts two changes (`CanvasRevisions`) with one entry of history
  (`CanvasHistory`), an edit or a stroke and its undo, since what is checked there are steps;
  the theorems of section 5 have no such bounds. One layer changes its asset
  with the frame and shares the other layer's asset there. At most one seek waits: a nested
  one would be another frame's, which the waiting one detects as a moved frame.
* `canvas_stroke_count` has a configuration of its own, with three changes.
* `document_editing`: a session is a document, the groups of operations called on it and
  a number of edits: two or one of any in the group, and three on one keyframed layer,
  which reaches every way its frames and its index can get apart. Each starts from the
  document its cases need: two keyframed layers and a third that shares an asset,
  masks and clipping, audio, two artboards with a publication, video, one control
  layer of each kind. In three of the sessions one edit may be committed and reported as
  failed (`losses`); what such an edit leaves is what a counted one leaves, so that
  once is enough. Ids and numbers given include absent, taken and invalid ones.
  The limits are such that some edits of the larger documents pass them.
  Artboards lie beside and over the canvas, so that regions differ.
  A drawing takes two edits, those reported as failed among them, of two paths of up to three commands, paths, commands and
  points are named from 1 to 3, with absent ones.
  Timeline sessions make two or three edits of one kind of part; an upgrade has two steps of
  other programs, enough to change the input twice between any two of its phases.
* Deadlock is not checked: a session may stay idle, a view may have nothing to do,
  and the bounds end behaviours.

### Fairness

* `WorkingFile`: weak fairness of each session's and worker's next step (threads
  run, callbacks and SQLite return); strong fairness of taking the source lock,
  which a mutex that serves every waiter in the end gives. Without it a rival that
  keeps editing could starve a call. Nothing makes a read of the worker succeed:
  `ChangeIsPresented` promises an acknowledged change unless the path is gone or the last read
  that was asked for has failed (`LastReadFailed`); a later change is read again.
* `AsyncFrameRenderer`: weak fairness of the event loop's delivery and of every pool
  job. Nothing is assumed of the owner. `NewestIsAnswered` therefore promises
  nothing to a request that is replaced: an owner that requests forever faster
  than runs end sees no frame.
* The editors and the upgrade are sequential; nothing is claimed of their progress.
* `CanvasView`: weak fairness of the timer and of the renderer's delivery; the latter
  is what `renderer` establishes.

## 4. Findings

1. `working_file_notify`: `editImpl` queues the presentation inside the `try` that
   guards the edit, after COMMIT. If that throws, the caller gets a failure for a
   change that is durable and in memory (`DocumentFile.h:75`: "false/throw discards it").
   `create` has the same order, and its handler removes the file of the session
   it just opened.
2. `working_file_undo`: `create`'s handlers remove the path after the source lock was
   released. If the transaction had landed, another session may have opened the
   file and had an edit acknowledged.
3. `canvas_zoom`: a late result of another level of detail erases cached tiles it
   only partly covers. When the view was fully cached nobody asks for them again,
   so a hole stays although `rendering()` is false.
4. `canvas_stroke_count`: `CanvasItem::endStrokeAt` counts a stroke by comparing
   revisions, while the editors drop a gesture that left the pixels as they were.
   Painting with the colour that is there puts the item's counts and the editor's
   history out of step (`tests/CanvasItemRenderTest.cpp:474`: "stroke count must follow
   selected-raster undo and redo history").
5. `duplicate_masks`: `duplicateArtboard` clones the sources and keyframes of the layers it
   duplicates, while their masks name the assets of the original
   (`docs/ARTBOARDS.md:45`: "Clone the board, all owned layers, all referenced source states
   and keyframes, preserving editable independence"). `DuplicatesAreIndependent` is about
   sources only and says so.
6. `document_validity`: `renameLayer` gives a layer the id of an audio track, and
   `removeLayer` and `moveLayer` take the base from under a clipped layer; both report
   success and leave an invalid document in memory, which no later operation accepts
   (`README.md:338`: "Successful operations keep the complete document valid").

The unverified rollback of `DocumentFile.cpp:560-564` (section 2, WorkingFile) is part of
`working_file_processes`; it breaks no property there but the plain "an idle session holds
no transaction", which is why `IdleHoldsNothing` names the exception.

The tile limit has a similar effect: tiles that arrive late are the most recently
used, so that with more tiles than the cache holds they evict visible ones, and a view
whose tiles were all cached asks for nothing. `canvas_view` with
`MaximumResidentTiles = 4` shows it: pan away, pan back before the answer, and the
answer takes the place of tiles in view. With 64 tiles this needs two views whose
tiles and rings together exceed 64, a view of 2560 by 1440 at full resolution already
has 48; a view of more than 64 tiles is never complete by construction (`docs/API.md`
names the limit). `PresentationIsCompleteCorrect` proves that these two effects are all:
see section 5.

## 5. Proofs

`WorkingFileProofs` proves, for any finite or infinite sets of sessions, processes,
files, artwork and authors, any bounds and any faults:

* `TypeCorrect`: `Spec => []TypeOK`;
* `MemoryIsCommittedCorrect`: `Spec => []MemoryIsCommitted`;
* `FreshSessionCorrect`: `Spec => []FreshSessionSeesTheDisk`;
* `NoLostUpdateCorrect`: `Spec => NoLostUpdate`;
* `IdleHoldsNothingCorrect`: `Spec => []IdleHoldsNothing`.

The assumptions are `ConstantsAssumption` of `WorkingFile` (constants have their types,
lock owners other than sessions are none of them, `NoFile` is no file) and
`NoVersionAssumption` (what a session without a file holds is no version).

`TypeInv` adds to `TypeOK` that a running call has a connection; without it the disk
of a call would be undefined. `SafetyInv` is the invariant behind memory, freshness
and lost updates. None of those three is inductive. That memory is committed
when a draft is adopted needs `LandedIsCommitted`: what landed and is not yet
adopted is the draft. That a fresh session agrees with the disk is preserved by
another session's commit because that commit makes it stale, and by its own
because of `CheckedStaysChecked`: between the ownership check and COMMIT the write
lock (`WriterHoldsLock`) keeps everyone else out, so the version checked is the
version replaced. `NeverAhead` says that memory is never newer than the disk, and
with it a revision that equals the stored one is the same version; that is where
`create`'s late read of `data_version` is covered. `OneCreator` and
`BlankUntilCreated` keep two creators apart. `NoLostUpdate` then is a step property
that follows from `CheckedStaysChecked` and freshness. The lemma `DurableStep` proves
once what every step that makes a draft durable does to the invariant, whatever
it reports to its caller.

`LockInv` says that whoever owns a lock is a call whose scope is still open, or a stranded
session that is idle, in a call that has not begun a transaction of its own, or about to be
found out; so it gives
`IdleHoldsNothing`: a transaction between calls is one that an unverified rollback left, no
edit is made in it, and the source lock is never kept.

On top of these, the same module proves:

* `WorkingFileIsRegister`: `Spec => ImplementsRegister`. The mapping (`Held`, `WorkedOn`)
  lets a session hold a version from the moment that version is durable, whatever its
  call learns later, and work on what it began from. One lemma for each kind of step
  that touches the abstract state: `CreateMaps`, `CommitMaps`, `OpenMaps`, `RewriteMaps`
  for the foreign writers; every other step drops a session or is a stutter
  (`RegisterDrops`, `SameView`). That an edit replaces the version it was made from is
  `CheckedStaysChecked` once more.
* `LedgerCorrect`: `Spec => []LedgerMatchesRevision`, by `LedgerInv`: a draft on its way
  to the disk has one entry more than the version it replaces, or the same number and
  the current format.
* `FailedCallCorrect`: `Spec => []FailedCallLeavesNoTrace`, if `"notify"` is none of the
  faults: with it the property is false (finding 1). `LandedIsKnown` says in which steps of
  a call its COMMIT may have landed and what the call knows of it; the outcome of
  a COMMIT that reported an error is decided by reading the file again.

`BitmapEditingProofs` proves, for any assets, contents, history limit and revision bound
(`HistoryAssumption`: the limit is positive, what is gone is no content, nothing bound
is no asset):

* `HistoryTypeCorrect`: `HistorySpec => []HistoryTypeOK`, which includes that the undo
  history stays within its limit and that a stroke under way has its snapshot;
* `GesturesAreUndoStepsCorrect`: `HistorySpec => GesturesAreUndoSteps`, the refinement of
  `LinearHistory`;
* `ChangesAreNotedCorrect`: `HistorySpec => ChangesAreNoted`;
* `EveryStepShowsCorrect`: `HistorySpec => []EveryStepShows`. It is proved of the abstract
  history: neighbours of the past, the picture and the future differ (`LineInv`), which
  each step of `LinearHistory` keeps; what the stroke under way adds is its snapshot.

The invariant is `HistoryInv`: the type and `StrokeIsAlone`, without which a cancelled or
empty stroke could not be matched with a stutter: while `sole` holds, a stroke has
the asset to paint, and one that painted nothing shows what it began
from. One lemma per action gives the invariant, the abstract step and the raised
revision together (`Kept`). `Call` adds to each of them the failed call, the unreported one,
which is an `Overwrite` of the abstract history, and the one in which the file detaches
itself. `ChangesAreNoted` therefore says: a call that changes a picture raises the revision,
or it is an edit that a file took and reported as failed, and then it leaves undo history,
redo history and stroke as they were.

The same module carries this over to `BitmapItem`, whose calls are the editor's or leave
it alone, and whose `createBitmap` begins a history (`ItemStepsShow`:
`ItemSpec => []EveryStepShows`), and proves `CallsAreAnnouncedCorrect`:
`ItemSpec => CallsAreAnnounced`, call by call: what the editor changed is among what
the item tells of, also when the file refuses what was begun; what a failing file took or
lost (`Untold`) is all that may stay untold.

`AsyncFrameRendererProofs` proves, for any number of threads, layers and requests, with
or without slots that call back (`ConstantsAssumption`: at least one thread, and uses
within the bound on requests): `TypeCorrect`, `NoRunsOverlap` (`OneRunAtATime`: while
a run is under way no other is, nor a worker of one),
`FramesComplete` (`FramesAreComplete`), `BusyIsTrue` (`BusyMatchesWork`),
`ResultsInOrder` (`PublishedInOrder`) and `RendererIsFrameService`
(`ImplementsFrameService`). The invariant is `RendererInv`: `OwnerInv` says what the
owner's thread knows (only the run started last is under way, what is posted is the
news of its end, what waits is newer), and `RunInv` what holds of each run. Its
`WorkersInv` counts: `remainingWorkers` is the number of workers inside the loop, so
that only the last to leave composes; `LayersInv` says that each layer below the
counter was rendered once or is held by the one worker that claimed it, and that no
worker leaves an uncanceled run with layers left; together they give `OutputInv`.
The refinement adds `ServiceInv`: what runs or waits is the newest request unless it
was canceled.

It also proves, of `CanvasEditing` and for any assets, layers, frames, sources and limits
(`CanvasAssumption`: 0 is a frame, every layer shows an asset at every frame, no layer
is none): `TypeCorrect`, `EditsWhatIsShownCorrect`, `SeeksSettleStrokesCorrect`,
`EditsAreRenderedCorrect` and `ItemKeepsGestures`, by which `GesturesAreUndoSteps` holds of the editor inside the
item. Every step of the item is a step of `BitmapHistory` or leaves its variables
alone, so `Kept` carries over; `EditInv` adds that the editor is
bound exactly while a layer is selected, to what that layer shows (`SelectionInv`),
and that the two lists of counts together stay within the limit although undo and
redo do not check it (`CountsInv`).

`CanvasViewProofs` proves, for any documents, viewports, layers and cache limits:

* `TypeCorrect`, which includes that a pending render has its timer, and
  `InvalidShowsNothingCorrect`; the two are inductive together (`ViewInv`).
* `CurrentTilesShowTheSnapshotCorrect`. `PictureInv` adds what is on its way: the request
  that is wanted and every tile is marked with a generation not later than the
  current one, and shows the snapshot of now if it is marked with the current one. A
  call either starts a generation, which leaves nothing to show, or keeps the picture.
* `TilesDoNotOverlapCorrect`. `TilesInv` adds that the tiles of the wanted request lie
  apart, which they do because the tiles of a level of detail follow each other
  (`TilesInOrder`, `CandidatesLieApart`).
* `PresentationIsCompleteCorrect`, under two hypotheses: all viewports have one level of
  detail (`OneLevelOfDetail`), and the cache has room for the tiles of any two of them with
  their rings (`RoomForTwo`). Both are needed, for without the first `canvas_zoom`, without
  the second a cache of four tiles violates the property (section 4); the constants of
  `canvas_view` satisfy both. `CompleteInv` says of a view with no render scheduled that
  each tile it wants is cached or comes with the answer that is awaited, and that
  meanwhile no cached tile was used after those (`UsedLast`). When the answer arrives, what
  is in view and what arrives are therefore the newest in the cache, fit into it, and
  are not trimmed (`UsedIsKept`); and what the answer overlaps, it replaces
  (`CompleteApply`). `TileOfPixel` and `AllIsRequested` say that the tiles asked for cover
  the viewport. `CacheInv` and `RequestInv` carry what this needs of the numbering and
  of the request: last uses are numbers up to the size of the cache, and the request is
  of one viewport.

TLC checks `PictureInv`, `TilesInv`, `CacheInv`, `RequestInv` and `CompleteInv` as well on the
instance of `canvas_view`.

`DocumentEditorProofs` proves, for any documents to begin with and any ids, positions and
values of the interface's types given to the about ninety operations, the invalid ones
included (`DocumentCallsAssumption`, which TLC evaluates for the instance in `MCEditors`; the first
of the four needs no assumption):

* `FileStaysValidCorrect`. It is inductive as it stands, and it does not look into the
  operations: what matters is that a file is bound only when the document validates, and
  that a draft replaces the document only after it validates. In memory the same does not
  hold (finding 6).
* `DocumentTypeCorrect`: what the operations leave is a document with the types of
  `Document.h`.
* `RejectedEditLeavesNoTraceCorrect`: a call that does not count changes nothing, unless a file
  committed it and reported a failure; then the document is the valid one that the file
  holds, and the file stays bound (`PerformDoes` splits a call into these cases). Through a
  file an operation works on a draft, but in
  memory it changes the document and puts back what it changed when the result does not
  validate; so each operation has to put back everything. `NoTrace` says this of one
  operation together with the type of what it leaves, one lemma per operation
  (`...LeavesNoTrace`), and `PerformKeeps` carries it over to the steps. For most
  operations `SameBut` bounds the fields that change by those that are put back
  (`RestoredIs`, `EditNoTrace`). Three do not put back what they saved: a renamed asset is
  renamed back, which restores the document because its references name assets it has and
  none named the new id before (`RenamedBack`, `FrameBack`,
  `RenameAssetLeavesNoTrace`); a copied artboard cuts off the assets it appended
  (`CutBack`); and the calls for ControlNet parts go through the replacement of a whole
  asset or layer.
* `ReferencesResolveCorrect`, for documents that resolve to begin with (`SessionsAssumption`,
  also evaluated by TLC). The invariant is `EachResolves`, the property taken layer by
  layer and keyframe by keyframe (`EachThenAllResolve`, `AllThenEachResolves`) together
  with the type. `NoTrace` carries it through each operation. An operation that validates what
  it leaves gets it from `Valid` (`ValidResolves`), one that takes everything back has it
  from before. Work remains for the calls that count without validating what they
  leave: settings and moves keep ids and links (`FewerReferences`, `AssetsStay`, `LayersStay`,
  `TracksStay`), audio that goes is not played (`UnusedAudioGoes`), and a layer that is
  renamed or removed takes its keyframes along (`RenamedLayerResolves`,
  `WithoutLayerResolves`). For these two the stored indices of the other layers have to be
  right although only one is rebuilt: the other layers own keyframes in the same frames as
  before (`OwnersMatch`), and there is one way to list these in order (`SameOwners`,
  `AscendingIsUnique`). Keys put under a new id must be sorted again, and are
  (`RelabelledProperties`). That a document without publication metadata names no
  artboards to publish is part of its type.

What the edits make of a sequence rests on two facts. What filters keep and what sorts
arrange is given by the rank of each position (`Arranged`, with `Kept` and `SortedBy`), and
places in an order are counted through by their ranks (`EveryRankIsTaken`), so the result is a
sequence again, with the same elements in that order (`KeptOrder`, `SortedByOrder`); and placements put in one after the other are a recursive function, which
exists for every number of them (`PlacingExists`).

The same module proves of the vector editor, for any assets, points, paths and commands
that calls and others give (`DrawingCallsAssumption`, which TLC evaluates for the instance
in `MCEditors`):

* `DrawingTypeCorrect`. The invariant `DrawingInv` is the type and that a bound editor
  names an asset of the document; what the asset holds by then is anyone's.
* `EditsShowInTheDrawingCorrect`. `CallKeeps` reduces it to calls the document editor
  accepts, counted or reported as failed: each has to change the drawing as it says (`Shown`). For paths put in, taken out
  and moved that follows from what `InsertAt` and `RemoveAt` do to a sequence
  (`InsertAtProperties`, `RemoveAtProperties`, `RemoveTheInserted`); for the others, from one path
  being another afterwards (`EditPathKeeps`, `EditCommandsKeeps`), which the test for "unchanged" of
  each call has to be exact for. A path moved to where an equal one was is the one edit
  that is made and shows nothing.

`StoredDocumentProofs` proves, for any documents and any limits of the serialization:

* `ReadsBack`: if the encoder takes a document (`CanEncode`: it is valid, and its totals are
  within the limits), its rows are decoded under the same limits to the document itself,
  but for the selected author. Rows are found again by their kinds, ids and positions
  (`TableOf`, `TableIsCanonical`, `TableListsAreRead`). A layer comes back from the payload of its version
  because validation refuses in an old version what that version cannot store (`StoredSince`, `ContentReads`,
  `RoleReads`, `SourceReads`, `LayerReads`). Keyframes are stored with their layers and come
  back as frames, in ascending order and each with the owners it had, because a valid
  document has no empty frame and no key without a layer (`PendingIs`, `TimesAre`, `FramesRead`).
  Encoder and decoder count apart, one by frames, the other by layers; that both totals
  agree is a double sum taken in two orders (`PairsAre`, `FramesCountKeys`, `LayersCountKeys`,
  `TextsMatch`, `TotalsMatch`).
* `FileReadsBackCorrect`, under `DocumentCallsAssumption`. The invariant is
  `FileHoldsDocument`: the rows of a bound file are those of the document. A commit
  leaves out payloads that did not change, writes the others over what is there and deletes what is gone;
  that the rows of the old document become those of the new one is `WrittenPayload`, which
  needs that what `UnchangedAsset` and `UnchangedAudio` take for stored is stored
  (`UnchangedAssetStays`, `UnchangedAudioStays`, `CommittedRows`).
* `UpgradesKeepContentCorrect`, for any files, limits and number of steps of others, under
  `UpgradeFilesAssumption`. The invariant is `UpgradeHolds`: each readable file has the rows
  of what it reads as (`InputHolds`); what a phase carries to the next
  is the encoding of the upgrade of a document that was at the path during the call
  (`CallHolds`); and a session whose file was not moved, at an unchanged revision, still has the document it read
  (`SessionIsKept`), which is why its COMMIT replaces what it upgraded. `ReadsBack` turns rows
  into documents and back at each end (`WhatIsRead`, `WrittenHolds`); `InputIsUpgraded` and
  `OutputIsUpgraded` are the two places where a result is put.

`RenderedDocumentProofs` proves `EveryFrameRendersCorrect`: `EveryFrameRenders` holds of any
edits of any documents, whichever transforms, masks and filters fit: a valid document renders
at a frame exactly if the layers drawn in it fit, and an artboard exactly if its own do. It needs the type of the document and nothing else of the run, and
relates what `Valid` says to what the renderer asks: the region of the whole document exists,
also where there are no artboards and validation does not ask for one, because the width of a
canvas is an `int32` (`ViewIsRenderable`, with greatest and least elements of sets that have a
bound); a keyframed layer always shows something, as its index starts at frame 0 and lists
frames that own its keyframes (`LayersShow`); clip bases, masks and artboards survive in the
batch of one artboard as in the whole (`BatchComposes`); and what is composed of the layers of
an artboard does not depend on where the others were left out (`KeptAgrees`,
`ArtboardIsPaintedAlike`, `NothingElseIsPainted`).

The same module proves `PlacementIsLocalCorrect`, under `DocumentCallsAssumption`: across
any applied operation, in memory or through a file, a layer that the call did not set out to
move lies where it lay, seen from the canvas and not from its artboard. What has to be shown
of each operation is `KeepsPlaces` of its outcome (lemmas `...Places`), or the stronger
`MovesNothing` where it touches neither layers nor artboards that exist (`...MovesNothing`).
Three facts carry it: ids are distinct and new ones are fresh in a document that validates, so
a layer found after the edit is the one found before (`PlacesAreKnown`); layers and artboards
that are inserted, moved, copied or removed are among those that were there, and those among
these (`InsertedElements`, `MovedElements`, `KeptElements`, `AppendedElements`); and an
operation that takes a layer to another artboard adds the difference of the origins, which a
layer without an artboard takes as 0 (`SetLayerArtboardPlaces`, `KeptLayersPlaces`).
`PerformPlaces` carries an outcome over to the step, with the type of the document from
`DocumentTypeCorrect`.

`DuplicatesAreIndependentCorrect`, also there and under the same assumption, is about the one
operation that copies. `IsDuplicate` says what `duplicateArtboard` leaves when it is applied:
the assets, layers and keyframes it copied beside those there were, in a valid document, the
ids of the copies not taken before (`DuplicateArtboardDuplicates`). In a valid document a
layer has at most one keyframe at a frame, so a lookup is the same as the relation
`HoldsKey` (`KeysAreHeld`), and the sources of an artboard are the assets its layers name or
hold (`SourcesAre`). The insertions at a position and the walk through all frames are then
described by what they add and keep (`CopiedKeysElements`, `LayersAreCopied`,
`AssetsAreCopied`). The two halves of the property follow: the copy of a layer
holds a copied keyframe where the layer holds one, of an asset with the same payload
(`CopyShowsTheSame`), and every source of the copies has a new id, while no layer that was
there, nor a keyframe of it, has changed what it names (`CopiesShareNoSource`).
`CallsCopyNothing` and `PerformCopiesNothing` dispose of all other calls.

Sums over sequences are recursive functions. That such a function exists is proved with
sets of partial sums that are closed under the next (`NumbersAreReached`, `SumsExist`); no
induction theorem of the library is needed.

`TimelineEditorProofs` proves, for any projects to begin with and any values of the
interface's types given to the calls, valid or not (`TimelineCallsAssumption`, which TLC evaluates
for the instance in `MCEditors`):

* `TypeCorrect`. The invariant `ProjectInv` is the type and that a bound project is valid:
  `EditProject` replaces the project only with a whole copy that validates, so what the edits
  do need only be typed (`EditKeeps`). The three properties then say what a valid
  project is good for, and the work is in showing that from what the code checks.
* `TimelineIsConnectedCorrect`: what clips play exists (`ClipsResolve`, `FindStreamFinds`),
  ids of clips and link groups name each other (`ClipsAreDistinct`, `LinksAreMutual`),
  transitions stand on cuts (`TransitionsStandOnCuts`), and no sequence plays itself, over
  however many others (`NothingPlaysItself`): if the search finds no cycle then no set of
  sequences each play one of the set (`SearchFindsKnots`). The search is a recursive
  function over sets; that it is defined for every finite graph is itself proved
  (`SearchExists`, `SearchIsDefined`).
* `RepresentationsAreInterchangeableCorrect`: choosing any other representation of a
  source, as `setActiveRepresentation` does, leaves the project valid, because the validation of clips only asks of a
  stream what all representations of it share (`ActiveDoesNotMatter`, `ActivatedIsValid`).
* `ClipsPlayExactlyCorrect`: the comparison that cancels common factors of the four
  numbers on each side, which keeps the products within 64 bits, answers as the products
  without a limit would (`MatchIsExact`): each of the sixteen cancellations keeps the
  ratio (`CommonDivisor`, `CancelKeepsRatio`), and so does their run (`RunExists`).

Where induction is needed there, it is over a set of counterexamples, which has a least
element (`LeastNumber`, `SmallestSet`, from the library's well-founded relations).

Only model-checked, and why:

* Liveness (`CallReturns`, `ChangeIsPresented`, `BusyEnds`, `NewestIsAnswered`,
  `VisibleIsShown`): fairness and ENABLED are beyond the prover.
* What an edit leaves alone (`ContentIsLocal`): it compares a step with `touched`, what the
  call set out to change, operation by operation, and follows every layer through sources,
  keyframes and assets; not proved yet.

## 6. Not modelled, and why

* Pixels, compositing, brush engines, codecs, parsers and text output: arithmetic
  and formats without state between calls. Motion evaluation, the numbers of transforms
  and masks, colour and the coordinates of canvas sampling, ControlNet parameter ranges and preview rasterisers, PSD and OpenRaster,
  SVG and PDF, media decoding, metadata, the interchange text of timelines and the
  command line tools are of this kind.
* Write statistics, messages, wording of errors.
* The scene graph and the GPU side of `CanvasItem`; its second axis; blend modes,
  which force composed tiles; the text and mouse handling.
* Mouse and tablet events, the stabilizer, brush values, dirty bounds and change
  signals of the editors; zoom, pan and mouse translation of `BitmapItem`; binds that
  fail on semantic masks; slots that re-enter elsewhere than in a seek's cancelled
  stroke.
* Sizes in bytes and digests of payloads; the container layout of snapshots.
* `Native/*`, beyond what it repeats of the Qt build.

Three hazards have no property: the error of the editor that is not in use
(`EditsAreRendered` excepts it), undo over what another editor painted on the same
asset, which no document promises to keep, and the eviction of visible tiles by more tiles
than the cache holds (section 4).

## 7. Plan

What is left, in this order:

1. Proofs: `ContentIsLocal`, along the lines of `PlacementIsLocalCorrect`, one lemma per
   operation about its outcome, with the lookups of `DuplicatesAreIndependentCorrect`.
2. An abstract document store that `StoredDocument` and `IiscUpgrade` implement.
3. The stabilizer and the mouse translation of the items, as far as they decide which
   stroke calls are made.
