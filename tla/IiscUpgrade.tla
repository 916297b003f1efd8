------------------------------ MODULE IiscUpgrade ------------------------------
(***************************************************************************)
(* upgradeIiscFile(): one caller brings files of older versions up to date, *)
(* in place or into a new file, while other programs commit to the input,   *)
(* put another file in its place or create the output.  A snapshot holds    *)
(* the payloads of the rows one after the other; the rows stand for it.     *)
(***************************************************************************)
EXTENDS DocumentRecords

CONSTANTS Inputs,           \* files to upgrade
          Replacements,     \* files others put in their place
          MaxOthers         \* bound: steps of other programs

VARIABLES
    input, output,  \* what lies at the two paths
    call,           \* where the call is and what it holds
    held,           \* history: the documents the input was during the call
    others          \* counts the steps of other programs

upgradeVars == <<input, output, call, held, others>>

-----------------------------------------------------------------------------
(* Files *)

File(kind, rows, identity) ==
    [kind |-> kind, rows |-> rows, revision |-> 0, identity |-> identity]
Absent == File("absent", {}, 0)

DefaultChunkSize == 4    \* stands for 256

(* encodeIisc(): the whole payload in one; a container has no place for the  *)
(* chunk size of a finite canvas.                                            *)
EncodeIisc(d) ==
    WriteRecords({}, EncodeDocumentRecords(
        IF d.infinite THEN d ELSE [d EXCEPT !.chunkSize = DefaultChunkSize], <<>>))
EncodeWorkingFile(d) == WriteRecords({}, EncodeDocumentRecords(d, <<>>))

Snapshot(d) == File("snapshot", EncodeIisc(d), 0)
WorkingFile(d) == File("working", EncodeWorkingFile(d), 0)

(* decodeIisc() of a snapshot, and what a working file opens to: <<>> if it  *)
(* is refused.                                                               *)
Reads(file) == Decoded(file.rows, SerializationLimits)

IsCurrent(d) == d.minor = CurrentFormatMinor
Upgraded(d) == [d EXCEPT !.minor = CurrentFormatMinor]

-----------------------------------------------------------------------------
(* The call.  Each step may fail instead: of what it asks of the file, of a  *)
(* limit on bytes, or of the storage.  A crash ends it the same way: the     *)
(* backup and the staged file it leaves have names of their own.             *)

Idle == [phase |-> "idle", inPlace |-> FALSE, seen |-> <<>>, rows |-> {},
         revision |-> 0, identity |-> 0, result |-> "none"]

At(phase) == call.phase = phase
Goes(phase) == call' = [call EXCEPT !.phase = phase]
GoesWith(phase, d) == call' = [call EXCEPT !.phase = phase, !.seen = <<d>>]
Returns(result) == call' = [Idle EXCEPT !.result = result]
Fails == ~At("idle") /\ Returns("failed") /\ UNCHANGED <<input, output>>

(* The input is a regular file, the output is not there yet, and             *)
(* readPrefix() says which kind of file the input is.                        *)
Begin(inPlace) ==
    /\ At("idle")
    /\ input.kind \in {"snapshot", "working"}
    /\ inPlace \/ output.kind = "absent"
    /\ call' = [Idle EXCEPT !.phase = IF input.kind = "working" THEN "load" ELSE "read",
                            !.inPlace = inPlace]
    /\ UNCHANGED <<input, output>>

(* loadIiscDocumentReadOnly(): a consistent copy of the input is opened.  It *)
(* looks again at what kind of file the input is, and takes both.            *)
Load ==
    /\ At("load") /\ Reads(input) # <<>>
    /\ LET source == Reads(input)[1]
       IN  IF ~call.inPlace THEN GoesWith("stage", source)
           ELSE IF IsCurrent(source) THEN Returns("unchanged")
           ELSE GoesWith("open", source)
    /\ UNCHANGED <<input, output>>

(* DocumentFile::open(): the input is read once more, for its own session.   *)
Open ==
    /\ At("open") /\ input.kind = "working" /\ Reads(input) # <<>>
    /\ call' = [call EXCEPT !.phase = "edit", !.seen = Reads(input),
                            !.revision = input.revision, !.identity = input.identity]
    /\ UNCHANGED <<input, output>>

Moved == input.kind # "working" \/ input.identity # call.identity

(* Nobody has moved the file or committed to it since it was opened.         *)
SessionHolds == ~Moved /\ input.revision = call.revision

(* upgradeFormat() up to its COMMIT: the transaction keeps other sessions    *)
(* from committing, but not the path from being moved.                       *)
UpgradeFormat ==
    /\ At("edit") /\ SessionHolds
    /\ LET records == EncodeDocumentRecords(Upgraded(call.seen[1]), call.seen)
       IN  /\ CanEncode(Upgraded(call.seen[1]), SerializationLimits)
           /\ ~MissesRow(input.rows, records)
           /\ call' = [call EXCEPT !.phase = "commit", !.rows = WriteRecords(input.rows, records)]
    /\ UNCHANGED <<input, output>>

(* COMMIT: of the file that was opened, wherever it is by now.  A file that  *)
(* has no row to change keeps its revision.                                  *)
Commit ==
    /\ At("commit")
    /\ Returns(IF IsCurrent(call.seen[1]) THEN "unchanged" ELSE "changed")
    /\ input' = IF Moved \/ IsCurrent(call.seen[1]) THEN input
                ELSE [input EXCEPT !.rows = call.rows, !.revision = @ + 1]
    /\ UNCHANGED output

(* DocumentFile::create() in a staged file beside the output.                *)
Stage ==
    /\ At("stage") /\ CanEncode(Upgraded(call.seen[1]), SerializationLimits)
    /\ LET rows == EncodeWorkingFile(Upgraded(call.seen[1]))
       IN  /\ Decoded(rows, SerializationLimits) # <<>>
           /\ call' = [call EXCEPT !.phase = "publish", !.rows = rows]
    /\ UNCHANGED <<input, output>>

(* publish(false) and File::create() take no path that is in use.            *)
Creates(file) ==
    /\ output.kind = "absent" /\ output' = file
    /\ Returns("changed") /\ UNCHANGED input

Publish == At("publish") /\ Creates(File("working", call.rows, 0))

(* The bytes of a snapshot are read, decoded and encoded anew.               *)
Read ==
    /\ At("read") /\ input.kind = "snapshot" /\ Reads(input) # <<>>
    /\ LET source == Reads(input)[1]
       IN  IF call.inPlace /\ IsCurrent(source) THEN Returns("unchanged")
           ELSE /\ CanEncode(Upgraded(source), SerializationLimits)
                /\ call' = [call EXCEPT !.phase = IF call.inPlace THEN "replace" ELSE "create",
                                        !.seen = <<source>>, !.rows = input.rows]
    /\ UNCHANGED <<input, output>>

\* Mutant: the file is replaced whatever it has become.
SnapshotHoldsAny == input.kind = "snapshot"

(* File::update() compares the file with the bytes that were read.           *)
SnapshotHolds == input.kind = "snapshot" /\ input.rows = call.rows

Replace ==
    /\ At("replace") /\ SnapshotHolds
    /\ input' = [input EXCEPT !.rows = EncodeIisc(Upgraded(call.seen[1]))]
    /\ Returns("changed") /\ UNCHANGED output

Create == At("create") /\ Creates(Snapshot(Upgraded(call.seen[1])))

Step ==
    \/ \E inPlace \in BOOLEAN : Begin(inPlace)
    \/ Load \/ Open \/ UpgradeFormat \/ Commit
    \/ Stage \/ Publish
    \/ Read \/ Replace \/ Create
    \/ Fails

-----------------------------------------------------------------------------
(* Other programs *)

(* An editor with the working file open commits what it changed.             *)
CommitOther ==
    /\ input.kind = "working" /\ Reads(input) # <<>> /\ ~At("commit")
    /\ \E minor \in {Reads(input)[1].minor, CurrentFormatMinor} :
         LET old == Reads(input)[1]
             new == [old EXCEPT !.minor = minor, !.frameCount = @ + 1]
         IN  /\ CanEncode(new, SerializationLimits)
             /\ input' = [input EXCEPT
                            !.rows = WriteRecords(@, EncodeDocumentRecords(new, <<old>>)),
                            !.revision = @ + 1]
    /\ UNCHANGED output

ReplaceOther ==
    /\ \E file \in Replacements : input' = [file EXCEPT !.identity = others + 1]
    /\ UNCHANGED output

CreateOther == \E file \in Replacements : output' = file /\ UNCHANGED input
RemoveOther == \/ input' = Absent /\ UNCHANGED output
               \/ output' = Absent /\ UNCHANGED input

Other ==
    /\ others < MaxOthers /\ others' = others + 1
    /\ CommitOther \/ ReplaceOther \/ CreateOther \/ RemoveOther
    /\ UNCHANGED call

-----------------------------------------------------------------------------
UpgradeInit ==
    /\ input \in Inputs /\ output = Absent
    /\ call = Idle
    /\ held = {} /\ others = 0

UpgradeNext ==
    /\ \/ Step /\ UNCHANGED others
       \/ Other
    /\ held' = IF call'.phase = "idle" THEN {}
               ELSE held \union {Reads(input')}

UpgradeSpec == UpgradeInit /\ [][UpgradeNext]_upgradeVars

(* A file that can be read was written by the program: it has the rows of    *)
(* what it reads as, and a snapshot of a finite canvas the default chunk     *)
(* size.                                                                     *)
IsWritten(file) ==
    Reads(file) # <<>> =>
        LET d == Reads(file)[1]
        IN  /\ d \in CanvasDocument /\ CanEncode(d, SerializationLimits)
            /\ file.rows = EncodeWorkingFile(d)
            /\ file.kind = "snapshot" /\ ~d.infinite => d.chunkSize = DefaultChunkSize

UpgradeFilesAssumption ==
    \A file \in Inputs \union Replacements :
        file = File(file.kind, file.rows, 0) /\ IsWritten(file)

-----------------------------------------------------------------------------
(* Properties *)

(* Whatever others do meanwhile, an upgrade changes the version of a file    *)
(* and nothing else.  In place it turns the document that lies at the path   *)
(* at that very moment into its current version, keeping the kind of file;   *)
(* it touches no output that is there, and a new output is the current       *)
(* version of a document the input was during the call.  A call that says    *)
(* the input is up to date in place is right, unless the file was moved away *)
(* under the commit.                                                         *)
UpgradesKeepContent ==
    [][call' # call =>
        /\ input' # input =>
               /\ input'.kind = input.kind
               /\ Reads(input') = <<Upgraded(Reads(input)[1])>>
        /\ output' # output =>
               /\ output.kind = "absent"
               /\ \E d \in held : d # <<>> /\ Reads(output') = <<Upgraded(d[1])>>
        /\ call.inPlace /\ call'.result \in {"changed", "unchanged"} =>
               \/ At("commit") /\ Moved
               \/ Reads(input') # <<>> /\ IsCurrent(Reads(input')[1])]_upgradeVars
===============================================================================
