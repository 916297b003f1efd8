---------------------------- MODULE StoredDocument ----------------------------
(***************************************************************************)
(* The document editor bound to a working file, with the rows of the file:  *)
(* binding a file creates it, every edit that is committed writes what it   *)
(* changed.                                                                  *)
(***************************************************************************)
EXTENDS DocumentEditor, DocumentRecords

VARIABLE rows                   \* canvas_records; empty when no file is bound

storedVars == <<vars, rows>>

(* DocumentFile::create() decodes what it is about to write.                 *)
CreateFile ==
    /\ binding # "file" /\ binding' = "file"
    /\ CanEncode(doc', SerializationLimits)
    /\ rows' = WriteRecords({}, EncodeDocumentRecords(doc', <<>>))
    /\ Decoded(rows', SerializationLimits) # <<>>

(* An edit through the file that counts, or ends unreported, is committed.   *)
CommitEdit ==
    LET records == EncodeDocumentRecords(doc', <<doc>>)
    IN  /\ binding = "file" /\ binding' = "file" /\ countVars' # countVars
        /\ rows' \in IF CanEncode(doc', SerializationLimits) /\ ~MissesRow(rows, records)
                     THEN {WriteRecords(rows, records)} ELSE {}

LeaveFile ==
    /\ binding' = "file" => binding = "file" /\ countVars' = countVars
    /\ rows' = IF binding' = "file" THEN rows ELSE {}

StoredInit == Init /\ rows = {}
StoredNext == Next /\ (CreateFile \/ CommitEdit \/ LeaveFile)

StoredSpec == StoredInit /\ [][StoredNext]_storedVars

(* Reopening the file, under the limits it is written with, gives the        *)
(* document the editor shows: whatever was written over what, in whichever   *)
(* order the rows of earlier commits were left, and also when the version    *)
(* of the document is raised on the way.  Only the selected author is not    *)
(* part of the file.                                                         *)
FileReadsBack ==
    binding = "file" => Decoded(rows, SerializationLimits) = <<[doc EXCEPT !.author = 0]>>
===============================================================================
