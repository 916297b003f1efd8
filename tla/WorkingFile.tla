----------------------------- MODULE WorkingFile -----------------------------
(***************************************************************************)
(* DocumentFile: authoring sessions over one path that holds a canvas       *)
(* working file (an SQLite database).  A session keeps a document in memory *)
(* and writes every accepted edit through before the call returns.  One     *)
(* action is one step of create(), open(), close() or editImpl() between    *)
(* two points where another session, another process, the presentation      *)
(* worker or a failure can come in.  SQLite's transactions, the in-process  *)
(* source lock and the presentation queue belong to iiFileProvider and are  *)
(* modelled from their use here.                                            *)
(***************************************************************************)
EXTENDS Integers, FiniteSets

CONSTANTS Session,        \* DocumentFile objects
          Process,        \* processes they live in
          Home,           \* the process of each session
          Inode,          \* file identities the path may stand for over time
          Body,           \* artwork
          EmptyBody,      \* artwork of a default-constructed Document
          NewDocument,    \* the documents files are created from
          Author,         \* runtime author identities
          NoAuthor,
          MaxRevision,    \* stands for the largest signed 64-bit revision
          MaxGeneration,  \* bound: lifetimes of a session object
          Previewing,     \* processes whose presentation worker is in the model
          QueueLimit,     \* capacity of its queue
          Faults,         \* what the environment may do: see below
          Free, Worker,   \* lock owners other than sessions
          NoFile

Format == {"old", "current"}
FaultKinds == {"io", "memory", "notify", "crash", "foreign", "remove"}

ASSUME ConstantsAssumption ==
    /\ Home \in [Session -> Process]
    /\ NewDocument \subseteq [format : Format, body : Body]
    /\ EmptyBody \in Body /\ NoAuthor \in Author
    /\ MaxRevision \in Nat /\ MaxGeneration \in Nat
    /\ Previewing \subseteq Process /\ QueueLimit \in Nat \ {0}
    /\ Faults \subseteq FaultKinds
    /\ Free \notin Session /\ Worker \notin Session /\ Free # Worker
    /\ NoFile \notin Inode

VARIABLES
    \* the disk
    store,       \* what each file identity holds durably
    at,          \* the identity the path stands for, or NoFile
    committed,   \* history: every version that was ever durable
    \* locks
    writer,      \* SQLite's write lock on each file
    stranded,    \* history: sessions an error nobody verified left in a transaction
    source,      \* iiFileProvider's in-process access to each file
    \* a session between calls
    handle,      \* the connection's file (also of a create() in progress)
    document, revision, generation,
    stale,       \* another connection committed since data_version was read
    result,      \* lastResult()
    \* the call a session runs
    pc, kind, draft,
    landed,      \* history: the last call's transaction became durable
    \* file presentation
    queue, wpc,
    preview      \* the newest revision the worker has read

diskVars    == <<store, at, committed>>
transaction == <<writer, stranded>>
lockVars    == <<transaction, source>>
sessionVars == <<handle, document, revision, generation, stale, result>>
callVars    == <<pc, kind, draft, landed>>
viewVars    == <<queue, wpc, preview>>
vars == <<diskVars, lockVars, sessionVars, callVars, viewVars>>

(* A document in memory, and the part of it the records on disk keep: the    *)
(* author selected for future edits is runtime state.                        *)
Document == [format : Format, body : Body, ledger : Nat, author : Author]
Content == [format : Format, body : Body, ledger : Nat]
Persisted(d) == [format |-> d.format, body |-> d.body, ledger |-> d.ledger]

Decoded(c) == [format |-> c.format, body |-> c.body, ledger |-> c.ledger,
               author |-> NoAuthor]

EmptyDocument ==
    [format |-> "current", body |-> EmptyBody, ledger |-> 0, author |-> NoAuthor]

(* recordDocumentChange: an authorship entry, and the current format. *)
Stamped(d) ==
    [format |-> "current", body |-> d.body, ledger |-> d.ledger + 1, author |-> d.author]

Stored == [phase : {"unused", "blank", "canvas"}, rev : Nat, doc : Content]
Unused == [phase |-> "unused", rev |-> 0, doc |-> Persisted(EmptyDocument)]

CreateSteps == {"createLock", "createWrite", "createAdopt", "createUndo"}
EditSteps == {"draft", "lock", "begin", "check", "write", "commit", "adopt", "verify"}

IsOpen(s) == handle[s] # NoFile /\ pc[s] \notin CreateSteps
Access(s) == <<Home[s], handle[s]>>
Disk(s) == store[handle[s]]
InTransaction(s) == writer[handle[s]] = s

Init ==
    /\ store = [i \in Inode |-> Unused]
    /\ at = NoFile
    /\ committed = {}
    /\ writer = [i \in Inode |-> Free]
    /\ stranded = {}
    /\ source = [a \in Process \X Inode |-> Free]
    /\ handle = [s \in Session |-> NoFile]
    /\ document = [s \in Session |-> EmptyDocument]
    /\ revision = [s \in Session |-> 0]
    /\ generation = [s \in Session |-> 0]
    /\ stale = [s \in Session |-> FALSE]
    /\ result = [s \in Session |-> "ok"]
    /\ pc = [s \in Session |-> "idle"]
    /\ kind = [s \in Session |-> "edit"]
    /\ draft = [s \in Session |-> EmptyDocument]
    /\ landed = [s \in Session |-> FALSE]
    /\ queue = [p \in Process |-> 0]
    /\ wpc = [p \in Process |-> "idle"]
    /\ preview = [p \in Process |-> -1]

-----------------------------------------------------------------------------
(* Steps shared by the calls. *)

Fail(s) == result' = [result EXCEPT ![s] = "fail"]
Goto(s, step) == pc' = [pc EXCEPT ![s] = step]

(* Unlock whatever source the call holds. *)
ReleaseSource(s) ==
    source' = [a \in Process \X Inode |-> IF source[a] = s THEN Free ELSE source[a]]

(* The call returns: its source lock goes out of scope with its draft. *)
Return(s) ==
    /\ Goto(s, "idle")
    /\ ReleaseSource(s)
    /\ kind' = [kind EXCEPT ![s] = "edit"]
    /\ draft' = [draft EXCEPT ![s] = EmptyDocument]

EndTransaction(s) ==
    /\ writer' = [i \in Inode |-> IF writer[i] = s THEN Free ELSE writer[i]]
    /\ stranded' = stranded \ {s}

(* SQLite makes a version durable; every other connection to the file will   *)
(* see its data_version change.                                              *)
MakeDurable(s, i, r, c) ==
    /\ store' = [store EXCEPT ![i] = [phase |-> "canvas", rev |-> r, doc |-> c]]
    /\ committed' = committed \union {[file |-> i, rev |-> r, doc |-> c]}
    /\ stale' = [t \in Session |-> stale[t] \/ (t # s /\ handle[t] = i)]
    /\ UNCHANGED at

-----------------------------------------------------------------------------
(* Calls that end where they begin. *)

(* edit() on a closed file, create()/open() on an open one, an empty edit,   *)
(* create() over an existing path or of an invalid document.                 *)
RefuseCall(s) ==
    /\ pc[s] = "idle"
    /\ Fail(s)
    /\ landed' = [landed EXCEPT ![s] = FALSE]
    /\ UNCHANGED <<diskVars, lockVars, handle, document, revision, generation, stale,
                   pc, kind, draft, viewVars>>

Open(s) ==
    /\ pc[s] = "idle" /\ handle[s] = NoFile
    /\ generation[s] < MaxGeneration
    /\ at # NoFile /\ source[<<Home[s], at>>] = Free
    /\ store[at].phase = "canvas"
    /\ handle' = [handle EXCEPT ![s] = at]
    /\ document' = [document EXCEPT ![s] = Decoded(store[at].doc)]
    /\ revision' = [revision EXCEPT ![s] = store[at].rev]
    /\ stale' = [stale EXCEPT ![s] = FALSE]
    /\ generation' = [generation EXCEPT ![s] = @ + 1]
    /\ result' = [result EXCEPT ![s] = "ok"]
    /\ landed' = [landed EXCEPT ![s] = FALSE]
    /\ UNCHANGED <<diskVars, lockVars, pc, kind, draft, viewVars>>

(* The connection goes, with the transaction it may have been left in. *)
Close(s) ==
    /\ pc[s] = "idle" /\ generation[s] <= MaxGeneration
    /\ handle' = [handle EXCEPT ![s] = NoFile]
    /\ document' = [document EXCEPT ![s] = EmptyDocument]
    /\ revision' = [revision EXCEPT ![s] = 0]
    /\ stale' = [stale EXCEPT ![s] = FALSE]
    /\ generation' = [generation EXCEPT ![s] = @ + 1]
    /\ result' = [result EXCEPT ![s] = "ok"]
    /\ landed' = [landed EXCEPT ![s] = FALSE]
    /\ EndTransaction(s)
    /\ UNCHANGED <<diskVars, source, pc, kind, draft, viewVars>>

-----------------------------------------------------------------------------
(* create() *)

CreateFile(s) ==
    /\ pc[s] = "idle" /\ handle[s] = NoFile
    /\ generation[s] < MaxGeneration
    /\ at = NoFile
    /\ \E i \in Inode, d \in NewDocument :
        /\ store[i].phase = "unused"
        /\ store' = [store EXCEPT ![i].phase = "blank"]
        /\ at' = i
        /\ handle' = [handle EXCEPT ![s] = i]
        /\ draft' = [draft EXCEPT ![s] = [EmptyDocument EXCEPT !.format = d.format, !.body = d.body]]
    /\ kind' = [kind EXCEPT ![s] = "create"]
    /\ landed' = [landed EXCEPT ![s] = FALSE]
    /\ Goto(s, "createLock")
    /\ UNCHANGED <<committed, lockVars, document, revision, generation, stale, result,
                   viewVars>>

CreateLock(s) ==
    /\ pc[s] = "createLock"
    /\ source[Access(s)] = Free
    /\ source' = [source EXCEPT ![Access(s)] = s]
    /\ Goto(s, "createWrite")
    /\ UNCHANGED <<diskVars, transaction, sessionVars, kind, draft, landed, viewVars>>

(* Schema, revision 0 and every record in one immediate transaction. *)
CreateWrite(s) ==
    /\ pc[s] = "createWrite"
    /\ MakeDurable(s, handle[s], 0, Persisted(draft[s]))
    /\ landed' = [landed EXCEPT ![s] = TRUE]
    /\ Goto(s, "createAdopt")
    /\ UNCHANGED <<lockVars, handle, document, revision, generation, result,
                   kind, draft, viewVars>>

(* The first data_version this connection remembers is read only now. *)
CreateAdopt(s) ==
    /\ pc[s] = "createAdopt"
    /\ document' = [document EXCEPT ![s] = draft[s]]
    /\ revision' = [revision EXCEPT ![s] = 0]
    /\ stale' = [stale EXCEPT ![s] = FALSE]
    /\ generation' = [generation EXCEPT ![s] = @ + 1]
    /\ result' = [result EXCEPT ![s] = "changed"]
    /\ ReleaseSource(s)
    /\ Goto(s, "notify")
    /\ UNCHANGED <<diskVars, transaction, handle, kind, draft, landed, viewVars>>

(* Any step of create() may throw; its transaction may have landed by then. *)
CreateThrows(s) ==
    /\ "io" \in Faults
    /\ \/ /\ pc[s] = "createWrite"
          /\ MakeDurable(s, handle[s], 0, Persisted(draft[s]))
       \/ /\ pc[s] \in {"createLock", "createWrite", "createAdopt"}
          /\ UNCHANGED <<diskVars, stale>>
    /\ ReleaseSource(s)
    /\ Goto(s, "createUndo")
    /\ UNCHANGED <<transaction, handle, document, revision, generation, result, kind, draft,
                   landed, viewVars>>

(* removeCreated() removes by path, whatever the path stands for by now. *)
RemoveCreated(s) ==
    /\ pc[s] = "createUndo"
    /\ at' = NoFile
    /\ handle' = [handle EXCEPT ![s] = NoFile]
    /\ stale' = [stale EXCEPT ![s] = FALSE]
    /\ Fail(s)
    /\ Return(s)
    /\ UNCHANGED <<store, committed, transaction, document, revision, generation,
                   landed, viewVars>>

-----------------------------------------------------------------------------
(* editImpl(): edit() and upgradeFormat() *)

\* Mutant: data_version is read again when an edit begins.
BeginEditRefreshes(s) ==
    /\ pc[s] = "idle" /\ handle[s] # NoFile
    /\ \E k \in {"edit", "upgrade"} : kind' = [kind EXCEPT ![s] = k]
    /\ draft' = [draft EXCEPT ![s] = document[s]]
    /\ stale' = [stale EXCEPT ![s] = FALSE]
    /\ landed' = [landed EXCEPT ![s] = FALSE]
    /\ Goto(s, "draft")
    /\ UNCHANGED <<diskVars, lockVars, handle, document, revision, generation, result,
                   viewVars>>

BeginEdit(s) ==
    /\ pc[s] = "idle" /\ handle[s] # NoFile
    /\ \E k \in {"edit", "upgrade"} : kind' = [kind EXCEPT ![s] = k]
    /\ draft' = [draft EXCEPT ![s] = document[s]]
    /\ landed' = [landed EXCEPT ![s] = FALSE]
    /\ Goto(s, "draft")
    /\ UNCHANGED <<diskVars, lockVars, sessionVars, viewVars>>

(* What a callback may make of its draft: nothing, another author, artwork   *)
(* drawn past the editors, artwork an editor drew and stamped.               *)
Drafts(d) ==
    {d} \union {[d EXCEPT !.author = a] : a \in Author}
        \union {[d EXCEPT !.body = b] : b \in Body}
        \union {Stamped([d EXCEPT !.body = b]) : b \in Body \ {d.body}}

Callback(s) ==
    /\ pc[s] = "draft"
    /\ \E d \in IF kind[s] = "upgrade" THEN {[draft[s] EXCEPT !.format = "current"]}
                                      ELSE Drafts(draft[s]) :
            draft' = [draft EXCEPT ![s] = d]
    /\ Goto(s, "lock")
    /\ UNCHANGED <<diskVars, lockVars, sessionVars, kind, landed, viewVars>>

(* A nested edit is refused; a close() from the callback does nothing. *)
NestedEdit(s) ==
    /\ pc[s] = "draft"
    /\ Fail(s)
    /\ UNCHANGED <<diskVars, lockVars, handle, document, revision, generation, stale,
                   callVars, viewVars>>

(* The callback returns false or throws. *)
CallbackRejects(s) ==
    /\ pc[s] = "draft" /\ kind[s] = "edit"
    /\ Fail(s)
    /\ Return(s)
    /\ UNCHANGED <<diskVars, transaction, handle, document, revision, generation, stale,
                   landed, viewVars>>

(* The draft does not validate or exceeds a limit: the handler verifies the  *)
(* outcome of a transaction that never began, without the source lock.       *)
EncodeFails(s) ==
    /\ pc[s] = "draft" /\ kind[s] = "edit"
    /\ Goto(s, "verify")
    /\ UNCHANGED <<diskVars, lockVars, sessionVars, kind, draft, landed, viewVars>>

AcquireSource(s) ==
    /\ pc[s] = "lock"
    /\ source[Access(s)] = Free
    /\ source' = [source EXCEPT ![Access(s)] = s]
    /\ Goto(s, "begin")
    /\ UNCHANGED <<diskVars, transaction, sessionVars, kind, draft, landed, viewVars>>

BeginImmediate(s) ==
    /\ pc[s] = "begin"
    /\ writer[handle[s]] = Free
    /\ writer' = [writer EXCEPT ![handle[s]] = s]
    /\ Goto(s, "check")
    /\ UNCHANGED <<diskVars, stranded, source, sessionVars, kind, draft, landed, viewVars>>

(* SQLITE_BUSY is not waited for; a connection still in a transaction cannot *)
(* begin another.                                                            *)
BeginFails(s) ==
    /\ pc[s] = "begin"
    /\ writer[handle[s]] # Free \/ "io" \in Faults
    /\ Goto(s, "verify")
    /\ UNCHANGED <<diskVars, lockVars, sessionVars, kind, draft, landed, viewVars>>

\* Mutants: the conflict check without the stored revision, and without any version.
OwnsFileByVersion(s) == at = handle[s] /\ ~stale[s]
OwnsFileByPath(s) == at = handle[s]

(* hasMoved(), data_version and the stored revision. *)
OwnsFile(s) ==
    /\ at = handle[s]
    /\ ~stale[s]
    /\ Disk(s).rev = revision[s]

CheckOwnership(s) ==
    /\ pc[s] = "check"
    /\ OwnsFile(s)
    /\ Goto(s, "write")
    /\ UNCHANGED <<diskVars, lockVars, sessionVars, kind, draft, landed, viewVars>>

Conflict(s) ==
    /\ pc[s] = "check"
    /\ ~OwnsFile(s)
    /\ EndTransaction(s)
    /\ Goto(s, "verify")
    /\ UNCHANGED <<diskVars, source, sessionVars, kind, draft, landed, viewVars>>

(* No record differs: only the runtime author selection is adopted. *)
WriteNothing(s) ==
    /\ pc[s] = "write"
    /\ Persisted(draft[s]) = Disk(s).doc
    /\ document' = [document EXCEPT ![s].author = draft[s].author]
    /\ result' = [result EXCEPT ![s] = "ok"]
    /\ EndTransaction(s)
    /\ Return(s)
    /\ UNCHANGED <<diskVars, handle, revision, generation, stale, landed,
                   viewVars>>

\* Mutants: the draft becomes the document before it is committed; every
\* changing edit is stamped, whether or not its editor stamped it.
WriteRecordsAdopts(s) ==
    /\ pc[s] = "write"
    /\ Persisted(draft[s]) # Disk(s).doc
    /\ revision[s] # MaxRevision
    /\ draft' = IF kind[s] = "edit" /\ draft[s].ledger = document[s].ledger
                THEN [draft EXCEPT ![s] = Stamped(draft[s])]
                ELSE draft
    /\ document' = draft'
    /\ Goto(s, "commit")
    /\ UNCHANGED <<diskVars, lockVars, handle, revision, generation, stale, result,
                   kind, landed, viewVars>>

WriteRecordsAlwaysStamps(s) ==
    /\ pc[s] = "write"
    /\ Persisted(draft[s]) # Disk(s).doc
    /\ revision[s] # MaxRevision
    /\ draft' = IF kind[s] = "edit" THEN [draft EXCEPT ![s] = Stamped(draft[s])] ELSE draft
    /\ Goto(s, "commit")
    /\ UNCHANGED <<diskVars, lockVars, sessionVars, kind, landed, viewVars>>

(* The records, and the authorship entry if the draft does not carry one. *)
WriteRecords(s) ==
    /\ pc[s] = "write"
    /\ Persisted(draft[s]) # Disk(s).doc
    /\ revision[s] # MaxRevision
    /\ draft' = IF kind[s] = "edit" /\ draft[s].ledger = document[s].ledger
                THEN [draft EXCEPT ![s] = Stamped(draft[s])]
                ELSE draft
    /\ Goto(s, "commit")
    /\ UNCHANGED <<diskVars, lockVars, sessionVars, kind, landed, viewVars>>

RevisionExhausted(s) ==
    /\ pc[s] = "write"
    /\ Persisted(draft[s]) # Disk(s).doc
    /\ revision[s] = MaxRevision
    /\ EndTransaction(s)
    /\ Goto(s, "verify")
    /\ UNCHANGED <<diskVars, source, sessionVars, kind, draft, landed, viewVars>>

(* A record cannot be written: rolled back while unwinding, if that works. *)
WriteFails(s) ==
    /\ "io" \in Faults /\ pc[s] = "write"
    /\ EndTransaction(s) \/ UNCHANGED transaction
    /\ Goto(s, "verify")
    /\ UNCHANGED <<diskVars, source, sessionVars, kind, draft, landed, viewVars>>

(* std::exception before COMMIT: rolled back while unwinding, if that works, *)
(* and nobody verifies whether it did.                                       *)
AllocationFails(s) ==
    /\ "memory" \in Faults /\ pc[s] \in {"write", "commit"}
    /\ \/ EndTransaction(s)
       \/ "io" \in Faults /\ stranded' = stranded \union {s} /\ UNCHANGED writer
    /\ Fail(s)
    /\ Return(s)
    /\ UNCHANGED <<diskVars, handle, document, revision, generation, stale,
                   landed, viewVars>>

Commit(s) ==
    /\ pc[s] = "commit"
    /\ MakeDurable(s, handle[s], Disk(s).rev + 1, Persisted(draft[s]))
    /\ landed' = [landed EXCEPT ![s] = TRUE]
    /\ EndTransaction(s)
    /\ Goto(s, "adopt")
    /\ UNCHANGED <<source, handle, document, revision, generation, result,
                   kind, draft, viewVars>>

(* COMMIT reports an error: it rolled back, it is still in the transaction   *)
(* and cannot roll back, or it is durable all the same.                      *)
CommitFails(s) ==
    /\ "io" \in Faults /\ pc[s] = "commit"
    /\ \/ EndTransaction(s) /\ UNCHANGED <<diskVars, stale, landed>>
       \/ UNCHANGED <<diskVars, transaction, stale, landed>>
       \/ /\ MakeDurable(s, handle[s], Disk(s).rev + 1, Persisted(draft[s]))
          /\ landed' = [landed EXCEPT ![s] = TRUE]
          /\ EndTransaction(s)
    /\ Goto(s, "verify")
    /\ UNCHANGED <<source, handle, document, revision, generation, result,
                   kind, draft, viewVars>>

\* Mutant: the presentation is queued before the source is unlocked.
AdoptCommitLocked(s) ==
    /\ pc[s] = "adopt"
    /\ document' = [document EXCEPT ![s] = draft[s]]
    /\ revision' = [revision EXCEPT ![s] = @ + 1]
    /\ result' = [result EXCEPT ![s] = "changed"]
    /\ Goto(s, "notify")
    /\ UNCHANGED <<diskVars, lockVars, handle, generation, stale, kind, draft, landed,
                   viewVars>>

(* Publish the draft in memory, then unlock. *)
AdoptCommit(s) ==
    /\ pc[s] = "adopt"
    /\ document' = [document EXCEPT ![s] = draft[s]]
    /\ revision' = [revision EXCEPT ![s] = @ + 1]
    /\ result' = [result EXCEPT ![s] = "changed"]
    /\ ReleaseSource(s)
    /\ Goto(s, "notify")
    /\ UNCHANGED <<diskVars, transaction, handle, generation, stale, kind, draft, landed,
                   viewVars>>

(* The failure handler: still in a transaction, an unexpected revision or an *)
(* unreadable one detaches the file.                                         *)
Detach(s) ==
    /\ pc[s] = "verify"
    /\ \/ InTransaction(s)
       \/ Disk(s).rev # revision[s]
       \/ "io" \in Faults
       \/ writer[handle[s]] # Free
    /\ handle' = [handle EXCEPT ![s] = NoFile]
    /\ stale' = [stale EXCEPT ![s] = FALSE]
    /\ generation' = [generation EXCEPT ![s] = @ + 1]
    /\ EndTransaction(s)
    /\ Fail(s)
    /\ Return(s)
    /\ UNCHANGED <<diskVars, document, revision, landed, viewVars>>

\* Mutants: the handler trusts that a failed COMMIT rolled back; it looks at
\* the revision only, not at the transaction it may still be in.
StayAttachedUnverified(s) ==
    /\ pc[s] = "verify"
    /\ ~InTransaction(s)
    /\ Fail(s)
    /\ Return(s)
    /\ UNCHANGED <<diskVars, transaction, handle, document, revision, generation, stale,
                   landed, viewVars>>

StayAttachedInTransaction(s) ==
    /\ pc[s] = "verify"
    /\ Disk(s).rev = revision[s]
    /\ Fail(s)
    /\ Return(s)
    /\ UNCHANGED <<diskVars, transaction, handle, document, revision, generation, stale,
                   landed, viewVars>>

StayAttached(s) ==
    /\ pc[s] = "verify"
    /\ ~InTransaction(s)
    /\ Disk(s).rev = revision[s]
    /\ Fail(s)
    /\ Return(s)
    /\ UNCHANGED <<diskVars, transaction, handle, document, revision, generation, stale,
                   landed, viewVars>>

-----------------------------------------------------------------------------
(* File presentation *)

\* Mutant: only create() queues a presentation.
NotifyCreateOnly(s) ==
    /\ pc[s] = "notify"
    /\ IF Home[s] \in Previewing /\ kind[s] = "create"
       THEN /\ queue[Home[s]] < QueueLimit
            /\ queue' = [queue EXCEPT ![Home[s]] = @ + 1]
       ELSE UNCHANGED queue
    /\ Return(s)
    /\ UNCHANGED <<diskVars, transaction, sessionVars, landed, wpc, preview>>

(* Presentation::enqueue waits for room in the queue. *)
Notify(s) ==
    /\ pc[s] = "notify"
    /\ IF Home[s] \in Previewing
       THEN /\ queue[Home[s]] < QueueLimit
            /\ queue' = [queue EXCEPT ![Home[s]] = @ + 1]
       ELSE UNCHANGED queue
    /\ Return(s)
    /\ UNCHANGED <<diskVars, transaction, sessionVars, landed, wpc, preview>>

(* What enqueue throws reaches the handlers of the call it ends: create()    *)
(* removes its file, an edit reports a rejection.                            *)
NotifyThrows(s) ==
    /\ "notify" \in Faults /\ pc[s] = "notify"
    /\ at' = IF kind[s] = "create" THEN NoFile ELSE at
    /\ Fail(s)
    /\ Return(s)
    /\ UNCHANGED <<store, committed, transaction, handle, document, revision, generation,
                   stale, landed, viewVars>>

WorkerTakes(p) ==
    /\ wpc[p] \in {"idle", "failed"} /\ queue[p] > 0
    /\ queue' = [queue EXCEPT ![p] = @ - 1]
    /\ wpc' = [wpc EXCEPT ![p] = "waiting"]
    /\ UNCHANGED <<diskVars, lockVars, sessionVars, callVars, preview>>

WorkerLocks(p) ==
    /\ wpc[p] = "waiting" /\ at # NoFile
    /\ source[<<p, at>>] = Free
    /\ source' = [source EXCEPT ![<<p, at>>] = Worker]
    /\ wpc' = [wpc EXCEPT ![p] = "reading"]
    /\ UNCHANGED <<diskVars, transaction, sessionVars, callVars, queue, preview>>

WorkerGivesUp(p) ==
    /\ wpc[p] = "waiting" /\ at = NoFile
    /\ wpc' = [wpc EXCEPT ![p] = "failed"]
    /\ UNCHANGED <<diskVars, lockVars, sessionVars, callVars, queue, preview>>

(* A sidecar, a byte budget, the temporary copy or a busy file stops the     *)
(* read; nothing asks for it again.                                          *)
WorkerFails(p) ==
    /\ wpc[p] = "reading"
    /\ \E i \in Inode :
        /\ source[<<p, i>>] = Worker
        /\ "io" \in Faults \/ writer[i] # Free
        /\ source' = [source EXCEPT ![<<p, i>>] = Free]
    /\ wpc' = [wpc EXCEPT ![p] = "failed"]
    /\ UNCHANGED <<diskVars, transaction, sessionVars, callVars, queue, preview>>

(* loadIiscDocumentReadOnly: a backup of one committed version. *)
WorkerReads(p) ==
    /\ wpc[p] = "reading"
    /\ \E i \in Inode :
        /\ source[<<p, i>>] = Worker
        /\ source' = [source EXCEPT ![<<p, i>>] = Free]
        /\ IF store[i].phase = "canvas"
           THEN preview' = [preview EXCEPT ![p] = store[i].rev]
                /\ wpc' = [wpc EXCEPT ![p] = "idle"]
           ELSE wpc' = [wpc EXCEPT ![p] = "failed"] /\ UNCHANGED preview
    /\ UNCHANGED <<diskVars, transaction, sessionVars, callVars, queue>>

-----------------------------------------------------------------------------
(* The environment *)

(* A tool that knows SQLite but not the canvas revision rewrites artwork; it *)
(* does not learn of a file before its create() has returned.                *)
ForeignWrite ==
    /\ "foreign" \in Faults
    /\ \E i \in Inode, b \in Body :
        /\ store[i].phase = "canvas" /\ writer[i] = Free /\ b # store[i].doc.body
        /\ \A s \in Session : ~(pc[s] = "createAdopt" /\ handle[s] = i)
        /\ LET c == [store[i].doc EXCEPT !.body = b]
           IN  /\ store' = [store EXCEPT ![i].doc = c]
               /\ committed' = committed \union {[file |-> i, rev |-> store[i].rev, doc |-> c]}
        /\ stale' = [s \in Session |-> stale[s] \/ handle[s] = i]
    /\ UNCHANGED <<at, lockVars, handle, document, revision, generation, result,
                   callVars, viewVars>>

RemovePath ==
    /\ "remove" \in Faults
    /\ at # NoFile
    /\ at' = NoFile
    /\ UNCHANGED <<store, committed, lockVars, sessionVars, callVars, viewVars>>

(* A process ends without running a destructor: its memory and locks are     *)
(* gone, the next connection rolls its transaction back.                     *)
Crash(p) ==
    /\ "crash" \in Faults
    /\ LET dead == {s \in Session : Home[s] = p}
           Reset(f, v) == [s \in Session |-> IF s \in dead THEN v ELSE f[s]]
       IN  /\ handle' = Reset(handle, NoFile)
           /\ document' = Reset(document, EmptyDocument)
           /\ revision' = Reset(revision, 0)
           /\ generation' = Reset(generation, 0)
           /\ stale' = Reset(stale, FALSE)
           /\ result' = Reset(result, "ok")
           /\ pc' = Reset(pc, "idle")
           /\ kind' = Reset(kind, "edit")
           /\ draft' = Reset(draft, EmptyDocument)
           /\ landed' = Reset(landed, FALSE)
           /\ writer' = [i \in Inode |-> IF writer[i] \in dead THEN Free ELSE writer[i]]
           /\ stranded' = stranded \ dead
    /\ source' = [a \in Process \X Inode |-> IF a[1] = p THEN Free ELSE source[a]]
    /\ queue' = [queue EXCEPT ![p] = 0]
    /\ wpc' = [wpc EXCEPT ![p] = "idle"]
    /\ preview' = [preview EXCEPT ![p] = -1]
    /\ UNCHANGED diskVars

-----------------------------------------------------------------------------

Call(s) == RefuseCall(s) \/ Open(s) \/ Close(s) \/ CreateFile(s) \/ BeginEdit(s)
           \/ NestedEdit(s)

(* The steps a running call takes by itself. *)
Step(s) ==
    \/ CreateLock(s) \/ CreateWrite(s) \/ CreateAdopt(s) \/ CreateThrows(s)
    \/ RemoveCreated(s)
    \/ Callback(s) \/ CallbackRejects(s) \/ EncodeFails(s)
    \/ AcquireSource(s) \/ BeginImmediate(s) \/ BeginFails(s)
    \/ CheckOwnership(s) \/ Conflict(s)
    \/ WriteNothing(s) \/ WriteRecords(s) \/ RevisionExhausted(s)
    \/ WriteFails(s) \/ AllocationFails(s)
    \/ Commit(s) \/ CommitFails(s) \/ AdoptCommit(s)
    \/ Detach(s) \/ StayAttached(s)
    \/ Notify(s) \/ NotifyThrows(s)

WorkerStep(p) ==
    \/ WorkerTakes(p) \/ WorkerLocks(p) \/ WorkerGivesUp(p)
    \/ WorkerFails(p) \/ WorkerReads(p)

Next ==
    \/ \E s \in Session : Call(s) \/ Step(s)
    \/ \E p \in Process : WorkerStep(p) \/ Crash(p)
    \/ ForeignWrite \/ RemovePath

Spec == Init /\ [][Next]_vars

(* Threads keep running, callbacks return, and a contended source lock is    *)
(* handed to each waiter in the end.                                         *)
Fairness ==
    /\ \A s \in Session : WF_vars(Step(s)) /\ SF_vars(CreateLock(s) \/ AcquireSource(s))
    /\ \A p \in Process : WF_vars(WorkerStep(p)) /\ SF_vars(WorkerLocks(p))

FairSpec == Spec /\ Fairness

-----------------------------------------------------------------------------
(* Properties *)

(* Every variable ranges over the values the code can store in it. *)
TypeOK ==
    /\ store \in [Inode -> Stored]
    /\ at \in Inode \union {NoFile}
    /\ committed \subseteq [file : Inode, rev : Nat, doc : Content]
    /\ writer \in [Inode -> Session \union {Free}]
    /\ stranded \subseteq Session
    /\ source \in [Process \X Inode -> Session \union {Free, Worker}]
    /\ handle \in [Session -> Inode \union {NoFile}]
    /\ document \in [Session -> Document]
    /\ revision \in [Session -> Nat]
    /\ generation \in [Session -> Nat]
    /\ stale \in [Session -> BOOLEAN]
    /\ result \in [Session -> {"ok", "changed", "fail"}]
    /\ pc \in [Session -> {"idle", "notify"} \union CreateSteps \union EditSteps]
    /\ kind \in [Session -> {"create", "edit", "upgrade"}]
    /\ draft \in [Session -> Document]
    /\ landed \in [Session -> BOOLEAN]
    /\ queue \in [Process -> Nat]
    /\ wpc \in [Process -> {"idle", "waiting", "reading", "failed"}]
    /\ preview \in [Process -> Int]

(* An open session never shows a document that was not, at its revision, a   *)
(* committed state of its file: failed commits and lost outcomes included    *)
(* (DocumentFile::document, and the outcome verification of editImpl).       *)
MemoryIsCommitted ==
    \A s \in Session : IsOpen(s) =>
        [file |-> handle[s], rev |-> revision[s], doc |-> Persisted(document[s])]
            \in committed

(* A session that has no sign of being out of date (data_version unmoved and *)
(* its revision still the stored one) holds what the disk holds, so the      *)
(* conflict check of editImpl is enough to make an overwrite safe.           *)
FreshSessionSeesTheDisk ==
    \A s \in Session :
        (IsOpen(s) /\ ~stale[s] /\ Disk(s).rev = revision[s])
            => Disk(s).doc = Persisted(document[s])

(* No session ever replaces a version it has not seen: whatever an edit      *)
(* makes durable was drafted from the very document it replaces.             *)
NoLostUpdate ==
    [][\A s \in Session :
            (pc[s] = "commit" /\ landed'[s])
                => Disk(s).doc = Persisted(document[s])]_vars

(* Every changing edit is entered in the authorship ledger exactly once, an  *)
(* upgrade never: the stored revision outruns the ledger by one at most, for *)
(* the single upgrade of a file created in an old format.                    *)
LedgerMatchesRevision ==
    \A i \in Inode : store[i].phase = "canvas" =>
        LET d == store[i].doc
        IN  /\ d.ledger \in {store[i].rev, store[i].rev - 1}
            /\ d.format = "old" => store[i].rev = 0

(* A call that reports failure and leaves the session open has put nothing   *)
(* on the disk (the result of DocumentFile::edit and create).                *)
FailedCallLeavesNoTrace ==
    \A s \in Session :
        (pc[s] = "idle" /\ IsOpen(s) /\ result[s] = "fail") => ~landed[s]

(* What a session has acknowledged stays under the path it was written to:   *)
(* no other session's failure takes the file away (a second process can open *)
(* the file and see the edits, docs/PERSISTENCE.md).                         *)
AcknowledgedStaysOnPath ==
    \A s \in Session : (IsOpen(s) /\ result[s] = "changed") => at = handle[s]

(* Between calls a session owns neither the source lock nor a transaction,   *)
(* whichever way the last call ended (the scopes of editImpl and create):    *)
(* only a failed rollback that a handler of editImpl does not verify leaves  *)
(* one behind, and no edit begins in it.                                     *)
IdleHoldsNothing ==
    \A s \in Session :
        /\ pc[s] \in {"idle", "notify"} =>
               /\ s \notin stranded => \A i \in Inode : writer[i] # s
               /\ \A a \in Process \X Inode : source[a] # s
        /\ s \in stranded =>
               pc[s] \in {"idle", "draft", "lock", "begin", "verify"}

(* A call that has started comes back, even with the presentation queue full *)
(* and the worker waiting for the very file being written.                   *)
CallReturns ==
    \A s \in Session : pc[s] # "idle" ~> pc[s] = "idle"

(* The last presentation queued has been read without success.               *)
LastReadFailed(p) ==
    /\ wpc[p] = "failed" /\ queue[p] = 0
    /\ \A s \in Session : Home[s] = p => pc[s] # "notify"

(* A change that was acknowledged is presented: the worker goes on to read   *)
(* that revision or a newer one, unless the path loses its file or every     *)
(* read from then to the last one queued fails.                              *)
ChangeIsPresented ==
    \A p \in Previewing, r \in 0 .. MaxRevision :
        (\E s \in Session : Home[s] = p /\ pc[s] = "notify" /\ revision[s] = r)
            ~> (preview[p] >= r \/ at = NoFile \/ LastReadFailed(p))

(* The version a file holds, and the one a session works on: that of a       *)
(* transaction that landed, even before the session has adopted it.          *)
Held(i) ==
    IF store[i].phase = "canvas" THEN [rev |-> store[i].rev, doc |-> store[i].doc]
                                 ELSE NoFile

WorkedOn(s) ==
    IF pc[s] = "createAdopt"
    THEN [file |-> handle[s], rev |-> 0, doc |-> Persisted(draft[s])]
    ELSE IF pc[s] = "adopt"
    THEN [file |-> handle[s], rev |-> revision[s] + 1, doc |-> Persisted(draft[s])]
    ELSE IF IsOpen(s)
    THEN [file |-> handle[s], rev |-> revision[s], doc |-> Persisted(document[s])]
    ELSE NoFile

ASSUME NoVersionAssumption ==
    /\ NoFile \notin [rev : Nat, doc : Content]
    /\ NoFile \notin [file : Inode, rev : Nat, doc : Content]

(* Sessions, locks and failures implement a versioned document register.     *)
Register == INSTANCE DocumentRegister WITH
    Nothing <- NoFile,
    Content <- [format : Format, body : Body, ledger : 0 .. MaxRevision],
    durable <- [i \in Inode |-> Held(i)],
    view <- [s \in Session |-> WorkedOn(s)]

ImplementsRegister == Register!Spec
===============================================================================
