-------------------------- MODULE WorkingFileProofs --------------------------
(***************************************************************************)
(* What holds of WorkingFile for any sessions, processes, file identities,  *)
(* authors, bounds and faults.  Inductive invariants: TypeInv; on top of it *)
(* SafetyInv (for memory, freshness and lost updates) and LockInv (for what *)
(* a session holds between calls); on top of SafetyInv the ledger, calls    *)
(* that fail, and the register of DocumentRegister that WorkingFile         *)
(* implements.                                                              *)
(***************************************************************************)
EXTENDS WorkingFile, TLAPS

(* The document a session starts from (Document{}). *)
LEMMA EmptyDocumentType == EmptyDocument \in Document
  BY ConstantsAssumption DEF EmptyDocument, Document, Format

(* What encodeDocumentRecords keeps of a document. *)
LEMMA PersistedType == ASSUME NEW d \in Document PROVE Persisted(d) \in Content
  BY DEF Persisted, Document, Content

(* What decodeDocumentRecords makes of a file. *)
LEMMA DecodedType == ASSUME NEW c \in Content PROVE Decoded(c) \in Document
  BY ConstantsAssumption DEF Decoded, Document, Content

(* recordDocumentChange gives a document again. *)
LEMMA StampedType == ASSUME NEW d \in Document PROVE Stamped(d) \in Document
  BY DEF Stamped, Document, Format

(* What an edit callback may make of its draft is a document. *)
LEMMA DraftType ==
    ASSUME NEW d \in Document
    PROVE  /\ \A a \in Author : [d EXCEPT !.author = a] \in Document
           /\ \A b \in Body : [d EXCEPT !.body = b] \in Document
           /\ \A f \in Format : [d EXCEPT !.format = f] \in Document
           /\ \A e \in Document : [d EXCEPT !.author = e.author] \in Document
           /\ \A e \in NewDocument :
                  [d EXCEPT !.format = e.format, !.body = e.body] \in Document
  BY ConstantsAssumption DEF Document

(* So are the drafts editImpl may go on with, stamped or not. *)
LEMMA DraftsType == ASSUME NEW d \in Document PROVE Drafts(d) \subseteq Document
  <1>1. {[d EXCEPT !.author = a] : a \in Author} \subseteq Document
    BY DraftType
  <1>2. {[d EXCEPT !.body = b] : b \in Body} \subseteq Document
    BY DraftType
  <1>3. {Stamped([d EXCEPT !.body = b]) : b \in Body \ {d.body}} \subseteq Document
    BY DraftType, StampedType
  <1> QED
    BY <1>1, <1>2, <1>3 DEF Drafts

(* What a file holds may take any body and format. *)
LEMMA ContentType ==
    ASSUME NEW c \in Content, NEW b \in Body
    PROVE  [c EXCEPT !.body = b] \in Content
  BY DEF Content

(* A session that is running a call holds a connection. *)
RunningCallHasFile == \A s \in Session : pc[s] # "idle" => handle[s] \in Inode

TypeInv == TypeOK /\ RunningCallHasFile

(* The state before any call has its type. *)
LEMMA TypeInit == Init => TypeInv
  BY ConstantsAssumption, EmptyDocumentType, PersistedType
     DEF Init, TypeInv, TypeOK, RunningCallHasFile, Unused, Stored

(* Every step of every session, worker and failure keeps it. *)
LEMMA TypeStep == TypeInv /\ [Next]_vars => TypeInv'
  <1> SUFFICES ASSUME TypeInv, [Next]_vars PROVE TypeInv'
    OBVIOUS
  <1> USE ConstantsAssumption, EmptyDocumentType, PersistedType
      DEF TypeInv, TypeOK, RunningCallHasFile,
          vars, diskVars, lockVars, transaction, sessionVars, callVars, viewVars,
          Goto, Fail, Return, ReleaseSource, EndTransaction, MakeDurable,
          Stored, CreateSteps, EditSteps, Disk, Access
  <1>1. ASSUME NEW s \in Session, RefuseCall(s) PROVE TypeInv'
    BY <1>1 DEF RefuseCall
  <1>2. ASSUME NEW s \in Session, Open(s) PROVE TypeInv'
    BY <1>2, DecodedType DEF Open
  <1>3. ASSUME NEW s \in Session, Close(s) PROVE TypeInv'
    BY <1>3 DEF Close
  <1>4. ASSUME NEW s \in Session, CreateFile(s) PROVE TypeInv'
    <2>1. PICK i \in Inode, d \in NewDocument :
             /\ store' = [store EXCEPT ![i].phase = "blank"]
             /\ at' = i
             /\ handle' = [handle EXCEPT ![s] = i]
             /\ draft' = [draft EXCEPT ![s] =
                     [EmptyDocument EXCEPT !.format = d.format, !.body = d.body]]
      BY <1>4 DEF CreateFile
    <2>2. draft' \in [Session -> Document]
      BY <2>1, DraftType
    <2>3. store' \in [Inode -> Stored]
      BY <2>1, SMTT(30)
    <2> QED
      BY <1>4, <2>1, <2>2, <2>3 DEF CreateFile
  <1>5. ASSUME NEW s \in Session, BeginEdit(s) PROVE TypeInv'
    BY <1>5 DEF BeginEdit
  <1>6. ASSUME NEW s \in Session, NestedEdit(s) PROVE TypeInv'
    BY <1>6 DEF NestedEdit
  <1>7. ASSUME NEW s \in Session, CreateLock(s) PROVE TypeInv'
    BY <1>7 DEF CreateLock
  <1>8. ASSUME NEW s \in Session, CreateWrite(s) PROVE TypeInv'
    BY <1>8 DEF CreateWrite
  <1>9. ASSUME NEW s \in Session, CreateAdopt(s) PROVE TypeInv'
    BY <1>9 DEF CreateAdopt
  <1>10. ASSUME NEW s \in Session, CreateThrows(s) PROVE TypeInv'
    <2>1. CASE pc[s] = "createWrite" /\ MakeDurable(s, handle[s], 0, Persisted(draft[s]))
      BY <1>10, <2>1 DEF CreateThrows
    <2>2. CASE UNCHANGED <<diskVars, stale>>
      BY <1>10, <2>2 DEF CreateThrows
    <2> QED
      BY <1>10, <2>1, <2>2 DEF CreateThrows
  <1>11. ASSUME NEW s \in Session, RemoveCreated(s) PROVE TypeInv'
    BY <1>11 DEF RemoveCreated
  <1>12. ASSUME NEW s \in Session, Callback(s) PROVE TypeInv'
    <2>1. draft[s] \in Document
      OBVIOUS
    <2>2. [draft[s] EXCEPT !.format = "current"] \in Document
      BY <2>1, DraftType DEF Format
    <2>3. \A d \in Drafts(draft[s]) : d \in Document
      BY <2>1, DraftsType
    <2>4. PICK d \in Document : draft' = [draft EXCEPT ![s] = d]
      <3>1. CASE kind[s] = "upgrade"
        BY <1>12, <2>2, <3>1 DEF Callback
      <3>2. CASE kind[s] # "upgrade"
        BY <1>12, <2>3, <3>2 DEF Callback
      <3> QED
        BY <3>1, <3>2
    <2>5. draft' \in [Session -> Document]
      BY <2>4
    <2> QED
      BY <1>12, <2>5 DEF Callback
  <1>13. ASSUME NEW s \in Session, CallbackRejects(s) PROVE TypeInv'
    BY <1>13 DEF CallbackRejects
  <1>14. ASSUME NEW s \in Session, EncodeFails(s) PROVE TypeInv'
    BY <1>14 DEF EncodeFails
  <1>15. ASSUME NEW s \in Session, AcquireSource(s) PROVE TypeInv'
    BY <1>15 DEF AcquireSource
  <1>16. ASSUME NEW s \in Session, BeginImmediate(s) PROVE TypeInv'
    BY <1>16 DEF BeginImmediate
  <1>17. ASSUME NEW s \in Session, BeginFails(s) PROVE TypeInv'
    BY <1>17 DEF BeginFails
  <1>18. ASSUME NEW s \in Session, CheckOwnership(s) PROVE TypeInv'
    BY <1>18 DEF CheckOwnership
  <1>19. ASSUME NEW s \in Session, Conflict(s) PROVE TypeInv'
    BY <1>19 DEF Conflict
  <1>20. ASSUME NEW s \in Session, WriteNothing(s) PROVE TypeInv'
    <2>1. [document[s] EXCEPT !.author = draft[s].author] \in Document
      BY DraftType
    <2>2. document' \in [Session -> Document]
      BY <1>20, <2>1 DEF WriteNothing
    <2> QED
      BY <1>20, <2>2 DEF WriteNothing
  <1>21. ASSUME NEW s \in Session, WriteRecords(s) PROVE TypeInv'
    BY <1>21, StampedType DEF WriteRecords
  <1>22. ASSUME NEW s \in Session, RevisionExhausted(s) PROVE TypeInv'
    BY <1>22 DEF RevisionExhausted
  <1>23. ASSUME NEW s \in Session, WriteFails(s) PROVE TypeInv'
    BY <1>23 DEF WriteFails
  <1>24. ASSUME NEW s \in Session, AllocationFails(s) PROVE TypeInv'
    BY <1>24 DEF AllocationFails
  <1>25. ASSUME NEW s \in Session, Commit(s) PROVE TypeInv'
    BY <1>25 DEF Commit
  <1>26. ASSUME NEW s \in Session, CommitFails(s) PROVE TypeInv'
    <2> DEFINE Landed == MakeDurable(s, handle[s], Disk(s).rev + 1, Persisted(draft[s]))
    <2>1. CASE UNCHANGED <<diskVars, stale, landed>>
      BY <1>26, <2>1 DEF CommitFails
    <2>2. CASE Landed /\ landed' = [landed EXCEPT ![s] = TRUE] /\ EndTransaction(s)
      BY <1>26, <2>2 DEF CommitFails
    <2> QED
      BY <1>26, <2>1, <2>2 DEF CommitFails
  <1>27. ASSUME NEW s \in Session, AdoptCommit(s) PROVE TypeInv'
    BY <1>27 DEF AdoptCommit
  <1>28. ASSUME NEW s \in Session, Detach(s) PROVE TypeInv'
    BY <1>28 DEF Detach
  <1>29. ASSUME NEW s \in Session, StayAttached(s) PROVE TypeInv'
    BY <1>29 DEF StayAttached
  <1>30. ASSUME NEW s \in Session, Notify(s) PROVE TypeInv'
    <2>1. queue' \in [Process -> Nat]
      <3>1. Home[s] \in Process
        OBVIOUS
      <3>2. CASE Home[s] \in Previewing
        BY <1>30, <3>1, <3>2 DEF Notify
      <3>3. CASE Home[s] \notin Previewing
        BY <1>30, <3>3 DEF Notify
      <3> QED
        BY <3>2, <3>3
    <2> QED
      BY <1>30, <2>1 DEF Notify
  <1>31. ASSUME NEW s \in Session, NotifyThrows(s) PROVE TypeInv'
    BY <1>31 DEF NotifyThrows
  <1>32. ASSUME NEW p \in Process, WorkerTakes(p) PROVE TypeInv'
    BY <1>32 DEF WorkerTakes
  <1>33. ASSUME NEW p \in Process, WorkerLocks(p) PROVE TypeInv'
    BY <1>33 DEF WorkerLocks
  <1>34. ASSUME NEW p \in Process, WorkerGivesUp(p) PROVE TypeInv'
    BY <1>34 DEF WorkerGivesUp
  <1>35. ASSUME NEW p \in Process, WorkerReads(p) PROVE TypeInv'
    <2>1. PICK i \in Inode :
             /\ source' = [source EXCEPT ![<<p, i>>] = Free]
             /\ IF store[i].phase = "canvas"
                THEN preview' = [preview EXCEPT ![p] = store[i].rev]
                     /\ wpc' = [wpc EXCEPT ![p] = "idle"]
                ELSE wpc' = [wpc EXCEPT ![p] = "failed"] /\ UNCHANGED preview
      BY <1>35 DEF WorkerReads
    <2>2. store[i].rev \in Int
      OBVIOUS
    <2>3. /\ preview' \in [Process -> Int]
          /\ wpc' \in [Process -> {"idle", "waiting", "reading", "failed"}]
      BY <2>1, <2>2
    <2> QED
      BY <1>35, <2>1, <2>3 DEF WorkerReads
  <1>40. ASSUME NEW p \in Process, WorkerFails(p) PROVE TypeInv'
    BY <1>40 DEF WorkerFails
  <1>36. ASSUME NEW p \in Process, Crash(p) PROVE TypeInv'
    <2>1. /\ handle' \in [Session -> Inode \union {NoFile}]
          /\ revision' \in [Session -> Nat]
          /\ generation' \in [Session -> Nat]
          /\ stale' \in [Session -> BOOLEAN]
      BY <1>36 DEF Crash
    <2>2. document' \in [Session -> Document] /\ draft' \in [Session -> Document]
      BY <1>36 DEF Crash
    <2>3. /\ result' \in [Session -> {"ok", "changed", "fail"}]
          /\ pc' \in [Session -> {"idle", "notify"} \union CreateSteps \union EditSteps]
          /\ kind' \in [Session -> {"create", "edit", "upgrade"}]
          /\ landed' \in [Session -> BOOLEAN]
      BY <1>36 DEF Crash
    <2>4. writer' \in [Inode -> Session \union {Free}]
      BY <1>36 DEF Crash
    <2>8. stranded' \subseteq Session
      BY <1>36 DEF Crash
    <2>5. source' \in [Process \X Inode -> Session \union {Free, Worker}]
      BY <1>36 DEF Crash
    <2>6. queue' \in [Process -> Nat] /\ preview' \in [Process -> Int]
          /\ wpc' \in [Process -> {"idle", "waiting", "reading", "failed"}]
      BY <1>36 DEF Crash
    <2>7. RunningCallHasFile'
      BY <1>36 DEF Crash
    <2> QED
      BY <1>36, <2>1, <2>2, <2>3, <2>4, <2>5, <2>6, <2>7, <2>8 DEF Crash
  <1>37. CASE ForeignWrite
    BY <1>37, ContentType DEF ForeignWrite
  <1>38. CASE RemovePath
    BY <1>38 DEF RemovePath
  <1>39. CASE UNCHANGED vars
    BY <1>39
  <1> QED
    BY <1>1, <1>2, <1>3, <1>4, <1>5, <1>6, <1>7, <1>8, <1>9, <1>10, <1>11, <1>12, <1>13, <1>14, <1>15, <1>16, <1>17, <1>18, <1>19, <1>20, <1>21, <1>22, <1>23, <1>24, <1>25, <1>26, <1>27, <1>28, <1>29, <1>30, <1>31, <1>32, <1>33, <1>34, <1>35, <1>36, <1>37, <1>38, <1>39, <1>40 DEF Next, Call, Step, WorkerStep

(* Every variable stays in its type: in every run of the file, whatever the  *)
(* sessions, processes, artwork and failures.                                *)
THEOREM TypeCorrect == Spec => []TypeOK
  <1>1. Init => TypeInv
    BY TypeInit
  <1>2. TypeInv /\ [Next]_vars => TypeInv'
    BY TypeStep
  <1>3. TypeInv => TypeOK
    BY DEF TypeInv
  <1> QED
    BY <1>1, <1>2, <1>3, PTL DEF Spec

-----------------------------------------------------------------------------
(* The inductive invariant behind the safety theorems, in named parts.       *)

(* Past BEGIN IMMEDIATE and before the end of its transaction a call owns    *)
(* the write lock of its file.                                               *)
WriterHoldsLock ==
    \A s \in Session : pc[s] \in {"check", "write", "commit"} => writer[handle[s]] = s

(* Only a create() in progress works on a file with no canvas in it.         *)
BlankUntilCreated ==
    \A s \in Session :
        /\ (handle[s] # NoFile /\ pc[s] \notin {"createLock", "createWrite", "createUndo"})
               => Disk(s).phase = "canvas"
        /\ pc[s] \in {"createLock", "createWrite"} => Disk(s).phase = "blank"

(* No two calls create the same file.                                        *)
OneCreator ==
    \A s, t \in Session :
        (s # t /\ pc[s] \in {"createLock", "createWrite"}
               /\ pc[t] \in {"createLock", "createWrite"}) => handle[s] # handle[t]

(* What a file holds is among the versions that were ever durable.           *)
DiskIsCommitted ==
    \A i \in Inode : store[i].phase = "canvas" =>
        [file |-> i, rev |-> store[i].rev, doc |-> store[i].doc] \in committed

(* A transaction that landed and is not yet adopted made the draft durable.  *)
LandedIsCommitted ==
    \A s \in Session :
        /\ pc[s] = "adopt" =>
               [file |-> handle[s], rev |-> revision[s] + 1, doc |-> Persisted(draft[s])]
                   \in committed
        /\ pc[s] = "createAdopt" =>
               [file |-> handle[s], rev |-> 0, doc |-> Persisted(draft[s])] \in committed

(* The disk is never behind a session's memory.                              *)
NeverAhead ==
    \A s \in Session :
        /\ IsOpen(s) => revision[s] <= Disk(s).rev
        /\ pc[s] = "adopt" => revision[s] + 1 <= Disk(s).rev

(* FreshSessionSeesTheDisk, for the version a call is about to adopt.        *)
FreshDraftIsOnDisk ==
    \A s \in Session :
        /\ (pc[s] = "adopt" /\ ~stale[s] /\ Disk(s).rev = revision[s] + 1)
               => Disk(s).doc = Persisted(draft[s])
        /\ (pc[s] = "createAdopt" /\ Disk(s).rev = 0) => Disk(s).doc = Persisted(draft[s])

(* What CheckOwnership found holds until the transaction ends.               *)
CheckedStaysChecked ==
    \A s \in Session :
        pc[s] \in {"write", "commit"} => ~stale[s] /\ Disk(s).rev = revision[s]

SafetyInv ==
    /\ TypeInv
    /\ WriterHoldsLock
    /\ BlankUntilCreated
    /\ OneCreator
    /\ DiskIsCommitted
    /\ LandedIsCommitted
    /\ MemoryIsCommitted
    /\ NeverAhead
    /\ FreshDraftIsOnDisk
    /\ CheckedStaysChecked
    /\ FreshSessionSeesTheDisk

(* A lock is owned by a call that still has its scope open, or a transaction *)
(* by a session stranded in it.                                              *)
OwnersAreRunning ==
    \A s \in Session :
        /\ \A i \in Inode : writer[i] = s =>
               /\ pc[s] \in {"check", "write", "commit", "verify"} \/ s \in stranded
               /\ handle[s] = i
        /\ \A a \in Process \X Inode : source[a] = s => pc[s] \notin {"idle", "notify"}

(* A stranded session keeps its transaction, so it cannot begin another.     *)
StrandedStays ==
    \A s \in stranded :
        /\ handle[s] \in Inode /\ writer[handle[s]] = s
        /\ pc[s] \in {"idle", "draft", "lock", "begin", "verify"}

(* A call locks its file in its own process.                                 *)
SourceIsLocal ==
    \A s \in Session, a \in Process \X Inode : source[a] = s => a[1] = Home[s]

LockInv ==
    TypeInv /\ WriterHoldsLock /\ OwnersAreRunning /\ StrandedStays /\ SourceIsLocal
-----------------------------------------------------------------------------

(* No session is open and no version durable before the first call. *)
LEMMA SafetyInit == Init => SafetyInv
  BY TypeInit, ConstantsAssumption
     DEF Init, SafetyInv, WriterHoldsLock, BlankUntilCreated, OneCreator, DiskIsCommitted,
         LandedIsCommitted, MemoryIsCommitted, NeverAhead, FreshDraftIsOnDisk,
         CheckedStaysChecked, FreshSessionSeesTheDisk, IsOpen, Unused

(* Whichever step makes a draft durable, and whatever it then reports, the   *)
(* invariant holds after it: the other sessions of the file are now stale.   *)
LEMMA DurableStep ==
    ASSUME SafetyInv, TypeInv', NEW s \in Session, NEW r \in Nat,
           MakeDurable(s, handle[s], r, Persisted(draft[s])),
           UNCHANGED <<handle, document, revision, draft>>,
           \A t \in Session \ {s} : pc'[t] = pc[t],
           \A i \in Inode : writer[i] # s => writer'[i] = writer[i],
           \/ pc[s] = "createWrite" /\ r = 0 /\ pc'[s] \in {"createAdopt", "createUndo"}
           \/ pc[s] = "commit" /\ r = Disk(s).rev + 1 /\ pc'[s] \in {"adopt", "verify"}
    PROVE  SafetyInv'
  <1> DEFINE new == [phase |-> "canvas", rev |-> r, doc |-> Persisted(draft[s])]
             entry(i) == [file |-> i, rev |-> store[i].rev, doc |-> store[i].doc]
  <1> USE DEF SafetyInv, TypeInv, TypeOK, RunningCallHasFile, CreateSteps, EditSteps
  <1>a. handle[s] \in Inode
    OBVIOUS
  <1>1. /\ store'[handle[s]] = new
        /\ \A j \in Inode \ {handle[s]} : store'[j] = store[j]
    BY <1>a DEF MakeDurable
  <1>2. /\ stale'[s] = stale[s]
        /\ \A t \in Session \ {s} :
               /\ handle[t] = handle[s] => stale'[t]
               /\ handle[t] # handle[s] => stale'[t] = stale[t]
    <2>1. \A t \in Session :
              stale'[t] = (stale[t] \/ (t # s /\ handle[t] = handle[s]))
      BY ZenonT(30) DEF MakeDurable
    <2>2. \A t \in Session : stale[t] \in BOOLEAN
      OBVIOUS
    <2> QED
      BY ONLY <2>1, <2>2, s \in Session, ZenonT(30)
  <1>3. /\ committed \subseteq committed'
        /\ [file |-> handle[s], rev |-> r, doc |-> Persisted(draft[s])] \in committed'
    BY DEF MakeDurable
  <1>4. \A t \in Session \ {s} : handle[t] = handle[s] =>
            pc[t] \notin {"createLock", "createWrite", "check", "write", "commit"}
    <2> SUFFICES ASSUME NEW t \in Session \ {s}, handle[t] = handle[s]
                 PROVE  pc[t] \notin {"createLock", "createWrite", "check", "write", "commit"}
      OBVIOUS
    <2>1. CASE pc[s] = "createWrite"
      <3>1. store[handle[s]].phase = "blank"
        BY <2>1 DEF BlankUntilCreated, Disk
      <3>2. pc[t] \notin {"createLock", "createWrite"}
        BY <2>1 DEF OneCreator
      <3>3. pc[t] \notin {"check", "write", "commit"}
        <4>1. handle[t] # NoFile
          BY <1>a, ConstantsAssumption
        <4>2. pc[t] \in {"check", "write", "commit"} => Disk(t).phase = "canvas"
          BY <4>1 DEF BlankUntilCreated
        <4> QED
          BY <3>1, <4>2 DEF Disk
      <3> QED
        BY <3>2, <3>3
    <2>2. CASE pc[s] = "commit"
      <3>1. handle[s] # NoFile
        BY <1>a, ConstantsAssumption
      <3>2. writer[handle[s]] = s /\ store[handle[s]].phase = "canvas"
        BY <2>2, <3>1 DEF WriterHoldsLock, BlankUntilCreated, Disk
      <3>3. pc[t] \notin {"createLock", "createWrite"}
        BY <3>2 DEF BlankUntilCreated, Disk
      <3>4. pc[t] \notin {"check", "write", "commit"}
        BY <3>2 DEF WriterHoldsLock
      <3> QED
        BY <3>3, <3>4
    <2> QED
      BY <2>1, <2>2
  <1>5. pc[s] = "commit" => /\ Disk(s).phase = "canvas"
                            /\ Disk(s).rev = revision[s] /\ Disk(s).rev \in Nat
    <2>1. Disk(s) \in Stored
      BY <1>a DEF Disk
    <2>2. handle[s] # NoFile
      BY <1>a, ConstantsAssumption
    <2> QED
      BY <2>1, <2>2 DEF BlankUntilCreated, CheckedStaysChecked, Stored
  <1>6. \A t \in Session \ {s} :
            (handle[t] = handle[s] /\ (IsOpen(t) \/ pc[t] = "createAdopt"))
                => pc[s] = "commit"
    BY <1>a, ConstantsAssumption DEF BlankUntilCreated, Disk, IsOpen
  <1>7. \A t \in Session : handle[t] # NoFile /\ handle[t] # handle[s] => Disk(t)' = Disk(t)
    BY <1>1 DEF Disk
  <1>8. Disk(s)' = new
    BY <1>1 DEF Disk
  <1>9. \A t \in Session : handle[t] = handle[s] => Disk(t)' = new
    BY <1>1 DEF Disk
  <1>10. \A t \in Session \ {s} : IsOpen(t)' = IsOpen(t)
    BY DEF IsOpen
  <1>11. TypeInv'
    OBVIOUS
  <1>12. WriterHoldsLock'
    BY <1>4 DEF WriterHoldsLock
  <1>13. BlankUntilCreated'
    <2> SUFFICES ASSUME NEW t \in Session
                 PROVE  /\ (handle[t] # NoFile
                               /\ pc'[t] \notin {"createLock", "createWrite", "createUndo"})
                              => Disk(t)'.phase = "canvas"
                        /\ pc'[t] \in {"createLock", "createWrite"} => Disk(t)'.phase = "blank"
      BY DEF BlankUntilCreated
    <2>1. CASE handle[t] = handle[s]
      BY <2>1, <1>4, <1>9
    <2>2. CASE handle[t] # handle[s]
      BY <2>2, <1>7, ConstantsAssumption DEF BlankUntilCreated
    <2> QED
      BY <2>1, <2>2
  <1>14. OneCreator'
    BY DEF OneCreator
  <1>15. DiskIsCommitted'
    BY <1>1, <1>3 DEF DiskIsCommitted
  <1>16. LandedIsCommitted'
    <2> SUFFICES ASSUME NEW t \in Session
                 PROVE  /\ pc'[t] = "adopt" =>
                              [file |-> handle[t], rev |-> revision[t] + 1,
                               doc |-> Persisted(draft[t])] \in committed'
                        /\ pc'[t] = "createAdopt" =>
                              [file |-> handle[t], rev |-> 0, doc |-> Persisted(draft[t])]
                                  \in committed'
      BY DEF LandedIsCommitted, Persisted
    <2>1. CASE t = s
      BY <2>1, <1>3, <1>5 DEF Persisted
    <2>2. CASE t # s
      BY <2>2, <1>3 DEF LandedIsCommitted
    <2> QED
      BY <2>1, <2>2
  <1>17. MemoryIsCommitted'
    BY <1>3, <1>10 DEF MemoryIsCommitted, IsOpen, Persisted
  <1>18. NeverAhead'
    <2> SUFFICES ASSUME NEW t \in Session
                 PROVE  /\ IsOpen(t)' => revision[t] <= Disk(t)'.rev
                        /\ pc'[t] = "adopt" => revision[t] + 1 <= Disk(t)'.rev
      BY DEF NeverAhead
    <2>1. CASE t = s
      BY <2>1, <1>5, <1>8 DEF IsOpen
    <2>2. CASE t # s /\ handle[t] = handle[s]
      <3>1. pc[t] = "adopt" => IsOpen(t)
        BY ConstantsAssumption DEF IsOpen
      <3>2. IsOpen(t) => Disk(t)'.rev = Disk(t).rev + 1 /\ Disk(t).rev \in Nat
        BY <2>2, <1>5, <1>6, <1>9 DEF Disk
      <3> QED
        BY <2>2, <3>1, <3>2, <1>10 DEF NeverAhead
    <2>3. CASE t # s /\ handle[t] # handle[s]
      BY <2>3, <1>7, <1>10, ConstantsAssumption DEF NeverAhead, IsOpen
    <2> QED
      BY <2>1, <2>2, <2>3
  <1>19. FreshDraftIsOnDisk'
    <2> SUFFICES ASSUME NEW t \in Session
                 PROVE  /\ (pc'[t] = "adopt" /\ ~stale'[t] /\ Disk(t)'.rev = revision[t] + 1)
                               => Disk(t)'.doc = Persisted(draft[t])
                        /\ (pc'[t] = "createAdopt" /\ Disk(t)'.rev = 0)
                               => Disk(t)'.doc = Persisted(draft[t])
      BY DEF FreshDraftIsOnDisk, Persisted
    <2>1. CASE t = s
      BY <2>1, <1>8
    <2>2. CASE t # s /\ handle[t] = handle[s]
      <3>1. pc[t] = "createAdopt" => Disk(t)'.rev > 0
        BY <2>2, <1>5, <1>6, <1>9 DEF Disk
      <3> QED
        BY <2>2, <3>1, <1>2
    <2>3. CASE t # s /\ handle[t] # handle[s]
      BY <2>3, <1>2, <1>7, ConstantsAssumption DEF FreshDraftIsOnDisk
    <2> QED
      BY <2>1, <2>2, <2>3
  <1>20. CheckedStaysChecked'
    <2> SUFFICES ASSUME NEW t \in Session, pc'[t] \in {"write", "commit"}
                 PROVE  ~stale'[t] /\ Disk(t)'.rev = revision[t]
      BY DEF CheckedStaysChecked
    <2>1. t # s /\ handle[t] # handle[s]
      BY <1>4
    <2> QED
      BY <2>1, <1>2, <1>7, ConstantsAssumption DEF CheckedStaysChecked
  <1>21. FreshSessionSeesTheDisk'
    <2> SUFFICES ASSUME NEW t \in Session, IsOpen(t)', ~stale'[t], Disk(t)'.rev = revision[t]
                 PROVE  Disk(t)'.doc = Persisted(document[t])
      BY DEF FreshSessionSeesTheDisk, Persisted
    <2>1. t # s
      BY <1>5, <1>8 DEF IsOpen
    <2>2. handle[t] # handle[s]
      BY <2>1, <1>2
    <2> QED
      BY <2>1, <2>2, <1>2, <1>7, <1>10 DEF FreshSessionSeesTheDisk, IsOpen
  <1> QED
    BY <1>11, <1>12, <1>13, <1>14, <1>15, <1>16, <1>17, <1>18, <1>19, <1>20, <1>21

(* Every step keeps what open sessions show durable, and fresh if it seems so. *)
LEMMA SafetyStep == SafetyInv /\ [Next]_vars => SafetyInv'
  <1> SUFFICES ASSUME SafetyInv, [Next]_vars PROVE SafetyInv'
    OBVIOUS
  <1>0. TypeInv'
    BY TypeStep DEF SafetyInv
  <1> USE ConstantsAssumption
      DEF SafetyInv, TypeInv, TypeOK, RunningCallHasFile, WriterHoldsLock,
          BlankUntilCreated, OneCreator, DiskIsCommitted, LandedIsCommitted,
          MemoryIsCommitted, NeverAhead, FreshDraftIsOnDisk, CheckedStaysChecked,
          FreshSessionSeesTheDisk, IsOpen, Disk, CreateSteps, EditSteps, InTransaction,
          vars, diskVars, lockVars, transaction, sessionVars, callVars, viewVars,
          Goto, Fail, Return, ReleaseSource, EndTransaction
  <1>1. ASSUME NEW s \in Session, RefuseCall(s) PROVE SafetyInv'
    BY <1>0, <1>1 DEF RefuseCall
  <1>2. ASSUME NEW s \in Session, Open(s) PROVE SafetyInv'
    <2>1. WriterHoldsLock' /\ BlankUntilCreated' /\ OneCreator'
      BY <1>2 DEF Open, Decoded, Content, Stored
    <2>2. DiskIsCommitted' /\ LandedIsCommitted' /\ NeverAhead'
      BY <1>2 DEF Open, Decoded, Content, Stored
    <2>3. FreshDraftIsOnDisk' /\ CheckedStaysChecked'
      BY <1>2 DEF Open, Decoded, Content, Stored
    <2>4. MemoryIsCommitted'
      BY <1>2 DEF Open, Decoded, Content, Stored, Persisted
    <2>5. FreshSessionSeesTheDisk'
      BY <1>2 DEF Open, Decoded, Content, Stored, Persisted
    <2> QED
      BY <1>0, <2>1, <2>2, <2>3, <2>4, <2>5
  <1>3. ASSUME NEW s \in Session, Close(s) PROVE SafetyInv'
    BY <1>0, <1>3 DEF Close
  <1>4. ASSUME NEW s \in Session, CreateFile(s) PROVE SafetyInv'
    BY <1>0, <1>4 DEF CreateFile
  <1>5. ASSUME NEW s \in Session, BeginEdit(s) PROVE SafetyInv'
    BY <1>0, <1>5 DEF BeginEdit
  <1>6. ASSUME NEW s \in Session, NestedEdit(s) PROVE SafetyInv'
    BY <1>0, <1>6 DEF NestedEdit
  <1>7. ASSUME NEW s \in Session, CreateLock(s) PROVE SafetyInv'
    BY <1>0, <1>7 DEF CreateLock
  <1>8. ASSUME NEW s \in Session, CreateWrite(s) PROVE SafetyInv'
    BY <1>0, <1>8, DurableStep DEF CreateWrite
  <1>9. ASSUME NEW s \in Session, CreateAdopt(s) PROVE SafetyInv'
    <2>1. WriterHoldsLock' /\ BlankUntilCreated' /\ OneCreator'
      BY <1>9 DEF CreateAdopt
    <2>2. DiskIsCommitted' /\ LandedIsCommitted' /\ NeverAhead'
      <3>1. Disk(s).rev \in Nat
        BY <1>9 DEF CreateAdopt, Stored
      <3>2. NeverAhead'
        BY <1>9, <3>1 DEF CreateAdopt
      <3>3. DiskIsCommitted' /\ LandedIsCommitted'
        BY <1>9 DEF CreateAdopt
      <3> QED
        BY <3>2, <3>3
    <2>3. FreshDraftIsOnDisk' /\ CheckedStaysChecked'
      BY <1>9 DEF CreateAdopt
    <2>4. MemoryIsCommitted'
      <3> SUFFICES ASSUME NEW t \in Session, IsOpen(t)'
                   PROVE  [file |-> handle'[t], rev |-> revision'[t],
                           doc |-> Persisted(document'[t])] \in committed'
        BY DEF MemoryIsCommitted, Persisted
      <3>1. CASE t = s
        <4>1. document'[t] = draft[s] /\ revision'[t] = 0
          BY <1>9, <3>1 DEF CreateAdopt
        <4> QED
          BY <1>9, <3>1, <4>1 DEF CreateAdopt
      <3>2. CASE t # s
        BY <1>9, <3>2 DEF CreateAdopt
      <3> QED
        BY <3>1, <3>2
    <2>5. FreshSessionSeesTheDisk'
      <3> SUFFICES ASSUME NEW t \in Session, IsOpen(t)', ~stale'[t], Disk(t)'.rev = revision'[t]
                   PROVE  Disk(t)'.doc = Persisted(document'[t])
        BY DEF FreshSessionSeesTheDisk, Persisted
      <3>1. CASE t = s
        <4>1. document'[t] = draft[s] /\ revision'[t] = 0
          BY <1>9, <3>1 DEF CreateAdopt
        <4> QED
          BY <1>9, <3>1, <4>1 DEF CreateAdopt
      <3>2. CASE t # s
        BY <1>9, <3>2 DEF CreateAdopt
      <3> QED
        BY <3>1, <3>2
    <2> QED
      BY <1>0, <2>1, <2>2, <2>3, <2>4, <2>5
  <1>10. ASSUME NEW s \in Session, CreateThrows(s) PROVE SafetyInv'
    <2>1. CASE pc[s] = "createWrite" /\ MakeDurable(s, handle[s], 0, Persisted(draft[s]))
      BY <1>0, <1>10, <2>1, DurableStep, SMTT(30) DEF CreateThrows
    <2>2. CASE UNCHANGED <<diskVars, stale>>
      BY <1>0, <1>10, <2>2 DEF CreateThrows
    <2> QED
      BY <1>10, <2>1, <2>2 DEF CreateThrows
  <1>11. ASSUME NEW s \in Session, RemoveCreated(s) PROVE SafetyInv'
    BY <1>0, <1>11 DEF RemoveCreated
  <1>12. ASSUME NEW s \in Session, Callback(s) PROVE SafetyInv'
    BY <1>0, <1>12 DEF Callback
  <1>13. ASSUME NEW s \in Session, CallbackRejects(s) PROVE SafetyInv'
    BY <1>0, <1>13 DEF CallbackRejects
  <1>14. ASSUME NEW s \in Session, EncodeFails(s) PROVE SafetyInv'
    BY <1>0, <1>14 DEF EncodeFails
  <1>15. ASSUME NEW s \in Session, AcquireSource(s) PROVE SafetyInv'
    BY <1>0, <1>15 DEF AcquireSource
  <1>16. ASSUME NEW s \in Session, BeginImmediate(s) PROVE SafetyInv'
    BY <1>0, <1>16 DEF BeginImmediate
  <1>17. ASSUME NEW s \in Session, BeginFails(s) PROVE SafetyInv'
    BY <1>0, <1>17 DEF BeginFails
  <1>18. ASSUME NEW s \in Session, CheckOwnership(s) PROVE SafetyInv'
    BY <1>0, <1>18 DEF CheckOwnership, OwnsFile
  <1>19. ASSUME NEW s \in Session, Conflict(s) PROVE SafetyInv'
    BY <1>0, <1>19 DEF Conflict
  <1>20. ASSUME NEW s \in Session, WriteNothing(s) PROVE SafetyInv'
    <2>1. WriterHoldsLock' /\ BlankUntilCreated' /\ OneCreator'
      BY <1>20 DEF WriteNothing
    <2>2. DiskIsCommitted' /\ LandedIsCommitted' /\ NeverAhead'
      BY <1>20 DEF WriteNothing
    <2>3. FreshDraftIsOnDisk' /\ CheckedStaysChecked'
      BY <1>20 DEF WriteNothing
    <2>4. MemoryIsCommitted'
      BY <1>20 DEF WriteNothing, Persisted
    <2>5. FreshSessionSeesTheDisk'
      BY <1>20 DEF WriteNothing, Persisted
    <2> QED
      BY <1>0, <2>1, <2>2, <2>3, <2>4, <2>5
  <1>21. ASSUME NEW s \in Session, WriteRecords(s) PROVE SafetyInv'
    BY <1>0, <1>21 DEF WriteRecords
  <1>22. ASSUME NEW s \in Session, RevisionExhausted(s) PROVE SafetyInv'
    BY <1>0, <1>22 DEF RevisionExhausted
  <1>23. ASSUME NEW s \in Session, WriteFails(s) PROVE SafetyInv'
    BY <1>0, <1>23 DEF WriteFails
  <1>24. ASSUME NEW s \in Session, AllocationFails(s) PROVE SafetyInv'
    BY <1>0, <1>24 DEF AllocationFails
  <1>25. ASSUME NEW s \in Session, Commit(s) PROVE SafetyInv'
    <2>1. Disk(s).rev \in Nat
      BY <1>25 DEF Commit, Stored
    <2> QED
      BY <1>0, <1>25, <2>1, DurableStep DEF Commit
  <1>26. ASSUME NEW s \in Session, CommitFails(s) PROVE SafetyInv'
    <2> DEFINE Landed == MakeDurable(s, handle[s], Disk(s).rev + 1, Persisted(draft[s]))
    <2>1. CASE UNCHANGED <<diskVars, stale>>
      BY <1>0, <1>26, <2>1 DEF CommitFails
    <2>2. CASE Landed /\ EndTransaction(s)
      <3>1. Disk(s).rev \in Nat
        BY <1>26 DEF CommitFails, Stored
      <3> QED
        BY <1>0, <1>26, <2>2, <3>1, DurableStep, SMTT(30) DEF CommitFails
    <2> QED
      BY <1>26, <2>1, <2>2 DEF CommitFails
  <1>27. ASSUME NEW s \in Session, AdoptCommit(s) PROVE SafetyInv'
    <2>1. WriterHoldsLock' /\ BlankUntilCreated' /\ OneCreator'
      BY <1>27 DEF AdoptCommit
    <2>2. DiskIsCommitted' /\ LandedIsCommitted' /\ NeverAhead'
      BY <1>27 DEF AdoptCommit
    <2>3. FreshDraftIsOnDisk' /\ CheckedStaysChecked'
      BY <1>27 DEF AdoptCommit
    <2>4. MemoryIsCommitted'
      <3> SUFFICES ASSUME NEW t \in Session, IsOpen(t)'
                   PROVE  [file |-> handle'[t], rev |-> revision'[t],
                           doc |-> Persisted(document'[t])] \in committed'
        BY DEF MemoryIsCommitted, Persisted
      <3>1. CASE t = s
        <4>1. document'[t] = draft[s] /\ revision'[t] = revision[s] + 1
          BY <1>27, <3>1 DEF AdoptCommit
        <4> QED
          BY <1>27, <3>1, <4>1 DEF AdoptCommit
      <3>2. CASE t # s
        BY <1>27, <3>2 DEF AdoptCommit
      <3> QED
        BY <3>1, <3>2
    <2>5. FreshSessionSeesTheDisk'
      <3> SUFFICES ASSUME NEW t \in Session, IsOpen(t)', ~stale'[t], Disk(t)'.rev = revision'[t]
                   PROVE  Disk(t)'.doc = Persisted(document'[t])
        BY DEF FreshSessionSeesTheDisk, Persisted
      <3>1. CASE t = s
        <4>1. document'[t] = draft[s] /\ revision'[t] = revision[s] + 1
          BY <1>27, <3>1 DEF AdoptCommit
        <4> QED
          BY <1>27, <3>1, <4>1 DEF AdoptCommit
      <3>2. CASE t # s
        BY <1>27, <3>2 DEF AdoptCommit
      <3> QED
        BY <3>1, <3>2
    <2> QED
      BY <1>0, <2>1, <2>2, <2>3, <2>4, <2>5
  <1>28. ASSUME NEW s \in Session, Detach(s) PROVE SafetyInv'
    BY <1>0, <1>28 DEF Detach
  <1>29. ASSUME NEW s \in Session, StayAttached(s) PROVE SafetyInv'
    BY <1>0, <1>29 DEF StayAttached
  <1>30. ASSUME NEW s \in Session, Notify(s) PROVE SafetyInv'
    BY <1>0, <1>30 DEF Notify
  <1>31. ASSUME NEW s \in Session, NotifyThrows(s) PROVE SafetyInv'
    BY <1>0, <1>31 DEF NotifyThrows
  <1>32. ASSUME NEW p \in Process, WorkerTakes(p) PROVE SafetyInv'
    BY <1>0, <1>32 DEF WorkerTakes
  <1>33. ASSUME NEW p \in Process, WorkerLocks(p) PROVE SafetyInv'
    BY <1>0, <1>33 DEF WorkerLocks
  <1>34. ASSUME NEW p \in Process, WorkerGivesUp(p) PROVE SafetyInv'
    BY <1>0, <1>34 DEF WorkerGivesUp
  <1>35. ASSUME NEW p \in Process, WorkerReads(p) PROVE SafetyInv'
    BY <1>0, <1>35 DEF WorkerReads
  <1>40. ASSUME NEW p \in Process, WorkerFails(p) PROVE SafetyInv'
    BY <1>0, <1>40 DEF WorkerFails
  <1>36. ASSUME NEW p \in Process, Crash(p) PROVE SafetyInv'
    <2>1. WriterHoldsLock' /\ BlankUntilCreated' /\ OneCreator'
      BY <1>36 DEF Crash
    <2>2. DiskIsCommitted' /\ LandedIsCommitted' /\ NeverAhead'
      BY <1>36 DEF Crash
    <2>3. FreshDraftIsOnDisk' /\ CheckedStaysChecked'
      BY <1>36 DEF Crash
    <2>4. MemoryIsCommitted'
      BY <1>36 DEF Crash, Persisted
    <2>5. FreshSessionSeesTheDisk'
      BY <1>36 DEF Crash, Persisted
    <2> QED
      BY <1>0, <2>1, <2>2, <2>3, <2>4, <2>5
  <1>37. CASE ForeignWrite
    <2>1. PICK i \in Inode, b \in Body :
             /\ store[i].phase = "canvas" /\ writer[i] = Free
             /\ \A s \in Session : ~(pc[s] = "createAdopt" /\ handle[s] = i)
             /\ store' = [store EXCEPT ![i].doc = [store[i].doc EXCEPT !.body = b]]
             /\ committed' = committed \union
                    {[file |-> i, rev |-> store[i].rev, doc |-> [store[i].doc EXCEPT !.body = b]]}
             /\ stale' = [s \in Session |-> stale[s] \/ handle[s] = i]
      BY ONLY <1>37 DEF ForeignWrite
    <2>2. UNCHANGED <<at, lockVars, handle, document, revision, pc, draft>>
      BY <1>37 DEF ForeignWrite
    <2>3. /\ store'[i] = [phase |-> "canvas", rev |-> store[i].rev,
                          doc |-> [store[i].doc EXCEPT !.body = b]]
          /\ \A j \in Inode \ {i} : store'[j] = store[j]
      <3>1. store[i] \in Stored /\ store \in [Inode -> Stored]
        OBVIOUS
      <3>2. store'[i] = [store[i] EXCEPT !.doc = [store[i].doc EXCEPT !.body = b]]
        BY ONLY <2>1, <3>1
      <3>3. store'[i] = [phase |-> "canvas", rev |-> store[i].rev,
                         doc |-> [store[i].doc EXCEPT !.body = b]]
        BY ONLY <2>1, <3>1, <3>2 DEF Stored
      <3>4. \A j \in Inode \ {i} : store'[j] = store[j]
        BY ONLY <2>1, <3>1
      <3> QED
        BY <3>3, <3>4
    <2>4. \A s \in Session : handle[s] = i => stale'[s]
      BY <2>1
    <2>5. \A s \in Session : handle[s] # i => stale'[s] = stale[s]
      BY <2>1
    <2>6. \A j \in Inode : /\ store'[j].phase = store[j].phase
                           /\ store'[j].rev = store[j].rev
      BY ONLY <2>1, <2>3
    <2>7. WriterHoldsLock' /\ BlankUntilCreated' /\ OneCreator'
      BY <2>2, <2>6, SMTT(30)
    <2>8. DiskIsCommitted'
      <3> SUFFICES ASSUME NEW j \in Inode, store'[j].phase = "canvas"
                   PROVE  [file |-> j, rev |-> store'[j].rev, doc |-> store'[j].doc]
                              \in committed'
        OBVIOUS
      <3>1. CASE j = i
        BY <2>1, <2>3, <3>1
      <3>2. CASE j # i
        BY <2>1, <2>3, <3>2
      <3> QED
        BY <3>1, <3>2
    <2>9. LandedIsCommitted' /\ MemoryIsCommitted'
      BY <2>1, <2>2 DEF Persisted
    <2>10. NeverAhead'
      BY <2>2, <2>6
    <2>11. FreshDraftIsOnDisk'
      BY <2>1, <2>2, <2>3, <2>4, <2>5 DEF Persisted
    <2>12. CheckedStaysChecked'
      BY <2>1, <2>2, <2>3, <2>5
    <2>13. FreshSessionSeesTheDisk'
      BY <2>2, <2>3, <2>4, <2>5 DEF Persisted
    <2> QED
      BY <1>0, <2>7, <2>8, <2>9, <2>10, <2>11, <2>12, <2>13
  <1>38. CASE RemovePath
    BY <1>0, <1>38 DEF RemovePath
  <1>39. CASE UNCHANGED vars
    BY <1>0, <1>39
  <1> QED
    BY <1>1, <1>2, <1>3, <1>4, <1>5, <1>6, <1>7, <1>8, <1>9, <1>10, <1>11, <1>12, <1>13, <1>14, <1>15, <1>16, <1>17, <1>18, <1>19, <1>20, <1>21, <1>22, <1>23, <1>24, <1>25, <1>26, <1>27, <1>28, <1>29, <1>30, <1>31, <1>32, <1>33, <1>34, <1>35, <1>36, <1>37, <1>38, <1>39, <1>40
       DEF Next, Call, Step, WorkerStep

(* The invariant behind the next three theorems. *)
LEMMA SafetyInvariant == Spec => []SafetyInv
  BY SafetyInit, SafetyStep, PTL DEF Spec

(* What a session shows was, at its revision, durable in its file: memory    *)
(* never runs ahead of a transaction that failed or whose outcome is unknown. *)
THEOREM MemoryIsCommittedCorrect == Spec => []MemoryIsCommitted
  <1>1. SafetyInv => MemoryIsCommitted
    BY DEF SafetyInv
  <1> QED
    BY <1>1, SafetyInvariant, PTL

(* data_version and the revision together are a sound test of freshness: a   *)
(* session that passes both holds what its file holds.                       *)
THEOREM FreshSessionCorrect == Spec => []FreshSessionSeesTheDisk
  <1>1. SafetyInv => FreshSessionSeesTheDisk
    BY DEF SafetyInv
  <1> QED
    BY <1>1, SafetyInvariant, PTL

(* No commit of editImpl replaces a version its session has not seen, for    *)
(* any number of sessions, processes and foreign writers.                    *)
THEOREM NoLostUpdateCorrect == Spec => NoLostUpdate
  <1> DEFINE Seen == \A s \in Session :
                        (pc[s] = "commit" /\ landed'[s])
                            => Disk(s).doc = Persisted(document[s])
  <1>1. SafetyInv => [Seen]_vars
    <2> SUFFICES ASSUME SafetyInv, NEW s \in Session, pc[s] = "commit"
                 PROVE  Disk(s).doc = Persisted(document[s])
      OBVIOUS
    <2>1. IsOpen(s)
      BY ConstantsAssumption DEF SafetyInv, TypeInv, RunningCallHasFile, IsOpen, CreateSteps
    <2>2. ~stale[s] /\ Disk(s).rev = revision[s]
      BY DEF SafetyInv, CheckedStaysChecked
    <2> QED
      BY <2>1, <2>2 DEF SafetyInv, FreshSessionSeesTheDisk
  <1> QED
    BY <1>1, SafetyInvariant, PTL DEF NoLostUpdate

-----------------------------------------------------------------------------

(* No lock is held before any call. *)
LEMMA LockInit == Init => LockInv
  BY TypeInit, ConstantsAssumption DEF Init, LockInv, WriterHoldsLock, OwnersAreRunning, StrandedStays, SourceIsLocal

(* Every step that ends a call, crashes included, gives up what it holds. *)
LEMMA LockStep == LockInv /\ [Next]_vars => LockInv'
  <1> SUFFICES ASSUME LockInv, [Next]_vars PROVE LockInv'
    OBVIOUS
  <1>0. TypeInv'
    BY TypeStep DEF LockInv
  <1> USE ConstantsAssumption
      DEF LockInv, WriterHoldsLock, OwnersAreRunning, StrandedStays, SourceIsLocal, TypeInv, TypeOK, RunningCallHasFile,
          Access, CreateSteps, EditSteps, InTransaction,
          vars, diskVars, lockVars, transaction, sessionVars, callVars, viewVars,
          Goto, Fail, Return, ReleaseSource, EndTransaction, MakeDurable
  <1>1. ASSUME NEW s \in Session, RefuseCall(s) PROVE LockInv'
    BY <1>0, <1>1 DEF RefuseCall
  <1>2. ASSUME NEW s \in Session, Open(s) PROVE LockInv'
    BY <1>0, <1>2 DEF Open
  <1>3. ASSUME NEW s \in Session, Close(s) PROVE LockInv'
    BY <1>0, <1>3 DEF Close
  <1>4. ASSUME NEW s \in Session, CreateFile(s) PROVE LockInv'
    BY <1>0, <1>4 DEF CreateFile
  <1>5. ASSUME NEW s \in Session, BeginEdit(s) PROVE LockInv'
    BY <1>0, <1>5 DEF BeginEdit
  <1>6. ASSUME NEW s \in Session, NestedEdit(s) PROVE LockInv'
    BY <1>0, <1>6 DEF NestedEdit
  <1>7. ASSUME NEW s \in Session, CreateLock(s) PROVE LockInv'
    BY <1>0, <1>7 DEF CreateLock
  <1>8. ASSUME NEW s \in Session, CreateWrite(s) PROVE LockInv'
    BY <1>0, <1>8 DEF CreateWrite
  <1>9. ASSUME NEW s \in Session, CreateAdopt(s) PROVE LockInv'
    BY <1>0, <1>9 DEF CreateAdopt
  <1>10. ASSUME NEW s \in Session, CreateThrows(s) PROVE LockInv'
    BY <1>0, <1>10 DEF CreateThrows
  <1>11. ASSUME NEW s \in Session, RemoveCreated(s) PROVE LockInv'
    <2>1. s \notin stranded /\ \A i \in Inode : writer[i] # s
      BY <1>11 DEF RemoveCreated
    <2>2. OwnersAreRunning' /\ SourceIsLocal'
      BY <1>11, <2>1 DEF RemoveCreated
    <2>3. WriterHoldsLock'
      BY <1>11, <2>1 DEF RemoveCreated
    <2>4. StrandedStays'
      BY <1>11, <2>1 DEF RemoveCreated
    <2> QED
      BY <1>0, <2>2, <2>3, <2>4
  <1>12. ASSUME NEW s \in Session, Callback(s) PROVE LockInv'
    BY <1>0, <1>12 DEF Callback
  <1>13. ASSUME NEW s \in Session, CallbackRejects(s) PROVE LockInv'
    BY <1>0, <1>13 DEF CallbackRejects
  <1>14. ASSUME NEW s \in Session, EncodeFails(s) PROVE LockInv'
    BY <1>0, <1>14 DEF EncodeFails
  <1>15. ASSUME NEW s \in Session, AcquireSource(s) PROVE LockInv'
    BY <1>0, <1>15 DEF AcquireSource
  <1>16. ASSUME NEW s \in Session, BeginImmediate(s) PROVE LockInv'
    BY <1>0, <1>16 DEF BeginImmediate
  <1>17. ASSUME NEW s \in Session, BeginFails(s) PROVE LockInv'
    BY <1>0, <1>17 DEF BeginFails
  <1>18. ASSUME NEW s \in Session, CheckOwnership(s) PROVE LockInv'
    BY <1>0, <1>18 DEF CheckOwnership
  <1>19. ASSUME NEW s \in Session, Conflict(s) PROVE LockInv'
    BY <1>0, <1>19 DEF Conflict
  <1>20. ASSUME NEW s \in Session, WriteNothing(s) PROVE LockInv'
    BY <1>0, <1>20 DEF WriteNothing
  <1>21. ASSUME NEW s \in Session, WriteRecords(s) PROVE LockInv'
    BY <1>0, <1>21 DEF WriteRecords
  <1>22. ASSUME NEW s \in Session, RevisionExhausted(s) PROVE LockInv'
    BY <1>0, <1>22 DEF RevisionExhausted
  <1>23. ASSUME NEW s \in Session, WriteFails(s) PROVE LockInv'
    BY <1>0, <1>23 DEF WriteFails
  <1>24. ASSUME NEW s \in Session, AllocationFails(s) PROVE LockInv'
    <2>1. CASE EndTransaction(s)
      BY <1>0, <1>24, <2>1 DEF AllocationFails
    <2>2. CASE stranded' = stranded \union {s} /\ UNCHANGED writer
      <3>1. OwnersAreRunning' /\ SourceIsLocal' /\ WriterHoldsLock'
        BY <1>24, <2>2 DEF AllocationFails
      <3>2. pc[s] \in {"write", "commit"} /\ pc'[s] = "idle"
        BY <1>24 DEF AllocationFails
      <3>3. StrandedStays'
        BY <1>24, <2>2, <3>2 DEF AllocationFails
      <3> QED
        BY <1>0, <3>1, <3>3
    <2> QED
      BY <1>24, <2>1, <2>2 DEF AllocationFails
  <1>25. ASSUME NEW s \in Session, Commit(s) PROVE LockInv'
    BY <1>0, <1>25 DEF Commit
  <1>26. ASSUME NEW s \in Session, CommitFails(s) PROVE LockInv'
    BY <1>0, <1>26 DEF CommitFails
  <1>27. ASSUME NEW s \in Session, AdoptCommit(s) PROVE LockInv'
    BY <1>0, <1>27 DEF AdoptCommit
  <1>28. ASSUME NEW s \in Session, Detach(s) PROVE LockInv'
    BY <1>0, <1>28 DEF Detach
  <1>29. ASSUME NEW s \in Session, StayAttached(s) PROVE LockInv'
    BY <1>0, <1>29 DEF StayAttached
  <1>30. ASSUME NEW s \in Session, Notify(s) PROVE LockInv'
    BY <1>0, <1>30 DEF Notify
  <1>31. ASSUME NEW s \in Session, NotifyThrows(s) PROVE LockInv'
    BY <1>0, <1>31 DEF NotifyThrows
  <1>32. ASSUME NEW p \in Process, WorkerTakes(p) PROVE LockInv'
    BY <1>0, <1>32 DEF WorkerTakes
  <1>33. ASSUME NEW p \in Process, WorkerLocks(p) PROVE LockInv'
    BY <1>0, <1>33 DEF WorkerLocks
  <1>34. ASSUME NEW p \in Process, WorkerGivesUp(p) PROVE LockInv'
    BY <1>0, <1>34 DEF WorkerGivesUp
  <1>35. ASSUME NEW p \in Process, WorkerReads(p) PROVE LockInv'
    BY <1>0, <1>35 DEF WorkerReads
  <1>40. ASSUME NEW p \in Process, WorkerFails(p) PROVE LockInv'
    BY <1>0, <1>40 DEF WorkerFails
  <1>36. ASSUME NEW p \in Process, Crash(p) PROVE LockInv'
    <2> DEFINE dead == {s \in Session : Home[s] = p}
    <2>1. \A s \in Session \ dead :
              /\ pc'[s] = pc[s] /\ handle'[s] = handle[s]
              /\ \A i \in Inode : writer'[i] = s => writer[i] = s
              /\ \A a \in Process \X Inode : source'[a] = s => source[a] = s
      BY <1>36 DEF Crash
    <2>2. \A s \in dead, i \in Inode : writer'[i] # s
      BY <1>36 DEF Crash
    <2>3. \A s \in dead, a \in Process \X Inode : source'[a] # s
      <3> SUFFICES ASSUME NEW s \in dead, NEW a \in Process \X Inode, source'[a] = s
                   PROVE  FALSE
        OBVIOUS
      <3>1. a[1] # p /\ source[a] = s
        BY <1>36 DEF Crash
      <3> QED
        BY <3>1
    <2>4. SourceIsLocal'
      <3> SUFFICES ASSUME NEW s \in Session, NEW a \in Process \X Inode, source'[a] = s
                   PROVE  a[1] = Home[s]
        OBVIOUS
      <3>1. s \in Session \ dead
        BY <2>3
      <3> QED
        BY <3>1, <2>1
    <2>5. stranded' = stranded \ dead
      BY <1>36 DEF Crash
    <2>6. OwnersAreRunning'
      <3> SUFFICES ASSUME NEW s \in Session
                   PROVE  /\ \A i \in Inode : writer'[i] = s =>
                              /\ \/ pc'[s] \in {"check", "write", "commit", "verify"}
                                 \/ s \in stranded'
                              /\ handle'[s] = i
                          /\ \A a \in Process \X Inode : source'[a] = s =>
                              pc'[s] \notin {"idle", "notify"}
        OBVIOUS
      <3>1. CASE s \in dead
        BY <3>1, <2>2, <2>3
      <3>2. CASE s \notin dead
        BY <3>2, <2>1, <2>5
      <3> QED
        BY <3>1, <3>2
    <2>7. StrandedStays'
      <3> SUFFICES ASSUME NEW s \in stranded, s \notin dead
                   PROVE  /\ handle'[s] \in Inode /\ writer'[handle'[s]] = s
                          /\ pc'[s] \in {"idle", "draft", "lock", "begin", "verify"}
        BY <2>5
      <3>1. handle'[s] = handle[s] /\ pc'[s] = pc[s]
        BY <2>1
      <3>2. writer'[handle[s]] = writer[handle[s]]
        BY <1>36 DEF Crash
      <3> QED
        BY <3>1, <3>2
    <2>9. WriterHoldsLock'
      BY <1>36 DEF Crash
    <2> QED
      BY <1>0, <2>4, <2>6, <2>7, <2>9
  <1>37. CASE ForeignWrite
    BY <1>0, <1>37 DEF ForeignWrite
  <1>38. CASE RemovePath
    BY <1>0, <1>38 DEF RemovePath
  <1>39. CASE UNCHANGED vars
    BY <1>0, <1>39
  <1> QED
    BY <1>1, <1>2, <1>3, <1>4, <1>5, <1>6, <1>7, <1>8, <1>9, <1>10, <1>11, <1>12, <1>13, <1>14, <1>15, <1>16, <1>17, <1>18, <1>19, <1>20, <1>21, <1>22, <1>23, <1>24, <1>25, <1>26, <1>27, <1>28, <1>29, <1>30, <1>31, <1>32, <1>33, <1>34, <1>35, <1>36, <1>37, <1>38, <1>39, <1>40
       DEF Next, Call, Step, WorkerStep

(* However a call ended, it left no source lock behind, and no transaction    *)
(* unless its rollback failed where no handler verifies it; a session left in *)
(* one never gets to write in it.                                            *)
THEOREM IdleHoldsNothingCorrect == Spec => []IdleHoldsNothing
  <1>1. LockInv => IdleHoldsNothing
    BY DEF LockInv, OwnersAreRunning, StrandedStays, IdleHoldsNothing
  <1> QED
    BY <1>1, LockInit, LockStep, PTL DEF Spec

-----------------------------------------------------------------------------
(* The register of DocumentRegister, the ledger, and calls that fail. Each   *)
(* rests on SafetyInv, which makes the document of a session that is about   *)
(* to write the stored one.                                                  *)

(* What an edit under way has made of its document: artwork no editor        *)
(* stamped, or artwork and one entry in the ledger; an upgrade makes no      *)
(* entry, and is not written unless the document was in the old format.      *)
DraftFollows(s) ==
    /\ pc[s] \in EditSteps \ {"adopt", "verify"} => kind[s] \in {"edit", "upgrade"}
    /\ pc[s] = "draft" => draft[s] = document[s]
    /\ (pc[s] \in {"lock", "begin", "check", "write"} /\ kind[s] = "edit") =>
           \/ draft[s].ledger = document[s].ledger
           \/ /\ draft[s].ledger = document[s].ledger + 1
              /\ draft[s].format = "current"
    /\ (pc[s] = "commit" /\ kind[s] = "edit") =>
           /\ draft[s].ledger = document[s].ledger + 1
           /\ draft[s].format = "current"
    /\ (pc[s] \in {"lock", "begin", "check", "write", "commit"} /\ kind[s] = "upgrade") =>
           /\ draft[s].ledger = document[s].ledger
           /\ draft[s].body = document[s].body
           /\ draft[s].format = "current"
    /\ (pc[s] = "commit" /\ kind[s] = "upgrade") => document[s].format = "old"

DraftFollowsDocument == \A s \in Session : DraftFollows(s)

(* A file is created with an empty ledger.                                   *)
CreatedUnstamped ==
    \A s \in Session : pc[s] \in {"createLock", "createWrite"} => draft[s].ledger = 0

(* Revisions stay in their range: the last one is not written over.          *)
RevisionsInRange ==
    /\ \A i \in Inode : store[i].rev <= MaxRevision
    /\ \A s \in Session : pc[s] = "commit" => revision[s] # MaxRevision

LedgerInv ==
    /\ DraftFollowsDocument
    /\ CreatedUnstamped
    /\ RevisionsInRange
    /\ LedgerMatchesRevision

(* Where a transaction that landed may leave its session: it is about to be  *)
(* adopted or acknowledged, the verification will find the revision moved,   *)
(* the file is being let go, or the call has reported success.               *)
LandedKnown(s) ==
    landed[s] =>
        \/ pc[s] \in {"createAdopt", "createUndo", "adopt"}
        \/ pc[s] = "notify" /\ result[s] = "changed"
        \/ pc[s] = "verify" /\ Disk(s).rev > revision[s]
        \/ pc[s] = "idle" /\ (handle[s] = NoFile \/ result[s] # "fail")

LandedIsKnown == \A s \in Session : LandedKnown(s)
-----------------------------------------------------------------------------
(* No file is written and no draft made before the first call. *)
LEMMA LedgerInit == Init => LedgerInv
  BY ConstantsAssumption
     DEF Init, LedgerInv, DraftFollowsDocument, DraftFollows, CreatedUnstamped, RevisionsInRange,
         LedgerMatchesRevision, Unused, EditSteps

(* A version that an edit or an upgrade puts in the place of the one it was  *)
(* drafted from, or that a file is created with, keeps the ledger in step.   *)
LEMMA LedgerDurable ==
    ASSUME SafetyInv, LedgerInv, NEW s \in Session, NEW r \in Nat,
           MakeDurable(s, handle[s], r, Persisted(draft[s])),
           \/ pc[s] = "createWrite" /\ r = 0
           \/ pc[s] = "commit" /\ r = Disk(s).rev + 1
    PROVE  LedgerMatchesRevision' /\ \A i \in Inode : store'[i].rev <= MaxRevision
  <1> DEFINE c == Persisted(draft[s])
             new == [phase |-> "canvas", rev |-> r, doc |-> c]
  <1>1. handle[s] \in Inode /\ draft[s] \in Document /\ document[s] \in Document
    BY DEF SafetyInv, TypeInv, TypeOK, RunningCallHasFile
  <1>2. store' = [store EXCEPT ![handle[s]] = new]
    BY DEF MakeDurable
  <1>3. store'[handle[s]] = new /\ \A j \in Inode \ {handle[s]} : store'[j] = store[j]
    BY <1>1, <1>2 DEF SafetyInv, TypeInv, TypeOK
  <1>4. c.ledger \in {r, r - 1} /\ (c.format = "old" => r = 0) /\ r <= MaxRevision
    <2>1. c.ledger = draft[s].ledger /\ c.format = draft[s].format
      BY DEF Persisted
    <2>2. CASE pc[s] = "createWrite"
      BY <2>1, <2>2, ConstantsAssumption DEF LedgerInv, CreatedUnstamped
    <2>3. CASE pc[s] = "commit"
      <3>1. /\ IsOpen(s) /\ handle[s] # NoFile /\ ~stale[s] /\ Disk(s).rev = revision[s]
            /\ Disk(s).phase = "canvas"
        BY <1>1, <2>3, ConstantsAssumption
           DEF SafetyInv, CheckedStaysChecked, BlankUntilCreated, IsOpen, CreateSteps
      <3>2. Disk(s).doc = Persisted(document[s])
        BY <3>1 DEF SafetyInv, FreshSessionSeesTheDisk
      <3>3. /\ document[s].ledger \in {Disk(s).rev, Disk(s).rev - 1}
            /\ document[s].format = "old" => Disk(s).rev = 0
        BY <1>1, <3>1, <3>2 DEF LedgerInv, LedgerMatchesRevision, Disk, Persisted
      <3>4. Disk(s).rev \in Nat /\ revision[s] \in Nat /\ document[s].ledger \in Nat
        BY <1>1 DEF SafetyInv, TypeInv, TypeOK, Disk, Stored, Document
      <3>5. kind[s] \in {"edit", "upgrade"}
        BY <2>3 DEF LedgerInv, DraftFollowsDocument, DraftFollows, EditSteps
      <3>6. Disk(s).rev <= MaxRevision /\ revision[s] # MaxRevision
        BY <1>1, <2>3 DEF LedgerInv, RevisionsInRange, Disk
      <3>7. CASE kind[s] = "edit"
        <4>1. draft[s].ledger = document[s].ledger + 1 /\ draft[s].format = "current"
          BY <2>3, <3>7 DEF LedgerInv, DraftFollowsDocument, DraftFollows
        <4> QED
          BY <2>1, <2>3, <3>1, <3>3, <3>4, <3>6, <4>1, ConstantsAssumption
      <3>8. CASE kind[s] = "upgrade"
        <4>1. /\ draft[s].ledger = document[s].ledger /\ draft[s].format = "current"
              /\ document[s].format = "old"
          BY <2>3, <3>8 DEF LedgerInv, DraftFollowsDocument, DraftFollows
        <4> QED
          BY <2>1, <2>3, <3>1, <3>3, <3>4, <3>6, <4>1, ConstantsAssumption
      <3> QED
        BY <3>5, <3>7, <3>8
    <2> QED
      BY <2>2, <2>3
  <1> QED
    BY <1>1, <1>3, <1>4 DEF LedgerInv, LedgerMatchesRevision, RevisionsInRange

(* Every step of every session and failure keeps the ledger in step. *)
LEMMA LedgerStep == SafetyInv /\ LedgerInv /\ [Next]_vars => LedgerInv'
  <1> SUFFICES ASSUME SafetyInv, LedgerInv, [Next]_vars PROVE LedgerInv'
    OBVIOUS
  <1>0. TypeInv /\ TypeInv'
    BY TypeStep DEF SafetyInv
  <1> USE ConstantsAssumption
      DEF LedgerInv, DraftFollowsDocument, DraftFollows, CreatedUnstamped, RevisionsInRange,
          LedgerMatchesRevision, TypeInv, TypeOK, RunningCallHasFile, EditSteps,
          CreateSteps, vars, diskVars, lockVars, transaction, sessionVars, callVars, viewVars,
          Goto, Fail, Return, ReleaseSource, EndTransaction
  <1>1. ASSUME NEW s \in Session, RefuseCall(s) PROVE LedgerInv'
    BY <1>0, <1>1 DEF RefuseCall
  <1>2. ASSUME NEW s \in Session, Open(s) PROVE LedgerInv'
    BY <1>0, <1>2 DEF Open
  <1>3. ASSUME NEW s \in Session, Close(s) PROVE LedgerInv'
    BY <1>0, <1>3 DEF Close
  <1>4. ASSUME NEW s \in Session, CreateFile(s) PROVE LedgerInv'
    <2>1. PICK i \in Inode, d \in NewDocument :
             /\ store' = [store EXCEPT ![i].phase = "blank"]
             /\ draft' = [draft EXCEPT ![s] =
                     [EmptyDocument EXCEPT !.format = d.format, !.body = d.body]]
      BY <1>4 DEF CreateFile
    <2>2. draft'[s].ledger = 0 /\ \A t \in Session \ {s} : draft'[t] = draft[t]
      BY <1>0, <2>1 DEF EmptyDocument
    <2>3. /\ \A j \in Inode : store'[j].rev = store[j].rev /\ store'[j].doc = store[j].doc
          /\ \A j \in Inode : store'[j].phase = "canvas" => store[j].phase = "canvas"
      BY <1>0, <2>1 DEF Stored
    <2>4. /\ pc'[s] = "createLock" /\ \A t \in Session \ {s} : pc'[t] = pc[t] /\ kind'[t] = kind[t]
          /\ document' = document /\ revision' = revision
      BY <1>0, <1>4 DEF CreateFile
    <2>5. DraftFollowsDocument'
      BY <2>2, <2>4
    <2>6. CreatedUnstamped'
      BY <2>2, <2>4
    <2>7. RevisionsInRange'
      BY <2>3, <2>4
    <2>8. LedgerMatchesRevision'
      BY <2>3
    <2> QED
      BY <2>5, <2>6, <2>7, <2>8
  <1>5. ASSUME NEW s \in Session, BeginEdit(s) PROVE LedgerInv'
    BY <1>0, <1>5 DEF BeginEdit
  <1>6. ASSUME NEW s \in Session, NestedEdit(s) PROVE LedgerInv'
    BY <1>0, <1>6 DEF NestedEdit
  <1>7. ASSUME NEW s \in Session, CreateLock(s) PROVE LedgerInv'
    BY <1>0, <1>7 DEF CreateLock
  <1>8. ASSUME NEW s \in Session, CreateWrite(s) PROVE LedgerInv'
    <2>1. LedgerMatchesRevision' /\ \A i \in Inode : store'[i].rev <= MaxRevision
      BY <1>8, LedgerDurable DEF CreateWrite
    <2> QED
      BY <1>0, <1>8, <2>1 DEF CreateWrite
  <1>9. ASSUME NEW s \in Session, CreateAdopt(s) PROVE LedgerInv'
    BY <1>0, <1>9 DEF CreateAdopt
  <1>10. ASSUME NEW s \in Session, CreateThrows(s) PROVE LedgerInv'
    <2>1. LedgerMatchesRevision' /\ \A i \in Inode : store'[i].rev <= MaxRevision
      <3>1. CASE pc[s] = "createWrite" /\ MakeDurable(s, handle[s], 0, Persisted(draft[s]))
        BY <3>1, LedgerDurable
      <3>2. CASE UNCHANGED <<diskVars, stale>>
        BY <3>2
      <3> QED
        BY <1>10, <3>1, <3>2 DEF CreateThrows
    <2> QED
      BY <1>0, <1>10, <2>1 DEF CreateThrows
  <1>11. ASSUME NEW s \in Session, RemoveCreated(s) PROVE LedgerInv'
    BY <1>0, <1>11 DEF RemoveCreated
  <1>12. ASSUME NEW s \in Session, Callback(s) PROVE LedgerInv'
    <2>1. PICK d \in IF kind[s] = "upgrade" THEN {[draft[s] EXCEPT !.format = "current"]}
                                            ELSE Drafts(draft[s]) :
             draft' = [draft EXCEPT ![s] = d]
      BY <1>12 DEF Callback
    <2>2. draft[s] = document[s] /\ document[s] \in Document /\ kind[s] \in {"edit", "upgrade"}
      <3>1. pc[s] = "draft"
        BY <1>12 DEF Callback
      <3>2. DraftFollows(s)
        OBVIOUS
      <3>3. draft[s] = document[s] /\ kind[s] \in {"edit", "upgrade"}
        BY ONLY <3>1, <3>2 DEF DraftFollows, EditSteps
      <3>4. document[s] \in Document
        BY <1>0
      <3> QED
        BY <3>3, <3>4
    <2>3. kind[s] = "upgrade" => /\ d.ledger = document[s].ledger
                                 /\ d.body = document[s].body
                                 /\ d.format = "current"
      BY <2>1, <2>2 DEF Document
    <2>4. kind[s] = "edit" => \/ d.ledger = document[s].ledger
                              \/ d.ledger = document[s].ledger + 1 /\ d.format = "current"
      <3> SUFFICES ASSUME kind[s] = "edit"
                   PROVE  \/ d.ledger = document[s].ledger
                          \/ d.ledger = document[s].ledger + 1 /\ d.format = "current"
        OBVIOUS
      <3>1. d \in Drafts(document[s])
        BY <2>1, <2>2
      <3> QED
        BY <2>2, <3>1 DEF Drafts, Stamped, Document
    <2>5. draft'[s] = d /\ \A t \in Session \ {s} : draft'[t] = draft[t]
      BY <1>0, <2>1
    <2>6. /\ pc[s] = "draft" /\ pc'[s] = "lock" /\ \A t \in Session \ {s} : pc'[t] = pc[t]
          /\ UNCHANGED <<store, document, revision, kind>>
      BY <1>0, <1>12 DEF Callback
    <2>7. DraftFollowsDocument'
      <3> SUFFICES ASSUME NEW t \in Session PROVE DraftFollows(t)'
        OBVIOUS
      <3>1. CASE t = s
        BY <2>2, <2>3, <2>4, <2>5, <2>6, <3>1
      <3>2. CASE t # s
        BY <2>5, <2>6, <3>2
      <3> QED
        BY <3>1, <3>2
    <2>8. CreatedUnstamped'
      BY <2>5, <2>6
    <2>9. RevisionsInRange' /\ LedgerMatchesRevision'
      BY <2>6
    <2> QED
      BY <2>7, <2>8, <2>9
  <1>13. ASSUME NEW s \in Session, CallbackRejects(s) PROVE LedgerInv'
    BY <1>0, <1>13 DEF CallbackRejects
  <1>14. ASSUME NEW s \in Session, EncodeFails(s) PROVE LedgerInv'
    BY <1>0, <1>14 DEF EncodeFails
  <1>15. ASSUME NEW s \in Session, AcquireSource(s) PROVE LedgerInv'
    BY <1>0, <1>15 DEF AcquireSource
  <1>16. ASSUME NEW s \in Session, BeginImmediate(s) PROVE LedgerInv'
    BY <1>0, <1>16 DEF BeginImmediate
  <1>17. ASSUME NEW s \in Session, BeginFails(s) PROVE LedgerInv'
    BY <1>0, <1>17 DEF BeginFails
  <1>18. ASSUME NEW s \in Session, CheckOwnership(s) PROVE LedgerInv'
    BY <1>0, <1>18 DEF CheckOwnership
  <1>19. ASSUME NEW s \in Session, Conflict(s) PROVE LedgerInv'
    BY <1>0, <1>19 DEF Conflict
  <1>20. ASSUME NEW s \in Session, WriteNothing(s) PROVE LedgerInv'
    BY <1>0, <1>20 DEF WriteNothing
  <1>21. ASSUME NEW s \in Session, WriteRecords(s) PROVE LedgerInv'
    <2>1. /\ IsOpen(s) /\ ~stale[s] /\ Disk(s).rev = revision[s]
      BY <1>0, <1>21 DEF WriteRecords, SafetyInv, CheckedStaysChecked, IsOpen
    <2>2. Disk(s).doc = Persisted(document[s])
      BY <2>1 DEF SafetyInv, FreshSessionSeesTheDisk
    <2>3. document[s] \in Document /\ draft[s] \in Document /\ kind[s] \in {"edit", "upgrade"}
      BY <1>0, <1>21 DEF WriteRecords
    <2>4. kind[s] = "upgrade" => document[s].format = "old"
      BY <1>21, <2>2, <2>3 DEF WriteRecords, Persisted, Document, Format
    <2>5. draft'[s] = IF kind[s] = "edit" /\ draft[s].ledger = document[s].ledger
                      THEN Stamped(draft[s]) ELSE draft[s]
      BY <1>0, <1>21 DEF WriteRecords
    <2>6. kind[s] = "edit" => /\ draft'[s].ledger = document[s].ledger + 1
                              /\ draft'[s].format = "current"
      BY <1>21, <2>5 DEF WriteRecords, Stamped
    <2>7. /\ pc[s] = "write" /\ pc'[s] = "commit" /\ revision[s] # MaxRevision
          /\ \A t \in Session \ {s} : pc'[t] = pc[t] /\ draft'[t] = draft[t]
          /\ UNCHANGED <<store, document, revision, kind>>
      BY <1>0, <1>21 DEF WriteRecords
    <2>8. kind[s] = "upgrade" => draft'[s] = draft[s]
      BY <2>5
    <2> QED
      BY <2>3, <2>4, <2>6, <2>7, <2>8
  <1>22. ASSUME NEW s \in Session, RevisionExhausted(s) PROVE LedgerInv'
    BY <1>0, <1>22 DEF RevisionExhausted
  <1>23. ASSUME NEW s \in Session, WriteFails(s) PROVE LedgerInv'
    BY <1>0, <1>23 DEF WriteFails
  <1>24. ASSUME NEW s \in Session, AllocationFails(s) PROVE LedgerInv'
    BY <1>0, <1>24 DEF AllocationFails
  <1>25. ASSUME NEW s \in Session, Commit(s) PROVE LedgerInv'
    <2>1. LedgerMatchesRevision' /\ \A i \in Inode : store'[i].rev <= MaxRevision
      <3>1. Disk(s).rev \in Nat
        BY <1>0, <1>25 DEF Commit, Disk, Stored
      <3>2. MakeDurable(s, handle[s], Disk(s).rev + 1, Persisted(draft[s])) /\ pc[s] = "commit"
        BY <1>25 DEF Commit
      <3> QED
        BY ONLY SafetyInv, LedgerInv, <3>1, <3>2, LedgerDurable
    <2> QED
      BY <1>0, <1>25, <2>1 DEF Commit
  <1>26. ASSUME NEW s \in Session, CommitFails(s) PROVE LedgerInv'
    <2>1. LedgerMatchesRevision' /\ \A i \in Inode : store'[i].rev <= MaxRevision
      <3>1. CASE UNCHANGED <<diskVars, stale, landed>>
        BY <3>1
      <3>2. CASE MakeDurable(s, handle[s], Disk(s).rev + 1, Persisted(draft[s]))
        <4>1. Disk(s).rev \in Nat
          BY <1>0, <1>26 DEF CommitFails, Disk, Stored
        <4> QED
          BY <1>26, <3>2, <4>1, LedgerDurable DEF CommitFails
      <3> QED
        BY <1>26, <3>1, <3>2 DEF CommitFails
    <2> QED
      BY <1>0, <1>26, <2>1 DEF CommitFails
  <1>27. ASSUME NEW s \in Session, AdoptCommit(s) PROVE LedgerInv'
    BY <1>0, <1>27 DEF AdoptCommit
  <1>28. ASSUME NEW s \in Session, Detach(s) PROVE LedgerInv'
    BY <1>0, <1>28 DEF Detach
  <1>29. ASSUME NEW s \in Session, StayAttached(s) PROVE LedgerInv'
    BY <1>0, <1>29 DEF StayAttached
  <1>30. ASSUME NEW s \in Session, Notify(s) PROVE LedgerInv'
    BY <1>0, <1>30 DEF Notify
  <1>31. ASSUME NEW s \in Session, NotifyThrows(s) PROVE LedgerInv'
    BY <1>0, <1>31 DEF NotifyThrows
  <1>32. ASSUME NEW p \in Process, WorkerTakes(p) PROVE LedgerInv'
    BY <1>0, <1>32 DEF WorkerTakes
  <1>33. ASSUME NEW p \in Process, WorkerLocks(p) PROVE LedgerInv'
    BY <1>0, <1>33 DEF WorkerLocks
  <1>34. ASSUME NEW p \in Process, WorkerGivesUp(p) PROVE LedgerInv'
    BY <1>0, <1>34 DEF WorkerGivesUp
  <1>35. ASSUME NEW p \in Process, WorkerReads(p) PROVE LedgerInv'
    BY <1>0, <1>35 DEF WorkerReads
  <1>40. ASSUME NEW p \in Process, WorkerFails(p) PROVE LedgerInv'
    BY <1>0, <1>40 DEF WorkerFails
  <1>36. ASSUME NEW p \in Process, Crash(p) PROVE LedgerInv'
    BY <1>0, <1>36 DEF Crash
  <1>37. CASE ForeignWrite
    <2>1. PICK i \in Inode, b \in Body :
             store' = [store EXCEPT ![i].doc = [store[i].doc EXCEPT !.body = b]]
      BY ONLY <1>37 DEF ForeignWrite
    <2>2. \A j \in Inode : /\ store'[j].phase = store[j].phase
                           /\ store'[j].rev = store[j].rev
                           /\ store'[j].doc.ledger = store[j].doc.ledger
                           /\ store'[j].doc.format = store[j].doc.format
      <3>1. store \in [Inode -> Stored]
        BY <1>0
      <3> QED
        BY ONLY <2>1, <3>1 DEF Stored, Content
    <2>3. UNCHANGED <<document, revision, pc, kind, draft>>
      BY <1>37 DEF ForeignWrite
    <2> QED
      BY <2>2, <2>3
  <1>38. CASE RemovePath
    BY <1>0, <1>38 DEF RemovePath
  <1>39. CASE UNCHANGED vars
    BY <1>0, <1>39
  <1> QED
        BY <1>1, <1>2, <1>3, <1>4, <1>5, <1>6, <1>7, <1>8, <1>9, <1>10, <1>11, <1>12,
       <1>13, <1>14, <1>15, <1>16, <1>17, <1>18, <1>19, <1>20, <1>21, <1>22, <1>23, <1>24,
       <1>25, <1>26, <1>27, <1>28, <1>29, <1>30, <1>31, <1>32, <1>33, <1>34, <1>35, <1>36,
       <1>37, <1>38, <1>39, <1>40
       DEF Next, Call, Step, WorkerStep

(* The authorship ledger and the revision stay in step whatever fails: each  *)
(* changing edit is entered exactly once, an upgrade never, and a file in an *)
(* old format has not been changed since it was created.                     *)
THEOREM LedgerCorrect == Spec => []LedgerMatchesRevision
  <1>1. LedgerInv => LedgerMatchesRevision
    BY DEF LedgerInv
  <1> QED
    BY <1>1, LedgerInit, LedgerStep, SafetyInvariant, PTL DEF Spec
-----------------------------------------------------------------------------
(* No call has written anything before the first one. *)
LEMMA LandedInit == Init => LandedIsKnown
  BY DEF Init, LandedIsKnown, LandedKnown

(* A file with a canvas never goes back to an older revision. *)
LEMMA RevisionsGrow ==
    ASSUME SafetyInv, NEW s \in Session, NEW r \in Nat,
           MakeDurable(s, handle[s], r, Persisted(draft[s])),
           \/ pc[s] = "createWrite" /\ r = 0
           \/ pc[s] = "commit" /\ r = Disk(s).rev + 1
    PROVE  /\ \A i \in Inode : store[i].phase = "canvas" => store'[i].rev >= store[i].rev
           /\ pc[s] = "commit" => store'[handle[s]].rev > revision[s]
  <1>1. handle[s] \in Inode /\ \A j \in Inode : store[j].rev \in Nat
    BY DEF SafetyInv, TypeInv, TypeOK, RunningCallHasFile, Stored
  <1>2. /\ store'[handle[s]].rev = r
        /\ \A j \in Inode \ {handle[s]} : store'[j] = store[j]
    BY <1>1 DEF MakeDurable, SafetyInv, TypeInv, TypeOK
  <1>3. pc[s] = "createWrite" => store[handle[s]].phase = "blank"
    BY DEF SafetyInv, BlankUntilCreated, Disk
  <1>4. pc[s] = "commit" => store[handle[s]].rev = revision[s]
    BY DEF SafetyInv, CheckedStaysChecked, Disk
  <1> QED
    BY <1>1, <1>2, <1>3, <1>4 DEF Disk

(* A call that has to verify its outcome works on a file with a canvas.      *)
LEMMA VerifiedIsCanvas ==
    ASSUME SafetyInv, NEW s \in Session, pc[s] = "verify"
    PROVE  handle[s] \in Inode /\ store[handle[s]].phase = "canvas" /\ revision[s] \in Nat
  BY ConstantsAssumption
     DEF SafetyInv, TypeInv, TypeOK, RunningCallHasFile, BlankUntilCreated, Disk

(* What a session knows of its own transaction, another one does not change. *)
LEMMA LandedElsewhere ==
    ASSUME SafetyInv, TypeInv', LandedIsKnown, NEW t \in Session,
           \A i \in Inode : store[i].phase = "canvas" => store'[i].rev >= store[i].rev,
           handle'[t] = handle[t], revision'[t] = revision[t], result'[t] = result[t],
           pc'[t] = pc[t], landed'[t] = landed[t]
    PROVE  LandedKnown(t)'
  <1>1. \A i \in Inode : store[i].rev \in Nat /\ store'[i].rev \in Nat
    BY DEF SafetyInv, TypeInv, TypeOK, Stored
  <1>2. LandedKnown(t)
    BY DEF LandedIsKnown
  <1>3. CASE pc[t] = "verify"
    BY <1>1, <1>2, <1>3, VerifiedIsCanvas DEF LandedKnown, Disk
  <1>4. CASE pc[t] # "verify"
    BY <1>2, <1>4 DEF LandedKnown
  <1> QED
    BY <1>3, <1>4

(* Every step but a presentation that throws keeps it. *)
LEMMA LandedStep ==
    ASSUME "notify" \notin Faults
    PROVE  SafetyInv /\ LandedIsKnown /\ [Next]_vars => LandedIsKnown'
  <1> SUFFICES ASSUME SafetyInv, LandedIsKnown, [Next]_vars PROVE LandedIsKnown'
    OBVIOUS
  <1>0. TypeInv /\ TypeInv'
    BY TypeStep DEF SafetyInv
  <1> USE ConstantsAssumption
      DEF LandedIsKnown, LandedKnown, TypeInv, TypeOK, RunningCallHasFile, EditSteps,
          CreateSteps, Disk, vars, diskVars, lockVars, transaction, sessionVars, callVars, viewVars,
          Goto, Fail, Return, ReleaseSource, EndTransaction
  <1>1. ASSUME NEW s \in Session, RefuseCall(s) PROVE LandedIsKnown'
    BY <1>0, <1>1 DEF RefuseCall
  <1>2. ASSUME NEW s \in Session, Open(s) PROVE LandedIsKnown'
    BY <1>0, <1>2 DEF Open
  <1>3. ASSUME NEW s \in Session, Close(s) PROVE LandedIsKnown'
    BY <1>0, <1>3 DEF Close
  <1>4. ASSUME NEW s \in Session, CreateFile(s) PROVE LandedIsKnown'
    <2>1. \A i \in Inode : store'[i].rev = store[i].rev
      BY <1>0, <1>4 DEF CreateFile, Stored
    <2> QED
      BY <1>0, <1>4, <2>1 DEF CreateFile
  <1>5. ASSUME NEW s \in Session, BeginEdit(s) PROVE LandedIsKnown'
    BY <1>0, <1>5 DEF BeginEdit
  <1>6. ASSUME NEW s \in Session, NestedEdit(s) PROVE LandedIsKnown'
    BY <1>0, <1>6 DEF NestedEdit
  <1>7. ASSUME NEW s \in Session, CreateLock(s) PROVE LandedIsKnown'
    BY <1>0, <1>7 DEF CreateLock
  <1>8. ASSUME NEW s \in Session, CreateWrite(s) PROVE LandedIsKnown'
    <2>1. \A i \in Inode : store[i].phase = "canvas" => store'[i].rev >= store[i].rev
      BY <1>8, RevisionsGrow DEF CreateWrite
    <2>2. \A t \in Session \ {s} : LandedKnown(t)'
      <3> SUFFICES ASSUME NEW t \in Session \ {s} PROVE LandedKnown(t)'
        OBVIOUS
      <3>1. /\ handle'[t] = handle[t] /\ revision'[t] = revision[t]
           /\ result'[t] = result[t] /\ pc'[t] = pc[t] /\ landed'[t] = landed[t]
        BY <1>0, <1>8 DEF CreateWrite
      <3> QED
        BY ONLY SafetyInv, <1>0, LandedIsKnown, t \in Session, <2>1, <3>1, LandedElsewhere
    <2> QED
      BY <1>0, <1>8, <2>2 DEF CreateWrite
  <1>9. ASSUME NEW s \in Session, CreateAdopt(s) PROVE LandedIsKnown'
    BY <1>0, <1>9 DEF CreateAdopt
  <1>10. ASSUME NEW s \in Session, CreateThrows(s) PROVE LandedIsKnown'
    <2>1. \A i \in Inode : store[i].phase = "canvas" => store'[i].rev >= store[i].rev
      <3>1. CASE pc[s] = "createWrite" /\ MakeDurable(s, handle[s], 0, Persisted(draft[s]))
        BY <3>1, RevisionsGrow
      <3>2. CASE UNCHANGED <<diskVars, stale>>
        BY <1>0, <3>2 DEF Stored
      <3> QED
        BY <1>10, <3>1, <3>2 DEF CreateThrows
    <2>2. \A t \in Session \ {s} : LandedKnown(t)'
      <3> SUFFICES ASSUME NEW t \in Session \ {s} PROVE LandedKnown(t)'
        OBVIOUS
      <3>1. /\ handle'[t] = handle[t] /\ revision'[t] = revision[t]
           /\ result'[t] = result[t] /\ pc'[t] = pc[t] /\ landed'[t] = landed[t]
        BY <1>0, <1>10 DEF CreateThrows
      <3> QED
        BY ONLY SafetyInv, <1>0, LandedIsKnown, t \in Session, <2>1, <3>1, LandedElsewhere
    <2> QED
      BY <1>0, <1>10, <2>2 DEF CreateThrows
  <1>11. ASSUME NEW s \in Session, RemoveCreated(s) PROVE LandedIsKnown'
    BY <1>0, <1>11 DEF RemoveCreated
  <1>12. ASSUME NEW s \in Session, Callback(s) PROVE LandedIsKnown'
    BY <1>0, <1>12 DEF Callback
  <1>13. ASSUME NEW s \in Session, CallbackRejects(s) PROVE LandedIsKnown'
    BY <1>0, <1>13 DEF CallbackRejects
  <1>14. ASSUME NEW s \in Session, EncodeFails(s) PROVE LandedIsKnown'
    BY <1>0, <1>14 DEF EncodeFails
  <1>15. ASSUME NEW s \in Session, AcquireSource(s) PROVE LandedIsKnown'
    BY <1>0, <1>15 DEF AcquireSource
  <1>16. ASSUME NEW s \in Session, BeginImmediate(s) PROVE LandedIsKnown'
    BY <1>0, <1>16 DEF BeginImmediate
  <1>17. ASSUME NEW s \in Session, BeginFails(s) PROVE LandedIsKnown'
    BY <1>0, <1>17 DEF BeginFails
  <1>18. ASSUME NEW s \in Session, CheckOwnership(s) PROVE LandedIsKnown'
    BY <1>0, <1>18 DEF CheckOwnership
  <1>19. ASSUME NEW s \in Session, Conflict(s) PROVE LandedIsKnown'
    BY <1>0, <1>19 DEF Conflict
  <1>20. ASSUME NEW s \in Session, WriteNothing(s) PROVE LandedIsKnown'
    BY <1>0, <1>20 DEF WriteNothing
  <1>21. ASSUME NEW s \in Session, WriteRecords(s) PROVE LandedIsKnown'
    BY <1>0, <1>21 DEF WriteRecords
  <1>22. ASSUME NEW s \in Session, RevisionExhausted(s) PROVE LandedIsKnown'
    BY <1>0, <1>22 DEF RevisionExhausted
  <1>23. ASSUME NEW s \in Session, WriteFails(s) PROVE LandedIsKnown'
    BY <1>0, <1>23 DEF WriteFails
  <1>24. ASSUME NEW s \in Session, AllocationFails(s) PROVE LandedIsKnown'
    BY <1>0, <1>24 DEF AllocationFails
  <1>25. ASSUME NEW s \in Session, Commit(s) PROVE LandedIsKnown'
    <2>1. Disk(s).rev \in Nat
      BY <1>0, <1>25 DEF Commit, Stored
    <2>2. \A i \in Inode : store[i].phase = "canvas" => store'[i].rev >= store[i].rev
      <3>1. MakeDurable(s, handle[s], Disk(s).rev + 1, Persisted(draft[s])) /\ pc[s] = "commit"
        BY <1>25 DEF Commit
      <3> QED
        BY ONLY SafetyInv, <2>1, <3>1, RevisionsGrow
    <2>3. \A t \in Session \ {s} : LandedKnown(t)'
      <3> SUFFICES ASSUME NEW t \in Session \ {s} PROVE LandedKnown(t)'
        OBVIOUS
      <3>1. /\ handle'[t] = handle[t] /\ revision'[t] = revision[t]
           /\ result'[t] = result[t] /\ pc'[t] = pc[t] /\ landed'[t] = landed[t]
        BY <1>0, <1>25 DEF Commit
      <3> QED
        BY ONLY SafetyInv, <1>0, LandedIsKnown, t \in Session, <2>2, <3>1, LandedElsewhere
    <2> QED
      BY <1>0, <1>25, <2>3 DEF Commit
  <1>26. ASSUME NEW s \in Session, CommitFails(s) PROVE LandedIsKnown'
    <2>1. Disk(s).rev \in Nat /\ pc[s] = "commit"
      BY <1>0, <1>26 DEF CommitFails, Stored
    <2>2. CASE UNCHANGED <<diskVars, stale, landed>>
      BY <1>0, <1>26, <2>2 DEF CommitFails
    <2>3. CASE /\ MakeDurable(s, handle[s], Disk(s).rev + 1, Persisted(draft[s]))
               /\ landed' = [landed EXCEPT ![s] = TRUE]
      <3>1. /\ \A i \in Inode : store[i].phase = "canvas" => store'[i].rev >= store[i].rev
            /\ store'[handle[s]].rev > revision[s]
        BY <2>1, <2>3, RevisionsGrow, SMTT(30)
      <3>2. \A t \in Session \ {s} : LandedKnown(t)'
        <4> SUFFICES ASSUME NEW t \in Session \ {s} PROVE LandedKnown(t)'
          OBVIOUS
        <4>1. /\ handle'[t] = handle[t] /\ revision'[t] = revision[t]
             /\ result'[t] = result[t] /\ pc'[t] = pc[t] /\ landed'[t] = landed[t]
          BY <1>0, <1>26, <2>3 DEF CommitFails
        <4> QED
          BY ONLY SafetyInv, <1>0, LandedIsKnown, t \in Session, <2>3, <3>1, <4>1, LandedElsewhere
      <3> QED
        BY <1>0, <1>26, <2>3, <3>1, <3>2 DEF CommitFails
    <2> QED
      BY <1>26, <2>2, <2>3 DEF CommitFails
  <1>27. ASSUME NEW s \in Session, AdoptCommit(s) PROVE LandedIsKnown'
    BY <1>0, <1>27 DEF AdoptCommit
  <1>28. ASSUME NEW s \in Session, Detach(s) PROVE LandedIsKnown'
    BY <1>0, <1>28 DEF Detach
  <1>29. ASSUME NEW s \in Session, StayAttached(s) PROVE LandedIsKnown'
    BY <1>0, <1>29 DEF StayAttached
  <1>30. ASSUME NEW s \in Session, Notify(s) PROVE LandedIsKnown'
    BY <1>0, <1>30 DEF Notify
  <1>31. ASSUME NEW s \in Session, NotifyThrows(s) PROVE LandedIsKnown'
    BY <1>0, <1>31 DEF NotifyThrows
  <1>32. ASSUME NEW p \in Process, WorkerTakes(p) PROVE LandedIsKnown'
    BY <1>0, <1>32 DEF WorkerTakes
  <1>33. ASSUME NEW p \in Process, WorkerLocks(p) PROVE LandedIsKnown'
    BY <1>0, <1>33 DEF WorkerLocks
  <1>34. ASSUME NEW p \in Process, WorkerGivesUp(p) PROVE LandedIsKnown'
    BY <1>0, <1>34 DEF WorkerGivesUp
  <1>35. ASSUME NEW p \in Process, WorkerReads(p) PROVE LandedIsKnown'
    BY <1>0, <1>35 DEF WorkerReads
  <1>40. ASSUME NEW p \in Process, WorkerFails(p) PROVE LandedIsKnown'
    BY <1>0, <1>40 DEF WorkerFails
  <1>36. ASSUME NEW p \in Process, Crash(p) PROVE LandedIsKnown'
    BY <1>0, <1>36 DEF Crash
  <1>37. CASE ForeignWrite
    <2>1. \A j \in Inode : store'[j].rev = store[j].rev
      BY <1>0, <1>37 DEF ForeignWrite, Stored
    <2>2. UNCHANGED <<handle, revision, result, pc, landed>>
      BY <1>37 DEF ForeignWrite
    <2> QED
      BY <1>0, <2>1, <2>2
  <1>38. CASE RemovePath
    BY <1>0, <1>38 DEF RemovePath
  <1>39. CASE UNCHANGED vars
    BY <1>0, <1>39
  <1> QED
        BY <1>1, <1>2, <1>3, <1>4, <1>5, <1>6, <1>7, <1>8, <1>9, <1>10, <1>11, <1>12,
       <1>13, <1>14, <1>15, <1>16, <1>17, <1>18, <1>19, <1>20, <1>21, <1>22, <1>23, <1>24,
       <1>25, <1>26, <1>27, <1>28, <1>29, <1>30, <1>31, <1>32, <1>33, <1>34, <1>35, <1>36,
       <1>37, <1>38, <1>39, <1>40
       DEF Next, Call, Step, WorkerStep

(* Unless a presentation fails to be queued, a call that reports failure on  *)
(* an open session has written nothing: neither a COMMIT whose outcome is    *)
(* lost nor a transaction that cannot be rolled back is reported that way.   *)
THEOREM FailedCallCorrect ==
    ASSUME "notify" \notin Faults
    PROVE  Spec => []FailedCallLeavesNoTrace
  <1>1. LandedIsKnown => FailedCallLeavesNoTrace
    BY DEF LandedIsKnown, LandedKnown, FailedCallLeavesNoTrace, IsOpen
  <1> QED
    BY <1>1, LandedInit, LandedStep, SafetyInvariant, PTL DEF Spec
-----------------------------------------------------------------------------
(* The register starts empty. *)
LEMMA RegisterInit == Init => Register!Init
  <1> SUFFICES ASSUME Init PROVE Register!Init
    OBVIOUS
  <1>1. \A i \in Inode : Held(i) = NoFile
    BY DEF Init, Held, Unused
  <1>2. \A s \in Session : WorkedOn(s) = NoFile
    BY DEF Init, WorkedOn, IsOpen
  <1> QED
    BY <1>1, <1>2 DEF Register!Init

(* A session that keeps its document, file and place works on what it did.   *)
LEMMA SameView ==
    ASSUME NEW t \in Session,
           handle'[t] = handle[t], revision'[t] = revision[t], document'[t] = document[t],
           draft'[t] = draft[t], pc'[t] = pc[t]
    PROVE  WorkedOn(t)' = WorkedOn(t)
  BY DEF WorkedOn, IsOpen, Persisted

(* Where no file changes and no session turns to another version, the        *)
(* register stutters or its sessions let go.                                 *)
LEMMA RegisterDrops ==
    ASSUME \A i \in Inode : Held(i)' = Held(i),
           \A t \in Session : WorkedOn(t)' = WorkedOn(t) \/ WorkedOn(t)' = NoFile
    PROVE  Register!Next
  <1> DEFINE gone == {t \in Session : WorkedOn(t)' = NoFile}
  <1>1. [t \in Session |-> WorkedOn(t)]' =
            [t \in Session |-> IF t \in gone THEN NoFile ELSE [u \in Session |-> WorkedOn(u)][t]]
    OBVIOUS
  <1>2. [i \in Inode |-> Held(i)]' = [i \in Inode |-> Held(i)]
    OBVIOUS
  <1>3. gone \in SUBSET Session
    OBVIOUS
  <1>4. Register!Drop
    BY <1>1, <1>2, <1>3 DEF Register!Drop
  <1> QED
    BY <1>4 DEF Register!Next

(* The same, where only one session moves.                                   *)
LEMMA SessionMoves ==
    ASSUME NEW s \in Session,
           \A i \in Inode : Held(i)' = Held(i),
           \A t \in Session \ {s} :
               /\ handle'[t] = handle[t] /\ revision'[t] = revision[t]
               /\ document'[t] = document[t] /\ draft'[t] = draft[t] /\ pc'[t] = pc[t],
           WorkedOn(s)' = WorkedOn(s) \/ WorkedOn(s)' = NoFile
    PROVE  Register!Next
  <1>1. \A t \in Session \ {s} : WorkedOn(t)' = WorkedOn(t)
    BY SameView
  <1> QED
    BY <1>1, RegisterDrops

(* A transaction that landed replaces one version in the register.           *)
LEMMA HeldAfter ==
    ASSUME TypeInv, NEW s \in Session, NEW i \in Inode, NEW r, NEW c,
           MakeDurable(s, i, r, c)
    PROVE  [j \in Inode |-> Held(j)]' =
               [[j \in Inode |-> Held(j)] EXCEPT ![i] = [rev |-> r, doc |-> c]]
  <1>1. /\ store'[i] = [phase |-> "canvas", rev |-> r, doc |-> c]
        /\ \A j \in Inode \ {i} : store'[j] = store[j]
    BY DEF MakeDurable, TypeInv, TypeOK
  <1>2. /\ Held(i)' = [rev |-> r, doc |-> c]
        /\ \A j \in Inode \ {i} : Held(j)' = Held(j)
    BY <1>1 DEF Held
  <1> QED
    BY <1>2

(* A content whose ledger keeps step with a revision in range is one of the  *)
(* register's.                                                               *)
LEMMA ContentInRange ==
    ASSUME NEW c \in Content, NEW r \in Nat, r <= MaxRevision, c.ledger \in {r, r - 1}
    PROVE  c \in [format : Format, body : Body, ledger : 0 .. MaxRevision]
  <1>1. c.ledger \in 0 .. MaxRevision
    BY ConstantsAssumption DEF Content
  <1> QED
    BY <1>1 DEF Content

(* So is what a transaction makes durable.                                   *)
LEMMA DurableContent ==
    ASSUME TypeInv, TypeInv', LedgerInv', NEW s \in Session, NEW i \in Inode, NEW r, NEW c,
           MakeDurable(s, i, r, c)
    PROVE  c \in [format : Format, body : Body, ledger : 0 .. MaxRevision]
  <1>1. store'[i] = [phase |-> "canvas", rev |-> r, doc |-> c]
    BY DEF MakeDurable, TypeInv, TypeOK
  <1>2. r \in Nat /\ c \in Content
    BY <1>1 DEF TypeInv, TypeOK, Stored
  <1>3. r <= MaxRevision /\ c.ledger \in {r, r - 1}
    BY <1>1 DEF LedgerInv, LedgerMatchesRevision, RevisionsInRange
  <1> QED
    BY <1>2, <1>3, ContentInRange

(* create() publishes revision 0, adopted or not.                            *)
LEMMA CreateMaps ==
    ASSUME SafetyInv, LedgerInv', TypeInv', NEW s \in Session, pc[s] = "createWrite",
           MakeDurable(s, handle[s], 0, Persisted(draft[s])),
           UNCHANGED <<handle, document, revision, draft>>,
           \A t \in Session \ {s} : pc'[t] = pc[t],
           pc'[s] \in {"createAdopt", "createUndo"}
    PROVE  Register!Next
  <1> DEFINE i == handle[s]
             c == Persisted(draft[s])
             v == WorkedOn(s)'
  <1>1. i \in Inode /\ TypeInv
    BY DEF SafetyInv, TypeInv, TypeOK, RunningCallHasFile
  <1>2. c \in [format : Format, body : Body, ledger : 0 .. MaxRevision]
    BY <1>1, DurableContent
  <1>3. [j \in Inode |-> Held(j)][i] = NoFile
    BY <1>1 DEF SafetyInv, BlankUntilCreated, Disk, Held
  <1>4. [j \in Inode |-> Held(j)]' =
            [[j \in Inode |-> Held(j)] EXCEPT ![i] = Register!Version(0, c)]
    BY <1>1, HeldAfter DEF Register!Version
  <1>5. v \in {[t \in Session |-> WorkedOn(t)][s], Register!View(i, Register!Version(0, c))}
    BY DEF WorkedOn, IsOpen, CreateSteps, Persisted, Register!View, Register!Version
  <1>6. \A t \in Session \ {s} : WorkedOn(t)' = WorkedOn(t)
    BY SameView
  <1>7. [t \in Session |-> WorkedOn(t)]' =
            [[t \in Session |-> WorkedOn(t)] EXCEPT ![s] = v]
    BY <1>6
  <1> HIDE DEF i, c, v
  <1>8. \E w \in {[t \in Session |-> WorkedOn(t)][s], Register!View(i, Register!Version(0, c))} :
            [t \in Session |-> WorkedOn(t)]' =
                [[t \in Session |-> WorkedOn(t)] EXCEPT ![s] = w]
    BY ONLY <1>5, <1>7, Zenon
  <1>9. Register!Publish(s)
    BY ONLY <1>1, <1>2, <1>3, <1>4, <1>8, Zenon DEF Register!Publish
  <1> QED
    BY <1>9 DEF Register!Next

(* A commit replaces the version its session works on and nothing newer,     *)
(* whether or not the session learns of it.                                  *)
LEMMA CommitMaps ==
    ASSUME SafetyInv, LedgerInv', TypeInv', NEW s \in Session, pc[s] = "commit",
           MakeDurable(s, handle[s], Disk(s).rev + 1, Persisted(draft[s])),
           UNCHANGED <<handle, document, revision, draft>>,
           \A t \in Session \ {s} : pc'[t] = pc[t],
           pc'[s] \in {"adopt", "verify"}
    PROVE  Register!Next
  <1> DEFINE i == handle[s]
             c == Persisted(draft[s])
             r == revision[s]
             v == WorkedOn(s)'
             w == [t \in Session |-> WorkedOn(t)][s]
             d == [j \in Inode |-> Held(j)][i]
  <1>1. i \in Inode /\ TypeInv /\ IsOpen(s) /\ r \in Nat /\ document[s] \in Document
    BY ConstantsAssumption
       DEF SafetyInv, TypeInv, TypeOK, RunningCallHasFile, IsOpen, CreateSteps
  <1>2. c \in [format : Format, body : Body, ledger : 0 .. MaxRevision]
    BY <1>1, DurableContent
  <1>3. /\ Disk(s).phase = "canvas" /\ ~stale[s] /\ Disk(s).rev = r
        /\ Disk(s).doc = Persisted(document[s])
    BY <1>1
       DEF SafetyInv, BlankUntilCreated, CheckedStaysChecked, FreshSessionSeesTheDisk,
           IsOpen
  <1>4. d = [rev |-> r, doc |-> Persisted(document[s])]
    BY <1>1, <1>3 DEF Held, Disk
  <1>5. w = [file |-> i, rev |-> r, doc |-> Persisted(document[s])]
    BY <1>1 DEF WorkedOn
  <1>6. w # NoFile /\ w.file = i /\ w.rev = r
    <2>1. w \in [file : Inode, rev : Nat, doc : Content]
      BY <1>1, <1>5, PersistedType
    <2> QED
      BY <1>5, <2>1, NoVersionAssumption
  <1>7. w = Register!View(i, d)
    BY <1>4, <1>5 DEF Register!View
  <1>8. [j \in Inode |-> Held(j)]' =
            [[j \in Inode |-> Held(j)] EXCEPT ![w.file] = Register!Version(w.rev + 1, c)]
    <2>1. MakeDurable(s, i, r + 1, c)
      BY <1>3
    <2> QED
      BY <1>1, <1>6, <2>1, HeldAfter DEF Register!Version
  <1>9. v \in {w, Register!View(w.file, Register!Version(w.rev + 1, c))}
    <2>1. CASE pc'[s] = "adopt"
      BY <1>6, <2>1 DEF WorkedOn, Persisted, Register!View, Register!Version
    <2>2. CASE pc'[s] = "verify"
      BY <1>1, <1>5, <2>2 DEF WorkedOn, IsOpen, CreateSteps, Persisted
    <2> QED
      BY <2>1, <2>2
  <1>10. \A t \in Session \ {s} : WorkedOn(t)' = WorkedOn(t)
    BY SameView
  <1>11. [t \in Session |-> WorkedOn(t)]' =
            [[t \in Session |-> WorkedOn(t)] EXCEPT ![s] = v]
    BY <1>10
  <1>12. w = Register!View(w.file, [j \in Inode |-> Held(j)][w.file])
    BY <1>6, <1>7
  <1> HIDE DEF v
  <1>13. \E u \in {w, Register!View(w.file, Register!Version(w.rev + 1, c))} :
            [t \in Session |-> WorkedOn(t)]' =
                [[t \in Session |-> WorkedOn(t)] EXCEPT ![s] = u]
    BY ONLY <1>9, <1>11, Zenon
  <1> HIDE DEF c
  <1>14. Register!Change(s)
    BY ONLY <1>2, <1>6, <1>8, <1>12, <1>13, Zenon DEF Register!Change
  <1> QED
    BY <1>14 DEF Register!Next

(* open() loads what the file holds.                                         *)
LEMMA OpenMaps ==
    ASSUME SafetyInv, NEW s \in Session, Open(s)
    PROVE  Register!Next
  <1> DEFINE v == WorkedOn(s)'
  <1>1. /\ at \in Inode /\ at # NoFile /\ store[at].phase = "canvas"
        /\ store[at].rev \in Nat /\ store[at].doc \in Content
    BY ConstantsAssumption DEF SafetyInv, TypeInv, TypeOK, Open, Stored
  <1>2. /\ handle'[s] = at /\ revision'[s] = store[at].rev /\ pc'[s] = "idle"
        /\ document'[s] = Decoded(store[at].doc)
        /\ UNCHANGED <<store, pc, draft>>
        /\ \A t \in Session \ {s} : /\ handle'[t] = handle[t] /\ revision'[t] = revision[t]
                                    /\ document'[t] = document[t]
    BY DEF Open, SafetyInv, TypeInv, TypeOK, diskVars
  <1>3. Persisted(document'[s]) = store[at].doc
    BY <1>1, <1>2 DEF Decoded, Persisted, Content
  <1>4. v = [file |-> at, rev |-> store[at].rev, doc |-> store[at].doc]
    BY <1>1, <1>2, <1>3 DEF WorkedOn, IsOpen, CreateSteps, Persisted
  <1>5. [j \in Inode |-> Held(j)][at] = [rev |-> store[at].rev, doc |-> store[at].doc]
    BY <1>1 DEF Held
  <1>6. [j \in Inode |-> Held(j)][at] # NoFile
    BY <1>1, <1>5, NoVersionAssumption
  <1>7. v = Register!View(at, [j \in Inode |-> Held(j)][at])
    BY <1>4, <1>5 DEF Register!View
  <1>8. [j \in Inode |-> Held(j)]' = [j \in Inode |-> Held(j)]
    BY <1>2 DEF Held
  <1>9. \A t \in Session \ {s} : WorkedOn(t)' = WorkedOn(t)
    BY <1>2, SameView
  <1>10. [t \in Session |-> WorkedOn(t)]' =
            [[t \in Session |-> WorkedOn(t)] EXCEPT ![s] = v]
    BY <1>9
  <1> HIDE DEF v
  <1>11. [t \in Session |-> WorkedOn(t)]' =
            [[t \in Session |-> WorkedOn(t)] EXCEPT
                ![s] = Register!View(at, [j \in Inode |-> Held(j)][at])]
    BY ONLY <1>7, <1>10, Zenon
  <1>12. Register!Load(s)
    BY ONLY <1>1, <1>6, <1>8, <1>11, Zenon DEF Register!Load
  <1> QED
    BY <1>12 DEF Register!Next

(* A tool that is no session rewrites a document under its revision.         *)
LEMMA RewriteMaps ==
    ASSUME SafetyInv, LedgerInv, LedgerInv', TypeInv', ForeignWrite
    PROVE  Register!Next
  <1>1. PICK i \in Inode, b \in Body :
             /\ store[i].phase = "canvas"
             /\ store' = [store EXCEPT ![i].doc = [store[i].doc EXCEPT !.body = b]]
    BY DEF ForeignWrite
  <1> DEFINE c == [store[i].doc EXCEPT !.body = b]
  <1>2. store \in [Inode -> Stored] /\ store[i].rev \in Nat /\ store[i].doc \in Content
    BY DEF SafetyInv, TypeInv, TypeOK, Stored
  <1>3. c \in [format : Format, body : Body, ledger : 0 .. MaxRevision]
    <2>1. c \in Content /\ c.ledger = store[i].doc.ledger
      BY <1>2 DEF Content
    <2>2. store[i].rev <= MaxRevision /\ c.ledger \in {store[i].rev, store[i].rev - 1}
      BY <1>1, <2>1 DEF LedgerInv, LedgerMatchesRevision, RevisionsInRange
    <2> QED
      BY <1>2, <2>1, <2>2, ContentInRange
  <1>4. /\ store'[i].phase = "canvas" /\ store'[i].rev = store[i].rev /\ store'[i].doc = c
        /\ \A j \in Inode \ {i} : store'[j] = store[j]
    BY ONLY <1>1, <1>2 DEF Stored
  <1>5. /\ Held(i) = [rev |-> store[i].rev, doc |-> store[i].doc]
        /\ Held(i)' = [rev |-> store[i].rev, doc |-> c]
        /\ \A j \in Inode \ {i} : Held(j)' = Held(j)
    BY <1>1, <1>4 DEF Held
  <1>6. [j \in Inode |-> Held(j)][i] # NoFile
    BY <1>2, <1>5, NoVersionAssumption
  <1>7. [j \in Inode |-> Held(j)]' = [[j \in Inode |-> Held(j)] EXCEPT ![i].doc = c]
    <2>1. [Held(i) EXCEPT !.doc = c] = Held(i)'
      BY <1>5
    <2>2. [[j \in Inode |-> Held(j)][i] EXCEPT !.doc = c] = Held(i)'
      BY <2>1
    <2> QED
      BY <1>5, <2>2
  <1>8. \A t \in Session : WorkedOn(t)' = WorkedOn(t)
    BY SameView DEF ForeignWrite, callVars
  <1>9. [t \in Session |-> WorkedOn(t)]' = [t \in Session |-> WorkedOn(t)]
    BY <1>8
  <1> HIDE DEF c
  <1>10. Register!Rewrite
    BY ONLY <1>3, <1>6, <1>7, <1>9, Zenon DEF Register!Rewrite
  <1> QED
    BY <1>10 DEF Register!Next

(* Every step of sessions, workers and failures is one of the register's.    *)
LEMMA RegisterStep == SafetyInv /\ LedgerInv /\ [Next]_vars => Register!Next
  <1> SUFFICES ASSUME SafetyInv, LedgerInv, [Next]_vars PROVE Register!Next
    OBVIOUS
  <1>0. TypeInv /\ TypeInv' /\ LedgerInv'
    BY TypeStep, LedgerStep DEF SafetyInv
  <1> USE ConstantsAssumption
      DEF TypeInv, TypeOK, RunningCallHasFile, EditSteps, CreateSteps,
          Held, WorkedOn, IsOpen, Persisted,
          vars, diskVars, lockVars, transaction, sessionVars, callVars, viewVars,
          Goto, Fail, Return, ReleaseSource, EndTransaction
  <1>1. ASSUME NEW s \in Session, RefuseCall(s) PROVE Register!Next
    <2>1. \A t \in Session \ {s} :
              /\ handle'[t] = handle[t] /\ revision'[t] = revision[t]
              /\ document'[t] = document[t] /\ draft'[t] = draft[t] /\ pc'[t] = pc[t]
      BY <1>0, <1>1 DEF RefuseCall
    <2>2. WorkedOn(s)' = WorkedOn(s) \/ WorkedOn(s)' = NoFile
      BY <1>0, <1>1 DEF RefuseCall
    <2>3. \A i \in Inode : Held(i)' = Held(i)
      BY <1>0, <1>1 DEF RefuseCall
    <2> QED
      BY ONLY s \in Session, <2>1, <2>2, <2>3, SessionMoves
  <1>2. ASSUME NEW s \in Session, Open(s) PROVE Register!Next
    BY <1>2, OpenMaps
  <1>3. ASSUME NEW s \in Session, Close(s) PROVE Register!Next
    <2>1. \A t \in Session \ {s} :
              /\ handle'[t] = handle[t] /\ revision'[t] = revision[t]
              /\ document'[t] = document[t] /\ draft'[t] = draft[t] /\ pc'[t] = pc[t]
      BY <1>0, <1>3 DEF Close
    <2>2. WorkedOn(s)' = WorkedOn(s) \/ WorkedOn(s)' = NoFile
      BY <1>0, <1>3 DEF Close
    <2>3. \A i \in Inode : Held(i)' = Held(i)
      BY <1>0, <1>3 DEF Close
    <2> QED
      BY ONLY s \in Session, <2>1, <2>2, <2>3, SessionMoves
  <1>4. ASSUME NEW s \in Session, CreateFile(s) PROVE Register!Next
    <2>1. \A t \in Session \ {s} :
              /\ handle'[t] = handle[t] /\ revision'[t] = revision[t]
              /\ document'[t] = document[t] /\ draft'[t] = draft[t] /\ pc'[t] = pc[t]
      BY <1>0, <1>4 DEF CreateFile
    <2>2. WorkedOn(s)' = WorkedOn(s) \/ WorkedOn(s)' = NoFile
      BY <1>0, <1>4 DEF CreateFile
    <2>3. \A i \in Inode : Held(i)' = Held(i)
      BY <1>0, <1>4 DEF CreateFile, Stored
    <2> QED
      BY ONLY s \in Session, <2>1, <2>2, <2>3, SessionMoves
  <1>5. ASSUME NEW s \in Session, BeginEdit(s) PROVE Register!Next
    <2>1. \A t \in Session \ {s} :
              /\ handle'[t] = handle[t] /\ revision'[t] = revision[t]
              /\ document'[t] = document[t] /\ draft'[t] = draft[t] /\ pc'[t] = pc[t]
      BY <1>0, <1>5 DEF BeginEdit
    <2>2. WorkedOn(s)' = WorkedOn(s) \/ WorkedOn(s)' = NoFile
      BY <1>0, <1>5 DEF BeginEdit
    <2>3. \A i \in Inode : Held(i)' = Held(i)
      BY <1>0, <1>5 DEF BeginEdit
    <2> QED
      BY ONLY s \in Session, <2>1, <2>2, <2>3, SessionMoves
  <1>6. ASSUME NEW s \in Session, NestedEdit(s) PROVE Register!Next
    <2>1. \A t \in Session \ {s} :
              /\ handle'[t] = handle[t] /\ revision'[t] = revision[t]
              /\ document'[t] = document[t] /\ draft'[t] = draft[t] /\ pc'[t] = pc[t]
      BY <1>0, <1>6 DEF NestedEdit
    <2>2. WorkedOn(s)' = WorkedOn(s) \/ WorkedOn(s)' = NoFile
      BY <1>0, <1>6 DEF NestedEdit
    <2>3. \A i \in Inode : Held(i)' = Held(i)
      BY <1>0, <1>6 DEF NestedEdit
    <2> QED
      BY ONLY s \in Session, <2>1, <2>2, <2>3, SessionMoves
  <1>7. ASSUME NEW s \in Session, CreateLock(s) PROVE Register!Next
    <2>1. \A t \in Session \ {s} :
              /\ handle'[t] = handle[t] /\ revision'[t] = revision[t]
              /\ document'[t] = document[t] /\ draft'[t] = draft[t] /\ pc'[t] = pc[t]
      BY <1>0, <1>7 DEF CreateLock
    <2>2. WorkedOn(s)' = WorkedOn(s) \/ WorkedOn(s)' = NoFile
      BY <1>0, <1>7 DEF CreateLock
    <2>3. \A i \in Inode : Held(i)' = Held(i)
      BY <1>0, <1>7 DEF CreateLock
    <2> QED
      BY ONLY s \in Session, <2>1, <2>2, <2>3, SessionMoves
  <1>8. ASSUME NEW s \in Session, CreateWrite(s) PROVE Register!Next
    BY <1>0, <1>8, CreateMaps DEF CreateWrite
  <1>9. ASSUME NEW s \in Session, CreateAdopt(s) PROVE Register!Next
    <2>1. \A t \in Session \ {s} :
              /\ handle'[t] = handle[t] /\ revision'[t] = revision[t]
              /\ document'[t] = document[t] /\ draft'[t] = draft[t] /\ pc'[t] = pc[t]
      BY <1>0, <1>9 DEF CreateAdopt
    <2>2. WorkedOn(s)' = WorkedOn(s) \/ WorkedOn(s)' = NoFile
      BY <1>0, <1>9 DEF CreateAdopt
    <2>3. \A i \in Inode : Held(i)' = Held(i)
      BY <1>0, <1>9 DEF CreateAdopt
    <2> QED
      BY ONLY s \in Session, <2>1, <2>2, <2>3, SessionMoves
  <1>10. ASSUME NEW s \in Session, CreateThrows(s) PROVE Register!Next
    <2>1. CASE pc[s] = "createWrite" /\ MakeDurable(s, handle[s], 0, Persisted(draft[s]))
      BY <1>0, <1>10, <2>1, CreateMaps DEF CreateThrows
    <2>2. CASE UNCHANGED <<diskVars, stale>>
      BY <1>0, <1>10, <2>2, SessionMoves DEF CreateThrows
    <2> QED
      BY <1>10, <2>1, <2>2 DEF CreateThrows
  <1>11. ASSUME NEW s \in Session, RemoveCreated(s) PROVE Register!Next
    <2>1. \A t \in Session \ {s} :
              /\ handle'[t] = handle[t] /\ revision'[t] = revision[t]
              /\ document'[t] = document[t] /\ draft'[t] = draft[t] /\ pc'[t] = pc[t]
      BY <1>0, <1>11 DEF RemoveCreated
    <2>2. WorkedOn(s)' = WorkedOn(s) \/ WorkedOn(s)' = NoFile
      BY <1>0, <1>11 DEF RemoveCreated
    <2>3. \A i \in Inode : Held(i)' = Held(i)
      BY <1>0, <1>11 DEF RemoveCreated
    <2> QED
      BY ONLY s \in Session, <2>1, <2>2, <2>3, SessionMoves
  <1>12. ASSUME NEW s \in Session, Callback(s) PROVE Register!Next
    <2>1. \A t \in Session \ {s} :
              /\ handle'[t] = handle[t] /\ revision'[t] = revision[t]
              /\ document'[t] = document[t] /\ draft'[t] = draft[t] /\ pc'[t] = pc[t]
      BY <1>0, <1>12 DEF Callback
    <2>2. WorkedOn(s)' = WorkedOn(s) \/ WorkedOn(s)' = NoFile
      BY <1>0, <1>12 DEF Callback
    <2>3. \A i \in Inode : Held(i)' = Held(i)
      BY <1>0, <1>12 DEF Callback
    <2> QED
      BY ONLY s \in Session, <2>1, <2>2, <2>3, SessionMoves
  <1>13. ASSUME NEW s \in Session, CallbackRejects(s) PROVE Register!Next
    <2>1. \A t \in Session \ {s} :
              /\ handle'[t] = handle[t] /\ revision'[t] = revision[t]
              /\ document'[t] = document[t] /\ draft'[t] = draft[t] /\ pc'[t] = pc[t]
      BY <1>0, <1>13 DEF CallbackRejects
    <2>2. WorkedOn(s)' = WorkedOn(s) \/ WorkedOn(s)' = NoFile
      BY <1>0, <1>13 DEF CallbackRejects
    <2>3. \A i \in Inode : Held(i)' = Held(i)
      BY <1>0, <1>13 DEF CallbackRejects
    <2> QED
      BY ONLY s \in Session, <2>1, <2>2, <2>3, SessionMoves
  <1>14. ASSUME NEW s \in Session, EncodeFails(s) PROVE Register!Next
    <2>1. \A t \in Session \ {s} :
              /\ handle'[t] = handle[t] /\ revision'[t] = revision[t]
              /\ document'[t] = document[t] /\ draft'[t] = draft[t] /\ pc'[t] = pc[t]
      BY <1>0, <1>14 DEF EncodeFails
    <2>2. WorkedOn(s)' = WorkedOn(s) \/ WorkedOn(s)' = NoFile
      BY <1>0, <1>14 DEF EncodeFails
    <2>3. \A i \in Inode : Held(i)' = Held(i)
      BY <1>0, <1>14 DEF EncodeFails
    <2> QED
      BY ONLY s \in Session, <2>1, <2>2, <2>3, SessionMoves
  <1>15. ASSUME NEW s \in Session, AcquireSource(s) PROVE Register!Next
    <2>1. \A t \in Session \ {s} :
              /\ handle'[t] = handle[t] /\ revision'[t] = revision[t]
              /\ document'[t] = document[t] /\ draft'[t] = draft[t] /\ pc'[t] = pc[t]
      BY <1>0, <1>15 DEF AcquireSource
    <2>2. WorkedOn(s)' = WorkedOn(s) \/ WorkedOn(s)' = NoFile
      BY <1>0, <1>15 DEF AcquireSource
    <2>3. \A i \in Inode : Held(i)' = Held(i)
      BY <1>0, <1>15 DEF AcquireSource
    <2> QED
      BY ONLY s \in Session, <2>1, <2>2, <2>3, SessionMoves
  <1>16. ASSUME NEW s \in Session, BeginImmediate(s) PROVE Register!Next
    <2>1. \A t \in Session \ {s} :
              /\ handle'[t] = handle[t] /\ revision'[t] = revision[t]
              /\ document'[t] = document[t] /\ draft'[t] = draft[t] /\ pc'[t] = pc[t]
      BY <1>0, <1>16 DEF BeginImmediate
    <2>2. WorkedOn(s)' = WorkedOn(s) \/ WorkedOn(s)' = NoFile
      BY <1>0, <1>16 DEF BeginImmediate
    <2>3. \A i \in Inode : Held(i)' = Held(i)
      BY <1>0, <1>16 DEF BeginImmediate
    <2> QED
      BY ONLY s \in Session, <2>1, <2>2, <2>3, SessionMoves
  <1>17. ASSUME NEW s \in Session, BeginFails(s) PROVE Register!Next
    <2>1. \A t \in Session \ {s} :
              /\ handle'[t] = handle[t] /\ revision'[t] = revision[t]
              /\ document'[t] = document[t] /\ draft'[t] = draft[t] /\ pc'[t] = pc[t]
      BY <1>0, <1>17 DEF BeginFails
    <2>2. WorkedOn(s)' = WorkedOn(s) \/ WorkedOn(s)' = NoFile
      BY <1>0, <1>17 DEF BeginFails
    <2>3. \A i \in Inode : Held(i)' = Held(i)
      BY <1>0, <1>17 DEF BeginFails
    <2> QED
      BY ONLY s \in Session, <2>1, <2>2, <2>3, SessionMoves
  <1>18. ASSUME NEW s \in Session, CheckOwnership(s) PROVE Register!Next
    <2>1. \A t \in Session \ {s} :
              /\ handle'[t] = handle[t] /\ revision'[t] = revision[t]
              /\ document'[t] = document[t] /\ draft'[t] = draft[t] /\ pc'[t] = pc[t]
      BY <1>0, <1>18 DEF CheckOwnership
    <2>2. WorkedOn(s)' = WorkedOn(s) \/ WorkedOn(s)' = NoFile
      BY <1>0, <1>18 DEF CheckOwnership
    <2>3. \A i \in Inode : Held(i)' = Held(i)
      BY <1>0, <1>18 DEF CheckOwnership
    <2> QED
      BY ONLY s \in Session, <2>1, <2>2, <2>3, SessionMoves
  <1>19. ASSUME NEW s \in Session, Conflict(s) PROVE Register!Next
    <2>1. \A t \in Session \ {s} :
              /\ handle'[t] = handle[t] /\ revision'[t] = revision[t]
              /\ document'[t] = document[t] /\ draft'[t] = draft[t] /\ pc'[t] = pc[t]
      BY <1>0, <1>19 DEF Conflict
    <2>2. WorkedOn(s)' = WorkedOn(s) \/ WorkedOn(s)' = NoFile
      BY <1>0, <1>19 DEF Conflict
    <2>3. \A i \in Inode : Held(i)' = Held(i)
      BY <1>0, <1>19 DEF Conflict
    <2> QED
      BY ONLY s \in Session, <2>1, <2>2, <2>3, SessionMoves
  <1>20. ASSUME NEW s \in Session, WriteNothing(s) PROVE Register!Next
    <2>1. \A t \in Session \ {s} :
              /\ handle'[t] = handle[t] /\ revision'[t] = revision[t]
              /\ document'[t] = document[t] /\ draft'[t] = draft[t] /\ pc'[t] = pc[t]
      BY <1>0, <1>20 DEF WriteNothing
    <2>2. WorkedOn(s)' = WorkedOn(s) \/ WorkedOn(s)' = NoFile
      BY <1>0, <1>20 DEF WriteNothing
    <2>3. \A i \in Inode : Held(i)' = Held(i)
      BY <1>0, <1>20 DEF WriteNothing
    <2> QED
      BY ONLY s \in Session, <2>1, <2>2, <2>3, SessionMoves
  <1>21. ASSUME NEW s \in Session, WriteRecords(s) PROVE Register!Next
    <2>1. \A t \in Session \ {s} :
              /\ handle'[t] = handle[t] /\ revision'[t] = revision[t]
              /\ document'[t] = document[t] /\ draft'[t] = draft[t] /\ pc'[t] = pc[t]
      BY <1>0, <1>21 DEF WriteRecords
    <2>2. WorkedOn(s)' = WorkedOn(s) \/ WorkedOn(s)' = NoFile
      BY <1>0, <1>21 DEF WriteRecords
    <2>3. \A i \in Inode : Held(i)' = Held(i)
      BY <1>0, <1>21 DEF WriteRecords
    <2> QED
      BY ONLY s \in Session, <2>1, <2>2, <2>3, SessionMoves
  <1>22. ASSUME NEW s \in Session, RevisionExhausted(s) PROVE Register!Next
    <2>1. \A t \in Session \ {s} :
              /\ handle'[t] = handle[t] /\ revision'[t] = revision[t]
              /\ document'[t] = document[t] /\ draft'[t] = draft[t] /\ pc'[t] = pc[t]
      BY <1>0, <1>22 DEF RevisionExhausted
    <2>2. WorkedOn(s)' = WorkedOn(s) \/ WorkedOn(s)' = NoFile
      BY <1>0, <1>22 DEF RevisionExhausted
    <2>3. \A i \in Inode : Held(i)' = Held(i)
      BY <1>0, <1>22 DEF RevisionExhausted
    <2> QED
      BY ONLY s \in Session, <2>1, <2>2, <2>3, SessionMoves
  <1>23. ASSUME NEW s \in Session, WriteFails(s) PROVE Register!Next
    <2>1. \A t \in Session \ {s} :
              /\ handle'[t] = handle[t] /\ revision'[t] = revision[t]
              /\ document'[t] = document[t] /\ draft'[t] = draft[t] /\ pc'[t] = pc[t]
      BY <1>0, <1>23 DEF WriteFails
    <2>2. WorkedOn(s)' = WorkedOn(s) \/ WorkedOn(s)' = NoFile
      BY <1>0, <1>23 DEF WriteFails
    <2>3. \A i \in Inode : Held(i)' = Held(i)
      BY <1>0, <1>23 DEF WriteFails
    <2> QED
      BY ONLY s \in Session, <2>1, <2>2, <2>3, SessionMoves
  <1>24. ASSUME NEW s \in Session, AllocationFails(s) PROVE Register!Next
    <2>1. \A t \in Session \ {s} :
              /\ handle'[t] = handle[t] /\ revision'[t] = revision[t]
              /\ document'[t] = document[t] /\ draft'[t] = draft[t] /\ pc'[t] = pc[t]
      BY <1>0, <1>24 DEF AllocationFails
    <2>2. WorkedOn(s)' = WorkedOn(s) \/ WorkedOn(s)' = NoFile
      BY <1>0, <1>24 DEF AllocationFails
    <2>3. \A i \in Inode : Held(i)' = Held(i)
      BY <1>0, <1>24 DEF AllocationFails
    <2> QED
      BY ONLY s \in Session, <2>1, <2>2, <2>3, SessionMoves
  <1>25. ASSUME NEW s \in Session, Commit(s) PROVE Register!Next
    BY <1>0, <1>25, CommitMaps DEF Commit
  <1>26. ASSUME NEW s \in Session, CommitFails(s) PROVE Register!Next
    <2>1. CASE UNCHANGED <<diskVars, stale, landed>>
      BY <1>0, <1>26, <2>1, SessionMoves DEF CommitFails
    <2>2. CASE MakeDurable(s, handle[s], Disk(s).rev + 1, Persisted(draft[s]))
      BY <1>0, <1>26, <2>2, CommitMaps DEF CommitFails
    <2> QED
      BY <1>26, <2>1, <2>2 DEF CommitFails
  <1>27. ASSUME NEW s \in Session, AdoptCommit(s) PROVE Register!Next
    <2>1. \A t \in Session \ {s} :
              /\ handle'[t] = handle[t] /\ revision'[t] = revision[t]
              /\ document'[t] = document[t] /\ draft'[t] = draft[t] /\ pc'[t] = pc[t]
      BY <1>0, <1>27 DEF AdoptCommit
    <2>2. WorkedOn(s)' = WorkedOn(s) \/ WorkedOn(s)' = NoFile
      BY <1>0, <1>27 DEF AdoptCommit
    <2>3. \A i \in Inode : Held(i)' = Held(i)
      BY <1>0, <1>27 DEF AdoptCommit
    <2> QED
      BY ONLY s \in Session, <2>1, <2>2, <2>3, SessionMoves
  <1>28. ASSUME NEW s \in Session, Detach(s) PROVE Register!Next
    <2>1. \A t \in Session \ {s} :
              /\ handle'[t] = handle[t] /\ revision'[t] = revision[t]
              /\ document'[t] = document[t] /\ draft'[t] = draft[t] /\ pc'[t] = pc[t]
      BY <1>0, <1>28 DEF Detach
    <2>2. WorkedOn(s)' = WorkedOn(s) \/ WorkedOn(s)' = NoFile
      BY <1>0, <1>28 DEF Detach
    <2>3. \A i \in Inode : Held(i)' = Held(i)
      BY <1>0, <1>28 DEF Detach
    <2> QED
      BY ONLY s \in Session, <2>1, <2>2, <2>3, SessionMoves
  <1>29. ASSUME NEW s \in Session, StayAttached(s) PROVE Register!Next
    <2>1. \A t \in Session \ {s} :
              /\ handle'[t] = handle[t] /\ revision'[t] = revision[t]
              /\ document'[t] = document[t] /\ draft'[t] = draft[t] /\ pc'[t] = pc[t]
      BY <1>0, <1>29 DEF StayAttached
    <2>2. WorkedOn(s)' = WorkedOn(s) \/ WorkedOn(s)' = NoFile
      BY <1>0, <1>29 DEF StayAttached
    <2>3. \A i \in Inode : Held(i)' = Held(i)
      BY <1>0, <1>29 DEF StayAttached
    <2> QED
      BY ONLY s \in Session, <2>1, <2>2, <2>3, SessionMoves
  <1>30. ASSUME NEW s \in Session, Notify(s) PROVE Register!Next
    <2>1. \A t \in Session \ {s} :
              /\ handle'[t] = handle[t] /\ revision'[t] = revision[t]
              /\ document'[t] = document[t] /\ draft'[t] = draft[t] /\ pc'[t] = pc[t]
      BY <1>0, <1>30 DEF Notify
    <2>2. WorkedOn(s)' = WorkedOn(s) \/ WorkedOn(s)' = NoFile
      BY <1>0, <1>30 DEF Notify
    <2>3. \A i \in Inode : Held(i)' = Held(i)
      BY <1>0, <1>30 DEF Notify
    <2> QED
      BY ONLY s \in Session, <2>1, <2>2, <2>3, SessionMoves
  <1>31. ASSUME NEW s \in Session, NotifyThrows(s) PROVE Register!Next
    <2>1. \A t \in Session \ {s} :
              /\ handle'[t] = handle[t] /\ revision'[t] = revision[t]
              /\ document'[t] = document[t] /\ draft'[t] = draft[t] /\ pc'[t] = pc[t]
      BY <1>0, <1>31 DEF NotifyThrows
    <2>2. WorkedOn(s)' = WorkedOn(s) \/ WorkedOn(s)' = NoFile
      BY <1>0, <1>31 DEF NotifyThrows
    <2>3. \A i \in Inode : Held(i)' = Held(i)
      BY <1>0, <1>31 DEF NotifyThrows
    <2> QED
      BY ONLY s \in Session, <2>1, <2>2, <2>3, SessionMoves
  <1>32. ASSUME NEW p \in Process, WorkerTakes(p) PROVE Register!Next
    BY <1>32, RegisterDrops DEF WorkerTakes
  <1>33. ASSUME NEW p \in Process, WorkerLocks(p) PROVE Register!Next
    BY <1>33, RegisterDrops DEF WorkerLocks
  <1>34. ASSUME NEW p \in Process, WorkerGivesUp(p) PROVE Register!Next
    BY <1>34, RegisterDrops DEF WorkerGivesUp
  <1>35. ASSUME NEW p \in Process, WorkerReads(p) PROVE Register!Next
    BY <1>35, RegisterDrops DEF WorkerReads
  <1>40. ASSUME NEW p \in Process, WorkerFails(p) PROVE Register!Next
    BY <1>40, RegisterDrops DEF WorkerFails
  <1>36. ASSUME NEW p \in Process, Crash(p) PROVE Register!Next
    BY <1>0, <1>36, RegisterDrops DEF Crash
  <1>37. CASE ForeignWrite
    BY <1>0, <1>37, RewriteMaps
  <1>38. CASE RemovePath
    BY <1>0, <1>38, RegisterDrops DEF RemovePath
  <1>39. CASE UNCHANGED vars
    BY <1>0, <1>39, RegisterDrops
  <1> QED
        BY <1>1, <1>2, <1>3, <1>4, <1>5, <1>6, <1>7, <1>8, <1>9, <1>10, <1>11, <1>12,
       <1>13, <1>14, <1>15, <1>16, <1>17, <1>18, <1>19, <1>20, <1>21, <1>22, <1>23, <1>24,
       <1>25, <1>26, <1>27, <1>28, <1>29, <1>30, <1>31, <1>32, <1>33, <1>34, <1>35, <1>36,
       <1>37, <1>38, <1>39, <1>40
       DEF Next, Call, Step, WorkerStep

(* Whatever sessions, processes, locks and failures do, the file is the      *)
(* versioned register of DocumentRegister: a change replaces the version it  *)
(* was made from in one step, and no session works on anything else.         *)
THEOREM WorkingFileIsRegister == Spec => ImplementsRegister
  <1>1. SafetyInv /\ LedgerInv /\ [Next]_vars => [Register!Next]_(Register!vars)
    BY RegisterStep
  <1> QED
    BY <1>1, RegisterInit, SafetyInvariant, LedgerInit, LedgerStep, PTL
       DEF Spec, ImplementsRegister, Register!Spec
===============================================================================
