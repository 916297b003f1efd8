--------------------------- MODULE DocumentRegister ---------------------------
(***************************************************************************)
(* What a canvas working file promises to the sessions that author it, with *)
(* no locks, transactions or failures in sight: each file is one versioned  *)
(* document; a session works on the copy it loaded; a change is accepted    *)
(* only against the very version it was made from, and accepting it is a    *)
(* single step that replaces the whole document and advances the revision.  *)
(* WorkingFile implements this.                                             *)
(***************************************************************************)
EXTENDS Naturals

CONSTANTS Session,      \* authoring sessions
          Inode,        \* file identities a path may stand for over time
          Content,      \* what a document keeps on disk
          Nothing       \* no version: an unwritten file, a session without a file

VARIABLES durable,      \* the version each file holds
          view          \* the version each session works on, with its file

vars == <<durable, view>>

Version(r, c) == [rev |-> r, doc |-> c]
View(i, v) == [file |-> i, rev |-> v.rev, doc |-> v.doc]

Init ==
    /\ durable = [i \in Inode |-> Nothing]
    /\ view = [s \in Session |-> Nothing]

(* A session creates a file at revision 0 and works on it. *)
Publish(s) ==
    \E i \in Inode, c \in Content :
        /\ durable[i] = Nothing
        /\ durable' = [durable EXCEPT ![i] = Version(0, c)]
        /\ \E v \in {view[s], View(i, Version(0, c))} :
                view' = [view EXCEPT ![s] = v]

(* A session loads the version a file holds now. *)
Load(s) ==
    \E i \in Inode :
        /\ durable[i] # Nothing
        /\ view' = [view EXCEPT ![s] = View(i, durable[i])]
        /\ UNCHANGED durable

(* A session replaces the version it works on, and nothing newer.  A change  *)
(* whose outcome it could not learn leaves its view behind.                  *)
Change(s) ==
    /\ view[s] # Nothing
    /\ \E c \in Content :
        LET i == view[s].file
            next == Version(view[s].rev + 1, c)
        IN  /\ view[s] = View(i, durable[i])
            /\ durable' = [durable EXCEPT ![i] = next]
            /\ \E v \in {view[s], View(i, next)} :
                    view' = [view EXCEPT ![s] = v]

(* Sessions let go of their files: closed, detached, or lost in a crash. *)
Drop ==
    /\ \E gone \in SUBSET Session :
            view' = [s \in Session |-> IF s \in gone THEN Nothing ELSE view[s]]
    /\ UNCHANGED durable

(* A tool that is no session rewrites a document under the same revision. *)
Rewrite ==
    \E i \in Inode, c \in Content :
        /\ durable[i] # Nothing
        /\ durable' = [durable EXCEPT ![i].doc = c]
        /\ UNCHANGED view

Next ==
    \/ \E s \in Session : Publish(s) \/ Load(s) \/ Change(s)
    \/ Drop
    \/ Rewrite

Spec == Init /\ [][Next]_vars
===============================================================================
