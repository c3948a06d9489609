-------------------------- MODULE FluxAttachments --------------------------
(***************************************************************************)
(* Attachments: metadata rows in PostgreSQL, bytes in the blob store, and  *)
(* the rows of attachment_cleanup that keep the two together although no   *)
(* transaction spans them.  Handlers upload, remove and download           *)
(* (internal/planning/http.go), workers collect what is left over          *)
(* (cmd/flux/blob_cleanup.go); both may crash between any two steps.       *)
(*                                                                         *)
(* Every upload writes under a fresh key, reserved first.  A transaction   *)
(* of the store is one step: AddAttachment and RemoveAttachment hold the   *)
(* workspace row, the others are single statements.  The blob store is the *)
(* filesystem one: a temporary file, renamed when complete.                *)
(***************************************************************************)
EXTENDS Integers, FiniteSets

CONSTANTS
    Key,              \* storage keys, planning.NewID
    Request,          \* uploads: [uploader, idempotencyKey, content]
    Handler,          \* request handlers
    Worker,           \* runBlobCleanup loops, one per flux process
    AckMayBeLost,     \* uploads whose commit may succeed and be reported as failed
    None

\* A row of attachment_cleanup, by its state and next_attempt: an upload's
\* reservation within and past its grace period, a deletion that is due, and
\* one that is leased or backing off.
RowState == {"none", "uploading", "stale", "due", "waiting"}

\* Where a handler is, and what it answers.
Label == {"idle", "reserved", "writing", "stored", "discard", "queue", "complete", "open"}
Answer == {"created", "replayed", "failed", "sent", "unavailable"}

ASSUME AttachmentsAssumption ==
    /\ AckMayBeLost \subseteq Request
    /\ None \notin Key /\ None \notin Request /\ None \notin Answer
    /\ None \notin [key: Key, request: Request]

VARIABLES
    meta,       \* item_attachments: [key, request]
    row,        \* attachment_cleanup by storage key
    blobs,      \* keys with complete bytes in the blob store
    temporary,  \* keys whose unfinished bytes lie in a temporary file
    used,       \* keys handed out so far
    pc,         \* where each handler is
    key,        \* the storage key it works on
    task,       \* what it does: "upload", "remove" or "download"
    work,       \* the request of an upload
    late,       \* is its upload past the deadline of the request?
    answer,     \* what it answered
    batch       \* the rows each worker has claimed and not finished

database == <<meta, row>>
storage == <<blobs, temporary>>
handlers == <<pc, key, task, work, late, answer>>
vars == <<database, storage, used, handlers, batch>>

Init ==
    /\ meta = {}
    /\ row = [k \in Key |-> "none"]
    /\ blobs = {}
    /\ temporary = {}
    /\ used = {}
    /\ pc = [h \in Handler |-> "idle"]
    /\ key = [h \in Handler |-> None]
    /\ task = [h \in Handler |-> None]
    /\ work = [h \in Handler |-> None]
    /\ late = [h \in Handler |-> FALSE]
    /\ answer = [h \in Handler |-> None]
    /\ batch = [w \in Worker |-> {}]

Referenced(k) == \E e \in meta : e.key = k

SetRow(k, state) == row' = [row EXCEPT ![k] = state]
Goto(h, label) == pc' = [pc EXCEPT ![h] = label]
\* The deadline matters as long as the upload may still be committed.
Abandon(h, label) == Goto(h, label) /\ late' = [late EXCEPT ![h] = FALSE]
Say(h, text) == answer' = [answer EXCEPT ![h] = text]

Start(h, what, request, k, label) ==
    /\ pc[h] = "idle"
    /\ Goto(h, label)
    /\ task' = [task EXCEPT ![h] = what]
    /\ work' = [work EXCEPT ![h] = request]
    /\ key' = [key EXCEPT ![h] = k]
    /\ late' = [late EXCEPT ![h] = FALSE]
    /\ answer' = [answer EXCEPT ![h] = None]

-----------------------------------------------------------------------------
(* uploadAttachment *)

\* A fresh key is reserved before any byte is written.
Reserve(h, request, k) ==
    /\ k \notin used
    /\ Start(h, "upload", request, k, "reserved")
    /\ used' = used \cup {k}
    /\ SetRow(k, "uploading")
    /\ UNCHANGED <<meta, storage, batch>>

\* The preflight check refuses the sender or item, or no key can be reserved.
TurnAway(h) ==
    /\ Start(h, "upload", None, None, "idle")
    /\ UNCHANGED <<database, storage, used, batch>>

\* Put writes a temporary file ...
WriteTemporary(h) ==
    /\ pc[h] = "reserved"
    /\ temporary' = temporary \cup {key[h]}
    /\ Goto(h, "writing")
    /\ UNCHANGED <<database, blobs, used, key, task, work, late, answer, batch>>

\* ... and renames it.
Rename(h) ==
    /\ pc[h] = "writing"
    /\ temporary' = temporary \ {key[h]}
    /\ blobs' = blobs \cup {key[h]}
    /\ Goto(h, "stored")
    /\ UNCHANGED <<database, used, key, task, work, late, answer, batch>>

\* Put fails: its deferred cleanup removes the temporary file.
PutFails(h) ==
    /\ pc[h] \in {"reserved", "writing"}
    /\ temporary' = temporary \ {key[h]}
    /\ Abandon(h, "discard")
    /\ Say(h, "failed")
    /\ UNCHANGED <<database, blobs, used, key, task, work, batch>>

\* An attachment stored under this uploader and idempotency key.
SameRequest(e, request) ==
    /\ e.request.uploader = request.uploader
    /\ e.request.idempotencyKey = request.idempotencyKey

Earlier_WholePayload(request) == {e \in meta : e.request = request}

Earlier(request) == {e \in meta : SameRequest(e, request)}

\* Metadata appears and the reservation disappears in one commit.
Insert(h) ==
    /\ meta' = meta \cup {[key |-> key[h], request |-> work[h]]}
    /\ SetRow(key[h], "none")

\* AddAttachment runs under the request's deadline.
AddAttachment(h) ==
    /\ pc[h] = "stored"
    /\ ~late[h]
    /\ Earlier(work[h]) = {}
    /\ Insert(h)
    /\ Goto(h, "idle")
    /\ Say(h, "created")
    /\ UNCHANGED <<storage, used, key, task, work, late, batch>>

\* A retry gets the attachment of the first attempt; the bytes it sent again,
\* under another key, are dropped.
ReplayUpload(h) ==
    /\ pc[h] = "stored"
    /\ ~late[h]
    /\ \E e \in Earlier(work[h]) :
         Say(h, IF e.request = work[h] THEN "replayed" ELSE "failed")
    /\ Goto(h, "discard")
    /\ UNCHANGED <<database, storage, used, key, task, work, late, batch>>

\* AddAttachment rolls back: not permitted, archived item, too many, an error.
RefuseUpload(h) ==
    /\ pc[h] = "stored"
    /\ Abandon(h, "discard")
    /\ Say(h, "failed")
    /\ UNCHANGED <<database, storage, used, key, task, work, batch>>

\* AddAttachment commits but reports an error, the connection being lost.
AddAttachmentUnacknowledged(h) ==
    /\ work[h] \in AckMayBeLost
    /\ pc[h] = "stored"
    /\ ~late[h]
    /\ Earlier(work[h]) = {}
    /\ Insert(h)
    /\ Goto(h, "discard")
    /\ Say(h, "failed")
    /\ UNCHANGED <<storage, used, key, task, work, late, batch>>

-----------------------------------------------------------------------------
(* deleteAttachment, and the removal of bytes nobody refers to *)

RemoveAttachment_Unqueued(h, e) ==
    /\ e \in meta
    /\ Start(h, "remove", None, e.key, "discard")
    /\ meta' = meta \ {e}
    /\ UNCHANGED <<row, storage, used, batch>>

\* Metadata disappears and the deletion is queued in one commit.
RemoveAttachment(h, e) ==
    /\ e \in meta
    /\ Start(h, "remove", None, e.key, "discard")
    /\ meta' = meta \ {e}
    /\ SetRow(e.key, "due")
    /\ UNCHANGED <<storage, used, batch>>

DeleteBlob(h) ==
    /\ pc[h] = "discard"
    /\ blobs' = blobs \ {key[h]}
    /\ Goto(h, "complete")
    /\ UNCHANGED <<database, temporary, used, key, task, work, late, answer, batch>>

\* The blob store is unavailable: an upload queues the key, a removal has.
DeleteFails_Completes(h) ==
    /\ pc[h] = "discard"
    /\ Goto(h, "complete")
    /\ UNCHANGED <<database, storage, used, key, task, work, late, answer, batch>>

DeleteFails(h) ==
    /\ pc[h] = "discard"
    /\ Goto(h, IF task[h] = "remove" THEN "idle" ELSE "queue")
    /\ UNCHANGED <<database, storage, used, key, task, work, late, answer, batch>>

QueueBlobCleanup(h) ==
    /\ pc[h] = "queue"
    /\ SetRow(key[h], "due")
    /\ Goto(h, "idle")
    /\ UNCHANGED <<meta, storage, used, key, task, work, late, answer, batch>>

CompleteBlobCleanupKey(h) ==
    /\ pc[h] = "complete"
    /\ SetRow(key[h], "none")
    /\ Goto(h, "idle")
    /\ UNCHANGED <<meta, storage, used, key, task, work, late, answer, batch>>

\* The statement fails; the error is logged.
GiveUp(h) ==
    /\ pc[h] \in {"queue", "complete"}
    /\ Goto(h, "idle")
    /\ UNCHANGED <<database, storage, used, key, task, work, late, answer, batch>>

-----------------------------------------------------------------------------
(* downloadAttachment *)

FindAttachment(h, e) ==
    /\ e \in meta
    /\ Start(h, "download", None, e.key, "open")
    /\ UNCHANGED <<database, storage, used, batch>>

OpenObject(h) ==
    /\ pc[h] = "open"
    /\ Say(h, IF key[h] \in blobs THEN "sent" ELSE "unavailable")
    /\ Goto(h, "idle")
    /\ UNCHANGED <<database, storage, used, key, task, work, late, batch>>

-----------------------------------------------------------------------------
(* runBlobCleanup *)

\* Expired reservations become due, then all due rows are leased and claimed.
ReconcileBlobUploads ==
    /\ \E k \in Key : row[k] = "stale"
    /\ row' = [k \in Key |-> IF row[k] = "stale" THEN "due" ELSE row[k]]
    /\ UNCHANGED <<meta, storage, used, handlers, batch>>

ClaimBlobCleanup(w) ==
    /\ batch[w] = {}
    /\ \E k \in Key : row[k] = "due"
    /\ batch' = [batch EXCEPT ![w] = {k \in Key : row[k] = "due"}]
    /\ row' = [k \in Key |-> IF row[k] = "due" THEN "waiting" ELSE row[k]]
    /\ UNCHANGED <<meta, storage, used, handlers>>

\* A claimed key is deleted; the row goes with it unless that statement fails.
DeleteClaimed(w, k) ==
    /\ k \in batch[w]
    /\ blobs' = blobs \ {k}
    /\ \E recorded \in BOOLEAN :
         row' = IF recorded THEN [row EXCEPT ![k] = "none"] ELSE row
    /\ batch' = [batch EXCEPT ![w] = @ \ {k}]
    /\ UNCHANGED <<meta, temporary, used, handlers>>

\* The deletion fails: the row, if still there, backs off.
RetryBlobCleanup(w, k) ==
    /\ k \in batch[w]
    /\ row' = IF row[k] = "none" THEN row ELSE [row EXCEPT ![k] = "waiting"]
    /\ batch' = [batch EXCEPT ![w] = @ \ {k}]
    /\ UNCHANGED <<meta, storage, used, handlers>>

-----------------------------------------------------------------------------
(* Time and crashes *)

\* The two-minute deadline of an upload passes.
Deadline(h) ==
    /\ pc[h] \in {"reserved", "writing", "stored"}
    /\ ~late[h]
    /\ late' = [late EXCEPT ![h] = TRUE]
    /\ UNCHANGED <<database, storage, used, pc, key, task, work, answer, batch>>

InFlight_Never(k) == FALSE

\* An upload that may still refer to k.
InFlight(k) ==
    \E h \in Handler :
      /\ key[h] = k
      /\ \/ pc[h] \in {"reserved", "writing"}
         \/ pc[h] = "stored" /\ ~late[h]

\* The grace period of a reservation passes.  It exceeds the deadline of the
\* request by thirteen minutes, in which a write under way ends.
GracePasses(k) ==
    /\ row[k] = "uploading"
    /\ ~InFlight(k)
    /\ SetRow(k, "stale")
    /\ UNCHANGED <<meta, storage, used, handlers, batch>>

\* The lease or back-off of a deletion passes.
LeasePasses(k) ==
    /\ row[k] = "waiting"
    /\ SetRow(k, "due")
    /\ UNCHANGED <<meta, storage, used, handlers, batch>>

CrashHandler(h) ==
    /\ pc[h] # "idle"
    /\ Abandon(h, "idle")
    /\ Say(h, None)
    /\ UNCHANGED <<database, storage, used, key, task, work, batch>>

CrashWorker(w) ==
    /\ batch[w] # {}
    /\ batch' = [batch EXCEPT ![w] = {}]
    /\ UNCHANGED <<database, storage, used, handlers>>

-----------------------------------------------------------------------------
Arrive(h) ==
    \/ \E request \in Request, k \in Key : Reserve(h, request, k)
    \/ TurnAway(h)
    \/ \E e \in meta : RemoveAttachment(h, e) \/ FindAttachment(h, e)

Proceed(h) ==
    \/ WriteTemporary(h) \/ Rename(h) \/ PutFails(h)
    \/ AddAttachment(h) \/ ReplayUpload(h) \/ RefuseUpload(h)
    \/ AddAttachmentUnacknowledged(h)
    \/ DeleteBlob(h) \/ DeleteFails(h)
    \/ QueueBlobCleanup(h) \/ CompleteBlobCleanupKey(h) \/ GiveUp(h)
    \/ OpenObject(h)

Clean(w) ==
    \/ ClaimBlobCleanup(w)
    \/ \E k \in Key : DeleteClaimed(w, k) \/ RetryBlobCleanup(w, k)

Next ==
    \/ \E h \in Handler : Arrive(h) \/ Proceed(h) \/ Deadline(h) \/ CrashHandler(h)
    \/ ReconcileBlobUploads
    \/ \E w \in Worker : Clean(w) \/ CrashWorker(w)
    \/ \E k \in Key : GracePasses(k) \/ LeasePasses(k)

Spec == Init /\ [][Next]_vars

\* Requests end, time passes, and a worker that keeps getting the chance to
\* claim and to delete does so: it ticks every minute, and the blob store is
\* not down for ever.
Fairness ==
    /\ \A h \in Handler : WF_vars(Proceed(h))
    /\ \A k \in Key : WF_vars(GracePasses(k)) /\ WF_vars(LeasePasses(k))
    /\ WF_vars(ReconcileBlobUploads)
    /\ \A w \in Worker :
         /\ SF_vars(ClaimBlobCleanup(w))
         /\ \A k \in Key : SF_vars(DeleteClaimed(w, k))

FairSpec == Spec /\ Fairness

-----------------------------------------------------------------------------
(* Properties *)

\* Rows, keys and handlers are what the schema and the code allow, and only
\* keys that were handed out occur.
TypeOK ==
    /\ used \subseteq Key
    /\ meta \subseteq [key: used, request: Request]
    /\ row \in [Key -> RowState]
    /\ blobs \subseteq used
    /\ temporary \subseteq used
    /\ pc \in [Handler -> Label]
    /\ key \in [Handler -> used \cup {None}]
    /\ task \in [Handler -> {"upload", "remove", "download", None}]
    /\ work \in [Handler -> Request \cup {None}]
    /\ late \in [Handler -> BOOLEAN]
    /\ answer \in [Handler -> Answer \cup {None}]
    /\ batch \in [Worker -> SUBSET Key]

\* The commit that listed e cannot have been reported as failed.
Acknowledged(e) == e.request \notin AckMayBeLost

\* An attachment that is listed and acknowledged has its bytes, through retries
\* that overlap, deadlines, crashes, workers, and other uploads whose commit is
\* reported as failed (uploadAttachment, removeBlob).
NoDanglingMetadata == \A e \in meta : Acknowledged(e) => e.key \in blobs

\* "A crash cannot leave a referenced object looking like an orphan": no such
\* attachment is reserved or queued for deletion.
ReferencedOrScheduled == \A e \in meta : Acknowledged(e) => row[e.key] = "none"

\* Bytes nobody refers to are on record, so that a worker finds them.
NoUntrackedBlob == \A k \in blobs : Referenced(k) \/ row[k] # "none"

\* Retries of one upload, overlapping or not, store one attachment.
OneAttachmentPerRequest ==
    \A e, f \in meta : SameRequest(e, f.request) => e = f

Kept(k) == \E e \in meta : e.key = k /\ Acknowledged(e)

\* A download of such an attachment fails only when it was removed meanwhile.
DownloadsFindBytes ==
    \A h \in Handler : answer[h] = "unavailable" => ~Kept(key[h])

\* Leftover bytes are deleted in the end, whatever crashed before.
OrphansCollected ==
    \A k \in Key : k \in blobs /\ ~Referenced(k) ~> k \notin blobs \/ Referenced(k)

\* The file a handler is receiving, and the key it is about to read.
Sending ==
    [h \in Handler |->
        IF pc[h] \in {"reserved", "writing", "stored"}
        THEN [key |-> key[h], request |-> work[h]]
        ELSE None]
Reading == [h \in Handler |-> IF pc[h] = "open" THEN key[h] ELSE None]

\* Uploads, removals and downloads are those of a shelf of files (FluxShelf):
\* a file is on it once, the answers say what became of it, and it can be read
\* until it is removed, whatever overlaps, is late, crashes or cleans up.
Shelf == INSTANCE FluxShelf WITH
    listed <- meta, spent <- used, sending <- Sending, reading <- Reading
ShelfSpec == Shelf!ShelfSpec

\* Violated: "The metadata commit and upload reservation removal are one
\* transaction. A crash cannot leave a referenced object looking like an
\* orphan" (attachments.go:266).  A commit reported as failed is taken for none,
\* and the bytes of what it listed are deleted.
ListedFilesHaveBytes == \A e \in meta : e.key \in blobs

=============================================================================
