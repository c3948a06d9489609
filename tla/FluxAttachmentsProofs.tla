----------------------- MODULE FluxAttachmentsProofs -----------------------
(***************************************************************************)
(* Proofs about FluxAttachments for any number of keys, handlers and       *)
(* workers.  The argument: a key belongs to one upload until its metadata  *)
(* is committed or its request is past the deadline, and until then no row *)
(* offers it to a worker; afterwards it is either referenced or condemned. *)
(* From the same invariant they implement FluxShelf.                       *)
(***************************************************************************)
EXTENDS FluxAttachments, TLAPS

\* An upload that has not reached the database, and one that still may.
Early(h) == pc[h] \in {"reserved", "writing", "stored"}
Flying(h) == Early(h) /\ (pc[h] = "stored" => ~late[h])

\* Handlers that use the key they hold, or whose answer speaks of it.
Discarding(h) == pc[h] \in {"discard", "queue", "complete"}
Busy(h) == Early(h) \/ Discarding(h) \/ pc[h] = "open" \/ answer[h] = "unavailable"

\* Which handlers hold a key and a request.
Shape ==
    \A h \in Handler :
      /\ Busy(h) => key[h] \in used
      /\ Early(h) => work[h] \in Request

\* Rows and claims are about keys that were handed out.
OnlyUsed ==
    /\ \A k \in Key : row[k] # "none" => k \in used
    /\ \A w \in Worker : batch[w] \subseteq used

\* The key of an upload that is under way is its own.
KeysApart ==
    \A g, h \in Handler : g # h /\ Early(g) /\ Busy(h) => key[g] # key[h]

NotYetReferenced == \A h \in Handler : Early(h) => ~Referenced(key[h])

\* A flying upload is reserved, out of the workers' reach, and once stored
\* its bytes are there.
Protected ==
    \A h \in Handler : Flying(h) =>
      /\ row[key[h]] = "uploading"
      /\ \A w \in Worker : key[h] \notin batch[w]
      /\ pc[h] = "stored" => key[h] \in blobs

DeletedBeforeCompletion == \A h \in Handler : pc[h] = "complete" => key[h] \notin blobs

KeyIdentifies == \A e, f \in meta : e.key = f.key => e = f

-----------------------------------------------------------------------------
(* Types *)

LEMMA TypedInitially == Init => TypeOK /\ Shape
  <1> SUFFICES ASSUME Init PROVE TypeOK /\ Shape
    OBVIOUS
  <1>1. TypeOK
    BY DEF Init, TypeOK, RowState, Label
  <1>2. \A h \in Handler : ~Busy(h) /\ ~Early(h)
    BY AttachmentsAssumption
       DEF Init, Busy, Early, Discarding, Answer, AttachmentsAssumption
  <1> QED BY <1>1, <1>2 DEF Shape

\* What the steps of one handler have in common.
LEMMA StartTyped ==
    ASSUME TypeOK, NEW h \in Handler, NEW what \in {"upload", "remove", "download"},
           NEW request \in Request \cup {None}, NEW k \in Key \cup {None}, NEW label \in Label,
           NEW U, used \subseteq U, U \subseteq Key, k \in U \cup {None},
           Start(h, what, request, k, label)
    PROVE  /\ pc' \in [Handler -> Label]
           /\ key' \in [Handler -> U \cup {None}]
           /\ task' \in [Handler -> {"upload", "remove", "download", None}]
           /\ work' \in [Handler -> Request \cup {None}]
           /\ late' \in [Handler -> BOOLEAN]
           /\ answer' \in [Handler -> Answer \cup {None}]
  BY DEF TypeOK, Start, Goto

LEMMA TypedStep == TypeOK /\ Shape /\ [Next]_vars => TypeOK'
  <1> SUFFICES ASSUME TypeOK, Shape, [Next]_vars PROVE TypeOK'
    OBVIOUS
  <1> USE DEF TypeOK
  <1>1. CASE UNCHANGED vars
    BY <1>1 DEF vars, database, storage, handlers
  <1>2. ASSUME NEW h \in Handler, NEW request \in Request, NEW k \in Key, Reserve(h, request, k)
        PROVE  TypeOK'
    <2>1. Start(h, "upload", request, k, "reserved") /\ used' = used \cup {k}
      BY <1>2 DEF Reserve
    <2>2. row' \in [Key -> RowState]
      BY <1>2 DEF Reserve, SetRow, RowState
    <2>3. "reserved" \in Label
      BY DEF Label
    <2> QED BY <1>2, <2>1, <2>2, <2>3, StartTyped DEF Reserve, storage
  <1>3. ASSUME NEW h \in Handler, TurnAway(h)
        PROVE  TypeOK'
    <2>1. "idle" \in Label
      BY DEF Label
    <2> QED BY <1>3, <2>1, StartTyped DEF TurnAway, database, storage
  <1>4. ASSUME NEW h \in Handler, NEW e \in meta, RemoveAttachment(h, e) \/ FindAttachment(h, e)
        PROVE  TypeOK'
    <2>1. e.key \in used /\ {"discard", "open"} \subseteq Label
      BY DEF Label
    <2>2. row' \in [Key -> RowState]
      BY <1>4, <2>1 DEF RemoveAttachment, FindAttachment, SetRow, RowState, database
    <2> QED
      BY <1>4, <2>1, <2>2, StartTyped DEF RemoveAttachment, FindAttachment, database, storage
  <1>5. ASSUME NEW h \in Handler, WriteTemporary(h) \/ Rename(h) \/ PutFails(h)
        PROVE  TypeOK'
    <2>1. key[h] \in used
      BY <1>5 DEF WriteTemporary, Rename, PutFails, Shape, Busy, Early
    <2> QED
      BY <1>5, <2>1
         DEF WriteTemporary, Rename, PutFails, Goto, Abandon, Say, Label, Answer, database
  <1>6. ASSUME NEW h \in Handler, AddAttachment(h) \/ AddAttachmentUnacknowledged(h)
        PROVE  TypeOK'
    <2>1. /\ pc[h] = "stored" /\ Insert(h)
          /\ UNCHANGED <<storage, used, key, task, work, late, batch>>
      BY <1>6 DEF AddAttachment, AddAttachmentUnacknowledged
    <2>2. key[h] \in used /\ work[h] \in Request
      BY <2>1 DEF Shape, Busy, Early
    <2>3. meta' \subseteq [key: used, request: Request]
      BY <2>1, <2>2 DEF Insert
    <2>4. row' \in [Key -> RowState]
      BY <2>1, <2>2 DEF Insert, SetRow, RowState
    <2>5. pc' \in [Handler -> Label] /\ answer' \in [Handler -> Answer \cup {None}]
      BY <1>6 DEF AddAttachment, AddAttachmentUnacknowledged, Goto, Abandon, Say, Label, Answer
    <2> QED BY <2>1, <2>3, <2>4, <2>5 DEF storage
  <1>7. ASSUME NEW h \in Handler, ReplayUpload(h) \/ RefuseUpload(h)
        PROVE  TypeOK'
    <2>1. answer' \in [Handler -> Answer \cup {None}]
      BY <1>7 DEF ReplayUpload, RefuseUpload, Say, Answer
    <2> QED BY <1>7, <2>1 DEF ReplayUpload, RefuseUpload, Goto, Abandon, Label, database, storage
  <1>8. ASSUME NEW h \in Handler, DeleteBlob(h) \/ DeleteFails(h) \/ GiveUp(h)
        PROVE  TypeOK'
    BY <1>8 DEF DeleteBlob, DeleteFails, GiveUp, Goto, Label, database, storage
  <1>9. ASSUME NEW h \in Handler, QueueBlobCleanup(h) \/ CompleteBlobCleanupKey(h)
        PROVE  TypeOK'
    BY <1>9 DEF QueueBlobCleanup, CompleteBlobCleanupKey, SetRow, Goto, Label, RowState, storage
  <1>10. ASSUME NEW h \in Handler, OpenObject(h)
         PROVE  TypeOK'
    BY <1>10 DEF OpenObject, Goto, Abandon, Say, Label, Answer, database, storage
  <1>11. ASSUME NEW h \in Handler, Deadline(h) \/ CrashHandler(h)
         PROVE  TypeOK'
    BY <1>11 DEF Deadline, CrashHandler, Goto, Abandon, Say, Label, database, storage
  <1>12. CASE ReconcileBlobUploads
    BY <1>12 DEF ReconcileBlobUploads, RowState, storage, handlers
  <1>13. ASSUME NEW w \in Worker, ClaimBlobCleanup(w)
         PROVE  TypeOK'
    <2>1. row' \in [Key -> RowState]
      BY <1>13 DEF ClaimBlobCleanup, RowState
    <2>2. batch' \in [Worker -> SUBSET Key]
      BY <1>13 DEF ClaimBlobCleanup, RowState
    <2> QED BY <1>13, <2>1, <2>2 DEF ClaimBlobCleanup, storage, handlers
  <1>14. ASSUME NEW w \in Worker, NEW k \in Key, DeleteClaimed(w, k) \/ RetryBlobCleanup(w, k)
         PROVE  TypeOK'
    <2>1. row' \in [Key -> RowState]
      BY <1>14 DEF DeleteClaimed, RetryBlobCleanup, RowState
    <2> QED BY <1>14, <2>1 DEF DeleteClaimed, RetryBlobCleanup, storage, handlers
  <1>15. ASSUME NEW w \in Worker, CrashWorker(w)
         PROVE  TypeOK'
    BY <1>15 DEF CrashWorker, database, storage, handlers
  <1>16. ASSUME NEW k \in Key, GracePasses(k) \/ LeasePasses(k)
         PROVE  TypeOK'
    BY <1>16 DEF GracePasses, LeasePasses, SetRow, RowState, storage, handlers
  <1> QED
    BY <1>1, <1>2, <1>3, <1>4, <1>5, <1>6, <1>7, <1>8, <1>9, <1>10, <1>11, <1>12,
       <1>13, <1>14, <1>15, <1>16
       DEF Next, Arrive, Proceed, Clean

-----------------------------------------------------------------------------
(* Who holds which key *)

HandlerStep(h) == Arrive(h) \/ Proceed(h) \/ Deadline(h) \/ CrashHandler(h)

CleaningStep ==
    \/ ReconcileBlobUploads
    \/ \E w \in Worker : Clean(w) \/ CrashWorker(w)
    \/ \E k \in Key : GracePasses(k) \/ LeasePasses(k)

\* A handler that does not begin something new keeps its key and request, and
\* moves on along its path.
Moves(h) ==
    /\ UNCHANGED <<used, key, task, work>>
    /\ pc' \in [Handler -> Label]
    /\ \A g \in Handler : g # h => pc'[g] = pc[g] /\ late'[g] = late[g] /\ answer'[g] = answer[g]
    /\ pc'[h] \in {"reserved", "writing", "stored"} => Early(h) /\ (late[h] => late'[h])
    /\ (Discarding(h))' => Early(h) \/ Discarding(h)
    /\ pc'[h] = "open" => pc[h] = "open"
    /\ answer'[h] = "unavailable" => pc[h] = "open" \/ answer[h] = "unavailable"

LEMMA ProceedMoves ==
    ASSUME TypeOK, NEW h \in Handler, Proceed(h) \/ Deadline(h) \/ CrashHandler(h)
    PROVE  Moves(h)
  <1> USE AttachmentsAssumption
      DEF TypeOK, Moves, Early, Discarding, Goto, Abandon, Say, Label, Answer, AttachmentsAssumption
  <1>1. CASE WriteTemporary(h) \/ Rename(h) \/ PutFails(h)
    BY <1>1 DEF WriteTemporary, Rename, PutFails
  <1>2. CASE AddAttachment(h) \/ AddAttachmentUnacknowledged(h)
    BY <1>2 DEF AddAttachment, AddAttachmentUnacknowledged
  <1>3. CASE ReplayUpload(h)
    BY <1>3 DEF ReplayUpload
  <1>4. CASE RefuseUpload(h)
    BY <1>4 DEF RefuseUpload
  <1>5. CASE DeleteBlob(h) \/ DeleteFails(h) \/ GiveUp(h)
    BY <1>5 DEF DeleteBlob, DeleteFails, GiveUp
  <1>6. CASE QueueBlobCleanup(h) \/ CompleteBlobCleanupKey(h)
    BY <1>6 DEF QueueBlobCleanup, CompleteBlobCleanupKey
  <1>7. CASE OpenObject(h)
    BY <1>7 DEF OpenObject
  <1>8. CASE Deadline(h) \/ CrashHandler(h)
    BY <1>8 DEF Deadline, CrashHandler
  <1> QED BY <1>1, <1>2, <1>3, <1>4, <1>5, <1>6, <1>7, <1>8 DEF Proceed

LEMMA CleaningKeeps ==
    ASSUME CleaningStep
    PROVE  UNCHANGED <<meta, used, pc, key, task, work, late, answer>>
  <1>1. CASE ReconcileBlobUploads
    BY <1>1 DEF ReconcileBlobUploads, handlers
  <1>2. ASSUME NEW w \in Worker, Clean(w) \/ CrashWorker(w)
        PROVE  UNCHANGED <<meta, used, pc, key, task, work, late, answer>>
    BY <1>2 DEF Clean, CrashWorker, ClaimBlobCleanup, DeleteClaimed, RetryBlobCleanup,
                database, handlers
  <1>3. ASSUME NEW k \in Key, GracePasses(k) \/ LeasePasses(k)
        PROVE  UNCHANGED <<meta, used, pc, key, task, work, late, answer>>
    BY <1>3 DEF GracePasses, LeasePasses, handlers
  <1> QED BY <1>1, <1>2, <1>3 DEF CleaningStep

\* A handler begins: with a fresh key, with the key of an attachment that is
\* listed, or not at all.
Begins(h) ==
    /\ \A g \in Handler : g # h =>
         /\ pc'[g] = pc[g] /\ late'[g] = late[g] /\ answer'[g] = answer[g]
         /\ key'[g] = key[g] /\ work'[g] = work[g]
    /\ answer'[h] = None
    /\ used \subseteq used'
    /\ \/ /\ pc'[h] = "reserved" /\ ~late'[h]
          /\ key'[h] \notin used /\ used' = used \cup {key'[h]}
          /\ work'[h] \in Request
          /\ meta' = meta
       \/ /\ pc'[h] = "idle" /\ meta' = meta
       \/ /\ pc'[h] = "discard" /\ used' = used
          /\ \E e \in meta : key'[h] = e.key /\ meta' = meta \ {e}
       \/ /\ pc'[h] = "open" /\ used' = used /\ meta' = meta
          /\ Referenced(key'[h])

LEMMA ArriveBegins ==
    ASSUME TypeOK, NEW h \in Handler, Arrive(h)
    PROVE  Begins(h)
  <1> USE DEF TypeOK, Begins, Start, Goto
  <1>1. ASSUME NEW request \in Request, NEW k \in Key, Reserve(h, request, k)
        PROVE  Begins(h)
    BY <1>1 DEF Reserve
  <1>2. CASE TurnAway(h)
    BY <1>2 DEF TurnAway, database
  <1>3. ASSUME NEW e \in meta, RemoveAttachment(h, e)
        PROVE  Begins(h)
    BY <1>3 DEF RemoveAttachment
  <1>4. ASSUME NEW e \in meta, FindAttachment(h, e)
        PROVE  Begins(h)
    BY <1>4 DEF FindAttachment, Referenced, database
  <1> QED BY <1>1, <1>2, <1>3, <1>4 DEF Arrive

\* What a step does to the metadata.
LEMMA MetaSteps ==
    ASSUME TypeOK, NEW h \in Handler, Proceed(h) \/ Deadline(h) \/ CrashHandler(h)
    PROVE  \/ meta' = meta
           \/ /\ pc[h] = "stored" /\ ~late[h] /\ Earlier(work[h]) = {}
              /\ meta' = meta \cup {[key |-> key[h], request |-> work[h]]}
              /\ row' = [row EXCEPT ![key[h]] = "none"]
              /\ blobs' = blobs /\ batch' = batch
              /\ pc'[h] # "open" /\ ~(Early(h))'
  <1>1. CASE AddAttachment(h) \/ AddAttachmentUnacknowledged(h)
    BY <1>1 DEF AddAttachment, AddAttachmentUnacknowledged, Insert, SetRow, storage,
                TypeOK, Goto, Early
  <1>2. CASE ~AddAttachment(h) /\ ~AddAttachmentUnacknowledged(h)
    BY <1>2 DEF Proceed, WriteTemporary, Rename, PutFails, ReplayUpload, RefuseUpload,
                DeleteBlob, DeleteFails, QueueBlobCleanup, CompleteBlobCleanupKey, GiveUp,
                OpenObject, Deadline, CrashHandler, database
  <1> QED BY <1>1, <1>2

\* Keys: whose they are, and what refers to them.
Keys == Shape /\ KeysApart /\ NotYetReferenced /\ KeyIdentifies

LEMMA KeysStep ==
    ASSUME TypeOK, Keys, [Next]_vars
    PROVE  Keys'
  <1> USE DEF Keys
  <1>1. ASSUME NEW h \in Handler, Arrive(h)
        PROVE  Keys'
    <2>1. Begins(h)
      BY <1>1, ArriveBegins
    <2>2. /\ \A e \in meta : e.key \in used
          /\ \A g \in Handler : Early(g) => ~Referenced(key[g])
          /\ None # "unavailable"
      BY AttachmentsAssumption DEF TypeOK, NotYetReferenced, AttachmentsAssumption, Answer
    <2>3. \A g \in Handler : g # h => (Early(g))' = Early(g) /\ (Busy(g))' = Busy(g)
      BY <2>1 DEF Begins, Early, Busy, Discarding
    <2>4. CASE pc'[h] = "reserved"
      <3>1. /\ meta' = meta /\ key'[h] \notin used /\ key'[h] \in used'
            /\ used \subseteq used' /\ work'[h] \in Request
        BY <2>1, <2>4 DEF Begins
      <3>2. Shape'
        BY <2>1, <2>3, <3>1 DEF Begins, Shape
      <3>3. KeysApart'
        BY <2>1, <2>3, <3>1 DEF Begins, KeysApart, Shape, Busy
      <3>4. NotYetReferenced' /\ KeyIdentifies'
        BY <2>1, <2>2, <2>3, <3>1 DEF Begins, NotYetReferenced, KeyIdentifies, Referenced
      <3> QED BY <3>2, <3>3, <3>4
    <2>5. CASE pc'[h] # "reserved"
      <3>1. ~(Early(h))' /\ meta' \subseteq meta /\ used \subseteq used'
        BY <2>1, <2>5 DEF Begins, Early
      <3>2. (Busy(h))' => key'[h] \in used /\ Referenced(key'[h])
        BY <2>1, <2>2, <2>5 DEF Begins, Busy, Early, Discarding, Referenced
      <3>3. Shape'
        BY <2>1, <2>3, <3>1, <3>2 DEF Begins, Shape
      <3>4. KeysApart'
        BY <2>1, <2>2, <2>3, <3>1, <3>2 DEF Begins, KeysApart
      <3>5. NotYetReferenced' /\ KeyIdentifies'
        BY <2>1, <2>3, <3>1 DEF Begins, NotYetReferenced, KeyIdentifies, Referenced
      <3> QED BY <3>3, <3>4, <3>5
    <2> QED BY <2>4, <2>5
  <1>2. ASSUME NEW h \in Handler, Proceed(h) \/ Deadline(h) \/ CrashHandler(h)
        PROVE  Keys'
    <2>1. Moves(h)
      BY <1>2, ProceedMoves
    <2>2. \A g \in Handler : ((Early(g))' => Early(g)) /\ ((Busy(g))' => Busy(g))
      BY <2>1 DEF Moves, Early, Busy, Discarding
    <2>3. Shape' /\ KeysApart'
      BY <2>1, <2>2 DEF Moves, Shape, KeysApart
    <2>4. CASE meta' = meta
      BY <2>1, <2>2, <2>3, <2>4 DEF Moves, NotYetReferenced, KeyIdentifies, Referenced
    <2>5. CASE /\ pc[h] = "stored" /\ ~(Early(h))'
               /\ meta' = meta \cup {[key |-> key[h], request |-> work[h]]}
      <3>1. Early(h) /\ Busy(h) /\ ~Referenced(key[h])
        BY <2>5 DEF Early, Busy, NotYetReferenced
      <3>2. KeyIdentifies'
        BY <2>5, <3>1 DEF KeyIdentifies, Referenced
      <3>3. NotYetReferenced'
        <4>1. ASSUME NEW g \in Handler, (Early(g))'
              PROVE  ~(Referenced(key[g]))'
          <5>1. Early(g) /\ g # h
            BY <2>2, <2>5, <4>1
          <5>2. key[g] # key[h] /\ ~Referenced(key[g])
            BY <3>1, <5>1 DEF KeysApart, NotYetReferenced
          <5> QED BY <2>1, <2>5, <5>2 DEF Referenced, Moves
        <4> QED BY <2>1, <4>1 DEF NotYetReferenced, Moves
      <3> QED BY <2>3, <3>2, <3>3
    <2> QED BY <1>2, <2>4, <2>5, MetaSteps
  <1>3. CASE CleaningStep \/ UNCHANGED vars
    <2>1. UNCHANGED <<meta, used, pc, key, task, work, late, answer>>
      BY <1>3, CleaningKeeps DEF vars, database, handlers
    <2> QED
      BY <2>1 DEF Shape, KeysApart, NotYetReferenced, KeyIdentifies, Early, Busy,
                  Discarding, Referenced
  <1> QED BY <1>1, <1>2, <1>3 DEF Next, CleaningStep

-----------------------------------------------------------------------------
(* Rows, bytes and claims *)

\* What a handler does to its own key, and that it leaves the others alone.
Handles(h) ==
    /\ batch' = batch
    /\ \A k \in Key : k # key[h] => row'[k] = row[k] /\ (k \in blobs' <=> k \in blobs)
    /\ (Flying(h))' => Flying(h) /\ row' = row
    /\ (Flying(h))' /\ pc'[h] = "stored" => key[h] \in blobs'
    /\ pc'[h] = "complete" => key[h] \notin blobs'
    /\ row' = row \/ pc[h] \in {"queue", "complete"} \/ meta' # meta
    /\ \A k \in blobs' \ blobs : k = key[h] /\ Flying(h) /\ row' = row
    /\ \A k \in blobs \ blobs' : k = key[h] /\ Discarding(h) /\ row' = row
    /\ \A k \in Key : row'[k] = "none" =>
         row[k] = "none" \/ (k = key[h] /\ (pc[h] = "complete" \/ meta' # meta))
    /\ pc[h] \in {"queue", "complete"} => blobs' = blobs /\ meta' = meta

LEMMA ProceedHandles ==
    ASSUME TypeOK, Shape, NEW h \in Handler, Proceed(h) \/ Deadline(h) \/ CrashHandler(h)
    PROVE  Handles(h)
  <1> USE DEF TypeOK, Handles, Flying, Early, Discarding, Goto, Abandon
  <1>1. CASE WriteTemporary(h) \/ Rename(h) \/ PutFails(h)
    BY <1>1 DEF WriteTemporary, Rename, PutFails, database
  <1>2. CASE AddAttachment(h) \/ AddAttachmentUnacknowledged(h)
    <2>1. /\ pc[h] = "stored" /\ Insert(h) /\ pc'[h] \in {"idle", "discard"}
          /\ UNCHANGED <<storage, batch>> /\ Earlier(work[h]) = {}
      BY <1>2 DEF AddAttachment, AddAttachmentUnacknowledged
    <2>2. key[h] \in Key
      BY <2>1 DEF Shape, Busy
    <2>3. [key |-> key[h], request |-> work[h]] \notin meta
      BY <2>1 DEF Earlier, SameRequest
    <2>4. meta' # meta
      BY <2>1, <2>3 DEF Insert
    <2> QED BY <2>1, <2>2, <2>4 DEF Insert, SetRow, storage
  <1>3. CASE ReplayUpload(h) \/ RefuseUpload(h) \/ OpenObject(h)
    BY <1>3 DEF ReplayUpload, RefuseUpload, OpenObject, database, storage
  <1>4. CASE DeleteBlob(h) \/ DeleteFails(h) \/ GiveUp(h)
    BY <1>4 DEF DeleteBlob, DeleteFails, GiveUp, database, storage
  <1>5. CASE QueueBlobCleanup(h) \/ CompleteBlobCleanupKey(h)
    BY <1>5 DEF QueueBlobCleanup, CompleteBlobCleanupKey, SetRow, storage
  <1>6. CASE Deadline(h) \/ CrashHandler(h)
    BY <1>6 DEF Deadline, CrashHandler, database, storage
  <1> QED BY <1>1, <1>2, <1>3, <1>4, <1>5, <1>6 DEF Proceed

\* What the workers and the clock do: a claim is made on what is due, bytes
\* go only from under a claim, and a row goes with its bytes.
Cleans ==
    /\ blobs' \subseteq blobs
    /\ \A k \in Key :
         /\ row[k] = "none" => row'[k] = "none"
         /\ row[k] # "none" /\ row'[k] = "none" => k \notin blobs'
         /\ row'[k] # row[k] => \/ row[k] \in {"stale", "due", "waiting"}
                                \/ \E w \in Worker : k \in batch[w]
                                \/ ~InFlight(k)
         /\ k \in blobs \ blobs' => \E w \in Worker : k \in batch[w]
         /\ \A w \in Worker : k \in batch'[w] => k \in batch[w] \/ row[k] = "due"

LEMMA CleaningCleans ==
    ASSUME TypeOK, CleaningStep
    PROVE  Cleans
  <1> USE DEF TypeOK, Cleans
  <1>1. CASE ReconcileBlobUploads
    BY <1>1 DEF ReconcileBlobUploads, storage
  <1>2. ASSUME NEW w \in Worker, ClaimBlobCleanup(w)
        PROVE  Cleans
    BY <1>2 DEF ClaimBlobCleanup, storage
  <1>3. ASSUME NEW w \in Worker, NEW k \in Key, DeleteClaimed(w, k)
        PROVE  Cleans
    BY <1>3 DEF DeleteClaimed
  <1>4. ASSUME NEW w \in Worker, NEW k \in Key, RetryBlobCleanup(w, k)
        PROVE  Cleans
    BY <1>4 DEF RetryBlobCleanup, storage
  <1>5. ASSUME NEW w \in Worker, CrashWorker(w)
        PROVE  Cleans
    BY <1>5 DEF CrashWorker, database, storage
  <1>6. ASSUME NEW k \in Key, GracePasses(k) \/ LeasePasses(k)
        PROVE  Cleans
    BY <1>6 DEF GracePasses, LeasePasses, SetRow, storage
  <1> QED BY <1>1, <1>2, <1>3, <1>4, <1>5, <1>6 DEF CleaningStep, Clean

\* Beginning changes a row only together with the key it is about.
Admits(h) ==
    /\ batch' = batch /\ blobs' = blobs
    /\ \/ row' = row /\ meta' = meta /\ pc'[h] \in {"idle", "open"}
       \/ /\ pc'[h] = "reserved" /\ key'[h] \in Key /\ key'[h] \notin used
          /\ meta' = meta /\ row' = [row EXCEPT ![key'[h]] = "uploading"]
       \/ /\ pc'[h] = "discard" /\ key'[h] \in used
          /\ row' = [row EXCEPT ![key'[h]] = "due"]
          /\ \E e \in meta : key'[h] = e.key /\ meta' = meta \ {e}

LEMMA ArriveAdmits ==
    ASSUME TypeOK, NEW h \in Handler, Arrive(h)
    PROVE  Admits(h)
  <1> USE DEF TypeOK, Admits, Start, Goto, SetRow, storage, database
  <1>1. ASSUME NEW request \in Request, NEW k \in Key, Reserve(h, request, k)
        PROVE  Admits(h)
    BY <1>1 DEF Reserve
  <1>2. CASE TurnAway(h)
    BY <1>2 DEF TurnAway
  <1>3. ASSUME NEW e \in meta, RemoveAttachment(h, e)
        PROVE  Admits(h)
    BY <1>3 DEF RemoveAttachment
  <1>4. ASSUME NEW e \in meta, FindAttachment(h, e)
        PROVE  Admits(h)
    BY <1>4 DEF FindAttachment
  <1> QED BY <1>1, <1>2, <1>3, <1>4 DEF Arrive

\* Bytes are on record.
Records == OnlyUsed /\ Protected /\ DeletedBeforeCompletion /\ NoUntrackedBlob

LEMMA RecordsArrive ==
    ASSUME TypeOK, Keys, Records, NEW h \in Handler, Arrive(h)
    PROVE  Records'
  <1> USE DEF TypeOK, Keys, Records
  <1>1. Begins(h) /\ Admits(h)
    BY ArriveBegins, ArriveAdmits
  <1>2. /\ used \subseteq used'
        /\ \A g \in Handler : g # h => pc'[g] = pc[g] /\ late'[g] = late[g] /\ key'[g] = key[g]
    BY <1>1 DEF Begins
  <1>3. OnlyUsed'
    BY <1>1, <1>2 DEF Begins, Admits, OnlyUsed
  <1>4. DeletedBeforeCompletion'
    BY <1>1, <1>2 DEF Begins, Admits, DeletedBeforeCompletion
  <1>5. NoUntrackedBlob'
    BY <1>1 DEF Admits, NoUntrackedBlob, Referenced
  <1>6. ASSUME NEW g \in Handler, g # h, (Flying(g))'
        PROVE  /\ row'[key'[g]] = "uploading"
               /\ \A w \in Worker : key'[g] \notin batch'[w]
               /\ pc'[g] = "stored" => key'[g] \in blobs'
    <2>1. Flying(g) /\ key'[g] = key[g] /\ key[g] \in used
      BY <1>2, <1>6 DEF Flying, Early, Shape, Busy
    <2>2. ~Referenced(key[g])
      BY <2>1 DEF NotYetReferenced, Flying
    <2>3. row'[key[g]] = row[key[g]]
      BY <1>1, <2>1, <2>2 DEF Admits, Referenced
    <2> QED BY <1>1, <1>2, <2>1, <2>3 DEF Admits, Protected
  <1>7. ASSUME (Flying(h))'
        PROVE  /\ row'[key'[h]] = "uploading"
               /\ \A w \in Worker : key'[h] \notin batch'[w]
               /\ pc'[h] = "stored" => key'[h] \in blobs'
    BY <1>1, <1>7 DEF Admits, Flying, Early, OnlyUsed
  <1>8. Protected'
    BY <1>6, <1>7 DEF Protected
  <1> QED BY <1>3, <1>4, <1>5, <1>8

LEMMA RecordsProceed ==
    ASSUME TypeOK, Keys, Records, NEW h \in Handler,
           Proceed(h) \/ Deadline(h) \/ CrashHandler(h)
    PROVE  Records'
  <1> USE DEF TypeOK, Keys, Records
  <1>1. Moves(h) /\ Handles(h)
    BY ProceedMoves, ProceedHandles
  <1>2. /\ used' = used /\ key' = key
        /\ \A g \in Handler : g # h => pc'[g] = pc[g] /\ late'[g] = late[g]
    BY <1>1 DEF Moves
  <1>3. meta' = meta \/ (meta' = meta \cup {[key |-> key[h], request |-> work[h]]} /\ Early(h))
    BY MetaSteps DEF Early
  <1>4. row' = row \/ key[h] \in used
    BY <1>1, <1>3 DEF Handles, Shape, Busy, Discarding
  <1>5. OnlyUsed'
    BY <1>1, <1>2, <1>4 DEF Handles, OnlyUsed
  <1>6. DeletedBeforeCompletion'
    <2>1. ASSUME NEW g \in Handler, g # h, pc'[g] = "complete"
          PROVE  key[g] \notin blobs'
      <3>1. pc[g] = "complete" /\ Busy(g) /\ key[g] \notin blobs
        BY <1>2, <2>1 DEF DeletedBeforeCompletion, Busy, Discarding
      <3>2. key[g] \notin blobs' \ blobs
        BY <1>1, <2>1, <3>1 DEF Handles, KeysApart, Flying
      <3> QED BY <3>1, <3>2
    <2> QED BY <1>1, <1>2, <2>1 DEF DeletedBeforeCompletion, Handles
  <1>7. NoUntrackedBlob'
    <2>1. meta \subseteq meta'
      BY <1>3
    <2>2. meta' # meta => \E e \in meta' : e.key = key[h]
      <3> SUFFICES ASSUME meta' # meta PROVE \E e \in meta' : e.key = key[h]
        OBVIOUS
      <3>1. [key |-> key[h], request |-> work[h]] \in meta'
        BY <1>3
      <3> QED BY <3>1
    <2>3. ASSUME NEW k \in blobs', row'[k] = "none"
          PROVE  \E e \in meta' : e.key = k
      <3>1. CASE k \notin blobs
        BY <1>1, <2>3, <3>1 DEF Handles, Protected
      <3>2. CASE k \in blobs /\ row[k] = "none"
        BY <2>1, <3>2 DEF NoUntrackedBlob, Referenced
      <3>3. CASE k \in blobs /\ row[k] # "none"
        <4>1. k = key[h] /\ (pc[h] = "complete" \/ meta' # meta)
          BY <1>1, <2>3, <3>3 DEF Handles
        <4>2. pc[h] # "complete"
          BY <3>3, <4>1 DEF DeletedBeforeCompletion
        <4> QED BY <2>2, <4>1, <4>2
      <3> QED BY <3>1, <3>2, <3>3
    <2> QED BY <2>3 DEF NoUntrackedBlob, Referenced
  <1>8. Protected'
    <2>1. ASSUME NEW g \in Handler, g # h, (Flying(g))'
          PROVE  /\ row'[key[g]] = "uploading"
                 /\ \A w \in Worker : key[g] \notin batch'[w]
                 /\ pc'[g] = "stored" => key[g] \in blobs'
      <3>1. Flying(g) /\ Early(g) /\ key[g] \in Key
        BY <1>2, <2>1 DEF Flying, Early, Shape, Busy
      <3>2. row' = row \/ Busy(h)
        BY <1>1, <1>3 DEF Handles, Busy, Discarding
      <3>3. Busy(h) => key[h] # key[g]
        BY <2>1, <3>1 DEF KeysApart
      <3>4. row'[key[g]] = row[key[g]] /\ batch' = batch
        BY <1>1, <3>1, <3>2, <3>3 DEF Handles
      <3>5. key[g] \notin blobs \ blobs'
        BY <1>1, <3>3 DEF Handles, Busy
      <3> QED BY <1>2, <2>1, <3>1, <3>4, <3>5 DEF Protected
    <2>2. ASSUME (Flying(h))'
          PROVE  /\ row'[key[h]] = "uploading"
                 /\ \A w \in Worker : key[h] \notin batch'[w]
                 /\ pc'[h] = "stored" => key[h] \in blobs'
      BY <1>1, <2>2 DEF Handles, Protected
    <2> QED BY <1>2, <2>1, <2>2 DEF Protected
  <1> QED BY <1>5, <1>6, <1>7, <1>8

LEMMA RecordsClean ==
    ASSUME TypeOK, Keys, Records, CleaningStep
    PROVE  Records'
  <1> USE DEF TypeOK, Keys, Records
  <1>1. Cleans /\ UNCHANGED <<meta, used, pc, key, task, work, late, answer>>
    BY CleaningCleans, CleaningKeeps
  <1>2. batch' \in [Worker -> SUBSET Key]
    BY TypedStep DEF CleaningStep, Next
  <1>3. OnlyUsed'
    BY <1>1, <1>2 DEF Cleans, OnlyUsed
  <1>4. DeletedBeforeCompletion' /\ NoUntrackedBlob'
    BY <1>1 DEF Cleans, DeletedBeforeCompletion, NoUntrackedBlob, Referenced
  <1>5. ASSUME NEW h \in Handler, Flying(h)
        PROVE  /\ row'[key[h]] = "uploading"
               /\ \A w \in Worker : key[h] \notin batch'[w]
               /\ pc[h] = "stored" => key[h] \in blobs'
    <2>1. key[h] \in Key /\ InFlight(key[h])
      BY <1>5 DEF Shape, Busy, Flying, Early, InFlight
    <2> QED BY <1>1, <1>2, <1>5, <2>1 DEF Cleans, Protected
  <1>6. Protected'
    BY <1>1, <1>5 DEF Protected, Flying, Early
  <1> QED BY <1>3, <1>4, <1>6

LEMMA RecordsStep ==
    ASSUME TypeOK, Keys, Records, [Next]_vars
    PROVE  Records'
  <1>1. CASE UNCHANGED vars
    BY <1>1 DEF vars, database, storage, handlers, Records, OnlyUsed, Protected, Flying, Early,
                DeletedBeforeCompletion, NoUntrackedBlob, Referenced
  <1> QED BY <1>1, RecordsArrive, RecordsProceed, RecordsClean DEF Next, CleaningStep

-----------------------------------------------------------------------------
(* One attachment per request *)

LEMMA OneAttachmentStep ==
    ASSUME TypeOK, OneAttachmentPerRequest, [Next]_vars
    PROVE  OneAttachmentPerRequest'
  <1>1. CASE meta' \subseteq meta
    BY <1>1 DEF OneAttachmentPerRequest, SameRequest
  <1>2. ASSUME NEW h \in Handler, Earlier(work[h]) = {},
               meta' = meta \cup {[key |-> key[h], request |-> work[h]]}
        PROVE  OneAttachmentPerRequest'
    <2> DEFINE new == [key |-> key[h], request |-> work[h]]
    <2>1. \A e \in meta : ~SameRequest(e, new.request)
      BY <1>2 DEF Earlier
    <2>2. \A e \in meta : ~SameRequest(new, e.request)
      BY <2>1 DEF SameRequest
    <2>3. \A e, f \in meta : SameRequest(e, f.request) => e = f
      BY DEF OneAttachmentPerRequest
    <2>4. meta' = meta \cup {new}
      BY <1>2
    <2> HIDE DEF new
    <2>5. \A e, f \in meta' : SameRequest(e, f.request) => e = f
      BY <2>1, <2>2, <2>3, <2>4
    <2> QED BY <2>5 DEF OneAttachmentPerRequest, SameRequest
  <1>3. ASSUME NEW h \in Handler, Arrive(h)
        PROVE  meta' \subseteq meta
    BY <1>3, ArriveBegins DEF Begins
  <1>4. ASSUME CleaningStep \/ UNCHANGED vars
        PROVE  meta' \subseteq meta
    BY <1>4, CleaningKeeps DEF vars, database
  <1> QED BY <1>1, <1>2, <1>3, <1>4, MetaSteps DEF Next, CleaningStep

-----------------------------------------------------------------------------
(* Attachments keep their bytes, but for those whose commit was reported   *)
(* as failed.                                                              *)

\* A handler that discards bytes discards none that somebody may rely on.
Condemned == \A h \in Handler : Discarding(h) => ~Kept(key[h])

\* What is listed is beyond the workers' reach and has its bytes.
Listed ==
    \A e \in meta : Acknowledged(e) =>
      /\ row[e.key] = "none"
      /\ \A w \in Worker : e.key \notin batch[w]
      /\ e.key \in blobs

Bytes == Condemned /\ Listed /\ DownloadsFindBytes

LEMMA BytesArrive ==
    ASSUME TypeOK, Keys, Records, Bytes, NEW h \in Handler, Arrive(h)
    PROVE  Bytes'
  <1> USE DEF TypeOK, Keys, Records, Bytes
  <1>1. Begins(h) /\ Admits(h)
    BY ArriveBegins, ArriveAdmits
  <1>2. \A g \in Handler : g # h => pc'[g] = pc[g] /\ key'[g] = key[g] /\ answer'[g] = answer[g]
    BY <1>1 DEF Begins
  <1>3. meta' \subseteq meta
    BY <1>1 DEF Begins
  <1>4. Condemned'
    <2>1. ASSUME NEW g \in Handler, g # h, (Discarding(g))'
          PROVE  ~(\E e \in meta' : e.key = key'[g] /\ Acknowledged(e))
      BY <1>2, <1>3, <2>1 DEF Condemned, Kept, Discarding
    <2>2. ASSUME (Discarding(h))'
          PROVE  ~(\E e \in meta' : e.key = key'[h] /\ Acknowledged(e))
      <3>1. \E e \in meta : key'[h] = e.key /\ meta' = meta \ {e}
        BY <1>1, <2>2 DEF Admits, Discarding
      <3> QED BY <3>1 DEF KeyIdentifies
    <2> QED BY <2>1, <2>2 DEF Condemned, Kept, Discarding, Acknowledged
  <1>5. Listed'
    <2>1. ASSUME NEW e \in meta'
          PROVE  row'[e.key] = row[e.key]
      BY <1>1, <1>3 DEF Admits, KeyIdentifies
    <2> QED BY <1>1, <1>3, <2>1 DEF Listed, Admits, Acknowledged
  <1>6. DownloadsFindBytes'
    <2>1. None # "unavailable"
      BY AttachmentsAssumption DEF AttachmentsAssumption, Answer
    <2>2. answer'[h] = None
      BY <1>1 DEF Begins
    <2> QED BY <1>2, <1>3, <2>1, <2>2 DEF DownloadsFindBytes, Kept, Acknowledged
  <1> QED BY <1>4, <1>5, <1>6

LEMMA BytesProceed ==
    ASSUME TypeOK, Keys, Records, Bytes, NEW h \in Handler,
           Proceed(h) \/ Deadline(h) \/ CrashHandler(h)
    PROVE  Bytes'
  <1> USE DEF TypeOK, Keys, Records, Bytes
  <1>1. Moves(h) /\ Handles(h)
    BY ProceedMoves, ProceedHandles
  <1>2. /\ key' = key
        /\ \A g \in Handler : g # h => pc'[g] = pc[g] /\ answer'[g] = answer[g]
    BY <1>1 DEF Moves
  <1>3. CASE meta' # meta
    <2>1. /\ pc[h] = "stored" /\ ~late[h]
          /\ meta' = meta \cup {[key |-> key[h], request |-> work[h]]}
          /\ row' = [row EXCEPT ![key[h]] = "none"]
          /\ blobs' = blobs /\ batch' = batch
      BY <1>3, MetaSteps
    <2> DEFINE new == [key |-> key[h], request |-> work[h]]
    <2>2. Early(h) /\ Flying(h) /\ Busy(h) /\ key[h] \in Key
      BY <2>1 DEF Early, Flying, Shape, Busy
    <2>3. /\ answer'[h] # "unavailable"
          /\ Acknowledged(new) => pc'[h] = "idle"
      BY <1>3, <2>1 DEF Proceed, WriteTemporary, Rename, PutFails, AddAttachment, ReplayUpload,
         RefuseUpload, AddAttachmentUnacknowledged, DeleteBlob, DeleteFails, QueueBlobCleanup,
         CompleteBlobCleanupKey, GiveUp, OpenObject, Deadline, CrashHandler, database, Goto, Abandon, Say,
         Acknowledged
    <2>4. \A g \in Handler : g # h /\ Busy(g) => key[g] # key[h]
      BY <2>2 DEF KeysApart
    <2>5. ~Kept(key[h])
      BY <2>2 DEF NotYetReferenced, Referenced, Kept
    <2>6. ASSUME NEW k \in Key \cup {None}, \E e \in meta' : e.key = k /\ Acknowledged(e)
          PROVE  Kept(k) \/ (k = key[h] /\ Acknowledged(new))
      <3>1. PICK e \in meta' : e.key = k /\ Acknowledged(e)
        BY <2>6
      <3>2. CASE e \in meta
        BY <3>1, <3>2 DEF Kept
      <3>3. CASE e = new
        BY <3>1, <3>3
      <3> QED BY <2>1, <3>2, <3>3
    <2>7. \A g \in Handler : key[g] \in Key \cup {None}
      OBVIOUS
    <2>8. Condemned'
      <3>1. ASSUME NEW g \in Handler, g # h, (Discarding(g))'
            PROVE  ~(\E e \in meta' : e.key = key[g] /\ Acknowledged(e))
        <4>1. Discarding(g) /\ Busy(g)
          BY <1>2, <3>1 DEF Discarding, Busy
        <4> QED BY <2>4, <2>6, <2>7, <3>1, <4>1 DEF Condemned
      <3>2. ASSUME (Discarding(h))'
            PROVE  ~(\E e \in meta' : e.key = key[h] /\ Acknowledged(e))
        BY <2>2, <2>3, <2>5, <2>6, <3>2 DEF Discarding
      <3> QED BY <1>2, <3>1, <3>2 DEF Condemned, Kept, Acknowledged
    <2>9. Listed'
      BY <2>1, <2>2 DEF Listed, Protected, Acknowledged
    <2>10. DownloadsFindBytes'
      <3>1. ASSUME NEW g \in Handler, answer'[g] = "unavailable"
            PROVE  ~(\E e \in meta' : e.key = key[g] /\ Acknowledged(e))
        <4>1. g # h /\ answer[g] = "unavailable" /\ Busy(g)
          BY <1>2, <2>3, <3>1 DEF Busy
        <4> QED BY <2>4, <2>6, <2>7, <4>1 DEF DownloadsFindBytes
      <3> QED BY <1>2, <3>1 DEF DownloadsFindBytes, Kept, Acknowledged
    <2> QED BY <2>8, <2>9, <2>10
  <1>4. CASE meta' = meta
    <2>1. Condemned'
      BY <1>1, <1>2, <1>4 DEF Condemned, Moves, NotYetReferenced, Referenced, Kept, Discarding
    <2>2. Listed'
      <3>1. ASSUME NEW e \in meta, Acknowledged(e)
            PROVE  row'[e.key] = row[e.key] /\ e.key \in blobs'
        <4>1. pc[h] \in {"queue", "complete"} => e.key # key[h]
          BY <3>1 DEF Condemned, Discarding, Kept
        <4>2. row'[e.key] = row[e.key]
          BY <1>1, <1>4, <4>1 DEF Handles
        <4>3. e.key \notin blobs \ blobs'
          BY <1>1, <3>1 DEF Handles, Condemned, Kept
        <4> QED BY <3>1, <4>2, <4>3 DEF Listed
      <3> QED BY <1>1, <1>4, <3>1 DEF Listed, Handles, Acknowledged
    <2>3. DownloadsFindBytes'
      <3>1. ASSUME NEW g \in Handler, answer'[g] = "unavailable", answer[g] # "unavailable"
            PROVE  ~Kept(key[g])
        <4>1. g = h /\ OpenObject(h)
          BY <1>2, <3>1, AttachmentsAssumption DEF AttachmentsAssumption, Proceed, WriteTemporary,
             Rename, PutFails, AddAttachment, ReplayUpload, RefuseUpload,
             AddAttachmentUnacknowledged, DeleteBlob, DeleteFails, QueueBlobCleanup,
             CompleteBlobCleanupKey, GiveUp, Deadline, CrashHandler, Say, Answer
        <4>2. key[h] \notin blobs
          BY <3>1, <4>1 DEF OpenObject, Say
        <4> QED BY <4>1, <4>2 DEF Listed, Kept
      <3> QED BY <1>2, <1>4, <3>1 DEF DownloadsFindBytes, Kept, Acknowledged
    <2> QED BY <2>1, <2>2, <2>3
  <1> QED BY <1>3, <1>4

LEMMA BytesStep ==
    ASSUME TypeOK, Keys, Records, Bytes, [Next]_vars
    PROVE  Bytes'
  <1> USE DEF TypeOK, Bytes
  <1>1. CASE CleaningStep
    <2>1. Cleans /\ UNCHANGED <<meta, used, pc, key, task, work, late, answer>>
      BY <1>1, CleaningCleans, CleaningKeeps
    <2>2. Listed'
      BY <2>1 DEF Listed, Cleans, Acknowledged
    <2>3. Condemned' /\ DownloadsFindBytes'
      BY <2>1 DEF Condemned, DownloadsFindBytes, Discarding, Kept, Acknowledged
    <2> QED BY <2>2, <2>3
  <1>2. CASE UNCHANGED vars
    BY <1>2 DEF vars, database, storage, handlers, Condemned, Listed, DownloadsFindBytes,
                Discarding, Kept, Acknowledged
  <1> QED BY <1>1, <1>2, BytesArrive, BytesProceed DEF Next, CleaningStep

-----------------------------------------------------------------------------
(* The theorems *)

LEMMA Initially ==
    ASSUME Init
    PROVE  TypeOK /\ Keys /\ Records /\ OneAttachmentPerRequest /\ Bytes
  <1>1. TypeOK /\ Shape
    BY TypedInitially
  <1>2. \A h \in Handler : ~Early(h) /\ ~Discarding(h) /\ answer[h] # "unavailable"
    BY AttachmentsAssumption DEF Init, Early, Discarding, Answer, AttachmentsAssumption
  <1>3. Keys
    BY <1>1, <1>2 DEF Init, Keys, KeysApart, NotYetReferenced, KeyIdentifies
  <1>4. Records
    BY <1>2 DEF Init, Records, OnlyUsed, Protected, Flying, DeletedBeforeCompletion,
                Discarding, NoUntrackedBlob
  <1>5. OneAttachmentPerRequest /\ Bytes
    BY <1>2 DEF Init, OneAttachmentPerRequest, Bytes, Condemned, Listed, DownloadsFindBytes
  <1> QED BY <1>1, <1>3, <1>4, <1>5

\* Whatever crashes and in whatever order handlers and workers run: rows,
\* keys and handlers keep their shape, and only reserved keys are in use.
THEOREM TypeCorrect == Spec => []TypeOK
  <1>1. Init => TypeOK /\ Keys
    BY Initially
  <1>2. TypeOK /\ Keys /\ [Next]_vars => (TypeOK /\ Keys)'
    BY TypedStep, KeysStep DEF Keys
  <1> QED BY <1>1, <1>2, PTL DEF Spec

\* Bytes nobody refers to always have a row a worker finds them by, even when
\* commits are reported as failed.
THEOREM BytesAreTracked == Spec => []NoUntrackedBlob
  <1>1. Init => TypeOK /\ Keys /\ Records
    BY Initially
  <1>2. TypeOK /\ Keys /\ Records /\ [Next]_vars => (TypeOK /\ Keys /\ Records)'
    BY TypedStep, KeysStep, RecordsStep DEF Keys
  <1>3. Records => NoUntrackedBlob
    BY DEF Records
  <1> QED BY <1>1, <1>2, <1>3, PTL DEF Spec

\* Retries of an upload store one attachment.
THEOREM RetriesStoreOnce == Spec => []OneAttachmentPerRequest
  <1>1. Init => TypeOK /\ OneAttachmentPerRequest
    BY Initially
  <1>2. TypeOK /\ OneAttachmentPerRequest /\ [Next]_vars => OneAttachmentPerRequest'
    BY OneAttachmentStep
  <1> QED BY <1>1, <1>2, TypeCorrect, PTL DEF Spec

\* Every listed attachment whose commit was not reported as failed has its
\* bytes, no row or worker is after them, and a download finds them.
THEOREM ListedAttachmentsKeepBytes ==
    Spec => [](NoDanglingMetadata /\ ReferencedOrScheduled /\ DownloadsFindBytes)
  <1> DEFINE IInv == TypeOK /\ Keys /\ Records /\ Bytes
  <1>1. Init => IInv
    BY Initially
  <1>2. IInv /\ [Next]_vars => IInv'
    BY TypedStep, KeysStep, RecordsStep, BytesStep DEF Keys
  <1>3. IInv => NoDanglingMetadata /\ ReferencedOrScheduled /\ DownloadsFindBytes
    BY DEF Bytes, Listed, NoDanglingMetadata, ReferencedOrScheduled
  <1> QED BY <1>1, <1>2, <1>3, PTL DEF Spec

-----------------------------------------------------------------------------
(* The shelf.  Under the mapping an upload is on its way until it is listed *)
(* or given up, a download until it is answered; what happens to the bytes  *)
(* and their rows does not show, except where a reader misses them.         *)

\* What a handler shows of its state.
LEMMA Shown ==
    ASSUME TypeOK, Shape, NEW h \in Handler
    PROVE  /\ Early(h) => /\ Sending[h] = [key |-> key[h], request |-> work[h]]
                          /\ Sending[h] # None
           /\ ~Early(h) => Sending[h] = None
           /\ pc[h] = "open" => Reading[h] = key[h] /\ Reading[h] # None
           /\ pc[h] # "open" => Reading[h] = None
  <1>1. CASE Early(h)
    <2>1. key[h] \in Key /\ work[h] \in Request
      BY <1>1 DEF Shape, Busy, TypeOK
    <2>2. [key |-> key[h], request |-> work[h]] \in [key: Key, request: Request]
      BY <2>1
    <2>3. pc[h] # "open"
      BY <1>1 DEF Early
    <2> QED BY <1>1, <2>2, <2>3, AttachmentsAssumption
            DEF Early, Sending, Reading, AttachmentsAssumption
  <1>2. CASE ~Early(h)
    <2>1. pc[h] = "open" => key[h] \in Key
      BY DEF Shape, Busy, TypeOK
    <2> QED BY <1>2, <2>1, AttachmentsAssumption
            DEF Early, Sending, Reading, AttachmentsAssumption
  <1> QED BY <1>1, <1>2

\* A step of one handler shows in its own entries alone.
LEMMA ShownApart ==
    ASSUME NEW h \in Handler,
           \A g \in Handler \ {h} :
             pc'[g] = pc[g] /\ key'[g] = key[g] /\ work'[g] = work[g]
    PROVE  /\ Sending' = [Sending EXCEPT ![h] = Sending'[h]]
           /\ Reading' = [Reading EXCEPT ![h] = Reading'[h]]
           /\ pc'[h] \notin {"reserved", "writing", "stored"} => Sending'[h] = None
           /\ pc'[h] # "open" => Reading'[h] = None
  BY DEF Sending, Reading

\* A request that arrives.
LEMMA ArriveShows ==
    ASSUME TypeOK, Shape, NEW h \in Handler, Arrive(h)
    PROVE  Shelf!ShelfNext
  <1> USE DEF Start, Goto, Say, TypeOK
  <1>1. ASSUME pc[h] = "idle"
        PROVE  Sending[h] = None /\ Reading[h] = None
    BY <1>1, Shown DEF Early
  <1>2. ASSUME NEW request \in Request, NEW k \in Key, Reserve(h, request, k)
        PROVE  Shelf!ShelfNext
    <2> DEFINE file == [key |-> k, request |-> request]
    <2>1. /\ Sending' = [Sending EXCEPT ![h] = Sending'[h]]
          /\ Reading' = [Reading EXCEPT ![h] = Reading'[h]]
      BY <1>2, ShownApart DEF Reserve
    <2>2. Sending'[h] = file /\ Reading'[h] = None
      BY <1>2 DEF Reserve, Sending, Reading
    <2>3. Reading' = Reading
      BY <1>1, <1>2, <2>1, <2>2 DEF Reserve, Reading
    <2>4. Shelf!Begin(h, file)
      BY <1>1, <1>2, <2>1, <2>2, <2>3 DEF Reserve, Shelf!Begin, Shelf!Idle, Shelf!Say
    <2>5. file \in Shelf!File
      BY DEF Shelf!File
    <2> QED BY <2>4, <2>5 DEF Shelf!ShelfNext
  <1>3. ASSUME TurnAway(h) \/ (\E e \in meta : RemoveAttachment(h, e))
        PROVE  UNCHANGED <<Sending, Reading>>
    <2>1. /\ pc[h] = "idle" /\ pc'[h] \in {"idle", "discard"}
          /\ \A g \in Handler \ {h} :
               pc'[g] = pc[g] /\ key'[g] = key[g] /\ work'[g] = work[g]
      BY <1>3 DEF TurnAway, RemoveAttachment
    <2>2. Sending'[h] = None /\ Reading'[h] = None
      BY <2>1, ShownApart
    <2> QED BY <1>1, <2>1, <2>2, ShownApart DEF Sending, Reading
  <1>4. CASE TurnAway(h)
    BY <1>1, <1>3, <1>4
       DEF TurnAway, database, Shelf!TurnAway, Shelf!Idle, Shelf!Say, Shelf!ShelfNext
  <1>5. ASSUME NEW e \in meta, RemoveAttachment(h, e)
        PROVE  Shelf!ShelfNext
    BY <1>1, <1>3, <1>5
       DEF RemoveAttachment, Shelf!Remove, Shelf!Idle, Shelf!Say, Shelf!ShelfNext
  <1>6. ASSUME NEW e \in meta, FindAttachment(h, e)
        PROVE  Shelf!ShelfNext
    <2>1. /\ Sending' = [Sending EXCEPT ![h] = Sending'[h]]
          /\ Reading' = [Reading EXCEPT ![h] = Reading'[h]]
      BY <1>6, ShownApart DEF FindAttachment
    <2>2. Sending'[h] = None /\ Reading'[h] = e.key
      BY <1>6 DEF FindAttachment, Sending, Reading
    <2>3. Sending' = Sending
      BY <1>1, <1>6, <2>1, <2>2 DEF FindAttachment, Sending
    <2> QED BY <1>1, <1>6, <2>1, <2>2, <2>3
            DEF FindAttachment, database, Shelf!BeginRead, Shelf!Idle, Shelf!Say, Shelf!ShelfNext
  <1> QED BY <1>2, <1>4, <1>5, <1>6 DEF Arrive

\* The steps of a handler that do not show.
LEMMA HiddenSteps ==
    ASSUME TypeOK, NEW h \in Handler,
           \/ WriteTemporary(h) \/ Rename(h) \/ Deadline(h)
           \/ DeleteBlob(h) \/ DeleteFails(h)
           \/ QueueBlobCleanup(h) \/ CompleteBlobCleanupKey(h) \/ GiveUp(h)
    PROVE  UNCHANGED Shelf!shelfVars
  <1>1. UNCHANGED <<meta, used, key, work, answer>>
    BY DEF WriteTemporary, Rename, Deadline, DeleteBlob, DeleteFails, QueueBlobCleanup,
           CompleteBlobCleanupKey, GiveUp, database
  <1>2. /\ \A g \in Handler \ {h} : pc'[g] = pc[g]
        /\ pc[h] # "open" /\ pc'[h] # "open"
        /\ pc'[h] \in {"reserved", "writing", "stored"}
             <=> pc[h] \in {"reserved", "writing", "stored"}
    BY DEF WriteTemporary, Rename, Deadline, DeleteBlob, DeleteFails, QueueBlobCleanup,
           CompleteBlobCleanupKey, GiveUp, Goto, TypeOK
  <1>3. Sending' = Sending /\ Reading' = Reading
    BY <1>1, <1>2 DEF Sending, Reading
  <1> QED BY <1>1, <1>3 DEF Shelf!shelfVars

\* An upload ends: its file is listed, was there before, or is given up.
LEMMA UploadEnds ==
    ASSUME TypeOK, Shape, NEW h \in Handler,
           \/ PutFails(h) \/ RefuseUpload(h) \/ ReplayUpload(h)
           \/ AddAttachment(h) \/ AddAttachmentUnacknowledged(h)
    PROVE  Shelf!Store(h) \/ Shelf!Replay(h) \/ Shelf!Fail(h)
  <1> USE DEF Goto, Abandon, Say, TypeOK
  <1>1. /\ Early(h) /\ pc'[h] \in {"idle", "discard"}
        /\ UNCHANGED <<used, key, work>>
        /\ \A g \in Handler \ {h} : pc'[g] = pc[g]
    BY DEF PutFails, RefuseUpload, ReplayUpload, AddAttachment, AddAttachmentUnacknowledged, Early
  <1>2. /\ Sending[h] = [key |-> key[h], request |-> work[h]]
        /\ Sending[h] # None
        /\ Sending[h].request = work[h]
    BY <1>1, Shown
  <1>3. Sending' = [Sending EXCEPT ![h] = None] /\ Reading' = Reading
    <2>1. Sending' = [Sending EXCEPT ![h] = Sending'[h]] /\ Sending'[h] = None
      BY <1>1, ShownApart
    <2>2. Reading' = Reading
      BY <1>1 DEF Reading, Early
    <2> QED BY <2>1, <2>2
  <1>4. Shelf!Twins(work[h]) = Earlier(work[h])
    BY DEF Shelf!Twins, Earlier, SameRequest
  <1>5. CASE PutFails(h) \/ RefuseUpload(h)
    BY <1>1, <1>2, <1>3, <1>5
       DEF PutFails, RefuseUpload, database, Shelf!Fail, Shelf!End, Shelf!Say
  <1>6. CASE ReplayUpload(h)
    BY <1>1, <1>2, <1>3, <1>4, <1>6
       DEF ReplayUpload, database, Shelf!Replay, Shelf!End, Shelf!Say
  <1>7. CASE AddAttachment(h)
    BY <1>1, <1>2, <1>3, <1>4, <1>7
       DEF AddAttachment, Insert, Shelf!Store, Shelf!End, Shelf!Say
  <1>8. CASE AddAttachmentUnacknowledged(h)
    BY <1>1, <1>2, <1>3, <1>4, <1>8
       DEF AddAttachmentUnacknowledged, Insert, Shelf!Store, Shelf!End, Shelf!Say
  <1> QED BY <1>5, <1>6, <1>7, <1>8

\* A download is answered; a file that is kept is sent.
LEMMA DownloadEnds ==
    ASSUME TypeOK, Shape, Bytes, NEW h \in Handler, OpenObject(h)
    PROVE  Shelf!Read(h)
  <1> USE DEF Goto, Say, TypeOK
  <1>1. /\ pc[h] = "open" /\ pc'[h] = "idle"
        /\ UNCHANGED <<meta, used, key, work>>
        /\ \A g \in Handler \ {h} : pc'[g] = pc[g]
    BY DEF OpenObject, database
  <1>2. Reading[h] = key[h] /\ Reading[h] # None /\ Sending[h] = None
    BY <1>1, Shown DEF Early
  <1>3. Reading' = [Reading EXCEPT ![h] = None] /\ Sending' = Sending
    <2>1. Reading' = [Reading EXCEPT ![h] = Reading'[h]] /\ Reading'[h] = None
      BY <1>1, ShownApart
    <2>2. Sending' = Sending
      BY <1>1 DEF Sending
    <2> QED BY <2>1, <2>2
  <1>4. key[h] \notin blobs => ~Shelf!Kept(key[h])
    BY DEF Bytes, Listed, Acknowledged, Shelf!Kept
  <1> QED BY <1>1, <1>2, <1>3, <1>4 DEF OpenObject, Shelf!Read, Shelf!Say

LEMMA CrashShows ==
    ASSUME TypeOK, NEW h \in Handler, CrashHandler(h)
    PROVE  Shelf!Crash(h)
  <1>1. /\ pc'[h] = "idle" /\ UNCHANGED <<meta, used, key, work>>
        /\ \A g \in Handler \ {h} : pc'[g] = pc[g]
        /\ answer' = [answer EXCEPT ![h] = None]
    BY DEF CrashHandler, Abandon, Goto, Say, database, TypeOK
  <1>2. /\ Sending' = [Sending EXCEPT ![h] = None]
        /\ Reading' = [Reading EXCEPT ![h] = None]
    BY <1>1, ShownApart
  <1> QED BY <1>1, <1>2 DEF Shelf!Crash, Shelf!Say

\* Handlers, the blob store, its cleanup rows and its workers implement the
\* shelf: every step is one of its steps or does not show.
THEOREM ImplementsShelf == Spec => ShelfSpec
  <1> DEFINE IInv == TypeOK /\ Keys /\ Records /\ Bytes
  <1>1. Init => Shelf!ShelfInit
    BY DEF Init, Shelf!ShelfInit, Sending, Reading
  <1>2. ASSUME IInv, [Next]_vars
        PROVE  Shelf!ShelfNext \/ UNCHANGED Shelf!shelfVars
    <2>1. Shape
      BY <1>2 DEF Keys
    <2>2. ASSUME NEW h \in Handler, Arrive(h)
          PROVE  Shelf!ShelfNext
      BY <1>2, <2>1, <2>2, ArriveShows
    <2>3. ASSUME NEW h \in Handler, Proceed(h) \/ Deadline(h) \/ CrashHandler(h)
          PROVE  Shelf!ShelfNext \/ UNCHANGED Shelf!shelfVars
      <3>1. \/ Shelf!Store(h) \/ Shelf!Replay(h) \/ Shelf!Fail(h) \/ Shelf!Read(h)
            \/ Shelf!Crash(h) \/ UNCHANGED Shelf!shelfVars
        BY <1>2, <2>1, <2>3, HiddenSteps, UploadEnds, DownloadEnds, CrashShows DEF Proceed
      <3> QED BY <3>1 DEF Shelf!ShelfNext
    <2>4. CASE CleaningStep
      BY <2>4, CleaningKeeps DEF Shelf!shelfVars, Sending, Reading
    <2>5. CASE UNCHANGED vars
      BY <2>5 DEF vars, database, handlers, Shelf!shelfVars, Sending, Reading
    <2> QED BY <1>2, <2>2, <2>3, <2>4, <2>5 DEF Next, CleaningStep
  <1>3. IInv /\ [Next]_vars => [Shelf!ShelfNext]_(Shelf!shelfVars)
    BY <1>2
  <1>4. Init => IInv
    BY Initially
  <1>5. IInv /\ [Next]_vars => IInv'
    BY TypedStep, KeysStep, RecordsStep, BytesStep DEF Keys
  <1> QED BY <1>1, <1>3, <1>4, <1>5, PTL DEF Spec, ShelfSpec, Shelf!ShelfSpec

=============================================================================
