-------------------------- MODULE FluxChangeProofs --------------------------
(***************************************************************************)
(* Proofs about FluxChange for any number of people, handlers and          *)
(* requests.  The invariant that carries them is that of two-phase locking:*)
(* what a transaction read is protected by a lock until it ends            *)
(* (LockDiscipline), hence still true when it commits (ReadsHold).         *)
(***************************************************************************)
EXTENDS FluxChange, FiniteSetTheorems, TLAPS

-----------------------------------------------------------------------------
(* The steps of a handler, without the many ways a request is turned down *)

\* Which requests reach which points of their handler.
Shape ==
    \A h \in Handler :
      /\ pc[h] = "locked" => Serves(h, Request \cup Operation)
      /\ pc[h] \in {"write", "committed"} => Serves(h, Request)
      /\ pc[h] = "write" => work[h].op # "plan"
      /\ pc[h] = "shared" => Serves(h, Comment)
      /\ pc[h] # "idle" => Serves(h, Request \cup Comment \cup Operation)

\* The transaction of h ends and leaves the database as it is.
Ends(h) ==
    /\ InTransaction(h)
    /\ \E outcome \in Outcome :
         /\ Finish(h, outcome)
         /\ outcome = "ok" => Serves(h, Comment) /\ work[h] \in comments

\* A retry is recognized.
Recognizes(h) ==
    /\ pc[h] = "locked"
    /\ Serves(h, Request)
    /\ \E e \in Receipts(work[h]) :
         /\ e.request = work[h]
         /\ next' = [next EXCEPT ![h] = e.revision]
    /\ pc' = [pc EXCEPT ![h] = "committed"]
    /\ ReleaseLocks(h)
    /\ UNCHANGED <<database, work, reply>>

\* The operator's role change is accepted.
OperatorProceeds(h) ==
    /\ pc[h] = "locked"
    /\ Serves(h, Operation)
    /\ ~SharedByOthers(h, work[h].target)
    /\ KeepsAdministrator(work[h].target, work[h].role)
    /\ memberLock' = memberLock \cup {<<h, work[h].target>>}
    /\ pc' = [pc EXCEPT ![h] = "ready"]
    /\ UNCHANGED <<database, workspaceLock, keyShare, memberShare, work, next, reply>>

\* A comment's author is found and locked.
Shares(h) ==
    /\ pc[h] = "begun"
    /\ Serves(h, Comment)
    /\ ~WrittenByOthers(h, work[h].actor)
    /\ MayWrite(work[h].actor)
    /\ memberShare' = memberShare \cup {<<h, work[h].actor>>}
    /\ pc' = [pc EXCEPT ![h] = "shared"]
    /\ UNCHANGED <<database, workspaceLock, keyShare, memberLock, work, next, reply>>

\* The steps that matter.
HandlerStep(h) ==
    \/ \E w \in Request \cup Comment \cup Operation : Begin(h, w)
    \/ Ends(h)
    \/ LockWorkspace(h)
    \/ Recognizes(h)
    \/ Apply(h)
    \/ WriteMembership(h)
    \/ OperatorProceeds(h)
    \/ CommitChange(h)
    \/ CommitOperation(h)
    \/ \E board \in {revision, None} : Reply(h, board)
    \/ LoseReply(h)
    \/ Shares(h)
    \/ InsertComment(h)
    \/ CommitComment(h)

\* A step of the specification is one of these.
LEMMA StepsAreHandlerSteps ==
    ASSUME TypeOK, Next
    PROVE  \E h \in Handler : HandlerStep(h)
  <1>1. PICK h \in Handler : Arrive(h) \/ Proceed(h) \/ Fail(h) \/ LoseReply(h)
    BY DEF Next
  <1>2. {"ok", "refused", "failed"} \subseteq Outcome
    BY DEF Outcome
  <1>3. CASE Arrive(h)
    BY <1>3 DEF Arrive, HandlerStep
  <1>4. CASE LoseReply(h)
    BY <1>4 DEF HandlerStep
  <1>5. CASE Fail(h)
    BY <1>5, <1>2 DEF Fail, Ends, HandlerStep
  <1>6. CASE Forbid(h) \/ Reject(h)
    <2>1. InTransaction(h) /\ Finish(h, "refused")
      BY <1>6 DEF Forbid, Reject, InTransaction
    <2> QED BY <2>1, <1>2 DEF Ends, HandlerStep
  <1>7. CASE Replay(h)
    <2>1. PICK e \in Receipts(work[h]) :
            IF e.request = work[h]
            THEN /\ pc' = [pc EXCEPT ![h] = "committed"]
                 /\ next' = [next EXCEPT ![h] = e.revision]
                 /\ ReleaseLocks(h)
                 /\ UNCHANGED <<database, work, reply>>
            ELSE Finish(h, "refused")
      BY <1>7 DEF Replay
    <2>2. CASE e.request = work[h]
      BY <1>7, <2>1, <2>2 DEF Replay, Recognizes, HandlerStep
    <2>3. CASE e.request # work[h]
      <3>1. InTransaction(h) /\ Finish(h, "refused")
        BY <1>7, <2>1, <2>3 DEF Replay, InTransaction
      <3> QED BY <3>1, <1>2 DEF Ends, HandlerStep
    <2> QED BY <2>2, <2>3
  <1>8. CASE OperatorWrite(h)
    <2>1. CASE KeepsAdministrator(work[h].target, work[h].role)
      BY <1>8, <2>1 DEF OperatorWrite, OperatorProceeds, HandlerStep
    <2>2. CASE ~KeepsAdministrator(work[h].target, work[h].role)
      <3>1. InTransaction(h) /\ Finish(h, "refused")
        BY <1>8, <2>2 DEF OperatorWrite, InTransaction
      <3> QED BY <3>1, <1>2 DEF Ends, HandlerStep
    <2> QED BY <2>1, <2>2
  <1>9. CASE ShareMembership(h)
    <2>1. CASE MayWrite(work[h].actor)
      BY <1>9, <2>1 DEF ShareMembership, Shares, HandlerStep
    <2>2. CASE ~MayWrite(work[h].actor)
      <3>1. InTransaction(h) /\ Finish(h, "refused")
        BY <1>9, <2>2 DEF ShareMembership, InTransaction
      <3> QED BY <3>1, <1>2 DEF Ends, HandlerStep
    <2> QED BY <2>1, <2>2
  <1>10. CASE ReplayComment(h)
    <2>1. InTransaction(h)
      BY <1>10 DEF ReplayComment, InTransaction
    <2>2. CASE DigestDiffers(work[h])
      BY <1>10, <2>1, <2>2, <1>2 DEF ReplayComment, Ends, HandlerStep
    <2>3. CASE ~DigestDiffers(work[h])
      <3>1. Finish(h, "ok")
        BY <1>10, <2>3 DEF ReplayComment
      <3>2. work[h] \in comments /\ Serves(h, Comment)
        BY <1>10, <2>3 DEF ReplayComment, Stored, DigestDiffers, TypeOK, Serves
      <3> QED BY <2>1, <3>1, <3>2, <1>2 DEF Ends, HandlerStep
    <2> QED BY <2>2, <2>3
  <1>11. CASE DeadlockVictim(h)
    <2>1. PICK g \in Handler : LockCycle(h, g) \/ LockCycle(g, h)
      BY <1>11 DEF DeadlockVictim
    <2>2. InTransaction(h)
      BY <2>1, ChangeAssumption DEF LockCycle, TypeOK, InTransaction, ChangeAssumption
    <2> QED BY <1>11, <2>2, <1>2 DEF DeadlockVictim, Ends, HandlerStep
  <1> QED
    BY <1>1, <1>3, <1>4, <1>5, <1>6, <1>7, <1>8, <1>9, <1>10, <1>11
       DEF Proceed, HandlerStep

-----------------------------------------------------------------------------
(* Types *)

Fields == [outcome: Outcome, revision: Nat \cup {None}, board: Nat \cup {None}]

\* A reply of three fields is a reply.
LEMMA ReplyTyped ==
    ASSUME NEW o \in Outcome, NEW r \in Nat \cup {None}, NEW b \in Nat \cup {None}
    PROVE  [outcome |-> o, revision |-> r, board |-> b] \in Fields
  BY DEF Fields

\* Typing of the database and of the handlers.
TypedData ==
    /\ revision \in Nat
    /\ roles \in [Subject -> Role \cup {None}]
    /\ receipts \subseteq [request: Request, revision: Nat]
    /\ comments \subseteq Comment
    /\ next \in [Handler -> Nat]
    /\ reply \in [Handler -> Fields \cup {None}]

TypedControl ==
    /\ pc \in [Handler -> {"idle", "begun", "locked", "shared", "write",
                           "ready", "committed", "done"}]
    /\ work \in [Handler -> Request \cup Comment \cup Operation \cup {None}]

TypedLocks ==
    /\ workspaceLock \in {h \in Handler : InTransaction(h)} \cup {None}
    /\ keyShare \subseteq {h \in Handler : InTransaction(h)}
    /\ memberShare \subseteq {h \in Handler : InTransaction(h)} \X Subject
    /\ memberLock \subseteq {h \in Handler : InTransaction(h)} \X Subject

LEMMA TypesSplit == TypeOK <=> TypedData /\ TypedControl /\ TypedLocks
  BY DEF TypeOK, TypedData, TypedControl, TypedLocks, Fields

\* The people and roles in a piece of work.
LEMMA WorkTyped ==
    /\ \A r \in Request : /\ r.actor \in Subject
                          /\ r.op \in Op
                          /\ r.target \in Subject \cup {None}
                          /\ r.role \in Role \cup {None}
                          /\ r.op # "plan" => r.target \in Subject
                          /\ r.op = "plan" => r.target = None
                          /\ None \notin {r}
    /\ \A c \in Comment : c.actor \in Subject
    /\ \A o \in Operation : o.target \in Subject /\ o.role \in Role
    /\ Request \cap Comment = {}
    /\ Request \cap Operation = {}
    /\ Comment \cap Operation = {}
    /\ None \notin Request \cup Comment \cup Operation
    /\ None \notin Subject /\ None \notin Handler /\ None \notin Int
    /\ None \notin Role /\ None \notin Outcome
  BY ChangeAssumption DEF ChangeAssumption, Role, Op

\* Control is well typed after every step.
LEMMA ControlStep ==
    ASSUME TypedControl, Shape, NEW h \in Handler, HandlerStep(h)
    PROVE  TypedControl' /\ Shape'
  <1>1. ASSUME NEW w \in Request \cup Comment \cup Operation, Begin(h, w)
        PROVE  TypedControl' /\ Shape'
    BY <1>1 DEF TypedControl, Shape, Begin, Serves, Answer
  <1>2. CASE Ends(h)
    BY <1>2 DEF TypedControl, Shape, Ends, Finish, Serves, InTransaction
  <1>3. CASE LockWorkspace(h) \/ OperatorProceeds(h)
    BY <1>3 DEF TypedControl, Shape, LockWorkspace, OperatorProceeds, Serves
  <1>4. CASE Recognizes(h)
    BY <1>4 DEF TypedControl, Shape, Recognizes, Serves
  <1>5. CASE Apply(h) \/ WriteMembership(h)
    BY <1>5 DEF TypedControl, Shape, Apply, WriteMembership, Serves
  <1>6. CASE CommitChange(h) \/ CommitOperation(h) \/ CommitComment(h)
    BY <1>6 DEF TypedControl, Shape, CommitChange, CommitOperation, CommitComment, Serves
  <1>7. CASE (\E board \in {revision, None} : Reply(h, board)) \/ LoseReply(h)
    BY <1>7 DEF TypedControl, Shape, Reply, LoseReply, Serves
  <1>8. CASE Shares(h) \/ InsertComment(h)
    BY <1>8 DEF TypedControl, Shape, Shares, InsertComment, Serves
  <1> QED BY <1>1, <1>2, <1>3, <1>4, <1>5, <1>6, <1>7, <1>8 DEF HandlerStep

\* Locks stay with running transactions.
LEMMA LocksStep ==
    ASSUME TypedControl, TypedLocks, Shape, NEW h \in Handler, HandlerStep(h)
    PROVE  TypedLocks'
  <1>1. ASSUME NEW w \in Request \cup Comment \cup Operation, Begin(h, w)
        PROVE  TypedLocks'
    BY <1>1 DEF TypedControl, TypedLocks, Begin, InTransaction, locks
  <1>2. CASE Ends(h)
    BY <1>2 DEF TypedControl, TypedLocks, Ends, Finish, ReleaseLocks, InTransaction
  <1>3. CASE LockWorkspace(h)
    BY <1>3 DEF TypedControl, TypedLocks, LockWorkspace, InTransaction
  <1>4. CASE OperatorProceeds(h)
    BY <1>4, WorkTyped DEF TypedControl, TypedLocks, OperatorProceeds, InTransaction, Serves
  <1>5. CASE Apply(h)
    BY <1>5, WorkTyped DEF TypedControl, TypedLocks, Apply, InTransaction, Serves
  <1>6. CASE WriteMembership(h)
    BY <1>6, WorkTyped DEF TypedControl, TypedLocks, Shape, WriteMembership, InTransaction, Serves
  <1>7. CASE \/ Recognizes(h) \/ CommitChange(h) \/ CommitOperation(h) \/ CommitComment(h)
    BY <1>7 DEF TypedControl, TypedLocks, Recognizes, CommitChange, CommitOperation,
                CommitComment, ReleaseLocks, InTransaction
  <1>8. CASE (\E board \in {revision, None} : Reply(h, board)) \/ LoseReply(h)
    BY <1>8 DEF TypedControl, TypedLocks, Reply, LoseReply, locks, InTransaction
  <1>9. CASE Shares(h)
    BY <1>9, WorkTyped DEF TypedControl, TypedLocks, Shares, InTransaction, Serves
  <1>10. CASE InsertComment(h)
    BY <1>10 DEF TypedControl, TypedLocks, InsertComment, InTransaction
  <1> QED
    BY <1>1, <1>2, <1>3, <1>4, <1>5, <1>6, <1>7, <1>8, <1>9, <1>10 DEF HandlerStep

\* The data stay well typed.
LEMMA DataStep ==
    ASSUME TypedControl, TypedData, Shape, NEW h \in Handler, HandlerStep(h)
    PROVE  TypedData'
  <1> USE DEF TypedData
  <1>1. ASSUME NEW o \in Outcome, Answer(h, o)
        PROVE  reply' \in [Handler -> Fields \cup {None}]
    BY <1>1, ReplyTyped DEF Answer
  <1>2. {"ok", "refused", "failed"} \subseteq Outcome
    BY DEF Outcome
  <1>3. ASSUME NEW w \in Request \cup Comment \cup Operation, Begin(h, w)
        PROVE  TypedData'
    BY <1>3, <1>1, <1>2 DEF Begin, database
  <1>4. CASE Ends(h)
    BY <1>4, <1>1 DEF Ends, Finish, database
  <1>5. CASE LockWorkspace(h) \/ OperatorProceeds(h) \/ WriteMembership(h)
    BY <1>5 DEF LockWorkspace, OperatorProceeds, WriteMembership, database
  <1>6. CASE Shares(h) \/ InsertComment(h)
    BY <1>6 DEF Shares, InsertComment, database
  <1>7. CASE Recognizes(h)
    BY <1>7 DEF Recognizes, Receipts, database
  <1>8. CASE Apply(h)
    BY <1>8 DEF Apply, database
  <1>9. CASE CommitChange(h) \/ CommitOperation(h)
    <2>1. roles' \in [Subject -> Role \cup {None}]
      BY <1>9, WorkTyped DEF CommitChange, CommitOperation, SetRole, Serves
    <2>2. CASE CommitChange(h)
      <3>1. [request |-> work[h], revision |-> next[h]] \in [request: Request, revision: Nat]
        BY <2>2 DEF CommitChange, Serves
      <3> QED BY <2>1, <2>2, <3>1 DEF CommitChange
    <2>3. CASE CommitOperation(h)
      BY <2>1, <2>3, <1>1, <1>2 DEF CommitOperation
    <2> QED BY <1>9, <2>2, <2>3
  <1>10. CASE CommitComment(h)
    BY <1>10, <1>1, <1>2 DEF CommitComment, Serves
  <1>11. ASSUME NEW board \in {revision, None}, Reply(h, board)
         PROVE  TypedData'
    <2>1. [outcome |-> "ok", revision |-> next[h], board |-> board] \in Fields
      BY ReplyTyped, <1>2
    <2> QED BY <1>11, <2>1 DEF Reply, database
  <1>12. CASE LoseReply(h)
    BY <1>12, <1>1, <1>2 DEF LoseReply, database
  <1> QED
    BY <1>3, <1>4, <1>5, <1>6, <1>7, <1>8, <1>9, <1>10, <1>11, <1>12 DEF HandlerStep

Typed == TypeOK /\ Shape

LEMMA TypedInitially == Init => Typed
  BY WorkTyped, ChangeAssumption
     DEF Init, Typed, TypeOK, Shape, ChangeAssumption, InTransaction, Role

LEMMA TypedStep == Typed /\ [Next]_vars => Typed'
  <1>1. CASE UNCHANGED vars
    BY <1>1 DEF Typed, TypeOK, Shape, vars, database, locks, handlers,
                InTransaction, Serves
  <1>2. ASSUME Typed, Next PROVE Typed'
    <2>1. PICK h \in Handler : HandlerStep(h)
      BY <1>2, StepsAreHandlerSteps DEF Typed
    <2>2. TypedData' /\ TypedControl' /\ TypedLocks' /\ Shape'
      BY <1>2, <2>1, TypesSplit, ControlStep, LocksStep, DataStep DEF Typed
    <2> QED BY <2>2 DEF Typed, TypeOK, TypedData, TypedControl, TypedLocks, Fields
  <1> QED BY <1>1, <1>2

\* Type correctness: the tables, locks and handlers are well typed in every
\* reachable state, and no lock outlives its transaction.
THEOREM TypeCorrect == Spec => []TypeOK
  BY TypedInitially, TypedStep, PTL DEF Spec, Typed

-----------------------------------------------------------------------------
(* Two-phase locking *)

\* Taking and freeing locks in step with the work.
LEMMA LockDisciplineStep ==
    ASSUME Typed, LockDiscipline, NEW h \in Handler, HandlerStep(h)
    PROVE  LockDiscipline'
  <1> USE DEF LockDiscipline, Writing, Commenting, Serves
  <1>1. /\ pc \in [Handler -> {"idle", "begun", "locked", "shared", "write",
                               "ready", "committed", "done"}]
        /\ work \in [Handler -> Request \cup Comment \cup Operation \cup {None}]
    BY DEF Typed, TypeOK
  <1>2. ASSUME NEW w \in Request \cup Comment \cup Operation, Begin(h, w)
        PROVE  LockDiscipline'
    BY <1>1, <1>2 DEF Begin, locks, Typed, TypeOK, InTransaction
  <1>3. CASE Ends(h)
    BY <1>1, <1>3, WorkTyped DEF Ends, Finish, ReleaseLocks, Typed, TypeOK, Shape
  <1>4. CASE LockWorkspace(h)
    <2>1. \A l \in memberLock : l[1] \in Handler
      BY DEF Typed, TypeOK
    <2>2. memberLock = {}
      BY <1>4, <2>1, WorkTyped DEF LockWorkspace
    <2> QED BY <1>1, <1>4, <2>2, WorkTyped DEF LockWorkspace
  <1>5. CASE Recognizes(h)
    <2>1. /\ pc[h] = "locked" /\ work[h] \in Request /\ work' = work
          /\ pc' = [pc EXCEPT ![h] = "committed"]
      BY <1>5 DEF Recognizes
    <2>2. ReleaseLocks(h)
      BY <1>5 DEF Recognizes
    <2> QED BY <1>1, <2>1, <2>2, WorkTyped DEF ReleaseLocks
  <1>6. CASE Apply(h)
    <2>1. \A l \in memberLock : l[1] = h
      BY <1>6 DEF Apply
    <2> QED BY <1>1, <1>6, <2>1, WorkTyped DEF Apply
  <1>7. CASE WriteMembership(h)
    <2>1. workspaceLock = h /\ work[h] \in Request /\ work[h] \notin Comment
      BY <1>7, WorkTyped DEF WriteMembership, Typed, Shape
    <2>2. \A k \in memberShare : k[2] = work[h].target => k[1] = h
      BY <1>7 DEF WriteMembership, SharedByOthers
    <2> QED BY <1>1, <1>7, <2>1, <2>2, WorkTyped DEF WriteMembership
  <1>8. CASE OperatorProceeds(h)
    <2>1. workspaceLock = h /\ work[h] \in Operation /\ work[h] \notin Comment
      BY <1>8, WorkTyped DEF OperatorProceeds
    <2>2. \A k \in memberShare : k[2] = work[h].target => k[1] = h
      BY <1>8 DEF OperatorProceeds, SharedByOthers
    <2> QED BY <1>1, <1>8, <2>1, <2>2, WorkTyped DEF OperatorProceeds
  <1>9. CASE CommitChange(h) \/ CommitOperation(h) \/ CommitComment(h)
    BY <1>1, <1>9, WorkTyped
       DEF CommitChange, CommitOperation, CommitComment, ReleaseLocks, Typed, TypeOK
  <1>10. CASE (\E board \in {revision, None} : Reply(h, board)) \/ LoseReply(h)
    BY <1>1, <1>10 DEF Reply, LoseReply, locks
  <1>11. CASE Shares(h)
    <2>1. \A l \in memberLock : l[2] = work[h].actor => l[1] = h
      BY <1>11 DEF Shares, WrittenByOthers
    <2>2. work[h] \notin Request \cup Operation
      BY <1>11, WorkTyped DEF Shares
    <2> QED BY <1>1, <1>11, <2>1, <2>2, WorkTyped DEF Shares
  <1>12. CASE InsertComment(h)
    BY <1>1, <1>12, WorkTyped DEF InsertComment, Typed, Shape
  <1> QED
    BY <1>2, <1>3, <1>4, <1>5, <1>6, <1>7, <1>8, <1>9, <1>10, <1>11, <1>12 DEF HandlerStep

-----------------------------------------------------------------------------
(* What was read stays true *)

\* A step that leaves revision, roles and receipts alone does not disturb what
\* other handlers have read.
LEMMA OthersUndisturbed ==
    ASSUME NEW g \in Handler, StillTrue(g),
           UNCHANGED <<revision, roles, receipts>>,
           pc'[g] = pc[g], work'[g] = work[g], next'[g] = next[g]
    PROVE  StillTrue(g)'
  BY DEF StillTrue, Commenting, Serves, MayWrite, Receipts, Applies,
         KeepsAdministrator, Admins

\* Handlers other than the one that steps.
LEMMA OneHandlerMoves ==
    ASSUME Typed, NEW h \in Handler, HandlerStep(h), NEW g \in Handler, g # h
    PROVE  pc'[g] = pc[g] /\ work'[g] = work[g] /\ next'[g] = next[g]
  <1> USE DEF Typed, TypeOK
  <1>1. ASSUME NEW w \in Request \cup Comment \cup Operation, Begin(h, w)
        PROVE  pc'[g] = pc[g] /\ work'[g] = work[g] /\ next'[g] = next[g]
    BY <1>1 DEF Begin
  <1>2. CASE Ends(h)
    BY <1>2 DEF Ends, Finish
  <1>3. CASE \/ LockWorkspace(h) \/ OperatorProceeds(h) \/ WriteMembership(h)
    BY <1>3 DEF LockWorkspace, OperatorProceeds, WriteMembership
  <1>4. CASE Recognizes(h)
    BY <1>4 DEF Recognizes
  <1>5. CASE Apply(h)
    BY <1>5 DEF Apply
  <1>6. CASE CommitChange(h) \/ CommitOperation(h) \/ CommitComment(h)
    BY <1>6 DEF CommitChange, CommitOperation, CommitComment
  <1>7. CASE (\E board \in {revision, None} : Reply(h, board)) \/ LoseReply(h)
    BY <1>7 DEF Reply, LoseReply
  <1>8. CASE Shares(h) \/ InsertComment(h)
    BY <1>8 DEF Shares, InsertComment
  <1> QED BY <1>1, <1>2, <1>3, <1>4, <1>5, <1>6, <1>7, <1>8 DEF HandlerStep

\* Steps that change no role, receipt or revision keep what was read.
LEMMA QuietStep ==
    ASSUME Typed, ReadsHold, NEW h \in Handler, HandlerStep(h),
           UNCHANGED <<revision, roles, receipts>>,
           StillTrue(h)'
    PROVE  ReadsHold'
  <1>1. ASSUME NEW g \in Handler, g # h
        PROVE  StillTrue(g)'
    BY <1>1, OthersUndisturbed, OneHandlerMoves DEF ReadsHold
  <1> QED BY <1>1 DEF ReadsHold

LEMMA ReadsHoldStep ==
    ASSUME Typed, LockDiscipline, ReadsHold, NEW h \in Handler, HandlerStep(h)
    PROVE  ReadsHold'
  <1>1. /\ pc \in [Handler -> {"idle", "begun", "locked", "shared", "write",
                               "ready", "committed", "done"}]
        /\ work \in [Handler -> Request \cup Comment \cup Operation \cup {None}]
        /\ next \in [Handler -> Nat]
    BY DEF Typed, TypeOK
  <1>2. ASSUME pc'[h] \in {"idle", "begun", "locked", "committed", "done"}
        PROVE  StillTrue(h)'
    BY <1>2 DEF StillTrue, Commenting
  <1>3. ASSUME NEW w \in Request \cup Comment \cup Operation, Begin(h, w)
        PROVE  ReadsHold'
    BY <1>1, <1>2, <1>3, QuietStep DEF Begin, database
  <1>4. CASE Ends(h)
    BY <1>1, <1>2, <1>4, QuietStep DEF Ends, Finish, database
  <1>5. CASE LockWorkspace(h)
    BY <1>1, <1>2, <1>5, QuietStep DEF LockWorkspace, database
  <1>6. CASE Recognizes(h)
    BY <1>1, <1>2, <1>6, QuietStep DEF Recognizes, database
  <1>7. CASE (\E board \in {revision, None} : Reply(h, board)) \/ LoseReply(h)
    BY <1>1, <1>2, <1>7, QuietStep DEF Reply, LoseReply, database
  <1>8. CASE CommitComment(h)
    BY <1>1, <1>2, <1>8, QuietStep DEF CommitComment
  <1>9. CASE Apply(h)
    <2>1. StillTrue(h)'
      BY <1>1, <1>9, WorkTyped
         DEF Apply, StillTrue, database, Serves, MayWrite, Receipts, Applies,
             KeepsAdministrator, Admins, Commenting
    <2> QED BY <1>9, <2>1, QuietStep DEF Apply, database
  <1>10. CASE WriteMembership(h)
    <2>1. work[h] \in Request /\ work[h] \notin Comment \cup Operation
      BY <1>10, WorkTyped DEF WriteMembership, Typed, Shape, Serves
    <2>2. StillTrue(h)'
      BY <1>1, <1>10, <2>1
         DEF WriteMembership, ReadsHold, StillTrue, database, Serves, MayWrite, Receipts,
             Applies, KeepsAdministrator, Admins, Commenting
    <2> QED BY <1>10, <2>2, QuietStep DEF WriteMembership, database
  <1>11. CASE OperatorProceeds(h)
    <2>1. work[h] \in Operation /\ work[h] \notin Comment \cup Request
      BY <1>11, WorkTyped DEF OperatorProceeds, Serves
    <2>2. StillTrue(h)'
      BY <1>1, <1>11, <2>1
         DEF OperatorProceeds, StillTrue, database, Serves, KeepsAdministrator,
             Admins, Commenting
    <2> QED BY <1>11, <2>2, QuietStep DEF OperatorProceeds, database
  <1>12. CASE Shares(h) \/ InsertComment(h)
    <2>1. work[h] \in Comment /\ work[h] \notin Operation \cup Request
      BY <1>12, WorkTyped DEF Shares, InsertComment, Serves, Typed, Shape
    <2>2. roles' = roles /\ work' = work /\ MayWrite(work[h].actor)
      BY <1>12 DEF Shares, InsertComment, database, ReadsHold, StillTrue, Commenting
    <2>3. pc'[h] \in {"shared", "ready"}
      BY <1>1, <1>12 DEF Shares, InsertComment
    <2>4. StillTrue(h)'
      BY <2>1, <2>2, <2>3 DEF StillTrue, Serves, MayWrite, Commenting
    <2> QED BY <1>12, <2>4, QuietStep DEF Shares, InsertComment, database
  <1>13. CASE CommitChange(h) \/ CommitOperation(h)
    <2>1. Writing(h) /\ SetRole(work[h].target, work[h].role)
      BY <1>13 DEF CommitChange, CommitOperation, Writing, Serves
    <2>2. pc'[h] \in {"committed", "done"}
      BY <1>1, <1>13 DEF CommitChange, CommitOperation
    <2>3. ASSUME NEW g \in Handler, g # h
          PROVE  StillTrue(g)'
      <3>1. ~Writing(g)
        BY <2>1, <2>3 DEF LockDiscipline
      <3>2. pc'[g] = pc[g] /\ work'[g] = work[g] /\ next'[g] = next[g]
        BY <2>3, OneHandlerMoves
      <3>3. ASSUME Commenting(g)
            PROVE  roles'[work[g].actor] = roles[work[g].actor]
        <4>1. work[h].target = None \/ <<h, work[h].target>> \in memberLock
          BY <1>13 DEF CommitChange, CommitOperation, LockDiscipline, Serves
        <4>2. <<g, work[g].actor>> \in memberShare
          BY <3>3 DEF LockDiscipline
        <4>3. work[h].target = None \/ work[h].target # work[g].actor
          BY <2>3, <4>1, <4>2 DEF LockDiscipline
        <4> QED BY <2>1, <4>3 DEF SetRole, Typed, TypeOK
      <3>4. work[g] \in Request \cup Operation =>
              pc[g] \notin {"write", "ready"}
        BY <3>1 DEF Writing, Serves
      <3> QED BY <2>3, <3>2, <3>3, <3>4 DEF ReadsHold, StillTrue, Commenting, Serves, MayWrite
    <2>4. StillTrue(h)'
      BY <1>2, <2>2
    <2> QED BY <2>3, <2>4 DEF ReadsHold
  <1> QED
    BY <1>3, <1>4, <1>5, <1>6, <1>7, <1>8, <1>9, <1>10, <1>11, <1>12, <1>13
       DEF HandlerStep

-----------------------------------------------------------------------------
(* The sequence of accepted commands *)

\* Only a commit of a change extends the receipts and the revision.
LEMMA OnlyCommitsRecord ==
    ASSUME NEW h \in Handler, HandlerStep(h), ~CommitChange(h)
    PROVE  UNCHANGED <<receipts, revision>>
  <1>1. ASSUME NEW w \in Request \cup Comment \cup Operation, Begin(h, w)
        PROVE  UNCHANGED <<receipts, revision>>
    BY <1>1 DEF Begin, database
  <1>2. CASE Ends(h) \/ LockWorkspace(h) \/ Recognizes(h) \/ Apply(h)
    BY <1>2 DEF Ends, Finish, LockWorkspace, Recognizes, Apply, database
  <1>3. CASE WriteMembership(h) \/ OperatorProceeds(h) \/ CommitOperation(h)
    BY <1>3 DEF WriteMembership, OperatorProceeds, CommitOperation, database
  <1>4. CASE (\E board \in {revision, None} : Reply(h, board)) \/ LoseReply(h)
    BY <1>4 DEF Reply, LoseReply, database
  <1>5. CASE Shares(h) \/ InsertComment(h) \/ CommitComment(h)
    BY <1>5 DEF Shares, InsertComment, CommitComment, database
  <1> QED BY <1>1, <1>2, <1>3, <1>4, <1>5 DEF HandlerStep

\* Only the commit of a role change, by either path, changes a role.
LEMMA OnlyCommitsSetRoles ==
    ASSUME NEW h \in Handler, HandlerStep(h), ~CommitChange(h), ~CommitOperation(h)
    PROVE  roles' = roles
  <1>1. ASSUME NEW w \in Request \cup Comment \cup Operation, Begin(h, w)
        PROVE  roles' = roles
    BY <1>1 DEF Begin, database
  <1>2. CASE Ends(h) \/ LockWorkspace(h) \/ Recognizes(h) \/ Apply(h)
    BY <1>2 DEF Ends, Finish, LockWorkspace, Recognizes, Apply, database
  <1>3. CASE WriteMembership(h) \/ OperatorProceeds(h)
    BY <1>3 DEF WriteMembership, OperatorProceeds, database
  <1>4. CASE (\E board \in {revision, None} : Reply(h, board)) \/ LoseReply(h)
    BY <1>4 DEF Reply, LoseReply, database
  <1>5. CASE Shares(h) \/ InsertComment(h) \/ CommitComment(h)
    BY <1>5 DEF Shares, InsertComment, CommitComment, database
  <1> QED BY <1>1, <1>2, <1>3, <1>4, <1>5 DEF HandlerStep

\* The receipt a commit adds fits the sequence.
LEMMA CommitExtends ==
    ASSUME Typed, ReadsHold, NEW h \in Handler, CommitChange(h)
    PROVE  /\ work[h] \in Request
           /\ Applies(work[h]) /\ MayWrite(work[h].actor) /\ Receipts(work[h]) = {}
           /\ revision' = revision + 1
           /\ work[h].base = revision
           /\ receipts' = receipts \cup {[request |-> work[h], revision |-> revision + 1]}
  BY DEF CommitChange, ReadsHold, StillTrue, Serves, Applies

LEMMA NoLostUpdateStep ==
    ASSUME Typed, ReadsHold, NoLostUpdate, NEW h \in Handler, HandlerStep(h)
    PROVE  NoLostUpdate'
  <1>1. CASE CommitChange(h)
    <2> DEFINE e == [request |-> work[h], revision |-> revision + 1]
    <2>1. /\ receipts' = receipts \cup {e}
          /\ e.revision = revision + 1 /\ e.request.base = revision
          /\ revision' = revision + 1
      BY <1>1, CommitExtends
    <2>2. revision \in Nat /\ \A f \in receipts : f.revision \in 2..revision
      BY DEF Typed, TypeOK, NoLostUpdate
    <2>3. revision >= 1
      BY DEF NoLostUpdate
    <2> HIDE DEF e
    <2>4. \A f \in receipts' : f.revision = f.request.base + 1 /\ f.revision \in 2..revision'
      BY <2>1, <2>2, <2>3 DEF NoLostUpdate
    <2>5. \A n \in 2..revision' : \E f \in receipts' : f.revision = n
      <3>1. ASSUME NEW n \in 2..revision'
            PROVE  \E f \in receipts' : f.revision = n
        <4>1. CASE n = revision + 1
          BY <2>1, <4>1
        <4>2. CASE n # revision + 1
          <5>1. n \in 2..revision
            BY <2>1, <2>2, <3>1, <4>2
          <5> QED BY <2>1, <5>1 DEF NoLostUpdate
        <4> QED BY <4>1, <4>2
      <3> QED BY <3>1
    <2>6. \A f, g \in receipts' : f.revision = g.revision => f = g
      BY <2>1, <2>2 DEF NoLostUpdate
    <2> QED BY <2>1, <2>2, <2>3, <2>4, <2>5, <2>6 DEF NoLostUpdate
  <1>2. CASE ~CommitChange(h)
    BY <1>2, OnlyCommitsRecord DEF NoLostUpdate
  <1> QED BY <1>1, <1>2

LEMMA KeyUsedOnceStep ==
    ASSUME Typed, ReadsHold, KeyUsedOnce, NEW h \in Handler, HandlerStep(h)
    PROVE  KeyUsedOnce'
  <1>1. CASE CommitChange(h)
    <2>1. /\ Receipts(work[h]) = {}
          /\ receipts' = receipts \cup {[request |-> work[h], revision |-> revision + 1]}
      BY <1>1, CommitExtends
    <2> QED BY <2>1 DEF KeyUsedOnce, Receipts
  <1>2. CASE ~CommitChange(h)
    BY <1>2, OnlyCommitsRecord DEF KeyUsedOnce
  <1> QED BY <1>1, <1>2

-----------------------------------------------------------------------------
(* Answers *)

\* A handler that committed has its receipt, one that answered told the truth.
TruthAt(h) ==
    /\ pc[h] = "committed" => [request |-> work[h], revision |-> next[h]] \in receipts
    /\ pc[h] = "done" /\ reply[h].outcome = "ok" =>
         /\ Serves(h, Request) =>
              /\ [request |-> work[h], revision |-> reply[h].revision] \in receipts
              /\ reply[h].board # None => reply[h].board >= reply[h].revision
         /\ Serves(h, Comment) => work[h] \in comments

Truth == \A h \in Handler : TruthAt(h)

LEMMA TruthImplies == Truth => TruthfulReplies
  BY DEF Truth, TruthAt, TruthfulReplies

\* Only the commit of a comment stores one.
LEMMA OnlyCommitsComment ==
    ASSUME NEW h \in Handler, HandlerStep(h), ~CommitComment(h)
    PROVE  comments' = comments
  <1>1. ASSUME NEW w \in Request \cup Comment \cup Operation, Begin(h, w)
        PROVE  comments' = comments
    BY <1>1 DEF Begin, database
  <1>2. CASE Ends(h) \/ LockWorkspace(h) \/ Recognizes(h) \/ Apply(h)
    BY <1>2 DEF Ends, Finish, LockWorkspace, Recognizes, Apply, database
  <1>3. CASE \/ WriteMembership(h) \/ OperatorProceeds(h)
             \/ CommitOperation(h) \/ CommitChange(h)
    BY <1>3 DEF WriteMembership, OperatorProceeds, CommitOperation, CommitChange, database
  <1>4. CASE (\E board \in {revision, None} : Reply(h, board)) \/ LoseReply(h)
    BY <1>4 DEF Reply, LoseReply, database
  <1>5. CASE Shares(h) \/ InsertComment(h)
    BY <1>5 DEF Shares, InsertComment, database
  <1> QED BY <1>1, <1>2, <1>3, <1>4, <1>5 DEF HandlerStep

\* Receipts and comments are never taken back.
LEMMA RecordsGrow ==
    ASSUME NEW h \in Handler, HandlerStep(h)
    PROVE  receipts \subseteq receipts' /\ comments \subseteq comments'
  <1>1. receipts \subseteq receipts'
    <2>1. CASE CommitChange(h)
      BY <2>1 DEF CommitChange
    <2>2. CASE ~CommitChange(h)
      BY <2>2, OnlyCommitsRecord
    <2> QED BY <2>1, <2>2
  <1>2. comments \subseteq comments'
    <2>1. CASE CommitComment(h)
      BY <2>1 DEF CommitComment
    <2>2. CASE ~CommitComment(h)
      BY <2>2, OnlyCommitsComment
    <2> QED BY <2>1, <2>2
  <1> QED BY <1>1, <1>2

\* Others keep their answers.
LEMMA OthersKeepReplies ==
    ASSUME Typed, NEW h \in Handler, HandlerStep(h), NEW g \in Handler, g # h
    PROVE  reply'[g] = reply[g]
  <1> USE DEF Typed, TypeOK, Answer
  <1>1. ASSUME NEW w \in Request \cup Comment \cup Operation, Begin(h, w)
        PROVE  reply'[g] = reply[g]
    BY <1>1 DEF Begin
  <1>2. CASE Ends(h)
    BY <1>2 DEF Ends, Finish
  <1>3. CASE LockWorkspace(h) \/ OperatorProceeds(h) \/ WriteMembership(h)
    BY <1>3 DEF LockWorkspace, OperatorProceeds, WriteMembership
  <1>4. CASE Recognizes(h) \/ Apply(h)
    BY <1>4 DEF Recognizes, Apply
  <1>5. CASE CommitChange(h) \/ CommitOperation(h) \/ CommitComment(h)
    BY <1>5 DEF CommitChange, CommitOperation, CommitComment
  <1>6. CASE (\E board \in {revision, None} : Reply(h, board)) \/ LoseReply(h)
    BY <1>6 DEF Reply, LoseReply
  <1>7. CASE Shares(h) \/ InsertComment(h)
    BY <1>7 DEF Shares, InsertComment
  <1> QED BY <1>1, <1>2, <1>3, <1>4, <1>5, <1>6, <1>7 DEF HandlerStep

LEMMA TruthStep ==
    ASSUME Typed, ReadsHold, NoLostUpdate, Truth, NEW h \in Handler, HandlerStep(h)
    PROVE  Truth'
  <1>1. /\ pc \in [Handler -> {"idle", "begun", "locked", "shared", "write",
                               "ready", "committed", "done"}]
        /\ reply \in [Handler -> Fields \cup {None}]
        /\ next \in [Handler -> Nat]
        /\ work \in [Handler -> Request \cup Comment \cup Operation \cup {None}]
    BY DEF Typed, TypeOK, Fields
  <1>2. ASSUME NEW g \in Handler, g # h
        PROVE  TruthAt(g)'
    BY <1>2, OneHandlerMoves, OthersKeepReplies, RecordsGrow DEF Truth, TruthAt, Serves
  <1>3. SUFFICES TruthAt(h)'
    BY <1>2 DEF Truth
  <1>4. ASSUME pc'[h] \notin {"committed", "done"}
        PROVE  TruthAt(h)'
    BY <1>4 DEF TruthAt
  <1>5. ASSUME NEW o \in {"refused", "failed"}, Answer(h, o), pc'[h] = "done"
        PROVE  TruthAt(h)'
    BY <1>1, <1>5 DEF TruthAt, Answer
  <1>6. ASSUME NEW w \in Request \cup Comment \cup Operation, Begin(h, w)
        PROVE  TruthAt(h)'
    BY <1>1, <1>4, <1>5, <1>6 DEF Begin
  <1>7. CASE Ends(h)
    <2>1. PICK o \in Outcome : Finish(h, o) /\ (o = "ok" => Serves(h, Comment) /\ work[h] \in comments)
      BY <1>7 DEF Ends
    <2>2. pc'[h] = "done" /\ Answer(h, o) /\ work' = work /\ comments' = comments
      BY <1>1, <2>1 DEF Finish, database
    <2>3. CASE o = "ok"
      BY <1>1, <2>1, <2>2, <2>3, WorkTyped DEF TruthAt, Serves
    <2>4. CASE o # "ok"
      BY <1>5, <2>2, <2>4 DEF Outcome
    <2> QED BY <2>3, <2>4
  <1>8. CASE LockWorkspace(h) \/ Apply(h) \/ WriteMembership(h) \/ OperatorProceeds(h)
    BY <1>1, <1>4, <1>8 DEF LockWorkspace, Apply, WriteMembership, OperatorProceeds
  <1>9. CASE Shares(h) \/ InsertComment(h)
    BY <1>1, <1>4, <1>9 DEF Shares, InsertComment
  <1>10. CASE Recognizes(h)
    <2>1. PICK e \in receipts : e.request = work[h] /\ next'[h] = e.revision
      BY <1>1, <1>10 DEF Recognizes, Receipts
    <2>2. e = [request |-> work[h], revision |-> next'[h]]
      BY <2>1 DEF Typed, TypeOK
    <2> QED BY <1>1, <1>10, <2>1, <2>2 DEF Recognizes, TruthAt, database
  <1>11. CASE CommitChange(h)
    BY <1>1, <1>11 DEF CommitChange, TruthAt
  <1>12. CASE CommitOperation(h)
    BY <1>1, <1>12, WorkTyped DEF CommitOperation, TruthAt, Serves
  <1>13. CASE CommitComment(h)
    BY <1>1, <1>13, WorkTyped DEF CommitComment, TruthAt, Serves
  <1>14. ASSUME NEW board \in {revision, None}, Reply(h, board)
         PROVE  TruthAt(h)'
    <2>1. [request |-> work[h], revision |-> next[h]] \in receipts
      BY <1>14 DEF Reply, Truth, TruthAt
    <2>2. next[h] <= revision
      BY <2>1 DEF NoLostUpdate
    <2>3. /\ work' = work /\ receipts' = receipts
          /\ reply'[h] = [outcome |-> "ok", revision |-> next[h], board |-> board]
          /\ pc'[h] = "done"
      BY <1>1, <1>14 DEF Reply, database
    <2>4. work[h] \notin Comment
      BY <1>14, WorkTyped DEF Reply, Typed, Shape, Serves
    <2> QED BY <2>1, <2>2, <2>3, <2>4, <1>1 DEF TruthAt, Serves, Typed, TypeOK
  <1>15. CASE LoseReply(h)
    BY <1>1, <1>5, <1>15 DEF LoseReply
  <1> QED
    BY <1>6, <1>7, <1>8, <1>9, <1>10, <1>11, <1>12, <1>13, <1>14, <1>15 DEF HandlerStep

-----------------------------------------------------------------------------
(* Administrators *)

\* A set with more than one element has another one.
LEMMA AnotherOne ==
    ASSUME NEW S, IsFiniteSet(S), Cardinality(S) > 1, NEW x
    PROVE  \E y \in S : y # x
  <1>1. SUFFICES ASSUME S \subseteq {x} PROVE FALSE
    OBVIOUS
  <1>2. Cardinality({x}) = 1 /\ IsFiniteSet({x})
    BY FS_Singleton
  <1>3. Cardinality(S) \in Nat /\ Cardinality(S) <= Cardinality({x})
    BY <1>1, <1>2, FS_Subset, FS_CardinalityType
  <1> QED BY <1>2, <1>3

\* A role change that keeps an administrator leaves one.
LEMMA AnAdministratorStays ==
    ASSUME Typed, AdminRemains,
           NEW u \in Subject, NEW role \in Role \cup {None},
           KeepsAdministrator(u, role), roles' = [roles EXCEPT ![u] = role]
    PROVE  AdminRemains'
  <1> USE DEF AdminRemains, Typed, TypeOK
  <1>1. CASE roles[u] = "admin" /\ role # "admin"
    <2>1. IsFiniteSet(Admins)
      BY ChangeAssumption, FS_Subset DEF ChangeAssumption, Admins
    <2>2. Cardinality(Admins) > 1
      BY <1>1 DEF KeepsAdministrator
    <2>3. PICK v \in Admins : v # u
      BY <2>1, <2>2, AnotherOne
    <2>4. v \in Subject /\ roles'[v] = "admin"
      BY <2>3 DEF Admins
    <2> QED BY <2>4 DEF Admins
  <1>2. CASE role = "admin"
    <2>1. roles'[u] = "admin"
      BY <1>2
    <2> QED BY <2>1 DEF Admins
  <1>3. CASE roles[u] # "admin"
    <2>1. PICK v \in Subject : roles[v] = "admin"
      BY DEF Admins
    <2>2. roles'[v] = "admin"
      BY <1>3, <2>1
    <2> QED BY <2>2 DEF Admins
  <1> QED BY <1>1, <1>2, <1>3

LEMMA AdminStep ==
    ASSUME Typed, ReadsHold, AdminRemains, NEW h \in Handler, HandlerStep(h)
    PROVE  AdminRemains'
  <1>1. CASE CommitChange(h)
    <2>1. work[h] \in Request /\ Applies(work[h])
      BY <1>1, CommitExtends
    <2>2. CASE work[h].op = "plan"
      <3>1. roles' = roles
        BY <1>1, <2>1, <2>2, WorkTyped DEF CommitChange, SetRole
      <3> QED BY <3>1 DEF AdminRemains, Admins
    <2>3. CASE work[h].op # "plan"
      <3>1. KeepsAdministrator(work[h].target, work[h].role)
        BY <2>1, <2>3 DEF Applies
      <3>2. /\ work[h].target \in Subject
            /\ work[h].role \in Role \cup {None}
            /\ roles' = [roles EXCEPT ![work[h].target] = work[h].role]
        BY <1>1, <2>1, <2>3, WorkTyped DEF CommitChange, SetRole
      <3> QED BY <3>1, <3>2, AnAdministratorStays
    <2> QED BY <2>2, <2>3
  <1>2. CASE CommitOperation(h)
    <2>1. KeepsAdministrator(work[h].target, work[h].role)
      BY <1>2 DEF CommitOperation, ReadsHold, StillTrue
    <2>2. /\ work[h].target \in Subject
          /\ work[h].role \in Role
          /\ roles' = [roles EXCEPT ![work[h].target] = work[h].role]
      BY <1>2, WorkTyped DEF CommitOperation, SetRole, Serves
    <2> QED BY <2>1, <2>2, AnAdministratorStays
  <1>3. CASE ~CommitChange(h) /\ ~CommitOperation(h)
    BY <1>3, OnlyCommitsSetRoles DEF AdminRemains, Admins
  <1> QED BY <1>1, <1>2, <1>3

-----------------------------------------------------------------------------
(* The invariant of the specification *)

Inv ==
    /\ Typed
    /\ LockDiscipline
    /\ ReadsHold
    /\ NoLostUpdate
    /\ KeyUsedOnce
    /\ Truth
    /\ AdminRemains

LEMMA InvInitially == Init => Inv
  <1> SUFFICES ASSUME Init PROVE Inv
    OBVIOUS
  <1>1. Typed
    BY TypedInitially
  <1>2. LockDiscipline
    BY WorkTyped DEF Init, LockDiscipline, Writing, Commenting
  <1>3. ReadsHold
    BY DEF Init, ReadsHold, StillTrue, Commenting
  <1>4. NoLostUpdate /\ KeyUsedOnce
    BY DEF Init, NoLostUpdate, KeyUsedOnce
  <1>5. Truth
    BY DEF Init, Truth, TruthAt
  <1>6. AdminRemains
    BY ChangeAssumption DEF Init, AdminRemains, Admins, ChangeAssumption
  <1> QED BY <1>1, <1>2, <1>3, <1>4, <1>5, <1>6 DEF Inv

LEMMA InvStep == Inv /\ [Next]_vars => Inv'
  <1>1. CASE UNCHANGED vars
    <2> USE <1>1 DEF Inv, vars, database, locks, handlers
    <2>1. Typed => Typed'
      BY TypedStep
    <2>2. LockDiscipline => LockDiscipline'
      BY DEF LockDiscipline, Writing, Commenting, Serves
    <2>3. ReadsHold => ReadsHold'
      BY OthersUndisturbed DEF ReadsHold
    <2>4. NoLostUpdate /\ KeyUsedOnce => NoLostUpdate' /\ KeyUsedOnce'
      BY DEF NoLostUpdate, KeyUsedOnce
    <2>5. Truth => Truth'
      BY DEF Truth, TruthAt, Serves
    <2>6. AdminRemains => AdminRemains'
      BY DEF AdminRemains, Admins
    <2> QED BY <2>1, <2>2, <2>3, <2>4, <2>5, <2>6
  <1>2. ASSUME Inv, Next PROVE Inv'
    <2>1. PICK h \in Handler : HandlerStep(h)
      BY <1>2, StepsAreHandlerSteps DEF Inv, Typed
    <2>2. Typed'
      BY <1>2, TypedStep DEF Inv
    <2>3. LockDiscipline' /\ ReadsHold'
      BY <1>2, <2>1, LockDisciplineStep, ReadsHoldStep DEF Inv
    <2>4. NoLostUpdate' /\ KeyUsedOnce' /\ Truth' /\ AdminRemains'
      BY <1>2, <2>1, NoLostUpdateStep, KeyUsedOnceStep, TruthStep, AdminStep DEF Inv
    <2> QED BY <2>2, <2>3, <2>4 DEF Inv
  <1> QED BY <1>1, <1>2

THEOREM Invariance == Spec => []Inv
  BY InvInitially, InvStep, PTL DEF Spec

\* Row locks keep what a transaction read true until it commits.
THEOREM ReadsStayTrue == Spec => [](LockDiscipline /\ ReadsHold)
  BY Invariance, PTL DEF Inv

\* Revisions count accepted commands, each made against the one before.
THEOREM NoUpdateIsLost == Spec => []NoLostUpdate
  BY Invariance, PTL DEF Inv

\* A key is used up once.
THEOREM KeysAreUsedOnce == Spec => []KeyUsedOnce
  BY Invariance, PTL DEF Inv

\* Success is answered only for what is stored.
THEOREM RepliesAreTruthful == Spec => []TruthfulReplies
  BY Invariance, TruthImplies, PTL DEF Inv

\* Commands and operator together keep an administrator.
THEOREM AlwaysAnAdministrator == Spec => []AdminRemains
  BY Invariance, PTL DEF Inv

-----------------------------------------------------------------------------
(* Comments and revocation *)

\* A comment appears only while its author may write.
THEOREM CommentsNeedWriters == Spec => CommentsByWriters
  <1> DEFINE Written == \A c \in Comment : c \in comments' \ comments =>
                           roles'[c.actor] \in {"member", "admin"}
  <1>1. ASSUME Inv, Next
        PROVE  Written
    <2>1. PICK h \in Handler : HandlerStep(h)
      BY <1>1, StepsAreHandlerSteps DEF Inv, Typed
    <2>2. CASE CommitComment(h)
      <3>1. MayWrite(work[h].actor)
        BY <1>1, <2>2 DEF Inv, ReadsHold, StillTrue, Commenting, CommitComment
      <3>2. roles' = roles /\ comments' = comments \cup {work[h]}
        BY <2>2 DEF CommitComment
      <3> QED BY <3>1, <3>2 DEF MayWrite
    <2>3. CASE ~CommitComment(h)
      <3>1. comments' = comments
        BY <2>1, <2>3, OnlyCommitsComment
      <3> QED BY <3>1
    <2> QED BY <2>2, <2>3
  <1>2. Inv /\ [Next]_vars => [Written]_vars
    BY <1>1
  <1> QED BY <1>2, Invariance, PTL DEF Spec, CommentsByWriters

-----------------------------------------------------------------------------
(* The ledger *)

\* Concurrent handlers implement the serial ledger.
THEOREM ImplementsLedger == Spec => LedgerSpec
  <1>1. Init => Ledger!LedgerInit
    BY ChangeAssumption
       DEF Init, Ledger!LedgerInit, Ledger!Admins, ChangeAssumption, Role, Ledger!Role
  <1>2. ASSUME Inv, Inv', Next
        PROVE  Ledger!LedgerNext \/ UNCHANGED Ledger!ledgerVars
    <2>1. PICK h \in Handler : HandlerStep(h)
      BY <1>2, StepsAreHandlerSteps DEF Inv, Typed
    <2>2. CASE CommitChange(h)
      <3>1. /\ work[h] \in Request /\ Applies(work[h]) /\ MayWrite(work[h].actor)
            /\ Receipts(work[h]) = {}
            /\ revision' = revision + 1
            /\ receipts' = receipts \cup {[request |-> work[h], revision |-> revision + 1]}
        BY <1>2, <2>2, CommitExtends DEF Inv
      <3>2. Ledger!MaySend(roles, work[h])
        BY <3>1, WorkTyped DEF Ledger!MaySend, Applies, MayWrite
      <3>3. ~Ledger!Used(work[h].actor, work[h].key) /\ work[h].base = revision
        BY <3>1 DEF Ledger!Used, Receipts, Applies
      <3>4. roles' = Ledger!After(roles, work[h].target, work[h].role)
        BY <2>2 DEF CommitChange, SetRole, Ledger!After
      <3>5. Ledger!Admins(roles') # {}
        BY <1>2 DEF Inv, AdminRemains, Admins, Ledger!Admins
      <3>6. Ledger!Accept(work[h])
        BY <3>1, <3>2, <3>3, <3>4, <3>5 DEF Ledger!Accept
      <3> QED BY <3>1, <3>6 DEF Ledger!LedgerNext
    <2>3. CASE CommitOperation(h)
      <3>1. work[h].target \in Subject /\ work[h].role \in Ledger!Role
        BY <2>3, WorkTyped DEF CommitOperation, Serves, Role, Ledger!Role
      <3>2. roles' = Ledger!After(roles, work[h].target, work[h].role)
        BY <2>3 DEF CommitOperation, SetRole, Ledger!After
      <3>3. Ledger!Admins(roles') # {}
        BY <1>2 DEF Inv, AdminRemains, Admins, Ledger!Admins
      <3>4. Ledger!Operate(work[h].target, work[h].role)
        BY <2>3, <3>2, <3>3 DEF Ledger!Operate, CommitOperation
      <3> QED BY <3>1, <3>4 DEF Ledger!LedgerNext
    <2>4. CASE ~CommitChange(h) /\ ~CommitOperation(h)
      BY <2>1, <2>4, OnlyCommitsRecord, OnlyCommitsSetRoles DEF Ledger!ledgerVars
    <2> QED BY <2>2, <2>3, <2>4
  <1>3. Inv /\ Inv' /\ [Next]_vars => [Ledger!LedgerNext]_(Ledger!ledgerVars)
    BY <1>2 DEF vars, database, Ledger!ledgerVars
  <1> QED BY <1>1, <1>3, Invariance, PTL DEF Spec, LedgerSpec, Ledger!LedgerSpec

=============================================================================
