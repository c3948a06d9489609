----------------------------- MODULE FluxChange -----------------------------
(***************************************************************************)
(* Concurrent writers of one workspace: the transactions of store.Change   *)
(* and store.SetMember (internal/store/postgres.go) and store.AddComment   *)
(* (internal/store/comments.go), with the row locks they take, the reply   *)
(* of the changes endpoint (internal/planning/http.go), and the ways a     *)
(* request ends early: an error, a timeout, a crash, a lost reply.         *)
(*                                                                         *)
(* A handler serves one request at a time; several handlers may serve the  *)
(* same request, because a client that saw no answer sends it again.  The  *)
(* planning content of a command is FluxBoard's subject: here a command is *)
(* its sender, key, base revision and, when it changes a role, the role.   *)
(*                                                                         *)
(* Locks are PostgreSQL's row locks: FOR UPDATE on the workspace row, FOR  *)
(* SHARE or an uncommitted update on a membership row, and the FOR KEY     *)
(* SHARE lock that inserting a comment takes on the workspace row it       *)
(* references (migration 009).  A transaction keeps its locks to its end.  *)
(***************************************************************************)
EXTENDS Integers, FiniteSets

CONSTANTS
    Subject,      \* people
    Handler,      \* request handlers
    Request,      \* commands: [actor, key, base, op, target, role]
    Comment,      \* comments: [actor, key, body]
    Operation,    \* roles the operator sets: [target, role]
    InitRoles,    \* the memberships to start from
    None

Role == {"viewer", "member", "admin"}
Outcome == {"ok", "refused", "failed"}
Op == {"plan", "add", "save", "delete"}  \* planning, or a command on a member

ASSUME ChangeAssumption ==
    /\ IsFiniteSet(Subject)
    /\ None \notin Subject \cup Role \cup Handler \cup Outcome
    /\ None \notin Request \cup Comment \cup Operation /\ None \notin Int
    /\ \A r \in Request :
         /\ r.actor \in Subject
         /\ r.base \in Nat
         /\ r.op \in Op
         /\ r.target \in IF r.op = "plan" THEN {None} ELSE Subject
         /\ r.role \in IF r.op \in {"add", "save"} THEN Role ELSE {None}
    /\ \A c \in Comment : c.actor \in Subject
    /\ \A o \in Operation : o.target \in Subject /\ o.role \in Role
    /\ Request \cap Comment = {}
    /\ Request \cap Operation = {}
    /\ Comment \cap Operation = {}
    /\ InitRoles \in [Subject -> Role \cup {None}]
    /\ \E u \in Subject : InitRoles[u] = "admin"

VARIABLES
    \* the database
    revision,     \* workspaces.revision
    roles,        \* memberships
    receipts,     \* idempotency_keys, each with its work_item_events and
                  \* audit_events rows: [request, revision]
    comments,     \* item_comments
    \* the row locks
    workspaceLock,  \* the handler holding FOR UPDATE on the workspace row
    keyShare,       \* the handlers holding FOR KEY SHARE on it
    memberShare,    \* <<handler, person>>: FOR SHARE on a membership row
    memberLock,     \* <<handler, person>>: a membership row being written
    \* the handlers
    pc,           \* where the handler is
    work,         \* what it serves
    next,         \* the revision its transaction is about to publish
    reply         \* what it answered: [outcome, revision, board]

database == <<revision, roles, receipts, comments>>
locks == <<workspaceLock, keyShare, memberShare, memberLock>>
handlers == <<pc, work, next, reply>>
vars == <<database, locks, handlers>>

Init ==
    /\ revision = 1
    /\ roles = InitRoles
    /\ receipts = {}
    /\ comments = {}
    /\ workspaceLock = None
    /\ keyShare = {}
    /\ memberShare = {}
    /\ memberLock = {}
    /\ pc = [h \in Handler |-> "idle"]
    /\ work = [h \in Handler |-> None]
    /\ next = [h \in Handler |-> 0]
    /\ reply = [h \in Handler |-> None]

-----------------------------------------------------------------------------
(* Helpers *)

Admins == {u \in Subject : roles[u] = "admin"}
InTransaction(h) == pc[h] \in {"begun", "locked", "shared", "write", "ready"}
Serves(h, set) == work[h] \in set

\* The end of h's transaction, committed or not, frees its locks.
ReleaseLocks(h) ==
    /\ workspaceLock' = IF workspaceLock = h THEN None ELSE workspaceLock
    /\ keyShare' = keyShare \ {h}
    /\ memberShare' = {l \in memberShare : l[1] # h}
    /\ memberLock' = {l \in memberLock : l[1] # h}

Answer(h, outcome) ==
    reply' = [reply EXCEPT ![h] =
                [outcome |-> outcome, revision |-> None, board |-> None]]

Finish_KeepsLocks(h, outcome) ==
    /\ pc' = [pc EXCEPT ![h] = "done"]
    /\ Answer(h, outcome)
    /\ UNCHANGED <<database, locks, work, next>>

\* The transaction ends without changing the database.
Finish(h, outcome) ==
    /\ pc' = [pc EXCEPT ![h] = "done"]
    /\ Answer(h, outcome)
    /\ ReleaseLocks(h)
    /\ UNCHANGED <<database, work, next>>

\* Row locks of other transactions on the membership of u.
SharedByOthers(h, u) == \E l \in memberShare : l[1] # h /\ l[2] = u
WrittenByOthers(h, u) == \E l \in memberLock : l[1] # h /\ l[2] = u

\* The last administrator keeps the role.
KeepsAdministrator(u, role) ==
    roles[u] = "admin" /\ role # "admin" => Cardinality(Admins) > 1

-----------------------------------------------------------------------------
(* A request arrives *)

\* Change reads the sender's role before it takes any lock, only to turn away
\* strangers early.
Begin(h, w) ==
    /\ pc[h] \in {"idle", "done"}
    /\ work' = [work EXCEPT ![h] = w]
    /\ next' = [next EXCEPT ![h] = 0]
    /\ IF w \in Request /\ roles[w.actor] = None
       THEN pc' = [pc EXCEPT ![h] = "done"] /\ Answer(h, "refused")
       ELSE pc' = [pc EXCEPT ![h] = "begun"] /\ reply' = [reply EXCEPT ![h] = None]
    /\ UNCHANGED <<database, locks>>

-----------------------------------------------------------------------------
(* Change and SetMember *)

LockWorkspace_Shared(h) ==
    /\ pc[h] = "begun"
    /\ Serves(h, Request \cup Operation)
    /\ workspaceLock' = h
    /\ pc' = [pc EXCEPT ![h] = "locked"]
    /\ UNCHANGED <<database, keyShare, memberShare, memberLock, work, next, reply>>

\* SELECT ... FROM workspaces ... FOR UPDATE.
LockWorkspace(h) ==
    /\ pc[h] = "begun"
    /\ Serves(h, Request \cup Operation)
    /\ workspaceLock = None
    /\ keyShare \subseteq {h}
    /\ workspaceLock' = h
    /\ pc' = [pc EXCEPT ![h] = "locked"]
    /\ UNCHANGED <<database, keyShare, memberShare, memberLock, work, next, reply>>

MayWrite_Known(actor) == roles[actor] # None

\* The sender's role is read again under the lock.
MayWrite(actor) == roles[actor] \in {"member", "admin"}

Receipts_SamePayload(r) == {e \in receipts : e.request = r}

\* The receipt of a request sent under this key before.
Receipts(r) ==
    {e \in receipts : e.request.actor = r.actor /\ e.request.key = r.key}

\* Apply accepts the command: its base is the present revision, and a role
\* change comes from an administrator and leaves one.
Applies(r) ==
    /\ r.base = revision
    /\ r.op # "plan" =>
         /\ roles[r.actor] = "admin"
         /\ r.op = "add" <=> roles[r.target] = None
         /\ KeepsAdministrator(r.target, r.role)

Forbid(h) ==
    /\ pc[h] = "locked"
    /\ Serves(h, Request)
    /\ ~MayWrite(work[h].actor)
    /\ Finish(h, "refused")

\* A key seen before answers with the revision it produced, or conflicts when
\* the command under it differs.
Replay(h) ==
    /\ pc[h] = "locked"
    /\ Serves(h, Request)
    /\ MayWrite(work[h].actor)
    /\ \E e \in Receipts(work[h]) :
         IF e.request = work[h]
         THEN /\ pc' = [pc EXCEPT ![h] = "committed"]
              /\ next' = [next EXCEPT ![h] = e.revision]
              /\ ReleaseLocks(h)
              /\ UNCHANGED <<database, work, reply>>
         ELSE Finish(h, "refused")

Reject(h) ==
    /\ pc[h] = "locked"
    /\ Serves(h, Request)
    /\ MayWrite(work[h].actor)
    /\ Receipts(work[h]) = {}
    /\ ~Applies(work[h])
    /\ Finish(h, "refused")

\* The command is applied to the loaded board; the sender's membership row
\* stays share-locked.
Apply(h) ==
    /\ pc[h] = "locked"
    /\ Serves(h, Request)
    /\ MayWrite(work[h].actor)
    /\ Receipts(work[h]) = {}
    /\ Applies(work[h])
    /\ next' = [next EXCEPT ![h] = revision + 1]
    /\ memberShare' = memberShare \cup {<<h, work[h].actor>>}
    /\ pc' = [pc EXCEPT ![h] = IF work[h].op = "plan" THEN "ready" ELSE "write"]
    /\ UNCHANGED <<database, workspaceLock, keyShare, memberLock, work, reply>>

\* INSERT, UPDATE or DELETE of the membership row waits for its readers.
WriteMembership(h) ==
    /\ pc[h] = "write"
    /\ ~SharedByOthers(h, work[h].target)
    /\ memberLock' = memberLock \cup {<<h, work[h].target>>}
    /\ pc' = [pc EXCEPT ![h] = "ready"]
    /\ UNCHANGED <<database, workspaceLock, keyShare, memberShare, work, next, reply>>

\* SetMember locks the membership row for update and counts administrators.
OperatorWrite(h) ==
    /\ pc[h] = "locked"
    /\ Serves(h, Operation)
    /\ ~SharedByOthers(h, work[h].target)
    /\ IF KeepsAdministrator(work[h].target, work[h].role)
       THEN /\ memberLock' = memberLock \cup {<<h, work[h].target>>}
            /\ pc' = [pc EXCEPT ![h] = "ready"]
            /\ UNCHANGED <<database, workspaceLock, keyShare, memberShare,
                           work, next, reply>>
       ELSE Finish(h, "refused")

SetRole(target, role) ==
    roles' = IF target = None THEN roles ELSE [roles EXCEPT ![target] = role]

\* Revision, history, receipt and role become visible at once.
CommitChange(h) ==
    /\ pc[h] = "ready"
    /\ Serves(h, Request)
    /\ revision' = next[h]
    /\ SetRole(work[h].target, work[h].role)
    /\ receipts' = receipts \cup {[request |-> work[h], revision |-> next[h]]}
    /\ ReleaseLocks(h)
    /\ pc' = [pc EXCEPT ![h] = "committed"]
    /\ UNCHANGED <<comments, work, next, reply>>

CommitOperation(h) ==
    /\ pc[h] = "ready"
    /\ Serves(h, Operation)
    /\ SetRole(work[h].target, work[h].role)
    /\ ReleaseLocks(h)
    /\ pc' = [pc EXCEPT ![h] = "done"]
    /\ \E outcome \in {"ok", "failed"} : Answer(h, outcome)
    /\ UNCHANGED <<revision, receipts, comments, work, next>>

Reply_PresentRevision(h, board) ==
    /\ pc[h] = "committed"
    /\ board # None => board = revision /\ roles[work[h].actor] # None
    /\ reply' = [reply EXCEPT ![h] =
                   [outcome |-> "ok", revision |-> revision, board |-> board]]
    /\ pc' = [pc EXCEPT ![h] = "done"]
    /\ UNCHANGED <<database, locks, work, next>>

\* The answer of the changes endpoint: the revision the command produced and,
\* unless the client declined it or the read fails, the board as it is now.
Reply(h, board) ==
    /\ pc[h] = "committed"
    /\ board # None => board = revision /\ roles[work[h].actor] # None
    /\ reply' = [reply EXCEPT ![h] =
                   [outcome |-> "ok", revision |-> next[h], board |-> board]]
    /\ pc' = [pc EXCEPT ![h] = "done"]
    /\ UNCHANGED <<database, locks, work, next>>

-----------------------------------------------------------------------------
(* AddComment *)

\* SELECT role FROM memberships ... FOR SHARE waits for a writer of the row.
ShareMembership(h) ==
    /\ pc[h] = "begun"
    /\ Serves(h, Comment)
    /\ ~WrittenByOthers(h, work[h].actor)
    /\ IF MayWrite(work[h].actor)
       THEN /\ memberShare' = memberShare \cup {<<h, work[h].actor>>}
            /\ pc' = [pc EXCEPT ![h] = "shared"]
            /\ UNCHANGED <<database, workspaceLock, keyShare, memberLock,
                           work, next, reply>>
       ELSE Finish(h, "refused")

SameKey(c, d) == c.actor = d.actor /\ c.key = d.key

DigestDiffers_Unchecked(c) == FALSE

\* Another comment of this author is stored under the key.
DigestDiffers(c) == \E d \in comments : SameKey(c, d) /\ c # d

\* A comment of this author is stored under the key.
Stored(c) == \E d \in comments : SameKey(c, d)

\* Handlers whose uncommitted insert holds the same unique key.
Inserting(c) ==
    {h \in Handler : pc[h] = "ready" /\ Serves(h, Comment) /\ SameKey(work[h], c)}

\* INSERT ... ON CONFLICT DO NOTHING waits for an insert of the same key and,
\* to reference the workspace row, for whoever locked it FOR UPDATE.
InsertComment(h) ==
    /\ pc[h] = "shared"
    /\ ~Stored(work[h])
    /\ Inserting(work[h]) = {}
    /\ workspaceLock = None
    /\ keyShare' = keyShare \cup {h}
    /\ pc' = [pc EXCEPT ![h] = "ready"]
    /\ UNCHANGED <<database, workspaceLock, memberShare, memberLock, work, next, reply>>

\* Nothing to insert under a key stored before: the stored comment answers, or
\* conflicts when it is a different one.  No row references the workspace.
ReplayComment(h) ==
    /\ pc[h] = "shared"
    /\ Stored(work[h])
    /\ IF DigestDiffers(work[h]) THEN Finish(h, "refused") ELSE Finish(h, "ok")

\* The commit; its acknowledgement may get lost.
CommitComment(h) ==
    /\ pc[h] = "ready"
    /\ Serves(h, Comment)
    /\ comments' = comments \cup {work[h]}
    /\ ReleaseLocks(h)
    /\ pc' = [pc EXCEPT ![h] = "done"]
    /\ \E outcome \in {"ok", "failed"} : Answer(h, outcome)
    /\ UNCHANGED <<revision, roles, receipts, work, next>>

-----------------------------------------------------------------------------
(* Requests that end early *)

\* Two transactions that wait for each other: h needs the membership row that
\* g share-locked, g needs the workspace row that h locked.
LockCycle(h, g) ==
    /\ workspaceLock = h
    /\ \/ pc[h] = "write"
       \/ pc[h] = "locked" /\ Serves(h, Operation)
    /\ <<g, work[h].target>> \in memberShare
    /\ pc[g] = "shared"

\* PostgreSQL detects the cycle and aborts one of the two.
DeadlockVictim(h) ==
    /\ \E g \in Handler : LockCycle(h, g) \/ LockCycle(g, h)
    /\ Finish(h, "failed")

\* An error, the request's deadline or a crash before the commit: rollback.
Fail(h) ==
    /\ InTransaction(h)
    /\ Finish(h, "failed")

\* The commit took effect but its acknowledgement or the answer got lost.
LoseReply(h) ==
    /\ pc[h] = "committed"
    /\ pc' = [pc EXCEPT ![h] = "done"]
    /\ Answer(h, "failed")
    /\ UNCHANGED <<database, locks, work, next>>

-----------------------------------------------------------------------------
\* What a handler does by itself once a request has arrived.
Proceed(h) ==
    \/ LockWorkspace(h)
    \/ Forbid(h) \/ Replay(h) \/ Reject(h) \/ Apply(h)
    \/ WriteMembership(h)
    \/ OperatorWrite(h)
    \/ CommitChange(h)
    \/ CommitOperation(h)
    \/ \E board \in {revision, None} : Reply(h, board)
    \/ ShareMembership(h)
    \/ InsertComment(h)
    \/ ReplayComment(h)
    \/ CommitComment(h)
    \/ DeadlockVictim(h)

Arrive(h) == \E w \in Request \cup Comment \cup Operation : Begin(h, w)

Next == \E h \in Handler : Arrive(h) \/ Proceed(h) \/ Fail(h) \/ LoseReply(h)

Spec == Init /\ [][Next]_vars

\* Row-lock waiters are queued, so a handler whose next step becomes possible
\* again and again takes it.  Requests need not arrive, fail or lose replies.
Fairness == \A h \in Handler : SF_vars(Proceed(h))

FairSpec == Spec /\ Fairness

-----------------------------------------------------------------------------
(* Properties *)

\* Transactions that change the revision or a role, past the workspace lock,
\* and comments past the check of their author.
Writing(h) ==
    \/ pc[h] \in {"locked", "write"}
    \/ pc[h] = "ready" /\ Serves(h, Request \cup Operation)
Commenting(h) ==
    \/ pc[h] = "shared"
    \/ pc[h] = "ready" /\ Serves(h, Comment)

\* Every variable holds what the tables and handlers allow, and no row lock
\* outlives the transaction that took it.
TypeOK ==
    /\ revision \in Nat
    /\ roles \in [Subject -> Role \cup {None}]
    /\ receipts \subseteq [request: Request, revision: Nat]
    /\ comments \subseteq Comment
    /\ workspaceLock \in {h \in Handler : InTransaction(h)} \cup {None}
    /\ keyShare \subseteq {h \in Handler : InTransaction(h)}
    /\ memberShare \subseteq {h \in Handler : InTransaction(h)} \X Subject
    /\ memberLock \subseteq {h \in Handler : InTransaction(h)} \X Subject
    /\ pc \in [Handler -> {"idle", "begun", "locked", "shared", "write",
                           "ready", "committed", "done"}]
    /\ work \in [Handler -> Request \cup Comment \cup Operation \cup {None}]
    /\ next \in [Handler -> Nat]
    /\ reply \in [Handler -> [outcome: Outcome, revision: Nat \cup {None},
                              board: Nat \cup {None}] \cup {None}]

\* The workspace lock is held exactly while a change or an operator's role
\* change is between reading and committing, and the membership rows such a
\* transaction wrote, or a comment relies on, stay locked until it ends.
LockDiscipline ==
    /\ \A h \in Handler : workspaceLock = h <=> Writing(h)
    /\ \A h \in Handler :
         pc[h] = "ready" /\ Serves(h, Request \cup Operation) =>
            work[h].target = None \/ <<h, work[h].target>> \in memberLock
    /\ \A h \in Handler :
         Commenting(h) => <<h, work[h].actor>> \in memberShare
    /\ \A l \in memberLock :
         /\ l[1] = workspaceLock
         /\ \A k \in memberShare : l[2] = k[2] => l[1] = k[1]

StillTrue(h) ==
    /\ pc[h] \in {"write", "ready"} /\ Serves(h, Request) =>
         /\ MayWrite(work[h].actor)
         /\ Receipts(work[h]) = {}
         /\ Applies(work[h])
         /\ next[h] = revision + 1
    /\ pc[h] = "ready" /\ Serves(h, Operation) =>
         KeepsAdministrator(work[h].target, work[h].role)
    /\ Commenting(h) => MayWrite(work[h].actor)

\* What a transaction read is still true when it commits: the base revision,
\* the unused key, the sender's role, the administrators.
ReadsHold == \A h \in Handler : StillTrue(h)

\* No lost update: every revision was produced by one command, made against
\* the revision just before it, whatever the handlers overlap.
NoLostUpdate ==
    /\ revision >= 1
    /\ \A e \in receipts : e.revision = e.request.base + 1 /\ e.revision \in 2..revision
    /\ \A n \in 2..revision : \E e \in receipts : e.revision = n
    /\ \A e, f \in receipts : e.revision = f.revision => e = f

\* A person's key names at most one accepted command, through retries that
\* overlap the first attempt and retries with a changed command.
KeyUsedOnce ==
    \A e, f \in receipts :
        e.request.actor = f.request.actor /\ e.request.key = f.request.key => e = f

\* The member commands of Change and the operator's SetMember run on different
\* code paths; together they never remove the last administrator.
AdminRemains == Admins # {}

\* An answer tells the truth: success means this command (or comment) is
\* stored, the revision is the one it produced, also when it answers a retry,
\* and a board sent along is not older than that.
TruthfulReplies ==
    \A h \in Handler :
        pc[h] = "done" /\ reply[h].outcome = "ok" =>
          /\ Serves(h, Request) =>
               /\ [request |-> work[h], revision |-> reply[h].revision] \in receipts
               /\ reply[h].board # None => reply[h].board >= reply[h].revision
          /\ Serves(h, Comment) => work[h] \in comments

\* A comment becomes visible only while its author may write: a role taken
\* away before it commits takes it back, although comments do not pass through
\* the workspace lock that orders role changes.
CommentsByWriters ==
    [][\A c \in Comment : c \in comments' \ comments =>
         roles'[c.actor] \in {"member", "admin"}]_vars

\* A request that reached a transaction is answered, also when a comment and a
\* role change lock the same two rows in opposite orders.
RequestsAnswered ==
    \A h \in Handler : pc[h] = "begun" ~> pc[h] = "done"

\* Changes implement the serial ledger.
Ledger == INSTANCE FluxLedger WITH applied <- receipts
LedgerSpec == Ledger!LedgerSpec

=============================================================================
