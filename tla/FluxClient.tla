----------------------------- MODULE FluxClient -----------------------------
(***************************************************************************)
(* The browser client of static/modules: how one tab loads a workspace,    *)
(* polls it, sends planning commands and leaves it again (sync.js,         *)
(* commands.js, actions.js, page-data.js, bulk.js, drag.js, notices.js).   *)
(*                                                                         *)
(* JavaScript runs one task at a time, so an action is the code between    *)
(* two awaits.  What an async function holds over an await is a record of  *)
(* its own (load, obs, mem, post, more, create); `live' says that its      *)
(* AbortSignal has not fired.  An aborted fetch is rejected at once, so an *)
(* aborted function takes only its way out.  The server is a few numbers   *)
(* per workspace; other people change them at any time.                    *)
(***************************************************************************)
EXTENDS Naturals, FiniteSets

CONSTANTS
  Workspaces,
  LinkIdentity,  \* state of the links -> which links they are
  MaxRevision,   \* bound on a workspace's revision
  MaxLinks,      \* bound on the states a workspace's links go through
  MaxBatch,      \* bound on the commands of one sequence
  None,          \* undefined, null or the empty string of the code
  Failed,        \* a request that brings no answer the client can use
  Unchanged      \* 304

ASSUME ClientAssumption ==
  /\ MaxRevision \in Nat /\ MaxLinks \in Nat /\ MaxBatch \in Nat \ {0}
  /\ LinkIdentity \in [0..MaxLinks -> Nat]

VARIABLES
  server,   \* per workspace: its revision, the state of its links, the role
  access,   \* workspaces the user is a member of
  state,    \* the store (state.js)
  digest,   \* observationDigest of sync.js, with the workspace it is of
  load,     \* the board or workspace-list load in flight (currentLoad)
  obs,      \* pollObservations
  mem,      \* pollMembership
  post,     \* change and runSequence: the commands being sent
  more,     \* navigate and load*: a page read outside a load
  create    \* createWorkspace

vars == <<server, access, state, digest, load, obs, mem, post, more, create>>

Roles == {"viewer", "member"}   \* an admin writes planning like a member
Views == {"board", "history"}   \* a view without pages, and one with
Gates == {"none", "loading", "select", "create"}  \* "none" is the empty string

\* What a board read returns; the ETag is derived from it.
Body == [workspace : Workspaces, revision : 0..MaxRevision,
         links : 0..MaxLinks, role : Roles]
BodyOf(w) == [workspace |-> w, revision |-> server[w].revision,
              links |-> server[w].links, role |-> server[w].role]

\* The board shown: an object of its own (id), and whether it carries an
\* optimistic placement.  One more identifier than boards are ever held.
BoardIds == 1..6
Board == [id : BoardIds, body : Body, placed : BOOLEAN]

\* The workspace list, with what each entry reports.
Seen == [revision : 0..MaxRevision, role : Roles]
Memberships == [Workspaces -> {None} \cup Seen]
MembershipsNow ==
  [w \in Workspaces |->
     IF w \in access
     THEN [revision |-> server[w].revision, role |-> server[w].role]
     ELSE None]
Listed(memberships) == {w \in Workspaces : memberships[w] # None}

\* What the undo offer takes back.
Undo == [workspace : Workspaces, commands : 1..MaxBatch]

\* What the caller of refresh does when it returns.
Then == [kind : {"user", "choose", "create", "quick", "dialog", "form",
                 "batch", "reject"},
         undo : {None} \cup Undo]
Thereafter(kind, undo) == [kind |-> kind, undo |-> undo]

IdleLoad == [stage |-> "idle", live |-> TRUE, answer |-> None,
             preloaded |-> None, cached |-> None, body |-> None,
             then |-> Thereafter("user", None)]
IdleObs == [stage |-> "idle", live |-> TRUE, board |-> None,
            role |-> None, revision |-> None, digest |-> None, answer |-> None]
IdleMem == [stage |-> "idle", live |-> TRUE, board |-> None,
            before |-> None, answer |-> None]
IdlePost == [stage |-> "idle", from |-> "quick", workspace |-> None,
             origin |-> None, revision |-> 0, left |-> 0, sent |-> 0,
             receipt |-> None, board |-> None, previous |-> None,
             patched |-> None, undo |-> None]
IdleMore == [stage |-> "idle", live |-> TRUE, reset |-> FALSE, answer |-> None]

\* The store, and what each asynchronous function holds over an await.
Drag == [revision : 0..MaxRevision, live : BOOLEAN]
Dialog == [kind : {"command", "bulk"}, workspace : Workspaces,
           revision : 0..MaxRevision]
Store ==
  [board : {None} \cup Board, root : {None} \cup Workspaces,
   gate : Gates, etag : {None} \cup Body, busy : BOOLEAN,
   loading : BOOLEAN, form : BOOLEAN, drag : {None} \cup Drag,
   dialog : {None} \cup Dialog, notice : BOOLEAN,
   workspaces : Memberships, undo : {None} \cup Undo,
   view : Views, pages : SUBSET Workspaces, creating : BOOLEAN]
Load ==
  [stage : {"idle", "gate", "members", "board", "page"}, live : BOOLEAN,
   answer : {None, Unchanged} \cup Memberships \cup Body,
   preloaded : {None} \cup Body, cached : {None} \cup Body,
   body : {None} \cup Body, then : Then]
Obs ==
  [stage : {"idle", "revision", "board"}, live : BOOLEAN,
   board : {None} \cup Board, role : {None} \cup Roles,
   revision : {None} \cup 0..MaxRevision,
   digest : {None} \cup 0..MaxLinks, answer : {None} \cup Body]
Mem ==
  [stage : {"idle", "asked"}, live : BOOLEAN, board : {None} \cup Board,
   before : {None} \cup Memberships, answer : {None} \cup Memberships]
Post ==
  [stage : {"idle", "sent", "committed", "answered", "failed"},
   from : {"quick", "dialog", "form", "batch"},
   workspace : {None} \cup Workspaces, origin : {None} \cup Workspaces,
   revision : 0..MaxRevision, left : 0..MaxBatch, sent : 0..MaxBatch,
   receipt : {None} \cup 0..MaxRevision, board : {None} \cup Body,
   previous : {None} \cup Board, patched : {None} \cup Board,
   undo : {None} \cup Undo]
More == [stage : {"idle", "asked"}, live : BOOLEAN, reset : BOOLEAN,
         answer : {None} \cup Workspaces]
Create == [stage : {"idle", "posted", "listing"},
           answer : {None, Failed} \cup Workspaces]

\* What stands for nothing, a failure or a 304 is none of the things it is
\* told from.
ASSUME NothingAssumption ==
  /\ None # Failed /\ None # Unchanged /\ Failed # Unchanged
  /\ \A x \in {None, Failed, Unchanged} :
       x \notin Workspaces \cup Body \cup Board \cup Memberships
             \cup Seen \cup Undo \cup Drag \cup Dialog \cup Nat

TypeOK ==
  /\ server \in [Workspaces -> [revision : 0..MaxRevision,
                                links : 0..MaxLinks, role : Roles]]
  /\ access \subseteq Workspaces
  /\ state \in Store
  /\ digest \in {None} \cup [workspace : Workspaces, links : 0..MaxLinks]
  /\ load \in Load
  /\ obs \in Obs
  /\ mem \in Mem
  /\ post \in Post
  /\ more \in More
  /\ create \in Create

\* The tab after startApp: the session and the workspace list are there.
\* No workspace is shown, and nothing is under way.
InitialState ==
  [board |-> None, root |-> None, gate |-> "loading", etag |-> None,
   busy |-> FALSE, loading |-> FALSE, form |-> FALSE, drag |-> None,
   dialog |-> None, notice |-> FALSE, workspaces |-> {}, undo |-> None,
   view |-> "board", pages |-> {}, creating |-> FALSE]

Init ==
  /\ server = [w \in Workspaces |->
                 [revision |-> 0, links |-> 0, role |-> "member"]]
  /\ access \in SUBSET Workspaces
  /\ state = [InitialState EXCEPT
                !.gate = IF access = {} THEN "create" ELSE "select",
                !.workspaces = MembershipsNow]
  /\ digest = None
  /\ load = IdleLoad /\ obs = IdleObs /\ mem = IdleMem
  /\ post = IdlePost /\ more = IdleMore
  /\ create = [stage |-> "idle", answer |-> None]

-----------------------------------------------------------------------------
(* permissions.js, and what blocks polls and navigation.                    *)

\* A bug: a write may start while a load is in flight.
CanWriteWhileLoading(s) ==
  s.board # None /\ s.board.body.role # "viewer" /\ ~s.busy
CanWrite(s) ==
  s.board # None /\ s.board.body.role # "viewer" /\ ~s.busy /\ ~s.loading
InteractionBlocked(s) == s.loading \/ s.busy \/ s.form
PollBlocked(s) ==
  s.busy \/ s.loading \/ s.form \/ s.drag # None \/ s.dialog # None

\* The page takes clicks and keys: no modal dialog is open and nothing is
\* being dragged.
PageIsLive == state.dialog = None /\ state.drag = None

HeldBoards == {state.board, obs.board, mem.board, post.previous, post.patched}
NewId == CHOOSE i \in BoardIds : \A b \in HeldBoards \ {None} : b.id # i
NewBoard(body) == [id |-> NewId, body |-> body, placed |-> FALSE]

-----------------------------------------------------------------------------
(* The workspace session: leaving a workspace aborts what belongs to it.    *)

Aborted(op) == [op EXCEPT !.live = (op.stage = "idle")]
AbortReads == /\ obs' = Aborted(obs) /\ mem' = Aborted(mem)
              /\ more' = Aborted(more)
LeaveSession(s) ==
  [s EXCEPT !.drag = IF @ = None THEN None ELSE [@ EXCEPT !.live = FALSE]]

EnterWorkspaceGate(s, mode) ==
  [LeaveSession(s) EXCEPT
     !.dialog = IF s.busy THEN @ ELSE None, !.board = None, !.root = None,
     !.etag = None, !.gate = mode, !.undo = None]
GateFor(memberships) == IF Listed(memberships) = {} THEN "create" ELSE "select"

-----------------------------------------------------------------------------
(* refresh and its callers.                                                 *)

\* What the caller does once refresh has returned ok.
Resume(s, ok, then) ==
  CASE then.kind \in {"quick", "batch"} /\ then.undo # None ->
         [s EXCEPT !.undo = then.undo]
    [] then.kind = "dialog" -> [s EXCEPT !.dialog = None]
    [] then.kind = "choose" /\ ok -> [s EXCEPT !.gate = "none"]
    [] then.kind = "create" /\ ok -> [s EXCEPT !.gate = "none", !.creating = FALSE]
    [] then.kind = "create" /\ ~ok ->
         [LeaveSession(s) EXCEPT !.gate = "create", !.root = None,
                                 !.creating = FALSE]
    [] then.kind = "reject" /\ ok ->
         [s EXCEPT !.dialog = [kind |-> "command",
                               workspace |-> s.board.body.workspace,
                               revision |-> s.board.body.revision]]
    [] OTHER -> s
ResumeAborts(ok, then) == then.kind = "create" /\ ~ok

Refresh(s, preloaded, then) ==
  IF ~s.busy /\ ~s.form /\ s.root # None
  THEN /\ state' = [s EXCEPT !.loading = TRUE]
       /\ load' = [IdleLoad EXCEPT !.stage = "members",
                     !.preloaded = preloaded, !.then = then]
  ELSE state' = Resume(s, FALSE, then) /\ load' = load

EndLoad(s, ok) ==
  /\ state' = Resume([s EXCEPT !.loading = FALSE], ok, load.then)
  /\ load' = IdleLoad
  /\ IF ResumeAborts(ok, load.then)
     THEN AbortReads
     ELSE UNCHANGED <<obs, mem, more>>

\* A bug: the reads of the workspace left are not aborted.
ChooseWithoutAbort(s, w, then) ==
  /\ UNCHANGED <<obs, mem, more>>
  /\ Refresh([LeaveSession(s) EXCEPT
                !.form = FALSE, !.board = None, !.gate = "loading",
                !.undo = None, !.notice = FALSE, !.root = w],
             None, then)
ChooseWorkspace(s, w, then) ==
  /\ AbortReads
  /\ Refresh([LeaveSession(s) EXCEPT
                !.form = FALSE, !.board = None, !.gate = "loading",
                !.undo = None, !.notice = FALSE, !.root = w],
             None, then)

-----------------------------------------------------------------------------
(* The steps of a load, each after the answer it waited for.                *)

Loading(stage) == load.stage = stage /\ load.live

AnswerMemberships ==
  /\ (Loading("members") \/ Loading("gate"))
  /\ load.answer = None
  /\ load' = [load EXCEPT !.answer = MembershipsNow]
  /\ UNCHANGED <<server, access, state, digest, obs, mem, post, more, create>>

\* The validator is stored when the board arrives, the board itself only
\* after the view's page has been read as well.
ReceiveBoard(s, body) ==
  /\ state' = [s EXCEPT !.etag = body]
  /\ digest' = None
  /\ load' = [load EXCEPT !.stage = "page", !.body = body, !.answer = None]
  /\ UNCHANGED <<obs, mem, more>>

Preloaded(w) == load.preloaded # None /\ load.preloaded.workspace = w

LoadMemberships ==
  /\ Loading("members") /\ load.answer \in Memberships
  /\ LET s == [state EXCEPT !.workspaces = load.answer]
         selected == IF s.board # None THEN s.board.body.workspace ELSE s.root
     IN \/ /\ selected \notin Listed(load.answer)
           /\ AbortReads
           /\ state' = Resume([EnterWorkspaceGate(s, GateFor(load.answer))
                                 EXCEPT !.loading = FALSE], FALSE, load.then)
           /\ load' = IdleLoad
           /\ UNCHANGED digest
        \/ /\ selected \in Listed(load.answer)
           /\ Preloaded(selected)
           /\ ReceiveBoard(s, load.preloaded)
        \/ /\ selected \in Listed(load.answer)
           /\ ~Preloaded(selected)
           /\ state' = s
           /\ load' = [load EXCEPT !.stage = "board", !.answer = None,
                 !.cached = IF s.board # None /\ s.etag # None
                               /\ s.etag.workspace = s.root
                            THEN s.etag ELSE None]
           /\ UNCHANGED <<digest, obs, mem, more>>
  /\ UNCHANGED <<server, access, post, create>>

AnswerBoard ==
  /\ Loading("board") /\ load.answer = None /\ state.root \in access
  /\ load' = [load EXCEPT !.answer =
                IF load.cached = BodyOf(state.root)
                THEN Unchanged ELSE BodyOf(state.root)]
  /\ UNCHANGED <<server, access, state, digest, obs, mem, post, more, create>>

LoadBoard ==
  /\ Loading("board")
  /\ \/ /\ load.answer \in Body
        /\ ReceiveBoard(state, load.answer)
     \/ /\ load.answer = Unchanged
        /\ EndLoad([state EXCEPT !.notice = FALSE], TRUE)
        /\ UNCHANGED digest
  /\ UNCHANGED <<server, access, post, create>>

\* The board is applied with the page, or without it when the page failed.
LoadPage(ok) ==
  /\ Loading("page")
  /\ EndLoad([state EXCEPT
                !.board = NewBoard(load.body), !.gate = "none", !.notice = FALSE,
                !.pages = IF state.view = "history" /\ ok
                          THEN {load.body.workspace} ELSE {}], ok)
  /\ UNCHANGED <<server, access, digest, post, create>>

\* A request of the load fails, or its signal is aborted.
LoadFails ==
  /\ load.stage # "idle"
  /\ (~load.live \/ (load.answer = None /\ load.stage # "page"))
  /\ EndLoad(state, FALSE)
  /\ UNCHANGED <<server, access, digest, post, create>>

-----------------------------------------------------------------------------
(* The workspace gate.                                                      *)

RefreshWorkspace ==
  /\ PageIsLive /\ ~InteractionBlocked(state) /\ state.root # None
  /\ Refresh(state, None, Thereafter("user", None))
  /\ UNCHANGED <<server, access, digest, obs, mem, post, more, create>>

RefreshWorkspaceGate ==
  /\ PageIsLive /\ ~InteractionBlocked(state) /\ state.root = None
  /\ state' = [state EXCEPT !.loading = TRUE]
  /\ load' = [IdleLoad EXCEPT !.stage = "gate"]
  /\ UNCHANGED <<server, access, digest, obs, mem, post, more, create>>

GateMemberships ==
  /\ Loading("gate") /\ load.answer \in Memberships
  /\ LET s == [state EXCEPT !.workspaces = load.answer, !.loading = FALSE]
     IN \/ \E w \in Workspaces :
             /\ Listed(load.answer) = {w}
             /\ ChooseWorkspace(s, w, Thereafter("choose", None))
        \/ /\ Cardinality(Listed(load.answer)) # 1
           /\ state' = [s EXCEPT !.gate = GateFor(load.answer)]
           /\ load' = IdleLoad
           /\ UNCHANGED <<obs, mem, more>>
  /\ UNCHANGED <<server, access, digest, post, create>>

MayChoose(w) == ~state.busy /\ ~state.loading /\ w \in Listed(state.workspaces)

\* The sidebar's select, or a choice at the gate.
Choose(w) ==
  /\ PageIsLive /\ MayChoose(w)
  /\ IF state.board = None THEN state.gate = "select" ELSE ~state.form
  /\ ChooseWorkspace(state, w, Thereafter("choose", None))
  /\ UNCHANGED <<server, access, digest, post, create>>

\* Back or Forward to an entry of another workspace.  The browser's buttons
\* work over a modal dialog too.
ApplyHistoryNavigation(w) ==
  /\ state.board # None /\ state.board.body.workspace # w
  /\ MayChoose(w)
  /\ ChooseWorkspace(state, w, Thereafter("choose", None))
  /\ UNCHANGED <<server, access, digest, post, create>>

ShowWorkspaceSelection ==
  /\ PageIsLive /\ ~state.busy /\ ~state.loading /\ ~state.creating
  /\ state.board = None /\ state.gate = "create"
  /\ Listed(state.workspaces) # {}
  /\ state' = [state EXCEPT !.gate = "select"]
  /\ UNCHANGED <<server, access, digest, load, obs, mem, post, more, create>>

ShowWorkspaceCreate ==
  /\ PageIsLive /\ ~InteractionBlocked(state) /\ state.gate # "create"
  /\ IF state.board = None
     THEN state' = [state EXCEPT !.gate = "create"] /\ UNCHANGED <<obs, mem, more>>
     ELSE state' = EnterWorkspaceGate(state, "create") /\ AbortReads
  /\ UNCHANGED <<server, access, digest, load, post, create>>

CreateWorkspace ==
  /\ state.board = None /\ state.gate = "create" /\ PageIsLive
  /\ ~state.creating /\ ~state.busy /\ ~state.loading
  /\ state' = [state EXCEPT !.creating = TRUE]
  /\ create' = [stage |-> "posted", answer |-> None]
  /\ UNCHANGED <<server, access, digest, load, obs, mem, post, more>>

AnswerCreate ==
  /\ create.stage = "posted" /\ create.answer = None
  /\ \E w \in Workspaces \ access :
       /\ server[w].revision = 0
       /\ access' = access \cup {w}
       /\ create' \in {[create EXCEPT !.answer = w],
                       [create EXCEPT !.answer = Failed]}
  /\ UNCHANGED <<server, state, digest, load, obs, mem, post, more>>

ListCreated ==
  /\ create.stage = "posted" /\ create.answer \in Workspaces
  /\ create' = [create EXCEPT !.stage = "listing"]
  /\ UNCHANGED <<server, access, state, digest, load, obs, mem, post, more>>

\* Neither the POST nor the list read carries a signal, and nothing keeps the
\* gate's other ways into a workspace shut while they run.
OpenCreated ==
  /\ create.stage = "listing" /\ create.answer \in access
  /\ ~state.busy /\ ~state.loading
  /\ create' = [stage |-> "idle", answer |-> None]
  /\ ChooseWorkspace([state EXCEPT !.workspaces = MembershipsNow],
                     create.answer, Thereafter("create", None))
  /\ UNCHANGED <<server, access, digest, post>>

CreateFails ==
  /\ create.stage # "idle"
  /\ (create.answer \in {None, Failed} \/ create.stage = "listing")
  /\ create' = [stage |-> "idle", answer |-> None]
  /\ state' = Resume(state, FALSE, Thereafter("create", None))
  /\ AbortReads /\ load' = Aborted(load)
  /\ UNCHANGED <<server, access, digest, post>>

-----------------------------------------------------------------------------
(* Pages of history, archive and archived sprints, read outside a load.     *)

Navigate(view) ==
  /\ state.board # None /\ PageIsLive /\ ~InteractionBlocked(state)
  /\ state' = [state EXCEPT !.view = view]
  /\ more.stage = "idle"
  /\ more' = IF view = "history"
             THEN [IdleMore EXCEPT !.stage = "asked", !.reset = TRUE]
             ELSE more
  /\ UNCHANGED <<server, access, digest, load, obs, mem, post, create>>

LoadOlder ==
  /\ state.board # None /\ PageIsLive /\ state.view = "history"
  /\ more.stage = "idle" /\ state.root # None
  /\ more' = [IdleMore EXCEPT !.stage = "asked"]
  /\ UNCHANGED <<server, access, state, digest, load, obs, mem, post, create>>

AnswerPage ==
  /\ more.stage = "asked" /\ more.live /\ more.answer = None
  /\ state.root \in access
  /\ more' = [more EXCEPT !.answer = state.root]
  /\ UNCHANGED <<server, access, state, digest, load, obs, mem, post, create>>

TakePage ==
  /\ more.stage = "asked" /\ more.live /\ more.answer \in Workspaces
  /\ state' = [state EXCEPT !.pages =
                 IF more.reset THEN {more.answer} ELSE @ \cup {more.answer}]
  /\ more' = IdleMore
  /\ UNCHANGED <<server, access, digest, load, obs, mem, post, create>>

PageFails ==
  /\ more.stage = "asked" /\ (~more.live \/ more.answer = None)
  /\ more' = IdleMore
  /\ UNCHANGED <<server, access, state, digest, load, obs, mem, post, create>>

-----------------------------------------------------------------------------
(* Sending planning commands.                                               *)

SendOne(from, origin, revision, undo) ==
  [IdlePost EXCEPT !.stage = "sent", !.from = from, !.workspace = state.root,
     !.origin = origin, !.revision = revision, !.left = 1, !.undo = undo]

UndoOf(s, commands) ==
  [workspace |-> s.board.body.workspace, commands |-> commands]

\* quick: a placement is shown before it is saved and can be undone after.
Quick(s, revision, placed) ==
  LET patched == [s.board EXCEPT !.id = NewId, !.placed = TRUE]
      sent == SendOne("quick", s.board.body.workspace, revision,
                      IF placed THEN UndoOf(s, 1) ELSE None)
  IN IF placed
     THEN /\ state' = [s EXCEPT !.busy = TRUE, !.board = patched]
          /\ post' = [sent EXCEPT !.previous = s.board, !.patched = patched]
     ELSE state' = [s EXCEPT !.busy = TRUE] /\ post' = sent

\* A bug: one command is sent twice.
RunSequenceTwice(s, n, undo) ==
  /\ state' = [s EXCEPT !.busy = TRUE]
  /\ post' = [SendOne("batch", s.board.body.workspace,
                      s.board.body.revision, undo) EXCEPT !.left = n + 1]
\* runSequence: n commands, each with the revision the one before it made.
RunSequence(s, n, undo) ==
  /\ state' = [s EXCEPT !.busy = TRUE]
  /\ post' = [SendOne("batch", s.board.body.workspace,
                      s.board.body.revision, undo) EXCEPT !.left = n]

SaveQuickly ==
  /\ PageIsLive /\ CanWrite(state) /\ ~state.form
  /\ \E placed \in BOOLEAN : Quick(state, state.board.body.revision, placed)
  /\ UNCHANGED <<server, access, digest, load, obs, mem, more, create>>

StartDrag ==
  /\ PageIsLive /\ CanWrite(state)
  /\ state' = [state EXCEPT !.drag =
                 [revision |-> state.board.body.revision, live |-> TRUE]]
  /\ UNCHANGED <<server, access, digest, load, obs, mem, post, more, create>>

\* A drop writes with the revision the drag began at.
Drop ==
  /\ state.drag # None /\ state.drag.live /\ CanWrite(state)
  /\ Quick([state EXCEPT !.drag = None], state.drag.revision, TRUE)
  /\ UNCHANGED <<server, access, digest, load, obs, mem, more, create>>

EndDrag ==
  /\ state.drag # None
  /\ state' = [state EXCEPT !.drag = None]
  /\ UNCHANGED <<server, access, digest, load, obs, mem, post, more, create>>

RunUndo ==
  /\ PageIsLive /\ state.undo # None /\ CanWrite(state)
  /\ LET s == [state EXCEPT !.undo = None]
     IN IF state.undo.commands = 1
        THEN Quick(s, s.board.body.revision, TRUE)
        ELSE RunSequence(s, state.undo.commands, None)
  /\ UNCHANGED <<server, access, digest, load, obs, mem, more, create>>

UndoExpires ==
  /\ state.undo # None
  /\ state' = [state EXCEPT !.undo = None]
  /\ UNCHANGED <<server, access, digest, load, obs, mem, post, more, create>>

\* A dialog is a snapshot: it keeps the revision it was opened at.
OpenDialog(kind) ==
  /\ PageIsLive /\ state.board # None /\ ~InteractionBlocked(state)
  /\ state' = [state EXCEPT !.dialog =
                 [kind |-> kind, workspace |-> state.board.body.workspace,
                  revision |-> state.board.body.revision]]
  /\ UNCHANGED <<server, access, digest, load, obs, mem, post, more, create>>

CloseEditor ==
  /\ state.dialog # None /\ ~state.busy
  /\ state' = [state EXCEPT !.dialog = None]
  /\ UNCHANGED <<server, access, digest, load, obs, mem, post, more, create>>

SubmitCommand ==
  /\ state.dialog # None /\ state.dialog.kind = "command" /\ CanWrite(state)
  /\ state' = [state EXCEPT !.busy = TRUE]
  /\ post' = SendOne("dialog", state.dialog.workspace,
                     state.dialog.revision, None)
  /\ UNCHANGED <<server, access, digest, load, obs, mem, more, create>>

\* A bulk dialog closes before its sequence starts; it writes with the
\* revision of the board, not with its own.
SubmitBulk ==
  /\ state.dialog # None /\ state.dialog.kind = "bulk" /\ CanWrite(state)
  /\ \E n \in 1..MaxBatch : \E undo \in {None, UndoOf(state, n)} :
       RunSequence([state EXCEPT !.dialog = None], n, undo)
  /\ UNCHANGED <<server, access, digest, load, obs, mem, more, create>>

\* Rejecting a proposal reloads the board first, from the review dialog.
RejectProposal ==
  /\ state.dialog # None /\ state.dialog.kind = "command"
  /\ CanWrite(state) /\ ~state.form
  /\ Refresh(state, None, Thereafter("reject", None))
  /\ UNCHANGED <<server, access, digest, obs, mem, post, more, create>>

EditIntegration ==
  /\ PageIsLive /\ state.board # None /\ ~InteractionBlocked(state)
  /\ state' = [state EXCEPT !.form = TRUE]
  /\ UNCHANGED <<server, access, digest, load, obs, mem, post, more, create>>

CancelIntegration ==
  /\ PageIsLive /\ state.form
  /\ state' = [state EXCEPT !.form = FALSE]
  /\ UNCHANGED <<server, access, digest, load, obs, mem, post, more, create>>

SubmitIntegration ==
  /\ PageIsLive /\ state.form /\ CanWrite(state)
  /\ state' = [state EXCEPT !.form = FALSE, !.busy = TRUE]
  /\ post' = SendOne("form", state.board.body.workspace,
                     state.board.body.revision, None)
  /\ UNCHANGED <<server, access, digest, load, obs, mem, more, create>>

-----------------------------------------------------------------------------
(* The server's side of a command, and the receipt.                         *)

Commit ==
  /\ post.stage = "sent" /\ post.workspace \in access
  /\ LET w == post.workspace IN
       /\ server[w].role # "viewer" /\ server[w].revision < MaxRevision
       /\ server[w].revision = post.revision
       /\ server' = [server EXCEPT ![w].revision = @ + 1]
       /\ post' = [post EXCEPT !.stage = "committed",
                               !.receipt = server[w].revision + 1]
  /\ UNCHANGED <<access, state, digest, load, obs, mem, more, create>>

\* A bug: every command of a sequence asks for the committed board.
NeverMinimal == FALSE
\* Only the last command of a sequence asks for the committed board.
Minimal == post.left > 1

\* The board is read after the commit, and that read may fail.
Acknowledge ==
  /\ post.stage = "committed"
  /\ \E withBoard \in IF Minimal THEN {FALSE} ELSE BOOLEAN :
       post' = [post EXCEPT !.stage = "answered",
                  !.board = IF withBoard /\ post.workspace \in access
                            THEN BodyOf(post.workspace) ELSE None]
  /\ UNCHANGED <<server, access, state, digest, load, obs, mem, more, create>>

\* Refused, or lost on the way there or back.
LoseChange ==
  /\ post.stage \in {"sent", "committed"}
  /\ post' = [post EXCEPT !.stage = "failed"]
  /\ UNCHANGED <<server, access, state, digest, load, obs, mem, more, create>>

ReceiptRevision == IF post.board # None THEN post.board.revision ELSE post.receipt

NextCommand ==
  /\ post.stage = "answered" /\ post.left > 1
  /\ post' = [post EXCEPT !.stage = "sent", !.workspace = state.root,
                !.revision = ReceiptRevision, !.left = @ - 1, !.sent = @ + 1,
                !.board = None]
  /\ UNCHANGED <<server, access, state, digest, load, obs, mem, more, create>>

ChangeSaved ==
  /\ post.stage = "answered" /\ post.left = 1
  /\ post' = IdlePost
  /\ Refresh([state EXCEPT !.busy = FALSE], post.board,
             Thereafter(post.from, post.undo))
  /\ UNCHANGED <<server, access, digest, obs, mem, more, create>>

\* A bug: a refused placement stays on the board.
NoRollback(board) == board
\* The placement is taken back only while it is still what is shown.
Rollback(board) == IF post.patched # None /\ board = post.patched
                   THEN post.previous ELSE board

ChangeFailed ==
  /\ post.stage = "failed" /\ post.from # "batch"
  /\ state' = [state EXCEPT !.busy = FALSE, !.board = Rollback(@),
                            !.form = (post.from = "form")]
  /\ post' = IdlePost
  /\ UNCHANGED <<server, access, digest, load, obs, mem, more, create>>

\* A sequence stops at its first failure and reads the board.
SequenceFailed ==
  /\ post.stage = "failed" /\ post.from = "batch"
  /\ post' = IdlePost
  /\ Refresh([state EXCEPT !.busy = FALSE], None, Thereafter("batch", None))
  /\ UNCHANGED <<server, access, digest, obs, mem, more, create>>

-----------------------------------------------------------------------------
(* pollObservations: the revision and a digest first, the board only when   *)
(* the digest moved or the last board read is too long ago.                 *)

Observing(stage) == obs.stage = stage /\ obs.live

ObserveTick ==
  /\ state.board # None /\ ~PollBlocked(state) /\ obs.stage = "idle"
  /\ obs' = [IdleObs EXCEPT !.stage = "revision", !.board = state.board]
  /\ UNCHANGED <<server, access, state, digest, load, mem, post, more, create>>

\* state.go reads the role, the revision and the digest one after the other,
\* outside a transaction.
AnswerRole ==
  /\ Observing("revision") /\ obs.role = None
  /\ obs.board.body.workspace \in access
  /\ obs' = [obs EXCEPT !.role = server[obs.board.body.workspace].role]
  /\ UNCHANGED <<server, access, state, digest, load, mem, post, more, create>>

AnswerRevision ==
  /\ Observing("revision") /\ obs.role # None /\ obs.revision = None
  /\ obs' = [obs EXCEPT !.revision = server[obs.board.body.workspace].revision]
  /\ UNCHANGED <<server, access, state, digest, load, mem, post, more, create>>

AnswerDigest ==
  /\ Observing("revision") /\ obs.revision # None /\ obs.digest = None
  /\ obs' = [obs EXCEPT !.digest = server[obs.board.body.workspace].links]
  /\ UNCHANGED <<server, access, state, digest, load, mem, post, more, create>>

\* A bug: only the board is compared after an await.
SameBoardShown == state.board = obs.board
\* What must still hold after every await of the poll.
StillObserving == state.board = obs.board /\ ~PollBlocked(state)
SamePlanning(role, revision) ==
  role = obs.board.body.role /\ revision = obs.board.body.revision

DigestSeen(links) == [workspace |-> obs.board.body.workspace, links |-> links]

\* A bug: the digest is recorded before the board is read.
RecordEarly ==
  /\ Observing("revision") /\ obs.digest # None
  /\ IF ~StillObserving
     THEN obs' = IdleObs /\ UNCHANGED <<state, digest>>
     ELSE IF ~SamePlanning(obs.role, obs.revision)
     THEN /\ state' = [state EXCEPT !.notice = TRUE]
          /\ obs' = IdleObs /\ UNCHANGED digest
     ELSE /\ digest' = DigestSeen(obs.digest) /\ UNCHANGED state
          /\ obs' = IF digest # None /\ digest.links = obs.digest
                    THEN IdleObs ELSE [obs EXCEPT !.stage = "board"]
  /\ UNCHANGED <<server, access, load, mem, post, more, create>>
TakeRevision ==
  /\ Observing("revision") /\ obs.digest # None
  /\ \/ /\ ~StillObserving
        /\ obs' = IdleObs /\ UNCHANGED state
     \/ /\ StillObserving /\ ~SamePlanning(obs.role, obs.revision)
        /\ state' = [state EXCEPT !.notice = TRUE]
        /\ obs' = IdleObs
     \/ /\ StillObserving /\ SamePlanning(obs.role, obs.revision)
        /\ digest # None /\ digest.links = obs.digest
        /\ obs' = IdleObs /\ UNCHANGED state
     \/ /\ StillObserving /\ SamePlanning(obs.role, obs.revision)
        /\ obs' = [obs EXCEPT !.stage = "board"]
        /\ UNCHANGED state
  /\ UNCHANGED <<server, access, digest, load, mem, post, more, create>>

AnswerObservedBoard ==
  /\ Observing("board") /\ obs.answer = None
  /\ obs.board.body.workspace \in access
  /\ obs' = [obs EXCEPT !.answer = BodyOf(obs.board.body.workspace)]
  /\ UNCHANGED <<server, access, state, digest, load, mem, post, more, create>>

\* Only the links of the board shown are replaced, and only when they are
\* the same links as before.
TakeObservations ==
  /\ Observing("board") /\ obs.answer # None
  /\ \/ /\ ~StillObserving
        /\ UNCHANGED <<state, digest>>
     \/ /\ StillObserving
        /\ \/ ~SamePlanning(obs.answer.role, obs.answer.revision)
           \/ LinkIdentity[obs.answer.links] # LinkIdentity[obs.board.body.links]
        /\ state' = [state EXCEPT !.notice = TRUE]
        /\ UNCHANGED digest
     \/ /\ StillObserving /\ SamePlanning(obs.answer.role, obs.answer.revision)
        /\ LinkIdentity[obs.answer.links] = LinkIdentity[obs.board.body.links]
        /\ digest' = DigestSeen(obs.digest)
        /\ state' = IF obs.answer.links = obs.board.body.links
                    THEN state
                    ELSE [state EXCEPT !.board.id = NewId,
                                       !.board.body.links = obs.answer.links]
  /\ obs' = IdleObs
  /\ UNCHANGED <<server, access, load, mem, post, more, create>>

ObserveFails ==
  /\ obs.stage # "idle"
  /\ \/ ~obs.live
     \/ obs.stage = "revision" /\ obs.digest = None
     \/ obs.stage = "board" /\ obs.answer = None
  /\ obs' = IdleObs
  /\ UNCHANGED <<server, access, state, digest, load, mem, post, more, create>>

-----------------------------------------------------------------------------
(* pollMembership.                                                          *)

MembershipTick ==
  /\ state.board # None /\ ~PollBlocked(state) /\ mem.stage = "idle"
  /\ mem' = [IdleMem EXCEPT !.stage = "asked", !.board = state.board,
                            !.before = state.workspaces]
  /\ UNCHANGED <<server, access, state, digest, load, obs, post, more, create>>

AnswerMembershipPoll ==
  /\ mem.stage = "asked" /\ mem.live /\ mem.answer = None
  /\ mem' = [mem EXCEPT !.answer = MembershipsNow]
  /\ UNCHANGED <<server, access, state, digest, load, obs, post, more, create>>

\* The list is stored in any case; what it means for the workspace shown is
\* only looked at while nothing else is going on.
TakeMemberships ==
  /\ mem.stage = "asked" /\ mem.live /\ mem.answer \in Memberships
  /\ LET s == [state EXCEPT !.workspaces = mem.answer]
         quiet == /\ state.board = mem.board
                  /\ ~state.busy /\ ~state.loading /\ ~state.form
     IN \/ /\ ~quiet
           /\ state' = s /\ mem' = IdleMem /\ UNCHANGED <<obs, more>>
        \/ /\ quiet /\ mem.board.body.workspace \notin Listed(mem.answer)
           /\ state' = EnterWorkspaceGate(s, GateFor(mem.answer))
           /\ mem' = IdleMem
           /\ obs' = Aborted(obs) /\ more' = Aborted(more)
        \/ /\ quiet /\ mem.board.body.workspace \in Listed(mem.answer)
           /\ state' = [s EXCEPT !.notice = @ \/ mem.answer # mem.before]
           /\ mem' = IdleMem /\ UNCHANGED <<obs, more>>
  /\ UNCHANGED <<server, access, digest, load, post, create>>

MembershipFails ==
  /\ mem.stage = "asked" /\ (~mem.live \/ mem.answer = None)
  /\ mem' = IdleMem
  /\ UNCHANGED <<server, access, state, digest, load, obs, post, more, create>>

-----------------------------------------------------------------------------
(* Everybody else.                                                          *)

Touch(w) == [server EXCEPT ![w].revision = @ + 1]

ElsewhereChanges(w) ==
  /\ server[w].revision < MaxRevision
  /\ \/ server' = Touch(w) /\ UNCHANGED access
     \/ /\ \E r \in Roles : server' = [Touch(w) EXCEPT ![w].role = r]
        /\ UNCHANGED access
     \/ server' = Touch(w) /\ access' = access \ {w}
     \/ server' = Touch(w) /\ access' = access \cup {w}
  /\ UNCHANGED <<state, digest, load, obs, mem, post, more, create>>

\* An operator makes the user a member or changes the role: no revision is made.
SetMember(w) ==
  /\ \E r \in Roles : server' = [server EXCEPT ![w].role = r]
  /\ access' = access \cup {w}
  /\ UNCHANGED <<state, digest, load, obs, mem, post, more, create>>

ElsewhereObserves(w) ==
  /\ server[w].links < MaxLinks
  /\ server' = [server EXCEPT ![w].links = @ + 1]
  /\ UNCHANGED <<access, state, digest, load, obs, mem, post, more, create>>

-----------------------------------------------------------------------------
Loads == \/ AnswerMemberships \/ LoadMemberships \/ AnswerBoard \/ LoadBoard
         \/ (\E ok \in BOOLEAN : LoadPage(ok)) \/ LoadFails
         \/ GateMemberships
Gate == \/ RefreshWorkspace \/ RefreshWorkspaceGate
        \/ (\E w \in Workspaces : Choose(w) \/ ApplyHistoryNavigation(w))
        \/ ShowWorkspaceSelection \/ ShowWorkspaceCreate
        \/ CreateWorkspace \/ AnswerCreate \/ ListCreated \/ OpenCreated
        \/ CreateFails
Pages == \/ (\E view \in Views : Navigate(view)) \/ LoadOlder
         \/ AnswerPage \/ TakePage \/ PageFails
Commands == \/ SaveQuickly \/ StartDrag \/ Drop \/ EndDrag
            \/ RunUndo \/ UndoExpires
            \/ (\E kind \in {"command", "bulk"} : OpenDialog(kind))
            \/ CloseEditor \/ SubmitCommand \/ SubmitBulk \/ RejectProposal
            \/ EditIntegration \/ CancelIntegration \/ SubmitIntegration
Posts == \/ Commit \/ Acknowledge \/ LoseChange \/ NextCommand
         \/ ChangeSaved \/ ChangeFailed \/ SequenceFailed
Observations == \/ ObserveTick \/ AnswerRole \/ AnswerRevision \/ AnswerDigest
                \/ TakeRevision \/ AnswerObservedBoard \/ TakeObservations
                \/ ObserveFails
MembershipPolls == \/ MembershipTick \/ AnswerMembershipPoll
                   \/ TakeMemberships \/ MembershipFails
Elsewhere == \E w \in Workspaces : ElsewhereChanges(w) \/ SetMember(w) \/ ElsewhereObserves(w)

Next == \/ Loads \/ Gate \/ Pages \/ Commands \/ Posts \/ Observations
        \/ MembershipPolls \/ Elsewhere

Spec == Init /\ [][Next]_vars

\* Timers keep firing, finished requests are handled and an aborted one ends;
\* a poll may fail any number of times, but not for ever.
Fairness ==
  /\ WF_vars(ObserveTick) /\ WF_vars(TakeRevision) /\ WF_vars(TakeObservations)
  /\ SF_vars(AnswerRole) /\ SF_vars(AnswerRevision) /\ SF_vars(AnswerDigest)
  /\ SF_vars(AnswerObservedBoard)
  /\ WF_vars(MembershipTick) /\ WF_vars(TakeMemberships)
  /\ SF_vars(AnswerMembershipPoll)
  /\ WF_vars(ObserveFails /\ ~obs.live) /\ WF_vars(MembershipFails /\ ~mem.live)
FairSpec == Spec /\ Fairness

-----------------------------------------------------------------------------
(* Properties.                                                              *)

Shown == state.board # None

\* What the tab shows and holds is of one workspace, whatever was in flight
\* when the user left the workspace before it: the board is the one under the
\* root, the extra pages, the undo offer and every command sent from the page
\* (dialogs aside) are of the board's workspace (workspace-session.js:1-4).
NothingCrossesWorkspaces ==
  /\ (Shown /\ state.root # None) => state.board.body.workspace = state.root
  /\ Shown => state.pages \subseteq {state.board.body.workspace}
  /\ (Shown /\ state.undo # None) =>
       state.undo.workspace = state.board.body.workspace
  /\ (post.stage # "idle" /\ post.from # "dialog") =>
       post.workspace \in {None, post.origin}

\* The validator a conditional read presents is that of the board shown, so
\* "304: up to date" never keeps an older board (sync.js:169-185: the validator
\* is stored an await before the board is).
ValidatorDescribesBoard ==
  (/\ Shown /\ state.etag # None /\ load.stage # "page"
   /\ state.root = state.etag.workspace) =>
    /\ state.etag.workspace = state.board.body.workspace
    /\ state.etag.revision = state.board.body.revision
    /\ state.etag.role = state.board.body.role
    /\ state.etag.links <= state.board.body.links

\* The user is in the middle of something.
AtWork(s) == s.dialog # None \/ s.drag # None \/ s.busy
\* Polls leave the board alone under work: while a dialog is open, a card is
\* dragged or a save is being sent, and no load runs, the board keeps its
\* revision and links unless the user leaves the workspace (sync.js:225-229).
NothingMovesUnderWork ==
  [][(/\ AtWork(state) /\ AtWork(state') /\ ~state.loading
      /\ Shown /\ state'.board # None)
     => state'.board.body = state.board.body]_vars

\* Each command of a sequence presents the revision its predecessor made and
\* nobody else's, so another person's change stops the sequence instead of
\* being overwritten (commands.js:218-222).
SequenceKeepsItsRevision ==
  (post.stage = "sent" /\ post.sent > 0) => post.revision = post.receipt

\* A placement still shown once its save has ended was committed: a refused
\* one is taken back, whatever happened meanwhile (commands.js:78-83, 130-145).
PlacementsAreCommitted ==
  (Shown /\ state.board.placed /\ ~state.busy) =>
    server[state.board.body.workspace].revision > state.board.body.revision

UpToDate == state.board.body = BodyOf(state.board.body.workspace)
\* A change made elsewhere does not stay unnoticed: the tab keeps coming back
\* to showing what the server has, to saying that planning changed, to having
\* left the workspace, or the user is in the middle of something (usePolling).
ChangesAreNoticed ==
  []<>(~Shown \/ PollBlocked(state) \/ state.notice \/ UpToDate)
=============================================================================
