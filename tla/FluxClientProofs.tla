-------------------------- MODULE FluxClientProofs --------------------------
(***************************************************************************)
(* Proofs about FluxClient for any number of workspaces, revisions, link   *)
(* states and commands: what one tab shows, holds and sends stays of one   *)
(* workspace and one revision, through every interleaving of its loads,    *)
(* polls, saves and gates with what others do.                             *)
(***************************************************************************)
EXTENDS FluxClient, FiniteSetTheorems, TLAPS

-----------------------------------------------------------------------------
(* The inductive invariant *)

\* A body the server has had: it never runs ahead of the server.
Served(body) ==
  /\ body.revision <= server[body.workspace].revision
  /\ body.links <= server[body.workspace].links

\* What the server holds now is newer than the board.
Superseded(board) ==
  server[board.body.workspace].revision > board.body.revision

\* The flags of the store mirror the operations; a load and a save exclude
\* each other, and a load whose signal fired has left its workspace.
Modes ==
  /\ state.loading <=> load.stage # "idle"
  /\ state.busy <=> post.stage # "idle"
  /\ ~(state.busy /\ state.loading)
  /\ load.live /\ load.stage \in {"members", "board", "page"} => state.root # None
  /\ ~load.live => state.root = None /\ load.stage # "idle"

\* What a live load has read is of the workspace under the root.
LoadsFollowRoot ==
  /\ load.stage \in {"idle", "gate", "members"} =>
       load.answer \in {None} \cup Memberships
  /\ load.stage = "board" => load.answer \in {None, Unchanged} \cup Body
  /\ load.stage = "board" /\ (load.cached # None \/ load.answer = Unchanged) =>
       Shown
  /\ load.live /\ load.stage = "board" /\ load.answer \in Body =>
       load.answer.workspace = state.root
  /\ load.stage = "page" => load.body # None
  /\ load.live /\ load.stage = "page" =>
       load.body.workspace = state.root /\ state.etag = load.body

BoardFollowsRoot ==
  Shown /\ state.root # None => state.board.body.workspace = state.root

PagesFollowBoard ==
  /\ Shown => state.pages \subseteq {state.board.body.workspace}
  /\ more.answer # None => more.stage = "asked"
  /\ more.live /\ more.answer # None => more.answer = state.root

\* An undo offer, made or still held by a save or the load after it, is of
\* the board shown.
UndoFollowsBoard ==
  /\ Shown /\ state.undo # None =>
       state.undo.workspace = state.board.body.workspace
  /\ ~Shown /\ state.root # None => state.undo = None
  /\ load.then.undo # None =>
       /\ load.stage # "idle" /\ Shown
       /\ load.then.undo.workspace = state.board.body.workspace
  /\ post.undo # None =>
       /\ post.stage # "idle" /\ Shown
       /\ post.undo.workspace = state.board.body.workspace

\* Commands are sent for the board shown, one revision after the other.
CommandsFollowBoard ==
  /\ post.stage # "idle" => Shown /\ post.left > 0
  /\ post.stage # "idle" /\ post.from # "dialog" =>
       /\ post.origin = state.board.body.workspace
       /\ post.workspace \in {None, post.origin}
  /\ post.left > 1 => post.from = "batch"
  /\ post.sent + post.left <= MaxBatch
  /\ post.stage = "answered" /\ post.left > 1 => post.board = None
  /\ post.stage \in {"committed", "answered"} => post.receipt # None
  /\ post.stage = "sent" /\ post.sent > 0 => post.revision = post.receipt

\* A placement is on the board until its save ends, and stays only committed.
PlacementsFollowCommits ==
  /\ post.patched # None =>
       /\ post.stage # "idle" /\ post.from = "quick"
       /\ post.previous # None /\ state.board = post.patched
       /\ post.patched.body = post.previous.body
       /\ post.previous.placed => Superseded(post.previous)
       /\ post.stage \in {"committed", "answered"} => Superseded(post.patched)
  /\ Shown /\ state.board.placed /\ post.patched = None =>
       Superseded(state.board)

BodiesWereServed ==
  /\ Shown => Served(state.board.body)
  /\ load.stage = "board" /\ load.answer \in Body => Served(load.answer)
  /\ load.preloaded # None => Served(load.preloaded)
  /\ load.body # None => Served(load.body)
  /\ post.board # None => Served(post.board)
  /\ obs.board # None => Served(obs.board.body)
  /\ obs.answer # None => Served(obs.answer)

PollsKnowTheirBoard ==
  /\ obs.stage # "idle" => obs.board # None
  /\ obs.stage = "board" => obs.digest # None
  /\ obs.answer # None =>
       /\ obs.stage = "board"
       /\ obs.answer.workspace = obs.board.body.workspace
       /\ obs.board.body.links <= obs.answer.links
  /\ mem.stage # "idle" => mem.board # None

ClientInv ==
  /\ TypeOK
  /\ Modes
  /\ LoadsFollowRoot
  /\ BoardFollowsRoot
  /\ PagesFollowBoard
  /\ UndoFollowsBoard
  /\ CommandsFollowBoard
  /\ PlacementsFollowCommits
  /\ BodiesWereServed
  /\ PollsKnowTheirBoard
  /\ ValidatorDescribesBoard

-----------------------------------------------------------------------------
(* What the operators on the store return *)

\* The fields of two stores that the invariant relates to the operations.
Alike(s, t) ==
  /\ s.board = t.board /\ s.root = t.root /\ s.etag = t.etag
  /\ s.undo = t.undo /\ s.pages = t.pages
SameFlags(s, t) == s.busy = t.busy /\ s.loading = t.loading

\* Five boards are held at most, so one of six identifiers is free.
LEMMA FreshIdExists == NewId \in BoardIds
  <1>1. \E i \in BoardIds : \A b \in HeldBoards \ {None} : b.id # i
    BY DEF HeldBoards, BoardIds
  <1> QED BY <1>1 DEF NewId

LEMMA NewBoardTyped ==
  ASSUME NEW body \in Body
  PROVE  /\ NewBoard(body) \in Board /\ NewBoard(body) # None
         /\ NewBoard(body).body = body /\ NewBoard(body).placed = FALSE
  <1>1. NewBoard(body) \in Board
    BY FreshIdExists DEF NewBoard, Board
  <1> QED BY <1>1, NothingAssumption DEF NewBoard, NothingAssumption

LEMMA BodyOfTyped ==
  ASSUME TypeOK, NEW w \in Workspaces
  PROVE  /\ BodyOf(w) \in Body /\ BodyOf(w) # None /\ BodyOf(w) # Unchanged
         /\ BodyOf(w).workspace = w /\ Served(BodyOf(w))
         /\ BodyOf(w).revision = server[w].revision
         /\ BodyOf(w).links = server[w].links
  <1>1. BodyOf(w) \in Body
    BY DEF TypeOK, BodyOf, Body
  <1>2. BodyOf(w).revision \in Nat /\ BodyOf(w).links \in Nat
    BY <1>1, ClientAssumption DEF Body, ClientAssumption
  <1> QED BY <1>1, <1>2, NothingAssumption DEF BodyOf, Served, NothingAssumption

LEMMA MembershipsTyped == ASSUME TypeOK PROVE MembershipsNow \in Memberships
  BY DEF TypeOK, MembershipsNow, Memberships, Seen

LEMMA LeaveSessionKeeps ==
  ASSUME NEW s \in Store
  PROVE  /\ LeaveSession(s) \in Store
         /\ Alike(LeaveSession(s), s) /\ SameFlags(LeaveSession(s), s)
  <1>1. CASE s.drag = None
    <2>1. LeaveSession(s) = [s EXCEPT !.drag = None]
      BY <1>1 DEF LeaveSession, Store
    <2>2. LeaveSession(s) \in Store
      BY <2>1, Zenon DEF Store
    <2> QED BY <2>1, <2>2 DEF Alike, SameFlags, Store
  <1>2. CASE s.drag # None
    <2>1. [s.drag EXCEPT !.live = FALSE] \in Drag
      BY <1>2 DEF Store, Drag
    <2>2. LeaveSession(s) = [s EXCEPT !.drag = [s.drag EXCEPT !.live = FALSE]]
      BY <1>2 DEF LeaveSession, Store
    <2>3. LeaveSession(s) \in Store
      BY <2>1, <2>2, Zenon DEF Store
    <2> QED BY <2>2, <2>3 DEF Alike, SameFlags, Store
  <1> QED BY <1>1, <1>2

LEMMA GateEffect ==
  ASSUME NEW s \in Store, NEW mode \in Gates
  PROVE  LET t == EnterWorkspaceGate(s, mode)
         IN  /\ t \in Store /\ SameFlags(t, s) /\ t.pages = s.pages
             /\ t.board = None /\ t.root = None /\ t.etag = None /\ t.undo = None
  <1> DEFINE l == LeaveSession(s)
             t == EnterWorkspaceGate(s, mode)
             d == IF s.busy THEN l.dialog ELSE None
  <1>1. l \in Store /\ Alike(l, s) /\ SameFlags(l, s)
    BY LeaveSessionKeeps
  <1>2. t = [l EXCEPT !.dialog = d, !.board = None, !.root = None,
                      !.etag = None, !.gate = mode, !.undo = None]
    BY DEF EnterWorkspaceGate
  <1>3. d \in {None} \cup Dialog
    BY <1>1 DEF Store
  <1> HIDE DEF l, t, d
  <1>4. t \in Store
    BY <1>1, <1>2, <1>3, Zenon DEF Store
  <1>5. /\ t.busy = l.busy /\ t.loading = l.loading /\ t.pages = l.pages
        /\ t.board = None /\ t.root = None /\ t.etag = None /\ t.undo = None
    BY <1>1, <1>2 DEF Store
  <1> QED BY <1>1, <1>4, <1>5 DEF Alike, SameFlags, t

LEMMA GateForTyped == ASSUME NEW m PROVE GateFor(m) \in Gates
  BY DEF GateFor, Gates

\* What the caller of refresh leaves of the store.
LEMMA ResumeEffect ==
  ASSUME NEW s \in Store, NEW ok \in BOOLEAN, NEW then \in Then,
         then.kind = "reject" /\ ok => s.board # None
  PROVE  LET t == Resume(s, ok, then)
         IN  /\ t \in Store /\ SameFlags(t, s)
             /\ t.board = s.board /\ t.etag = s.etag /\ t.pages = s.pages
             /\ t.root = IF ResumeAborts(ok, then) THEN None ELSE s.root
             /\ t.undo = IF then.kind \in {"quick", "batch"} /\ then.undo # None
                         THEN then.undo ELSE s.undo
  <1> DEFINE t == Resume(s, ok, then)
  <1>1. CASE then.kind \in {"quick", "batch"} /\ then.undo # None
    <2>1. t = [s EXCEPT !.undo = then.undo] /\ then.undo \in {None} \cup Undo
      BY <1>1 DEF Resume, Then
    <2>2. t \in Store
      BY <2>1, Zenon DEF Store
    <2> QED BY <1>1, <2>1, <2>2 DEF SameFlags, ResumeAborts, Store
  <1>2. CASE then.kind = "dialog"
    <2>1. t = [s EXCEPT !.dialog = None]
      BY <1>2 DEF Resume
    <2>2. t \in Store
      BY <2>1, Zenon DEF Store
    <2> QED BY <1>2, <2>1, <2>2 DEF SameFlags, ResumeAborts, Store
  <1>3. CASE then.kind = "choose" /\ ok
    <2>1. t = [s EXCEPT !.gate = "none"]
      BY <1>3 DEF Resume
    <2>2. t \in Store
      BY <2>1, Zenon DEF Store, Gates
    <2> QED BY <1>3, <2>1, <2>2 DEF SameFlags, ResumeAborts, Store
  <1>4. CASE then.kind = "create" /\ ok
    <2>1. t = [s EXCEPT !.gate = "none", !.creating = FALSE]
      BY <1>4 DEF Resume
    <2>2. t \in Store
      BY <2>1, Zenon DEF Store, Gates
    <2> QED BY <1>4, <2>1, <2>2 DEF SameFlags, ResumeAborts, Store
  <1>5. CASE then.kind = "create" /\ ~ok
    <2> DEFINE l == LeaveSession(s)
    <2>1. l \in Store /\ Alike(l, s) /\ SameFlags(l, s)
      BY LeaveSessionKeeps
    <2>2. t = [l EXCEPT !.gate = "create", !.root = None, !.creating = FALSE]
      BY <1>5 DEF Resume
    <2> HIDE DEF l
    <2>3. t \in Store
      BY <2>1, <2>2, Zenon DEF Store, Gates
    <2> QED BY <1>5, <2>1, <2>2, <2>3 DEF SameFlags, Alike, ResumeAborts, Store
  <1>6. CASE then.kind = "reject" /\ ok
    <2> DEFINE d == [kind |-> "command", workspace |-> s.board.body.workspace,
                     revision |-> s.board.body.revision]
    <2>1. d \in Dialog
      BY <1>6 DEF Dialog, Store, Board, Body
    <2>2. t = [s EXCEPT !.dialog = d]
      BY <1>6 DEF Resume
    <2> HIDE DEF d
    <2>3. t \in Store
      BY <2>1, <2>2, Zenon DEF Store
    <2> QED BY <1>6, <2>2, <2>3 DEF SameFlags, ResumeAborts, Store
  <1>7. CASE /\ ~(then.kind \in {"quick", "batch"} /\ then.undo # None)
             /\ then.kind # "dialog" /\ then.kind # "create"
             /\ ~(then.kind \in {"choose", "reject"} /\ ok)
    <2>1. t = s
      BY <1>7 DEF Resume
    <2> QED BY <1>7, <2>1 DEF SameFlags, ResumeAborts
  <1> QED BY <1>1, <1>2, <1>3, <1>4, <1>5, <1>6, <1>7

\* Signals fire for whatever is in flight; nothing else of it changes.
LEMMA AbortEffect ==
  ASSUME TypeOK, AbortReads
  PROVE  /\ obs' \in Obs /\ mem' \in Mem /\ more' \in More
         /\ obs'.stage = obs.stage /\ obs'.board = obs.board
         /\ obs'.digest = obs.digest /\ obs'.answer = obs.answer
         /\ mem'.stage = mem.stage /\ mem'.board = mem.board
         /\ more'.stage = more.stage /\ more'.answer = more.answer
         /\ more'.live = (more.stage = "idle")
  <1>1. obs' \in Obs /\ mem' \in Mem /\ more' \in More
    BY ZenonT(40) DEF TypeOK, AbortReads, Aborted, Obs, Mem, More
  <1> QED BY <1>1 DEF TypeOK, AbortReads, Aborted, Obs, Mem, More

LEMMA ThereafterTyped ==
  ASSUME NEW kind \in {"user", "choose", "create", "quick", "dialog", "form",
                       "batch", "reject"},
         NEW undo \in {None} \cup Undo
  PROVE  /\ Thereafter(kind, undo) \in Then
         /\ Thereafter(kind, undo).kind = kind /\ Thereafter(kind, undo).undo = undo
  BY DEF Thereafter, Then

LEMMA IdleLoadTyped ==
  /\ IdleLoad \in Load /\ IdleLoad.stage = "idle" /\ IdleLoad.live
  /\ IdleLoad.answer = None /\ IdleLoad.preloaded = None
  /\ IdleLoad.cached = None /\ IdleLoad.body = None
  /\ IdleLoad.then.undo = None /\ IdleLoad.then.kind = "user"
  <1>1. Thereafter("user", None) \in Then
    BY ThereafterTyped
  <1> QED BY <1>1 DEF IdleLoad, Load, Thereafter

\* A load that starts: it waits for the workspace list.
Begins(l, preloaded, then) ==
  /\ l \in Load /\ l.stage = "members" /\ l.live /\ l.answer = None
  /\ l.preloaded = preloaded /\ l.cached = None /\ l.body = None /\ l.then = then

LEMMA BeginsTyped ==
  ASSUME NEW preloaded \in {None} \cup Body, NEW then \in Then
  PROVE  Begins([IdleLoad EXCEPT !.stage = "members", !.preloaded = preloaded,
                                 !.then = then], preloaded, then)
  <1> DEFINE l == [IdleLoad EXCEPT !.stage = "members",
                                   !.preloaded = preloaded, !.then = then]
  <1>1. l \in Load
    BY IdleLoadTyped, Zenon DEF Load
  <1> QED BY <1>1, IdleLoadTyped DEF Begins, Load

\* refresh begins a load, or leaves everything to its caller.
LEMMA RefreshEffect ==
  ASSUME NEW s \in Store, NEW preloaded \in {None} \cup Body, NEW then \in Then,
         then.kind # "create", Refresh(s, preloaded, then)
  PROVE  /\ state' \in Store /\ state'.board = s.board /\ state'.root = s.root
         /\ state'.etag = s.etag /\ state'.busy = s.busy /\ state'.pages = s.pages
         /\ \/ /\ ~s.busy /\ s.root # None
               /\ state'.loading /\ state'.undo = s.undo
               /\ Begins(load', preloaded, then)
            \/ /\ load' = load /\ state'.loading = s.loading
               /\ state'.undo =
                    IF then.kind \in {"quick", "batch"} /\ then.undo # None
                    THEN then.undo ELSE s.undo
  <1>1. CASE ~s.busy /\ ~s.form /\ s.root # None
    <2>1. state' = [s EXCEPT !.loading = TRUE]
      BY <1>1 DEF Refresh
    <2>2. state' \in Store
      BY <2>1, Zenon DEF Store
    <2>3. Begins(load', preloaded, then)
      BY <1>1, BeginsTyped DEF Refresh
    <2> QED BY <1>1, <2>1, <2>2, <2>3 DEF Store
  <1>2. CASE ~(~s.busy /\ ~s.form /\ s.root # None)
    <2>1. state' = Resume(s, FALSE, then) /\ load' = load
      BY <1>2 DEF Refresh
    <2>2. ~ResumeAborts(FALSE, then)
      BY DEF ResumeAborts
    <2> QED BY <2>1, <2>2, ResumeEffect DEF SameFlags
  <1> QED BY <1>1, <1>2

\* Choosing a workspace hides the board and begins a load of the new one.
LEMMA ChooseEffect ==
  ASSUME TypeOK, NEW s \in Store, ~s.busy, NEW w \in Workspaces,
         NEW then \in Then, ChooseWorkspace(s, w, then)
  PROVE  /\ state' \in Store /\ state'.board = None /\ state'.root = w
         /\ state'.etag = s.etag /\ state'.undo = None /\ state'.pages = s.pages
         /\ ~state'.busy /\ state'.loading
         /\ Begins(load', None, then)
         /\ AbortReads
  <1> DEFINE l == LeaveSession(s)
             t == [l EXCEPT !.form = FALSE, !.board = None, !.gate = "loading",
                            !.undo = None, !.notice = FALSE, !.root = w]
  <1>1. l \in Store /\ Alike(l, s) /\ SameFlags(l, s)
    BY LeaveSessionKeeps
  <1>2. Refresh(t, None, then) /\ AbortReads
    BY DEF ChooseWorkspace
  <1> HIDE DEF l
  <1>3. t \in Store
    BY <1>1, ZenonT(40) DEF Store, Gates
  <1>4. /\ t.board = None /\ t.root = w /\ t.etag = s.etag /\ t.undo = None
        /\ t.pages = s.pages /\ ~t.busy /\ ~t.form
    BY <1>1 DEF Alike, SameFlags, Store
  <1> HIDE DEF t
  <1>5. w # None
    BY NothingAssumption DEF NothingAssumption
  <1>6. /\ state' = [t EXCEPT !.loading = TRUE]
        /\ load' = [IdleLoad EXCEPT !.stage = "members", !.preloaded = None,
                                    !.then = then]
    BY <1>2, <1>4, <1>5 DEF Refresh
  <1>7. state' \in Store
    BY <1>3, <1>6, Zenon DEF Store
  <1>8. Begins(load', None, then)
    BY <1>6, BeginsTyped
  <1> QED BY <1>2, <1>3, <1>4, <1>6, <1>7, <1>8 DEF Store

\* A load ends: the caller continues with what the store holds.
LEMMA EndLoadEffect ==
  ASSUME TypeOK, NEW s \in Store, NEW ok \in BOOLEAN,
         load.then.kind = "reject" /\ ok => s.board # None, EndLoad(s, ok)
  PROVE  /\ state' \in Store /\ load' = IdleLoad
         /\ state'.board = s.board /\ state'.etag = s.etag
         /\ state'.pages = s.pages /\ state'.busy = s.busy /\ ~state'.loading
         /\ state'.undo = IF /\ load.then.kind \in {"quick", "batch"}
                             /\ load.then.undo # None
                          THEN load.then.undo ELSE s.undo
         /\ \/ state'.root = s.root /\ UNCHANGED <<obs, mem, more>>
            \/ state'.root = None /\ AbortReads
  <1> DEFINE t == [s EXCEPT !.loading = FALSE]
  <1>1. t \in Store
    BY Zenon DEF Store
  <1>2. /\ Alike(t, s) /\ t.busy = s.busy /\ ~t.loading
    BY DEF Alike, Store
  <1>3. load.then \in Then
    BY DEF TypeOK, Load
  <1>4. state' = Resume(t, ok, load.then) /\ load' = IdleLoad
    BY DEF EndLoad
  <1>5. /\ ResumeAborts(ok, load.then) => AbortReads
        /\ ~ResumeAborts(ok, load.then) => UNCHANGED <<obs, mem, more>>
    BY DEF EndLoad
  <1> HIDE DEF t
  <1> QED BY <1>1, <1>2, <1>3, <1>4, <1>5, ResumeEffect DEF Alike, SameFlags

-----------------------------------------------------------------------------
(* Steps that leave the board, the load and the save alone: the page's own   *)
(* state, the polls while they read, the pages, what others create.          *)

LEMMA QuietStep ==
  ASSUME ClientInv, TypeOK',
         state'.board = state.board, state'.root = state.root,
         state'.etag = state.etag, SameFlags(state', state),
         state'.undo \in {None, state.undo},
         UNCHANGED <<server, load, post>>,
         obs'.board \in {None, state.board, obs.board},
         obs'.answer \in {None, obs.answer} \/ Served(obs'.answer),
         PagesFollowBoard', PollsKnowTheirBoard'
  PROVE  ClientInv'
  <1>1. Shown' = Shown
    BY DEF Shown
  <1>2. Modes'
    BY DEF ClientInv, Modes, SameFlags
  <1>3. LoadsFollowRoot'
    BY <1>1 DEF ClientInv, LoadsFollowRoot
  <1>4. BoardFollowsRoot'
    BY <1>1 DEF ClientInv, BoardFollowsRoot
  <1>5. UndoFollowsBoard'
    BY <1>1 DEF ClientInv, UndoFollowsBoard
  <1>6. CommandsFollowBoard'
    BY <1>1 DEF ClientInv, CommandsFollowBoard
  <1>7. PlacementsFollowCommits'
    BY <1>1 DEF ClientInv, PlacementsFollowCommits, Superseded
  <1>8. BodiesWereServed'
    BY <1>1 DEF ClientInv, BodiesWereServed, Served, Shown
  <1>9. ValidatorDescribesBoard'
    BY <1>1 DEF ClientInv, ValidatorDescribesBoard
  <1> QED BY <1>2, <1>3, <1>4, <1>5, <1>6, <1>7, <1>8, <1>9 DEF ClientInv

-----------------------------------------------------------------------------
(* A workspace is chosen, or left for the gate.                              *)

\* Whatever was in flight when a workspace is chosen.
LEMMA ChooseStep ==
  ASSUME ClientInv, NEW s \in Store, ~s.busy, ~state.busy, NEW w \in Workspaces,
         NEW then \in Then, then.undo = None, then.kind # "reject",
         ChooseWorkspace(s, w, then),
         UNCHANGED <<server, access, digest, post>>, create' \in Create
  PROVE  ClientInv'
  <1>1. /\ state' \in Store /\ state'.board = None /\ state'.root = w
        /\ state'.etag = s.etag /\ state'.undo = None /\ state'.pages = s.pages
        /\ ~state'.busy /\ state'.loading
        /\ Begins(load', None, then)
        /\ AbortReads
    BY ChooseEffect DEF ClientInv
  <1>2. /\ obs' \in Obs /\ mem' \in Mem /\ more' \in More
        /\ obs'.stage = obs.stage /\ obs'.board = obs.board
        /\ obs'.digest = obs.digest /\ obs'.answer = obs.answer
        /\ mem'.stage = mem.stage /\ mem'.board = mem.board
        /\ more'.stage = more.stage /\ more'.answer = more.answer
        /\ more'.live = (more.stage = "idle")
    BY <1>1, AbortEffect DEF ClientInv
  <1>3. w # None /\ ~Shown'
    BY <1>1, NothingAssumption DEF NothingAssumption, Shown
  <1>4. post.stage = "idle" /\ post.undo = None /\ post.patched = None
    BY DEF ClientInv, Modes, PlacementsFollowCommits, UndoFollowsBoard
  <1>5. TypeOK'
    BY <1>1, <1>2 DEF ClientInv, TypeOK, Begins
  <1>6. Modes'
    BY <1>1, <1>3, <1>4 DEF Modes, Begins
  <1>7. LoadsFollowRoot' /\ BoardFollowsRoot' /\ ValidatorDescribesBoard'
    BY <1>1, <1>3 DEF LoadsFollowRoot, BoardFollowsRoot, ValidatorDescribesBoard, Begins
  <1>8. PagesFollowBoard'
    BY <1>2, <1>3 DEF ClientInv, PagesFollowBoard
  <1>9. UndoFollowsBoard'
    BY <1>1, <1>3, <1>4 DEF UndoFollowsBoard, Begins
  <1>10. CommandsFollowBoard' /\ PlacementsFollowCommits'
    BY <1>3, <1>4 DEF ClientInv, CommandsFollowBoard, PlacementsFollowCommits
  <1>11. BodiesWereServed'
    BY <1>1, <1>2, <1>3 DEF ClientInv, BodiesWereServed, Begins, Served
  <1>12. PollsKnowTheirBoard'
    BY <1>2 DEF ClientInv, PollsKnowTheirBoard
  <1> QED BY <1>5, <1>6, <1>7, <1>8, <1>9, <1>10, <1>11, <1>12 DEF ClientInv

\* Whatever was in flight when the tab goes back to the gate.
LEMMA GateStep ==
  ASSUME ClientInv, TypeOK', ~state.busy,
         state'.board = None, state'.root = None, state'.etag = None,
         ~state'.busy, ~state'.loading,
         load' = IdleLoad \/ (load' = load /\ load.stage = "idle"),
         UNCHANGED <<server, post>>,
         obs'.board \in {None, obs.board}, obs'.answer \in {None, obs.answer},
         more'.answer # None => more'.stage = "asked" /\ ~more'.live,
         PollsKnowTheirBoard'
  PROVE  ClientInv'
  <1>1. ~Shown'
    BY DEF Shown
  <1>2. post.stage = "idle" /\ post.undo = None /\ post.patched = None
    BY DEF ClientInv, Modes, PlacementsFollowCommits, UndoFollowsBoard
  <1>3. /\ load'.stage = "idle" /\ load'.live /\ load'.then.undo = None
        /\ load'.answer \in {None} \cup Memberships
        /\ load'.body \in {None, load.body}
        /\ load'.preloaded \in {None, load.preloaded}
    BY IdleLoadTyped DEF ClientInv, Modes, UndoFollowsBoard, LoadsFollowRoot
  <1>4. Modes'
    BY <1>2, <1>3 DEF Modes
  <1>5. LoadsFollowRoot' /\ BoardFollowsRoot' /\ ValidatorDescribesBoard'
    BY <1>1, <1>3 DEF LoadsFollowRoot, BoardFollowsRoot, ValidatorDescribesBoard
  <1>6. PagesFollowBoard'
    BY <1>1 DEF PagesFollowBoard
  <1>7. UndoFollowsBoard'
    BY <1>1, <1>2, <1>3 DEF UndoFollowsBoard
  <1>8. CommandsFollowBoard' /\ PlacementsFollowCommits'
    BY <1>1, <1>2 DEF ClientInv, CommandsFollowBoard, PlacementsFollowCommits
  <1>9. BodiesWereServed'
    BY <1>1, <1>3 DEF ClientInv, BodiesWereServed, Served
  <1> QED BY <1>4, <1>5, <1>6, <1>7, <1>8, <1>9 DEF ClientInv

-----------------------------------------------------------------------------
(* A load begins with a refresh, and ends.                                   *)

\* refresh while nothing is loaded: by the user, or after a save.
LEMMA RefreshStep ==
  ASSUME ClientInv, NEW s \in Store, Alike(s, state), ~s.busy, ~s.loading,
         ~state.loading,
         NEW preloaded \in {None} \cup Body,
         preloaded # None => Served(preloaded),
         NEW then \in Then, then.kind # "create",
         then.undo # None =>
           Shown /\ then.undo.workspace = state.board.body.workspace,
         Shown /\ state.board.placed => Superseded(state.board),
         Refresh(s, preloaded, then),
         post' \in Post, post'.stage = "idle", post'.undo = None,
         post'.patched = None, post'.board \in {None, post.board},
         post'.left = 0 \/ post' = post,
         post'.sent = 0 \/ post' = post,
         UNCHANGED <<server, access, digest, obs, mem, more, create>>
  PROVE  ClientInv'
  <1>1. /\ state' \in Store /\ state'.board = s.board /\ state'.root = s.root
        /\ state'.etag = s.etag /\ state'.busy = s.busy /\ state'.pages = s.pages
        /\ \/ /\ ~s.busy /\ s.root # None
              /\ state'.loading /\ state'.undo = s.undo
              /\ Begins(load', preloaded, then)
           \/ /\ load' = load /\ state'.loading = s.loading
              /\ state'.undo =
                   IF then.kind \in {"quick", "batch"} /\ then.undo # None
                   THEN then.undo ELSE s.undo
    BY RefreshEffect
  <1>2. /\ state'.board = state.board /\ state'.root = state.root
        /\ state'.etag = state.etag /\ state'.pages = state.pages
        /\ ~state'.busy /\ s.undo = state.undo
    BY <1>1 DEF Alike
  <1>3. Shown' = Shown
    BY <1>2 DEF Shown
  <1>4. /\ load.stage = "idle" /\ load.live /\ load.then.undo = None
        /\ load.answer \in {None} \cup Memberships
    BY DEF ClientInv, Modes, UndoFollowsBoard, LoadsFollowRoot
  <1>5. TypeOK'
    BY <1>1 DEF ClientInv, TypeOK, Begins
  <1>6. Modes'
    BY <1>1, <1>2, <1>4 DEF Modes, Begins, Alike
  <1>7. LoadsFollowRoot' /\ BoardFollowsRoot'
    BY <1>1, <1>2, <1>3, <1>4
       DEF ClientInv, LoadsFollowRoot, BoardFollowsRoot, Begins
  <1>8. PagesFollowBoard'
    BY <1>2, <1>3 DEF ClientInv, PagesFollowBoard
  <1>9. UndoFollowsBoard'
    BY <1>1, <1>2, <1>3, <1>4 DEF ClientInv, UndoFollowsBoard, Begins
  <1>10. CommandsFollowBoard'
    BY ClientAssumption DEF ClientInv, CommandsFollowBoard, ClientAssumption
  <1>11. PlacementsFollowCommits'
    BY <1>2, <1>3 DEF PlacementsFollowCommits, Superseded
  <1>12. BodiesWereServed'
    BY <1>1, <1>2, <1>3, <1>4 DEF ClientInv, BodiesWereServed, Begins, Served
  <1>13. PollsKnowTheirBoard'
    BY DEF ClientInv, PollsKnowTheirBoard
  <1>14. ValidatorDescribesBoard'
    BY <1>1, <1>2, <1>3, <1>4 DEF ClientInv, ValidatorDescribesBoard, Begins
  <1> QED BY <1>5, <1>6, <1>7, <1>8, <1>9, <1>10, <1>11, <1>12, <1>13, <1>14
       DEF ClientInv

\* A load ends with the board it had, or with the one it read.
LEMMA EndLoadStep ==
  ASSUME ClientInv, NEW s \in Store, state.loading, ~s.busy,
         s.root = state.root, s.etag = state.etag, s.undo = state.undo,
         NEW ok \in BOOLEAN, load.then.kind = "reject" /\ ok => s.board # None,
         EndLoad(s, ok),
         \/ /\ s.board = state.board /\ s.pages = state.pages
            /\ load.stage = "page" => ~load.live
         \/ /\ load.stage = "page" /\ load.live
            /\ s.board = NewBoard(load.body)
            /\ s.pages \subseteq {load.body.workspace},
         UNCHANGED <<server, access, digest, post, create>>
  PROVE  ClientInv'
  <1>1. /\ state' \in Store /\ load' = IdleLoad
        /\ state'.board = s.board /\ state'.etag = s.etag
        /\ state'.pages = s.pages /\ state'.busy = s.busy /\ ~state'.loading
        /\ state'.undo = IF /\ load.then.kind \in {"quick", "batch"}
                            /\ load.then.undo # None
                         THEN load.then.undo ELSE s.undo
        /\ \/ state'.root = s.root /\ UNCHANGED <<obs, mem, more>>
           \/ state'.root = None /\ AbortReads
    BY EndLoadEffect DEF ClientInv
  <1>2. /\ obs' \in Obs /\ mem' \in Mem /\ more' \in More
        /\ obs'.stage = obs.stage /\ obs'.board = obs.board
        /\ obs'.digest = obs.digest /\ obs'.answer = obs.answer
        /\ mem'.stage = mem.stage /\ mem'.board = mem.board
        /\ more'.stage = more.stage /\ more'.answer = more.answer
        /\ \/ state'.root = s.root /\ more'.live = more.live
           \/ state'.root = None /\ more'.live = (more.stage = "idle")
    <2>1. CASE state'.root = s.root /\ UNCHANGED <<obs, mem, more>>
      BY <2>1 DEF ClientInv, TypeOK
    <2>2. CASE state'.root = None /\ AbortReads
      BY <2>2, AbortEffect DEF ClientInv
    <2> QED BY <1>1, <2>1, <2>2
  <1>3. post.stage = "idle" /\ post.undo = None /\ post.patched = None
    BY DEF ClientInv, Modes, PlacementsFollowCommits, UndoFollowsBoard
  <1>4. CASE s.board = state.board /\ s.pages = state.pages
             /\ (load.stage = "page" => ~load.live)
    <2>1. Shown' = Shown /\ state'.board = state.board
      BY <1>1, <1>4 DEF Shown
    <2>2. TypeOK' /\ Modes'
      BY <1>1, <1>2, <1>3, IdleLoadTyped DEF ClientInv, TypeOK, Modes
    <2>3. LoadsFollowRoot' /\ BoardFollowsRoot'
      BY <1>1, <2>1, IdleLoadTyped DEF ClientInv, LoadsFollowRoot, BoardFollowsRoot
    <2>4. PagesFollowBoard'
      BY <1>1, <1>2, <1>4, <2>1 DEF ClientInv, PagesFollowBoard
    <2>5. UndoFollowsBoard'
      BY <1>1, <1>3, <1>4, <2>1, IdleLoadTyped DEF ClientInv, UndoFollowsBoard
    <2>6. CommandsFollowBoard' /\ PlacementsFollowCommits'
      BY <1>3, <2>1
         DEF ClientInv, CommandsFollowBoard, PlacementsFollowCommits, Superseded
    <2>7. BodiesWereServed' /\ PollsKnowTheirBoard'
      BY <1>1, <1>2, <1>3, <2>1, IdleLoadTyped
         DEF ClientInv, BodiesWereServed, Served, PollsKnowTheirBoard
    <2>8. ValidatorDescribesBoard'
      BY <1>1, <1>4, <2>1, IdleLoadTyped, NothingAssumption
         DEF ClientInv, TypeOK, Store, Body, ValidatorDescribesBoard, Modes,
             NothingAssumption
    <2> QED BY <2>2, <2>3, <2>4, <2>5, <2>6, <2>7, <2>8 DEF ClientInv
  <1>5. CASE /\ load.stage = "page" /\ load.live
             /\ s.board = NewBoard(load.body)
             /\ s.pages \subseteq {load.body.workspace}
    <2>1. /\ load.body \in Body /\ load.body.workspace = state.root
          /\ state.etag = load.body
      BY <1>5 DEF ClientInv, TypeOK, Load, LoadsFollowRoot
    <2>2. /\ Shown' /\ state'.board.body = load.body /\ ~state'.board.placed
      BY <1>1, <1>5, <2>1, NewBoardTyped DEF Shown
    <2>3. TypeOK' /\ Modes'
      BY <1>1, <1>2, <1>3, IdleLoadTyped DEF ClientInv, TypeOK, Modes
    <2>4. LoadsFollowRoot' /\ BoardFollowsRoot'
      BY <1>1, <2>1, <2>2, IdleLoadTyped DEF LoadsFollowRoot, BoardFollowsRoot
    <2>5. PagesFollowBoard'
      BY <1>1, <1>2, <1>5, <2>2 DEF ClientInv, PagesFollowBoard
    <2>6. UndoFollowsBoard'
      BY <1>1, <1>3, <1>5, <2>1, <2>2, IdleLoadTyped
         DEF ClientInv, Modes, BoardFollowsRoot, UndoFollowsBoard
    <2>7. CommandsFollowBoard' /\ PlacementsFollowCommits'
      BY <1>3, <2>2
         DEF ClientInv, CommandsFollowBoard, PlacementsFollowCommits, Superseded
    <2>8. BodiesWereServed' /\ PollsKnowTheirBoard'
      BY <1>1, <1>2, <1>3, <2>1, <2>2, NothingAssumption, IdleLoadTyped
         DEF ClientInv, BodiesWereServed, Served, PollsKnowTheirBoard,
             NothingAssumption
    <2>9. ValidatorDescribesBoard'
      <3>1. load.body.links \in Nat
        BY <2>1, ClientAssumption DEF Body, ClientAssumption
      <3> QED BY <1>1, <2>1, <2>2, <3>1 DEF ValidatorDescribesBoard
    <2> QED BY <2>3, <2>4, <2>5, <2>6, <2>7, <2>8, <2>9 DEF ClientInv
  <1> QED BY <1>4, <1>5

-----------------------------------------------------------------------------
(* A command is sent.                                                        *)

LEMMA IdlePostTyped ==
  /\ IdlePost \in Post /\ IdlePost.stage = "idle" /\ IdlePost.left = 0
  /\ IdlePost.sent = 0 /\ IdlePost.board = None /\ IdlePost.patched = None
  /\ IdlePost.previous = None /\ IdlePost.undo = None
  BY ClientAssumption DEF IdlePost, Post, ClientAssumption

\* One command more in flight, of the board shown and under the root.
Sends(p, origin, left, undo) ==
  /\ p \in Post /\ p.stage = "sent" /\ p.sent = 0 /\ p.board = None
  /\ p.workspace = state.root /\ p.origin = origin
  /\ p.left = left /\ p.undo = undo

LEMMA SendOneTyped ==
  ASSUME TypeOK, NEW from \in {"quick", "dialog", "form", "batch"},
         NEW origin \in Workspaces, NEW revision \in 0..MaxRevision,
         NEW undo \in {None} \cup Undo
  PROVE  LET p == SendOne(from, origin, revision, undo)
         IN  /\ Sends(p, origin, 1, undo) /\ p.from = from
             /\ p.patched = None /\ p.previous = None
  <1> DEFINE p == SendOne(from, origin, revision, undo)
  <1>1. state.root \in {None} \cup Workspaces
    BY DEF TypeOK, Store
  <1>2. 1 \in 0..MaxBatch
    BY ClientAssumption DEF ClientAssumption
  <1>3. p = [IdlePost EXCEPT !.stage = "sent", !.from = from,
               !.workspace = state.root, !.origin = origin,
               !.revision = revision, !.left = 1, !.undo = undo]
    BY DEF SendOne
  <1>4. p \in Post
    BY <1>1, <1>2, <1>3, IdlePostTyped, ZenonT(40) DEF Post
  <1> QED BY <1>3, <1>4, IdlePostTyped DEF Sends, Post

LEMMA UndoOfTyped ==
  ASSUME NEW s \in Store, s.board # None, NEW n \in 1..MaxBatch
  PROVE  /\ UndoOf(s, n) \in Undo /\ UndoOf(s, n) # None
         /\ UndoOf(s, n).workspace = s.board.body.workspace
  <1>1. UndoOf(s, n) \in Undo
    BY DEF UndoOf, Undo, Store, Board, Body
  <1> QED BY <1>1, NothingAssumption DEF UndoOf, NothingAssumption

\* A save begins: with a placement on the board, or without one.
LEMMA SendStep ==
  ASSUME ClientInv, CanWrite(state),
         state' \in Store, state'.busy, state'.loading = state.loading,
         state'.root = state.root, state'.etag = state.etag,
         state'.pages = state.pages, state'.undo \in {None, state.undo},
         NEW origin, NEW left \in 1..MaxBatch, NEW undo,
         Sends(post', origin, left, undo),
         post'.from # "dialog" => origin = state.board.body.workspace,
         left > 1 => post'.from = "batch",
         undo # None => undo.workspace = state.board.body.workspace,
         \/ state'.board = state.board /\ post'.patched = None
         \/ /\ state'.board = post'.patched /\ post'.patched # None
            /\ post'.previous = state.board /\ post'.from = "quick"
            /\ post'.patched.body = state.board.body,
         UNCHANGED <<server, access, digest, load, obs, mem, more, create>>
  PROVE  ClientInv'
  <1>1. Shown /\ ~state.busy /\ ~state.loading
    BY DEF CanWrite, Shown
  <1>2. Shown' /\ state'.board.body = state.board.body
    BY <1>1 DEF Shown
  <1>3. load.stage = "idle" /\ load.live /\ load.then.undo = None
    BY <1>1 DEF ClientInv, Modes, UndoFollowsBoard
  <1>4. post.stage = "idle" /\ post.patched = None
    BY <1>1 DEF ClientInv, Modes, PlacementsFollowCommits
  <1>5. TypeOK'
    BY DEF ClientInv, TypeOK, Sends
  <1>6. Modes'
    BY <1>1, <1>3 DEF Modes, Sends
  <1>7. LoadsFollowRoot' /\ BoardFollowsRoot'
    BY <1>2, <1>3, <1>1 DEF ClientInv, LoadsFollowRoot, BoardFollowsRoot
  <1>8. PagesFollowBoard'
    BY <1>1, <1>2 DEF ClientInv, PagesFollowBoard
  <1>9. UndoFollowsBoard'
    BY <1>1, <1>2, <1>3 DEF ClientInv, UndoFollowsBoard, Sends
  <1>10. CommandsFollowBoard'
    <2>1. post'.left > 0 /\ post'.sent + post'.left <= MaxBatch
      BY ClientAssumption DEF Sends, ClientAssumption
    <2>2. post'.workspace \in {None, state.board.body.workspace}
      BY <1>1 DEF Sends, ClientInv, BoardFollowsRoot
    <2> QED BY <1>2, <2>1, <2>2 DEF CommandsFollowBoard, Sends
  <1>11. PlacementsFollowCommits'
    BY <1>1, <1>2, <1>4
       DEF ClientInv, PlacementsFollowCommits, Superseded, Sends, Shown
  <1>12. BodiesWereServed'
    BY <1>1, <1>2 DEF ClientInv, BodiesWereServed, Served, Sends
  <1>13. PollsKnowTheirBoard'
    BY DEF ClientInv, PollsKnowTheirBoard
  <1>14. ValidatorDescribesBoard'
    BY <1>1, <1>2 DEF ClientInv, ValidatorDescribesBoard
  <1> QED BY <1>5, <1>6, <1>7, <1>8, <1>9, <1>10, <1>11, <1>12, <1>13, <1>14
       DEF ClientInv

\* A placement keeps the body of the board it is made on.
LEMMA PatchTyped ==
  ASSUME NEW s \in Store, s.board # None
  PROVE  LET patched == [s.board EXCEPT !.id = NewId, !.placed = TRUE]
         IN  patched \in Board /\ patched # None /\ patched.body = s.board.body
  <1> DEFINE patched == [s.board EXCEPT !.id = NewId, !.placed = TRUE]
  <1>1. s.board \in Board
    BY DEF Store
  <1>2. patched \in Board /\ patched.body = s.board.body
    BY <1>1, FreshIdExists DEF Board
  <1> QED BY <1>2, NothingAssumption DEF NothingAssumption

LEMMA QuickStep ==
  ASSUME ClientInv, CanWrite(state), NEW s \in Store,
         s.board = state.board, s.root = state.root, s.etag = state.etag,
         s.pages = state.pages, s.loading = state.loading,
         s.undo \in {None, state.undo},
         NEW revision \in 0..MaxRevision, NEW placed \in BOOLEAN,
         Quick(s, revision, placed),
         UNCHANGED <<server, access, digest, load, obs, mem, more, create>>
  PROVE  ClientInv'
  <1> DEFINE origin == s.board.body.workspace
             undo == IF placed THEN UndoOf(s, 1) ELSE None
             sent == SendOne("quick", origin, revision, undo)
             patched == [s.board EXCEPT !.id = NewId, !.placed = TRUE]
  <1>1. s.board # None /\ origin \in Workspaces
    BY DEF CanWrite, Store, Board, Body
  <1>2. 1 \in 1..MaxBatch
    BY ClientAssumption DEF ClientAssumption
  <1>3. /\ UndoOf(s, 1) \in Undo /\ UndoOf(s, 1) # None
        /\ UndoOf(s, 1).workspace = origin
    BY <1>1, <1>2, UndoOfTyped
  <1>4. undo \in {None} \cup Undo /\ (undo # None => undo.workspace = origin)
    BY <1>3
  <1>5. /\ Sends(sent, origin, 1, undo) /\ sent.from = "quick"
        /\ sent.patched = None
    BY <1>1, <1>4, SendOneTyped DEF ClientInv
  <1>6. patched \in Board /\ patched # None /\ patched.body = s.board.body
    BY <1>1, PatchTyped
  <1>7. \/ /\ state' = [s EXCEPT !.busy = TRUE, !.board = patched]
           /\ post' = [sent EXCEPT !.previous = s.board, !.patched = patched]
        \/ state' = [s EXCEPT !.busy = TRUE] /\ post' = sent
    BY DEF Quick
  <1> HIDE DEF sent, patched, undo, origin
  <1>8. CASE /\ state' = [s EXCEPT !.busy = TRUE, !.board = patched]
             /\ post' = [sent EXCEPT !.previous = s.board, !.patched = patched]
    <2>1. state' \in Store
      BY <1>6, <1>8, Zenon DEF Store
    <2>2. s.board \in {None} \cup Board /\ sent \in Post
      BY <1>5 DEF Store, Sends
    <2>3. post' \in Post
      BY <1>6, <1>8, <2>2, Zenon DEF Post
    <2>4. Sends(post', origin, 1, undo) /\ post'.from = "quick"
      BY <1>5, <1>8, <2>3 DEF Sends, Post
    <2>5. post'.patched = patched /\ post'.previous = s.board
      BY <1>8, <2>2 DEF Post
    <2>6. /\ state'.busy /\ state'.loading = s.loading /\ state'.root = s.root
          /\ state'.etag = s.etag /\ state'.pages = s.pages
          /\ state'.undo = s.undo /\ state'.board = patched
      BY <1>8 DEF Store
    <2> QED BY <1>2, <1>4, <1>6, <2>1, <2>4, <2>5, <2>6, SendStep DEF origin
  <1>9. CASE state' = [s EXCEPT !.busy = TRUE] /\ post' = sent
    <2>1. state' \in Store
      BY <1>9, Zenon DEF Store
    <2>2. /\ state'.busy /\ state'.loading = s.loading /\ state'.root = s.root
          /\ state'.etag = s.etag /\ state'.pages = s.pages
          /\ state'.undo = s.undo /\ state'.board = s.board
      BY <1>9 DEF Store
    <2> QED BY <1>2, <1>4, <1>5, <1>9, <2>1, <2>2, SendStep DEF origin
  <1> QED BY <1>7, <1>8, <1>9

LEMMA SequenceStep ==
  ASSUME ClientInv, CanWrite(state), NEW s \in Store,
         s.board = state.board, s.root = state.root, s.etag = state.etag,
         s.pages = state.pages, s.loading = state.loading,
         s.undo \in {None, state.undo},
         NEW n \in 1..MaxBatch, NEW undo \in {None} \cup Undo,
         undo # None => undo.workspace = state.board.body.workspace,
         RunSequence(s, n, undo),
         UNCHANGED <<server, access, digest, load, obs, mem, more, create>>
  PROVE  ClientInv'
  <1> DEFINE origin == s.board.body.workspace
             sent == SendOne("batch", origin, s.board.body.revision, undo)
  <1>1. origin \in Workspaces /\ s.board.body.revision \in 0..MaxRevision
    BY DEF CanWrite, Store, Board, Body
  <1>2. Sends(sent, origin, 1, undo) /\ sent.from = "batch" /\ sent.patched = None
    BY <1>1, SendOneTyped DEF ClientInv
  <1>3. state' = [s EXCEPT !.busy = TRUE] /\ post' = [sent EXCEPT !.left = n]
    BY DEF RunSequence
  <1> HIDE DEF origin, sent
  <1>4. state' \in Store
    BY <1>3, Zenon DEF Store
  <1>5. sent \in Post /\ n \in 0..MaxBatch
    BY <1>2 DEF Sends
  <1>6. post' \in Post
    BY <1>3, <1>5, Zenon DEF Post
  <1>7. Sends(post', origin, n, undo) /\ post'.from = "batch" /\ post'.patched = None
    BY <1>2, <1>3, <1>6 DEF Sends, Post
  <1>8. /\ state'.busy /\ state'.loading = s.loading /\ state'.root = s.root
        /\ state'.etag = s.etag /\ state'.pages = s.pages
        /\ state'.undo = s.undo /\ state'.board = s.board
    BY <1>3 DEF Store
  <1> QED BY <1>4, <1>7, <1>8, SendStep DEF origin

-----------------------------------------------------------------------------
(* The commands of the page and its dialogs.                                 *)

\* A step that only touches what the store keeps for the page itself.
LEMMA StoreStep ==
  ASSUME ClientInv, state' \in Store, state'.board = state.board,
         state'.root = state.root, state'.etag = state.etag,
         state'.pages = state.pages, SameFlags(state', state),
         state'.undo \in {None, state.undo},
         UNCHANGED <<server, access, digest, load, obs, mem, post, more, create>>
  PROVE  ClientInv'
  <1>1. TypeOK'
    BY DEF ClientInv, TypeOK
  <1>2. PagesFollowBoard' /\ PollsKnowTheirBoard'
    BY DEF ClientInv, PagesFollowBoard, PollsKnowTheirBoard, Shown
  <1> QED BY <1>1, <1>2, QuietStep

\* What the store holds is typed when no save is under way and none loads.
LEMMA WritableIsIdle ==
  ASSUME ClientInv, ~state.busy
  PROVE  /\ post.stage = "idle" /\ post.undo = None /\ post.patched = None
         /\ (Shown /\ state.board.placed => Superseded(state.board))
  BY DEF ClientInv, Modes, UndoFollowsBoard, PlacementsFollowCommits

LEMMA CommandsKeep == ASSUME ClientInv, Commands PROVE ClientInv'
  <1>1. state \in Store /\ TypeOK
    BY DEF ClientInv, TypeOK
  <1>2. state.board # None =>
          /\ state.board.body.revision \in 0..MaxRevision
          /\ state.board.body.workspace \in Workspaces
    BY <1>1 DEF Store, Board, Body
  <1>3. CASE SaveQuickly
    <2>1. CanWrite(state) /\ UNCHANGED <<server, access, digest, load, obs, mem, more, create>>
      BY <1>3 DEF SaveQuickly
    <2>2. PICK placed \in BOOLEAN :
            Quick(state, state.board.body.revision, placed)
      BY <1>3 DEF SaveQuickly
    <2> QED BY <1>1, <1>2, <2>1, <2>2, QuickStep DEF CanWrite
  <1>4. CASE StartDrag
    <2>1. [revision |-> state.board.body.revision, live |-> TRUE] \in Drag
      BY <1>2, <1>4 DEF StartDrag, CanWrite, Drag
    <2>2. state' \in Store
      BY <1>1, <1>4, <2>1, Zenon DEF StartDrag, Store
    <2> QED BY <1>1, <1>4, <2>2, StoreStep DEF StartDrag, Store, SameFlags
  <1>5. CASE Drop
    <2> DEFINE s == [state EXCEPT !.drag = None]
    <2>1. s \in Store
      BY <1>1, Zenon DEF Store
    <2>2. /\ s.board = state.board /\ s.root = state.root /\ s.etag = state.etag
          /\ s.pages = state.pages /\ s.loading = state.loading
          /\ s.undo = state.undo
      BY <1>1 DEF Store
    <2>3. state.drag.revision \in 0..MaxRevision
      BY <1>1, <1>5 DEF Drop, Store, Drag
    <2>4. /\ CanWrite(state) /\ Quick(s, state.drag.revision, TRUE)
          /\ UNCHANGED <<server, access, digest, load, obs, mem, more, create>>
      BY <1>5 DEF Drop
    <2> HIDE DEF s
    <2> QED BY <2>1, <2>2, <2>3, <2>4, QuickStep
  <1>6. CASE EndDrag
    <2>1. state' \in Store
      BY <1>1, <1>6, Zenon DEF EndDrag, Store
    <2> QED BY <1>1, <1>6, <2>1, StoreStep DEF EndDrag, Store, SameFlags
  <1>7. CASE RunUndo
    <2> DEFINE s == [state EXCEPT !.undo = None]
    <2>1. s \in Store
      BY <1>1, Zenon DEF Store
    <2>2. /\ s.board = state.board /\ s.root = state.root /\ s.etag = state.etag
          /\ s.pages = state.pages /\ s.loading = state.loading
          /\ s.undo = None
      BY <1>1 DEF Store
    <2>3. state.undo.commands \in 1..MaxBatch
      BY <1>1, <1>7 DEF RunUndo, Store, Undo
    <2>4. /\ CanWrite(state)
          /\ \/ Quick(s, s.board.body.revision, TRUE)
             \/ RunSequence(s, state.undo.commands, None)
          /\ UNCHANGED <<server, access, digest, load, obs, mem, more, create>>
      BY <1>7 DEF RunUndo
    <2>5. s.board.body.revision \in 0..MaxRevision
      BY <1>2, <2>2, <2>4 DEF CanWrite
    <2> HIDE DEF s
    <2>6. CASE Quick(s, s.board.body.revision, TRUE)
      BY <2>1, <2>2, <2>4, <2>5, <2>6, QuickStep
    <2>7. CASE RunSequence(s, state.undo.commands, None)
      BY <2>1, <2>2, <2>3, <2>4, <2>7, SequenceStep
    <2> QED BY <2>4, <2>6, <2>7
  <1>8. CASE UndoExpires
    <2>1. state' \in Store
      BY <1>1, <1>8, Zenon DEF UndoExpires, Store
    <2> QED BY <1>1, <1>8, <2>1, StoreStep DEF UndoExpires, Store, SameFlags
  <1>9. ASSUME NEW kind \in {"command", "bulk"}, OpenDialog(kind)
        PROVE  ClientInv'
    <2>1. [kind |-> kind, workspace |-> state.board.body.workspace,
           revision |-> state.board.body.revision] \in Dialog
      BY <1>2, <1>9 DEF OpenDialog, Dialog
    <2>2. state' \in Store
      BY <1>1, <1>9, <2>1, Zenon DEF OpenDialog, Store
    <2> QED BY <1>1, <1>9, <2>2, StoreStep DEF OpenDialog, Store, SameFlags
  <1>10. CASE CloseEditor
    <2>1. state' \in Store
      BY <1>1, <1>10, Zenon DEF CloseEditor, Store
    <2> QED BY <1>1, <1>10, <2>1, StoreStep DEF CloseEditor, Store, SameFlags
  <1>11. CASE SubmitCommand
    <2>1. /\ state.dialog.workspace \in Workspaces
          /\ state.dialog.revision \in 0..MaxRevision
      BY <1>1, <1>11 DEF SubmitCommand, Store, Dialog
    <2>2. /\ Sends(post', state.dialog.workspace, 1, None)
          /\ post'.from = "dialog" /\ post'.patched = None
      BY <1>1, <1>11, <2>1, SendOneTyped DEF SubmitCommand
    <2>3. state' \in Store
      BY <1>1, <1>11, Zenon DEF SubmitCommand, Store
    <2>4. 1 \in 1..MaxBatch
      BY ClientAssumption DEF ClientAssumption
    <2> QED BY <1>1, <1>11, <2>2, <2>3, <2>4, SendStep DEF SubmitCommand, Store
  <1>12. CASE SubmitBulk
    <2> DEFINE s == [state EXCEPT !.dialog = None]
    <2>1. s \in Store
      BY <1>1, Zenon DEF Store
    <2>2. /\ s.board = state.board /\ s.root = state.root /\ s.etag = state.etag
          /\ s.pages = state.pages /\ s.loading = state.loading
          /\ s.undo = state.undo
      BY <1>1 DEF Store
    <2>3. CanWrite(state) /\ UNCHANGED <<server, access, digest, load, obs, mem, more, create>>
      BY <1>12 DEF SubmitBulk
    <2>4. PICK n \in 1..MaxBatch : \E undo \in {None, UndoOf(state, n)} :
            RunSequence(s, n, undo)
      BY <1>12 DEF SubmitBulk
    <2>5. PICK undo \in {None, UndoOf(state, n)} : RunSequence(s, n, undo)
      BY <2>4
    <2>6. /\ undo \in {None} \cup Undo
          /\ undo # None => undo.workspace = state.board.body.workspace
      BY <1>1, <2>3, UndoOfTyped DEF CanWrite
    <2> HIDE DEF s
    <2> QED BY <2>1, <2>2, <2>3, <2>5, <2>6, SequenceStep
  <1>13. CASE RejectProposal
    <2>1. Thereafter("reject", None) \in Then
      BY ThereafterTyped
    <2>2. /\ Thereafter("reject", None).kind = "reject"
          /\ Thereafter("reject", None).undo = None
      BY ThereafterTyped
    <2>3. /\ ~state.busy /\ ~state.loading
          /\ Refresh(state, None, Thereafter("reject", None))
          /\ UNCHANGED <<server, access, digest, obs, mem, post, more, create>>
      BY <1>13 DEF RejectProposal, CanWrite
    <2>4. post' \in Post /\ post' = post
      BY <1>1, <2>3, WritableIsIdle DEF TypeOK
    <2> QED BY <1>1, <2>1, <2>2, <2>3, <2>4, WritableIsIdle, RefreshStep DEF Alike
  <1>14. CASE EditIntegration
    <2>1. state' \in Store
      BY <1>1, <1>14, Zenon DEF EditIntegration, Store
    <2> QED BY <1>1, <1>14, <2>1, StoreStep DEF EditIntegration, Store, SameFlags
  <1>15. CASE CancelIntegration
    <2>1. state' \in Store
      BY <1>1, <1>15, Zenon DEF CancelIntegration, Store
    <2> QED BY <1>1, <1>15, <2>1, StoreStep DEF CancelIntegration, Store, SameFlags
  <1>16. CASE SubmitIntegration
    <2>1. /\ Sends(post', state.board.body.workspace, 1, None)
          /\ post'.patched = None
      BY <1>1, <1>2, <1>16, SendOneTyped DEF SubmitIntegration, CanWrite
    <2>2. state' \in Store
      BY <1>1, <1>16, Zenon DEF SubmitIntegration, Store
    <2>3. 1 \in 1..MaxBatch
      BY ClientAssumption DEF ClientAssumption
    <2> QED BY <1>1, <1>16, <2>1, <2>2, <2>3, SendStep DEF SubmitIntegration, Store
  <1> QED BY <1>3, <1>4, <1>5, <1>6, <1>7, <1>8, <1>9, <1>10, <1>11, <1>12,
             <1>13, <1>14, <1>15, <1>16 DEF Commands

-----------------------------------------------------------------------------
(* The pages of a view, and the workspace gate.                              *)

\* A step that begins, answers or ends the reading of a page.
LEMMA PageStep ==
  ASSUME ClientInv, more' \in More, PagesFollowBoard',
         UNCHANGED <<server, access, state, digest, load, obs, mem, post, create>>
  PROVE  ClientInv'
  <1>1. TypeOK'
    BY DEF ClientInv, TypeOK
  <1>2. PollsKnowTheirBoard'
    BY DEF ClientInv, PollsKnowTheirBoard
  <1> QED BY <1>1, <1>2, QuietStep DEF SameFlags

LEMMA PagesKeep == ASSUME ClientInv, Pages PROVE ClientInv'
  <1>1. state \in Store /\ TypeOK /\ more \in More /\ IdleMore \in More
    BY DEF ClientInv, TypeOK, IdleMore, More
  <1>2. PagesFollowBoard /\ PollsKnowTheirBoard /\ BoardFollowsRoot
    BY DEF ClientInv
  <1>3. ASSUME NEW view \in Views, Navigate(view) PROVE ClientInv'
    <2>1. state' \in Store
      BY <1>1, <1>3, Zenon DEF Navigate, Store
    <2>2. more' \in More /\ (more' = more \/ more'.answer = None)
      BY <1>1, <1>3 DEF Navigate, IdleMore, More
    <2>3. /\ state'.board = state.board /\ state'.root = state.root
          /\ state'.etag = state.etag /\ state'.pages = state.pages
          /\ SameFlags(state', state) /\ state'.undo = state.undo
      BY <1>1, <1>3 DEF Navigate, Store, SameFlags
    <2>4. TypeOK'
      BY <1>1, <1>3, <2>1, <2>2 DEF Navigate, TypeOK
    <2>5. PagesFollowBoard'
      BY <1>2, <2>2, <2>3 DEF PagesFollowBoard, Shown
    <2>6. UNCHANGED <<server, load, post, obs, mem>>
      BY <1>3 DEF Navigate
    <2>7. PollsKnowTheirBoard'
      BY <1>2, <2>6 DEF PollsKnowTheirBoard
    <2> QED BY <2>3, <2>4, <2>5, <2>6, <2>7, QuietStep
  <1>4. CASE LoadOlder
    <2>1. more' \in More /\ more'.answer = None
      BY <1>4 DEF LoadOlder, IdleMore, More
    <2>2. PagesFollowBoard'
      BY <1>2, <1>4, <2>1 DEF LoadOlder, PagesFollowBoard, Shown
    <2> QED BY <1>4, <2>1, <2>2, PageStep DEF LoadOlder
  <1>5. CASE AnswerPage
    <2>1. state.root \in Workspaces
      BY <1>1, <1>5 DEF AnswerPage, TypeOK
    <2>2. more' \in More
      BY <1>1, <1>5, <2>1, Zenon DEF AnswerPage, More
    <2>3. PagesFollowBoard'
      BY <1>1, <1>2, <1>5 DEF AnswerPage, More, PagesFollowBoard, Shown
    <2> QED BY <1>5, <2>2, <2>3, PageStep DEF AnswerPage
  <1>6. CASE TakePage
    <2> DEFINE pages == IF more.reset THEN {more.answer}
                        ELSE state.pages \cup {more.answer}
    <2>1. /\ more.answer = state.root /\ state.root # None
          /\ state.root \in Workspaces
      BY <1>2, <1>6, NothingAssumption DEF TakePage, PagesFollowBoard, NothingAssumption
    <2>2. pages \in SUBSET Workspaces
      BY <1>1, <2>1 DEF Store
    <2>3. Shown => pages \subseteq {state.board.body.workspace}
      BY <1>2, <2>1 DEF PagesFollowBoard, BoardFollowsRoot
    <2>4. state' = [state EXCEPT !.pages = pages] /\ more' = IdleMore
      BY <1>1, <1>6 DEF TakePage, Store
    <2> HIDE DEF pages
    <2>5. state' \in Store
      BY <1>1, <2>2, <2>4, Zenon DEF Store
    <2>6. /\ state'.board = state.board /\ state'.root = state.root
          /\ state'.etag = state.etag /\ state'.pages = pages
          /\ SameFlags(state', state) /\ state'.undo = state.undo
      BY <1>1, <2>4 DEF Store, SameFlags
    <2>7. TypeOK'
      BY <1>1, <1>6, <2>4, <2>5 DEF TakePage, TypeOK
    <2>8. PagesFollowBoard'
      BY <2>3, <2>4, <2>6 DEF PagesFollowBoard, Shown, IdleMore
    <2>9. UNCHANGED <<server, load, post, obs, mem>>
      BY <1>6 DEF TakePage
    <2>10. PollsKnowTheirBoard'
      BY <1>2, <2>9 DEF PollsKnowTheirBoard
    <2> QED BY <2>6, <2>7, <2>8, <2>9, <2>10, QuietStep
  <1>7. CASE PageFails
    <2>1. PagesFollowBoard'
      BY <1>2, <1>7 DEF PageFails, PagesFollowBoard, Shown, IdleMore
    <2> QED BY <1>1, <1>7, <2>1, PageStep DEF PageFails
  <1> QED BY <1>3, <1>4, <1>5, <1>6, <1>7 DEF Pages

\* A creation goes on; a workspace may be the user's already.
LEMMA CreationStep ==
  ASSUME ClientInv, create' \in Create, access' \subseteq Workspaces,
         state' \in Store, state'.board = state.board,
         state'.root = state.root, state'.etag = state.etag,
         state'.pages = state.pages, SameFlags(state', state),
         state'.undo = state.undo,
         UNCHANGED <<server, digest, load, obs, mem, post, more>>
  PROVE  ClientInv'
  <1>1. TypeOK'
    BY DEF ClientInv, TypeOK
  <1>2. PagesFollowBoard' /\ PollsKnowTheirBoard'
    BY DEF ClientInv, PagesFollowBoard, PollsKnowTheirBoard, Shown
  <1> QED BY <1>1, <1>2, QuietStep

\* The creation that failed leaves what its signal aborted behind.
LEMMA CreateFailsKeeps == ASSUME ClientInv, CreateFails PROVE ClientInv'
  <1> DEFINE then == Thereafter("create", None)
  <1>1. state \in Store /\ TypeOK
    BY DEF ClientInv, TypeOK
  <1>2. then \in Then /\ then.kind = "create" /\ then.undo = None
    BY ThereafterTyped
  <1>3. state' = Resume(state, FALSE, then) /\ ResumeAborts(FALSE, then)
    BY <1>2 DEF CreateFails, ResumeAborts
  <1> HIDE DEF then
  <1>4. /\ state' \in Store /\ SameFlags(state', state)
        /\ state'.board = state.board /\ state'.etag = state.etag
        /\ state'.pages = state.pages /\ state'.root = None
        /\ state'.undo = state.undo
    BY <1>1, <1>2, <1>3, ResumeEffect
  <1>5. /\ obs' \in Obs /\ mem' \in Mem /\ more' \in More
        /\ obs'.stage = obs.stage /\ obs'.board = obs.board
        /\ obs'.digest = obs.digest /\ obs'.answer = obs.answer
        /\ mem'.stage = mem.stage /\ mem'.board = mem.board
        /\ more'.stage = more.stage /\ more'.answer = more.answer
        /\ more'.live = (more.stage = "idle")
    BY <1>1, AbortEffect DEF CreateFails
  <1>6. load' \in Load
    BY <1>1, Zenon DEF CreateFails, Aborted, TypeOK, Load
  <1>7. /\ load'.stage = load.stage /\ load'.live = (load.stage = "idle")
        /\ load'.answer = load.answer /\ load'.cached = load.cached
        /\ load'.preloaded = load.preloaded /\ load'.body = load.body
        /\ load'.then = load.then
    BY <1>1 DEF CreateFails, Aborted, TypeOK, Load
  <1>8. create' \in Create
    BY DEF CreateFails, Create
  <1>9. UNCHANGED <<server, access, digest, post>>
    BY DEF CreateFails
  <1>10. Shown' = Shown
    BY <1>4 DEF Shown
  <1>11. TypeOK'
    BY <1>4, <1>5, <1>6, <1>8, <1>9 DEF ClientInv, TypeOK
  <1>12. Modes'
    BY <1>4, <1>7, <1>9 DEF ClientInv, Modes, SameFlags
  <1>13. LoadsFollowRoot' /\ BoardFollowsRoot'
    BY <1>4, <1>7, <1>10 DEF ClientInv, LoadsFollowRoot, BoardFollowsRoot
  <1>14. PagesFollowBoard'
    BY <1>4, <1>5, <1>10 DEF ClientInv, PagesFollowBoard
  <1>15. UndoFollowsBoard'
    BY <1>4, <1>7, <1>9, <1>10 DEF ClientInv, UndoFollowsBoard
  <1>16. CommandsFollowBoard' /\ PlacementsFollowCommits'
    BY <1>4, <1>9, <1>10
       DEF ClientInv, CommandsFollowBoard, PlacementsFollowCommits, Superseded
  <1>17. BodiesWereServed' /\ PollsKnowTheirBoard'
    BY <1>4, <1>5, <1>7, <1>9, <1>10
       DEF ClientInv, BodiesWereServed, Served, PollsKnowTheirBoard
  <1>18. ValidatorDescribesBoard'
    BY <1>4, <1>11, NothingAssumption
       DEF TypeOK, Store, Body, ValidatorDescribesBoard, NothingAssumption
  <1> QED BY <1>11, <1>12, <1>13, <1>14, <1>15, <1>16, <1>17, <1>18 DEF ClientInv

LEMMA GateKeeps == ASSUME ClientInv, Gate PROVE ClientInv'
  <1>1. state \in Store /\ TypeOK
    BY DEF ClientInv, TypeOK
  <1>2. \A kind \in {"user", "choose", "create"} :
          /\ Thereafter(kind, None) \in Then
          /\ Thereafter(kind, None).kind = kind
          /\ Thereafter(kind, None).undo = None
    BY ThereafterTyped
  <1>3. CASE RefreshWorkspace
    <2>1. /\ ~state.busy /\ ~state.loading
          /\ Refresh(state, None, Thereafter("user", None))
          /\ UNCHANGED <<server, access, digest, obs, mem, post, more, create>>
      BY <1>3 DEF RefreshWorkspace, InteractionBlocked
    <2>2. post' \in Post /\ post' = post
      BY <1>1, <2>1 DEF TypeOK
    <2> QED BY <1>1, <1>2, <2>1, <2>2, WritableIsIdle, RefreshStep DEF Alike
  <1>4. CASE RefreshWorkspaceGate
    <2>1. state' \in Store
      BY <1>1, <1>4, Zenon DEF RefreshWorkspaceGate, Store
    <2>2. /\ state'.board = state.board /\ state'.root = None
          /\ state.root = None /\ state'.etag = state.etag
          /\ state'.pages = state.pages /\ state'.busy = state.busy
          /\ state'.loading /\ ~state.busy /\ state'.undo = state.undo
      BY <1>1, <1>4 DEF RefreshWorkspaceGate, InteractionBlocked, Store
    <2>3. load' \in Load
      BY <1>4, IdleLoadTyped, Zenon DEF RefreshWorkspaceGate, Load
    <2>4. /\ load'.stage = "gate" /\ load'.live /\ load'.answer = None
          /\ load'.preloaded = None /\ load'.cached = None /\ load'.body = None
          /\ load'.then.undo = None
      BY <1>4, IdleLoadTyped DEF RefreshWorkspaceGate, Load
    <2>5. UNCHANGED <<server, access, digest, obs, mem, post, more, create>>
      BY <1>4 DEF RefreshWorkspaceGate
    <2>6. Shown' = Shown
      BY <2>2 DEF Shown
    <2>7. TypeOK' /\ Modes'
      BY <1>1, <2>1, <2>2, <2>3, <2>4, <2>5 DEF ClientInv, TypeOK, Modes
    <2>8. LoadsFollowRoot' /\ BoardFollowsRoot'
      BY <2>2, <2>4 DEF LoadsFollowRoot, BoardFollowsRoot
    <2>9. PagesFollowBoard' /\ UndoFollowsBoard'
      BY <2>2, <2>4, <2>5, <2>6 DEF ClientInv, PagesFollowBoard, UndoFollowsBoard
    <2>10. CommandsFollowBoard' /\ PlacementsFollowCommits'
      BY <2>2, <2>5, <2>6
         DEF ClientInv, CommandsFollowBoard, PlacementsFollowCommits, Superseded
    <2>11. BodiesWereServed' /\ PollsKnowTheirBoard'
      BY <2>2, <2>4, <2>5, <2>6
         DEF ClientInv, BodiesWereServed, Served, PollsKnowTheirBoard
    <2>12. ValidatorDescribesBoard'
      BY <2>2, <2>7, NothingAssumption
         DEF TypeOK, Store, Body, ValidatorDescribesBoard, NothingAssumption
    <2> QED BY <2>7, <2>8, <2>9, <2>10, <2>11, <2>12 DEF ClientInv
  <1>5. ASSUME NEW w \in Workspaces, Choose(w) \/ ApplyHistoryNavigation(w)
        PROVE  ClientInv'
    <2>1. /\ ~state.busy /\ ChooseWorkspace(state, w, Thereafter("choose", None))
          /\ UNCHANGED <<server, access, digest, post, create>>
      BY <1>5 DEF Choose, ApplyHistoryNavigation, MayChoose
    <2> QED BY <1>1, <1>2, <2>1, ChooseStep DEF TypeOK
  <1>6. CASE ShowWorkspaceSelection
    <2>1. state' \in Store
      BY <1>1, <1>6, Zenon DEF ShowWorkspaceSelection, Store, Gates
    <2> QED BY <1>1, <1>6, <2>1, StoreStep
         DEF ShowWorkspaceSelection, Store, SameFlags
  <1>7. CASE ShowWorkspaceCreate /\ state.board = None
    <2>1. /\ state' = [state EXCEPT !.gate = "create"]
          /\ UNCHANGED <<server, access, digest, load, obs, mem, post, more, create>>
      BY <1>7 DEF ShowWorkspaceCreate
    <2>2. state' \in Store
      BY <1>1, <2>1, Zenon DEF Store, Gates
    <2> QED BY <1>1, <2>1, <2>2, StoreStep DEF Store, SameFlags
  <1>8. CASE ShowWorkspaceCreate /\ state.board # None
    <2>1. /\ state' = EnterWorkspaceGate(state, "create") /\ AbortReads
          /\ ~state.busy /\ ~state.loading
          /\ UNCHANGED <<server, access, digest, load, post, create>>
      BY <1>8 DEF ShowWorkspaceCreate, InteractionBlocked
    <2>2. /\ state' \in Store /\ SameFlags(state', state)
          /\ state'.board = None /\ state'.root = None /\ state'.etag = None
      BY <1>1, <2>1, GateEffect DEF Gates
    <2>3. /\ obs' \in Obs /\ mem' \in Mem /\ more' \in More
          /\ obs'.stage = obs.stage /\ obs'.board = obs.board
          /\ obs'.digest = obs.digest /\ obs'.answer = obs.answer
          /\ mem'.stage = mem.stage /\ mem'.board = mem.board
          /\ more'.stage = more.stage /\ more'.answer = more.answer
          /\ more'.live = (more.stage = "idle")
      BY <1>1, <2>1, AbortEffect
    <2>4. TypeOK'
      BY <1>1, <2>1, <2>2, <2>3 DEF TypeOK
    <2>5. PollsKnowTheirBoard' /\ load.stage = "idle"
      BY <2>1, <2>3 DEF ClientInv, PollsKnowTheirBoard, Modes
    <2>6. more'.answer # None => more'.stage = "asked" /\ ~more'.live
      BY <2>3 DEF ClientInv, PagesFollowBoard
    <2> QED BY <2>1, <2>2, <2>3, <2>4, <2>5, <2>6, GateStep DEF SameFlags
  <1>9. CASE CreateWorkspace
    <2>1. state' \in Store
      BY <1>1, <1>9, Zenon DEF CreateWorkspace, Store
    <2>2. create' \in Create /\ access' \subseteq Workspaces
      BY <1>1, <1>9 DEF CreateWorkspace, Create, TypeOK
    <2> QED BY <1>1, <1>9, <2>1, <2>2, CreationStep
         DEF CreateWorkspace, Store, SameFlags
  <1>10. CASE AnswerCreate
    <2>1. create' \in Create /\ access' \subseteq Workspaces
      BY <1>1, <1>10 DEF AnswerCreate, Create, TypeOK
    <2> QED BY <1>1, <1>10, <2>1, CreationStep DEF AnswerCreate, SameFlags
  <1>11. CASE ListCreated
    <2>1. create' \in Create /\ access' \subseteq Workspaces
      BY <1>1, <1>11 DEF ListCreated, Create, TypeOK
    <2> QED BY <1>1, <1>11, <2>1, CreationStep DEF ListCreated, SameFlags
  <1>12. CASE OpenCreated
    <2> DEFINE s == [state EXCEPT !.workspaces = MembershipsNow]
    <2>1. s \in Store
      BY <1>1, MembershipsTyped, Zenon DEF Store
    <2>2. s.busy = state.busy
      BY <1>1 DEF Store
    <2>3. /\ ~state.busy /\ create.answer \in Workspaces /\ create' \in Create
          /\ ChooseWorkspace(s, create.answer, Thereafter("create", None))
          /\ UNCHANGED <<server, access, digest, post>>
      BY <1>1, <1>12 DEF OpenCreated, Create, TypeOK
    <2> HIDE DEF s
    <2> QED BY <1>2, <2>1, <2>2, <2>3, ChooseStep
  <1>13. CASE CreateFails
    BY <1>13, CreateFailsKeeps
  <1> QED BY <1>3, <1>4, <1>5, <1>6, <1>7, <1>8, <1>9, <1>10, <1>11, <1>12,
             <1>13 DEF Gate

-----------------------------------------------------------------------------
(* The load in flight, step by step.                                         *)

\* An answer arrives for the load; nothing is done with it yet.
LEMMA AnswerStep ==
  ASSUME ClientInv, load' \in Load,
         load'.stage = load.stage, load'.live = load.live,
         load'.preloaded = load.preloaded, load'.cached = load.cached,
         load'.body = load.body, load'.then = load.then,
         LoadsFollowRoot',
         load.stage = "board" /\ load'.answer \in Body => Served(load'.answer),
         UNCHANGED <<server, access, state, digest, obs, mem, post, more, create>>
  PROVE  ClientInv'
  <1>1. TypeOK' /\ Modes'
    BY DEF ClientInv, TypeOK, Modes
  <1>2. BoardFollowsRoot' /\ PagesFollowBoard' /\ UndoFollowsBoard'
    BY DEF ClientInv, BoardFollowsRoot, PagesFollowBoard, UndoFollowsBoard, Shown
  <1>3. CommandsFollowBoard' /\ PlacementsFollowCommits'
    BY DEF ClientInv, CommandsFollowBoard, PlacementsFollowCommits,
           Superseded, Shown
  <1>4. BodiesWereServed' /\ PollsKnowTheirBoard' /\ ValidatorDescribesBoard'
    BY DEF ClientInv, BodiesWereServed, Served, PollsKnowTheirBoard,
           ValidatorDescribesBoard, Shown
  <1> QED BY <1>1, <1>2, <1>3, <1>4 DEF ClientInv

\* The board arrives: its validator is stored, the board is still the old one.
LEMMA ReceiveStep ==
  ASSUME ClientInv, NEW s \in Store, Alike(s, state), SameFlags(s, state),
         load.live, load.stage \in {"members", "board"},
         NEW body \in Body, Served(body), body.workspace = state.root,
         ReceiveBoard(s, body),
         UNCHANGED <<server, access, post, create>>
  PROVE  ClientInv'
  <1>1. state' = [s EXCEPT !.etag = body]
    BY DEF ReceiveBoard
  <1>2. state' \in Store
    BY <1>1, Zenon DEF Store
  <1>3. /\ state'.board = state.board /\ state'.root = state.root
        /\ state'.etag = body /\ state'.pages = state.pages
        /\ state'.undo = state.undo
        /\ state'.busy = state.busy /\ state'.loading = state.loading
    BY <1>1 DEF Alike, SameFlags, Store
  <1>4. load \in Load /\ load' = [load EXCEPT !.stage = "page", !.body = body,
                                              !.answer = None]
    BY DEF ClientInv, TypeOK, ReceiveBoard
  <1>5. load' \in Load
    BY <1>4, Zenon DEF Load
  <1>6. /\ load'.stage = "page" /\ load'.live = load.live /\ load'.body = body
        /\ load'.preloaded = load.preloaded /\ load'.then = load.then
    BY <1>4 DEF Load
  <1>7. Shown' = Shown /\ UNCHANGED <<obs, mem, more>> /\ digest' = None
    BY <1>3 DEF Shown, ReceiveBoard
  <1>8. TypeOK' /\ Modes'
    BY <1>2, <1>3, <1>5, <1>6, <1>7 DEF ClientInv, TypeOK, Modes
  <1>9. LoadsFollowRoot'
    BY <1>3, <1>6, NothingAssumption DEF LoadsFollowRoot, NothingAssumption
  <1>10. BoardFollowsRoot' /\ PagesFollowBoard' /\ UndoFollowsBoard'
    BY <1>3, <1>6, <1>7
       DEF ClientInv, BoardFollowsRoot, PagesFollowBoard, UndoFollowsBoard
  <1>11. CommandsFollowBoard' /\ PlacementsFollowCommits'
    BY <1>3, <1>7
       DEF ClientInv, CommandsFollowBoard, PlacementsFollowCommits, Superseded
  <1>12. BodiesWereServed' /\ PollsKnowTheirBoard'
    BY <1>3, <1>6, <1>7
       DEF ClientInv, BodiesWereServed, Served, PollsKnowTheirBoard
  <1>13. ValidatorDescribesBoard'
    BY <1>6 DEF ValidatorDescribesBoard
  <1> QED BY <1>8, <1>9, <1>10, <1>11, <1>12, <1>13 DEF ClientInv

LEMMA EndedTyped ==
  ASSUME NEW s \in Store PROVE [s EXCEPT !.loading = FALSE] \in Store
  BY Zenon DEF Store

\* The list no longer names the workspace shown.
LEMMA LoadLeaves ==
  ASSUME ClientInv, NEW s \in Store, SameFlags(s, state), ~state.busy,
         NEW mode \in Gates, AbortReads,
         state' = Resume([EnterWorkspaceGate(s, mode) EXCEPT !.loading = FALSE],
                         FALSE, load.then),
         load' = IdleLoad,
         UNCHANGED <<server, access, digest, post, create>>
  PROVE  ClientInv'
  <1> DEFINE g == EnterWorkspaceGate(s, mode)
             t == [g EXCEPT !.loading = FALSE]
  <1>1. g \in Store
    BY GateEffect
  <1>2. /\ SameFlags(g, s)
        /\ g.board = None /\ g.root = None /\ g.etag = None
    BY GateEffect
  <1>3. load.then \in Then /\ TypeOK /\ state' = Resume(t, FALSE, load.then)
    BY DEF ClientInv, TypeOK, Load
  <1> HIDE DEF g
  <1>4. t \in Store /\ t.board = None /\ t.root = None /\ t.etag = None
        /\ ~t.busy /\ ~t.loading
    <2>1. t \in Store
      BY <1>1, EndedTyped
    <2> QED BY <1>1, <1>2, <2>1 DEF Store, SameFlags
  <1> HIDE DEF t
  <1>5. /\ state' \in Store /\ state'.board = None /\ state'.root = None
        /\ state'.etag = None /\ ~state'.busy /\ ~state'.loading
    <2>1. load.then.kind = "reject" /\ FALSE => t.board # None
      OBVIOUS
    <2> DEFINE r == Resume(t, FALSE, load.then)
    <2>2. /\ r \in Store /\ SameFlags(r, t) /\ r.board = t.board
          /\ r.etag = t.etag /\ r.root \in {None, t.root}
      BY <1>3, <1>4, <2>1, ResumeEffect
    <2> HIDE DEF r
    <2> QED BY <1>3, <1>4, <2>2 DEF SameFlags, r
  <1>6. /\ obs' \in Obs /\ mem' \in Mem /\ more' \in More
        /\ obs'.stage = obs.stage /\ obs'.board = obs.board
        /\ obs'.digest = obs.digest /\ obs'.answer = obs.answer
        /\ mem'.stage = mem.stage /\ mem'.board = mem.board
        /\ more'.stage = more.stage /\ more'.answer = more.answer
        /\ more'.live = (more.stage = "idle")
    BY <1>3, AbortEffect
  <1>7. TypeOK'
    BY <1>3, <1>5, <1>6, IdleLoadTyped DEF TypeOK
  <1>8. PollsKnowTheirBoard'
    BY <1>6 DEF ClientInv, PollsKnowTheirBoard
  <1>9. more'.answer # None => more'.stage = "asked" /\ ~more'.live
    BY <1>6 DEF ClientInv, PagesFollowBoard
  <1> QED BY <1>5, <1>6, <1>7, <1>8, <1>9, GateStep

LEMMA LoadMembershipsKeeps == ASSUME ClientInv, LoadMemberships PROVE ClientInv'
  <1> DEFINE s == [state EXCEPT !.workspaces = load.answer]
             selected == IF s.board # None THEN s.board.body.workspace ELSE s.root
             cached == IF s.board # None /\ s.etag # None
                          /\ s.etag.workspace = s.root
                       THEN s.etag ELSE None
  <1>1. TypeOK /\ state \in Store /\ load \in Load
    BY DEF ClientInv, TypeOK
  <1>2. /\ load.stage = "members" /\ load.live /\ load.answer \in Memberships
        /\ ~state.busy /\ state.root # None
        /\ UNCHANGED <<server, access, post, create>>
    BY DEF LoadMemberships, Loading, ClientInv, Modes
  <1>3. s \in Store
    BY <1>1, <1>2, Zenon DEF Store
  <1>4. Alike(s, state) /\ SameFlags(s, state)
    BY <1>1 DEF Alike, SameFlags, Store
  <1>5. selected = state.root
    BY <1>2, <1>4 DEF ClientInv, BoardFollowsRoot, Shown, Alike
  <1>6. \/ /\ AbortReads
           /\ state' = Resume([EnterWorkspaceGate(s, GateFor(load.answer))
                                 EXCEPT !.loading = FALSE], FALSE, load.then)
           /\ load' = IdleLoad /\ UNCHANGED digest
        \/ Preloaded(selected) /\ ReceiveBoard(s, load.preloaded)
        \/ /\ state' = s
           /\ load' = [load EXCEPT !.stage = "board", !.answer = None,
                                   !.cached = cached]
           /\ UNCHANGED <<digest, obs, mem, more>>
    BY DEF LoadMemberships
  <1> HIDE DEF s, selected
  <1>7. CASE /\ AbortReads
             /\ state' = Resume([EnterWorkspaceGate(s, GateFor(load.answer))
                                   EXCEPT !.loading = FALSE], FALSE, load.then)
             /\ load' = IdleLoad /\ UNCHANGED digest
    <2>1. GateFor(load.answer) \in Gates
      BY GateForTyped
    <2> QED BY <1>2, <1>3, <1>4, <1>7, <2>1, LoadLeaves
  <1>8. CASE Preloaded(selected) /\ ReceiveBoard(s, load.preloaded)
    <2>1. load.preloaded \in Body /\ load.preloaded.workspace = state.root
      BY <1>1, <1>5, <1>8 DEF Preloaded, Load
    <2>2. Served(load.preloaded)
      BY <1>8 DEF Preloaded, ClientInv, BodiesWereServed
    <2> QED BY <1>2, <1>3, <1>4, <1>8, <2>1, <2>2, ReceiveStep
  <1>9. CASE /\ state' = s
             /\ load' = [load EXCEPT !.stage = "board", !.answer = None,
                                     !.cached = cached]
             /\ UNCHANGED <<digest, obs, mem, more>>
    <2>1. cached \in {None} \cup Body /\ (cached # None => Shown)
      BY <1>3, <1>4 DEF Store, Alike, Shown
    <2> HIDE DEF cached
    <2>2. load' \in Load
      BY <1>1, <1>9, <2>1, Zenon DEF Load
    <2>3. /\ load'.stage = "board" /\ load'.live /\ load'.answer = None
          /\ load'.cached = cached /\ load'.preloaded = load.preloaded
          /\ load'.body = load.body /\ load'.then = load.then
      BY <1>1, <1>2, <1>9 DEF Load
    <2>4. /\ state'.board = state.board /\ state'.root = state.root
          /\ state'.etag = state.etag /\ state'.undo = state.undo
          /\ state'.pages = state.pages /\ SameFlags(state', state)
      BY <1>4, <1>9 DEF Alike
    <2>5. Shown' = Shown
      BY <2>4 DEF Shown
    <2>6. TypeOK' /\ Modes'
      BY <1>1, <1>2, <1>3, <1>9, <2>2, <2>3, <2>4
         DEF ClientInv, TypeOK, Modes, SameFlags
    <2>7. LoadsFollowRoot'
      BY <2>1, <2>3, <2>5, NothingAssumption DEF LoadsFollowRoot, NothingAssumption
    <2>8. BoardFollowsRoot' /\ PagesFollowBoard' /\ UndoFollowsBoard'
      BY <1>2, <1>9, <2>3, <2>4, <2>5
         DEF ClientInv, BoardFollowsRoot, PagesFollowBoard, UndoFollowsBoard
    <2>9. CommandsFollowBoard' /\ PlacementsFollowCommits'
      BY <1>2, <2>4, <2>5
         DEF ClientInv, CommandsFollowBoard, PlacementsFollowCommits, Superseded
    <2>10. BodiesWereServed' /\ PollsKnowTheirBoard'
      BY <1>2, <1>9, <2>3, <2>4, <2>5, NothingAssumption
         DEF ClientInv, BodiesWereServed, Served, PollsKnowTheirBoard,
             NothingAssumption
    <2>11. ValidatorDescribesBoard'
      BY <1>2, <2>4, <2>5 DEF ClientInv, ValidatorDescribesBoard
    <2> QED BY <2>6, <2>7, <2>8, <2>9, <2>10, <2>11 DEF ClientInv
  <1> QED BY <1>6, <1>7, <1>8, <1>9

\* The gate's own list: one workspace is opened at once, of several one is
\* asked for.
LEMMA GateMembershipsKeeps == ASSUME ClientInv, GateMemberships PROVE ClientInv'
  <1> DEFINE s == [state EXCEPT !.workspaces = load.answer, !.loading = FALSE]
  <1>1. TypeOK /\ state \in Store
    BY DEF ClientInv, TypeOK
  <1>2. /\ load.stage = "gate" /\ load.live /\ load.answer \in Memberships
        /\ ~state.busy /\ UNCHANGED <<server, access, digest, post, create>>
    BY DEF GateMemberships, Loading, ClientInv, Modes
  <1>3. s \in Store
    BY <1>1, <1>2, Zenon DEF Store
  <1>4. Alike(s, state) /\ ~s.busy /\ ~s.loading
    BY <1>1, <1>2 DEF Alike, Store
  <1>5. \/ \E w \in Workspaces : ChooseWorkspace(s, w, Thereafter("choose", None))
        \/ /\ state' = [s EXCEPT !.gate = GateFor(load.answer)]
           /\ load' = IdleLoad /\ UNCHANGED <<obs, mem, more>>
    BY DEF GateMemberships
  <1> HIDE DEF s
  <1>6. ASSUME NEW w \in Workspaces, ChooseWorkspace(s, w, Thereafter("choose", None))
        PROVE  ClientInv'
    BY <1>1, <1>2, <1>3, <1>4, <1>6, ThereafterTyped, ChooseStep DEF TypeOK
  <1>7. CASE /\ state' = [s EXCEPT !.gate = GateFor(load.answer)]
             /\ load' = IdleLoad /\ UNCHANGED <<obs, mem, more>>
    <2>1. GateFor(load.answer) \in Gates
      BY GateForTyped
    <2>2. state' \in Store
      BY <1>3, <1>7, <2>1, Zenon DEF Store
    <2>3. /\ state'.board = state.board /\ state'.root = state.root
          /\ state'.etag = state.etag /\ state'.undo = state.undo
          /\ state'.pages = state.pages /\ ~state'.busy /\ ~state'.loading
      BY <1>3, <1>4, <1>7 DEF Store, Alike
    <2>4. Shown' = Shown
      BY <2>3 DEF Shown
    <2>5. post.stage = "idle" /\ post.undo = None /\ post.patched = None
      BY <1>2, WritableIsIdle
    <2>6. TypeOK' /\ Modes'
      BY <1>1, <1>2, <1>7, <2>2, <2>3, <2>5, IdleLoadTyped DEF TypeOK, Modes
    <2>7. LoadsFollowRoot' /\ BoardFollowsRoot' /\ PagesFollowBoard'
      BY <1>7, <2>3, <2>4, IdleLoadTyped
         DEF ClientInv, LoadsFollowRoot, BoardFollowsRoot, PagesFollowBoard
    <2>8. UndoFollowsBoard'
      BY <1>2, <1>7, <2>3, <2>4, <2>5, IdleLoadTyped
         DEF ClientInv, UndoFollowsBoard
    <2>9. CommandsFollowBoard' /\ PlacementsFollowCommits'
      BY <1>2, <2>3, <2>4
         DEF ClientInv, CommandsFollowBoard, PlacementsFollowCommits, Superseded
    <2>10. BodiesWereServed' /\ PollsKnowTheirBoard'
      BY <1>2, <1>7, <2>3, <2>4, IdleLoadTyped
         DEF ClientInv, BodiesWereServed, Served, PollsKnowTheirBoard
    <2>11. ValidatorDescribesBoard'
      BY <1>2, <2>3, <2>4 DEF ClientInv, ValidatorDescribesBoard
    <2> QED BY <2>6, <2>7, <2>8, <2>9, <2>10, <2>11 DEF ClientInv
  <1> QED BY <1>5, <1>6, <1>7

LEMMA LoadsKeep == ASSUME ClientInv, Loads PROVE ClientInv'
  <1>1. TypeOK /\ state \in Store /\ load \in Load /\ LoadsFollowRoot
    BY DEF ClientInv, TypeOK
  <1>2. load.stage # "idle" => state.loading /\ ~state.busy
    BY DEF ClientInv, Modes
  <1>3. CASE AnswerMemberships
    <2>1. MembershipsNow \in Memberships
      BY <1>1, MembershipsTyped
    <2>2. load' \in Load
      BY <1>1, <1>3, <2>1, Zenon DEF AnswerMemberships, Load
    <2>3. /\ load'.stage = load.stage /\ load'.live = load.live
          /\ load'.preloaded = load.preloaded /\ load'.cached = load.cached
          /\ load'.body = load.body /\ load'.then = load.then
          /\ load'.answer = MembershipsNow
      BY <1>1, <1>3 DEF AnswerMemberships, Load
    <2>4. load.stage \in {"members", "gate"}
      BY <1>3 DEF AnswerMemberships, Loading
    <2>5. LoadsFollowRoot'
      BY <2>1, <2>3, <2>4 DEF LoadsFollowRoot
    <2> QED BY <1>3, <2>2, <2>3, <2>4, <2>5, AnswerStep DEF AnswerMemberships
  <1>4. CASE LoadMemberships
    BY <1>4, LoadMembershipsKeeps
  <1>5. CASE AnswerBoard
    <2> DEFINE b == BodyOf(state.root)
               a == IF load.cached = b THEN Unchanged ELSE b
    <2>1. state.root \in Workspaces
      BY <1>1, <1>5 DEF AnswerBoard, TypeOK
    <2>2. /\ b \in Body /\ b # None /\ b # Unchanged /\ Served(b)
          /\ b.workspace = state.root
      BY <1>1, <2>1, BodyOfTyped
    <2>3. load' = [load EXCEPT !.answer = a]
      BY <1>5 DEF AnswerBoard
    <2> HIDE DEF b
    <2>4. a \in {Unchanged, b} /\ (a = Unchanged => load.cached # None)
      BY <2>2
    <2> HIDE DEF a
    <2>5. a \in {None, Unchanged} \cup Memberships \cup Body
      BY <2>2, <2>4
    <2>6. load' \in Load
      BY <1>1, <2>3, <2>5, Zenon DEF Load
    <2>7. /\ load'.stage = load.stage /\ load'.live = load.live
          /\ load'.preloaded = load.preloaded /\ load'.cached = load.cached
          /\ load'.body = load.body /\ load'.then = load.then
          /\ load'.answer = a
      BY <1>1, <2>3 DEF Load
    <2>8. load.stage = "board" /\ state' = state
      BY <1>5 DEF AnswerBoard, Loading
    <2>9. Unchanged \notin Body
      BY NothingAssumption DEF NothingAssumption
    <2>10. LoadsFollowRoot'
      BY <1>1, <2>2, <2>4, <2>7, <2>8, <2>9 DEF LoadsFollowRoot, Shown
    <2>11. a \in Body => Served(a)
      BY <2>2, <2>4, <2>9
    <2> QED BY <1>5, <2>6, <2>7, <2>8, <2>10, <2>11, AnswerStep DEF AnswerBoard
  <1>6. CASE LoadBoard
    <2>1. load.stage = "board" /\ load.live
      BY <1>6 DEF LoadBoard, Loading
    <2>2. CASE load.answer \in Body /\ ReceiveBoard(state, load.answer)
      <3>1. Served(load.answer) /\ load.answer.workspace = state.root
        BY <1>1, <2>1, <2>2 DEF ClientInv, BodiesWereServed, LoadsFollowRoot
      <3>2. Alike(state, state) /\ SameFlags(state, state)
        BY DEF Alike, SameFlags
      <3> QED BY <1>1, <1>6, <2>1, <2>2, <3>1, <3>2, ReceiveStep DEF LoadBoard
    <2>3. CASE /\ load.answer = Unchanged
               /\ EndLoad([state EXCEPT !.notice = FALSE], TRUE)
               /\ UNCHANGED digest
      <3> DEFINE s == [state EXCEPT !.notice = FALSE]
      <3>1. s \in Store
        BY <1>1, Zenon DEF Store
      <3>2. Alike(s, state) /\ SameFlags(s, state)
        BY <1>1 DEF Alike, SameFlags, Store
      <3>3. s.board # None
        BY <1>1, <2>1, <2>3, <3>2 DEF LoadsFollowRoot, Shown, Alike
      <3>4. EndLoad(s, TRUE) /\ UNCHANGED <<server, access, digest, post, create>>
        BY <1>6, <2>3 DEF LoadBoard
      <3> HIDE DEF s
      <3> QED BY <1>2, <2>1, <3>1, <3>2, <3>3, <3>4, EndLoadStep DEF Alike, SameFlags
    <2> QED BY <1>6, <2>2, <2>3 DEF LoadBoard
  <1>7. ASSUME NEW ok \in BOOLEAN, LoadPage(ok) PROVE ClientInv'
    <2> DEFINE pages == IF state.view = "history" /\ ok
                        THEN {load.body.workspace} ELSE {}
               board == NewBoard(load.body)
               s == [state EXCEPT !.board = board, !.gate = "none",
                                  !.notice = FALSE, !.pages = pages]
    <2>1. load.stage = "page" /\ load.live
      BY <1>7 DEF LoadPage, Loading
    <2>2. load.body \in Body
      BY <1>1, <2>1 DEF Load, LoadsFollowRoot
    <2>3. board \in Board /\ board # None
      BY <2>2, NewBoardTyped
    <2>4. pages \in SUBSET Workspaces /\ pages \subseteq {load.body.workspace}
      BY <2>2 DEF Body
    <2>5. EndLoad(s, ok) /\ UNCHANGED <<server, access, digest, post, create>>
      BY <1>7 DEF LoadPage
    <2> HIDE DEF pages, board
    <2>6. s \in Store
      BY <1>1, <2>3, <2>4, Zenon DEF Store, Gates
    <2>7. /\ s.board = board /\ s.pages = pages /\ s.root = state.root
          /\ s.etag = state.etag /\ s.undo = state.undo /\ s.busy = state.busy
      BY <1>1 DEF Store
    <2> HIDE DEF s
    <2> QED BY <1>2, <2>1, <2>3, <2>4, <2>5, <2>6, <2>7, EndLoadStep DEF board
  <1>8. CASE LoadFails
    <2>1. /\ load.stage # "idle" /\ (load.stage = "page" => ~load.live)
          /\ EndLoad(state, FALSE)
          /\ UNCHANGED <<server, access, digest, post, create>>
      BY <1>8 DEF LoadFails
    <2> QED BY <1>1, <1>2, <2>1, EndLoadStep
  <1>9. CASE GateMemberships
    BY <1>9, GateMembershipsKeeps
  <1> QED BY <1>3, <1>4, <1>5, <1>6, <1>7, <1>8, <1>9 DEF Loads

-----------------------------------------------------------------------------
(* The save in flight, and what others change.                               *)

\* The server only moves forward: what was served and what was superseded
\* stays so.
LEMMA ServerGrows ==
  ASSUME ClientInv,
         server' \in [Workspaces -> [revision : 0..MaxRevision,
                                     links : 0..MaxLinks, role : Roles]],
         \A w \in Workspaces : /\ server'[w].revision >= server[w].revision
                               /\ server'[w].links >= server[w].links
  PROVE  /\ \A body \in Body : Served(body) => Served(body)'
         /\ \A board \in Board : Superseded(board) => Superseded(board)'
  <1>1. \A w \in Workspaces :
          /\ server[w].revision \in Nat /\ server'[w].revision \in Nat
          /\ server[w].links \in Nat /\ server'[w].links \in Nat
    BY ClientAssumption DEF ClientInv, TypeOK, ClientAssumption
  <1>2. ASSUME NEW body \in Body, Served(body) PROVE Served(body)'
    <2>1. /\ body.workspace \in Workspaces
          /\ body.revision \in Nat /\ body.links \in Nat
      BY ClientAssumption DEF Body, ClientAssumption
    <2> QED BY <1>1, <1>2, <2>1 DEF Served
  <1>3. ASSUME NEW board \in Board, Superseded(board) PROVE Superseded(board)'
    <2>1. board.body.workspace \in Workspaces /\ board.body.revision \in Nat
      BY ClientAssumption DEF Board, Body, ClientAssumption
    <2> QED BY <1>1, <1>3, <2>1 DEF Superseded
  <1> QED BY <1>2, <1>3

\* The server moves forward, and the tab learns nothing of it.
LEMMA ServerStep ==
  ASSUME ClientInv,
         server' \in [Workspaces -> [revision : 0..MaxRevision,
                                     links : 0..MaxLinks, role : Roles]],
         \A w \in Workspaces : /\ server'[w].revision >= server[w].revision
                               /\ server'[w].links >= server[w].links,
         access' \subseteq Workspaces,
         post' \in Post, post'.board = post.board,
         post'.patched = post.patched, post'.previous = post.previous,
         post'.from = post.from, post'.stage = "idle" <=> post.stage = "idle",
         post.patched # None /\ post'.stage \in {"committed", "answered"} =>
           post'.stage = post.stage \/ Superseded(post.patched)',
         UNCHANGED <<state, digest, load, obs, mem, more, create>>
  PROVE  TypeOK' /\ BodiesWereServed' /\ PlacementsFollowCommits'
  <1>1. /\ \A body \in Body : Served(body) => Served(body)'
        /\ \A board \in Board : Superseded(board) => Superseded(board)'
    BY ServerGrows
  <1>2. TypeOK'
    BY DEF ClientInv, TypeOK
  <1>3. /\ Shown => state.board \in Board /\ state.board.body \in Body
        /\ load.preloaded \in {None} \cup Body /\ load.body \in {None} \cup Body
        /\ post.board \in {None} \cup Body
        /\ obs.board # None => obs.board.body \in Body
        /\ obs.answer \in {None} \cup Body
        /\ post.previous \in {None} \cup Board /\ post.patched \in {None} \cup Board
    BY DEF ClientInv, TypeOK, Store, Board, Load, Post, Obs, Shown
  <1>4. BodiesWereServed'
    BY <1>1, <1>3 DEF ClientInv, BodiesWereServed, Shown
  <1>5. Shown /\ state.board.placed /\ post.patched = None => Superseded(state.board)'
    BY <1>1, <1>3 DEF ClientInv, PlacementsFollowCommits
  <1>6. CASE post.patched = None
    BY <1>2, <1>4, <1>5, <1>6 DEF PlacementsFollowCommits, Shown, Superseded
  <1>7. CASE post.patched # None
    <2> DEFINE old == post.previous
               new == post.patched
    <2>1. /\ old \in Board /\ new \in Board
          /\ old.placed => Superseded(old)
          /\ post.stage \in {"committed", "answered"} => Superseded(new)
      BY <1>3, <1>7 DEF ClientInv, PlacementsFollowCommits
    <2>2. PICK o \in Board, n \in Board : o = old /\ n = new
      BY <2>1
    <2>3. /\ o.placed => Superseded(o)'
          /\ post.stage \in {"committed", "answered"} => Superseded(n)'
      BY <1>1, <2>1, <2>2
    <2>4. post'.previous = o /\ post'.patched = n
      BY <2>2
    <2>5. /\ post'.stage # "idle" /\ post'.from = "quick" /\ o # None
          /\ state'.board = n /\ n.body = o.body
      BY <1>7, <2>2 DEF ClientInv, PlacementsFollowCommits
    <2>6. post'.stage \in {"committed", "answered"} => Superseded(n)'
      BY <1>7, <2>2, <2>3, <2>4 DEF Superseded
    <2> QED BY <1>2, <1>4, <1>7, <2>3, <2>4, <2>5, <2>6
         DEF PlacementsFollowCommits, Superseded
  <1> QED BY <1>6, <1>7

LEMMA ElsewhereKeeps == ASSUME ClientInv, Elsewhere PROVE ClientInv'
  <1>1. PICK w \in Workspaces :
          ElsewhereChanges(w) \/ SetMember(w) \/ ElsewhereObserves(w)
    BY DEF Elsewhere
  <1>2. UNCHANGED <<state, digest, load, obs, mem, post, more, create>>
    BY <1>1 DEF ElsewhereChanges, SetMember, ElsewhereObserves
  <1>3. /\ server \in [Workspaces -> [revision : 0..MaxRevision,
                                      links : 0..MaxLinks, role : Roles]]
        /\ access \subseteq Workspaces /\ post \in Post
    BY DEF ClientInv, TypeOK
  <1>4. \A v \in Workspaces : server[v].revision \in Nat /\ server[v].links \in Nat
    BY <1>3, ClientAssumption DEF ClientAssumption
  <1>5. /\ server' \in [Workspaces -> [revision : 0..MaxRevision,
                                       links : 0..MaxLinks, role : Roles]]
        /\ \A v \in Workspaces : /\ server'[v].revision >= server[v].revision
                                 /\ server'[v].links >= server[v].links
        /\ access' \subseteq Workspaces
    <2>1. CASE ElsewhereObserves(w)
      <3>1. server'[w] = [server[w] EXCEPT !.links = @ + 1]
        BY <1>3, <2>1 DEF ElsewhereObserves
      <3>2. server[w].links + 1 \in 0..MaxLinks
        BY <1>3, <1>4, <2>1, ClientAssumption DEF ElsewhereObserves, ClientAssumption
      <3>3. /\ server'[w] \in [revision : 0..MaxRevision, links : 0..MaxLinks,
                              role : Roles]
            /\ server'[w].revision = server[w].revision
            /\ server'[w].links = server[w].links + 1
        BY <1>3, <3>1, <3>2
      <3>4. \A v \in Workspaces \ {w} : server'[v] = server[v]
        BY <1>3, <2>1 DEF ElsewhereObserves
      <3>5. DOMAIN server' = Workspaces /\ access' = access
        BY <1>3, <2>1 DEF ElsewhereObserves
      <3>6. server' = [v \in Workspaces |-> server'[v]]
        BY <1>3, <2>1 DEF ElsewhereObserves
      <3>7. \A v \in Workspaces :
              /\ server'[v] \in [revision : 0..MaxRevision, links : 0..MaxLinks,
                                 role : Roles]
              /\ server'[v].revision >= server[v].revision
              /\ server'[v].links >= server[v].links
        BY <1>3, <1>4, <3>3, <3>4
      <3> QED BY <1>3, <3>5, <3>6, <3>7
    <2>2. CASE ElsewhereChanges(w)
      <3>1. /\ server[w].revision < MaxRevision /\ access' \subseteq Workspaces
            /\ server' = Touch(w)
               \/ \E r \in Roles : server' = [Touch(w) EXCEPT ![w].role = r]
        BY <1>3, <2>2 DEF ElsewhereChanges
      <3>2. server[w].revision + 1 \in 0..MaxRevision
        BY <1>3, <1>4, <3>1, ClientAssumption DEF ClientAssumption
      <3>3. /\ Touch(w) \in [Workspaces -> [revision : 0..MaxRevision,
                                            links : 0..MaxLinks, role : Roles]]
            /\ Touch(w)[w].revision = server[w].revision + 1
            /\ Touch(w)[w].links = server[w].links
            /\ \A v \in Workspaces \ {w} : Touch(w)[v] = server[v]
        BY <1>3, <3>2 DEF Touch
      <3> DEFINE t == Touch(w)
      <3> HIDE DEF t
      <3>4. /\ server' \in [Workspaces -> [revision : 0..MaxRevision,
                                           links : 0..MaxLinks, role : Roles]]
            /\ server'[w].revision = server[w].revision + 1
            /\ server'[w].links = server[w].links
            /\ \A v \in Workspaces \ {w} : server'[v] = server[v]
        <4>1. t \in [Workspaces -> [revision : 0..MaxRevision,
                                    links : 0..MaxLinks, role : Roles]]
          BY <3>3 DEF t
        <4>2. /\ t[w].revision = server[w].revision + 1
              /\ t[w].links = server[w].links
              /\ \A v \in Workspaces \ {w} : t[v] = server[v]
          BY <3>3 DEF t
        <4>3. server' = t \/ \E r \in Roles : server' = [t EXCEPT ![w].role = r]
          BY <3>1 DEF t
        <4> QED BY <4>1, <4>2, <4>3
      <3> QED BY <1>3, <1>4, <3>1, <3>4
    <2>3. CASE SetMember(w)
      <3>1. PICK r \in Roles : server' = [server EXCEPT ![w].role = r]
        BY <2>3 DEF SetMember
      <3>2. access' \subseteq Workspaces
        BY <1>3, <2>3 DEF SetMember
      <3>3. server' \in [Workspaces -> [revision : 0..MaxRevision,
                                        links : 0..MaxLinks, role : Roles]]
        BY <1>3, <3>1
      <3>4. \A v \in Workspaces : /\ server'[v].revision = server[v].revision
                                  /\ server'[v].links = server[v].links
        BY <1>3, <3>1
      <3> QED BY <1>3, <1>4, <3>2, <3>3, <3>4
    <2> QED BY <1>1, <2>1, <2>2, <2>3
  <1>6. TypeOK' /\ BodiesWereServed' /\ PlacementsFollowCommits'
    BY <1>2, <1>3, <1>5, ServerStep
  <1>7. Modes' /\ LoadsFollowRoot' /\ BoardFollowsRoot' /\ PagesFollowBoard'
    BY <1>2 DEF ClientInv, Modes, LoadsFollowRoot, BoardFollowsRoot,
                PagesFollowBoard, Shown
  <1>8. /\ UndoFollowsBoard' /\ CommandsFollowBoard' /\ PollsKnowTheirBoard'
        /\ ValidatorDescribesBoard'
    BY <1>2 DEF ClientInv, UndoFollowsBoard, CommandsFollowBoard, Shown,
                PollsKnowTheirBoard, ValidatorDescribesBoard
  <1> QED BY <1>6, <1>7, <1>8 DEF ClientInv

\* A save goes on without touching the store.
LEMMA PostStep ==
  ASSUME ClientInv, post' \in Post, post.stage # "idle", post'.stage # "idle",
         post'.from = post.from, post'.previous = post.previous,
         post'.patched = post.patched, post'.undo = post.undo,
         post'.stage \in {"committed", "answered"} =>
           post.stage \in {"committed", "answered"},
         CommandsFollowBoard', post'.board # None => Served(post'.board),
         UNCHANGED <<server, access, state, digest, load, obs, mem, more, create>>
  PROVE  ClientInv'
  <1>1. TypeOK' /\ Modes'
    BY DEF ClientInv, TypeOK, Modes
  <1>2. LoadsFollowRoot' /\ BoardFollowsRoot' /\ PagesFollowBoard'
    BY DEF ClientInv, LoadsFollowRoot, BoardFollowsRoot, PagesFollowBoard, Shown
  <1>3. UndoFollowsBoard' /\ PlacementsFollowCommits'
    BY DEF ClientInv, UndoFollowsBoard, PlacementsFollowCommits, Superseded, Shown
  <1>4. BodiesWereServed' /\ PollsKnowTheirBoard' /\ ValidatorDescribesBoard'
    BY DEF ClientInv, BodiesWereServed, Served, PollsKnowTheirBoard,
           ValidatorDescribesBoard, Shown
  <1> QED BY <1>1, <1>2, <1>3, <1>4 DEF ClientInv

LEMMA CommitKeeps == ASSUME ClientInv, Commit PROVE ClientInv'
  <1> DEFINE w == post.workspace
  <1>1. /\ server \in [Workspaces -> [revision : 0..MaxRevision,
                                      links : 0..MaxLinks, role : Roles]]
        /\ access \subseteq Workspaces /\ post \in Post
    BY DEF ClientInv, TypeOK
  <1>2. /\ w \in Workspaces /\ post.stage = "sent"
        /\ server[w].revision < MaxRevision
        /\ server' = [server EXCEPT ![w].revision = @ + 1]
        /\ post' = [post EXCEPT !.stage = "committed",
                                !.receipt = server[w].revision + 1]
        /\ UNCHANGED <<access, state, digest, load, obs, mem, more, create>>
    BY <1>1 DEF Commit
  <1>3. \A v \in Workspaces : server[v].revision \in Nat /\ server[v].links \in Nat
    BY <1>1, ClientAssumption DEF ClientAssumption
  <1>4. server[w].revision + 1 \in 0..MaxRevision /\ server[w].revision + 1 # None
    BY <1>2, <1>3, ClientAssumption, NothingAssumption
       DEF ClientAssumption, NothingAssumption
  <1> HIDE DEF w
  <1>5. /\ server' \in [Workspaces -> [revision : 0..MaxRevision,
                                       links : 0..MaxLinks, role : Roles]]
        /\ server'[w].revision = server[w].revision + 1
        /\ \A v \in Workspaces : /\ server'[v].revision >= server[v].revision
                                 /\ server'[v].links >= server[v].links
    <2>1. server' \in [Workspaces -> [revision : 0..MaxRevision,
                                      links : 0..MaxLinks, role : Roles]]
      BY <1>1, <1>2, <1>4
    <2> QED BY <1>1, <1>2, <1>3, <2>1
  <1>6. post' \in Post
    BY <1>1, <1>2, <1>4, Zenon DEF Post
  <1>7. /\ post'.stage = "committed" /\ post'.receipt = server[w].revision + 1
        /\ post'.board = post.board /\ post'.patched = post.patched
        /\ post'.previous = post.previous /\ post'.from = post.from
        /\ post'.workspace = post.workspace /\ post'.origin = post.origin
        /\ post'.left = post.left /\ post'.sent = post.sent
        /\ post'.undo = post.undo
    BY <1>1, <1>2 DEF Post
  <1>8. ASSUME post.patched # None PROVE Superseded(post.patched)'
    <2>1. /\ state.board = post.patched /\ Shown
          /\ state.board.body.workspace = w /\ Served(state.board.body)
          /\ state.board.body.revision \in Nat
      <3>1. state.board = post.patched /\ post.from = "quick" /\ Shown
        BY <1>8 DEF ClientInv, PlacementsFollowCommits, Shown
      <3>2. w \in {None, state.board.body.workspace} /\ w # None
        BY <1>2, <3>1, NothingAssumption
           DEF ClientInv, CommandsFollowBoard, NothingAssumption, w
      <3>3. state.board.body.revision \in Nat
        BY <3>1, ClientAssumption
           DEF ClientInv, TypeOK, Store, Board, Body, Shown, ClientAssumption
      <3> QED BY <3>1, <3>2, <3>3 DEF ClientInv, BodiesWereServed
    <2>2. server'[w].revision > state.board.body.revision
      BY <1>2, <1>3, <1>5, <2>1 DEF Served
    <2> QED BY <1>7, <2>1, <2>2 DEF Superseded
  <1>9. TypeOK' /\ BodiesWereServed' /\ PlacementsFollowCommits'
    BY <1>1, <1>2, <1>5, <1>6, <1>7, <1>8, ServerStep
  <1>10. CommandsFollowBoard'
    BY <1>2, <1>4, <1>7 DEF ClientInv, CommandsFollowBoard, Shown
  <1>11. Modes' /\ LoadsFollowRoot' /\ BoardFollowsRoot' /\ PagesFollowBoard'
    BY <1>2, <1>7 DEF ClientInv, Modes, LoadsFollowRoot, BoardFollowsRoot,
                      PagesFollowBoard, Shown
  <1>12. UndoFollowsBoard' /\ PollsKnowTheirBoard' /\ ValidatorDescribesBoard'
    BY <1>2, <1>7 DEF ClientInv, UndoFollowsBoard, PollsKnowTheirBoard,
                      ValidatorDescribesBoard, Shown
  <1> QED BY <1>9, <1>10, <1>11, <1>12 DEF ClientInv

\* The refused placement is taken back; what was there before it is shown.
LEMMA ChangeFailedKeeps == ASSUME ClientInv, ChangeFailed PROVE ClientInv'
  <1> DEFINE b == Rollback(state.board)
             f == post.from = "form"
  <1>1. state \in Store /\ post \in Post /\ TypeOK
    BY DEF ClientInv, TypeOK
  <1>2. /\ post.stage = "failed" /\ post' = IdlePost
        /\ state' = [state EXCEPT !.busy = FALSE, !.board = b, !.form = f]
        /\ UNCHANGED <<server, access, digest, load, obs, mem, more, create>>
    BY <1>1 DEF ChangeFailed, Store
  <1>3. /\ Shown /\ b \in Board /\ b # None /\ b.body = state.board.body
        /\ b.placed => server[b.body.workspace].revision > b.body.revision
    <2>1. Shown
      BY <1>2 DEF ClientInv, CommandsFollowBoard
    <2>2. CASE post.patched = None
      BY <1>1, <2>1, <2>2
         DEF Rollback, Store, Shown, ClientInv, PlacementsFollowCommits, Superseded
    <2>3. CASE post.patched # None
      BY <1>1, <2>1, <2>3
         DEF Rollback, Post, Shown, ClientInv, PlacementsFollowCommits, Superseded
    <2> QED BY <2>2, <2>3
  <1>4. f \in BOOLEAN
    OBVIOUS
  <1> HIDE DEF b, f
  <1>5. state' \in Store
    BY <1>1, <1>2, <1>3, <1>4, Zenon DEF Store
  <1>6. /\ ~state'.busy /\ state'.board = b /\ state'.root = state.root
        /\ state'.etag = state.etag /\ state'.pages = state.pages
        /\ state'.undo = state.undo /\ state'.loading = state.loading
    BY <1>1, <1>2 DEF Store
  <1>7. Shown' /\ ~state.loading
    BY <1>2, <1>3, <1>6 DEF Shown, ClientInv, Modes
  <1>8. TypeOK' /\ Modes'
    BY <1>1, <1>2, <1>5, <1>6, <1>7, IdlePostTyped DEF ClientInv, TypeOK, Modes
  <1>9. LoadsFollowRoot' /\ BoardFollowsRoot' /\ PagesFollowBoard'
    BY <1>2, <1>3, <1>6, <1>7
       DEF ClientInv, LoadsFollowRoot, BoardFollowsRoot, PagesFollowBoard
  <1>10. UndoFollowsBoard' /\ CommandsFollowBoard'
    BY <1>2, <1>3, <1>6, <1>7, IdlePostTyped, ClientAssumption
       DEF ClientInv, UndoFollowsBoard, CommandsFollowBoard, ClientAssumption
  <1>11. PlacementsFollowCommits'
    BY <1>2, <1>3, <1>6, IdlePostTyped DEF PlacementsFollowCommits, Superseded
  <1>12. BodiesWereServed' /\ PollsKnowTheirBoard'
    BY <1>2, <1>3, <1>6, <1>7, IdlePostTyped
       DEF ClientInv, BodiesWereServed, Served, PollsKnowTheirBoard
  <1>13. ValidatorDescribesBoard'
    BY <1>2, <1>3, <1>6, <1>7 DEF ClientInv, ValidatorDescribesBoard
  <1> QED BY <1>8, <1>9, <1>10, <1>11, <1>12, <1>13 DEF ClientInv

LEMMA PostsKeep == ASSUME ClientInv, Posts PROVE ClientInv'
  <1>1. TypeOK /\ state \in Store /\ post \in Post
    BY DEF ClientInv, TypeOK
  <1>2. /\ post.left \in Nat /\ post.sent \in Nat /\ MaxBatch \in Nat
        /\ CommandsFollowBoard
    BY <1>1, ClientAssumption DEF Post, ClientAssumption, ClientInv
  <1>3. CASE Commit
    BY <1>3, CommitKeeps
  <1>4. CASE Acknowledge
    <2>1. PICK withBoard \in IF Minimal THEN {FALSE} ELSE BOOLEAN :
            post' = [post EXCEPT !.stage = "answered",
                       !.board = IF withBoard /\ post.workspace \in access
                                 THEN BodyOf(post.workspace) ELSE None]
      BY <1>4 DEF Acknowledge
    <2> DEFINE board == IF withBoard /\ post.workspace \in access
                        THEN BodyOf(post.workspace) ELSE None
    <2>2. /\ board \in {None} \cup Body /\ (board # None => Served(board))
          /\ (post.left > 1 => board = None)
      BY <1>1, BodyOfTyped DEF Minimal, TypeOK
    <2>3. post' = [post EXCEPT !.stage = "answered", !.board = board]
      BY <2>1
    <2> HIDE DEF board
    <2>4. post' \in Post
      BY <1>1, <2>2, <2>3, Zenon DEF Post
    <2>5. /\ post'.stage = "answered" /\ post'.board = board
          /\ post'.receipt = post.receipt /\ post'.patched = post.patched
          /\ post'.previous = post.previous /\ post'.from = post.from
          /\ post'.workspace = post.workspace /\ post'.origin = post.origin
          /\ post'.left = post.left /\ post'.sent = post.sent
          /\ post'.undo = post.undo
      BY <1>1, <2>3 DEF Post
    <2>6. /\ post.stage = "committed"
          /\ UNCHANGED <<server, access, state, digest, load, obs, mem, more, create>>
      BY <1>4 DEF Acknowledge
    <2>7. CommandsFollowBoard'
      BY <1>2, <2>2, <2>5, <2>6 DEF CommandsFollowBoard, Shown
    <2>8. post'.board # None => Served(post'.board)
      BY <2>2, <2>5
    <2> QED BY <2>4, <2>5, <2>6, <2>7, <2>8, PostStep
  <1>5. CASE LoseChange
    <2>1. post' = [post EXCEPT !.stage = "failed"]
          /\ UNCHANGED <<server, access, state, digest, load, obs, mem, more, create>>
          /\ post.stage \in {"sent", "committed"}
      BY <1>5 DEF LoseChange
    <2>2. post' \in Post
      BY <1>1, <2>1, Zenon DEF Post
    <2>3. /\ post'.stage = "failed" /\ post'.board = post.board
          /\ post'.receipt = post.receipt /\ post'.patched = post.patched
          /\ post'.previous = post.previous /\ post'.from = post.from
          /\ post'.workspace = post.workspace /\ post'.origin = post.origin
          /\ post'.left = post.left /\ post'.sent = post.sent
          /\ post'.undo = post.undo
      BY <1>1, <2>1 DEF Post
    <2>4. CommandsFollowBoard'
      BY <1>2, <2>1, <2>3 DEF CommandsFollowBoard, Shown
    <2>5. post'.board # None => Served(post'.board)
      BY <2>3 DEF ClientInv, BodiesWereServed
    <2> QED BY <2>1, <2>2, <2>3, <2>4, <2>5, PostStep
  <1>6. CASE NextCommand
    <2>1. /\ post.stage = "answered" /\ post.left > 1
          /\ post' = [post EXCEPT !.stage = "sent", !.workspace = state.root,
                        !.revision = ReceiptRevision, !.left = post.left - 1,
                        !.sent = post.sent + 1, !.board = None]
          /\ UNCHANGED <<server, access, state, digest, load, obs, mem, more, create>>
      BY <1>1, <1>6 DEF NextCommand, Post
    <2>2. /\ ReceiptRevision = post.receipt /\ post.from = "batch"
          /\ post.sent + post.left <= MaxBatch
      BY <1>2, <2>1 DEF CommandsFollowBoard, ReceiptRevision
    <2>3. ReceiptRevision \in 0..MaxRevision
      BY <1>1, <1>2, <2>1, <2>2 DEF CommandsFollowBoard, Post
    <2>4. post.left - 1 \in 0..MaxBatch /\ post.sent + 1 \in 0..MaxBatch
      BY <1>2, <2>1, <2>2
    <2>5. state.root \in {None} \cup Workspaces
      BY <1>1 DEF Store
    <2>6. post' \in Post
      BY <1>1, <2>1, <2>3, <2>4, <2>5, Zenon DEF Post
    <2>7. /\ post'.stage = "sent" /\ post'.board = None
          /\ post'.receipt = post.receipt /\ post'.patched = post.patched
          /\ post'.previous = post.previous /\ post'.from = post.from
          /\ post'.workspace = state.root /\ post'.origin = post.origin
          /\ post'.left = post.left - 1 /\ post'.sent = post.sent + 1
          /\ post'.undo = post.undo /\ post'.revision = post.receipt
      BY <1>1, <2>1, <2>2 DEF Post
    <2>8. CommandsFollowBoard'
      <3>1. post'.left > 0 /\ post'.sent + post'.left <= MaxBatch
        BY <1>2, <2>1, <2>2, <2>7
      <3>2. post'.workspace \in {None, post.origin}
        BY <1>2, <2>1, <2>2, <2>7
           DEF ClientInv, BoardFollowsRoot, CommandsFollowBoard
      <3> QED BY <1>2, <2>1, <2>2, <2>7, <3>1, <3>2 DEF CommandsFollowBoard, Shown
    <2> QED BY <2>1, <2>6, <2>7, <2>8, PostStep
  <1>7. ASSUME NEW preloaded \in {None} \cup Body,
               preloaded # None => Served(preloaded),
               NEW then \in Then, then.kind # "create",
               then.undo # None =>
                 Shown /\ then.undo.workspace = state.board.body.workspace,
               post.stage # "idle",
               post.patched # None => post.stage = "answered",
               Refresh([state EXCEPT !.busy = FALSE], preloaded, then),
               post' = IdlePost,
               UNCHANGED <<server, access, digest, obs, mem, more, create>>
        PROVE  ClientInv'
    <2> DEFINE s == [state EXCEPT !.busy = FALSE]
    <2>1. s \in Store
      BY <1>1, Zenon DEF Store
    <2>2. Alike(s, state) /\ ~s.busy /\ s.loading = state.loading
      BY <1>1 DEF Alike, Store
    <2>3. ~state.loading
      BY <1>7 DEF ClientInv, Modes
    <2>4. Shown /\ state.board.placed => Superseded(state.board)
      BY <1>7 DEF ClientInv, PlacementsFollowCommits
    <2> HIDE DEF s
    <2> QED BY <1>7, <2>1, <2>2, <2>3, <2>4, IdlePostTyped, RefreshStep DEF s
  <1>8. CASE ChangeSaved
    <2>1. /\ post.stage = "answered" /\ post' = IdlePost
          /\ Refresh([state EXCEPT !.busy = FALSE], post.board,
                     Thereafter(post.from, post.undo))
          /\ UNCHANGED <<server, access, digest, obs, mem, more, create>>
      BY <1>8 DEF ChangeSaved
    <2>2. post.board \in {None} \cup Body /\ (post.board # None => Served(post.board))
      BY <1>1 DEF Post, ClientInv, BodiesWereServed
    <2>3. post.from \in {"quick", "dialog", "form", "batch"}
          /\ post.undo \in {None} \cup Undo
      BY <1>1 DEF Post
    <2>4. /\ Thereafter(post.from, post.undo) \in Then
          /\ Thereafter(post.from, post.undo).kind = post.from
          /\ Thereafter(post.from, post.undo).undo = post.undo
      BY <2>3, ThereafterTyped
    <2>5. post.undo # None =>
            Shown /\ post.undo.workspace = state.board.body.workspace
      BY DEF ClientInv, UndoFollowsBoard
    <2> QED BY <1>7, <2>1, <2>2, <2>3, <2>4, <2>5
  <1>9. CASE ChangeFailed
    BY <1>9, ChangeFailedKeeps
  <1>10. CASE SequenceFailed
    <2>1. /\ post.stage = "failed" /\ post.from = "batch" /\ post' = IdlePost
          /\ Refresh([state EXCEPT !.busy = FALSE], None, Thereafter("batch", None))
          /\ UNCHANGED <<server, access, digest, obs, mem, more, create>>
      BY <1>10 DEF SequenceFailed
    <2>2. /\ Thereafter("batch", None) \in Then
          /\ Thereafter("batch", None).kind = "batch"
          /\ Thereafter("batch", None).undo = None
      BY ThereafterTyped
    <2>3. post.patched = None
      BY <2>1 DEF ClientInv, PlacementsFollowCommits
    <2> QED BY <1>7, <2>1, <2>2, <2>3
  <1> QED BY <1>3, <1>4, <1>5, <1>6, <1>8, <1>9, <1>10 DEF Posts

-----------------------------------------------------------------------------
(* The poll of the observations.                                             *)

LEMMA IdleObsTyped ==
  /\ IdleObs \in Obs /\ IdleObs.stage = "idle" /\ IdleObs.live
  /\ IdleObs.board = None /\ IdleObs.answer = None
  BY DEF IdleObs, Obs

\* A step of the poll that leaves the board alone; it may put up the notice.
LEMMA ObserveStep ==
  ASSUME ClientInv, state' \in {state, [state EXCEPT !.notice = TRUE]},
         obs' \in Obs, obs'.board \in {None, state.board, obs.board},
         obs'.answer \in {None, obs.answer} \/ Served(obs'.answer),
         obs'.stage # "idle" => obs'.board # None,
         obs'.stage = "board" => obs'.digest # None,
         obs'.answer # None =>
           /\ obs'.stage = "board"
           /\ obs'.answer.workspace = obs'.board.body.workspace
           /\ obs'.board.body.links <= obs'.answer.links,
         UNCHANGED <<server, access, digest, load, mem, post, more, create>>
  PROVE  ClientInv'
  <1>1. state \in Store
    BY DEF ClientInv, TypeOK
  <1>2. [state EXCEPT !.notice = TRUE] \in Store
    BY <1>1, Zenon DEF Store
  <1>3. /\ state'.board = state.board /\ state'.root = state.root
        /\ state'.etag = state.etag /\ state'.pages = state.pages
        /\ SameFlags(state', state) /\ state'.undo = state.undo
    BY <1>1 DEF Store, SameFlags
  <1>4. TypeOK'
    BY <1>1, <1>2 DEF ClientInv, TypeOK
  <1>5. PagesFollowBoard'
    BY <1>3 DEF ClientInv, PagesFollowBoard, Shown
  <1>6. PollsKnowTheirBoard'
    BY DEF ClientInv, PollsKnowTheirBoard
  <1> QED BY <1>3, <1>4, <1>5, <1>6, QuietStep

\* Newer links are taken over onto the board of the same revision and role.
LEMMA LinksTakenOver ==
  ASSUME ClientInv, TakeObservations, StillObserving,
         SamePlanning(obs.answer.role, obs.answer.revision),
         digest' = DigestSeen(obs.digest), obs.answer.links # obs.board.body.links,
         state' = [state EXCEPT !.board.id = NewId,
                                !.board.body.links = obs.answer.links]
  PROVE  ClientInv'
  <1> DEFINE body == [state.board.body EXCEPT !.links = obs.answer.links]
             board == [state.board EXCEPT !.id = NewId, !.body = body]
  <1>1. /\ TypeOK /\ state \in Store /\ obs \in Obs
        /\ obs.stage = "board" /\ obs.answer # None /\ obs' = IdleObs
        /\ state.board = obs.board /\ ~state.busy /\ ~state.loading
        /\ UNCHANGED <<server, access, load, mem, post, more, create>>
    BY DEF ClientInv, TypeOK, TakeObservations, Observing, StillObserving, PollBlocked
  <1>2. /\ Shown /\ state.board \in Board /\ state.board.body \in Body
        /\ obs.answer \in Body /\ obs.digest \in 0..MaxLinks
        /\ obs.answer.workspace = state.board.body.workspace
        /\ obs.answer.revision = state.board.body.revision
        /\ state.board.body.links <= obs.answer.links
        /\ Served(obs.answer)
    BY <1>1 DEF ClientInv, PollsKnowTheirBoard, BodiesWereServed, Shown, Store,
                Board, Obs, SamePlanning
  <1>3. /\ body \in Body /\ body.links = obs.answer.links
        /\ body.workspace = state.board.body.workspace
        /\ body.revision = state.board.body.revision
        /\ body.role = state.board.body.role
    BY <1>2 DEF Body
  <1>4. state' = [state EXCEPT !.board = board]
    BY <1>1, <1>2 DEF Store, Board
  <1> HIDE DEF body
  <1>5. /\ board \in Board /\ board # None /\ board.body = body
        /\ board.placed = state.board.placed
    <2>1. board \in Board
      BY <1>2, <1>3, FreshIdExists, Zenon DEF Board
    <2> QED BY <1>2, <2>1, NothingAssumption DEF Board, NothingAssumption
  <1> HIDE DEF board
  <1>6. state' \in Store
    BY <1>1, <1>4, <1>5, Zenon DEF Store
  <1>7. /\ state'.board = board /\ state'.root = state.root
        /\ state'.etag = state.etag /\ state'.pages = state.pages
        /\ state'.undo = state.undo /\ ~state'.busy /\ ~state'.loading
    BY <1>1, <1>4 DEF Store
  <1>8. Shown'
    BY <1>5, <1>7 DEF Shown
  <1>9. digest' \in [workspace : Workspaces, links : 0..MaxLinks]
    BY <1>1, <1>2 DEF DigestSeen, Body
  <1>10. TypeOK' /\ Modes'
    BY <1>1, <1>6, <1>7, <1>9, IdleObsTyped DEF ClientInv, TypeOK, Modes
  <1>11. LoadsFollowRoot' /\ BoardFollowsRoot' /\ PagesFollowBoard'
    BY <1>1, <1>2, <1>3, <1>5, <1>7, <1>8
       DEF ClientInv, LoadsFollowRoot, BoardFollowsRoot, PagesFollowBoard
  <1>12. UndoFollowsBoard' /\ CommandsFollowBoard'
    BY <1>1, <1>2, <1>3, <1>5, <1>7, <1>8, WritableIsIdle
       DEF ClientInv, UndoFollowsBoard, CommandsFollowBoard
  <1>13. PlacementsFollowCommits'
    BY <1>1, <1>2, <1>3, <1>5, <1>7, WritableIsIdle
       DEF ClientInv, PlacementsFollowCommits, Superseded
  <1>14. BodiesWereServed' /\ PollsKnowTheirBoard'
    BY <1>1, <1>2, <1>3, <1>5, <1>7, IdleObsTyped
       DEF ClientInv, BodiesWereServed, Served, PollsKnowTheirBoard
  <1>15. ValidatorDescribesBoard'
    <2>1. /\ state.board.body.links \in Nat /\ obs.answer.links \in Nat
          /\ state.etag # None => state.etag.links \in Nat
      BY <1>1, <1>2, ClientAssumption DEF Store, Body, ClientAssumption
    <2> QED BY <1>1, <1>2, <1>3, <1>5, <1>7, <2>1
         DEF ClientInv, ValidatorDescribesBoard
  <1> QED BY <1>10, <1>11, <1>12, <1>13, <1>14, <1>15 DEF ClientInv

LEMMA ObservationsKeep == ASSUME ClientInv, Observations PROVE ClientInv'
  <1>1. TypeOK /\ state \in Store /\ obs \in Obs /\ PollsKnowTheirBoard
    BY DEF ClientInv, TypeOK
  <1>2. obs.board # None =>
          obs.board.body.workspace \in Workspaces /\ obs.board.body.links \in Nat
    BY <1>1, ClientAssumption DEF Obs, Board, Body, ClientAssumption
  <1>3. CASE ObserveTick
    <2>1. state.board \in {None} \cup Board
      BY <1>1 DEF Store
    <2>2. obs' = [IdleObs EXCEPT !.stage = "revision", !.board = state.board]
      BY <1>3 DEF ObserveTick
    <2>3. obs' \in Obs
      BY <2>1, <2>2, IdleObsTyped, Zenon DEF Obs
    <2>4. /\ obs'.stage = "revision" /\ obs'.board = state.board
          /\ obs'.answer = None
      BY <2>2, IdleObsTyped DEF Obs
    <2> QED BY <1>3, <2>3, <2>4, ObserveStep DEF ObserveTick
  <1>4. CASE AnswerRole
    <2> DEFINE seen == server[obs.board.body.workspace].role
    <2>1. /\ obs.stage = "revision" /\ obs' = [obs EXCEPT !.role = seen]
          /\ UNCHANGED <<server, access, state, digest, load, mem, post, more, create>>
      BY <1>4 DEF AnswerRole, Observing
    <2>2. seen \in Roles
      BY <1>1, <1>2, <2>1 DEF TypeOK, PollsKnowTheirBoard
    <2> HIDE DEF seen
    <2>3. obs' \in Obs
      BY <1>1, <2>1, <2>2, Zenon DEF Obs
    <2>4. /\ obs'.stage = obs.stage /\ obs'.board = obs.board
          /\ obs'.answer = obs.answer /\ obs'.digest = obs.digest
      BY <1>1, <2>1 DEF Obs
    <2> QED BY <1>1, <2>1, <2>3, <2>4, ObserveStep DEF PollsKnowTheirBoard
  <1>5. CASE AnswerRevision
    <2> DEFINE seen == server[obs.board.body.workspace].revision
    <2>1. /\ obs.stage = "revision" /\ obs' = [obs EXCEPT !.revision = seen]
          /\ UNCHANGED <<server, access, state, digest, load, mem, post, more, create>>
      BY <1>5 DEF AnswerRevision, Observing
    <2>2. seen \in 0..MaxRevision
      BY <1>1, <1>2, <2>1 DEF TypeOK, PollsKnowTheirBoard
    <2> HIDE DEF seen
    <2>3. obs' \in Obs
      BY <1>1, <2>1, <2>2, Zenon DEF Obs
    <2>4. /\ obs'.stage = obs.stage /\ obs'.board = obs.board
          /\ obs'.answer = obs.answer /\ obs'.digest = obs.digest
      BY <1>1, <2>1 DEF Obs
    <2> QED BY <1>1, <2>1, <2>3, <2>4, ObserveStep DEF PollsKnowTheirBoard
  <1>6. CASE AnswerDigest
    <2> DEFINE links == server[obs.board.body.workspace].links
    <2>1. /\ obs.stage = "revision" /\ obs' = [obs EXCEPT !.digest = links]
          /\ UNCHANGED <<server, access, state, digest, load, mem, post, more, create>>
      BY <1>6 DEF AnswerDigest, Observing
    <2>2. links \in 0..MaxLinks
      BY <1>1, <1>2, <2>1 DEF TypeOK, PollsKnowTheirBoard
    <2> HIDE DEF links
    <2>3. obs' \in Obs
      BY <1>1, <2>1, <2>2, Zenon DEF Obs
    <2>4. /\ obs'.stage = obs.stage /\ obs'.board = obs.board
          /\ obs'.answer = obs.answer
      BY <1>1, <2>1 DEF Obs
    <2> QED BY <1>1, <2>1, <2>3, <2>4, ObserveStep DEF PollsKnowTheirBoard
  <1>7. CASE TakeRevision
    <2>1. /\ obs.stage = "revision" /\ obs.digest # None
          /\ state' \in {state, [state EXCEPT !.notice = TRUE]}
          /\ obs' = IdleObs \/ obs' = [obs EXCEPT !.stage = "board"]
          /\ UNCHANGED <<server, access, digest, load, mem, post, more, create>>
      BY <1>7 DEF TakeRevision, Observing
    <2>2. [obs EXCEPT !.stage = "board"] \in Obs
      BY <1>1, Zenon DEF Obs
    <2>3. obs' = IdleObs \/ /\ obs'.stage = "board" /\ obs'.board = obs.board
                            /\ obs'.answer = obs.answer /\ obs'.digest = obs.digest
      BY <1>1, <2>1 DEF Obs
    <2>4. obs.answer = None /\ obs.board # None
      BY <1>1, <2>1 DEF PollsKnowTheirBoard
    <2> QED BY <2>1, <2>2, <2>3, <2>4, IdleObsTyped, ObserveStep
  <1>8. CASE AnswerObservedBoard
    <2> DEFINE b == BodyOf(obs.board.body.workspace)
    <2>1. /\ obs.stage = "board" /\ obs' = [obs EXCEPT !.answer = b]
          /\ UNCHANGED <<server, access, state, digest, load, mem, post, more, create>>
      BY <1>8 DEF AnswerObservedBoard, Observing
    <2>2. obs.board # None /\ obs.digest # None
      BY <1>1, <2>1 DEF PollsKnowTheirBoard
    <2>3. /\ b \in Body /\ Served(b) /\ b.workspace = obs.board.body.workspace
          /\ b.links = server[obs.board.body.workspace].links
      BY <1>1, <1>2, <2>2, BodyOfTyped
    <2> HIDE DEF b
    <2>4. obs' \in Obs
      BY <1>1, <2>1, <2>3, Zenon DEF Obs
    <2>5. /\ obs'.stage = obs.stage /\ obs'.board = obs.board
          /\ obs'.answer = b /\ obs'.digest = obs.digest
      BY <1>1, <2>1 DEF Obs
    <2>6. obs.board.body.links <= b.links
      BY <2>2, <2>3 DEF ClientInv, BodiesWereServed, Served
    <2>7. Served(obs'.answer)
      BY <2>3, <2>5
    <2> QED BY <2>1, <2>2, <2>3, <2>4, <2>5, <2>6, <2>7, ObserveStep
  <1>9. CASE TakeObservations
    <2>1. /\ obs' = IdleObs /\ obs.stage = "board" /\ obs.digest # None
          /\ obs.board # None
          /\ UNCHANGED <<server, access, load, mem, post, more, create>>
      BY <1>1, <1>9 DEF TakeObservations, Observing, PollsKnowTheirBoard
    <2>2. CASE /\ state' \in {state, [state EXCEPT !.notice = TRUE]}
               /\ UNCHANGED digest
      BY <2>1, <2>2, IdleObsTyped, ObserveStep
    <2>3. CASE /\ StillObserving
               /\ SamePlanning(obs.answer.role, obs.answer.revision)
               /\ digest' = DigestSeen(obs.digest)
               /\ state' = IF obs.answer.links = obs.board.body.links
                           THEN state
                           ELSE [state EXCEPT !.board.id = NewId,
                                              !.board.body.links = obs.answer.links]
      <3>1. CASE obs.answer.links # obs.board.body.links
        BY <1>9, <2>3, <3>1, LinksTakenOver
      <3>2. CASE obs.answer.links = obs.board.body.links
        <4>1. state' = state
          BY <2>3, <3>2
        <4>2. obs.digest \in 0..MaxLinks
          BY <1>1, <2>1 DEF Obs
        <4>3. digest' \in [workspace : Workspaces, links : 0..MaxLinks]
          BY <1>2, <2>1, <2>3, <4>2 DEF DigestSeen
        <4>4. TypeOK'
          BY <1>1, <2>1, <4>1, <4>3, IdleObsTyped DEF TypeOK
        <4>5. PollsKnowTheirBoard' /\ PagesFollowBoard'
          BY <2>1, <4>1, IdleObsTyped
             DEF ClientInv, PollsKnowTheirBoard, PagesFollowBoard, Shown
        <4> QED BY <2>1, <4>1, <4>4, <4>5, IdleObsTyped, QuietStep DEF SameFlags
      <3> QED BY <3>1, <3>2
    <2> QED BY <1>9, <2>2, <2>3 DEF TakeObservations
  <1>10. CASE ObserveFails
    BY <1>10, IdleObsTyped, ObserveStep DEF ObserveFails
  <1> QED BY <1>3, <1>4, <1>5, <1>6, <1>7, <1>8, <1>9, <1>10 DEF Observations

-----------------------------------------------------------------------------
(* The poll of the memberships.                                              *)

LEMMA IdleMemTyped == IdleMem \in Mem /\ IdleMem.stage = "idle"
  BY DEF IdleMem, Mem

\* A step of the poll that only touches what the store keeps for the page.
LEMMA PollStep ==
  ASSUME ClientInv, state' \in Store, state'.board = state.board,
         state'.root = state.root, state'.etag = state.etag,
         state'.pages = state.pages, SameFlags(state', state),
         state'.undo = state.undo, mem' \in Mem,
         mem'.stage # "idle" => mem'.board # None,
         UNCHANGED <<server, access, digest, load, obs, post, more, create>>
  PROVE  ClientInv'
  <1>1. TypeOK'
    BY DEF ClientInv, TypeOK
  <1>2. PagesFollowBoard' /\ PollsKnowTheirBoard'
    BY DEF ClientInv, PagesFollowBoard, PollsKnowTheirBoard, Shown
  <1> QED BY <1>1, <1>2, QuietStep

LEMMA MembershipPollsKeep == ASSUME ClientInv, MembershipPolls PROVE ClientInv'
  <1>1. /\ TypeOK /\ state \in Store /\ mem \in Mem
        /\ (mem.stage # "idle" => mem.board # None)
    BY DEF ClientInv, TypeOK, PollsKnowTheirBoard
  <1>2. CASE MembershipTick
    <2>1. /\ state.board # None /\ state' = state
          /\ mem' = [IdleMem EXCEPT !.stage = "asked", !.board = state.board,
                                    !.before = state.workspaces]
          /\ UNCHANGED <<server, access, digest, load, obs, post, more, create>>
      BY <1>2 DEF MembershipTick
    <2>2. state.board \in {None} \cup Board /\ state.workspaces \in Memberships
      BY <1>1 DEF Store
    <2>3. mem' \in Mem
      BY <2>1, <2>2, IdleMemTyped, Zenon DEF Mem
    <2>4. mem'.board # None
      BY <2>1, IdleMemTyped DEF Mem
    <2> QED BY <1>1, <2>1, <2>3, <2>4, PollStep DEF SameFlags
  <1>3. CASE AnswerMembershipPoll
    <2>1. MembershipsNow \in Memberships
      BY <1>1, MembershipsTyped
    <2>2. mem' \in Mem
      BY <1>1, <1>3, <2>1, Zenon DEF AnswerMembershipPoll, Mem
    <2>3. mem'.board # None
      BY <1>1, <1>3 DEF AnswerMembershipPoll, Mem
    <2> QED BY <1>1, <1>3, <2>2, <2>3, PollStep DEF AnswerMembershipPoll, SameFlags
  <1>4. CASE TakeMemberships
    <2> DEFINE s == [state EXCEPT !.workspaces = mem.answer]
               n == s.notice \/ mem.answer # mem.before
    <2>1. s \in Store
      BY <1>1, <1>4, Zenon DEF TakeMemberships, Store
    <2>2. Alike(s, state) /\ SameFlags(s, state)
      BY <1>1 DEF Alike, SameFlags, Store
    <2>3. /\ mem' = IdleMem /\ UNCHANGED <<server, access, digest, load, post, create>>
          /\ \/ state' = s /\ UNCHANGED <<obs, more>>
             \/ /\ ~state.busy /\ ~state.loading
                /\ state' = EnterWorkspaceGate(s, GateFor(mem.answer))
                /\ obs' = Aborted(obs) /\ more' = Aborted(more)
             \/ state' = [s EXCEPT !.notice = n] /\ UNCHANGED <<obs, more>>
      BY <2>1, <1>4 DEF TakeMemberships, Store
    <2>4. n \in BOOLEAN
      BY <2>1 DEF Store
    <2> HIDE DEF s, n
    <2>5. CASE state' = s /\ UNCHANGED <<obs, more>>
      BY <2>1, <2>2, <2>3, <2>5, IdleMemTyped, PollStep DEF Alike
    <2>6. CASE /\ ~state.busy /\ ~state.loading
               /\ state' = EnterWorkspaceGate(s, GateFor(mem.answer))
               /\ obs' = Aborted(obs) /\ more' = Aborted(more)
      <3>1. GateFor(mem.answer) \in Gates
        BY GateForTyped
      <3>2. /\ state' \in Store /\ SameFlags(state', s)
            /\ state'.board = None /\ state'.root = None /\ state'.etag = None
        BY <2>1, <2>6, <3>1, GateEffect
      <3>3. obs' \in Obs /\ more' \in More
        BY <1>1, <2>6, Zenon DEF TypeOK, Aborted, Obs, More
      <3>4. /\ obs'.stage = obs.stage /\ obs'.board = obs.board
            /\ obs'.digest = obs.digest /\ obs'.answer = obs.answer
            /\ more'.stage = more.stage /\ more'.answer = more.answer
            /\ more'.live = (more.stage = "idle")
        BY <1>1, <2>6 DEF TypeOK, Aborted, Obs, More
      <3>5. TypeOK'
        BY <1>1, <2>3, <3>2, <3>3, IdleMemTyped DEF TypeOK
      <3>6. PollsKnowTheirBoard' /\ load.stage = "idle"
        BY <2>3, <2>6, <3>4, IdleMemTyped DEF ClientInv, PollsKnowTheirBoard, Modes
      <3>7. more'.answer # None => more'.stage = "asked" /\ ~more'.live
        BY <3>4 DEF ClientInv, PagesFollowBoard
      <3> QED BY <2>2, <2>3, <2>6, <3>2, <3>4, <3>5, <3>6, <3>7, GateStep
           DEF SameFlags
    <2>7. CASE state' = [s EXCEPT !.notice = n] /\ UNCHANGED <<obs, more>>
      <3>1. state' \in Store
        BY <2>1, <2>4, <2>7, Zenon DEF Store
      <3>2. Alike(state', state) /\ SameFlags(state', state)
        BY <2>1, <2>2, <2>7 DEF Alike, SameFlags, Store
      <3> QED BY <2>3, <2>7, <3>1, <3>2, IdleMemTyped, PollStep DEF Alike
    <2> QED BY <2>3, <2>5, <2>6, <2>7
  <1>5. CASE MembershipFails
    BY <1>1, <1>5, IdleMemTyped, PollStep DEF MembershipFails, SameFlags
  <1> QED BY <1>2, <1>3, <1>4, <1>5 DEF MembershipPolls

-----------------------------------------------------------------------------
(* The theorems.                                                             *)

LEMMA InitHolds == Init => ClientInv
  <1> SUFFICES ASSUME Init PROVE ClientInv
    OBVIOUS
  <1> DEFINE gate == IF access = {} THEN "create" ELSE "select"
  <1>1. /\ server \in [Workspaces -> [revision : 0..MaxRevision,
                                      links : 0..MaxLinks, role : Roles]]
        /\ access \subseteq Workspaces
    BY ClientAssumption DEF Init, Roles, ClientAssumption
  <1>2. MembershipsNow \in Memberships
    BY <1>1 DEF MembershipsNow, Memberships, Seen
  <1>3. state = [InitialState EXCEPT !.gate = gate, !.workspaces = MembershipsNow]
    BY DEF Init
  <1>4. gate \in Gates
    BY DEF Gates
  <1> HIDE DEF gate
  <1>5. state = [board |-> None, root |-> None, gate |-> gate, etag |-> None,
                 busy |-> FALSE, loading |-> FALSE, form |-> FALSE,
                 drag |-> None, dialog |-> None, notice |-> FALSE,
                 workspaces |-> MembershipsNow, undo |-> None,
                 view |-> "board", pages |-> {}, creating |-> FALSE]
    BY <1>3 DEF InitialState
  <1>6. state \in Store
    BY <1>2, <1>4, <1>5 DEF Store, Views
  <1>7. /\ load = IdleLoad /\ obs = IdleObs /\ mem = IdleMem /\ post = IdlePost
        /\ more = IdleMore /\ digest = None
        /\ create = [stage |-> "idle", answer |-> None]
    BY DEF Init
  <1>8. IdleMore \in More /\ IdleMore.answer = None /\ create \in Create
    BY <1>7 DEF IdleMore, More, Create
  <1>9. TypeOK
    BY <1>1, <1>6, <1>7, <1>8, IdleLoadTyped, IdleObsTyped, IdleMemTyped,
       IdlePostTyped DEF TypeOK
  <1>10. ~Shown /\ state.root = None /\ ~state.busy /\ ~state.loading
    BY <1>5 DEF Shown
  <1>11. Modes /\ LoadsFollowRoot /\ BoardFollowsRoot /\ PagesFollowBoard
    BY <1>7, <1>8, <1>10, IdleLoadTyped, IdlePostTyped
       DEF Modes, LoadsFollowRoot, BoardFollowsRoot, PagesFollowBoard
  <1>12. UndoFollowsBoard /\ CommandsFollowBoard /\ PlacementsFollowCommits
    BY <1>7, <1>10, IdleLoadTyped, IdlePostTyped, ClientAssumption
       DEF UndoFollowsBoard, CommandsFollowBoard, PlacementsFollowCommits,
           ClientAssumption
  <1>13. BodiesWereServed /\ PollsKnowTheirBoard /\ ValidatorDescribesBoard
    BY <1>7, <1>10, IdleLoadTyped, IdlePostTyped, IdleObsTyped, IdleMemTyped
       DEF BodiesWereServed, PollsKnowTheirBoard, ValidatorDescribesBoard
  <1> QED BY <1>9, <1>11, <1>12, <1>13 DEF ClientInv

LEMMA StepKeeps == ClientInv /\ [Next]_vars => ClientInv'
  <1>1. ASSUME ClientInv, UNCHANGED vars PROVE ClientInv'
    <2>1. TypeOK' /\ PagesFollowBoard' /\ PollsKnowTheirBoard'
      BY <1>1 DEF ClientInv, vars, TypeOK, PagesFollowBoard, PollsKnowTheirBoard,
                  Shown
    <2> QED BY <1>1, <2>1, QuietStep DEF vars, SameFlags
  <1> QED BY <1>1, LoadsKeep, GateKeeps, PagesKeep, CommandsKeep, PostsKeep,
             ObservationsKeep, MembershipPollsKeep, ElsewhereKeeps DEF Next

LEMMA ClientInvariant == Spec => []ClientInv
  BY InitHolds, StepKeeps, PTL DEF Spec

\* The store and every operation in flight keep the shape the modules give
\* them (state.js:10-42).
THEOREM ClientTyped == Spec => []TypeOK
  <1>1. ClientInv => TypeOK
    BY DEF ClientInv
  <1> QED BY <1>1, ClientInvariant, PTL

\* Board, extra pages, undo offer and every command sent from the page are of
\* one workspace, whatever was in flight when the tab changed workspaces
\* (workspace-session.js:1-4).
THEOREM OneWorkspaceAtATime == Spec => []NothingCrossesWorkspaces
  <1>1. ClientInv => NothingCrossesWorkspaces
    BY DEF ClientInv, NothingCrossesWorkspaces, BoardFollowsRoot,
           PagesFollowBoard, UndoFollowsBoard, CommandsFollowBoard
  <1> QED BY <1>1, ClientInvariant, PTL

\* A conditional read presents the validator of the board that is shown, so a
\* 304 never keeps an older board (sync.js:169-185).
THEOREM NotModifiedIsTrue == Spec => []ValidatorDescribesBoard
  <1>1. ClientInv => ValidatorDescribesBoard
    BY DEF ClientInv
  <1> QED BY <1>1, ClientInvariant, PTL

\* A sequence presents the revisions its own commands made and nobody else's
\* (commands.js:218-222).
THEOREM SequencesOverwriteNobody == Spec => []SequenceKeepsItsRevision
  <1>1. ClientInv => SequenceKeepsItsRevision
    BY DEF ClientInv, CommandsFollowBoard, SequenceKeepsItsRevision
  <1> QED BY <1>1, ClientInvariant, PTL

\* A placement that outlives its save was committed (commands.js:78-83,
\* 130-145).
THEOREM RefusedPlacementsAreTakenBack == Spec => []PlacementsAreCommitted
  <1>1. ClientInv => PlacementsAreCommitted
    BY DEF ClientInv, Modes, PlacementsFollowCommits, Superseded,
           PlacementsAreCommitted
  <1> QED BY <1>1, ClientInvariant, PTL

-----------------------------------------------------------------------------
(* What a step does to the board while the user is at work.                  *)

\* A workspace that is chosen shows no board until it is loaded.
LEMMA ChooseHides ==
  ASSUME ClientInv, NEW s \in Store, ~s.busy, NEW w \in Workspaces,
         NEW kind \in {"choose", "create"},
         ChooseWorkspace(s, w, Thereafter(kind, None))
  PROVE  state'.board = None
  <1>1. Thereafter(kind, None) \in Then
    BY ThereafterTyped
  <1> QED BY <1>1, ChooseEffect DEF ClientInv

LEMMA WorkIsLeftAlone ==
  ASSUME ClientInv, Next, ~state.loading, AtWork(state), Shown,
         state'.board # None
  PROVE  state'.board.body = state.board.body
  <1>1. TypeOK /\ state \in Store /\ post \in Post
    BY DEF ClientInv, TypeOK
  <1>2. state.board \in Board
    BY <1>1 DEF Store, Shown
  <1>3. ~(PageIsLive /\ ~state.busy)
    BY DEF PageIsLive, AtWork
  <1>4. CASE Loads
    <2>1. load.stage = "idle"
      BY DEF ClientInv, Modes
    <2> QED BY <1>4, <2>1
         DEF Loads, AnswerMemberships, LoadMemberships, AnswerBoard, LoadBoard,
             LoadPage, LoadFails, GateMemberships, Loading
  <1>5. CASE Gate
    <2>1. CASE CreateFails
      <3>1. state' = Resume(state, FALSE, Thereafter("create", None))
        BY <2>1 DEF CreateFails
      <3>2. /\ Thereafter("create", None) \in Then
            /\ Thereafter("create", None).kind = "create"
        BY ThereafterTyped
      <3> QED BY <1>1, <3>1, <3>2, ResumeEffect
    <2>2. ASSUME NEW w \in Workspaces, ApplyHistoryNavigation(w)
          PROVE  state'.board = None
      BY <1>1, <2>2, ChooseHides DEF ApplyHistoryNavigation, MayChoose
    <2>3. CASE OpenCreated
      <3> DEFINE s == [state EXCEPT !.workspaces = MembershipsNow]
      <3>1. s \in Store
        BY <1>1, MembershipsTyped, Zenon DEF Store
      <3>2. ~s.busy /\ create.answer \in Workspaces
        BY <1>1, <2>3 DEF OpenCreated, Store, TypeOK
      <3>3. ChooseWorkspace(s, create.answer, Thereafter("create", None))
        BY <2>3 DEF OpenCreated
      <3> HIDE DEF s
      <3> QED BY <3>1, <3>2, <3>3, ChooseHides
    <2>4. CASE AnswerCreate \/ ListCreated
      BY <2>4 DEF AnswerCreate, ListCreated
    <2> QED BY <1>3, <1>5, <2>1, <2>2, <2>3, <2>4
         DEF Gate, RefreshWorkspace, RefreshWorkspaceGate, Choose, MayChoose,
             ShowWorkspaceSelection, ShowWorkspaceCreate, CreateWorkspace,
             InteractionBlocked
  <1>6. CASE Pages
    BY <1>1, <1>3, <1>6
       DEF Pages, Navigate, LoadOlder, AnswerPage, TakePage, PageFails,
           InteractionBlocked, Store
  <1>7. CASE Commands
    <2>1. CASE Drop
      <3> DEFINE s == [state EXCEPT !.drag = None]
      <3>1. s \in Store
        BY <1>1, Zenon DEF Store
      <3>2. s.board = state.board
        BY <1>1 DEF Store
      <3>3. state' = [s EXCEPT !.busy = TRUE,
                               !.board = [s.board EXCEPT !.id = NewId,
                                                         !.placed = TRUE]]
        BY <2>1 DEF Drop, Quick
      <3> HIDE DEF s
      <3> QED BY <1>2, <3>1, <3>2, <3>3 DEF Store, Board
    <2>2. CASE SubmitBulk
      <3> DEFINE s == [state EXCEPT !.dialog = None]
      <3>1. s \in Store
        BY <1>1, Zenon DEF Store
      <3>2. s.board = state.board
        BY <1>1 DEF Store
      <3>3. state' = [s EXCEPT !.busy = TRUE]
        BY <2>2 DEF SubmitBulk, RunSequence
      <3> HIDE DEF s
      <3> QED BY <3>1, <3>2, <3>3 DEF Store
    <2>3. CASE RejectProposal
      <3>1. Refresh(state, None, Thereafter("reject", None))
        BY <2>3 DEF RejectProposal
      <3>2. /\ Thereafter("reject", None) \in Then
            /\ Thereafter("reject", None).kind = "reject"
        BY ThereafterTyped
      <3> QED BY <1>1, <3>1, <3>2, RefreshEffect
    <2>4. CASE \/ EndDrag \/ UndoExpires \/ CloseEditor \/ SubmitCommand
               \/ CancelIntegration
      BY <1>1, <2>4 DEF EndDrag, UndoExpires, CloseEditor, SubmitCommand,
                        CancelIntegration, Store
    <2> QED BY <1>3, <1>7, <2>1, <2>2, <2>3, <2>4
         DEF Commands, SaveQuickly, StartDrag, RunUndo, OpenDialog,
             EditIntegration, SubmitIntegration, CanWrite, InteractionBlocked
  <1>8. CASE Posts
    <2>1. ASSUME NEW preloaded \in {None} \cup Body,
                 NEW kind \in {"quick", "dialog", "form", "batch"},
                 NEW undo \in {None} \cup Undo,
                 Refresh([state EXCEPT !.busy = FALSE], preloaded,
                         Thereafter(kind, undo))
          PROVE  state'.board = state.board
      <3> DEFINE s == [state EXCEPT !.busy = FALSE]
      <3>1. s \in Store
        BY <1>1, Zenon DEF Store
      <3>2. s.board = state.board
        BY <1>1 DEF Store
      <3>3. Thereafter(kind, undo) \in Then /\ Thereafter(kind, undo).kind = kind
        BY ThereafterTyped
      <3>4. Refresh(s, preloaded, Thereafter(kind, undo))
        BY <2>1
      <3> HIDE DEF s
      <3>5. Thereafter(kind, undo).kind # "create"
        BY <3>3
      <3> QED BY <3>1, <3>2, <3>3, <3>4, <3>5, RefreshEffect
    <2>2. CASE ChangeSaved
      <3>1. /\ post.board \in {None} \cup Body /\ post.undo \in {None} \cup Undo
            /\ post.from \in {"quick", "dialog", "form", "batch"}
        BY <1>1 DEF Post
      <3> QED BY <2>1, <2>2, <3>1 DEF ChangeSaved
    <2>3. CASE SequenceFailed
      BY <2>1, <2>3 DEF SequenceFailed
    <2>4. CASE ChangeFailed
      <3>1. state'.board = Rollback(state.board)
        BY <1>1, <2>4 DEF ChangeFailed, Store
      <3> QED BY <3>1 DEF Rollback, ClientInv, PlacementsFollowCommits
    <2> QED BY <1>8, <2>2, <2>3, <2>4
         DEF Posts, Commit, Acknowledge, LoseChange, NextCommand
  <1>9. CASE Observations
    <2>1. ~StillObserving
      BY DEF StillObserving, PollBlocked, AtWork
    <2> QED BY <1>1, <1>9, <2>1
         DEF Observations, ObserveTick, AnswerRole, AnswerRevision, AnswerDigest,
             TakeRevision, AnswerObservedBoard, TakeObservations, ObserveFails
  <1>10. CASE MembershipPolls
    <2>1. CASE TakeMemberships
      <3> DEFINE s == [state EXCEPT !.workspaces = mem.answer]
                 n == s.notice \/ mem.answer # mem.before
      <3>1. s \in Store
        BY <1>1, <2>1, Zenon DEF TakeMemberships, Store
      <3>2. s.board = state.board
        BY <1>1 DEF Store
      <3>3. \/ state' = s
            \/ state' = EnterWorkspaceGate(s, GateFor(mem.answer))
            \/ state' = [s EXCEPT !.notice = n]
        BY <2>1, <3>1 DEF TakeMemberships, Store
      <3>4. EnterWorkspaceGate(s, GateFor(mem.answer)).board = None
        BY <3>1, GateForTyped, GateEffect
      <3> HIDE DEF s, n
      <3> QED BY <3>1, <3>2, <3>3, <3>4 DEF Store
    <2> QED BY <1>10, <2>1
         DEF MembershipPolls, MembershipTick, AnswerMembershipPoll, MembershipFails
  <1>11. CASE Elsewhere
    BY <1>11 DEF Elsewhere, ElsewhereChanges, SetMember, ElsewhereObserves
  <1> QED BY <1>4, <1>5, <1>6, <1>7, <1>8, <1>9, <1>10, <1>11 DEF Next

\* Polls leave the board alone while the user has a dialog open, drags a card
\* or waits for a save (sync.js:225-229).
THEOREM WorkIsNotDisturbed == Spec => NothingMovesUnderWork
  <1> DEFINE A == /\ AtWork(state) /\ AtWork(state') /\ ~state.loading
                  /\ Shown /\ state'.board # None
  <1>1. ClientInv /\ [Next]_vars =>
          [A => state'.board.body = state.board.body]_vars
    BY WorkIsLeftAlone
  <1> QED BY <1>1, ClientInvariant, PTL DEF Spec, NothingMovesUnderWork

=============================================================================
