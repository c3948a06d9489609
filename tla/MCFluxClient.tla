---------------------------- MODULE MCFluxClient ----------------------------
(***************************************************************************)
(* Small instances of FluxClient for TLC.  The safety run explores eight   *)
(* stories, each a set of states that starts from the initial one.         *)
(***************************************************************************)
EXTENDS FluxClient, TLC

CONSTANTS w1, w2

\* States 0 and 1 are observations of the same links; 2 is another link.
MCLinkIdentity == [v \in 0..MaxLinks |-> v \div 2]
MCSymmetry == Permutations(Workspaces)

-----------------------------------------------------------------------------
OneWorkspace ==
  access \subseteq {w1} /\ server[w2] = [revision |-> 0, links |-> 0, role |-> "member"]
NoPolls == obs = IdleObs /\ mem = IdleMem
NoPages == state.view = "board"
NoCreation == create.stage = "idle"
NoForm == ~state.form
NoSequence == post.from # "batch" /\ state.undo = None
NoBulk == state.dialog # None => state.dialog.kind = "command"
NoDialog == state.dialog = None

\* Observations while the role changes, with loads but no work.
RolesPolled ==
  /\ OneWorkspace /\ access = {w1}
  /\ mem = IdleMem /\ NoPages /\ NoCreation /\ NoForm /\ NoDialog /\ NoSequence
  /\ state.drag = None /\ post = IdlePost /\ (load = IdleLoad \/ obs = IdleObs)
  /\ server[w1].links = 0 /\ server[w1].revision <= 1

\* The user is a member everywhere, and nothing on its way says otherwise.
StillMember ==
  /\ \A w \in Workspaces :
       /\ server[w].role = "member"
       /\ state.workspaces[w] # None => state.workspaces[w].role = "member"
  /\ \A b \in {state.board, obs.board} : b # None => b.body.role = "member"
  /\ \A known \in {state.etag, obs.answer} : known # None => known.role = "member"
  /\ obs.role # "viewer"

\* Observations against loads, saves, drags and dialogs of one workspace.
LinksPolled ==
  /\ OneWorkspace /\ access = {w1} /\ StillMember
  /\ mem = IdleMem /\ NoPages /\ NoCreation /\ NoForm /\ NoSequence /\ NoBulk
  /\ server[w1].revision + server[w1].links <= IF AtWork(state) THEN 1 ELSE 2

\* Both polls of one workspace, whose links do not change.
Polling ==
  /\ OneWorkspace /\ NoPages /\ NoCreation /\ NoForm /\ NoSequence
  /\ server[w1].links = 0 /\ server[w1].revision <= 1
  /\ (load = IdleLoad \/ obs = IdleObs \/ mem = IdleMem)
  /\ state.drag = None /\ NoDialog /\ post = IdlePost /\ StillMember

\* Two workspaces: gates, popstate and access that goes, with a poll in flight.
Quiet == NoPages /\ NoForm /\ NoSequence /\ NoBulk /\ state.drag = None
LeavingObserved ==
  /\ w2 \in access
  /\ Quiet /\ NoCreation /\ NoDialog /\ mem = IdleMem /\ post = IdlePost
  /\ StillMember
  /\ server[w1].revision + server[w1].links <= 1
  /\ server[w2].revision = 0 /\ server[w2].links = 0
LeavingPolled ==
  /\ w2 \in access
  /\ Quiet /\ NoCreation /\ obs = IdleObs /\ NoDialog
  /\ StillMember /\ \A w \in Workspaces : server[w].links = 0
  /\ server[w1].revision <= 1 /\ server[w2].revision = 0
\* Workspaces created while the gate's other ways in stay open.
Creating ==
  /\ Quiet /\ NoPolls /\ NoDialog
  /\ StillMember /\ \A w \in Workspaces : server[w].links = 0
  /\ server[w1].revision <= 1 /\ server[w2].revision = 0

\* Saves, sequences, undo, forms and dialogs, between two workspaces.
Writing ==
  /\ NoPolls /\ NoPages /\ NoCreation /\ w2 \in access
  /\ \A w \in Workspaces : server[w].links = 0
  /\ server[w2].revision = 0
  /\ \A w \in Workspaces : server[w].role = "viewer" => server[w].revision = 1

\* Pages read while the user moves between views and workspaces.
Paging ==
  /\ access = Workspaces
  /\ NoPolls /\ NoForm /\ NoSequence /\ NoCreation /\ NoDialog
  /\ state.drag = None /\ post = IdlePost
  /\ StillMember /\ \A w \in Workspaces : server[w].links = 0
  /\ server[w1].revision <= 1 /\ server[w2].revision = 0

Stories == \/ RolesPolled \/ LinksPolled \/ Polling \/ LeavingObserved \/ LeavingPolled
           \/ Creating \/ Writing \/ Paging

\* For liveness: one tab that stays on one workspace, its loads, its polls and
\* a dialog that may hold them up, while others change the workspace or take
\* it away.  At most two of the load and the two polls are in flight.
WatchNext ==
  /\ \/ Loads \/ Observations \/ MembershipPolls \/ Elsewhere
     \/ RefreshWorkspace \/ (\E w \in Workspaces : Choose(w))
     \/ OpenDialog("command") \/ CloseEditor
  /\ access' \subseteq access
  /\ 1 \in {IF op.stage = "idle" THEN 1 ELSE 0 : op \in {load', obs', mem'}}
  /\ \A w \in Workspaces : server'[w].role = "member"
Watching == Init /\ [][WatchNext]_vars /\ Fairness
=============================================================================
