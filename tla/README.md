# Flux in TLA+

A verification project for Flux, a planning tool: a Go server over PostgreSQL
and a blob store, with a browser client. The modules here model the parts that
can go wrong in ways a unit test hardly reaches. On the server: the rules of
the board, the transactions that change it, the attachments that live in two
stores at once, and the cache of GitLab observations. In the browser: how a tab
loads, polls and leaves a workspace and sends commands, the card that is open
with its comments, files and form, and what the tab shows of a board and under
which address. TLC checks small instances; TLAPS proves the safety
properties of the server and of the browser for instances of any size.

All paths below are relative to the repository root (`src/` in
PROJECT.json).

## 1. The system

| component | state it keeps | operations | talks to |
|---|---|---|---|
| planning model (`internal/planning/model.go`) | one workspace: items in rank order, columns, projects, labels, members, sprints with their preserved scopes | `Apply` of some 30 commands on a copy, then `Validate` | called by change transactions |
| change transactions (`internal/store/postgres.go`, endpoint in `internal/planning/http.go`) | `workspaces.revision`, memberships, `idempotency_keys`, events | `Store.Change`, `SetMember`, the reply of the changes endpoint | PostgreSQL row locks; planning model |
| comments (`internal/store/comments.go`) | `item_comments` | `AddComment`, listing | membership row and, through a foreign key, the workspace row |
| attachments (`internal/store/attachments.go`, `cleanup.go`, `cmd/flux/blob_cleanup.go`, `internal/blobstore`) | `item_attachments`, `attachment_cleanup`, bytes in the blob store | upload, download, remove, reconcile, claim, delete | blob store outside any transaction; several flux processes |
| GitLab observations (`internal/store/integration.go`, `refresh.go`) | approved projects and instance per workspace, `external_links`, `integration_runs` | save approvals, attach, detach, refresh on demand and in the background | GitLab, read between two transactions |
| GitLab webhooks (`internal/integration/webhook.go`, `internal/store/webhook.go`) | `webhook_deliveries` | `EnqueueWebhook` over the workspaces concerned | sets the hint of links |
| proposals (`internal/planning/proposal.go`, `internal/store/proposal.go`) | imported proposals and their sources | import, preview, accept, reject | change transactions |
| burn-down and velocity (`internal/planning/burndown.go`) | none: computed from dated snapshots | `burndownCounts`, series | snapshots, closures |
| workspace creation, bootstrap, migrations | schema, first administrator | create, seed, `Migrate` | PostgreSQL |
| freshness, archive, snapshots, retention, read models | none beyond what they read | paged reads, one bounded delete | PostgreSQL |
| sign-in (`internal/auth`) | OAuth state, sessions, machine tokens | round trip with GitLab, verification | GitLab |
| browser: loading and polling (`static/modules/sync.js`, `page-data.js`, `store.js`, `workspace-session.js`, `actions.js`) | the board shown with its validator, the digest of its observations, loads and polls in flight | load, poll, switch, create and leave a workspace, read pages | revision, board and membership reads |
| browser: commands (`commands.js`, `bulk.js`, `drag.js`, `card-menu.js`) | optimistic placements, the undo offer, sequences of commands | send, roll back, retry, undo, drop | changes endpoint |
| browser: card (`item-comments.js`, `item-attachments.js`, `item-editor.js`, `item-detail.js`, `item-links.js`, `dialog.js`) | pages of comments, a list of files, a form with unsaved input, keys of attempts | read, send, upload, remove, save, add links, discard | comments, attachments and changes endpoints |
| browser: views and navigation (`url-state.js`, `actions.js`, `filters.js`, `view-board.js`, `view-list.js`, `view-sprints.js`) | presentation, scope, filters, search, ticked cards, the open card, the history of the tab | filter, search, tick, open, Back, Forward | the board loaded |
| browser: presentation; server process | nothing of their own | rendering; wiring, flags | |

How they interact. A browser sends a command with an Idempotency-Key and the
revision it saw; a handler locks the workspace row, re-reads the board, applies
the command to a copy, writes the difference and answers with a board read after
the commit. Uploads, GitLab reads and the browser's own loads leave the
transaction: state is read, something slow happens, and the state is
used afterwards. Most of what is hard is there.

**Hard behaviours** (each at its line in PROJECT.json, `hazards`): writers that
wait for a row and act on what they read before; retries of a call that is still
running; commits whose answer is lost; crashes between a row and its bytes or
between reserving a read and storing its answer; answers that arrive after they
were superseded or revoked; deliveries repeated, lost, or half done;
long command sequences (close, reopen, archive, restore, rename) after which
the board must still be consistent and savable; limits at their boundary. In the
browser: every `await` lets other handlers run, so what was read before it may be
of another board, another workspace or another card; unsaved input meets every
way out of the page; caches and selections outlive what they were made from.

**What makes each component correct**

* planning model: the board is well formed after any accepted commands; scopes,
  closures and memberships of sprints agree; history of closed sprints does not
  change; an administrator remains; limits hold; no accepted history blocks
  later commands; a stored row never changes without a new revision.
* change transactions: no update is lost; a key is used once; answers are true;
  what was read is still true at commit; the whole endpoint is a serial ledger.
* comments: visible only if the author might write when they were stored; they
  and planning changes never leave each other waiting.
* attachments: a listed attachment has its bytes; bytes nobody lists are tracked
  and finally deleted; a retried upload stores one attachment.
* observations: what is cached comes from what the workspace approved; a
  superseded answer changes nothing; a hint survives a read that is under
  way; polling repairs what hooks miss; newer entries are not replaced.
* browser, loading: nothing of a workspace left is shown or sent; the validator
  sent is that of the board shown; polls move nothing under work; changes made
  elsewhere are noticed.
* browser, commands: a placement shown was committed; a sequence never goes over
  another member's change; the order guessed is the one the server arrives at,
  undo puts cards back, drops land where they were dropped.
* browser, card: nothing is stored twice; comments shown have no gap; what was
  saved is what the form showed; unsaved input is not lost.
* browser, views: the address names what is shown, Back and Forward restore it;
  the cards shown, ticked and counted are those of the filters.

## 2. Modules

| module | models | proofs |
|---|---|---|
| `FluxBoard` | `Apply`, `Validate`, the closure summaries | `FluxBoardProofs` |
| `FluxSave` | the statements by which `save()` stores a command, against the foreign keys; extends `FluxBoard` | `FluxBoardProofs` |
| `FluxLedger` | what the changes endpoint promises: a serial ledger of accepted requests | |
| `FluxChange` | `Store.Change`, `SetMember`, `AddComment`, the endpoint's replies, with row locks; implements `FluxLedger` | `FluxChangeProofs` |
| `FluxShelf` | what the attachment endpoints promise: a shelf of files | |
| `FluxAttachments` | upload, download, remove, cleanup workers, blob store; implements `FluxShelf` | `FluxAttachmentsProofs` |
| `FluxRefresh` | approvals, links, refresh attempts, GitLab, webhooks | `FluxRefreshProofs` |
| `FluxClient` | loads, polls, sends, the gate and the dialogs of one tab, with the server as a few numbers | `FluxClientProofs` |
| `FluxComments` | the comments of a card in one tab and on the server | `FluxCardProofs` |
| `FluxFiles` | the attachments of a card in one tab and on the server | `FluxCardProofs` |
| `FluxEditor` | the form of a card, the dialogs over it, the save chain | `FluxEditorProofs` |
| `FluxCard` | the dialog of a card: the three modules above, of which a behaviour lets one run | `FluxCardProofs` |
| `FluxSequences` | `Array.filter` by counting positions; no state | |
| `FluxLens` | filters, scopes, addresses as functions of a board; no state | |
| `FluxNavigation` | the open card, the address and the history; extends `FluxLens` | `FluxViewsProofs` |
| `FluxList` | cards shown, searched and ticked; extends `FluxLens` | `FluxViewsProofs` |
| `FluxPlacement` | moves, orders and archiving: the server's rule, the browser's guess and its inverse | `FluxViewsProofs` |
| `FluxViews` | what a tab shows of a board: the three modules above, of which a behaviour lets one run | `FluxViewsProofs` |
| `MCFlux*` | small values, stories, symmetry and views for TLC | |

The four models compose by assumption and guarantee rather than in one
state space. `FluxChange` knows of a command its sender, key, base revision and
whether it changes a role, and shows that commands take effect one after
the other; that is what lets `FluxBoard` treat a command as one action, and
`FluxAttachments` and `FluxRefresh` a transaction on a locked workspace row as
one. `FluxLedger` is the interface between the two. The modules of the browser
take the server as that ledger shows it: a command is applied at once and for
good, or not, and its answer may be lost. `FluxClient` in turn shows what the
other modules of the browser assume: the board shown is of the workspace shown
and no poll moves it under an open dialog, a drag or a save.

### FluxBoard

State: `items` (the rank order) with `item`, `archived`, `columns` and
`column`, `projects`, `labels`, `members`, `sprint`, `closedScope` (rows of
`closed_sprint_scope`), `closure` (rows of `sprint_closures`,
with the sets that were counted instead of their sizes), and `bumped`, the rows
whose `revision` column the last command advanced. The code works on a copy
that it throws away when a check fails; so each command's checks are its
guard, and its last conjunct is `Validate'`. `SprintClose` includes the summary
that `Store.Change` writes in the same transaction. Titles, dates, estimates and
colours are left out. The dependency check of the code is a depth-first search;
here is its definition, "no set of items is without an exit". What a client may
send of an item is cut to what is on the board (`OnBoard`), since `Validate`
refuses the rest. The revision of a single item that an editor sends along is left
to `FluxChange`'s base revision.

`Accepted` is `Validate` with the items, archive, labels and sprints as arguments,
so that `NeverWedged` can ask of a command what `Validate` would say of its result
without taking the step: the effects of the commands that take work away
(`Released`, `Unplanned`, `Relabelled`) are operators shared by the actions and the
invariant.

### FluxSave

`Tables` is the database a board is stored as: rows by primary key, associations as
pairs. `Order` lists the statements of `Store.Change` and `save()` as thirteen
phases, and `Database(old, new, done)` is the database after some of them: a table
keeps the rows of the old board, loses and gains those in which the two boards
differ. `References` are the foreign keys and checks of the schema, which PostgreSQL
looks at after every statement. A phase stands for the statements on the rows of one
table (or of the four association tables); they may come one row at a time,
but no reference leads from one table of a phase to another, so the databases
between the phases tell all. There are no new states: the property is about the pair
of boards of each step of `FluxBoard`. Rows of links, approvals and events are not
part of it.

### FluxChange and FluxLedger

A handler moves `idle` -> `begun` -> `locked`/`shared` -> `write` -> `ready` ->
`committed` -> `done`, in the order in which the code takes locks and reads rows.
Lock conflicts are PostgreSQL's: `FOR UPDATE` on the workspace, `FOR SHARE` and
writes on membership rows, and the `FOR KEY SHARE` that the foreign key of a
comment takes. A handler may crash, time out, be aborted as the victim of a
deadlock, or lose its reply at every step. `receipts` stands for
`idempotency_keys` and the event rows written with them. The refinement maps
`receipts` to `FluxLedger`'s `applied`.

### FluxAttachments

`meta` and `row` are the two tables, `blobs` and `temporary` the file system,
`batch` what each worker claimed. `row` keeps the state of an
`attachment_cleanup` row together with what time did to it: a reservation
within and past its grace period, a deletion due, or leased and backing off.
`AckMayBeLost` is the set of uploads whose commit may take effect and be reported
as failed: their own bytes may go (see below), and the safety properties speak
of everything else that happens to the same keys, handlers and workers.

`FluxShelf` has none of this. A file is listed or it is not; an upload is on its way
(`Sending`) until it is listed, replayed or given up; a download (`Reading`) is
answered with the bytes unless the file was removed meanwhile or is one of
`AckMayBeLost`. Bytes, reservations, deadlines and workers are steps that do not
show.

### FluxRefresh

A call of `refresh` is three actions: `Reserve` in the first transaction,
`Answer` from GitLab, `Finish` in the second; `Abandon` ends it anywhere. A
webhook lists workspaces (`Receive`) and then commits one at a time
(`EnqueueWorkspace`), answering 202 or 503. `history` is GitLab's own: each
merge request's states with the stamps the code compares. `begun` and `late`
are history variables for the properties. A delivery about a
merge request and one about its project are the two shapes of hook
the parser accepts. `next_refresh` is `cooling`, `poll_after` is `due`.

### FluxClient

JavaScript runs one task at a time, so an action is the code between two awaits,
and what an async function holds over an await is a record: `load` (`refresh`
and its loads), `obs` (`pollObservations`), `mem` (`pollMembership`), `post`
(`change`, `runSequence`), `more` (a page read outside a load), `create`.
`state` has the fields of the store these functions read. `live` says that the
`AbortSignal` of the function has not fired. A board is its revision, the state
of its links and the role of the reader, with an identity of its own, since the
code compares objects after an await; `placed` marks an optimistic placement.
The server is, per workspace, a revision, a state of the links and a role, which
others change at any time; the three statements of `state.go` are three steps.
`SetMember` is the operator's, which changes a role without a revision.
`Thereafter` is what the caller of `refresh` does when it returns. A dialog
sends a command of the revision it was opened at; a sequence sends each command
at the revision of the receipt before. Actions named for what others do
(`ElsewhereChanges`) are theirs.

### FluxComments, FluxFiles, FluxEditor

One card in one tab. `FluxComments` has the reducer's state (`panel`), the page
request of `useRequest` (`read`) and the mutation (`write`); ids are places in
the server's list. The composer takes one of a few texts, any number of times;
`attempt` is `pending.current`, the text and key of the last attempt alone, and
`since.sent` records the attempts in their order for `SentOnce`. A request whose
caller gave up, or whose panel is closed, may still be stored (`StoreLate`).
`FluxFiles` has the list per board generation, the loads by generation, uploads
by drop and in the panel, a removal, and the keys that `uploadRequestKey` keeps;
abortion by closing the panel, by leaving the workspace and by coming back.
`FluxEditor` has the form shown (`editor`), a dialog opened from it (`over`) and
the chain of commands under way (`job`): text first, then each link that
differs, each with its refresh, and what is closed at the end. `SaveGoesOn`
stops the pane after an `item.update` whose refresh failed, and only there: the
modal goes on, and `reconcileItemLinks` goes on in both, with whatever board is
shown, up to the last link, after which the form closes as saved. Keys of
attempts (`applied`) show whether the server has seen a command before.

### FluxLens, FluxNavigation, FluxList, FluxPlacement

`FluxLens` translates the rules of filter values, scopes and addresses as
operators on boards. `FluxNavigation` is the tab as a function of handlers: an
action is a handler and the layout effects that follow its render (the dialog
host, then the one writer of addresses, replacing or pushing an entry); reads
of cards that are not on the board end later. `busy` is the flag of `change` and
`runSequence`, set and cleared at any time: while it is set nothing opens, closes
or replaces a pane, an editor cannot be cancelled, and Back leaves it open
(`LeftFor`). `FluxList` has the search index
with its generations, the cards rendered, and the selection that an effect of a
later task prunes. `FluxPlacement` has both sides of a placement: `AppliedTo` is
the server (`model.go`) over all cards, `Guess` and `UndoableInverse` the browser
over `Payload`, the cards `BrowserBoard` sends. `InView` are the cards
`computeFilteredItems` leaves: those that are live, or with the scope of a closed sprint
chosen (`closed`) the cards of that scope, the archived ones too. Its properties quantify over every
command that can be sent from every board. `Only` of `FluxSequences` keeps the
elements of a set in their order; the library's `SelectSeq` is recursive over an
operator, and a proof cannot open it.

## 3. Runs

A run takes between a few seconds and four minutes with two workers. Bounds are small
because each hazard needs few actors; they are named in the cfg files. The larger
safety runs explore several *stories*: the `CONSTRAINT` is a disjunction of
named sets of states in the MC module, each starting from the initial state and
each populating what one group of hazards needs, so that not everything has to
be populated at once. A command that leaves every story is still taken, and action
properties are checked of it; what it leads to is not explored.

| run | what it shows | stories and bounds, and why they are enough |
|---|---|---|
| board_sprints | `ClosureMatchesScope`, `LiveWorkWithinLimits`, `ClosedHistoryFrozen`, `ReopenRestoresScope` | `TwoSprints`: 2 items and 2 sprints, since carrying over needs a second sprint, and one item done and one not is every case of a summary. `ItemsAtLimit`, `SprintsAtLimit`: 3 rows under a limit of 2, the boundary and one past it. `MaxDependencies` is 0 |
| board_content | `NeverWedged`, `RevisionsAdvance`, `SaveKeepsReferences` | `Content`: 2 items and 2 labels that change, move, depend on each other and disappear; the column for finished work stays one. `Mixed`: 1 item with everything it can refer to, in the columns as created. Between them every foreign key has rows on both ends, and labels, columns and people are dropped under them. WIP limits are 0 and 1. `People`: 2 administrators who demote and remove each other while columns are moved, deleted and created again |
| change_safety | `NoLostUpdate`, `KeyUsedOnce`, `TruthfulReplies`, `LedgerSpec` | `RetryRequests`: 3 handlers, a call, its retry, and another member's. `RoleRequests`: 2 handlers with every mixture of member commands, operator changes and planning. `BobDemoted`: 3 handlers, comment, demotion, operator |
| change_liveness | `RequestsAnswered` | 2 handlers, the length of the only lock cycle there is |
| attachments | `NoDanglingMetadata`, `NoUntrackedBlob`, `ShelfSpec`, `OrphansCollected` | 2 keys, 2 handlers, 1 worker: every race here is between two of them over one key; a file and another one under the same idempotency key, of which the second's commit may be reported as failed |
| refresh_safety | `PendingRunsAreCurrent`, `AcceptedHintsAreHonoured`, `NewerEntriesStay` | `Races`: 2 attempts, 2 identifiers so that a link can be removed and registered again, 2 instances. `Linking`: 2 merge requests of 2 projects and 2 items. `Hinting`: 1 delivery and 2 workspaces, one of which reads: a failure between the two is the case that matters; what a read brings has no part in it, so reads fail. `ThreeVersions`: GitLab goes through 3 states by edits, pushes and pipeline progress, read by 2 attempts |
| refresh_liveness | `ChangesAreObserved` | 1 link, 2 attempts, 2 states, no hook at all |
| client_sync | `TypeOK`, `NothingCrossesWorkspaces`, `ValidatorDescribesBoard`, `NothingMovesUnderWork`, `SequenceKeepsItsRevision`, `PlacementsAreCommitted` | 2 workspaces, 2 changes of each, 3 states of their links (two of the same links, one of others), sequences of 2 commands. `RolesPolled`: the three reads of a poll while the role changes between them, with and without a revision, against loads. In the other stories but `Writing` nothing says that the user is anything but a member. `LinksPolled`: the poll of observations against loads, saves, drags and dialogs. `Polling`: both polls of one workspace. `LeavingObserved`, `LeavingPolled`: one poll in flight while the user goes to another workspace or loses access. `Creating`: creation against the gate's other ways in. `Writing`: saves, sequences, undo, forms and dialogs across two workspaces. `Paging`: pages across views and workspaces |
| client_noticed | `ChangesAreNoticed` | 1 workspace, 1 change and 3 states of its links, a dialog that may hold polls up. At most two of the load and the two polls are in flight at once. The role stays: an operator who takes a role away and gives it back while a poll is read makes no revision and leaves nothing to notice; `RolesPolled` has the safety of it |
| card | `SentOnce`, `CommentsAreContiguous`, `ListFitsBoard`, `RetryIsRecognised`, `SavedAsShown`, `LinksBringInputBack` | the three modules of a card, one at a time. Comments: 5 stored, pages of 2, so that there are three pages; 2 texts, any of them typed again, 3 attempts (a text, another, and the first again) and 2 openings. Files: 2 files, 2 ids and keys, a limit of 2, two boards, two requests at a time. Form: 2 texts, 2 links, one of which another card holds, 3 revisions, 2 openings, 2 keys; `FormBound` says which of these do not meet |
| views | `AddressIsShown`, `TraversalRestores`, `ShownIsCurrent`, `SelectionIsShown`, `CountsMatchTheView`, `PayloadSuffices`, `DropsLand` | the three modules of the views, one at a time. Address: 2 boards, the second with everything of the first gone, 4 addresses the tab is opened with, histories of 3 entries, one change of view, changes being saved at any time. List: 3 boards (a name changed, a sprint closed), one card moved or archived behind the browser, one search word, one refresh. Placement: 3 cards and 2 columns in every order, every subset archived and every subset hidden, a chain of dependencies, 2 cards in the scope of a closed sprint, which is shown or not |

`client_noticed` and `card` may stop (every bound reached and nothing in flight),
so their cfgs do not check for deadlock.

`Runs`, `Ids`, `Keys` and `MaxVersion` bound what the program may do without
end. Numbers of runs are taken again when nothing refers to them any more, so
`Runs` bounds only how many exist at once; identifiers of links are never
taken again, because the code draws them at random.

### What the code does not do

**attachments_lost_ack** shows that a comment is not true of the code: if the
commit of `AddAttachment` takes effect but is reported as failed, the handler
deletes the bytes of an attachment that is listed (`http.go:662`), although
`attachments.go:266` says that a referenced object cannot look like an orphan.
`attachments` shows that only the bytes of such an upload are in danger.

Other disagreements met while modelling are in the models, but have no run:

* Inserting a comment waits for a planning change, through the foreign key to the
  workspace row, and takes its locks in the other order (`comments.go:84` and
  `postgres.go:818` say otherwise). The two can deadlock; PostgreSQL aborts one,
  and `change_liveness` shows that requests are answered.
* A crash while `Put` writes leaves a temporary file that no key leads to
  (`blobstore.go:241`; README.md:176 says such writes remain discoverable).
* After a new pipeline for the same head was cached, an answer that still names
  the previous one replaces it (`integration.go:264`;
  docs/design/gitlab-observations.md:19). `NewerEntriesStay` excepts it.
* Back and Forward close a modal editor with unsaved input without asking
  (`actions.js:416`; `item-editor.js:598` says that it is never lost silently).
  `Back` of `FluxEditor` does so.
* `result.refreshed` is looked at only by the pane, and only after `item.update`
  (`item-detail.js:97`, whose message says that a refresh is needed before
  continuing). The modal goes on to the links without it, and
  `reconcileItemLinks` goes on in both, against a board that may be stale, and the
  form closes with "Changes saved.". What such a chain sends is still what the form
  shows, but a link that an earlier attempt attached or detached, and whose answer
  was lost, is one the stale board does not know of and may be left. `SavedAsShown`
  claims the text of every save that closes, and the links of those whose board was
  read again after `item.update`.
* `addComment` remembers the last attempt alone (`item-comments.js:188`). Send a
  text, lose the answer, send another and then the first once more: it draws a new
  key, and is stored twice if the first request got through. `SentOnce` speaks of
  attempts for the same text that follow each other with no answer between.
  The dialogs and the pane compare their command with the last one in the same way
  (`dialog.js:266`, `item-detail.js:93`), and the command has the revision in it:
  after another command, or in the pane after a board read again, a retry has a new
  key. The server then refuses it for its revision, so nothing is applied twice, but
  the user is told of a conflict with what he did himself. `RetryIsRecognised` is
  about the last attempt.
* When an older page of comments cannot be read, the page read before it is still
  the request's data and is put in front once more (`item-comments.js:171`).
  `CommentsAreContiguous` speaks of panels without a failed read.
* A card that cannot be read takes the address of a card opened meanwhile, and
  Back to a card over an open dialog can take it for shown (`Strays` of
  `FluxNavigation`). `AddressIsShown` excepts both.
* Back while a change is saved leaves the modal editor open and applies the address of
  the entry all the same (`actions.js:416` and `:417`; `actions.js:398` says that a
  refused close leaves view and address exactly as they were, which holds of the
  pane alone). If the save is then refused, the editor stays open under an address
  that names no card, or another one; and with an entry of the list no pane opens
  for its card (`:209`). Both are in `Strays`, and `AddressIsShown` and
  `TraversalRestores` except them.
* A label with a comma is split in the address, and a label named "none" or "all"
  cannot be filtered by; `StillMeant` excepts such addresses.
* A list of attachments read for a panel is not compared with uploads that ended
  meanwhile (`item-attachments.js:178`), so it may lack a file just uploaded;
  `ListFitsBoard` only says that it shows nothing that is gone.

### Fairness

* `FluxChange`: strong fairness of each handler's next step. Requests run
  in goroutines of their own and PostgreSQL grants a row lock that is free again
  and again to a waiting transaction; a crash is not required.
* `FluxAttachments`: weak fairness of handlers, of the passing of time and of the
  reconciler; strong fairness of claiming and deleting, since a worker's delete
  may fail and is taken up again after a back-off: the blob store works again
  and again, not always. New uploads and crashes are never required to stop.
* `FluxRefresh`: weak fairness of clocks, answers and finishing; strong fairness
  of the background refresh of each link, which `refreshBatch` justifies by
  taking links in the order of their last attempt; strong fairness of an answer
  that is fresh, and of its storing: GitLab and the servers do not fail every
  single time.
* `FluxClient`: weak fairness of the two timers (`usePolling`), of handling an
  answer and of ending an aborted request; strong fairness of the answers: a poll
  may fail, not for ever. This is of a visible tab whose workspace has polling
  on. Nothing obliges the user to close a dialog or to refresh, or a load to end:
  `ChangesAreNoticed` is about what happens while polls are not held up.

## 4. Proofs

`tlapm` checks these for any sets of people, items, handlers, keys, boards and
so on, and for any bounds. The only assumptions are the named `ASSUME`s of the
modules, which TLC evaluates in every run:

* bounds are numbers; pools of cards, columns and files are finite
  (`BoardAssumption`, `ClientAssumption`, `PlacementAssumption` and the like);
* a mark for "nothing" is not one of the things it stands for
  (`NothingAssumption`, `NoneAssumption`, `NoPageAssumption`,
  `UnloadedAssumption`, `NamesAssumption`);
* `LensAssumption`: every board a browser is sent is `WellFormed`, that is, it
  has finitely many cards, which name sprints of the same board; no project has
  the identifier `none` and no sprint that of a fixed scope. The first is
  `Validate` of `model.go`, the second holds as the server draws identifiers
  (`NewID`).

* **FluxBoardProofs** - `TypeCorrect`, `AlwaysAnAdministrator`, `ClosuresAgree`,
  `HistoryIsReadOnly`, `LimitsHold`, `RowsNeverChangeSilently`,
  `ReopeningRestores`, `CleanupNeverRefused`, `CommandsAreStored`. Types need
  the rank order to be free of repetitions, so the lemmas about `RemoveAt`,
  `InsertAt` and `reorder` come first. The history theorems need that scope rows
  speak of stored items (`HistoryInv`). Live items and live sprints grow by one
  at a time, and only when there was room. `RowsNeverChangeSilently` goes
  through every command and its cascades, and compares the rows that differ with
  those in `bumped`.
  * `CleanupNeverRefused` is `NeverWedged`. `Validate` is part of the invariant;
    closing, archiving and deleting a label leave a board that is `Emptier`, with
    fewer live items and fewer labels and sprints on each, and an emptier board is
    accepted as the fuller one was (`EmptierIsAccepted`).
  * `CommandsAreStored` is `SaveKeepsReferences`. Of the order of the statements
    only a part matters: rows are written after the rows they refer to and dropped
    after those that refer to them (`Ordered`). Between two boards that satisfy the
    keys, the second keeping the projects, sprints, items, summaries and assignees
    of the first (`Grows`), any such order keeps the keys
    (`StatementsKeepReferences`). That a board satisfies them needs `Validate` and
    `HistoryInv` (`ValidBoardRefers`); that it grows needs the check of
    `member.delete` that nobody with an item leaves (`AssigneesStay`).
* **FluxChangeProofs** - `TypeCorrect`, `ReadsStayTrue`, `NoUpdateIsLost`,
  `KeysAreUsedOnce`, `RepliesAreTruthful`, `AlwaysAnAdministrator`,
  `CommentsNeedWriters`, `ImplementsLedger`. The argument: a lock belongs to a
  transaction that is under way and excludes the conflicting ones (`TypeOK`
  alone does not say so), hence what a transaction read is still true when it
  commits, hence commits form a serial ledger; keys, revisions and replies
  follow from that.
* **FluxAttachmentsProofs** - `TypeCorrect`, `BytesAreTracked`,
  `RetriesStoreOnce`, `ListedAttachmentsKeepBytes`, `ImplementsShelf`. The
  argument: a key belongs to one upload until its metadata is committed or its
  request is past its deadline, and until then no row offers it to a worker;
  afterwards it is either referenced or condemned. The last theorem is about
  listed attachments whose commit was not reported as failed, whatever set of
  uploads `AckMayBeLost` is; `attachments_lost_ack` shows that it cannot say
  more. The refinement takes its invariant: an upload has a key nobody had, it
  lists its file only if there is no twin, and a reader who misses the bytes
  reads a file that is not listed any more or whose commit was reported as
  failed.
* **FluxRefreshProofs** - `TypeCorrect`, `RunsAgree`, `CachesStayApproved`,
  `RowsAreUnique`, `HintsAreHonoured`, `LateAnswersAreDropped`,
  `NewerEntriesAreKept`. Every step is one of six kinds (`StepCases`), and the
  invariant is checked against each. The argument: an identifier is never given
  to a second link and a run belongs to one link, so an attempt that remembers
  both cannot write into a row that is not its own any more; a workspace that
  accepted a delivery is *served* (its rows wait for a read, or were read from
  after the change), and a read that takes the hint begins no earlier than the
  delivery. The last theorem assumes that no event is a new pipeline for an old
  head, and rests on `StampsTell`: without that event the stamps order the
  states.

* **FluxClientProofs** - `ClientTyped`, `OneWorkspaceAtATime`,
  `NotModifiedIsTrue`, `SequencesOverwriteNobody`,
  `RefusedPlacementsAreTakenBack`, `WorkIsNotDisturbed`. None of these is
  inductive: whether an answer may be stored depends on what was true when it
  was asked for. `ClientInv` ties every operation in flight to the store: the
  flags mirror the operations and a load and a save exclude each other
  (`Modes`); what a live load holds is of the workspace under the root
  (`LoadsFollowRoot`), and so are the board, its pages, the undo offer and the
  commands; a body was served by a server that has not gone back
  (`BodiesWereServed`); a placement is on the board until its save ends, and
  stays only if the server has moved past the board it was made on
  (`PlacementsFollowCommits`). The operators on the store (`LeaveSession`,
  `Refresh`, `EndLoad`, `Send`) have a lemma each, and the actions are grouped
  by the operation they advance.
* **FluxEditorProofs** - `EditorTypes`, `RetriesAreRecognised`,
  `SavesArriveWhole`, `LinkInputReturns`. `KeysBelong`: a key is of one
  attempt, and an attempt that is posted is still held by the form or dialog it
  came from, so that a retry finds it. `TextIsSaved` and `LinksAreListed` carry
  a save through its chain: nobody else having changed the card, the text is
  the form's from the first command on, and a link in which card and form
  differ is still to be sent. `ReadAgain` keeps apart the chains whose board was not
  read again after `item.update`: of these only the text is claimed.
* **FluxCardProofs** - `TextsAreStoredOnce`, `CommentsShownWhole`,
  `FilesAreAttachedOnce`, `ListsFitBoards`, and for the dialog as a whole
  `CardTypes`, `SentIsStoredOnce`, which join these and the proofs about the
  form. Comments: the attempt the panel holds is the last one sent, and two that
  follow each other, without an answer between, have different texts
  (`AttemptsInOrder`), so a stretch of one text is one attempt with one key; the
  server stores a key once and keeps what was acknowledged (`KeysStoredOnce`,
  `AcknowledgedIsStored`). What is shown, a page in flight and the place where
  it goes on are stretches of numbers that meet (`PagesFit`). Files: one way
  uploads at a time, and all that a file has on the server beside the upload
  under way, the tab was told (`OthersWereTold`); a list, shown or on its way,
  holds nothing that was gone before its board was read (`ListsFollowBoards`).
* **FluxViewsProofs** -
  * The list: `SearchIsCurrent`, `CountsAgree`, `SelectionStaysShown`. In
    `ListInv` a text in the index, if it is of the present generation, is the
    text its card has now; an older one is never used. In `SelectionInv` no
    card is ticked twice, and once the effect ran the ticked cards are shown
    and can be changed. The counts agree for every well-formed board.
  * The address: `AddressTellsTheTruth`, `BackRestores`. In `NavigationInv` the
    present entry is the address of the view, and the card shared is that of the
    pane, else of the editor, else none or one that is being read (`Fits`),
    unless the tab strayed as listed in section 3. `busy` is free in it: each handler
    keeps `Fits` whether or not a change is saved, or strays.
  * Placements: `PayloadIsEnough`, `DropsLandAsShown`. The invariant is only
    that the orders are of all cards and columns, without repetition, and within
    the limits; the work is in the lemmas about orders. `Only` keeps the order
    of what it keeps; `Reordered` moves one element and leaves the others in
    their order (`Reorders`); an order is determined by which element precedes
    which (`OrderIsUnique`); the inverse of a move names the card that came next
    (`AfterIsNext`). So the browser's order of the cards it was sent and the
    server's order of all, cut to the same cards, are compared element by
    element instead of by index.
  * `ViewsAreTheirParts`: a behaviour of the run is one of `FluxNavigation` and
    one of `FluxList`, of which the theorems above speak.

Some invariants are stated in a module and proved, and no run checks them again:
the `TypeOK` of the four server modules, `AdminRemains`, `OrderIsRanking`,
`LockDiscipline`, `ReadsHold`, `CommentsByWriters`, `ReferencedOrScheduled`,
`DownloadsFindBytes`, `OneAttachmentPerRequest`, `CardTypeOK`, `CachesAreApproved`,
`OneRowPerTarget` and `SupersededAnswersAreDropped`.

Only model-checked are the four liveness properties, `RequestsAnswered`,
`ChangesAreObserved`, `OrphansCollected` and `ChangesAreNoticed`: liveness under
fairness is out of the prover's reach. Every other property of the passing runs is a
theorem. What the proofs do not add is a
link between modules: that the server of `FluxClient`, `FluxEditor` and
`FluxFiles` behaves as `FluxLedger` does is the argument of section 2.

## 5. What is abstracted or left out

* Formatting, validation of texts and dates, sizes of files, and wording.
* `save()` is one atomic write to every module but `FluxSave`, since its statements
  are one transaction; the rows of links it writes are in none.
* Batch sizes (100 cleanup rows, 16 refreshes) and the lengths of back-offs:
  a batch is any subset, a back-off a time that passes.
* A guard that forbids attaching links to archived items, and the role and
  revision checks of a refresh on demand, which are those of `FluxChange`.
* A webhook delivery sent again under the same ID with other content is
  refused by the code without a change of state.
* A run whose link is removed while it is read stays `pending` in the table
  (only the next attempt of the same row would close it); no document says
  when it should end, so no property does.
* In the browser: rendering, wording, focus and keyboard, the catalogue of GitLab
  projects and users, session loss and sign-in; the search field commits in one
  step; drags that scroll; a second card open at once.
* The cycle search of dependencies is replaced by the definition of a cycle.
* In `FluxNavigation` the optimistic guess of a placement, which changes no address
  and opens nothing.
* In `FluxList` a placement that is rolled back brings back the card objects it
  replaced, with their text in the index; such rollbacks are in `FluxClient` only.
* The components marked `not_modelled` in PROJECT.json.

## 6. Plan

In order of importance:

1. `FluxProposals`: import, preview against a board that moves, accept and reject,
   sources imported once; over `FluxLedger`.
2. `FluxClient` with `FluxLedger` in place of its revision numbers, so that a
   command sent by a tab is the request a handler serves; two tabs of one user;
   then the refinement of `FluxLedger` as a theorem, as for `FluxChange`.
3. `FluxWorkspaces`: creation with its key, the first administrator, migrations
   run by several servers.
4. Pure algorithms against reference definitions over all small inputs: the cycle
   search, burn-down series and velocity, participants, paging, due dates.
5. Sign-in sessions and the connector's slots.
