----------------------------- MODULE FluxEditor -----------------------------
(***************************************************************************)
(* The editor of one card in one tab (item-editor.js, item-detail.js,      *)
(* item-links.js, dialog.js, actions.js): the modal editor of the board,   *)
(* or the detail pane of the list; the dialogs opened over it; a save,     *)
(* which is a chain of commands; and what leaving the page does to input.  *)
(*                                                                         *)
(* A card is a text (all the fields item.update sends) and the GitLab      *)
(* links of it, which are changed by commands of their own.  One job runs  *)
(* at a time: `change' refuses while another one is posted or refreshing.  *)
(***************************************************************************)
EXTENDS Naturals, FiniteSets

CONSTANTS
  Texts,
  Links,
  Elsewhere,    \* links other cards hold, so that the workspace keeps them
  MaxRevision,  \* bound on the workspace's revision
  MaxEditors,   \* bound on the editors opened
  MaxAttempts,      \* bound on the idempotency keys of dialogs and panes
  None

ASSUME EditorAssumption ==
  Elsewhere \subseteq Links /\ {MaxRevision, MaxEditors, MaxAttempts} \subseteq Nat

VARIABLES
  server,   \* the workspace's revision and the card
  applied,  \* the keys of the commands the server committed
  list,     \* listPresentation
  board,    \* the revision and the card of the board shown; None: elsewhere
  editor,   \* the form shown: the item.edit dialog, or the detail pane
  over,     \* the dialog opened from it: link.add or item.archive
  job,      \* the chain of changes in progress, and how the last one ended
  count     \* editors opened and keys drawn

editorVars == <<server, applied, list, board, editor, over, job, count>>

Forms == [text : Texts, links : SUBSET Links]
Cards == [revision : 0..MaxRevision, text : Texts, links : SUBSET Links, archived : BOOLEAN]
Boards == [revision : 0..MaxRevision, card : Cards]
Commands == [kind : {"update", "attach", "detach", "archive", "restore"},
             revision : 0..MaxRevision, card : 0..MaxRevision,
             text : Texts, link : {None} \cup Links]
Attempts == {None} \cup [command : Commands, key : 1..MaxAttempts]
Editors == [id : 1..MaxEditors, item : Cards, revision : 0..MaxRevision, form : Forms,
            initial : Forms, comment : BOOLEAN, attempt : Attempts, alone : BOOLEAN]
Dialogs == [kind : {"link", "archive"}, draft : Forms, previous : SUBSET Links,
            revision : 0..MaxRevision, attempt : Attempts]

\* What a job holds over its awaits: draft and previous for a link operation,
\* the links still to detach and attach for a save.  `alone' and `again' are
\* history: nobody else changed the card since the form's board was read; the
\* command is presented again after it was applied, the last one of its form or
\* dialog: no other is remembered.  So is `fresh': the board was read again after
\* the item.update of the chain.
IdleJob == [kind |-> "idle", step |-> "idle", owner |-> 0, command |-> None, key |-> 0,
            draft |-> None, previous |-> {}, detach |-> {}, attach |-> {},
            answer |-> None, alone |-> TRUE, fresh |-> TRUE, again |-> FALSE]
Jobs == [kind : {"idle", "save", "link", "paste", "archive", "restore"},
         step : {"idle", "posted", "answered", "refused", "failed"},
         owner : 0..MaxEditors, command : {None} \cup Commands, key : 0..MaxAttempts,
         draft : {None} \cup Forms, previous : SUBSET Links,
         detach : SUBSET Links, attach : SUBSET Links, answer : {None} \cup Boards,
         alone : BOOLEAN, fresh : BOOLEAN, again : BOOLEAN]

\* What is nothing is no board, command, attempt, form or dialog.
ASSUME NoneAssumption ==
  /\ None \notin Boards \cup Commands \cup Editors \cup Dialogs
  /\ None \notin [command : Commands, key : 1..MaxAttempts]

Idle == job.kind = "idle"
Busy == job.step \in {"posted", "refused", "failed"}

EditorTypeOK ==
  /\ server \in Boards /\ list \in BOOLEAN
  /\ applied \subseteq 1..MaxAttempts
  /\ board \in {None} \cup Boards
  /\ editor \in {None} \cup Editors
  /\ over \in {None} \cup Dialogs
  /\ job \in Jobs
  /\ count \in [editors : 0..MaxEditors, keys : 0..MaxAttempts]

EditorInit ==
  /\ \E t \in Texts, ls \in SUBSET Links, hidden \in BOOLEAN :
       server = [revision |-> 0,
                 card |-> [revision |-> 0, text |-> t, links |-> ls, archived |-> hidden]]
  /\ applied = {} /\ list \in BOOLEAN /\ board = server
  /\ editor = None /\ over = None /\ job = IdleJob
  /\ count = [editors |-> 0, keys |-> 0]

-----------------------------------------------------------------------------
(* Forms.                                                                  *)

Toggled(links, link) == (links \ {link}) \cup ({link} \ links)
FormOf(card) == [text |-> card.text, links |-> card.links]

\* editorDirty: measured against the form as it opened, draft included.
Dirty(e) == e # None /\ ~e.item.archived /\ (e.form # e.initial \/ e.comment)

\* The links a form may choose from: those of the board shown.
Registered(b) == Elsewhere \cup b.card.links

\* openItemDetail and editItemModal: a new form, of a draft if there is one.
Opens(b, form) ==
  /\ count.editors < MaxEditors
  /\ count' = [count EXCEPT !.editors = @ + 1]
  /\ editor' = [id |-> count.editors + 1, item |-> b.card, revision |-> b.revision,
                form |-> form, initial |-> form, comment |-> FALSE, attempt |-> None,
                alone |-> b.card = server.card]
StaysAsItIs == UNCHANGED <<editor, count>>
Closes == editor' = None /\ UNCHANGED count

\* A dialog over a modal editor has taken its place; over the pane it has not.
LeavesEditor == IF list THEN StaysAsItIs ELSE Closes

\* A bug: the card is opened as it is on the board.
ReturnToCardAnew(b, draft, previous) ==
  IF b = None THEN LeavesEditor
  ELSE IF b.card.archived THEN StaysAsItIs ELSE Opens(b, FormOf(b.card))

\* returnToCard: the draft, with the links the card gained meanwhile.
ReturnToCard(b, draft, previous) ==
  IF b = None THEN LeavesEditor
  ELSE IF b.card.archived THEN StaysAsItIs
  ELSE Opens(b, [draft EXCEPT !.links = @ \cup (b.card.links \ previous)])

OpenCard ==
  /\ board # None /\ editor = None /\ over = None
  /\ Opens(board, FormOf(board.card))
  /\ UNCHANGED <<server, applied, list, board, over, job>>

CanType == editor # None /\ over = None /\ ~editor.item.archived /\ board # None
TypeInForm ==
  /\ CanType
  /\ \/ \E t \in Texts : editor' = [editor EXCEPT !.form.text = t]
     \/ \E link \in Registered(board) \cup editor.form.links :
          editor' = [editor EXCEPT !.form.links = Toggled(@, link)]
  /\ UNCHANGED <<server, applied, list, board, over, job, count>>
\* The composer of FluxComments is part of the form; sending empties it.
TypeOrSendComment ==
  /\ CanType
  /\ editor' = [editor EXCEPT !.comment = ~@]
  /\ UNCHANGED <<server, applied, list, board, over, job, count>>

-----------------------------------------------------------------------------
(* change: one command, posted, answered, and the board read again.        *)

Update(e, revision) ==
  [kind |-> "update", revision |-> revision, card |-> e.item.revision,
   text |-> e.form.text, link |-> None]
Command(kind, link) ==
  [kind |-> kind, revision |-> board.revision, card |-> 0,
   text |-> board.card.text, link |-> link]

\* A bug: every attempt draws a key.
AttemptAnew(before, command) == [command |-> command, key |-> count.keys + 1]

\* The key of a command presented again is that of its first attempt.
Attempt(before, command) ==
  IF before # None /\ before.command = command THEN before
  ELSE [command |-> command, key |-> count.keys + 1]
Again(before, attempt) ==
  /\ before # None /\ before.command = attempt.command
  /\ before.key \in applied
Draws(attempt) ==
  /\ attempt.key <= MaxAttempts
  /\ count' = [count EXCEPT !.keys = IF attempt.key > @ THEN attempt.key ELSE @]

\* What the server makes of a command, planning.Apply.
Accepts(c) ==
  /\ c.revision = server.revision /\ server.revision < MaxRevision
  /\ c.kind = "update" => c.card = server.card.revision
  /\ c.kind = "attach" => c.link \notin server.card.links
  /\ c.kind = "detach" => c.link \in server.card.links
  /\ server.card.archived <=> c.kind = "restore"
After(c) ==
  [revision |-> server.revision + 1,
   card |-> [revision |-> server.card.revision + 1,
             text |-> IF c.kind = "update" THEN c.text ELSE server.card.text,
             links |-> IF c.kind = "attach" THEN server.card.links \cup {c.link}
                       ELSE IF c.kind = "detach" THEN server.card.links \ {c.link}
                       ELSE server.card.links,
             archived |-> c.kind = "archive"]]

\* A key known is answered as it was; the answer may be lost on its way.
Answer ==
  /\ job.step = "posted"
  /\ LET c == job.command
         known == job.key \in applied
         answered(b) == job' \in {[job EXCEPT !.step = "answered", !.answer = b],
                                  [job EXCEPT !.step = "failed"]}
     IN \/ known /\ answered(server) /\ UNCHANGED <<server, applied>>
        \/ /\ ~known /\ Accepts(c)
           /\ server' = After(c) /\ answered(After(c))
           /\ applied' = applied \cup ({job.key} \ {0})
        \/ /\ ~known /\ ~Accepts(c)
           /\ job' = [job EXCEPT !.step = "refused"]
           /\ UNCHANGED <<server, applied>>
        \/ job' = [job EXCEPT !.step = "failed"] /\ UNCHANGED <<server, applied>>
  /\ UNCHANGED <<list, board, editor, over, count>>

\* refresh applies the board of the answer, or fails and leaves the old one ...
Refreshed == {job.answer, board}
\* ... or finds that the user has lost the workspace: then the gate takes the
\* editor and the dialogs with it.
LosesWorkspace ==
  /\ job.step = "answered"
  /\ board' = None /\ editor' = None /\ over' = None /\ job' = IdleJob
  /\ UNCHANGED <<server, applied, list, count>>

-----------------------------------------------------------------------------
(* Save: item.update, then the links (reconcileItemLinks).                  *)

\* The modal presents the revision it was opened at, the pane the board's.
Save ==
  /\ Idle /\ board # None /\ editor # None /\ over = None /\ ~editor.item.archived
  /\ LET attempt == Attempt(editor.attempt,
                            Update(editor, IF list THEN board.revision ELSE editor.revision))
     IN /\ Draws(attempt)
        /\ editor' = [editor EXCEPT !.attempt = attempt]
        /\ job' = [IdleJob EXCEPT !.kind = "save", !.step = "posted", !.owner = editor.id,
                     !.command = attempt.command, !.key = attempt.key,
                     !.draft = editor.form, !.alone = editor.alone,
                     !.again = Again(editor.attempt, attempt)]
  /\ UNCHANGED <<server, applied, list, board, over>>

\* A bug: links taken out of the form are not detached.
DetachesNone(b, form) == {}

Detaches(b, form) == b.card.links \ form.links

\* The board of the answer is shown, or was when item.update was answered.
ReadAgain(b) == job.fresh /\ (job.command.kind = "update" => b = job.answer)

\* The loop's next change against the board shown now: the links to detach
\* were listed before the first one, those to attach are looked up each time.
\* Nothing left: the modal closes whatever dialog is open, the pane only its
\* own form.
Reconcile(b, detach, attach) ==
  LET missing == attach \ b.card.links
      post(kind, link) ==
        job' = [job EXCEPT !.step = "posted", !.key = 0, !.again = FALSE, !.detach = detach \ {link},
                  !.attach = attach \ {link}, !.answer = None, !.fresh = ReadAgain(b),
                  !.command = [Command(kind, link) EXCEPT !.revision = b.revision,
                                                          !.text = b.card.text]]
  IN \/ /\ \E link \in detach : post("detach", link)
        /\ StaysAsItIs
     \/ /\ detach = {} /\ \E link \in missing :
             IF link \in Registered(b) THEN post("attach", link) ELSE job' = IdleJob
        /\ StaysAsItIs
     \/ /\ detach = {} /\ missing = {}
        /\ job' = IdleJob
        /\ IF list /\ (editor = None \/ editor.id # job.owner) THEN StaysAsItIs ELSE Closes

\* Without a refreshed board the pane stops after item.update; the modal goes
\* on, and reconcileItemLinks goes on in both.
SaveGoesOn ==
  /\ job.kind = "save" /\ job.step = "answered"
  /\ \E refreshed \in BOOLEAN :
       LET b == IF refreshed THEN job.answer ELSE board
           updated == job.command.kind = "update"
       IN /\ board' = b
          /\ \/ updated /\ list /\ ~refreshed /\ job' = IdleJob /\ StaysAsItIs
             \/ /\ updated /\ (list => refreshed)
                /\ Reconcile(b, Detaches(b, job.draft), job.draft.links)
             \/ ~updated /\ Reconcile(b, job.detach, job.attach)
  /\ UNCHANGED <<server, applied, list, over>>

\* The input is kept, and so is the attempt of a dialog or a pane.
Fails ==
  /\ job.step \in {"refused", "failed"} /\ job.kind # "paste"
  /\ job' = IdleJob
  /\ UNCHANGED <<server, applied, list, board, editor, over, count>>

-----------------------------------------------------------------------------
(* Links: the Add link dialog and the pasted URL.                           *)

CanLink == Idle /\ board # None /\ editor # None /\ over = None /\ ~editor.item.archived
AddLink ==
  /\ CanLink
  /\ over' = [kind |-> "link", draft |-> editor.form, previous |-> board.card.links,
              revision |-> board.revision, attempt |-> None]
  /\ LeavesEditor
  /\ UNCHANGED <<server, applied, list, board, job>>
SubmitLink(link) ==
  /\ Idle /\ board # None /\ over # None /\ over.kind = "link"
  /\ LET attempt == Attempt(over.attempt,
                            [Command("attach", link) EXCEPT !.revision = over.revision])
     IN /\ Draws(attempt)
        /\ over' = [over EXCEPT !.attempt = attempt]
        /\ job' = [IdleJob EXCEPT !.kind = "link", !.step = "posted",
                     !.command = attempt.command, !.key = attempt.key,
                     !.again = Again(over.attempt, attempt)]
  /\ UNCHANGED <<server, applied, list, board, editor>>
LinkAdded ==
  /\ job.kind = "link" /\ job.step = "answered"
  /\ job' = IdleJob /\ over' = None
  /\ \E b \in Refreshed :
       /\ board' = b
       /\ IF over # None /\ over.kind = "link"
          THEN ReturnToCard(b, over.draft, over.previous) ELSE LeavesEditor
  /\ UNCHANGED <<server, applied, list>>

Paste(link) ==
  /\ CanLink
  /\ job' = [IdleJob EXCEPT !.kind = "paste", !.step = "posted", !.draft = editor.form,
               !.command = Command("attach", link), !.previous = board.card.links]
  /\ LeavesEditor
  /\ UNCHANGED <<server, applied, list, board, over>>
\* The card comes back, in the place of a form opened meanwhile.
PasteEnds ==
  /\ job.kind = "paste" /\ job' = IdleJob
  /\ \/ /\ job.step = "answered"
        /\ \E b \in Refreshed : board' = b /\ ReturnToCard(b, job.draft, job.previous)
     \/ /\ job.step \in {"refused", "failed"}
        /\ ReturnToCard(board, job.draft, board.card.links)
        /\ UNCHANGED board
  /\ UNCHANGED <<server, applied, list, over>>

-----------------------------------------------------------------------------
(* Archive and restore.                                                     *)

OpenArchive ==
  /\ CanLink
  /\ over' = [kind |-> "archive", draft |-> editor.form, previous |-> {},
              revision |-> board.revision, attempt |-> None]
  /\ LeavesEditor
  /\ UNCHANGED <<server, applied, list, board, job>>
SubmitArchive ==
  /\ Idle /\ board # None /\ over # None /\ over.kind = "archive"
  /\ LET attempt == Attempt(over.attempt,
                            [Command("archive", None) EXCEPT !.revision = over.revision])
     IN /\ Draws(attempt)
        /\ over' = [over EXCEPT !.attempt = attempt]
        /\ job' = [IdleJob EXCEPT !.kind = "archive", !.step = "posted",
                     !.command = attempt.command, !.key = attempt.key,
                     !.again = Again(over.attempt, attempt)]
  /\ UNCHANGED <<server, applied, list, board, editor>>
Archived ==
  /\ job.kind = "archive" /\ job.step = "answered"
  /\ board' \in Refreshed /\ job' = IdleJob /\ over' = None
  /\ Closes
  /\ UNCHANGED <<server, applied, list>>

\* restoreSharedItem: the read-only card is closed and opened again.
Restore ==
  /\ Idle /\ board # None /\ editor # None /\ over = None /\ editor.item.archived
  /\ job' = [IdleJob EXCEPT !.kind = "restore", !.step = "posted",
               !.command = Command("restore", None)]
  /\ UNCHANGED <<server, applied, list, board, editor, over, count>>
Restored ==
  /\ job.kind = "restore" /\ job.step = "answered"
  /\ job' = IdleJob /\ over' = None
  /\ \E b \in Refreshed : board' = b /\ Opens(b, FormOf(b.card))
  /\ UNCHANGED <<server, applied, list>>

-----------------------------------------------------------------------------
(* Ways out, and other people.                                              *)

\* Cancel, the close button or Escape: unsaved input is given up only when the
\* user agrees.  (Clicking outside closes a clean form, or offers Save.)
Discard ==
  /\ editor # None /\ over = None /\ ~Busy
  /\ Closes
  /\ UNCHANGED <<server, applied, list, board, over, job>>
\* A dialog over it has nothing to ask; Back closes it the same way.
CancelDialog ==
  /\ over # None /\ ~Busy
  /\ over' = None
  /\ IF over.kind = "link" THEN ReturnToCard(board, over.draft, over.previous)
     ELSE StaysAsItIs
  /\ UNCHANGED <<server, applied, list, board, job>>

\* Back or Forward to an address without the card: a pane with unsaved input
\* asks, a dialog is closed as it is.
Back ==
  /\ board # None /\ editor # None /\ over = None /\ ~Busy
  /\ ~(list /\ Dirty(editor))
  /\ Closes
  /\ UNCHANGED <<server, applied, list, board, over, job>>
\* Another workspace: the pane asks; the fields of a modal editor cannot be
\* drawn without a board and are gone; an Add link dialog stays open.
Leave ==
  /\ Idle /\ board # None
  /\ ~(list /\ Dirty(editor))
  /\ board' = None /\ Closes
  /\ UNCHANGED <<server, applied, list, over, job>>
Reload ==
  /\ Idle /\ over = None /\ (list \/ editor = None)
  /\ board' = server
  /\ UNCHANGED <<server, applied, list, editor, over, job, count>>

OthersEdit ==
  /\ server.revision < MaxRevision
  /\ \E card \in {server.card} \cup
       {[server.card EXCEPT !.revision = @ + 1, !.text = t] : t \in Texts \ {server.card.text}} \cup
       {[server.card EXCEPT !.revision = @ + 1, !.links = Toggled(@, l)] : l \in Links} :
       /\ card # server.card => ~server.card.archived
       /\ server' = [revision |-> server.revision + 1, card |-> card]
       /\ editor' = IF editor = None THEN None
                    ELSE [editor EXCEPT !.alone = @ /\ card = server.card]
       /\ job' = [job EXCEPT !.alone = @ /\ card = server.card]
  /\ UNCHANGED <<applied, list, board, over, count>>

EditorNext ==
  \/ OpenCard \/ TypeInForm \/ TypeOrSendComment
  \/ Answer \/ LosesWorkspace \/ Save \/ SaveGoesOn \/ Fails
  \/ AddLink \/ (\E link \in Links : SubmitLink(link) \/ Paste(link))
  \/ LinkAdded \/ PasteEnds
  \/ OpenArchive \/ SubmitArchive \/ Archived \/ Restore \/ Restored
  \/ Discard \/ CancelDialog \/ Back \/ Leave \/ Reload \/ OthersEdit

EditorSpec == EditorInit /\ [][EditorNext]_editorVars

-----------------------------------------------------------------------------
\* The step by which a save closes the form it saves.
SaveCloses ==
  /\ job.kind = "save" /\ job.step = "answered" /\ job'.kind = "idle"
  /\ editor # None /\ editor.id = job.owner /\ editor' = None /\ board' # None

\* A save that closes its form has left the server's card as the form showed
\* it when Save was pressed, unless somebody else changed the card since the
\* board the form was opened from was read: over lost answers, retries and
\* failed refreshes, after which the links are worked off against the stale board
\* and the form still closes as saved.  For the links, the board must have been
\* read again after item.update: the modal goes on without, and then a link change
\* of an earlier attempt whose answer was lost is one it does not know of.
SavedAsShown ==
  [][SaveCloses /\ job.alone =>
       /\ server.card.text = job.draft.text
       /\ ReadAgain(board') => server.card.links = job.draft.links]_editorVars

\* A command that was applied and whose answer was lost is not refused when its
\* form or dialog presents it again next.  (Another command between, or in the pane
\* a board read again meanwhile, draws a key of its own and may be refused.)
RetryIsRecognised == job.step = "refused" => ~job.again

\* The input a link operation under way was started with.
Carried == IF over # None /\ over.kind = "link" THEN over.draft
           ELSE IF job.kind = "paste" THEN job.draft ELSE None
\* A link operation brings its card back: the input it was started with is in
\* the form again, unless the workspace or the card is no longer there.
LinksBringInputBack ==
  [][Carried # None /\ Carried' = None /\ board' # None /\ ~board'.card.archived =>
       /\ editor' # None
       /\ editor'.form.text = Carried.text
       /\ Carried.links \subseteq editor'.form.links]_editorVars

=============================================================================
