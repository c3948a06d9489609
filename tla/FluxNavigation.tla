--------------------------- MODULE FluxNavigation ---------------------------
(***************************************************************************)
(* The address bar, the browser's history and the card that is open, in    *)
(* one tab with a workspace shown (url-state.js, actions.js, dialog.js).   *)
(*                                                                         *)
(* A handler changes the store; the tab then renders, and two layout       *)
(* effects follow in the same task: the dialog host drops the open card    *)
(* when its dialog is gone, and the one writer of planning addresses       *)
(* replaces the history entry, or pushes one if the card was changed.  A   *)
(* handler here is therefore a function of the tab, and an action is the   *)
(* handler with its render.  Opening a card that is not on the board reads *)
(* it first, and other handlers run meanwhile.                             *)
(***************************************************************************)
EXTENDS FluxLens

CONSTANTS
  AddressesOpened,  \* the addresses the tab may be opened with
  NamesChanged,     \* bound: the filters that are changed
  ScopesChosen,     \* bound: the scopes chosen in the toolbar
  MaxEntries,       \* bound on the history of the tab
  MaxChanges        \* bound on the changes of the lens, the view and the board

ASSUME NavigationAssumption ==
  MaxEntries \in Nat \ {0} /\ MaxChanges \in Nat /\ NamesChanged \subseteq FilterNames

VARIABLES
  board,    \* the board shown
  tab,      \* view, lens, open card, dialog, and the history with its position
  reads,    \* the cards being read for openSharedItem
  busy,     \* a change is being saved
  changes,  \* bounded by MaxChanges
  strayed   \* history: the address has lost the card that is open, see Strays

navigationVars == <<board, tab, reads, busy, changes, strayed>>

Views == {"board", "archive", "sprints", "projects"}
OtherDialog == "dialog"

Local(card) == card \in DOMAIN board.cards
AllCards == UNION {DOMAIN b.cards \cup DOMAIN b.archive : b \in Boards}

\* The detail pane's card; a draft in it may have been changed.
Panes == [card : AllCards, dirty : BOOLEAN]

\* Nothing is no card, no pane and no dialog.
ASSUME NamesAssumption ==
  OtherDialog # None /\ {None, OtherDialog} \cap AllCards = {} /\ None \notin Panes

\* The card of a new detail pane.
Pane(card) == [card |-> card, dirty |-> FALSE]

ListPresentation(t) == t.view = "board" /\ t.lens.presentation = "list"

\* The cards on the screen: in the editor dialog and the list's detail pane.
CardsOpen(t) ==
  ({t.editor} \cap AllCards)
    \cup (IF t.detail # None /\ ListPresentation(t) THEN {t.detail.card} ELSE {})

Address(t) == PlanningURL(t.lens, t.shared)

-----------------------------------------------------------------------------
(* Handlers.                                                               *)

\* setSharedItem.
Share(t, card) ==
  IF t.shared = card THEN t ELSE [t EXCEPT !.shared = card, !.push = TRUE]

\* closeDetail, once the user agreed to discard a changed draft.
DetailClosed(t) ==
  IF t.detail = None THEN t ELSE Share([t EXCEPT !.detail = None], None)

OpenItemDetail(t, card) ==
  Share([DetailClosed(t) EXCEPT !.detail = Pane(card)], card)
EditItemModal(t, card) ==
  [Share(t, card) EXCEPT !.editor = card, !.editorItem = card]

\* editItem, and the second half of openSharedItem.  While a change is saved no
\* pane is opened, closed or replaced; the dialog is replaced all the same.
Opened(t, card) ==
  IF ~ListPresentation(t) THEN EditItemModal(t, card)
  ELSE IF busy THEN t ELSE OpenItemDetail(t, card)

\* A card already shown is not opened again.
IsShown(t, card) ==
  \/ t.detail # None /\ t.detail.card = card
  \/ t.editorItem = card /\ t.editor # None

LensOf(patch) ==
  [presentation |-> patch.presentation, scope |-> patch.scope, filters |-> patch.filters]
\* setState of planningPatchFromURL; the filters are new to every subscriber.
Patched(t, url) ==
  [t EXCEPT !.lens = LensOf(PlanningPatchFromURL(url, board)),
            !.shared = url.item, !.fresh = TRUE]

-----------------------------------------------------------------------------
(* The render after a handler.                                             *)

\* usePlanningURL.
WriteURL(t, push) ==
  IF t.entries[t.at] = Address(t) THEN t
  ELSE IF push /\ t.entries[t.at].item # t.shared
  THEN [t EXCEPT !.entries = Append(SubSeq(t.entries, 1, t.at), Address(t)), !.at = @ + 1]
  ELSE [t EXCEPT !.entries[t.at] = Address(t)]

\* The dialog host's effect: a dialog closed for good leaves its card.
DialogLeft(before, t) ==
  IF before.editor # None /\ t.editor = None /\ t.detail = None
  THEN Share([t EXCEPT !.editorItem = None], None) ELSE t

\* The dialog host's effect runs before the shell's.  If the shell rendered
\* too, it writes the address it rendered, and then the one the host left.
Rendered(before, t) ==
  LET left == DialogLeft(before, t)
      first == t.fresh \/ Address(t) # Address(before)
      wrote == IF first THEN WriteURL(t, left.push) ELSE t
  IN  [WriteURL([left EXCEPT !.entries = wrote.entries, !.at = wrote.at],
                ~first /\ left.push)
       EXCEPT !.push = FALSE, !.fresh = FALSE]

\* applyPlanningURLState, from the tab before its handler.  openSharedItem
\* goes on after the render: at once for a card of the board, and after a read
\* for any other.
AddressApplied(before, t, url) ==
  LET shown == Rendered(before, Patched(t, url)) IN
  IF url.item # None /\ ~IsShown(t, url.item) /\ Local(url.item)
  THEN Rendered(shown, Opened(shown, url.item)) ELSE shown
ReadFor(t, url) ==
  IF url.item # None /\ ~IsShown(t, url.item) /\ ~Local(url.item) THEN {url.item} ELSE {}

Becomes(t) == Len(t.entries) <= MaxEntries /\ tab' = t
Shows(t) == Becomes(Rendered(tab, t)) /\ UNCHANGED <<board, reads, busy, strayed>>
Changed == changes < MaxChanges /\ changes' = changes + 1

\* chooseWorkspace, of the address the tab was opened with.
EmptyTab(url) ==
  [view |-> "board", shared |-> None, detail |-> None, editor |-> None,
   editorItem |-> None, push |-> FALSE, fresh |-> FALSE,
   lens |-> [presentation |-> "board", scope |-> "active", filters |-> EmptyFilters],
   entries |-> <<url>>, at |-> 1]

NavigationInit ==
  /\ board \in Boards /\ busy = FALSE
  /\ \E url \in AddressesOpened :
       /\ tab = AddressApplied(EmptyTab(url), EmptyTab(url), url)
       /\ reads = ReadFor(EmptyTab(url), url)
  /\ changes = 0 /\ strayed = FALSE

-----------------------------------------------------------------------------
(* What the user does.  A dialog makes the page under it inert.            *)

Free == tab.editor = None

OpenItem(card) ==
  /\ Free /\ ~IsShown(tab, card)
  /\ \/ tab.view = "board" /\ Local(card)
     \/ tab.view = "archive" /\ card \in DOMAIN board.archive
  /\ Shows(Opened(tab, card)) /\ UNCHANGED changes

TypeInDetail ==
  /\ Free /\ tab.detail # None /\ ~tab.detail.dirty
  /\ Shows([tab EXCEPT !.detail.dirty = TRUE]) /\ UNCHANGED changes

CloseDetail ==
  /\ Free /\ ~busy /\ tab.detail # None
  /\ Shows(DetailClosed(tab)) /\ UNCHANGED changes

\* newItem, and the dialogs of the page; only the first is an item editor, and
\* not every one of the others waits for a change that is saved.
OpenDialog(item) ==
  /\ Free /\ (item => ~busy)
  /\ Shows([tab EXCEPT !.editor = OtherDialog,
                      !.editorItem = IF item THEN None ELSE @]) /\ UNCHANGED changes

CloseDialog ==
  /\ ~Free /\ ~busy
  /\ Shows([tab EXCEPT !.editor = None]) /\ UNCHANGED changes

Navigate(view) ==
  /\ Free /\ ~busy /\ view # tab.view
  /\ Shows([(IF tab.view = "board" THEN DetailClosed(tab) ELSE tab) EXCEPT !.view = view])
  /\ Changed

SetPresentation(presentation) ==
  /\ Free /\ ~busy /\ tab.view = "board" /\ presentation # tab.lens.presentation
  /\ Shows([DetailClosed(tab) EXCEPT !.lens.presentation = presentation])
  /\ Changed

SetScope(scope) ==
  /\ Free /\ tab.view = "board" /\ scope # tab.lens.scope
  /\ Shows([tab EXCEPT !.lens.scope = scope]) /\ Changed

AddPlanningFilter(name, value) ==
  /\ Free /\ ~busy /\ tab.view # "projects"
  /\ Shows([tab EXCEPT !.lens.filters[name] = WithFilterValue(@, value)]) /\ Changed

RemoveFilter(name, value) ==
  /\ Free /\ ~busy /\ tab.view # "projects" /\ Contains(tab.lens.filters[name], value)
  /\ Shows([tab EXCEPT !.lens.filters[name] = Without(@, value)]) /\ Changed

OpenProject(project) ==
  /\ Free /\ ~busy /\ tab.view = "projects"
  /\ Shows([DetailClosed(tab) EXCEPT !.view = "board",
              !.lens = [presentation |-> "list", scope |-> "all",
                        filters |-> [EmptyFilters EXCEPT !.project = <<project>>]]])
  /\ Changed

ViewSprintScope(sprint) ==
  /\ Free /\ tab.view = "sprints"
  /\ Shows([tab EXCEPT !.view = "board", !.lens.scope = sprint]) /\ Changed

\* A change starts to be saved, from an editor, a dialog or the page, and is
\* answered or refused; an editor that closes for it closes after that.
StartChange ==
  /\ ~busy /\ busy' = TRUE /\ UNCHANGED <<board, tab, reads, changes, strayed>>
EndChange ==
  /\ busy /\ busy' = FALSE /\ UNCHANGED <<board, tab, reads, changes, strayed>>

-----------------------------------------------------------------------------
(* Back, Forward and the history menu: the browser is at the entry before  *)
(* applyHistoryNavigation is called.                                       *)

\* The pane of another card than the entry's.
PaneIsLeft(i) == tab.detail # None /\ tab.detail.card # tab.entries[i].item

\* A bug: the refused card is not put back in the address bar.
RefuseLeaving(i) ==
  /\ i # tab.at /\ PaneIsLeft(i) /\ (tab.detail.dirty \/ busy)
  /\ Becomes([tab EXCEPT !.at = i])
  /\ UNCHANGED <<board, reads, busy, changes, strayed>>

RefuseTraversal(i) ==
  /\ i # tab.at /\ PaneIsLeft(i) /\ (tab.detail.dirty \/ busy)
  /\ Becomes([tab EXCEPT !.at = i, !.entries[i] = Address(tab)])
  /\ UNCHANGED <<board, reads, busy, changes, strayed>>

\* A bug: only the dialog is closed.
LeftForDialog(url) ==
  IF tab.editor # None /\ tab.editorItem # url.item THEN [tab EXCEPT !.editor = None] ELSE tab

\* closeDetail and closeEditor, of what the entry does not show.  An editor that
\* is saving stays.
LeftFor(url) ==
  LET t == IF tab.detail # None /\ tab.detail.card # url.item THEN DetailClosed(tab) ELSE tab
  IN  IF t.editor # None /\ t.editorItem # url.item /\ ~busy
      THEN [t EXCEPT !.editor = None] ELSE t

\* The card of the entry is taken for shown when it is not: its pane is hidden,
\* changed draft and all, by an entry of the other presentation; or the dialog
\* open is not its editor, which was closed over a pane and left its name.
\* While a change is saved the editor of another card stays, and no pane opens
\* for a card of the list.
Strays(t, card) ==
  \/ t.detail # None /\ ~ListPresentation(t)
  \/ card # None /\ tab.editor = OtherDialog /\ tab.editorItem = card
  \/ busy /\ t.editor \in AllCards \ {card}
  \/ busy /\ ListPresentation(t) /\ Local(card) /\ t.detail = None /\ t.editor # card

Traverse(i) ==
  LET url == tab.entries[i]
      t == [LeftFor(url) EXCEPT !.at = i]
  IN  /\ i # tab.at /\ ~(PaneIsLeft(i) /\ busy)
      /\ Becomes(AddressApplied(tab, t, url))
      /\ reads' = reads \cup ReadFor(t, url)
      /\ strayed' = (strayed \/ Strays(AddressApplied(tab, t, url), url.item))
      /\ UNCHANGED <<board, busy, changes>>

-----------------------------------------------------------------------------
(* What the server answers.                                                *)

CardRead(card) ==
  /\ card \in reads
  /\ \/ Becomes(Rendered(tab, Opened(tab, card)))
     \/ ListPresentation(tab) /\ tab.detail # None /\ tab.detail.dirty /\ UNCHANGED tab
  /\ reads' = reads \ {card}
  /\ strayed' = (strayed \/ (busy /\ ListPresentation(tab) /\ tab.shared = card))
  /\ UNCHANGED <<board, busy, changes>>

\* The card is gone or the call failed: the address names no card any more.
CardNotRead(card) ==
  /\ card \in reads
  /\ Becomes(Rendered(tab, Share(tab, None)))
  /\ reads' = reads \ {card}
  /\ strayed' = (strayed \/ CardsOpen(tab) # {})
  /\ UNCHANGED <<board, busy, changes>>

Refresh(b) ==
  /\ ~busy /\ b # board /\ board' = b
  /\ Becomes(Rendered(tab, [tab EXCEPT !.lens.filters = KnownFilters(@, b),
                                       !.lens.scope = KnownScope(@, b)]))
  /\ Changed /\ UNCHANGED <<reads, busy, strayed>>

NavigationNext ==
  \/ \E card \in AllCards : OpenItem(card) \/ CardRead(card) \/ CardNotRead(card)
  \/ TypeInDetail \/ CloseDetail \/ CloseDialog \/ StartChange \/ EndChange
  \/ \E item \in BOOLEAN : OpenDialog(item)
  \/ \E view \in Views : Navigate(view)
  \/ \E presentation \in {"board", "list"} : SetPresentation(presentation)
  \/ \E scope \in ScopesChosen \cap (FixedScopes \cup DOMAIN board.sprints) : SetScope(scope)
  \/ \E name \in NamesChanged :
       \/ \E value \in board.known[name] \cup {"none", "all"} : AddPlanningFilter(name, value)
       \/ \E value \in ToSet(tab.lens.filters[name]) : RemoveFilter(name, value)
  \/ \E project \in board.known.project : OpenProject(project)
  \/ \E sprint \in DOMAIN board.sprints : ViewSprintScope(sprint)
  \/ \E i \in DOMAIN tab.entries : Traverse(i) \/ RefuseTraversal(i)
  \/ \E b \in Boards : Refresh(b)

NavigationSpec == NavigationInit /\ [][NavigationNext]_navigationVars

-----------------------------------------------------------------------------
(* Properties.                                                             *)

\* The address bar is the address of the view, after every handler with its
\* render: `the address bar matches the view it was rendered with', and a
\* refused Back puts it back (usePlanningURL, restorePlanningURL).  When no
\* card is being read, it names a card on the screen, or none if there is
\* none, whatever was opened, closed and travelled between meanwhile.  The
\* exceptions are the code's own: a card that cannot be read takes the address
\* of the card opened while it was read (openSharedItem); Back can take a card for
\* shown that is not; and while a change is saved the address of an entry is
\* applied although the editor under it stays open, or no pane can be opened
\* (Strays; applyHistoryNavigation, closeEditor, closeDetail).
AddressIsShown ==
  /\ tab.entries[tab.at] = Address(tab)
  /\ reads = {} /\ ~strayed =>
       IF tab.shared = None THEN CardsOpen(tab) = {} ELSE tab.shared \in CardsOpen(tab)

\* The board still knows all the entry asks for, and its address kept it.
StillMeant(url) ==
  /\ url.item # None => Local(url.item)
  /\ PlanningURL(LensOf(PlanningPatchFromURL(url, board)), url.item) = url

\* Back and Forward restore the entry's view and its card and leave the
\* history as it is, unless a dialog had to be closed for it or a pane was hidden
\* (applyHistoryNavigation: `restores the whole planning URL').
TraversalRestores ==
  [][\A i \in DOMAIN tab.entries :
       Traverse(i) /\ tab.editor = None /\ StillMeant(tab.entries[i]) /\ ~strayed' =>
         /\ tab'.entries = tab.entries /\ tab'.at = i
         /\ Address(tab') = tab.entries[i]
         /\ CardsOpen(tab') = {tab.entries[i].item} \ {None}]_navigationVars
=============================================================================
