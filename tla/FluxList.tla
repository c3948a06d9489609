------------------------------ MODULE FluxList ------------------------------
(***************************************************************************)
(* The cards the planning body shows, and the cards ticked in the list     *)
(* (filters.js, planning-filters.js, view-list.js, bulk.js, actions.js).   *)
(*                                                                         *)
(* Every change of the store renders the body, which searches the cards    *)
(* through an index kept per card object; the selection is pruned by an    *)
(* effect of a later task.  The body stays mounted, hidden, while a page   *)
(* is shown, and shows its last planning view.                             *)
(*                                                                         *)
(* The search field commits its text after every pause and whenever it is  *)
(* left, so it is one action here; the memo of the filtered cards is left  *)
(* out, because its inputs are all that the cards are computed from.       *)
(***************************************************************************)
EXTENDS FluxLens

CONSTANTS
  Queries,              \* bound: the words searched for
  ListFilters,          \* bound: pairs of a filter and a value that are set
  ListScopes,           \* bound: the scopes chosen
  AddressesTravelled,   \* bound: the entries Back and Forward reach
  MaxRefreshes          \* bound on the boards read

VARIABLES
  loaded,      \* the board
  page,        \* the archived cards loaded
  list,        \* view, lens, search and selection
  generation,  \* boardGeneration
  index,       \* searchIndex: the text of card objects, with its generation
  shown        \* the cards rendered

listVars == <<loaded, page, list, generation, index, shown>>

PlanningViews == {"board", "archive"}
NoPage == <<>>

Ticked(l) == ToSet(l.bulk)
InList(l) == l.body = "board" /\ l.presentation = "list"

-----------------------------------------------------------------------------
(* Search.                                                                 *)

\* What a card is searched by: its own words, and the names it refers to.
Haystack(b, card) ==
  card.words \cup {b.names[id] : id \in card.projects \cup card.assignee}

CardsOf(b, p, where) == IF where = "archive" THEN p ELSE b.cards

\* A bug: the names a card refers to are taken to change with the card.
TextOfRevision(b, p, gen, idx, where, c) ==
  IF <<where, c>> \in DOMAIN idx
  THEN idx[<<where, c>>].text ELSE Haystack(b, CardsOf(b, p, where)[c])

TextOf(b, p, gen, idx, where, c) ==
  IF <<where, c>> \in DOMAIN idx /\ idx[<<where, c>>].generation = gen
  THEN idx[<<where, c>>].text ELSE Haystack(b, CardsOf(b, p, where)[c])

\* The cards the filters leave, which are the ones searched.
Candidates(b, p, l) == FilteredItems(b, p, l.body, l.scope, l.filters)

\* The body rendered from a board, a page and a view, with the index so far.
Renders(b, p, l, gen, idx) ==
  LET found == Candidates(b, p, l)
      text == [c \in found |-> TextOf(b, p, gen, idx, l.body, c)]
      searched == IF l.query = None THEN {} ELSE {l.body} \X found
  IN  /\ shown' = {c \in found : l.query = None \/ l.query \in text[c]}
      /\ index' = [k \in DOMAIN idx \cup searched |->
                     IF k \in searched THEN [generation |-> gen, text |-> text[k[2]]]
                     ELSE idx[k]]

\* A handler that leaves the board and the page alone.
Sets(l) ==
  /\ list' = [l EXCEPT !.settled = FALSE]
  /\ Renders(loaded, page, l, generation, index)
  /\ UNCHANGED <<loaded, page, generation>>

ListInit ==
  /\ loaded \in Boards /\ page = NoPage /\ generation = 0 /\ index = <<>>
  /\ list = [view |-> "board", body |-> "board", presentation |-> "list",
             scope |-> "active", filters |-> EmptyFilters, query |-> None,
             bulk |-> <<>>, settled |-> TRUE]
  /\ shown = Candidates(loaded, page, list)

-----------------------------------------------------------------------------
(* The view and its lens.                                                  *)

ListNavigate(view) ==
  /\ view # list.view
  /\ Sets([list EXCEPT !.view = view, !.bulk = <<>>,
                       !.body = IF view \in PlanningViews THEN view ELSE @])

ListPresent(presentation) ==
  /\ list.view = "board" /\ presentation # list.presentation
  /\ Sets([list EXCEPT !.presentation = presentation, !.bulk = <<>>])

ListScope(scope) ==
  /\ list.view = "board" /\ scope # list.scope
  /\ Sets([list EXCEPT !.scope = scope])

ListAddFilter(name, value) ==
  /\ list.view # "projects" /\ (list.view = "sprints" => name # "label")
  /\ Sets([list EXCEPT !.filters[name] = WithFilterValue(@, value)])

\* A chip is removed.
ListRemoveFilter(name, value) ==
  /\ list.view # "projects" /\ (list.view = "sprints" => name # "label")
  /\ Contains(list.filters[name], value)
  /\ Sets([list EXCEPT !.filters[name] = Without(@, value)])

\* The clear button, offered with two chips or more.
ListClearFilters ==
  /\ list.view # "projects"
  /\ Cardinality({k \in FilterNames \X (1 .. 3) :
                    /\ k[2] \in DOMAIN list.filters[k[1]]
                    /\ list.view = "sprints" => k[1] # "label"}) > 1
  /\ Sets([list EXCEPT !.filters = EmptyFilters])

Search(query) ==
  /\ list.view # "projects" /\ query # list.query
  /\ Sets([list EXCEPT !.query = query])

ListOpenProject(project) ==
  /\ list.view = "projects"
  /\ Sets([list EXCEPT !.view = "board", !.body = "board", !.presentation = "list",
             !.filters = [EmptyFilters EXCEPT !.project = <<project>>],
             !.scope = "all", !.query = None])

ListViewSprint(sprint) ==
  /\ list.view = "sprints"
  /\ Sets([list EXCEPT !.view = "board", !.body = "board", !.scope = sprint])

\* Back and Forward set the lens, and leave the view, search and selection.
ListTravel(url) ==
  LET patch == PlanningPatchFromURL(url, loaded) IN
  Sets([list EXCEPT !.presentation = patch.presentation, !.scope = patch.scope,
                    !.filters = patch.filters])

-----------------------------------------------------------------------------
(* The selection.                                                          *)

Selectable(c) == c \in DOMAIN loaded.cards /\ ~loaded.cards[c].archived

SetBulkSelected(c) ==
  /\ list.view = "board" /\ InList(list) /\ c \in shown /\ Selectable(c)
  /\ Sets([list EXCEPT !.bulk = IF Contains(@, c) THEN Without(@, c) ELSE Append(@, c)])

\* The cards rendered with the bar, in an order of their own.
SelectAllBulk ==
  /\ list.view = "board" /\ InList(list) /\ list.bulk # <<>>
  /\ Len(list.bulk) < Cardinality({c \in shown : Selectable(c)})
  /\ LET rest == {c \in shown : Selectable(c)} \ Ticked(list)
     IN  Sets([list EXCEPT !.bulk = @ \o SetToSeq(rest)])

ClearBulk ==
  /\ list.view = "board" /\ InList(list) /\ list.bulk # <<>>
  /\ Sets([list EXCEPT !.bulk = <<>>])

BulkTargets(l) == Only(l.bulk, {c \in DOMAIN loaded.cards : Selectable(c)})

\* runBulk, once its dialog is confirmed; the commands are FluxClient's.
RunBulk ==
  /\ list.view = "board" /\ InList(list) /\ BulkTargets(list) # <<>>
  /\ Sets([list EXCEPT !.bulk = <<>>])

\* A bug: the selection is taken for settled unless it was itself changed.
PruneWhenTicked ==
  /\ ~list.settled
  /\ list' = [list EXCEPT !.settled = TRUE,
                !.bulk = IF Len(@) > 1 THEN Only(@, {c \in shown : Selectable(c)}) ELSE @]
  /\ UNCHANGED <<loaded, page, generation, index, shown>>

\* The list's effect, where the list is mounted.
PruneSelection ==
  /\ ~list.settled
  /\ list' = [list EXCEPT !.settled = TRUE,
                !.bulk = IF InList(list)
                         THEN Only(@, {c \in shown : Selectable(c)}) ELSE @]
  /\ UNCHANGED <<loaded, page, generation, index, shown>>

-----------------------------------------------------------------------------
(* What the server answers.                                                *)

\* An object is kept while its value is the same; pages are always new.
Kept(b, idx) ==
  {k \in DOMAIN idx : /\ k[1] = "board" /\ k[2] \in DOMAIN b.cards
                      /\ b.cards[k[2]] = loaded.cards[k[2]]}

\* refresh: the first page of the archive is read with the board; when that
\* read fails the board is shown all the same.
ListRefresh(b, p) ==
  /\ b # loaded /\ generation < MaxRefreshes
  /\ p = NoPage \/ list.view = "archive"
  /\ loaded' = b /\ page' = p /\ generation' = generation + 1
  /\ LET l == [list EXCEPT !.filters = KnownFilters(@, b), !.scope = KnownScope(@, b)]
     IN  /\ list' = [l EXCEPT !.settled = FALSE]
         /\ Renders(b, p, l, generation + 1, Restrict(index, Kept(b, index)))

\* The page read on coming to the archive, as new as the server is by then.
ListArchivePage(p) ==
  /\ list.view = "archive" /\ p # page
  /\ page' = p /\ list' = [list EXCEPT !.settled = FALSE]
  /\ Renders(loaded, p, list, generation,
             Restrict(index, {k \in DOMAIN index : k[1] = "board"}))
  /\ UNCHANGED <<loaded, generation>>

\* optimisticPatch: a new board of the same generation, in which the card
\* moved, and every card that changed its rank, is a new object; or a board or
\* a page without the card.
ListPlace(c, column, ranked) ==
  /\ c \in shown /\ list.view = "board" /\ Selectable(c) /\ column # loaded.cards[c].column
  /\ loaded' = [loaded EXCEPT !.cards[c].column = column]
  /\ list' = [list EXCEPT !.settled = FALSE]
  /\ Renders(loaded', page, list, generation,
             Restrict(index, {k \in DOMAIN index : k[1] = "board" => k[2] \notin ranked \cup {c}}))
  /\ UNCHANGED <<page, generation>>

ListArchive(c) ==
  /\ c \in shown /\ list.view = "board" /\ Selectable(c)
  /\ loaded' = [loaded EXCEPT !.cards = Restrict(@, DOMAIN @ \ {c})]
  /\ list' = [list EXCEPT !.settled = FALSE]
  /\ Renders(loaded', page, list, generation, Restrict(index, DOMAIN index \ {<<"board", c>>}))
  /\ UNCHANGED <<page, generation>>

ListRestore(c) ==
  /\ c \in shown /\ list.view = "archive"
  /\ page' = Restrict(page, DOMAIN page \ {c})
  /\ list' = [list EXCEPT !.settled = FALSE]
  /\ Renders(loaded, page', list, generation, Restrict(index, DOMAIN index \ {<<"archive", c>>}))
  /\ UNCHANGED <<loaded, generation>>

ListNext ==
  \/ \E view \in {"board", "archive", "sprints", "projects"} : ListNavigate(view)
  \/ \E presentation \in {"board", "list"} : ListPresent(presentation)
  \/ \E scope \in ListScopes \cap (FixedScopes \cup DOMAIN loaded.sprints) : ListScope(scope)
  \/ \E f \in ListFilters : ListAddFilter(f[1], f[2]) \/ ListRemoveFilter(f[1], f[2])
  \/ ListClearFilters \/ \E query \in Queries \cup {None} : Search(query)
  \/ \E project \in loaded.known.project : ListOpenProject(project)
  \/ \E sprint \in SprintResults(loaded, list.filters) : ListViewSprint(sprint)
  \/ \E url \in AddressesTravelled : ListTravel(url)
  \/ \E c \in DOMAIN loaded.cards : SetBulkSelected(c)
  \/ SelectAllBulk \/ ClearBulk \/ RunBulk \/ PruneSelection
  \/ \E b \in Boards : \/ ListRefresh(b, NoPage) \/ ListRefresh(b, b.archive)
                       \/ ListArchivePage(b.archive)
  \/ \E c \in DOMAIN loaded.cards, column \in DOMAIN loaded.columns :
       \E ranked \in SUBSET (DOMAIN loaded.cards \ {c}) : ListPlace(c, column, ranked)
  \/ \E c \in shown : ListArchive(c) \/ ListRestore(c)

ListSpec == ListInit /\ [][ListNext]_listVars

-----------------------------------------------------------------------------
(* Properties.                                                             *)

\* The cards shown are the ones a search of the present names finds: a card
\* object outlives the names it is searched by, and its text is kept with it
\* (itemHaystack, boardGeneration).
ShownIsCurrent ==
  shown = {c \in Candidates(loaded, page, list) :
             list.query = None
               \/ list.query \in Haystack(loaded, CardsOf(loaded, page, list.body)[c])}

\* Once the list's effect ran, every card ticked is shown and can be changed,
\* whatever hid, archived or removed it meanwhile: a bulk command acts on the
\* number of cards its bar announces (prunedBulkSelection, bulkTargets).
SelectionIsShown ==
  list.settled /\ InList(list) =>
    /\ BulkTargets(list) = list.bulk
    /\ Ticked(list) \subseteq shown /\ Cardinality(Ticked(list)) = Len(list.bulk)

\* ProjectSummary and SprintPanel, which count cards of their own.
ProjectItems(project) ==
  {c \in DOMAIN loaded.cards :
     ~loaded.cards[c].archived /\ project \in loaded.cards[c].projects}
Unscheduled(project) ==
  {c \in ProjectItems(project) :
     ~Done(loaded, loaded.cards[c]) /\ loaded.cards[c].sprints = {}}
ActiveSprints(project) ==
  {s \in DOMAIN loaded.sprints :
     loaded.sprints[s] = "active" /\ \E c \in ProjectItems(project) : s \in loaded.cards[c].sprints}
Coverage(project, s) == {c \in ProjectItems(project) : s \in loaded.cards[c].sprints}
PanelItems(s, filters) == {c \in ScopeItems(loaded, s) : MatchesWork(loaded.cards[c], filters)}

\* computeFilteredItems, of Planning.
InPlanning(scope, filters) == FilteredItems(loaded, page, "board", scope, filters)
\* What is counted outside the body is what the body shows.  The project
\* summary counts the cards of the project's lens, as unscheduled those of its
\* backlog, and by sprint those of the active ones (ProjectSummary); a sprint's
\* panel counts the cards Planning shows for it under the same filters, of a
\* closed sprint the archived ones too (sprintFilterItems, computeFilteredItems).
CountsMatchTheView ==
  /\ \A project \in loaded.known.project :
       LET lone == [EmptyFilters EXCEPT !.project = <<project>>]
       IN  /\ InPlanning("all", lone) = ProjectItems(project)
           /\ InPlanning("backlog", lone) = Unscheduled(project)
           /\ \A s \in ActiveSprints(project) : InPlanning(s, lone) = Coverage(project, s)
           /\ InPlanning("active", lone)
                = UNION {Coverage(project, s) : s \in ActiveSprints(project)}
  /\ \A s \in DOMAIN loaded.sprints :
       LET counted == [list.filters EXCEPT !.label = <<>>]
       IN  InPlanning(s, counted) = PanelItems(s, counted)
=============================================================================
