------------------------------ MODULE FluxLens ------------------------------
(***************************************************************************)
(* The planning view as a function of the board (filters.js, items.js,     *)
(* url-state.js): the rules of filter values, the cards a view shows, and  *)
(* the address a view is kept under and read back from.  No state here:    *)
(* FluxList and FluxNavigation hold it.                                    *)
(*                                                                         *)
(* A lens is what the address keeps of a view: the presentation, the scope *)
(* and the filters.  Names and titles are the words they are searched by.  *)
(***************************************************************************)
EXTENDS FluxSequences

CONSTANTS
  Boards,   \* the boards the server may answer with
  Pieces,   \* what a filter value is split into at its commas
  None

FilterNames == {"project", "assignee", "label"}
FixedScopes == {"active", "backlog", "all"}
EmptyFilters == [name \in FilterNames |-> <<>>]

\* A board as the views read it: its cards are in sprints of the board
\* (Validate), and no identifier is a word the filters use (NewID).
WellFormed(b) ==
  /\ DOMAIN b = {"known", "names", "columns", "sprints", "scoped", "cards", "archive"}
  /\ DOMAIN b.known = FilterNames /\ "none" \notin b.known["project"]
  /\ DOMAIN b.sprints \cap FixedScopes = {} /\ IsFiniteSet(DOMAIN b.cards)
  /\ \A c \in DOMAIN b.cards :
       /\ DOMAIN b.cards[c] = {"archived", "column", "projects", "assignee", "labels",
                               "sprints", "words"}
       /\ b.cards[c].sprints \subseteq DOMAIN b.sprints

ASSUME LensAssumption ==
  \A b \in Boards :
    WellFormed(b) /\ b.scoped \in [DOMAIN b.sprints -> SUBSET DOMAIN b.cards]

-----------------------------------------------------------------------------
(* Filter values.                                                          *)

Without(values, value) == Only(values, ToSet(values) \ {value})

\* `none' is exclusive, and "all" is no value.
WithFilterValue(values, value) ==
  IF value = "all" THEN <<>>
  ELSE IF value = "none" THEN <<"none">>
  ELSE Append(Without(Without(values, "none"), value), value)

MatchesFilter(values, candidates) ==
  \/ values = <<>>
  \/ IF Contains(values, "none") THEN candidates = {}
     ELSE candidates \cap ToSet(values) # {}

KnownFilterValue(name, value, b) == value = "none" \/ value \in b.known[name]

KnownFilters(filters, b) ==
  [name \in FilterNames |->
     SelectSeq(filters[name], LAMBDA v : KnownFilterValue(name, v, b))]

KnownScope(scope, b) ==
  IF scope \in FixedScopes \cup DOMAIN b.sprints THEN scope ELSE "active"

SingleFilterValue(name, filters) ==
  IF Len(filters[name]) = 1 THEN filters[name][1] ELSE "all"

-----------------------------------------------------------------------------
(* The cards of a view.                                                    *)

Done(b, card) == b.columns[card.column] = "done"

\* A closed sprint keeps the scope it was closed with, archived cards included.
ScopeItems(b, sprint) ==
  IF b.sprints[sprint] = "closed" THEN b.scoped[sprint] \cap DOMAIN b.cards
  ELSE {c \in DOMAIN b.cards : ~b.cards[c].archived /\ sprint \in b.cards[c].sprints}

MatchesWork(card, filters) ==
  /\ MatchesFilter(filters.project, card.projects)
  /\ MatchesFilter(filters.assignee, card.assignee)
MatchesItemFilters(card, filters) ==
  MatchesWork(card, filters) /\ MatchesFilter(filters.label, card.labels)

\* A bug: archived cards are left out of every view.
InScopeLive(b, c, scope) ==
  LET card == b.cards[c] IN
  /\ ~card.archived
  /\ scope = "active" => \E s \in card.sprints : b.sprints[s] = "active"
  /\ scope = "backlog" => card.sprints = {} /\ ~Done(b, card)
  /\ scope \in DOMAIN b.sprints => c \in ScopeItems(b, scope)

\* Archived cards are work of the closed sprints that list them, and nothing else.
InScope(b, c, scope) ==
  LET card == b.cards[c] IN
  /\ card.archived => scope \in DOMAIN b.sprints /\ b.sprints[scope] = "closed"
  /\ scope = "active" => \E s \in card.sprints : b.sprints[s] = "active"
  /\ scope = "backlog" => card.sprints = {} /\ ~Done(b, card)
  /\ scope \in DOMAIN b.sprints => c \in ScopeItems(b, scope)

\* computeFilteredItems, but for the search query.
FilteredItems(b, page, view, scope, filters) ==
  IF view = "archive"
  THEN {c \in DOMAIN page : page[c].archived /\ MatchesItemFilters(page[c], filters)}
  ELSE {c \in DOMAIN b.cards :
          InScope(b, c, scope) /\ MatchesItemFilters(b.cards[c], filters)}

\* The sprints of the Sprints page: all of them until a filter of work is set.
SprintResults(b, filters) ==
  {s \in DOMAIN b.sprints :
     \/ filters.project = <<>> /\ filters.assignee = <<>>
     \/ \E c \in ScopeItems(b, s) : MatchesWork(b.cards[c], filters)}

-----------------------------------------------------------------------------
(* The address of a view.                                                  *)

\* Values are joined by commas, so one that holds a comma is split in the
\* address; no value at all is written as "all".
Joined(values) ==
  IF values = <<>> THEN <<"all">> ELSE FlattenSeq([i \in DOMAIN values |-> Pieces[values[i]]])

PlanningURL(lens, card) ==
  [mode |-> lens.presentation, scope |-> lens.scope, item |-> card,
   filters |-> [name \in FilterNames |-> Joined(lens.filters[name])]]

\* What the address asks for, as far as the board knows it.  A project alone
\* is shown as a list of all its work unless the address says otherwise.
PlanningPatchFromURL(url, b) ==
  LET read(name) == FoldLeft(WithFilterValue, <<>>,
                      SelectSeq(url.filters[name],
                        LAMBDA v : v # "all" /\ KnownFilterValue(name, v, b)))
      filters == [name \in FilterNames |-> read(name)]
      lone == SingleFilterValue("project", filters) \notin {"all", "none"}
  IN  [filters |-> filters,
       presentation |-> IF url.mode = "list" \/ (url.mode = None /\ lone)
                        THEN "list" ELSE "board",
       scope |-> IF url.scope \in FixedScopes \cup DOMAIN b.sprints THEN url.scope
                 ELSE IF lone THEN "all" ELSE "active"]
=============================================================================
