---------------------------- MODULE MCFluxViews ----------------------------
(***************************************************************************)
(* FluxViews for TLC.                                                      *)
(***************************************************************************)
EXTENDS FluxViews, TLC

-----------------------------------------------------------------------------
(* Boards: a label that holds a comma, a project and a sprint; the same    *)
(* with another name and other work; the same with the sprint closed; and  *)
(* one on which all of them are gone.                                      *)

MCPieces ==
  [v \in {"p", "q", "x,y", "none"} |-> IF v = "x,y" THEN <<"x", "y">> ELSE <<v>>]

Card(column, sprints) ==
  [archived |-> FALSE, column |-> column, projects |-> {"p"}, assignee |-> {},
   labels |-> {}, sprints |-> sprints, words |-> {"fix"}]
Archived == [Card("todo", {}) EXCEPT !.archived = TRUE]

Base ==
  [known |-> [project |-> {"p"}, assignee |-> {}, label |-> {"x,y"}],
   names |-> ("p" :> "red"), columns |-> ("todo" :> "todo" @@ "done" :> "done"),
   sprints |-> ("s" :> "active"), scoped |-> ("s" :> {}),
   cards |-> ("A" :> Card("todo", {"s"}) @@ "B" :> [Card("done", {}) EXCEPT !.labels = {"x,y"}]),
   archive |-> ("C" :> Archived)]
Renamed ==
  [Base EXCEPT !.names = ("p" :> "blue"),
               !.cards["B"].projects = {}, !.cards["B"].column = "todo"]
Closed ==
  [Base EXCEPT !.sprints = ("s" :> "closed"), !.scoped = ("s" :> {"A", "B"}),
               !.cards["A"] = Archived, !.names = ("p" :> "blue"), !.archive = ("A" :> Archived)]
Bare ==
  [Base EXCEPT !.known = [name \in FilterNames |-> {}], !.names = <<>>,
               !.sprints = <<>>, !.scoped = <<>>,
               !.cards = ("A" :> [Card("todo", {}) EXCEPT !.projects = {}]),
               !.archive = [c \in {"B", "C"} |-> [Archived EXCEPT !.projects = {}]]]
MCBoards == {Base, Renamed, Closed, Bare}

Link(card) ==
  [mode |-> None, scope |-> None, item |-> card, filters |-> [name \in FilterNames |-> <<>>]]
MCOpened ==
  {Link(None), Link("C"), [Link("B") EXCEPT !.mode = "list"],
   [Link(None) EXCEPT !.filters.project = <<"none", "p", "q">>]}
MCTravelled == {[Link(None) EXCEPT !.mode = "list", !.scope = "s"], Link(None)}
MCFilters == {<<"project", "p">>, <<"label", "none">>}

MCLimits == ("todo" :> 0 @@ "done" :> 2)
MCDependencies == ("A" :> {"B"} @@ "B" :> {"C"} @@ "C" :> {})

-----------------------------------------------------------------------------
(* Bounds.  Of the starting states of the parts that stand still, one.     *)

AddressBound ==
  IF part = "address" THEN board \in {Base, Bare}
  ELSE board = Base /\ ~busy /\ reads = {} /\ tab.shared = None /\ tab.lens.filters = EmptyFilters

\* One card at most was moved or archived since the board was read, and that
\* on the board without a filter.  A search comes with a project or no filter;
\* cards are ticked without a label filter; a page starts from the lens the tab
\* starts with.
Moved(b) ==
  {c \in DOMAIN b.cards : c \notin DOMAIN loaded.cards \/ loaded.cards[c] # b.cards[c]}
ListBound ==
  IF part = "list"
  THEN /\ \E b \in {Base, Renamed, Closed} :
            /\ loaded.known = b.known
            /\ \/ Moved(b) = {}
               \/ Cardinality(Moved(b)) = 1 /\ list.filters = EmptyFilters
                    /\ list.view = "board"
       /\ list.query # None =>
            list.filters = EmptyFilters
              \/ list.filters = [EmptyFilters EXCEPT !.project = <<"p">>]
       /\ list.bulk # <<>> => list.filters.label = <<>>
       /\ list.view \in {"sprints", "projects"} =>
            list.query = None /\ (list.scope = "active" \/ list.body = "archive")
       /\ list.view = "archive" =>
            list.scope = "active" /\ list.filters = EmptyFilters /\ list.presentation = "list"
  ELSE loaded = Bare

ViewsBound == AddressBound /\ ListBound

AtRest ==
  /\ server = [items |-> <<"A", "B", "C">>, columns |-> <<"todo", "done">>,
               archived |-> {}, column |-> [c \in Cards |-> "todo"]]
  /\ hidden = {} /\ closed = FALSE

MCInit ==
  /\ part \in {"address", "list", "placement"}
  /\ NavigationInit /\ AddressBound
  /\ ListInit /\ ListBound /\ loaded # Renamed
  /\ IF part = "placement" THEN PlacementInit ELSE AtRest

MCSpec == MCInit /\ [][ViewsNext]_viewsVars
=============================================================================
