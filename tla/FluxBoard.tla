----------------------------- MODULE FluxBoard -----------------------------
(***************************************************************************)
(* The planning state of one workspace and the commands that change it:    *)
(* planning.Apply and planning.Validate (internal/planning/model.go), with *)
(* the closure summary that store.Change writes beside a closing sprint.   *)
(*                                                                         *)
(* A command is one action.  The code applies it to a transaction-local    *)
(* copy and discards the copy when a check fails or when Validate rejects  *)
(* the result, so an action's guard holds the command's own checks and its *)
(* last conjunct is Validate'.  Who may send which command, idempotency    *)
(* keys, revisions and concurrent transactions are FluxChange's subject.   *)
(*                                                                         *)
(* The identifier sets are the pools NewID draws from, so their sizes play *)
(* the limits on columns, projects, labels and stored items.  The limits   *)
(* on the live working set are the constants MaxItems and MaxSprints.      *)
(***************************************************************************)
EXTENDS Integers, FiniteSets, Sequences, SequencesExt

CONSTANTS
    Item, Sprint, Column, Project, Label,  \* identifiers
    Subject,                               \* people
    MaxItems, MaxSprints,                  \* limits on what is not archived
    MaxDependencies,                       \* limit on what one item waits for
    Wip,                                   \* WIP limits a column may get
    InitColumns, InitColumn,               \* the columns of a new workspace
    Creator,                               \* the person who created it
    None                                   \* no identifier, no record

Category == {"todo", "doing", "done"}
Role == {"viewer", "member", "admin"}
SprintState == {"planned", "active", "closed", "archived"}

ColumnRecord == [category: Category, wip: Wip]

\* What a client sends of an item.  Titles, dates and texts are left out.
ItemContent ==
    [column: Column, sprints: SUBSET Sprint, projects: SUBSET Project,
     labels: SUBSET Label, deps: SUBSET Item, assignee: Subject \cup {None}]

\* The summary stored when a sprint closes.  The code stores the sizes of
\* completed and carried; the sets say which items were counted.
Closure == [scope: SUBSET Item, completed: SUBSET Item, carried: SUBSET Item]

ASSUME BoardAssumption ==
    /\ MaxItems \in Nat \ {0}
    /\ MaxSprints \in Nat \ {0}
    /\ MaxDependencies \in Nat
    /\ Wip \subseteq Nat
    /\ InitColumns \in Seq(Column) /\ IsInjective(InitColumns)
    /\ InitColumn \in [Column -> ColumnRecord \cup {None}]
    /\ \A c \in Column : c \in ToSet(InitColumns) <=> InitColumn[c] # None
    /\ IsFiniteSet(Subject) /\ Creator \in Subject
    /\ None \notin Item \cup Sprint \cup Column \cup Project \cup Label
    /\ None \notin Subject \cup Role \cup SprintState
    /\ None \notin ItemContent \cup ColumnRecord \cup Closure

VARIABLES
    items,        \* the items in rank order
    item,         \* their content
    archived,     \* the items that are archived
    columns,      \* the columns in board order
    column,       \* category and WIP limit of each column
    projects,     \* the projects of the workspace
    labels,       \* the label catalog
    members,      \* role of each person, None outside the workspace
    sprint,       \* state of each sprint, None before it is created
    closedScope,  \* <<sprint, item>>: the scope a closed sprint preserved
    closure,      \* the closure summary of a sprint, None before it closes
    bumped        \* rows whose revision the last command advanced

vars == <<items, item, archived, columns, column, projects, labels, members,
          sprint, closedScope, closure, bumped>>

-----------------------------------------------------------------------------
(* Reading the board *)

Existing == ToSet(items)
Active == Existing \ archived
Members(s) == {i \in Existing : s \in item[i].sprints}
Scope(s) == {i \in Item : <<s, i>> \in closedScope}
Open(s) == sprint[s] \in {"planned", "active"}
Admins == {u \in Subject : members[u] = "admin"}
InCategory(i, cat) == column[item[i].column].category = cat

\* Planned, active and closed sprints count; archived history does not.
activeSprintCount ==
    Cardinality({s \in Sprint : sprint[s] \notin {None, "archived"}})
activeItemCount == Cardinality(Active)

\* An item is created or restored, and a sprint created, only while there is
\* room for one more.
roomForItem_OffByOne == activeItemCount <= MaxItems
roomForItem == activeItemCount < MaxItems
roomForSprint == activeSprintCount < MaxSprints

\* Position of x in a sequence that holds it.
IndexOf(seq, x) == CHOOSE k \in DOMAIN seq : seq[k] = x

\* seq with x taken out and put back before another element, or at the end.
reorder(seq, x, before) ==
    LET rest == RemoveAt(seq, IndexOf(seq, x))
    IN  InsertAt(rest,
                 IF before = None THEN Len(rest) + 1 ELSE IndexOf(rest, before),
                 x)

\* A position that reorder accepts for x.
Anchor(seq, x, before) ==
    /\ x \in ToSet(seq)
    /\ before \in (ToSet(seq) \ {x}) \cup {None}

-----------------------------------------------------------------------------
(* Validate: what every saved board satisfies *)

ValidItem(i, content, gone, catalog, state) ==
    /\ content.column \in ToSet(columns)
    /\ content.assignee # None => members[content.assignee] # None
    /\ content.projects \subseteq projects
    /\ content.labels \subseteq catalog
    /\ content.deps \subseteq Existing \ {i}
    /\ Cardinality(content.deps) <= MaxDependencies
    /\ \A s \in content.sprints : state[s] \in {"planned", "active"} /\ i \notin gone

WipRespected(content, gone) ==
    \A c \in ToSet(columns) :
        column[c].wip > 0 =>
            Cardinality({i \in Existing \ gone : content[i].column = c}) <= column[c].wip

\* The depth-first search finds a cycle exactly when some set of items has
\* no member free of dependencies inside the set.
Acyclic(content) ==
    \A S \in SUBSET Existing :
        S # {} => \E i \in S : content[i].deps \cap S = {}

\* Validate on the board whose items have this content, of which these are
\* archived, with these labels and sprints.
Accepted(content, gone, catalog, state) ==
    /\ \A i \in Existing : ValidItem(i, content[i], gone, catalog, state)
    /\ WipRespected(content, gone)
    /\ Acyclic(content)

Validate == Accepted(item, archived, labels, sprint)

-----------------------------------------------------------------------------
(* A workspace as CreateWorkspace leaves it *)

Init ==
    /\ items = <<>>
    /\ item = [i \in Item |-> None]
    /\ archived = {}
    /\ columns = InitColumns
    /\ column = InitColumn
    /\ projects = {}
    /\ labels = {}
    /\ members = [u \in Subject |-> IF u = Creator THEN "admin" ELSE None]
    /\ sprint = [s \in Sprint |-> None]
    /\ closedScope = {}
    /\ closure = [s \in Sprint |-> None]
    /\ bumped = {}

itemVars == <<items, item, archived>>
columnVars == <<columns, column>>
sprintVars == <<sprint, closedScope, closure>>
catalogVars == <<projects, labels>>

-----------------------------------------------------------------------------
(* Items *)

\* item.create.  Labels the catalog lacks are added to it.
ItemCreate(i, content) ==
    /\ i \notin Existing
    /\ roomForItem
    /\ items' = Append(items, i)
    /\ item' = [item EXCEPT ![i] = content]
    /\ labels' = labels \cup content.labels
    /\ bumped' = {i}
    /\ UNCHANGED <<archived, columnVars, projects, members, sprintVars>>
    /\ Validate'

\* item.update replaces the whole content, the column included.
ItemUpdate(i, content) ==
    /\ i \in Active
    /\ item' = [item EXCEPT ![i] = content]
    /\ labels' = labels \cup content.labels
    /\ bumped' = {i}
    /\ UNCHANGED <<items, archived, columnVars, projects, members, sprintVars>>
    /\ Validate'

\* An archived item leaves its sprints.
Unplanned(i) == [item EXCEPT ![i].sprints = {}]

ItemArchive(i) ==
    /\ i \in Existing
    /\ archived' = archived \cup {i}
    /\ item' = Unplanned(i)
    /\ bumped' = {i}
    /\ UNCHANGED <<items, columnVars, catalogVars, members, sprintVars>>
    /\ Validate'

\* item.restore.  The command may name the sprints of the restored item;
\* without them (ids = None) it keeps what it has.  The code also accepts an
\* item that is not archived.
ItemRestore(i, ids) ==
    /\ i \in Existing
    /\ i \in archived => roomForItem
    /\ archived' = archived \ {i}
    /\ item' = IF ids = None THEN item
               ELSE [item EXCEPT ![i].sprints = ids]
    /\ bumped' = {i}
    /\ UNCHANGED <<items, columnVars, catalogVars, members, sprintVars>>
    /\ Validate'

ItemMove(i, destination, before) ==
    /\ i \in Active
    /\ Anchor(items, i, before)
    /\ item' = [item EXCEPT ![i].column = destination]
    /\ items' = reorder(items, i, before)
    /\ bumped' = {i}
    /\ UNCHANGED <<archived, columnVars, catalogVars, members, sprintVars>>
    /\ Validate'

\* item.rank leaves every item's revision alone.
ItemRank(i, before) ==
    /\ Anchor(items, i, before)
    /\ items' = reorder(items, i, before)
    /\ bumped' = {}
    /\ UNCHANGED <<item, archived, columnVars, catalogVars, members, sprintVars>>
    /\ Validate'

-----------------------------------------------------------------------------
(* Columns *)

columnUnchanged ==
    UNCHANGED <<archived, catalogVars, members, sprintVars>>

\* column.save without a target.
ColumnCreate(c, record) ==
    /\ c \notin ToSet(columns)
    /\ columns' = Append(columns, c)
    /\ column' = [column EXCEPT ![c] = record]
    /\ bumped' = {}
    /\ UNCHANGED <<items, item>>
    /\ columnUnchanged
    /\ Validate'

\* column.save of an existing column: its category and limit may change
\* under the items it holds.
ColumnSave(c, record) ==
    /\ c \in ToSet(columns)
    /\ column' = [column EXCEPT ![c] = record]
    /\ bumped' = {}
    /\ UNCHANGED <<items, item, columns>>
    /\ columnUnchanged
    /\ Validate'

\* column.delete moves the column's items, archived ones too.
ColumnDelete(c, destination) ==
    /\ {c, destination} \subseteq ToSet(columns)
    /\ c # destination
    /\ LET moved == {i \in Existing : item[i].column = c}
       IN  /\ item' = [i \in Item |->
                         IF i \in moved
                         THEN [item[i] EXCEPT !.column = destination]
                         ELSE item[i]]
           /\ bumped' = moved
    /\ columns' = RemoveAt(columns, IndexOf(columns, c))
    /\ column' = [column EXCEPT ![c] = None]
    /\ UNCHANGED items
    /\ columnUnchanged
    /\ Validate'

ColumnRank(c, before) ==
    /\ Anchor(columns, c, before)
    /\ columns' = reorder(columns, c, before)
    /\ bumped' = {}
    /\ UNCHANGED <<items, item, column>>
    /\ columnUnchanged
    /\ Validate'

-----------------------------------------------------------------------------
(* Projects and labels *)

ProjectCreate(p) ==
    /\ p \notin projects
    /\ projects' = projects \cup {p}
    /\ bumped' = {p}
    /\ UNCHANGED <<itemVars, columnVars, labels, members, sprintVars>>
    /\ Validate'

\* project.save of an existing project changes its name alone.
ProjectSave(p) ==
    /\ p \in projects
    /\ bumped' = {p}
    /\ UNCHANGED <<itemVars, columnVars, catalogVars, members, sprintVars>>
    /\ Validate'

Carriers_Live(l) == {i \in Active : l \in item[i].labels}

\* The items that carry label l, archived ones too.
Carriers(l) == {i \in Existing : l \in item[i].labels}

\* The carriers of l get the labels in "new" instead.
Relabelled(l, new) ==
    [i \in Item |->
        IF i \in Carriers(l)
        THEN [item[i] EXCEPT !.labels = (@ \ {l}) \cup new]
        ELSE item[i]]

relabel_KeepsRevision(l, new) ==
    /\ item' = Relabelled(l, new)
    /\ bumped' = Carriers(l) \ archived
    /\ UNCHANGED <<items, archived, columnVars, projects, members, sprintVars>>

\* Relabelled items get a new revision.
relabel(l, new) ==
    /\ item' = Relabelled(l, new)
    /\ bumped' = Carriers(l)
    /\ UNCHANGED <<items, archived, columnVars, projects, members, sprintVars>>

LabelCreate(l) ==
    /\ l \notin labels
    /\ labels' = labels \cup {l}
    /\ bumped' = {}
    /\ UNCHANGED <<itemVars, columnVars, projects, members, sprintVars>>
    /\ Validate'

\* label.save of an existing label: a new name, or (l = name) a new color,
\* which also advances the revision of every carrier.
LabelSave(l, name) ==
    /\ l \in labels
    /\ name \notin labels \ {l}
    /\ labels' = (labels \ {l}) \cup {name}
    /\ relabel(l, {name})
    /\ Validate'

LabelDelete(l) ==
    /\ l \in labels
    /\ labels' = labels \ {l}
    /\ relabel(l, {})
    /\ Validate'

-----------------------------------------------------------------------------
(* Members.  Only an administrator may send these commands. *)

memberUnchanged ==
    UNCHANGED <<itemVars, columnVars, catalogVars, sprintVars>>

\* member.name.
MemberName(actor, u) ==
    /\ actor \in Admins
    /\ members[u] # None
    /\ bumped' = {}
    /\ UNCHANGED members
    /\ memberUnchanged
    /\ Validate'

\* member.save without a target.
MemberAdd(actor, u, role) ==
    /\ actor \in Admins
    /\ members[u] = None
    /\ members' = [members EXCEPT ![u] = role]
    /\ bumped' = {}
    /\ memberUnchanged
    /\ Validate'

\* A role is given up or a person leaves only while an administrator remains.
keepOneAdministrator(u) == members[u] = "admin" => Cardinality(Admins) > 1

MemberSave(actor, u, role) ==
    /\ actor \in Admins
    /\ members[u] # None
    /\ role # "admin" => keepOneAdministrator(u)
    /\ members' = [members EXCEPT ![u] = role]
    /\ bumped' = {}
    /\ memberUnchanged
    /\ Validate'

MemberDelete(actor, u) ==
    /\ actor \in Admins
    /\ members[u] # None
    /\ keepOneAdministrator(u)
    /\ \A i \in Existing : item[i].assignee # u
    /\ members' = [members EXCEPT ![u] = None]
    /\ bumped' = {}
    /\ memberUnchanged
    /\ Validate'

-----------------------------------------------------------------------------
(* Sprints *)

sprintUnchanged == UNCHANGED <<items, archived, columnVars, catalogVars, members>>

SprintCreate(s) ==
    /\ sprint[s] = None
    /\ roomForSprint
    /\ sprint' = [sprint EXCEPT ![s] = "planned"]
    /\ bumped' = {s}
    /\ UNCHANGED <<item, closedScope, closure>>
    /\ sprintUnchanged
    /\ Validate'

\* sprint.save of an existing sprint changes name, goal and dates.
SprintSave(s) ==
    /\ Open(s)
    /\ bumped' = {s}
    /\ UNCHANGED <<item, sprint, closedScope, closure>>
    /\ sprintUnchanged
    /\ Validate'

SprintStart(s) ==
    /\ sprint[s] = "planned"
    /\ sprint' = [sprint EXCEPT ![s] = "active"]
    /\ bumped' = {s}
    /\ UNCHANGED <<item, closedScope, closure>>
    /\ sprintUnchanged
    /\ Validate'

Returning_Unfinished(s) ==
    {i \in (Scope(s) \cap Active) \ Members(s) : ~InCategory(i, "done")}

\* The items a reopened sprint takes back.
Returning(s) == (Scope(s) \cap Active) \ Members(s)

\* The live items of the preserved scope become members again.  The scope
\* rows and the closure summary stay until the next close replaces them.
SprintReopen(s) ==
    /\ sprint[s] = "closed"
    /\ item' = [i \in Item |->
                  IF i \in Returning(s)
                  THEN [item[i] EXCEPT !.sprints = @ \cup {s}]
                  ELSE item[i]]
    /\ bumped' = Returning(s) \cup {s}
    /\ sprint' = [sprint EXCEPT ![s] = "active"]
    /\ UNCHANGED <<closedScope, closure>>
    /\ sprintUnchanged
    /\ Validate'

SprintClosureFor_Members(s, destination, rows, content) ==
    [scope |-> {i \in Existing : s \in content[i].sprints},
     completed |-> {}, carried |-> {}]

\* The counts of the closing sprint, read from the scope rows and the items of
\* the board the close produced.
SprintClosureFor(s, destination, rows, content) ==
    LET scope == {i \in Item : <<s, i>> \in rows}
        finished == {i \in scope : column[content[i].column].category = "done"}
    IN  [scope |-> scope,
         completed |-> finished,
         carried |-> {i \in scope \ finished :
                        destination \in content[i].sprints}]

CanClose_Twice(s) == sprint[s] \in {"active", "closed"}
CanClose(s) == sprint[s] = "active"

\* The members of s replace the scope an earlier close preserved.
PreservedScope(s) == {p \in closedScope : p[1] # s} \cup ({s} \X Members(s))

\* The unfinished members of s, if there is a sprint to carry them to.
Carried(s, destination) ==
    {i \in Members(s) \ archived : destination # None /\ ~InCategory(i, "done")}

\* The members of s leave it; the unfinished ones join the destination, if
\* there is one.
Released(s, destination) ==
    [i \in Item |->
        IF i \in Members(s)
        THEN [item[i] EXCEPT !.sprints =
                (@ \ {s}) \cup
                (IF i \in Carried(s, destination) THEN {destination} ELSE {})]
        ELSE item[i]]

\* sprint.close: the members become the preserved scope and leave the sprint.
SprintClose(s, destination) ==
    /\ CanClose(s)
    /\ destination # None => destination # s /\ Open(destination)
    /\ closedScope' = PreservedScope(s)
    /\ item' = Released(s, destination)
    /\ bumped' = Members(s) \cup {s}
    /\ sprint' = [sprint EXCEPT ![s] = "closed"]
    /\ closure' = [closure EXCEPT ![s] =
                     SprintClosureFor(s, destination, closedScope', item')]
    /\ sprintUnchanged
    /\ Validate'

SprintArchive(s) ==
    /\ sprint[s] = "closed"
    /\ sprint' = [sprint EXCEPT ![s] = "archived"]
    /\ bumped' = {s}
    /\ UNCHANGED <<item, closedScope, closure>>
    /\ sprintUnchanged
    /\ Validate'

-----------------------------------------------------------------------------
\* A client may send any content; Validate refuses what is not on the board.
OnBoard(i) ==
    [column: ToSet(columns), sprints: SUBSET {s \in Sprint : Open(s)},
     projects: SUBSET projects, labels: SUBSET Label,
     deps: {D \in SUBSET (Existing \ {i}) : Cardinality(D) <= MaxDependencies},
     assignee: {u \in Subject : members[u] # None} \cup {None}]

ItemCommand ==
    \E i \in Item :
        \/ \E content \in OnBoard(i) :
             ItemCreate(i, content) \/ ItemUpdate(i, content)
        \/ ItemArchive(i)
        \/ \E ids \in (SUBSET Sprint) \cup {None} : ItemRestore(i, ids)
        \/ \E before \in Item \cup {None} :
             \/ ItemRank(i, before)
             \/ \E c \in Column : ItemMove(i, c, before)

ColumnCommand ==
    \E c \in Column :
        \/ \E record \in ColumnRecord :
             ColumnCreate(c, record) \/ ColumnSave(c, record)
        \/ \E d \in Column : ColumnDelete(c, d)
        \/ \E before \in Column \cup {None} : ColumnRank(c, before)

CatalogCommand ==
    \/ \E p \in Project : ProjectCreate(p) \/ ProjectSave(p)
    \/ \E l \in Label :
         \/ LabelCreate(l)
         \/ LabelDelete(l)
         \/ \E name \in Label : LabelSave(l, name)

MemberCommand ==
    \E actor, u \in Subject :
        \/ MemberName(actor, u)
        \/ MemberDelete(actor, u)
        \/ \E role \in Role : MemberAdd(actor, u, role) \/ MemberSave(actor, u, role)

SprintCommand ==
    \E s \in Sprint :
        \/ SprintCreate(s)
        \/ SprintSave(s)
        \/ SprintStart(s)
        \/ SprintReopen(s)
        \/ SprintArchive(s)
        \/ \E d \in Sprint \cup {None} : SprintClose(s, d)

Next == ItemCommand \/ ColumnCommand \/ CatalogCommand \/ MemberCommand \/ SprintCommand

Spec == Init /\ [][Next]_vars

-----------------------------------------------------------------------------
(* Properties *)

\* Every variable holds what the board's types allow; only stored rows have
\* content (the Board, Item, Column, Sprint and Member structs).
TypeOK ==
    /\ items \in Seq(Item)
    /\ item \in [Item -> ItemContent \cup {None}]
    /\ \A i \in Item : item[i] # None <=> i \in Existing
    /\ archived \subseteq Existing
    /\ columns \in Seq(Column)
    /\ column \in [Column -> ColumnRecord \cup {None}]
    /\ \A c \in Column : column[c] # None <=> c \in ToSet(columns)
    /\ projects \subseteq Project
    /\ labels \subseteq Label
    /\ members \in [Subject -> Role \cup {None}]
    /\ sprint \in [Sprint -> SprintState \cup {None}]
    /\ closedScope \subseteq Sprint \X Item
    /\ closure \in [Sprint -> Closure \cup {None}]
    /\ bumped \subseteq Item \cup Sprint \cup Project

\* No sequence of member commands, whoever sends them, leaves the workspace
\* without somebody who can manage it ("keep one administrator").
AdminRemains == Admins # {}

\* Rank and order survive every command: no item or column is listed twice,
\* so positions written back from the order are distinct.
OrderIsRanking == IsInjective(items) /\ IsInjective(columns)

\* The closure summary and the preserved scope are stored in two tables by two
\* statements; through any number of closes and reopens they agree, and a
\* sprint without a summary has no preserved scope.
ClosureMatchesScope ==
    \A s \in Sprint :
        /\ closure[s] = None => Scope(s) = {} /\ sprint[s] \in {None, "planned", "active"}
        /\ closure[s] # None =>
             /\ closure[s].scope = Scope(s)
             /\ sprint[s] \in {"active", "closed", "archived"}

\* Both limits on live work hold through creation, restore, reopen and
\* archive: an item or sprint that comes back counts again.
LiveWorkWithinLimits ==
    /\ activeItemCount <= MaxItems
    /\ activeSprintCount <= MaxSprints

\* No history of accepted commands leads to a board on which the commands
\* that take work away are refused: every active sprint can be closed without
\* carry-over, every item archived, every label deleted.  (A command that left
\* something Validate rejects would block each later command of its kind.)
NeverWedged ==
    /\ \A s \in Sprint : sprint[s] = "active" =>
         /\ CanClose(s)
         /\ Accepted(Released(s, None), archived, labels, [sprint EXCEPT ![s] = "closed"])
    /\ \A i \in Existing : Accepted(Unplanned(i), archived \cup {i}, labels, sprint)
    /\ \A l \in labels : Accepted(Relabelled(l, {}), archived, labels \ {l}, sprint)

\* A closed sprint's history is read-only: until it is reopened, no command
\* changes its preserved scope or its summary, and an archived sprint stays so.
ClosedHistoryFrozen ==
    [][\A s \in Sprint :
         sprint[s] \in {"closed", "archived"} /\ sprint'[s] # "active" =>
            /\ Scope(s)' = Scope(s)
            /\ closure'[s] = closure[s]
            /\ sprint'[s] \in {sprint[s], "archived"}]_vars

\* Reopening restores what the summary recorded: the members of the reopened
\* sprint are the items it closed with, less those archived since, whatever
\* happened to them in between; their other sprints stay.
ReopenRestoresScope ==
    [][\A s \in Sprint :
         sprint[s] = "closed" /\ sprint'[s] = "active" =>
            /\ Members(s)' = closure[s].scope \ archived
            /\ \A t \in Sprint \ {s} : Members(t)' = Members(t)]_vars

\* A stored row never changes behind its revision.  An editor compares the
\* revision it read (item.update, project.save, sprint.save); content that
\* changed without a new revision would be overwritten unnoticed.
RevisionsAdvance ==
    [][/\ \A i \in Item :
            item'[i] # item[i] \/ (i \in archived) # (i \in archived') => i \in bumped'
       /\ \A s \in Sprint : sprint'[s] # sprint[s] => s \in bumped']_vars

=============================================================================
