---------------------------- MODULE MCFluxBoard ----------------------------
(***************************************************************************)
(* Small boards for TLC.  A run explores several "stories": sets of boards *)
(* that differ in what is populated, so that each question is asked where  *)
(* it bites and the run stays small.  Every story starts from the initial  *)
(* board.                                                                  *)
(***************************************************************************)
EXTENDS FluxSave, TLC

CONSTANTS
    todo, done,  \* two columns
    Late         \* rows only the stories about limits create

\* Workspaces start with an unlimited first column and a done column.
TwoColumns == <<todo, done>>
TwoColumnRecords ==
    [c \in Column |->
        CASE c = todo -> [category |-> "todo", wip |-> 0]
          [] c = done -> [category |-> "done", wip |-> 0]
          [] OTHER -> None]

\* Rows of one pool are interchangeable.
ItemSprintSymmetry == Permutations(Item \ Late) \cup Permutations(Sprint \ Late)
ItemLabelSymmetry == Permutations(Item) \cup Permutations(Label)

\* What a state is, but for the rows the last command advanced: the
\* properties that speak of them are about the step.
Board == <<items, item, archived, columns, column, projects, labels, members,
           sprint, closedScope, closure>>

\* Bounds the stories are made of.
Plain == \A i \in Existing : item[i].assignee = None /\ item[i].deps = {}
Unlabelled == labels = {}
NoSprints == \A s \in Sprint : sprint[s] = None
Alone == \A u \in Subject \ {Creator} : members[u] = None
ColumnsAsCreated == columns = InitColumns /\ column = InitColumn
OneTodoColumn == columns = InitColumns /\ column[todo] = InitColumn[todo]
CreatedSprints == {s \in Sprint : sprint[s] # None}

-----------------------------------------------------------------------------
\* Two items in two sprints; the first column may change category.
TwoSprints ==
    /\ Plain
    /\ Existing \cap Late = {} /\ CreatedSprints \cap Late = {}
    /\ columns = InitColumns
    /\ column[done] = InitColumn[done]
    /\ column[todo].category # "doing"

\* More items, or more sprints, than the limits allow to be live.
ItemsAtLimit ==
    /\ Plain /\ NoSprints /\ OneTodoColumn
    /\ \A i \in Existing : item[i].column = todo
SprintsAtLimit == items = <<>> /\ ColumnsAsCreated

SprintStories == TwoSprints \/ ItemsAtLimit \/ SprintsAtLimit

-----------------------------------------------------------------------------
\* Two items with labels, dependencies and an assignee, in columns that keep
\* their categories but for the second.
Content ==
    /\ NoSprints /\ Alone /\ projects = {} /\ OneTodoColumn
    /\ column[done].category = "done"

\* One item with a project, a label and a sprint.
Mixed == Len(items) <= 1 /\ Plain /\ Alone /\ ColumnsAsCreated

\* Two people and one item, while columns are moved, deleted and created again.
People ==
    /\ Len(items) <= 1 /\ NoSprints /\ Unlabelled
    /\ \A c \in Column : column[c] \in {InitColumn[c], None}

ContentStories == Content \/ Mixed \/ People
=============================================================================
