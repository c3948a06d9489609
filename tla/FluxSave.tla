------------------------------ MODULE FluxSave ------------------------------
(***************************************************************************)
(* How a command reaches the tables: the statements of Store.Change and    *)
(* save (internal/store/postgres.go).  A step of FluxBoard is one command; *)
(* the code writes the difference between the board it loaded and the      *)
(* board the command left, table by table, and PostgreSQL checks every     *)
(* foreign key at every statement.  A statement the keys reject fails the  *)
(* whole command, whatever Validate said of it.                            *)
(*                                                                         *)
(* The rows of one table are written one by one.  No reference leads from  *)
(* one table a phase writes to another one, so rows written and rows not   *)
(* yet written are each accepted for themselves, and the databases between *)
(* the phases tell all.  Links to GitLab are not part of the board here.   *)
(***************************************************************************)
EXTENDS FluxBoard

\* What is compared and stored of an item, its associations apart.  The row
\* mirrors one of the item's projects.
ItemRow(i) ==
    [column |-> item[i].column, assignee |-> item[i].assignee,
     mirrors |-> item[i].projects, archived |-> i \in archived,
     rank |-> IndexOf(items, i)]

\* The tables of the workspace: rows by primary key, associations as pairs.
Tables ==
    [memberships   |-> [u \in {u \in Subject : members[u] # None} |-> members[u]],
     projects      |-> projects,
     board_columns |-> [c \in ToSet(columns) |->
                          [record |-> column[c], position |-> IndexOf(columns, c)]],
     sprints       |-> [s \in {s \in Sprint : sprint[s] # None} |-> sprint[s]],
     work_items    |-> [i \in Existing |-> ItemRow(i)],
     labels        |-> labels,
     item_labels   |-> UNION {{i} \X item[i].labels : i \in Existing},
     item_projects |-> UNION {{i} \X item[i].projects : i \in Existing},
     item_sprints  |-> UNION {{i} \X item[i].sprints : i \in Existing},
     dependencies  |-> UNION {{i} \X item[i].deps : i \in Existing},
     closed_scope  |-> closedScope,
     closures      |-> [s \in {s \in Sprint : closure[s] # None} |-> closure[s]]]

\* A renamed label would be dropped from the catalog under its carriers.
Order_CatalogFirst ==
    <<"members", "projects", "columns", "sprints", "items", "dropLabels",
      "labels", "withdraw", "associate", "dropColumns", "withdrawScope",
      "scope", "closures">>

\* The statements of one command, in the order in which they are sent.
Order ==
    <<"members", "projects", "columns", "sprints", "items", "withdraw",
      "dropLabels", "labels", "associate", "dropColumns", "withdrawScope",
      "scope", "closures">>

\* The keys of a table while its rows are dropped and written.  Both go by the
\* difference: a row that both boards have stays in the table throughout.
Keys(old, new, dropped, written) ==
    {k \in old : dropped => k \in new} \cup {k \in new : written}

\* Its rows: an upsert replaces what it finds under the key.
Rows(old, new, dropped, written) ==
    [k \in Keys(DOMAIN old, DOMAIN new, dropped, written) |->
        IF written /\ k \in DOMAIN new THEN new[k] ELSE old[k]]

\* The database between two statements.  Projects, sprints, items and closures
\* are never deleted: save refuses a board that lost an item.
Database(old, new, done) ==
    [memberships   |-> Rows(old.memberships, new.memberships,
                            "members" \in done, "members" \in done),
     projects      |-> Keys(old.projects, new.projects, FALSE, "projects" \in done),
     board_columns |-> Rows(old.board_columns, new.board_columns,
                            "dropColumns" \in done, "columns" \in done),
     sprints       |-> Rows(old.sprints, new.sprints, FALSE, "sprints" \in done),
     work_items    |-> Rows(old.work_items, new.work_items, FALSE, "items" \in done),
     labels        |-> Keys(old.labels, new.labels,
                            "dropLabels" \in done, "labels" \in done),
     item_labels   |-> Keys(old.item_labels, new.item_labels,
                            "withdraw" \in done, "associate" \in done),
     item_projects |-> Keys(old.item_projects, new.item_projects,
                            "withdraw" \in done, "associate" \in done),
     item_sprints  |-> Keys(old.item_sprints, new.item_sprints,
                            "withdraw" \in done, "associate" \in done),
     dependencies  |-> Keys(old.dependencies, new.dependencies,
                            "withdraw" \in done, "associate" \in done),
     closed_scope  |-> Keys(old.closed_scope, new.closed_scope,
                            "withdrawScope" \in done, "scope" \in done),
     closures      |-> Rows(old.closures, new.closures, FALSE, "closures" \in done)]

\* The statements sent so far, and the databases on the way.
Done(n) == {Order[k] : k \in 1..n}
Databases(old, new) == {Database(old, new, Done(n)) : n \in 0..Len(Order)}

\* The foreign keys and checks of the schema.
References(db) ==
    LET stored == DOMAIN db.work_items
        sprintRows == DOMAIN db.sprints
    IN  /\ \A i \in stored :
             /\ db.work_items[i].column \in DOMAIN db.board_columns
             /\ db.work_items[i].assignee \in DOMAIN db.memberships \cup {None}
             /\ db.work_items[i].mirrors \subseteq db.projects
        /\ db.item_labels \subseteq stored \X db.labels
        /\ db.item_projects \subseteq stored \X db.projects
        /\ db.item_sprints \subseteq stored \X sprintRows
        /\ db.dependencies \subseteq {p \in stored \X stored : p[1] # p[2]}
        /\ db.closed_scope \subseteq sprintRows \X stored
        /\ DOMAIN db.closures \subseteq sprintRows

Stored(old, new) ==
    /\ \A db \in Databases(old, new) : References(db)
    /\ Database(old, new, Done(Len(Order))) = new

\* No command is refused by the database: after every statement each row
\* refers to rows that are there, whatever the command renamed, moved or
\* deleted, and the last statement leaves exactly the board of the answer.
\* (The singletons name the two boards, so that each is built once a step.)
SaveKeepsReferences ==
    [][\A old \in {Tables}, new \in {Tables'} : Stored(old, new)]_vars

=============================================================================
