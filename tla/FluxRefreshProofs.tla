------------------------- MODULE FluxRefreshProofs -------------------------
(***************************************************************************)
(* Proofs about FluxRefresh for any number of workspaces, links, attempts  *)
(* and deliveries.  The argument: identifiers of links are never used      *)
(* twice and a run belongs to one link, so what an attempt remembers       *)
(* decides whether its answer may still go into the row; and a hint that   *)
(* was recorded is either still there or was taken by an attempt that      *)
(* began after the change it tells of.                                     *)
(***************************************************************************)
EXTENDS FluxRefresh, TLAPS

Typed == TypeOK /\ \A s \in Sources : Versions(s) > 0

\* What attempts and runs speak of was given out, and is still what it was.
IdentifiersLast ==
  /\ \A a \in Attempts : attempts[a] # None =>
       /\ attempts[a].link \in used
       /\ attempts[a].link \in DOMAIN links
            => links[attempts[a].link].target = attempts[a].source[2]
  /\ \A r \in Runs : pending[r] # None => pending[r] \in used

\* An attempt that was overtaken no longer has its link's run.
LateIsSuperseded ==
  \A a \in Attempts :
    attempts[a] # None /\ attempts[a].late /\ attempts[a].link \in DOMAIN links
      => links[attempts[a].link].run # attempts[a].run

RunsApart ==
  \A i, j \in DOMAIN links :
    i # j /\ links[i].run # None => links[i].run # links[j].run

-----------------------------------------------------------------------------
(* What a step may do to the links                                         *)

\* Some may go; those that stay keep everything but items, clocks and hints.
LinksStay ==
  /\ DOMAIN links' \subseteq DOMAIN links
  /\ \A i \in DOMAIN links' :
       /\ links'[i].workspace = links[i].workspace
       /\ links'[i].target = links[i].target
       /\ links'[i].refreshing = links[i].refreshing
       /\ links'[i].run = links[i].run
       /\ links'[i].observation = links[i].observation
       /\ links'[i].begun = links[i].begun
       /\ links[i].dirty => links'[i].dirty

\* No link that stays loses its approval or gets another instance.
ApprovalsStay ==
  \A i \in DOMAIN links' :
    LET w == links[i].workspace IN
    /\ instance'[w] = instance[w]
    /\ ProjectOf[links[i].target] \in approved[w]
         => ProjectOf[links[i].target] \in approved'[w]

\* Calls end or get an answer from GitLab.
AttemptsStay ==
  \A a \in Attempts : attempts'[a] # None =>
    /\ attempts[a] # None
    /\ attempts'[a].link = attempts[a].link
    /\ attempts'[a].source = attempts[a].source
    /\ attempts'[a].run = attempts[a].run
    /\ attempts'[a].late = attempts[a].late
    /\ \/ attempts'[a].answer \in {attempts[a].answer, Failed}
       \/ \E n \in 1..Versions(attempts[a].source) :
            attempts'[a].answer = Observed(attempts[a].source, n)

Quiet == LinksStay /\ ApprovalsStay /\ AttemptsStay /\ UNCHANGED <<used, pending>>

\* One row is added.
LinkArrives(i, w, t) ==
  /\ i \notin used /\ used' = used \cup {i}
  /\ DOMAIN links' = DOMAIN links \cup {i}
  /\ \A j \in DOMAIN links : links'[j] = links[j]
  /\ \E item \in Items : links'[i] = NewLink(w, t, item)
  /\ ProjectOf[t] \in approved[w]
  /\ \A j \in DOMAIN links : links[j].workspace = w => links[j].target # t
  /\ UNCHANGED <<connector, instance, approved, pending, attempts, history, webhooks>>

\* An attempt takes a link.
Begins(a, i) == Readable(i) /\ Reserve(a, i) /\ UNCHANGED <<planning, history, webhooks>>

Stores(a) == Finish(a) /\ Current(a)

WebhookStep ==
  \/ \E d \in Deliveries, inst \in Instances, t \in Targets :
       Send(d, inst, ProjectOf[t], {t})
  \/ \E d \in Deliveries, inst \in Instances, project \in Projects :
       Send(d, inst, project, {t \in Targets : ProjectOf[t] = project})
  \/ \E x \in Receivers, d \in Deliveries : Receive(x, d)
  \/ \E x \in Receivers, w \in Workspaces : EnqueueWorkspace(x, w)
  \/ \E x \in Receivers : Accept(x) \/ FailHook(x)
  \/ \E w \in Workspaces, d \in Deliveries : ForgetReceipt(w, d)

GitLabStep == \E s \in Sources, e \in Events : SourceChanges(s, e)

LEMMA Stay ==
  ASSUME Typed
  PROVE  /\ \A w \in Workspaces, ps \in SUBSET Projects :
              SaveIntegration(w, ps) => LinksStay
         /\ \A i \in Ids, item \in Items : DetachLink(i, item) => LinksStay
         /\ \A i \in Ids : CooldownEnds(i) \/ PollComesDue(i) => LinksStay
         /\ \A x \in Receivers, w \in Workspaces : EnqueueWorkspace(x, w) => LinksStay
         /\ UNCHANGED links => LinksStay
  <1> USE DEF LinksStay, Typed, TypeOK, Link
  <1>1. \A gone : links' = Without(gone) => LinksStay
    BY DEF Without
  <1>2. ASSUME NEW w \in Workspaces, NEW ps \in SUBSET Projects,
               SaveIntegration(w, ps)
        PROVE  LinksStay
    <2>1. \E gone : links' = Without(gone)
      BY <1>2 DEF SaveIntegration
    <2> QED BY ONLY <1>1, <2>1
  <1>3. ASSUME NEW i \in Ids, NEW item \in Items, DetachLink(i, item)
        PROVE  LinksStay
    <2>1. CASE links[i].items = {item}
      <3>1. links' = Without({i})
        BY <1>3, <2>1 DEF DetachLink
      <3> QED BY ONLY <1>1, <3>1
    <2>2. CASE links[i].items # {item}
      BY <1>3, <2>2 DEF DetachLink
    <2> QED BY <2>1, <2>2
  <1>4. ASSUME NEW i \in Ids, CooldownEnds(i) \/ PollComesDue(i)
        PROVE  LinksStay
    <2>1. links[i] \in Link /\ i \in DOMAIN links
      BY <1>4 DEF CooldownEnds, PollComesDue
    <2>2. CASE CooldownEnds(i)
      BY <2>1, <2>2 DEF CooldownEnds
    <2>3. CASE PollComesDue(i)
      BY <2>1, <2>3 DEF PollComesDue
    <2> QED BY <1>4, <2>2, <2>3
  <1>5. \A x \in Receivers, w \in Workspaces : EnqueueWorkspace(x, w) => LinksStay
    BY DEF EnqueueWorkspace
  <1>6. UNCHANGED links => LinksStay
    OBVIOUS
  <1> QED BY ONLY <1>2, <1>3, <1>4, <1>5, <1>6

-----------------------------------------------------------------------------
(* Types                                                                   *)

LEMMA TypedInitially == Init => Typed
  <1> SUFFICES ASSUME Init PROVE Typed
    OBVIOUS
  <1>1. \A s \in Sources : history[s] \in Seq(State) /\ Len(history[s]) = 1
    BY DEF Init, State
  <1>2. history \in [Sources -> Seq(State)]
    BY <1>1 DEF Init
  <1> QED BY <1>1, <1>2 DEF Init, Typed, TypeOK, Versions

LEMMA FreshRunExists ==
  ASSUME FreshRuns # {}
  PROVE  /\ NextRun \in Runs /\ pending[NextRun] = None
         /\ \A i \in DOMAIN links : links[i].run # NextRun
         /\ \A a \in Attempts : attempts[a] # None => attempts[a].run # NextRun
  BY DEF FreshRuns, NextRun

\* A row stays a row when its items or one of its flags change.
LEMMA RowTyped ==
  ASSUME NEW l \in Link, NEW its \in SUBSET Items, NEW flag \in BOOLEAN
  PROVE  /\ [l EXCEPT !.items = its] \in Link
         /\ [l EXCEPT !.dirty = flag] \in Link
         /\ [l EXCEPT !.cooling = flag] \in Link
         /\ [l EXCEPT !.due = flag] \in Link
  BY DEF Link

\* So does a table in which one row is replaced by another.
LEMMA TableTyped ==
  ASSUME NEW f, f \in [DOMAIN f -> Link], NEW g, NEW i, NEW l \in Link,
         g = [f EXCEPT ![i] = l]
  PROVE  DOMAIN g = DOMAIN f /\ g \in [DOMAIN g -> Link]
  OBVIOUS

LEMMA BeginTyped ==
  ASSUME Typed, NEW a \in Attempts, NEW i \in Ids, Begins(a, i)
  PROVE  /\ DOMAIN links' = DOMAIN links
         /\ links' \in [DOMAIN links -> Link]
         /\ pending' \in [Runs -> Ids \cup {None}]
         /\ attempts' \in [Attempts -> Attempt \cup {None}]
  <1> USE DEF Typed, TypeOK
  <1>1. i \in DOMAIN links /\ links[i] \in Link /\ SourceOf(i) \in Sources
    BY DEF Begins, Readable, SourceOf, Sources, Link
  <1>2. Versions(SourceOf(i)) \in Nat
    BY <1>1 DEF Versions
  <1>3. NextRun \in Runs
    BY FreshRunExists DEF Begins, Reserve
  <1>4. /\ DOMAIN links' = DOMAIN links
        /\ links' \in [DOMAIN links -> Link]
    BY <1>1, <1>2, <1>3 DEF Begins, Reserve, Link
  <1>5. pending' \in [Runs -> Ids \cup {None}]
    BY DEF Begins, Reserve
  <1>6. attempts' \in [Attempts -> Attempt \cup {None}]
    <2>1. [link |-> i, source |-> SourceOf(i), run |-> NextRun,
           answer |-> None, late |-> FALSE] \in Attempt
      BY <1>1, <1>3 DEF Attempt
    <2>2. \A b \in Attempts : attempts[b] # None
            => [attempts[b] EXCEPT !.late = TRUE] \in Attempt
      BY DEF Attempt
    <2> QED BY <2>1, <2>2 DEF Begins, Reserve
  <1> QED BY <1>4, <1>5, <1>6

LEMMA FinishTyped ==
  ASSUME Typed, NEW a \in Attempts, Finish(a)
  PROVE  /\ DOMAIN links' = DOMAIN links
         /\ links' \in [DOMAIN links -> Link]
         /\ pending' \in [Runs -> Ids \cup {None}]
         /\ attempts' \in [Attempts -> Attempt \cup {None}]
  <1> USE DEF Typed, TypeOK
  <1>1. attempts' \in [Attempts -> Attempt \cup {None}]
    BY DEF Finish
  <1>2. CASE Current(a)
    <2> DEFINE i == attempts[a].link
    <2>1. i \in DOMAIN links /\ links[i] \in Link /\ attempts[a] \in Attempt
      BY <1>2 DEF Finish, Current
    <2>2. Cached(links[i].observation, attempts[a].answer) \in Observation \cup {None}
      BY <2>1 DEF Finish, Cached, Attempt, Link
    <2> HIDE DEF i
    <2>3. /\ links' = [links EXCEPT
               ![i].observation = Cached(@, attempts[a].answer),
               ![i].refreshing = FALSE, ![i].cooling = TRUE, ![i].due = FALSE]
          /\ pending' = [pending EXCEPT ![attempts[a].run] = None]
      BY <1>2 DEF Finish, i
    <2> QED BY <1>1, <2>1, <2>2, <2>3 DEF Link
  <1> QED BY <1>1, <1>2 DEF Finish

LEMMA HistoryTyped ==
  ASSUME Typed, NEW s \in Sources, NEW e \in Events, SourceChanges(s, e)
  PROVE  /\ history' \in [Sources -> Seq(State)]
         /\ \A q \in Sources : Len(history'[q]) >= Len(history[q])
  <1> DEFINE new == After(history[s][Len(history[s])], e, Len(history[s]) + 1)
  <1>1. history[s] \in Seq(State) /\ Len(history[s]) > 0
    BY DEF Typed, TypeOK, Versions
  <1>2. new \in State
    <2>1. history[s][Len(history[s])] \in State
      BY <1>1
    <2> QED BY <1>1, <2>1 DEF After, State
  <1> HIDE DEF new
  <1>3. history' = [history EXCEPT ![s] = Append(history[s], new)]
    BY DEF SourceChanges, new
  <1>4. Append(history[s], new) \in Seq(State) /\ Len(Append(history[s], new)) = Len(history[s]) + 1
    BY <1>1, <1>2
  <1>5. \A q \in Sources : Len(history[q]) \in Nat
    BY DEF Typed, TypeOK
  <1> QED BY <1>3, <1>4, <1>5 DEF Typed, TypeOK

LEMMA TypedStep == Typed /\ [Next]_vars => Typed'
  <1> SUFFICES ASSUME Typed, [Next]_vars PROVE Typed'
    OBVIOUS
  <1> USE DEF Typed, TypeOK, Versions
  <1>1. CASE UNCHANGED vars
    BY <1>1 DEF vars
  <1>2. ASSUME NEW w \in Workspaces, NEW ps \in SUBSET Projects, SaveIntegration(w, ps)
        PROVE  Typed'
    BY <1>2 DEF SaveIntegration, Without, webhooks
  <1>3. ASSUME NEW w \in Workspaces, NEW item \in Items, NEW t \in Targets,
               AttachLink(w, item, t)
        PROVE  Typed'
    <2>1. NewLink(w, t, item) \in Link
      BY DEF NewLink, Link
    <2>2. /\ DOMAIN links' \subseteq used' /\ used' \subseteq Ids
          /\ links' \in [DOMAIN links' -> Link]
      <3>1. CASE \E i \in DOMAIN links :
                   /\ links' = [links EXCEPT ![i].items = @ \cup {item}]
                   /\ UNCHANGED used
        <4>1. PICK i \in DOMAIN links :
                /\ links' = [links EXCEPT ![i] = [links[i] EXCEPT !.items = @ \cup {item}]]
                /\ UNCHANGED used
          BY <3>1
        <4>2. [links[i] EXCEPT !.items = @ \cup {item}] \in Link
          <5>1. links[i] \in Link /\ links[i].items \cup {item} \in SUBSET Items
            BY DEF Link
          <5> QED BY <5>1, RowTyped
        <4> QED BY <4>1, <4>2, TableTyped
      <3>2. CASE \E i \in Ids \ used :
                   /\ links' = [j \in DOMAIN links \cup {i} |->
                                  IF j = i THEN NewLink(w, t, item) ELSE links[j]]
                   /\ used' = used \cup {i}
        BY <2>1, <3>2
      <3> QED BY <1>3, <3>1, <3>2 DEF AttachLink
    <2> QED BY <1>3, <2>2 DEF AttachLink, webhooks
  <1>4. ASSUME NEW i \in Ids, NEW item \in Items, DetachLink(i, item)
        PROVE  Typed'
    <2>1. /\ DOMAIN links' \subseteq DOMAIN links
          /\ links' \in [DOMAIN links' -> Link]
      <3>1. CASE links' = Without({i})
        BY <3>1 DEF Without
      <3>2. CASE links' = [links EXCEPT ![i].items = @ \ {item}]
        <4>1. links' = [links EXCEPT ![i] = [links[i] EXCEPT !.items = @ \ {item}]]
          BY <3>2
        <4>2. [links[i] EXCEPT !.items = @ \ {item}] \in Link
          <5>1. links[i] \in Link /\ links[i].items \ {item} \in SUBSET Items
            BY <1>4 DEF DetachLink, Link
          <5> QED BY <5>1, RowTyped
        <4> QED BY <4>1, <4>2, TableTyped
      <3> QED BY <1>4, <3>1, <3>2 DEF DetachLink
    <2> QED BY <1>4, <2>1 DEF DetachLink, planning, webhooks
  <1>5. ASSUME NEW inst \in Instances, Reconfigure(inst)
        PROVE  Typed'
    BY <1>5 DEF Reconfigure, webhooks
  <1>6. ASSUME NEW a \in Attempts, NEW i \in Ids, NEW k \in Keys, RequestRefresh(a, i, k)
        PROVE  Typed'
    <2>1. Begins(a, i)
      BY <1>6 DEF RequestRefresh, Begins
    <2> QED BY <1>6, <2>1, BeginTyped DEF RequestRefresh, planning, webhooks
  <1>7. ASSUME NEW a \in Attempts, NEW i \in Ids, BackgroundRefresh(a, i)
        PROVE  Typed'
    <2>1. Begins(a, i)
      BY <1>7 DEF BackgroundRefresh, Begins
    <2> QED BY <1>7, <2>1, BeginTyped DEF BackgroundRefresh, planning, webhooks
  <1>8. ASSUME NEW a \in Attempts, Answer(a)
        PROVE  Typed'
    <2>1. attempts[a] \in Attempt
      BY <1>8 DEF Answer
    <2>2. \A n \in 1..Versions(attempts[a].source) :
            Observed(attempts[a].source, n) \in Observation
      BY <2>1 DEF Observed, Observation, Attempt
    <2>3. \E v \in Observation \cup {Failed} :
            attempts' = [attempts EXCEPT ![a].answer = v]
      BY <1>8, <2>2 DEF Answer
    <2>4. attempts' \in [Attempts -> Attempt \cup {None}]
      BY <2>1, <2>3 DEF Attempt
    <2> QED BY <1>8, <2>4 DEF Answer, planning, webhooks
  <1>9. ASSUME NEW a \in Attempts, Finish(a)
        PROVE  Typed'
    BY <1>9, FinishTyped DEF Finish, planning, webhooks
  <1>10. ASSUME NEW a \in Attempts, Abandon(a)
        PROVE  Typed'
    BY <1>10 DEF Abandon, planning, webhooks
  <1>11. ASSUME NEW i \in Ids, CooldownEnds(i) \/ PollComesDue(i)
        PROVE  Typed'
    <2>1. /\ DOMAIN links' = DOMAIN links
          /\ links' \in [DOMAIN links' -> Link]
      <3> /\ [links[i] EXCEPT !.cooling = FALSE] \in Link
          /\ [links[i] EXCEPT !.due = TRUE] \in Link
        BY <1>11, RowTyped DEF CooldownEnds, PollComesDue
      <3>1. CASE CooldownEnds(i)
        <4>1. links' = [links EXCEPT ![i] = [links[i] EXCEPT !.cooling = FALSE]]
          BY <3>1 DEF CooldownEnds
        <4> QED BY <4>1, TableTyped
      <3>2. CASE PollComesDue(i)
        <4>1. links' = [links EXCEPT ![i] = [links[i] EXCEPT !.due = TRUE]]
          BY <3>2 DEF PollComesDue
        <4> QED BY <4>1, TableTyped
      <3> QED BY <1>11, <3>1, <3>2
    <2> QED BY <1>11, <2>1 DEF CooldownEnds, PollComesDue, planning, webhooks
  <1>12. ASSUME NEW s \in Sources, NEW e \in Events, SourceChanges(s, e)
        PROVE  Typed'
    <2>1. history' \in [Sources -> Seq(State)]
      BY <1>12, HistoryTyped
    <2>2. \A q \in Sources : Len(history'[q]) > 0
      <3>1. \A q \in Sources : Len(history[q]) \in Nat /\ Len(history'[q]) \in Nat
        BY <2>1
      <3> QED BY <1>12, <3>1, HistoryTyped
    <2> QED BY <1>12, <2>1, <2>2 DEF SourceChanges, planning, webhooks
  <1>13. ASSUME NEW d \in Deliveries, NEW inst \in Instances, NEW project \in Projects,
                NEW hits \in SUBSET Targets, Send(d, inst, project, hits)
        PROVE  Typed'
    <2>1. [instance |-> inst, project |-> project, hits |-> hits,
           at |-> [t \in Targets |-> Versions(<<inst, t>>)]] \in Hint
      BY DEF Hint, Sources
    <2>2. hooks' \in [Deliveries -> Hint \cup {None}]
      BY <1>13, <2>1 DEF Send
    <2> QED BY <1>13, <2>2 DEF Send, planning
  <1>14. ASSUME NEW x \in Receivers, NEW d \in Deliveries, Receive(x, d)
        PROVE  Typed'
    BY <1>14 DEF Receive, planning
  <1>15. ASSUME NEW x \in Receivers, NEW w \in Workspaces, EnqueueWorkspace(x, w)
        PROVE  Typed'
    <2>1. /\ DOMAIN links' = DOMAIN links
          /\ links' \in [DOMAIN links' -> Link]
      <3>1. CASE UNCHANGED links
        BY <3>1
      <3>2. CASE \E hit : links' = [i \in DOMAIN links |->
                   IF i \in hit THEN [links[i] EXCEPT !.dirty = TRUE] ELSE links[i]]
        BY <3>2, RowTyped, ZenonT(40)
      <3>3. \/ UNCHANGED links
            \/ \E hit : links' = [i \in DOMAIN links |->
                 IF i \in hit THEN [links[i] EXCEPT !.dirty = TRUE] ELSE links[i]]
        BY <1>15 DEF EnqueueWorkspace
      <3> QED BY <3>1, <3>2, <3>3
    <2>2. receipts' \subseteq Workspaces \X Deliveries
      BY <1>15 DEF EnqueueWorkspace
    <2> QED BY <1>15, <2>1, <2>2 DEF EnqueueWorkspace, planning
  <1>16. ASSUME NEW x \in Receivers, Accept(x) \/ FailHook(x)
        PROVE  Typed'
    BY <1>16 DEF Accept, FailHook, planning
  <1>17. ASSUME NEW w \in Workspaces, NEW d \in Deliveries, ForgetReceipt(w, d)
        PROVE  Typed'
    BY <1>17 DEF ForgetReceipt, planning
  <1>18. ASSUME NEW d \in Deliveries, NEW inst \in Instances, NEW t \in Targets,
                Send(d, inst, ProjectOf[t], {t})
         PROVE  Typed'
    <2>1. ProjectOf[t] \in Projects
      BY DomainsAssumption DEF DomainsAssumption
    <2> QED BY <1>13, <1>18, <2>1
  <1>19. ASSUME NEW d \in Deliveries, NEW inst \in Instances, NEW project \in Projects,
                Send(d, inst, project, {t \in Targets : ProjectOf[t] = project})
         PROVE  Typed'
    BY <1>13, <1>19
  <1> QED
    BY ONLY Next \/ UNCHANGED vars, <1>1, <1>2, <1>3, <1>4, <1>5, <1>6, <1>7, <1>8,
       <1>9, <1>10, <1>11, <1>12, <1>14, <1>15, <1>16, <1>17, <1>18, <1>19 DEF Next

\* Whatever refresh, saveIntegration and EnqueueWebhook do in any order: tables,
\* rows, attempts and deliveries keep their shape.
THEOREM TypeCorrect == Spec => []TypeOK
  <1>1. Typed => TypeOK
    BY DEF Typed
  <1> QED BY <1>1, TypedInitially, TypedStep, PTL DEF Spec

-----------------------------------------------------------------------------
(* Every step is one of six kinds                                          *)

LEMMA AttachCases ==
  ASSUME Typed, NEW w \in Workspaces, NEW item \in Items, NEW t \in Targets,
         AttachLink(w, item, t)
  PROVE  Quiet \/ \E i \in Ids : LinkArrives(i, w, t)
  <1>1. CASE \E i \in DOMAIN links :
               /\ links' = [links EXCEPT ![i].items = @ \cup {item}]
               /\ UNCHANGED used
    <2>1. LinksStay
      BY <1>1 DEF LinksStay, Typed, TypeOK, Link
    <2> QED
      BY <1>1, <2>1 DEF AttachLink, Quiet, ApprovalsStay, AttemptsStay
  <1>2. CASE /\ \A i \in DOMAIN links : links[i].workspace = w => links[i].target # t
             /\ \E i \in Ids \ used :
                  /\ links' = [j \in DOMAIN links \cup {i} |->
                                 IF j = i THEN NewLink(w, t, item) ELSE links[j]]
                  /\ used' = used \cup {i}
    <2>1. PICK i \in Ids \ used :
            /\ links' = [j \in DOMAIN links \cup {i} |->
                           IF j = i THEN NewLink(w, t, item) ELSE links[j]]
            /\ used' = used \cup {i}
      BY <1>2
    <2>2. i \notin DOMAIN links
      BY DEF Typed, TypeOK
    <2>3. LinkArrives(i, w, t)
      BY <1>2, <2>1, <2>2 DEF LinkArrives, AttachLink
    <2> QED BY <2>3
  <1> QED BY <1>1, <1>2 DEF AttachLink

LEMMA StepCases ==
  ASSUME Typed, [Next]_vars
  PROVE  \/ Quiet /\ UNCHANGED <<history, webhooks>>
         \/ Quiet /\ UNCHANGED <<history, planning>> /\ WebhookStep
         \/ Quiet /\ UNCHANGED webhooks /\ GitLabStep
         \/ \E i \in Ids, w \in Workspaces, t \in Targets : LinkArrives(i, w, t)
         \/ \E a \in Attempts, i \in Ids : Begins(a, i)
         \/ (\E a \in Attempts : Stores(a)) /\ UNCHANGED <<planning, history, webhooks>>
  <1> DEFINE Kinds ==
         \/ Quiet /\ UNCHANGED <<history, webhooks>>
         \/ Quiet /\ UNCHANGED <<history, planning>> /\ WebhookStep
         \/ Quiet /\ UNCHANGED webhooks /\ GitLabStep
         \/ \E i \in Ids, w \in Workspaces, t \in Targets : LinkArrives(i, w, t)
         \/ \E a \in Attempts, i \in Ids : Begins(a, i)
         \/ (\E a \in Attempts : Stores(a)) /\ UNCHANGED <<planning, history, webhooks>>
  <1>1. UNCHANGED <<instance, approved>> => (LinksStay => ApprovalsStay)
    BY DEF ApprovalsStay
  <1>2. UNCHANGED attempts => AttemptsStay
    BY DEF AttemptsStay
  <1>3. UNCHANGED links => LinksStay
    BY Stay
  <1>4. ASSUME UNCHANGED vars
        PROVE  Kinds
    BY <1>1, <1>2, <1>3, <1>4 DEF vars, Quiet, webhooks
  <1>5. ASSUME NEW w \in Workspaces, NEW ps \in SUBSET Projects, SaveIntegration(w, ps)
        PROVE  Kinds
    <2>1. LinksStay
      BY <1>5, Stay
    <2>2. ApprovalsStay
      BY <1>5 DEF SaveIntegration, ApprovalsStay, Without, Revoked, Typed, TypeOK
    <2> QED BY <1>2, <1>5, <2>1, <2>2 DEF SaveIntegration, Quiet
  <1>6. ASSUME NEW w \in Workspaces, NEW item \in Items, NEW t \in Targets,
               AttachLink(w, item, t)
        PROVE  Kinds
    BY <1>6, AttachCases DEF AttachLink
  <1>7. ASSUME NEW i \in Ids, NEW item \in Items, DetachLink(i, item)
        PROVE  Kinds
    <2>1. LinksStay
      BY <1>7, Stay
    <2> QED BY <1>1, <1>2, <1>7, <2>1 DEF DetachLink, Quiet, planning
  <1>8. ASSUME NEW inst \in Instances, Reconfigure(inst)
        PROVE  Kinds
    BY <1>1, <1>2, <1>3, <1>8 DEF Reconfigure, Quiet
  <1>9. ASSUME NEW a \in Attempts, NEW i \in Ids,
               BackgroundRefresh(a, i) \/ \E k \in Keys : RequestRefresh(a, i, k)
        PROVE  Kinds
    <2>1. Begins(a, i)
      BY <1>9 DEF BackgroundRefresh, RequestRefresh, Begins
    <2> QED BY <2>1
  <1>10. ASSUME NEW a \in Attempts, Answer(a)
         PROVE  Kinds
    <2>1. attempts[a] # None /\ attempts[a] \in Attempt
      BY <1>10 DEF Answer, Typed, TypeOK
    <2>2. PICK v \in {Failed} \cup {Observed(attempts[a].source, n) :
                               n \in 1..Versions(attempts[a].source)} :
             attempts' = [attempts EXCEPT ![a] = [attempts[a] EXCEPT !.answer = v]]
      BY <1>10 DEF Answer
    <2>3. \A b \in Attempts : attempts'[b] # None =>
            /\ attempts[b] # None
            /\ attempts'[b].link = attempts[b].link
            /\ attempts'[b].source = attempts[b].source
            /\ attempts'[b].run = attempts[b].run
            /\ attempts'[b].late = attempts[b].late
            /\ attempts'[b].answer \in {attempts[b].answer, v}
            /\ b # a => attempts'[b] = attempts[b]
      <3>1. attempts \in [Attempts -> Attempt \cup {None}]
        BY DEF Typed, TypeOK
      <3>2. \A b \in Attempts : attempts'[b] =
              IF b = a THEN [attempts[a] EXCEPT !.answer = v] ELSE attempts[b]
        BY <2>2, <3>1
      <3>3. LET e == [attempts[a] EXCEPT !.answer = v] IN
            /\ e.link = attempts[a].link /\ e.source = attempts[a].source
            /\ e.run = attempts[a].run /\ e.late = attempts[a].late /\ e.answer = v
        BY <2>1 DEF Attempt
      <3> QED BY <2>1, <3>2, <3>3
    <2>4. AttemptsStay
      BY <2>2, <2>3 DEF AttemptsStay
    <2> QED BY <1>1, <1>3, <1>10, <2>4 DEF Answer, Quiet, planning
  <1>11. ASSUME NEW a \in Attempts, Finish(a)
         PROVE  Kinds
    <2>1. CASE Current(a)
      BY <1>11, <2>1 DEF Stores, Finish
    <2>2. CASE ~Current(a)
      <3>1. UNCHANGED <<links, pending, planning, history, webhooks>>
        BY <1>11, <2>2 DEF Finish
      <3>2. AttemptsStay
        BY <1>11 DEF Finish, AttemptsStay, Typed, TypeOK
      <3> QED BY <1>1, <1>3, <3>1, <3>2 DEF Quiet, planning
    <2> QED BY <2>1, <2>2
  <1>12. ASSUME NEW a \in Attempts, Abandon(a)
         PROVE  Kinds
    <2>1. AttemptsStay
      BY <1>12 DEF Abandon, AttemptsStay, Typed, TypeOK
    <2> QED BY <1>1, <1>3, <1>12, <2>1 DEF Abandon, Quiet, planning
  <1>13. ASSUME NEW i \in Ids, CooldownEnds(i) \/ PollComesDue(i)
         PROVE  Kinds
    <2>1. LinksStay
      BY <1>13, Stay
    <2> QED BY <1>1, <1>2, <1>13, <2>1 DEF CooldownEnds, PollComesDue, Quiet, planning
  <1>14. ASSUME GitLabStep
         PROVE  Kinds
    BY <1>1, <1>2, <1>3, <1>14 DEF GitLabStep, SourceChanges, Quiet, planning
  <1>15. ASSUME WebhookStep
         PROVE  Kinds
    <2>1. LinksStay
      BY <1>15, Stay
         DEF WebhookStep, Send, Receive, Accept, FailHook, ForgetReceipt
    <2>2. UNCHANGED <<planning, pending, attempts, history>>
      BY <1>15
         DEF WebhookStep, Send, Receive, EnqueueWorkspace, Accept, FailHook, ForgetReceipt
    <2> QED BY <1>1, <1>2, <1>15, <2>1, <2>2 DEF Quiet, planning
  <1> HIDE DEF Kinds
  <1>16. Kinds
    BY ONLY [Next]_vars, <1>4, <1>5, <1>6, <1>7, <1>8, <1>9, <1>10, <1>11, <1>12, <1>13,
            <1>14, <1>15 DEF Next, GitLabStep, WebhookStep
  <1> QED BY <1>16 DEF Kinds

\* What the first transaction of an attempt leaves behind.
BeginLeaves(a, i) ==
  /\ i \in DOMAIN links /\ DOMAIN links' = DOMAIN links
  /\ \A j \in DOMAIN links : j # i => links'[j] = links[j]
  /\ links'[i].workspace = links[i].workspace
  /\ links'[i].target = links[i].target
  /\ links'[i].observation = links[i].observation
  /\ links'[i].run = NextRun /\ links'[i].refreshing
  /\ links'[i].begun = Versions(SourceOf(i))
  /\ attempts'[a] = [link |-> i, source |-> SourceOf(i), run |-> NextRun,
                     answer |-> None, late |-> FALSE]
  /\ \A b \in Attempts : b # a /\ attempts'[b] # None =>
       /\ attempts[b] # None
       /\ attempts'[b].link = attempts[b].link
       /\ attempts'[b].source = attempts[b].source
       /\ attempts'[b].run = attempts[b].run
       /\ attempts'[b].answer = attempts[b].answer
       /\ attempts'[b].late <=> attempts[b].late \/ attempts[b].link = i
  /\ \A q \in Runs : pending'[q] = IF q = NextRun THEN i
                                   ELSE IF q \in Interrupted(i) THEN None
                                   ELSE pending[q]
  /\ NextRun \in Runs /\ pending[NextRun] = None
  /\ \A j \in DOMAIN links : links[j].run # NextRun
  /\ \A b \in Attempts : attempts[b] # None => attempts[b].run # NextRun

LEMMA BeginEffects ==
  ASSUME Typed, NEW a \in Attempts, NEW i \in Ids, Begins(a, i)
  PROVE  BeginLeaves(a, i)
  <1>1. i \in DOMAIN links /\ links[i] \in Link
    BY DEF Begins, Readable, Typed, TypeOK
  <1>2. /\ NextRun \in Runs /\ pending[NextRun] = None
        /\ \A j \in DOMAIN links : links[j].run # NextRun
        /\ \A b \in Attempts : attempts[b] # None => attempts[b].run # NextRun
    BY FreshRunExists DEF Begins, Reserve
  <1>3. /\ DOMAIN links' = DOMAIN links
        /\ \A j \in DOMAIN links : j # i => links'[j] = links[j]
        /\ links'[i].workspace = links[i].workspace
        /\ links'[i].target = links[i].target
        /\ links'[i].observation = links[i].observation
        /\ links'[i].run = NextRun /\ links'[i].refreshing
        /\ links'[i].begun = Versions(SourceOf(i))
    <2>1. links' = [links EXCEPT
             ![i].dirty = FALSE, ![i].cooling = TRUE, ![i].refreshing = TRUE,
             ![i].run = NextRun, ![i].begun = Versions(SourceOf(i))]
      BY DEF Begins, Reserve
    <2> QED BY <1>1, <2>1 DEF Link, Typed, TypeOK
  <1>4. /\ attempts'[a] = [link |-> i, source |-> SourceOf(i), run |-> NextRun,
                           answer |-> None, late |-> FALSE]
        /\ \A q \in Runs : pending'[q] = IF q = NextRun THEN i
                                         ELSE IF q \in Interrupted(i) THEN None
                                         ELSE pending[q]
    BY DEF Begins, Reserve
  <1>5. ASSUME NEW b \in Attempts, b # a, attempts'[b] # None
        PROVE  /\ attempts[b] # None
               /\ attempts'[b].link = attempts[b].link
               /\ attempts'[b].source = attempts[b].source
               /\ attempts'[b].run = attempts[b].run
               /\ attempts'[b].answer = attempts[b].answer
               /\ attempts'[b].late <=> attempts[b].late \/ attempts[b].link = i
    <2>1. attempts'[b] = IF attempts[b] # None /\ attempts[b].link = i
                         THEN [attempts[b] EXCEPT !.late = TRUE] ELSE attempts[b]
      BY <1>5 DEF Begins, Reserve
    <2>2. attempts[b] # None /\ attempts[b] \in Attempt
      BY <1>5, <2>1 DEF Typed, TypeOK
    <2> QED BY <2>1, <2>2 DEF Attempt
  <1> QED BY <1>1, <1>2, <1>3, <1>4, <1>5 DEF BeginLeaves

\* What the second one does when the answer is still wanted.
StoreLeaves(a, i) ==
  /\ i \in DOMAIN links /\ DOMAIN links' = DOMAIN links
  /\ attempts[a] \in Attempt /\ attempts[a].answer # None
  /\ instance[links[i].workspace] = attempts[a].source[1]
  /\ \A j \in DOMAIN links : j # i => links'[j] = links[j]
  /\ links'[i].workspace = links[i].workspace
  /\ links'[i].target = links[i].target
  /\ links'[i].dirty = links[i].dirty
  /\ links'[i].run = links[i].run /\ ~links'[i].refreshing
  /\ links'[i].begun = links[i].begun
  /\ links'[i].observation = Cached(links[i].observation, attempts[a].answer)
  /\ \A b \in Attempts : attempts'[b] # None => b # a /\ attempts'[b] = attempts[b]
  /\ attempts[a].run = links[i].run /\ links[i].run \in Runs
  /\ pending' = [pending EXCEPT ![links[i].run] = None]
  /\ used' = used

LEMMA StoreEffects ==
  ASSUME Typed, NEW a \in Attempts, Stores(a), NEW i, i = attempts[a].link
  PROVE  StoreLeaves(a, i)
  <1>1. /\ i \in DOMAIN links /\ links[i] \in Link /\ attempts[a] \in Attempt
        /\ attempts[a].run = links[i].run /\ attempts[a].answer # None
        /\ instance[links[i].workspace] = attempts[a].source[1]
    BY DEF Stores, Finish, Current, Typed, TypeOK
  <1>2. /\ links' = [links EXCEPT
             ![i].observation = Cached(@, attempts[a].answer),
             ![i].refreshing = FALSE, ![i].cooling = TRUE, ![i].due = FALSE]
        /\ pending' = [pending EXCEPT ![attempts[a].run] = None]
        /\ attempts' = [attempts EXCEPT ![a] = None]
        /\ used' = used
    BY DEF Stores, Finish, planning
  <1>3. /\ DOMAIN links' = DOMAIN links
        /\ \A j \in DOMAIN links : j # i => links'[j] = links[j]
        /\ links'[i].workspace = links[i].workspace
        /\ links'[i].target = links[i].target
        /\ links'[i].dirty = links[i].dirty
        /\ links'[i].run = links[i].run /\ ~links'[i].refreshing
        /\ links'[i].begun = links[i].begun
        /\ links'[i].observation = Cached(links[i].observation, attempts[a].answer)
    BY <1>1, <1>2 DEF Link, Typed, TypeOK
  <1>4. \A b \in Attempts : attempts'[b] # None => b # a /\ attempts'[b] = attempts[b]
    BY <1>2 DEF Typed, TypeOK
  <1>5. links[i].run \in Runs
    BY <1>1 DEF Attempt
  <1> QED BY <1>1, <1>2, <1>3, <1>4, <1>5 DEF StoreLeaves

\* An identifier that arrives is new to every row, call and run.
ArrivalLeaves(i, w, t) ==
  /\ i \notin DOMAIN links /\ DOMAIN links' = DOMAIN links \cup {i}
  /\ \A j \in DOMAIN links : links'[j] = links[j]
  /\ links'[i].workspace = w /\ links'[i].target = t
  /\ links'[i].dirty /\ ~links'[i].refreshing
  /\ links'[i].run = None /\ links'[i].observation = None

LEMMA ArrivalEffects ==
  ASSUME Typed, NEW i \in Ids, NEW w \in Workspaces, NEW t \in Targets, LinkArrives(i, w, t)
  PROVE  ArrivalLeaves(i, w, t)
  <1>1. PICK item \in Items : links'[i] = NewLink(w, t, item)
    BY DEF LinkArrives
  <1> QED BY <1>1 DEF LinkArrives, NewLink, Typed, TypeOK, ArrivalLeaves

-----------------------------------------------------------------------------
(* Identifiers, runs and attempts                                          *)

LEMMA IdentifiersStep == Typed /\ IdentifiersLast /\ [Next]_vars => IdentifiersLast'
  <1> SUFFICES ASSUME Typed, IdentifiersLast, [Next]_vars PROVE IdentifiersLast'
    OBVIOUS
  <1>1. CASE Quiet
    BY <1>1 DEF Quiet, LinksStay, AttemptsStay, IdentifiersLast
  <1>2. ASSUME NEW i \in Ids, NEW w \in Workspaces, NEW t \in Targets, LinkArrives(i, w, t)
        PROVE  IdentifiersLast'
    <2>0. ArrivalLeaves(i, w, t)
      BY <1>2, ArrivalEffects
    <2> QED BY <2>0, <1>2 DEF LinkArrives, IdentifiersLast
  <1>3. ASSUME NEW a \in Attempts, NEW i \in Ids, Begins(a, i)
        PROVE  IdentifiersLast'
    <2>0. BeginLeaves(a, i)
      BY <1>3, BeginEffects
    <2>1. used' = used /\ i \in used
      BY <2>0, <1>3 DEF Begins, planning, Typed, TypeOK, BeginLeaves
    <2>2. ASSUME NEW b \in Attempts, attempts'[b] # None
          PROVE  /\ attempts'[b].link \in used'
                 /\ attempts'[b].link \in DOMAIN links'
                      => links'[attempts'[b].link].target = attempts'[b].source[2]
      <3>1. CASE b = a
        BY <2>0, <1>3, <2>1, <3>1 DEF SourceOf, BeginLeaves
      <3>2. CASE b # a
        BY <2>0, <1>3, <2>1, <2>2, <3>2 DEF IdentifiersLast, BeginLeaves
      <3> QED BY <3>1, <3>2
    <2>3. \A r \in Runs : pending'[r] # None => pending'[r] \in used'
      BY <2>0, <1>3, <2>1 DEF IdentifiersLast, BeginLeaves
    <2> QED BY <2>2, <2>3 DEF IdentifiersLast
  <1>4. ASSUME NEW a \in Attempts, Stores(a)
        PROVE  IdentifiersLast'
    <2>0. StoreLeaves(a, attempts[a].link)
      BY <1>4, StoreEffects
    <2>1. pending \in [Runs -> Ids \cup {None}]
      BY DEF Typed, TypeOK
    <2>2. \A r \in Runs : pending'[r] # None => pending'[r] \in used'
      BY <2>0, <2>1 DEF IdentifiersLast, StoreLeaves
    <2>3. \A b \in Attempts : attempts'[b] # None =>
            /\ attempts'[b].link \in used'
            /\ attempts'[b].link \in DOMAIN links'
                 => links'[attempts'[b].link].target = attempts'[b].source[2]
      BY <2>0 DEF IdentifiersLast, StoreLeaves
    <2> QED BY <2>2, <2>3 DEF IdentifiersLast
  <1> QED BY <1>1, <1>2, <1>3, <1>4, StepCases

LEMMA LateStep ==
  Typed /\ IdentifiersLast /\ LateIsSuperseded /\ [Next]_vars => LateIsSuperseded'
  <1> SUFFICES ASSUME Typed, IdentifiersLast, LateIsSuperseded, [Next]_vars
               PROVE  LateIsSuperseded'
    OBVIOUS
  <1>1. CASE Quiet
    BY <1>1 DEF Quiet, LinksStay, AttemptsStay, LateIsSuperseded
  <1>2. ASSUME NEW i \in Ids, NEW w \in Workspaces, NEW t \in Targets, LinkArrives(i, w, t)
        PROVE  LateIsSuperseded'
    <2>0. ArrivalLeaves(i, w, t)
      BY <1>2, ArrivalEffects
    <2> QED BY <2>0, <1>2 DEF LinkArrives, IdentifiersLast, LateIsSuperseded
  <1>3. ASSUME NEW a \in Attempts, NEW i \in Ids, Begins(a, i)
        PROVE  LateIsSuperseded'
    <2>0. BeginLeaves(a, i)
      BY <1>3, BeginEffects
    <2>1. ASSUME NEW b \in Attempts, attempts'[b] # None, attempts'[b].late,
                 attempts'[b].link \in DOMAIN links'
          PROVE  links'[attempts'[b].link].run # attempts'[b].run
      <3>1. b # a
        BY <2>0, <1>3, <2>1 DEF BeginLeaves
      <3>2. CASE attempts[b].link = i
        BY <2>0, <1>3, <2>1, <3>1, <3>2 DEF BeginLeaves
      <3>3. CASE attempts[b].link # i
        BY <2>0, <1>3, <2>1, <3>1, <3>3 DEF LateIsSuperseded, BeginLeaves
      <3> QED BY <3>2, <3>3
    <2> QED BY <2>1 DEF LateIsSuperseded
  <1>4. ASSUME NEW a \in Attempts, Stores(a)
        PROVE  LateIsSuperseded'
    <2>0. StoreLeaves(a, attempts[a].link)
      BY <1>4, StoreEffects
    <2> QED BY <2>0, <1>4 DEF LateIsSuperseded, StoreLeaves
  <1> QED BY <1>1, <1>2, <1>3, <1>4, StepCases

LEMMA RunsStep ==
  Typed /\ IdentifiersLast /\ RunsApart /\ PendingRunsAreCurrent /\ [Next]_vars
    => RunsApart' /\ PendingRunsAreCurrent'
  <1> SUFFICES ASSUME Typed, IdentifiersLast, RunsApart, PendingRunsAreCurrent, [Next]_vars
               PROVE  RunsApart' /\ PendingRunsAreCurrent'
    OBVIOUS
  <1>1. None \notin Ids /\ None \notin Runs
    BY DomainsAssumption DEF DomainsAssumption
  <1>2. CASE Quiet
    BY <1>2 DEF Quiet, LinksStay, RunsApart, PendingRunsAreCurrent
  <1>3. ASSUME NEW i \in Ids, NEW w \in Workspaces, NEW t \in Targets, LinkArrives(i, w, t)
        PROVE  RunsApart' /\ PendingRunsAreCurrent'
    <2>0. ArrivalLeaves(i, w, t)
      BY <1>3, ArrivalEffects
    <2>1. pending' = pending /\ i \notin used
      BY <1>3 DEF LinkArrives
    <2>2. RunsApart'
      BY <2>0, <1>3 DEF RunsApart, ArrivalLeaves
    <2>3. \A j \in DOMAIN links' :
            links'[j].refreshing <=> links'[j].run # None /\ pending'[links'[j].run] = j
      BY <2>0, <1>3, <2>1 DEF PendingRunsAreCurrent, ArrivalLeaves
    <2>4. \A r \in Runs : pending'[r] \in DOMAIN links' => links'[pending'[r]].run = r
      BY <2>0, <1>1, <1>3, <2>1 DEF PendingRunsAreCurrent, IdentifiersLast, ArrivalLeaves
    <2> QED BY <2>2, <2>3, <2>4 DEF PendingRunsAreCurrent
  <1>4. ASSUME NEW a \in Attempts, NEW i \in Ids, Begins(a, i)
        PROVE  RunsApart' /\ PendingRunsAreCurrent'
    <2>0. BeginLeaves(a, i)
      BY <1>4, BeginEffects
    <2>1. RunsApart'
      BY <2>0, <1>4 DEF RunsApart, BeginLeaves
    <2>2. ASSUME NEW j \in DOMAIN links'
          PROVE  links'[j].refreshing
                   <=> links'[j].run # None /\ pending'[links'[j].run] = j
      <3>1. CASE j = i
        BY <2>0, <1>1, <1>4, <3>1 DEF BeginLeaves
      <3>2. CASE j # i
        <4>1. links'[j] = links[j] /\ j \in DOMAIN links /\ links[j].run \in Runs \cup {None}
          BY <2>0, <1>4, <2>2, <3>2 DEF Typed, TypeOK, Link, BeginLeaves
        <4>2. links[j].run # None => pending'[links[j].run] = pending[links[j].run]
          BY <2>0, <1>4, <3>2, <4>1 DEF Interrupted, RunsApart, BeginLeaves
        <4> QED BY <4>1, <4>2 DEF PendingRunsAreCurrent
      <3> QED BY <3>1, <3>2
    <2>3. ASSUME NEW r \in Runs, pending'[r] \in DOMAIN links'
          PROVE  links'[pending'[r]].run = r
      <3>1. CASE r = NextRun
        BY <2>0, <1>4, <3>1 DEF BeginLeaves
      <3>2. CASE r # NextRun
        <4>1. pending'[r] = pending[r] /\ r \notin Interrupted(i)
          BY <2>0, <1>1, <1>4, <2>3, <3>2 DEF Typed, TypeOK, BeginLeaves
        <4>2. pending[r] \in DOMAIN links /\ links[pending[r]].run = r
          BY <2>0, <1>4, <2>3, <4>1 DEF PendingRunsAreCurrent, BeginLeaves
        <4>3. pending[r] # i
          BY <1>1, <4>1, <4>2 DEF Interrupted
        <4> QED BY <2>0, <1>4, <4>1, <4>2, <4>3 DEF BeginLeaves
      <3> QED BY <3>1, <3>2
    <2> QED BY <2>1, <2>2, <2>3 DEF PendingRunsAreCurrent
  <1>5. ASSUME NEW a \in Attempts, Stores(a)
        PROVE  RunsApart' /\ PendingRunsAreCurrent'
    <2>0. StoreLeaves(a, attempts[a].link)
      BY <1>5, StoreEffects
    <2> DEFINE i == attempts[a].link
    <2>1. /\ i \in DOMAIN links /\ DOMAIN links' = DOMAIN links
          /\ \A j \in DOMAIN links : j # i => links'[j] = links[j]
          /\ links'[i].run = links[i].run /\ ~links'[i].refreshing
          /\ links[i].run \in Runs
          /\ pending' = [pending EXCEPT ![links[i].run] = None]
      BY <2>0, <1>5 DEF StoreLeaves
    <2>2. i # None
      BY <1>1, <2>1 DEF Typed, TypeOK
    <2> HIDE DEF i
    <2>3. RunsApart'
      BY <2>1 DEF RunsApart
    <2>4. ASSUME NEW j \in DOMAIN links'
          PROVE  links'[j].refreshing
                   <=> links'[j].run # None /\ pending'[links'[j].run] = j
      <3>1. pending'[links[i].run] = None
        BY <2>1 DEF Typed, TypeOK
      <3>2. CASE j = i
        BY <2>1, <2>2, <3>1, <3>2
      <3>3. CASE j # i
        <4>1. links[j].run \in Runs \cup {None} /\ links[j].run # links[i].run
          BY <1>1, <2>1, <2>4, <3>3 DEF Typed, TypeOK, Link, RunsApart
        <4>2. links[j].run # None => pending'[links[j].run] = pending[links[j].run]
          BY <2>1, <4>1 DEF Typed, TypeOK
        <4> QED BY <2>1, <2>4, <3>3, <4>2 DEF PendingRunsAreCurrent
      <3> QED BY <3>2, <3>3
    <2>5. ASSUME NEW r \in Runs, pending'[r] \in DOMAIN links'
          PROVE  links'[pending'[r]].run = r
      <3>1. r # links[i].run
        BY <1>1, <2>1, <2>5 DEF Typed, TypeOK
      <3>2. pending'[r] = pending[r]
        BY <2>1, <3>1 DEF Typed, TypeOK
      <3> QED BY <2>1, <2>5, <3>2 DEF PendingRunsAreCurrent
    <2> QED BY <2>3, <2>4, <2>5 DEF PendingRunsAreCurrent
  <1> QED BY <1>2, <1>3, <1>4, <1>5, StepCases

LEMMA OneRowStep == Typed /\ OneRowPerTarget /\ [Next]_vars => OneRowPerTarget'
  <1> SUFFICES ASSUME Typed, OneRowPerTarget, [Next]_vars PROVE OneRowPerTarget'
    OBVIOUS
  <1>1. CASE Quiet
    BY <1>1 DEF Quiet, LinksStay, OneRowPerTarget
  <1>2. ASSUME NEW i \in Ids, NEW w \in Workspaces, NEW t \in Targets, LinkArrives(i, w, t)
        PROVE  OneRowPerTarget'
    <2>1. ArrivalLeaves(i, w, t)
      BY <1>2, ArrivalEffects
    <2>2. \A j \in DOMAIN links : links[j].workspace = w => links[j].target # t
      BY <1>2 DEF LinkArrives
    <2> QED BY <2>1, <2>2 DEF ArrivalLeaves, OneRowPerTarget
  <1>3. ASSUME NEW a \in Attempts, NEW i \in Ids, Begins(a, i)
        PROVE  OneRowPerTarget'
    <2>1. BeginLeaves(a, i)
      BY <1>3, BeginEffects
    <2> QED BY <2>1 DEF BeginLeaves, OneRowPerTarget
  <1>4. ASSUME NEW a \in Attempts, Stores(a)
        PROVE  OneRowPerTarget'
    <2>1. StoreLeaves(a, attempts[a].link)
      BY <1>4, StoreEffects
    <2> QED BY <2>1 DEF StoreLeaves, OneRowPerTarget
  <1> QED BY <1>1, <1>2, <1>3, <1>4, StepCases

-----------------------------------------------------------------------------
(* Answers and caches                                                      *)

\* An answer is an earlier or the present state of what the call reads.
AnswersAreReads ==
  \A a \in Attempts :
    attempts[a] # None /\ attempts[a].answer \notin {None, Failed}
      => \E n \in 1..Versions(attempts[a].source) :
           attempts[a].answer = Observed(attempts[a].source, n)

\* What a row caches is a state of its source.
CachesAreReads ==
  \A i \in DOMAIN links : links[i].observation # None =>
    \E n \in 1..Versions(links[i].observation.source) :
      links[i].observation = Observed(links[i].observation.source, n)

\* GitLab's past does not change.
LEMMA PastStays ==
  ASSUME Typed, GitLabStep \/ UNCHANGED history
  PROVE  \A s \in Sources : /\ Versions(s) \in Nat /\ Len(history'[s]) \in Nat
                            /\ Versions(s) <= Len(history'[s])
                            /\ \A n \in 1..Versions(s) : history'[s][n] = history[s][n]
  <1>1. CASE UNCHANGED history
    BY <1>1 DEF Typed, TypeOK, Versions
  <1>2. ASSUME NEW s \in Sources, NEW e \in Events, SourceChanges(s, e)
        PROVE  \A q \in Sources : /\ Versions(q) \in Nat /\ Len(history'[q]) \in Nat
                                  /\ Versions(q) <= Len(history'[q])
                                  /\ \A n \in 1..Versions(q) : history'[q][n] = history[q][n]
    <2>1. \A q \in Sources : history[q] \in Seq(State)
      BY DEF Typed, TypeOK
    <2>2. PICK new \in State : history' = [history EXCEPT ![s] = Append(history[s], new)]
      <3>1. /\ Len(history[s]) > 0 /\ history[s] \in Seq(State)
        BY <2>1 DEF Typed, Versions
      <3>2. After(history[s][Len(history[s])], e, Len(history[s]) + 1) \in State
        <4>1. history[s][Len(history[s])] \in State /\ Len(history[s]) \in Nat
          BY <3>1
        <4> QED BY <4>1 DEF After, State
      <3> QED BY <1>2, <3>2 DEF SourceChanges
    <2>3. /\ Len(Append(history[s], new)) = Len(history[s]) + 1
          /\ \A n \in 1..Len(history[s]) : Append(history[s], new)[n] = history[s][n]
          /\ Len(history[s]) \in Nat
      BY <2>1
    <2>4. history'[s] = Append(history[s], new) /\ \A q \in Sources : q # s => history'[q] = history[q]
      BY <2>2 DEF Typed, TypeOK
    <2>5. \A q \in Sources : Len(history[q]) \in Nat
      BY <2>1
    <2> QED BY <2>3, <2>4, <2>5 DEF Versions
  <1> QED BY <1>1, <1>2 DEF GitLabStep

LEMMA NoGitLabStep ==
  ASSUME Typed, [Next]_vars
  PROVE  GitLabStep \/ UNCHANGED history
  BY StepCases DEF LinkArrives, Begins

\* A state that was read once can still be read.
LEMMA ReadsLast ==
  ASSUME Typed, [Next]_vars, NEW s \in Sources, NEW n \in 1..Versions(s)
  PROVE  /\ n \in 1..Len(history'[s])
         /\ Observed(s, n) = [source |-> s, number |-> n, state |-> history'[s][n]]
  BY PastStays, NoGitLabStep DEF Observed

LEMMA AnswersStep == Typed /\ AnswersAreReads /\ [Next]_vars => AnswersAreReads'
  <1> SUFFICES ASSUME Typed, AnswersAreReads, [Next]_vars,
                      NEW a \in Attempts, attempts'[a] # None,
                      attempts'[a].answer \notin {None, Failed}
               PROVE  \E n \in 1..Len(history'[attempts'[a].source]) :
                        attempts'[a].answer =
                          [source |-> attempts'[a].source, number |-> n,
                           state |-> history'[attempts'[a].source][n]]
    BY DEF AnswersAreReads, Observed, Versions
  <1>1. ASSUME attempts[a] # None, attempts'[a].source = attempts[a].source,
               \E n \in 1..Versions(attempts[a].source) :
                 attempts'[a].answer = Observed(attempts[a].source, n)
        PROVE  \E n \in 1..Len(history'[attempts'[a].source]) :
                 attempts'[a].answer =
                   [source |-> attempts'[a].source, number |-> n,
                    state |-> history'[attempts'[a].source][n]]
    <2>1. attempts[a].source \in Sources
      BY <1>1 DEF Typed, TypeOK, Attempt
    <2> QED BY <1>1, <2>1, ReadsLast
  <1>2. CASE Quiet
    <2>1. CASE attempts'[a].answer = attempts[a].answer
      BY <1>1, <1>2, <2>1 DEF Quiet, AttemptsStay, AnswersAreReads
    <2>2. CASE attempts'[a].answer # attempts[a].answer
      BY <1>1, <1>2, <2>2 DEF Quiet, AttemptsStay
    <2> QED BY <2>1, <2>2
  <1>3. ASSUME NEW i \in Ids, NEW w \in Workspaces, NEW t \in Targets, LinkArrives(i, w, t)
        PROVE  \E n \in 1..Versions(attempts[a].source) :
                 attempts'[a].answer = Observed(attempts[a].source, n)
    BY <1>3 DEF LinkArrives, AnswersAreReads
  <1>4. ASSUME NEW b \in Attempts, NEW i \in Ids, Begins(b, i)
        PROVE  /\ attempts[a] # None /\ attempts'[a].source = attempts[a].source
               /\ attempts'[a].answer = attempts[a].answer
    <2>1. BeginLeaves(b, i)
      BY <1>4, BeginEffects
    <2> QED BY <2>1 DEF BeginLeaves
  <1>5. ASSUME NEW b \in Attempts, Stores(b)
        PROVE  attempts'[a] = attempts[a]
    <2>1. StoreLeaves(b, attempts[b].link)
      BY <1>5, StoreEffects
    <2> QED BY <2>1 DEF StoreLeaves
  <1>6. CASE attempts'[a] = attempts[a]
    BY <1>1, <1>6 DEF AnswersAreReads
  <1>7. CASE /\ attempts[a] # None /\ attempts'[a].source = attempts[a].source
             /\ attempts'[a].answer = attempts[a].answer
    BY <1>1, <1>7 DEF AnswersAreReads
  <1> QED BY <1>2, <1>3, <1>4, <1>5, <1>6, <1>7, StepCases DEF LinkArrives

LEMMA CachesStep ==
  Typed /\ AnswersAreReads /\ CachesAreReads /\ [Next]_vars => CachesAreReads'
  <1> SUFFICES ASSUME Typed, AnswersAreReads, CachesAreReads, [Next]_vars,
                      NEW i \in DOMAIN links', links'[i].observation # None
               PROVE  \E n \in 1..Len(history'[links'[i].observation.source]) :
                        links'[i].observation =
                          [source |-> links'[i].observation.source, number |-> n,
                           state |-> history'[links'[i].observation.source][n]]
    BY DEF CachesAreReads, Observed, Versions
  <1>1. ASSUME NEW s \in Sources,
               \E n \in 1..Versions(s) : links'[i].observation = Observed(s, n)
        PROVE  \E n \in 1..Len(history'[links'[i].observation.source]) :
                 links'[i].observation =
                   [source |-> links'[i].observation.source, number |-> n,
                    state |-> history'[links'[i].observation.source][n]]
    <2>1. links'[i].observation.source = s
      BY <1>1 DEF Observed
    <2> QED BY <1>1, <2>1, ReadsLast
  <1>2. CASE i \in DOMAIN links /\ links'[i].observation = links[i].observation
    <2>1. links[i].observation.source \in Sources
      BY <1>2 DEF Typed, TypeOK, Link, Observation
    <2> QED BY <1>1, <1>2, <2>1 DEF CachesAreReads
  <1>3. CASE Quiet
    BY <1>2, <1>3 DEF Quiet, LinksStay
  <1>4. ASSUME NEW j \in Ids, NEW w \in Workspaces, NEW t \in Targets, LinkArrives(j, w, t)
        PROVE  i \in DOMAIN links /\ links'[i].observation = links[i].observation
    <2>1. ArrivalLeaves(j, w, t)
      BY <1>4, ArrivalEffects
    <2> QED BY <2>1 DEF ArrivalLeaves
  <1>5. ASSUME NEW b \in Attempts, NEW j \in Ids, Begins(b, j)
        PROVE  i \in DOMAIN links /\ links'[i].observation = links[i].observation
    <2>1. BeginLeaves(b, j)
      BY <1>5, BeginEffects
    <2> QED BY <2>1 DEF BeginLeaves
  <1>6. ASSUME NEW b \in Attempts, Stores(b)
        PROVE  \/ i \in DOMAIN links /\ links'[i].observation = links[i].observation
               \/ \E s \in Sources : \E n \in 1..Versions(s) :
                    links'[i].observation = Observed(s, n)
    <2>1. StoreLeaves(b, attempts[b].link)
      BY <1>6, StoreEffects
    <2>2. CASE i # attempts[b].link \/ links'[i].observation = links[i].observation
      BY <2>1, <2>2 DEF StoreLeaves
    <2>3. CASE i = attempts[b].link /\ links'[i].observation = attempts[b].answer
      <3>1. CASE attempts[b].answer = Failed
        BY <2>1, <2>2, <2>3, <3>1 DEF StoreLeaves, Cached
      <3>2. CASE attempts[b].answer # Failed
        <4>1. attempts[b] # None /\ attempts[b].source \in Sources
          BY <1>6, <2>1 DEF Stores, Finish, StoreLeaves, Attempt
        <4> QED BY <2>1, <2>3, <3>2, <4>1 DEF StoreLeaves, AnswersAreReads
      <3> QED BY <3>1, <3>2
    <2> QED BY <2>1, <2>2, <2>3 DEF StoreLeaves, Cached
  <1> QED BY <1>1, <1>2, <1>3, <1>4, <1>5, <1>6, StepCases

LEMMA ApprovalsStep ==
  Typed /\ IdentifiersLast /\ AnswersAreReads /\ CachesAreApproved /\ [Next]_vars
    => CachesAreApproved'
  <1> SUFFICES ASSUME Typed, IdentifiersLast, AnswersAreReads, CachesAreApproved,
                      [Next]_vars
               PROVE  CachesAreApproved'
    OBVIOUS
  <1>1. CASE Quiet
    BY <1>1 DEF Quiet, LinksStay, ApprovalsStay, CachesAreApproved, SourceOf
  <1>2. ASSUME NEW i \in Ids, NEW w \in Workspaces, NEW t \in Targets, LinkArrives(i, w, t)
        PROVE  CachesAreApproved'
    <2>1. ArrivalLeaves(i, w, t)
      BY <1>2, ArrivalEffects
    <2>2. instance' = instance /\ approved' = approved /\ ProjectOf[t] \in approved[w]
      BY <1>2 DEF LinkArrives
    <2> QED BY <2>1, <2>2 DEF ArrivalLeaves, CachesAreApproved, SourceOf
  <1>3. ASSUME NEW a \in Attempts, NEW i \in Ids, Begins(a, i)
        PROVE  CachesAreApproved'
    <2>1. BeginLeaves(a, i)
      BY <1>3, BeginEffects
    <2>2. instance' = instance /\ approved' = approved
      BY <1>3 DEF Begins, planning
    <2> QED BY <2>1, <2>2 DEF BeginLeaves, CachesAreApproved, SourceOf
  <1>4. ASSUME NEW a \in Attempts, Stores(a), UNCHANGED planning
        PROVE  CachesAreApproved'
    <2> DEFINE i == attempts[a].link
    <2>1. StoreLeaves(a, i)
      BY <1>4, StoreEffects
    <2>2. instance' = instance /\ approved' = approved
      BY <1>4 DEF planning
    <2>3. attempts[a] # None
      BY <1>4 DEF Stores, Finish
    <2>4. SourceOf(i) = attempts[a].source
      <3>1. links[i].target = attempts[a].source[2]
        BY <2>1, <2>3 DEF StoreLeaves, IdentifiersLast
      <3>2. attempts[a].source \in Instances \X Targets
        BY <2>1 DEF StoreLeaves, Attempt, Sources
      <3> QED BY <2>1, <3>1, <3>2 DEF StoreLeaves, SourceOf
    <2>5. attempts[a].answer # Failed => attempts[a].answer.source = attempts[a].source
      <3>1. attempts[a].answer # Failed =>
              \E n \in 1..Versions(attempts[a].source) :
                attempts[a].answer = Observed(attempts[a].source, n)
        BY <2>1, <2>3 DEF StoreLeaves, AnswersAreReads
      <3>2. \A s, n : Observed(s, n).source = s
        BY DEF Observed
      <3> QED BY <3>1, <3>2
    <2> HIDE DEF i
    <2>6. \A j \in DOMAIN links : SourceOf(j) = <<instance'[links'[j].workspace], links'[j].target>>
      BY <2>1, <2>2 DEF StoreLeaves, SourceOf
    <2>7. ASSUME NEW j \in DOMAIN links', links'[j].observation # None
          PROVE  links'[j].observation.source = SourceOf(j)
      <3>1. CASE j # i
        BY <2>1, <2>7, <3>1 DEF StoreLeaves, CachesAreApproved
      <3>2. CASE j = i
        BY <2>1, <2>4, <2>5, <2>7, <3>2 DEF StoreLeaves, CachesAreApproved, Cached
      <3> QED BY <3>1, <3>2
    <2>8. \A j \in DOMAIN links' : ProjectOf[links'[j].target] \in approved'[links'[j].workspace]
      BY <2>1, <2>2 DEF StoreLeaves, CachesAreApproved
    <2> QED BY <2>1, <2>6, <2>7, <2>8 DEF StoreLeaves, CachesAreApproved, SourceOf
  <1> QED BY <1>1, <1>2, <1>3, <1>4, StepCases

-----------------------------------------------------------------------------
(* Hints                                                                   *)

\* A row a delivery is about, in a workspace of the delivery's instance.
Concerns(d, i) ==
  /\ links[i].target \in hooks[d].hits
  /\ instance[links[i].workspace] = hooks[d].instance

\* The row waits to be read or was read from after the delivery's change on.
Served(d, i) == links[i].dirty \/ links[i].begun >= hooks[d].at[links[i].target]

ServedIn(w, d) ==
  \A i \in DOMAIN links : links[i].workspace = w /\ Concerns(d, i) => Served(d, i)

\* Deliveries that were handled were made, about merge requests of their
\* project, and tell of a state GitLab had reached.
DeliveriesMade ==
  /\ \A d \in accepted : hooks[d] # None
  /\ \A e \in receipts : hooks[e[2]] # None
  /\ \A x \in Receivers : receivers[x] # None => hooks[receivers[x].delivery] # None
  /\ \A d \in Deliveries : hooks[d] # None =>
       \A t \in hooks[d].hits :
         /\ ProjectOf[t] = hooks[d].project
         /\ hooks[d].at[t] <= Versions(<<hooks[d].instance, t>>)

\* A workspace is served once it was accepted, has a receipt, or was visited.
HintsServed ==
  /\ \A d \in accepted, w \in Workspaces : ServedIn(w, d)
  /\ \A e \in receipts : ServedIn(e[1], e[2])
  /\ \A x \in Receivers : receivers[x] # None =>
       \A w \in Workspaces \ receivers[x].todo : ServedIn(w, receivers[x].delivery)

LEMMA DeliveriesStep == Typed /\ DeliveriesMade /\ [Next]_vars => DeliveriesMade'
  <1> SUFFICES ASSUME Typed, DeliveriesMade, [Next]_vars PROVE DeliveriesMade'
    OBVIOUS
  <1>1. \A s \in Sources : /\ Versions(s) \in Nat /\ Len(history'[s]) \in Nat
                           /\ Versions(s) <= Len(history'[s])
    BY PastStays, NoGitLabStep
  <1>2. \A d \in Deliveries : hooks[d] # None =>
          \A t \in hooks[d].hits : /\ t \in Targets /\ hooks[d].at[t] \in Nat
                                   /\ <<hooks[d].instance, t>> \in Sources
    BY DEF Typed, TypeOK, Hint, Sources
  <1>3. ASSUME NEW d \in Deliveries, hooks[d] # None, hooks'[d] = hooks[d]
        PROVE  \A t \in hooks'[d].hits :
                 /\ ProjectOf[t] = hooks'[d].project
                 /\ hooks'[d].at[t] <= Len(history'[<<hooks'[d].instance, t>>])
    <2> SUFFICES ASSUME NEW t \in hooks[d].hits
                 PROVE  /\ ProjectOf[t] = hooks[d].project
                        /\ hooks[d].at[t] <= Len(history'[<<hooks[d].instance, t>>])
      BY <1>3
    <2>1. hooks[d].at[t] <= Versions(<<hooks[d].instance, t>>) /\ ProjectOf[t] = hooks[d].project
      BY <1>3 DEF DeliveriesMade
    <2>2. hooks[d].at[t] \in Nat /\ <<hooks[d].instance, t>> \in Sources
      BY <1>2, <1>3
    <2> QED BY <1>1, <2>1, <2>2
  <1>4. CASE UNCHANGED webhooks
    BY <1>3, <1>4 DEF webhooks, DeliveriesMade, Versions
  <1>5. ASSUME NEW d \in Deliveries, NEW inst \in Instances, NEW project \in Projects,
               NEW hits \in SUBSET {t \in Targets : ProjectOf[t] = project},
               Send(d, inst, project, hits)
        PROVE  DeliveriesMade'
    <2>1. /\ hooks' = [hooks EXCEPT ![d] =
               [instance |-> inst, project |-> project, hits |-> hits,
                at |-> [t \in Targets |-> Versions(<<inst, t>>)]]]
          /\ hooks[d] = None /\ UNCHANGED <<receivers, receipts, accepted, history>>
      BY <1>5 DEF Send
    <2>2. hooks'[d] = [instance |-> inst, project |-> project, hits |-> hits,
                       at |-> [t \in Targets |-> Versions(<<inst, t>>)]]
      BY <2>1 DEF Typed, TypeOK
    <2>3. \A c \in Deliveries : c # d => hooks'[c] = hooks[c]
      BY <2>1 DEF Typed, TypeOK
    <2>4. \A c \in Deliveries : hooks[c] # None => hooks'[c] = hooks[c]
      BY <2>1, <2>3
    <2>5. \A t \in hooks'[d].hits :
            /\ ProjectOf[t] = hooks'[d].project
            /\ hooks'[d].at[t] <= Len(history'[<<hooks'[d].instance, t>>])
      <3> SUFFICES ASSUME NEW t \in hits
                   PROVE  /\ ProjectOf[t] = project
                          /\ Versions(<<inst, t>>) <= Len(history[<<inst, t>>])
        BY <2>1, <2>2
      <3>1. <<inst, t>> \in Sources /\ ProjectOf[t] = project
        BY DEF Sources
      <3>2. Len(history[<<inst, t>>]) \in Nat
        BY <3>1 DEF Typed, TypeOK
      <3> QED BY <3>1, <3>2 DEF Versions
    <2>6. \A c \in Deliveries : hooks'[c] # None =>
            \A t \in hooks'[c].hits :
              /\ ProjectOf[t] = hooks'[c].project
              /\ hooks'[c].at[t] <= Len(history'[<<hooks'[c].instance, t>>])
      BY <1>3, <2>3, <2>5
    <2>7. /\ \A c \in accepted' : hooks'[c] # None
          /\ \A e \in receipts' : hooks'[e[2]] # None
          /\ \A x \in Receivers :
               receivers'[x] # None => hooks'[receivers'[x].delivery] # None
      BY <2>1, <2>4 DEF DeliveriesMade, Typed, TypeOK
    <2> QED BY <2>6, <2>7 DEF DeliveriesMade, Versions
  <1>6. ASSUME UNCHANGED <<hooks, history>>,
               accepted' \subseteq {d \in Deliveries : hooks[d] # None},
               receipts' \subseteq {e \in Workspaces \X Deliveries : hooks[e[2]] # None},
               \A x \in Receivers : receivers'[x] # None =>
                 hooks[receivers'[x].delivery] # None
        PROVE  DeliveriesMade'
    BY <1>6 DEF DeliveriesMade, Versions
  <1>7. /\ accepted \subseteq {d \in Deliveries : hooks[d] # None}
        /\ receipts \subseteq {e \in Workspaces \X Deliveries : hooks[e[2]] # None}
    BY DEF DeliveriesMade, Typed, TypeOK
  <1>8. ASSUME NEW x \in Receivers, NEW d \in Deliveries, Receive(x, d)
        PROVE  DeliveriesMade'
    <2>1. \A y \in Receivers : receivers'[y] # None => hooks[receivers'[y].delivery] # None
      BY <1>8 DEF Receive, DeliveriesMade, Typed, TypeOK
    <2> QED BY <1>6, <1>7, <1>8, <2>1 DEF Receive
  <1>9. ASSUME NEW x \in Receivers, NEW w \in Workspaces, EnqueueWorkspace(x, w)
        PROVE  DeliveriesMade'
    <2>1. receivers[x] # None /\ receivers[x].delivery \in Deliveries
      BY <1>9 DEF EnqueueWorkspace, Typed, TypeOK
    <2>2. \A y \in Receivers : receivers'[y] # None => hooks[receivers'[y].delivery] # None
      <3>1. receivers' = [receivers EXCEPT ![x] = [receivers[x] EXCEPT !.todo = @ \ {w}]]
        BY <1>9 DEF EnqueueWorkspace
      <3>2. receivers \in [Receivers ->
               [delivery : Deliveries, todo : SUBSET Workspaces] \cup {None}]
        BY DEF Typed, TypeOK
      <3>3. [receivers[x] EXCEPT !.todo = @ \ {w}].delivery = receivers[x].delivery
        BY <2>1, <3>2
      <3> QED BY <2>1, <3>1, <3>2, <3>3 DEF DeliveriesMade
    <2>3. receipts' \subseteq receipts \cup {<<w, receivers[x].delivery>>}
      BY <1>9 DEF EnqueueWorkspace
    <2>4. receipts' \subseteq {e \in Workspaces \X Deliveries : hooks[e[2]] # None}
      BY <1>7, <2>1, <2>3 DEF DeliveriesMade
    <2> QED BY <1>6, <1>7, <1>9, <2>2, <2>4 DEF EnqueueWorkspace
  <1>10. ASSUME NEW x \in Receivers, Accept(x) \/ FailHook(x)
         PROVE  DeliveriesMade'
    <2>1. \A y \in Receivers : receivers'[y] # None => hooks[receivers'[y].delivery] # None
      BY <1>10 DEF Accept, FailHook, DeliveriesMade, Typed, TypeOK
    <2>2. receivers[x] # None => receivers[x].delivery \in Deliveries
                                 /\ hooks[receivers[x].delivery] # None
      BY DEF DeliveriesMade, Typed, TypeOK
    <2>3. accepted' \subseteq {d \in Deliveries : hooks[d] # None}
      BY <1>7, <1>10, <2>2 DEF Accept, FailHook
    <2> QED BY <1>6, <1>7, <1>10, <2>1, <2>3 DEF Accept, FailHook
  <1>11. ASSUME NEW w \in Workspaces, NEW d \in Deliveries, ForgetReceipt(w, d)
         PROVE  DeliveriesMade'
    <2>1. \A y \in Receivers : receivers'[y] # None => hooks[receivers'[y].delivery] # None
      BY <1>11 DEF ForgetReceipt, DeliveriesMade
    <2> QED BY <1>6, <1>7, <1>11, <2>1 DEF ForgetReceipt
  <1>12. CASE WebhookStep
    <2>1. ASSUME NEW d \in Deliveries, NEW inst \in Instances, NEW t \in Targets,
                 Send(d, inst, ProjectOf[t], {t})
          PROVE  DeliveriesMade'
      <3>1. ProjectOf[t] \in Projects /\ {t} \in SUBSET {q \in Targets : ProjectOf[q] = ProjectOf[t]}
        BY DomainsAssumption DEF DomainsAssumption
      <3> QED BY <1>5, <2>1, <3>1
    <2>2. ASSUME NEW d \in Deliveries, NEW inst \in Instances, NEW project \in Projects,
                 Send(d, inst, project, {t \in Targets : ProjectOf[t] = project})
          PROVE  DeliveriesMade'
      BY <1>5, <2>2
    <2> QED BY ONLY <1>8, <1>9, <1>10, <1>11, <1>12, <2>1, <2>2 DEF WebhookStep
  <1>13. UNCHANGED webhooks \/ WebhookStep
    BY StepCases DEF LinkArrives, Begins
  <1> QED BY <1>4, <1>12, <1>13

\* ServedIn of the next state.
ServedNext(w, d) ==
  \A i \in DOMAIN links' :
    /\ links'[i].workspace = w
    /\ links'[i].target \in hooks'[d].hits
    /\ instance'[links'[i].workspace] = hooks'[d].instance
    => links'[i].dirty \/ links'[i].begun >= hooks'[d].at[links'[i].target]

LEMMA HooksLast ==
  ASSUME Typed, [Next]_vars, NEW d \in Deliveries, hooks[d] # None
  PROVE  hooks'[d] = hooks[d]
  <1>1. CASE UNCHANGED webhooks
    BY <1>1 DEF webhooks
  <1>2. CASE WebhookStep
    BY <1>2 DEF WebhookStep, Send, Receive, EnqueueWorkspace, Accept, FailHook,
                ForgetReceipt, Typed, TypeOK
  <1> QED BY <1>1, <1>2, StepCases DEF LinkArrives, Begins

\* Who is served stays served: an attempt that takes the hint reads at least
\* what the delivery told of.
LEMMA ServedStays ==
  ASSUME Typed, DeliveriesMade, [Next]_vars,
         NEW w \in Workspaces, NEW d \in Deliveries, hooks[d] # None, ServedIn(w, d)
  PROVE  ServedNext(w, d)
  <1>1. hooks'[d] = hooks[d]
    BY HooksLast
  <1> SUFFICES ASSUME NEW i \in DOMAIN links',
                      links'[i].workspace = w, links'[i].target \in hooks[d].hits,
                      instance'[links'[i].workspace] = hooks[d].instance
               PROVE  links'[i].dirty \/ links'[i].begun >= hooks[d].at[links'[i].target]
    BY <1>1 DEF ServedNext
  <1>2. CASE Quiet
    <2>1. /\ i \in DOMAIN links /\ links'[i].workspace = links[i].workspace
          /\ links'[i].target = links[i].target /\ links'[i].begun = links[i].begun
          /\ links[i].dirty => links'[i].dirty
          /\ instance'[links[i].workspace] = instance[links[i].workspace]
      BY <1>2 DEF Quiet, LinksStay, ApprovalsStay
    <2> QED BY <2>1 DEF ServedIn, Concerns, Served
  <1>3. ASSUME NEW j \in Ids, NEW v \in Workspaces, NEW t \in Targets, LinkArrives(j, v, t)
        PROVE  links'[i].dirty \/ links'[i].begun >= hooks[d].at[links'[i].target]
    <2>1. ArrivalLeaves(j, v, t) /\ instance' = instance
      BY <1>3, ArrivalEffects DEF LinkArrives
    <2>2. CASE i = j
      BY <2>1, <2>2 DEF ArrivalLeaves
    <2>3. CASE i # j
      BY <2>1, <2>3 DEF ArrivalLeaves, ServedIn, Concerns, Served
    <2> QED BY <2>2, <2>3
  <1>4. ASSUME NEW a \in Attempts, NEW j \in Ids, Begins(a, j)
        PROVE  links'[i].dirty \/ links'[i].begun >= hooks[d].at[links'[i].target]
    <2>1. BeginLeaves(a, j) /\ instance' = instance
      BY <1>4, BeginEffects DEF Begins, planning
    <2>2. CASE i = j
      <3>1. /\ links'[i].begun = Versions(SourceOf(i)) /\ links'[i].target = links[i].target
            /\ links'[i].workspace = links[i].workspace
        BY <2>1, <2>2 DEF BeginLeaves
      <3>2. SourceOf(i) = <<hooks[d].instance, links[i].target>>
        BY <2>1, <3>1 DEF SourceOf
      <3>3. hooks[d].at[links[i].target] <= Versions(<<hooks[d].instance, links[i].target>>)
        BY <3>1 DEF DeliveriesMade
      <3>4. hooks[d].at[links[i].target] \in Nat /\ <<hooks[d].instance, links[i].target>> \in Sources
        BY <3>1 DEF Typed, TypeOK, Hint, Sources
      <3>5. Versions(<<hooks[d].instance, links[i].target>>) \in Nat
        BY <3>4 DEF Typed, TypeOK, Versions
      <3> QED BY <3>1, <3>2, <3>3, <3>4, <3>5
    <2>3. CASE i # j
      BY <2>1, <2>3 DEF BeginLeaves, ServedIn, Concerns, Served
    <2> QED BY <2>2, <2>3
  <1>5. ASSUME NEW a \in Attempts, Stores(a), UNCHANGED planning
        PROVE  links'[i].dirty \/ links'[i].begun >= hooks[d].at[links'[i].target]
    <2>1. StoreLeaves(a, attempts[a].link) /\ instance' = instance
      BY <1>5, StoreEffects DEF planning
    <2> QED BY <2>1 DEF StoreLeaves, ServedIn, Concerns, Served
  <1> QED BY <1>2, <1>3, <1>4, <1>5, StepCases

\* After its turn a workspace of a delivery is served, whatever the outcome.
LEMMA TurnServes ==
  ASSUME Typed, CachesAreApproved, DeliveriesMade, HintsServed,
         NEW x \in Receivers, NEW w \in Workspaces, EnqueueWorkspace(x, w),
         NEW d \in Deliveries, d = receivers[x].delivery
  PROVE  ServedNext(w, d)
  <1>1. /\ instance' = instance /\ hooks' = hooks
        /\ \/ /\ links' = [i \in DOMAIN links |->
                            IF i \in Hit(w, d)
                            THEN [links[i] EXCEPT !.dirty = TRUE] ELSE links[i]]
           \/ /\ links' = links
              /\ ~Approved(w, d) \/ Seen(w, d) \/ Hit(w, d) = {}
    BY DEF EnqueueWorkspace, planning
  <1> SUFFICES ASSUME NEW i \in DOMAIN links',
                      links'[i].workspace = w, links'[i].target \in hooks[d].hits,
                      instance[links'[i].workspace] = hooks[d].instance
               PROVE  links'[i].dirty \/ links'[i].begun >= hooks[d].at[links'[i].target]
    BY <1>1 DEF ServedNext
  <1>2. i \in DOMAIN links /\ links[i] \in Link
    BY <1>1 DEF Typed, TypeOK
  <1>3. /\ links'[i].workspace = links[i].workspace /\ links'[i].target = links[i].target
        /\ i \in Hit(w, d) /\ links' # links => links'[i].dirty
    BY <1>1, <1>2 DEF Link
  <1>4. i \in Hit(w, d)
    <2>1. hooks[d] # None /\ ProjectOf[links[i].target] = hooks[d].project
      BY <1>3 DEF EnqueueWorkspace, DeliveriesMade
    <2> QED BY <1>2, <1>3, <2>1 DEF Hit, Belonging
  <1>5. CASE links' # links
    BY <1>3, <1>4, <1>5
  <1>6. CASE links' = links
    <2>1. CASE ~Approved(w, d)
      <3>1. ProjectOf[links[i].target] \in approved[w] /\ ProjectOf[links[i].target] = hooks[d].project
        BY <1>2, <1>3, <1>4 DEF CachesAreApproved, Hit, Belonging
      <3> QED BY <1>3, <2>1, <3>1 DEF Approved
    <2>2. CASE Seen(w, d)
      <3>1. ServedIn(w, d)
        BY <2>2 DEF Seen, HintsServed
      <3> QED BY <1>2, <1>6, <3>1 DEF ServedIn, Concerns, Served
    <2>3. CASE Hit(w, d) = {}
      BY <1>4, <2>3
    <2>4. CASE links' = [j \in DOMAIN links |->
                          IF j \in Hit(w, d)
                          THEN [links[j] EXCEPT !.dirty = TRUE] ELSE links[j]]
      <3>1. links'[i].dirty
        BY <1>2, <1>4, <2>4 DEF Link
      <3> QED BY <3>1
    <2> QED BY <1>1, <2>1, <2>2, <2>3, <2>4
  <1> QED BY <1>5, <1>6

LEMMA HintsStep ==
  Typed /\ CachesAreApproved /\ DeliveriesMade /\ HintsServed /\ [Next]_vars => HintsServed'
  <1> SUFFICES ASSUME Typed, CachesAreApproved, DeliveriesMade, HintsServed, [Next]_vars
               PROVE  HintsServed'
    OBVIOUS
  <1>1. \A w \in Workspaces, d \in Deliveries :
          hooks[d] # None /\ ServedIn(w, d) => ServedNext(w, d)
    BY ServedStays
  <1>2. ASSUME \A d \in accepted', w \in Workspaces : ServedNext(w, d),
               \A e \in receipts' : ServedNext(e[1], e[2]),
               \A x \in Receivers : receivers'[x] # None =>
                 \A w \in Workspaces \ receivers'[x].todo :
                   ServedNext(w, receivers'[x].delivery)
        PROVE  HintsServed'
    BY <1>2 DEF HintsServed, ServedIn, Concerns, Served, ServedNext
  <1>3. /\ \A d \in accepted, w \in Workspaces : ServedNext(w, d)
        /\ \A e \in receipts : ServedNext(e[1], e[2])
        /\ \A x \in Receivers : receivers[x] # None =>
             \A w \in Workspaces \ receivers[x].todo : ServedNext(w, receivers[x].delivery)
    <2>1. \A d \in accepted, w \in Workspaces : ServedNext(w, d)
      BY <1>1 DEF HintsServed, DeliveriesMade, Typed, TypeOK
    <2>2. \A e \in receipts : ServedNext(e[1], e[2])
      <3> SUFFICES ASSUME NEW e \in receipts PROVE ServedNext(e[1], e[2])
        OBVIOUS
      <3>1. e[1] \in Workspaces /\ e[2] \in Deliveries
        BY DEF Typed, TypeOK
      <3> QED BY <1>1, <3>1 DEF HintsServed, DeliveriesMade
    <2>3. ASSUME NEW x \in Receivers, receivers[x] # None,
                 NEW w \in Workspaces \ receivers[x].todo
          PROVE  ServedNext(w, receivers[x].delivery)
      <3>1. receivers[x].delivery \in Deliveries
        BY <2>3 DEF Typed, TypeOK
      <3> QED BY <1>1, <2>3, <3>1 DEF HintsServed, DeliveriesMade
    <2> QED BY <2>1, <2>2, <2>3
  <1>4. CASE UNCHANGED <<receivers, receipts, accepted>>
    BY <1>2, <1>3, <1>4
  <1>5. ASSUME NEW x \in Receivers, NEW d \in Deliveries, Receive(x, d)
        PROVE  HintsServed'
    <2> DEFINE todo == {w \in Workspaces : Belonging(w, d) # {} /\ instance[w] = connector}
    <2>1. /\ receivers' = [receivers EXCEPT ![x] = [delivery |-> d, todo |-> todo]]
          /\ hooks[d] # None /\ hooks[d].instance = connector
          /\ UNCHANGED <<receipts, accepted>>
      BY <1>5 DEF Receive
    <2>2. ASSUME NEW w \in Workspaces \ todo
          PROVE  ServedIn(w, d)
      <3> SUFFICES ASSUME NEW i \in DOMAIN links, links[i].workspace = w, Concerns(d, i)
                   PROVE  FALSE
        BY DEF ServedIn
      <3>1. ProjectOf[links[i].target] = hooks[d].project
        BY <2>1 DEF Concerns, DeliveriesMade
      <3> QED BY <2>1, <2>2, <3>1 DEF Concerns, Belonging
    <2>3. \A w \in Workspaces \ todo : ServedNext(w, d)
      BY <1>1, <2>1, <2>2
    <2> HIDE DEF todo
    <2>4. ASSUME NEW y \in Receivers, receivers'[y] # None,
                 NEW w \in Workspaces \ receivers'[y].todo
          PROVE  ServedNext(w, receivers'[y].delivery)
      <3>1. CASE y = x
        <4>1. receivers'[y] = [delivery |-> d, todo |-> todo]
          BY <2>1, <3>1 DEF Typed, TypeOK
        <4> QED BY <2>3, <2>4, <4>1
      <3>2. CASE y # x
        <4>1. receivers'[y] = receivers[y]
          BY <2>1, <3>2 DEF Typed, TypeOK
        <4> QED BY <1>3, <2>4, <4>1
      <3> QED BY <3>1, <3>2
    <2> QED BY <1>2, <1>3, <2>1, <2>4
  <1>6. ASSUME NEW x \in Receivers, NEW w \in Workspaces, EnqueueWorkspace(x, w)
        PROVE  HintsServed'
    <2>1. /\ receivers' = [receivers EXCEPT ![x] = [receivers[x] EXCEPT !.todo = @ \ {w}]]
          /\ receipts' \subseteq receipts \cup {<<w, receivers[x].delivery>>}
          /\ receivers[x] # None /\ UNCHANGED accepted
      BY <1>6 DEF EnqueueWorkspace
    <2>2. receivers[x] \in [delivery : Deliveries, todo : SUBSET Workspaces]
      BY <2>1 DEF Typed, TypeOK
    <2>3. ServedNext(w, receivers[x].delivery)
      BY <1>6, <2>2, TurnServes
    <2>4. \A e \in receipts' : ServedNext(e[1], e[2])
      BY <1>3, <2>1, <2>3
    <2>5. ASSUME NEW y \in Receivers, receivers'[y] # None,
                 NEW v \in Workspaces \ receivers'[y].todo
          PROVE  ServedNext(v, receivers'[y].delivery)
      <3>1. CASE y = x
        <4>1. /\ receivers'[y].delivery = receivers[x].delivery
              /\ receivers'[y].todo = receivers[x].todo \ {w}
          BY <2>1, <2>2, <3>1 DEF Typed, TypeOK
        <4> QED BY <1>3, <2>1, <2>3, <2>5, <4>1
      <3>2. CASE y # x
        <4>1. receivers'[y] = receivers[y]
          BY <2>1, <3>2 DEF Typed, TypeOK
        <4> QED BY <1>3, <2>5, <4>1
      <3> QED BY <3>1, <3>2
    <2> QED BY <1>2, <1>3, <2>1, <2>4, <2>5
  <1>7. ASSUME NEW x \in Receivers, Accept(x) \/ FailHook(x)
        PROVE  HintsServed'
    <2>1. /\ receivers' = [receivers EXCEPT ![x] = None] /\ UNCHANGED receipts
          /\ receivers[x] # None
          /\ \/ accepted' = accepted
             \/ /\ accepted' = accepted \cup {receivers[x].delivery}
                /\ receivers[x].todo = {}
      BY <1>7 DEF Accept, FailHook
    <2>2. \A d \in accepted', v \in Workspaces : ServedNext(v, d)
      BY <1>3, <2>1
    <2>3. \A y \in Receivers : receivers'[y] # None => receivers'[y] = receivers[y]
      BY <2>1 DEF Typed, TypeOK
    <2> QED BY <1>2, <1>3, <2>1, <2>2, <2>3
  <1>8. ASSUME NEW w \in Workspaces, NEW d \in Deliveries, ForgetReceipt(w, d)
        PROVE  HintsServed'
    <2>1. receipts' \subseteq receipts /\ UNCHANGED <<receivers, accepted>>
      BY <1>8 DEF ForgetReceipt
    <2> QED BY <1>2, <1>3, <2>1
  <1>9. UNCHANGED webhooks \/ WebhookStep
    BY StepCases DEF LinkArrives, Begins
  <1>10. CASE WebhookStep
    BY <1>4, <1>5, <1>6, <1>7, <1>8, <1>10 DEF WebhookStep, Send
  <1> QED BY <1>4, <1>9, <1>10 DEF webhooks

-----------------------------------------------------------------------------
(* Versions                                                                *)

\* An earlier state of a merge request, by the stamps the code compares.
Earlier(old, new) ==
  \/ old.mr < new.mr
  \/ /\ old.mr = new.mr /\ old.head = new.head /\ old.pipeline = new.pipeline
     /\ old.ran < new.ran

\* Stamps tell the order of the states.
StampsTell ==
  \A s \in Sources : \A n \in 1..Versions(s) :
    /\ history[s][n].mr <= n /\ history[s][n].ran <= n
    /\ \A m \in 1..Versions(s) : m < n => Earlier(history[s][m], history[s][n])

LEMMA StampsInitially == Init => StampsTell
  <1> SUFFICES ASSUME Init PROVE StampsTell
    OBVIOUS
  <1>1. \A s \in Sources :
          /\ Len(history[s]) = 1
          /\ history[s][1] = [mr |-> 1, head |-> 1, pipeline |-> 1, ran |-> 1]
    BY DEF Init
  <1> QED BY <1>1 DEF StampsTell, Versions

LEMMA StampsStep ==
  ASSUME "pipeline" \notin Events
  PROVE  Typed /\ StampsTell /\ [Next]_vars => StampsTell'
  <1> SUFFICES ASSUME Typed, StampsTell, [Next]_vars PROVE StampsTell'
    OBVIOUS
  <1>1. CASE UNCHANGED history
    BY <1>1 DEF StampsTell, Versions
  <1>2. ASSUME NEW s \in Sources, NEW e \in Events, SourceChanges(s, e)
        PROVE  StampsTell'
    <2> DEFINE len == Len(history[s])
    <2> DEFINE last == history[s][len]
    <2> DEFINE new == After(last, e, len + 1)
    <2>1. history[s] \in Seq(State) /\ len \in Nat /\ len > 0
      BY DEF Typed, TypeOK, Versions
    <2>2. \A n \in 1..len : history[s][n] \in State
      BY <2>1
    <2>3. last \in State
      BY <2>1, <2>2
    <2>4. new \in State
      BY <2>1, <2>3, SMTT(30) DEF After, State
    <2>5. e \in {"edit", "push", "step"}
      BY DomainsAssumption DEF DomainsAssumption
    <2>6. /\ new.mr \in {last.mr, len + 1} /\ new.ran \in {last.ran, len + 1}
          /\ \/ new.mr = len + 1
             \/ /\ new.mr = last.mr /\ new.head = last.head
                /\ new.pipeline = last.pipeline /\ new.ran = len + 1
      BY <2>5 DEF After
    <2>7. history' = [history EXCEPT ![s] = Append(history[s], new)]
      BY <1>2 DEF SourceChanges
    <2> HIDE DEF new
    <2>8. /\ Len(Append(history[s], new)) = len + 1
          /\ Append(history[s], new)[len + 1] = new
          /\ \A n \in 1..len : Append(history[s], new)[n] = history[s][n]
      BY <2>1, <2>4
    <2>9. /\ Len(history'[s]) = len + 1 /\ history'[s][len + 1] = new
          /\ \A n \in 1..len : history'[s][n] = history[s][n]
          /\ \A q \in Sources : q # s => history'[q] = history[q]
      BY <2>7, <2>8 DEF Typed, TypeOK
    <2>10. \A n \in 1..len :
             /\ history[s][n].mr \in Nat /\ history[s][n].ran \in Nat
             /\ history[s][n].mr <= n /\ history[s][n].ran <= n
             /\ \A m \in 1..len : m < n => Earlier(history[s][m], history[s][n])
      BY <2>2 DEF StampsTell, Versions, State
    <2>11. new.mr <= len + 1 /\ new.ran <= len + 1
      BY <2>1, <2>6, <2>10
    <2>12. ASSUME NEW m \in 1..len
           PROVE  Earlier(history[s][m], new)
      <3>1. CASE new.mr = len + 1
        BY <2>1, <2>10, <3>1 DEF Earlier
      <3>2. CASE /\ new.mr = last.mr /\ new.head = last.head
                 /\ new.pipeline = last.pipeline /\ new.ran = len + 1
        <4>1. history[s][m].ran < len + 1
          BY <2>1, <2>10
        <4>2. CASE m = len
          BY <3>2, <4>1, <4>2 DEF Earlier
        <4>3. CASE m < len
          <5>1. Earlier(history[s][m], last)
            BY <2>1, <2>10, <4>3
          <5> QED BY <3>2, <4>1, <5>1 DEF Earlier
        <4> QED BY <2>1, <4>2, <4>3
      <3> QED BY <2>6, <3>1, <3>2
    <2> HIDE DEF len, last
    <2>13. \A n \in 1..(len + 1) :
             /\ history'[s][n].mr <= n /\ history'[s][n].ran <= n
             /\ \A m \in 1..(len + 1) :
                  m < n => Earlier(history'[s][m], history'[s][n])
      <3> SUFFICES ASSUME NEW n \in 1..(len + 1)
                   PROVE  /\ history'[s][n].mr <= n /\ history'[s][n].ran <= n
                          /\ \A m \in 1..(len + 1) :
                               m < n => Earlier(history'[s][m], history'[s][n])
        OBVIOUS
      <3>1. CASE n = len + 1
        <4>1. \A m \in 1..(len + 1) : m < n => m \in 1..len
          BY <2>1, <3>1
        <4> QED BY <2>9, <2>11, <2>12, <3>1, <4>1
      <3>2. CASE n # len + 1
        <4>1. n \in 1..len /\ \A m \in 1..(len + 1) : m < n => m \in 1..len
          BY <2>1, <3>2
        <4> QED BY <2>9, <2>10, <4>1
      <3> QED BY <3>1, <3>2
    <2>14. ASSUME NEW q \in Sources
           PROVE  \A n \in 1..Len(history'[q]) :
                    /\ history'[q][n].mr <= n /\ history'[q][n].ran <= n
                    /\ \A m \in 1..Len(history'[q]) :
                         m < n => Earlier(history'[q][m], history'[q][n])
      <3>1. CASE q = s
        BY <2>9, <2>13, <3>1
      <3>2. CASE q # s
        BY <2>9, <3>2 DEF StampsTell, Versions
      <3> QED BY <3>1, <3>2
    <2> QED BY <2>14 DEF StampsTell, Versions, Earlier
  <1> QED BY <1>1, <1>2, NoGitLabStep DEF GitLabStep

-----------------------------------------------------------------------------
(* The theorems                                                            *)

Inv ==
  /\ Typed
  /\ IdentifiersLast
  /\ LateIsSuperseded
  /\ RunsApart
  /\ PendingRunsAreCurrent
  /\ OneRowPerTarget
  /\ AnswersAreReads
  /\ CachesAreReads
  /\ CachesAreApproved
  /\ DeliveriesMade
  /\ HintsServed

LEMMA InvInitially == Init => Inv
  <1> SUFFICES ASSUME Init PROVE Inv
    OBVIOUS
  <1>1. Typed
    BY TypedInitially
  <1>2. DOMAIN links = {} /\ accepted = {} /\ receipts = {}
    BY DEF Init
  <1>3. /\ \A a \in Attempts : attempts[a] = None
        /\ \A r \in Runs : pending[r] = None
        /\ \A x \in Receivers : receivers[x] = None
        /\ \A d \in Deliveries : hooks[d] = None
    BY DEF Init
  <1>4. IdentifiersLast /\ LateIsSuperseded /\ RunsApart /\ OneRowPerTarget
    BY <1>2, <1>3 DEF IdentifiersLast, LateIsSuperseded, RunsApart, OneRowPerTarget
  <1>5. PendingRunsAreCurrent
    BY <1>2, <1>3 DEF PendingRunsAreCurrent
  <1>6. AnswersAreReads /\ CachesAreReads /\ CachesAreApproved
    BY <1>2, <1>3 DEF AnswersAreReads, CachesAreReads, CachesAreApproved
  <1>7. DeliveriesMade /\ HintsServed
    BY <1>2, <1>3 DEF DeliveriesMade, HintsServed
  <1> QED BY <1>1, <1>4, <1>5, <1>6, <1>7 DEF Inv

LEMMA InvStep == Inv /\ [Next]_vars => Inv'
  BY TypedStep, IdentifiersStep, LateStep, RunsStep, OneRowStep, AnswersStep,
     CachesStep, ApprovalsStep, DeliveriesStep, HintsStep
     DEF Inv

LEMMA Invariance == Spec => []Inv
  BY InvInitially, InvStep, PTL DEF Spec

\* integration_runs and external_links agree: a row is refreshing exactly while
\* its own run is pending, and abandoned runs of a row that is there are closed.
THEOREM RunsAgree == Spec => []PendingRunsAreCurrent
  <1>1. Inv => PendingRunsAreCurrent
    BY DEF Inv
  <1> QED BY <1>1, Invariance, PTL

\* Revoking approvals removes what was cached, and no answer that refresh was
\* waiting for brings it back: a row caches its own source, still approved.
THEOREM CachesStayApproved == Spec => []CachesAreApproved
  <1>1. Inv => CachesAreApproved
    BY DEF Inv
  <1> QED BY <1>1, Invariance, PTL

\* However items are attached and detached, a workspace has one row for a merge
\* request.
THEOREM RowsAreUnique == Spec => []OneRowPerTarget
  <1>1. Inv => OneRowPerTarget
    BY DEF Inv
  <1> QED BY <1>1, Invariance, PTL

\* No hint of a delivery answered 202 is forgotten, whatever reads were under
\* way and whatever failed or was repeated in EnqueueWebhook.
THEOREM HintsAreHonoured == Spec => []AcceptedHintsAreHonoured
  <1>1. Inv => AcceptedHintsAreHonoured
    BY DEF Inv, Typed, TypeOK, Link, HintsServed, ServedIn, Concerns, Served,
           AcceptedHintsAreHonoured
  <1> QED BY <1>1, Invariance, PTL

\* The second transaction of refresh drops the answer of an attempt that another
\* one of the same link has overtaken.
THEOREM LateAnswersAreDropped == Spec => SupersededAnswersAreDropped
  <1>1. Inv /\ [Next]_vars =>
          [\A a \in Attempts :
             attempts[a] # None /\ attempts[a].late /\ Finish(a) => links' = links]_vars
    <2> SUFFICES ASSUME Inv, NEW a \in Attempts, attempts[a] # None, attempts[a].late,
                        Finish(a)
                 PROVE  links' = links
      OBVIOUS
    <2>1. ~Current(a)
      BY DEF Inv, LateIsSuperseded, Current
    <2> QED BY <2>1 DEF Finish
  <1> QED BY <1>1, Invariance, PTL DEF Spec, SupersededAnswersAreDropped

LEMMA NewerStep ==
  ASSUME Inv, StampsTell, [Next]_vars,
         NEW i \in DOMAIN links \cap DOMAIN links', links[i].observation # None
  PROVE  /\ links'[i].observation # None
         /\ links'[i].observation.number >= links[i].observation.number
  <1> USE DEF Inv
  <1>1. links[i].observation \in Observation /\ links[i].observation.number \in Nat
    BY DEF Typed, TypeOK, Link, Observation
  <1>2. CASE links'[i].observation = links[i].observation
    BY <1>1, <1>2
  <1>3. CASE Quiet
    BY <1>2, <1>3 DEF Quiet, LinksStay
  <1>4. ASSUME NEW j \in Ids, NEW w \in Workspaces, NEW t \in Targets, LinkArrives(j, w, t)
        PROVE  links'[i].observation = links[i].observation
    BY <1>4 DEF LinkArrives
  <1>5. ASSUME NEW b \in Attempts, NEW j \in Ids, Begins(b, j)
        PROVE  links'[i].observation = links[i].observation
    <2>1. BeginLeaves(b, j)
      BY <1>5, BeginEffects
    <2> QED BY <2>1 DEF BeginLeaves
  <1>6. ASSUME NEW a \in Attempts, Stores(a), UNCHANGED planning
        PROVE  /\ links'[i].observation # None
               /\ links'[i].observation.number >= links[i].observation.number
    <2>1. StoreLeaves(a, attempts[a].link)
      BY <1>6, StoreEffects
    <2>2. CASE i # attempts[a].link \/ links'[i].observation = links[i].observation
      BY <1>2, <2>1, <2>2 DEF StoreLeaves
    <2>3. CASE i = attempts[a].link /\ links'[i].observation # links[i].observation
      <3> DEFINE s == attempts[a].source
      <3>1. /\ links'[i].observation = attempts[a].answer /\ attempts[a].answer # Failed
            /\ attempts[a].answer # None
            /\ ~Outdated(links[i].observation.state, attempts[a].answer.state)
        BY <2>1, <2>3 DEF StoreLeaves, Cached
      <3>2. attempts[a] # None /\ s \in Instances \X Targets
        BY <1>6, <2>1 DEF Stores, Finish, StoreLeaves, Attempt, Sources
      <3>3. links[i].observation.source = s
        <4>1. links[i].target = s[2] /\ instance[links[i].workspace] = s[1]
          BY <2>1, <2>3, <3>2 DEF StoreLeaves, IdentifiersLast
        <4> QED BY <3>2, <4>1 DEF CachesAreApproved, SourceOf
      <3>4. PICK n \in 1..Versions(s) : attempts[a].answer = Observed(s, n)
        BY <3>1, <3>2 DEF AnswersAreReads
      <3>5. PICK m \in 1..Versions(s) : links[i].observation = Observed(s, m)
        BY <3>3 DEF CachesAreReads
      <3>6. Versions(s) \in Nat /\ s \in Sources
        BY <3>2 DEF Typed, TypeOK, Versions, Sources
      <3>7. ~Outdated(history[s][m], history[s][n])
        BY <3>1, <3>4, <3>5 DEF Observed
      <3>8. ~(n < m)
        <4> SUFFICES ASSUME n < m PROVE FALSE
          OBVIOUS
        <4>1. Earlier(history[s][n], history[s][m])
          BY <3>6 DEF StampsTell
        <4> QED BY <3>7, <4>1 DEF Earlier, Outdated
      <3>9. attempts[a].answer.number = n /\ links[i].observation.number = m
        BY <3>4, <3>5 DEF Observed
      <3> QED BY <3>1, <3>6, <3>8, <3>9
    <2> QED BY <2>2, <2>3
  <1> QED BY <1>2, <1>3, <1>4, <1>5, <1>6, StepCases

\* As long as GitLab starts no second pipeline for a head commit, the stamps
\* refresh compares are enough: no newer entry is replaced by an older answer.
THEOREM NewerEntriesAreKept ==
  ASSUME "pipeline" \notin Events
  PROVE  Spec => NewerEntriesStay
  <1>1. Spec => []StampsTell
    <2>1. Inv /\ StampsTell /\ [Next]_vars => StampsTell'
      BY StampsStep DEF Inv
    <2> QED BY <2>1, StampsInitially, Invariance, PTL DEF Spec
  <1>2. Inv /\ StampsTell /\ [Next]_vars =>
          [\A i \in DOMAIN links \cap DOMAIN links' :
             links[i].observation # None
               => /\ links'[i].observation # None
                  /\ links'[i].observation.number >= links[i].observation.number]_vars
    BY NewerStep
  <1> QED BY <1>1, <1>2, Invariance, PTL DEF Spec, NewerEntriesStay

=============================================================================
