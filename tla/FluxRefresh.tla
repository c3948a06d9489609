---------------------------- MODULE FluxRefresh ----------------------------
(***************************************************************************)
(* The cached GitLab observations of internal/store/integration.go,        *)
(* refresh.go and webhook.go: which links a workspace has registered, the  *)
(* attempts that read them from GitLab outside any transaction, and the    *)
(* webhooks that only say that something changed.                          *)
(*                                                                         *)
(* Every transaction holds its workspace's row from its first statement to *)
(* its commit, so each is one action here; an attempt is two of them with  *)
(* a request to GitLab in between, and a webhook is one per workspace.     *)
(* Roles, revisions and the keys of planning changes are FluxChange's.     *)
(***************************************************************************)
EXTENDS Integers, Sequences, FiniteSets

CONSTANTS
  Workspaces, Items, Projects, Targets, Instances,
  ProjectOf,    \* the GitLab project of a merge request
  Ids,          \* identifiers of links, each given out once
  Runs,         \* numbers of attempts
  Attempts,     \* calls of refresh that run at once
  Keys,         \* Idempotency-Keys of refreshes that members ask for
  Deliveries,   \* webhook deliveries GitLab makes
  Receivers,    \* webhook requests that are handled at once
  Events,       \* what may happen to a merge request
  MaxVersion,   \* bound on the states a merge request goes through
  None,         \* no instance, no attempt, no observation
  Failed        \* an answer that brings no observation

ASSUME DomainsAssumption ==
  /\ ProjectOf \in [Targets -> Projects]
  /\ Events \subseteq {"edit", "push", "pipeline", "step"}
  /\ MaxVersion \in Nat \ {0}
  /\ None \notin Instances \cup Ids \cup Runs
  /\ \A x \in Attempts \cup Receivers \cup Deliveries : x # None

VARIABLES
  connector,    \* the instance the servers are configured to read
  instance,     \* workspace_integrations.instance
  approved,     \* approved_gitlab_projects
  links,        \* external_links with their item_external_links
  used,         \* identifiers given to links so far
  pending,      \* integration_runs whose outcome is 'pending': their link
  attempts,     \* what the calls of refresh hold in memory
  keys,         \* idempotency_keys of refreshes
  history,      \* GitLab: the states of each merge request, oldest first
  hooks,        \* GitLab: the deliveries made so far
  receivers,    \* what the webhook handlers hold in memory
  receipts,     \* webhook_deliveries
  accepted      \* deliveries answered 202

vars == <<connector, instance, approved, links, used, pending, attempts,
          keys, history, hooks, receivers, receipts, accepted>>

planning == <<connector, instance, approved, used>>
webhooks == <<hooks, receivers, receipts, accepted>>

Sources == Instances \X Targets

\* A state of a merge request: its own time stamp, its head commit, the head
\* pipeline and that pipeline's time stamp. Stamps and names are the number
\* of the state that brought them.
State == [mr : Nat, head : Nat, pipeline : Nat, ran : Nat]

\* An observation, with where it was read.
Observation == [source : Sources, number : Nat, state : State]

Link == [workspace : Workspaces, target : Targets, items : SUBSET Items,
         dirty : BOOLEAN,      \* a hint waits for a read
         cooling : BOOLEAN,    \* next_refresh is still to come
         due : BOOLEAN,        \* poll_after has passed
         refreshing : BOOLEAN, \* outcome = 'refreshing'
         run : Runs \cup {None},
         observation : Observation \cup {None},
         begun : Nat]          \* history: GitLab's state when run began

Attempt == [link : Ids, source : Sources, run : Runs,
            answer : Observation \cup {None, Failed},
            late : BOOLEAN]    \* history: another attempt has begun since

Hint == [instance : Instances, project : Projects, hits : SUBSET Targets,
         at : [Targets -> Nat]]

TypeOK ==
  /\ connector \in Instances
  /\ instance \in [Workspaces -> Instances \cup {None}]
  /\ approved \in [Workspaces -> SUBSET Projects]
  /\ used \subseteq Ids
  /\ DOMAIN links \subseteq used
  /\ links \in [DOMAIN links -> Link]
  /\ pending \in [Runs -> Ids \cup {None}]
  /\ attempts \in [Attempts -> Attempt \cup {None}]
  /\ keys \subseteq Keys
  /\ history \in [Sources -> Seq(State)]
  /\ hooks \in [Deliveries -> Hint \cup {None}]
  /\ receivers \in [Receivers ->
       [delivery : Deliveries, todo : SUBSET Workspaces] \cup {None}]
  /\ receipts \subseteq Workspaces \X Deliveries
  /\ accepted \subseteq Deliveries

SourceOf(i) == <<instance[links[i].workspace], links[i].target>>
Versions(source) == Len(history[source])

Init ==
  /\ connector \in Instances
  /\ instance = [w \in Workspaces |-> None]
  /\ approved = [w \in Workspaces |-> {}]
  /\ links = [i \in {} |-> None]
  /\ used = {}
  /\ pending = [r \in Runs |-> None]
  /\ attempts = [a \in Attempts |-> None]
  /\ keys = {}
  /\ history = [s \in Sources |->
                  <<[mr |-> 1, head |-> 1, pipeline |-> 1, ran |-> 1]>>]
  /\ hooks = [d \in Deliveries |-> None]
  /\ receivers = [x \in Receivers |-> None]
  /\ receipts = {}
  /\ accepted = {}

-----------------------------------------------------------------------------
(* The planning changes that register and remove links.                    *)

Without(gone) == [i \in DOMAIN links \ gone |-> links[i]]

\* The links integration.save takes away: those of another instance and those
\* of a project that is no longer approved.
Revoked(w, inst, ps) ==
  {i \in DOMAIN links :
     /\ links[i].workspace = w
     /\ instance[w] # inst \/ ProjectOf[links[i].target] \notin ps}

\* integration.save: the instance is the operator's, or none without projects.
SaveIntegration(w, ps) ==
  LET inst == IF ps = {} THEN None ELSE connector IN
  /\ links' = Without(Revoked(w, inst, ps))
  /\ instance' = [instance EXCEPT ![w] = inst]
  /\ approved' = [approved EXCEPT ![w] = ps]
  /\ UNCHANGED <<connector, used, pending, attempts, keys, history, webhooks>>

NewLink(w, t, item) ==
  [workspace |-> w, target |-> t, items |-> {item}, dirty |-> TRUE,
   cooling |-> FALSE, due |-> TRUE, refreshing |-> FALSE, run |-> None,
   observation |-> None, begun |-> 0]

\* link.attach: a target the workspace has registered gets the item, another
\* one gets a row of its own under an identifier never seen before.
AttachLink(w, item, t) ==
  /\ instance[w] = connector
  /\ ProjectOf[t] \in approved[w]
  /\ \/ \E i \in DOMAIN links :
          /\ links[i].workspace = w /\ links[i].target = t
          /\ item \notin links[i].items
          /\ links' = [links EXCEPT ![i].items = @ \cup {item}]
          /\ UNCHANGED used
     \/ /\ \A i \in DOMAIN links :
             links[i].workspace = w => links[i].target # t
        /\ \E i \in Ids \ used :
             /\ links' = [j \in DOMAIN links \cup {i} |->
                            IF j = i THEN NewLink(w, t, item) ELSE links[j]]
             /\ used' = used \cup {i}
  /\ UNCHANGED <<connector, instance, approved, pending, attempts, keys,
                 history, webhooks>>

\* link.detach: the row goes with its last item, whatever is being read.
DetachLink(i, item) ==
  /\ i \in DOMAIN links
  /\ item \in links[i].items
  /\ links' = IF links[i].items = {item} THEN Without({i})
              ELSE [links EXCEPT ![i].items = @ \ {item}]
  /\ UNCHANGED <<planning, pending, attempts, keys, history, webhooks>>

\* The operator points the servers at another instance; calls that run keep
\* the connector they started with.
Reconfigure(inst) ==
  /\ inst # connector
  /\ connector' = inst
  /\ UNCHANGED <<instance, approved, links, used, pending, attempts, keys,
                 history, webhooks>>

-----------------------------------------------------------------------------
(* refresh: reserve, read without a transaction, check and store.          *)

\* Numbers of runs are never given out twice: the model takes one that no row
\* and no call refers to any more, and Runs bounds how many are referred to.
FreshRuns ==
  {r \in Runs : /\ pending[r] = None
                /\ \A i \in DOMAIN links : links[i].run # r
                /\ \A a \in Attempts :
                     attempts[a] # None => attempts[a].run # r}
NextRun == CHOOSE r \in Runs : r \in FreshRuns

\* What both kinds of request ask of a link before an attempt begins.
Readable(i) ==
  /\ i \in DOMAIN links
  /\ instance[links[i].workspace] = connector
  /\ ProjectOf[links[i].target] \in approved[links[i].workspace]
  /\ ~links[i].cooling

\* A bug: a new attempt leaves the abandoned one as it is.
InterruptedNever(i) == {}

\* The attempt the link had, if it was abandoned, is closed as 'interrupted'.
Interrupted(i) == {r \in Runs : r = links[i].run /\ pending[r] # None}

\* The first transaction of refresh.
Reserve(a, i) ==
  LET run == NextRun IN
  /\ attempts[a] = None
  /\ FreshRuns # {}
  /\ pending' = [q \in Runs |-> IF q = run THEN i
                                ELSE IF q \in Interrupted(i) THEN None
                                ELSE pending[q]]
  /\ links' = [links EXCEPT
       ![i].dirty = FALSE, ![i].cooling = TRUE, ![i].refreshing = TRUE,
       ![i].run = run, ![i].begun = Versions(SourceOf(i))]
  /\ attempts' = [b \in Attempts |->
       IF b = a THEN [link |-> i, source |-> SourceOf(i), run |-> run,
                      answer |-> None, late |-> FALSE]
       ELSE IF attempts[b] # None /\ attempts[b].link = i
       THEN [attempts[b] EXCEPT !.late = TRUE]
       ELSE attempts[b]]

\* link.refresh asked for by a member, under a key not used before.
RequestRefresh(a, i, k) ==
  /\ Readable(i)
  /\ k \notin keys
  /\ keys' = keys \cup {k}
  /\ Reserve(a, i)
  /\ UNCHANGED <<planning, history, webhooks>>

\* A bug: only hints are served.
BackgroundOnHints(a, i) ==
  /\ Readable(i)
  /\ links[i].dirty
  /\ Reserve(a, i)
  /\ UNCHANGED <<planning, keys, history, webhooks>>

\* A worker of refreshBatch takes a link that is hinted at or due.
BackgroundRefresh(a, i) ==
  /\ Readable(i)
  /\ links[i].dirty \/ links[i].due
  /\ Reserve(a, i)
  /\ UNCHANGED <<planning, keys, history, webhooks>>

Observed(source, n) ==
  [source |-> source, number |-> n, state |-> history[source][n]]

\* Client.Fetch. GitLab may answer with a state that is not its latest, and
\* busy, limited, missing, hidden and broken answers all bring nothing.
Answer(a) ==
  /\ attempts[a] # None /\ attempts[a].answer = None
  /\ \E v \in {Failed} \cup {Observed(attempts[a].source, n) :
                               n \in 1..Versions(attempts[a].source)} :
       attempts' = [attempts EXCEPT ![a].answer = v]
  /\ UNCHANGED <<planning, links, pending, keys, history, webhooks>>

\* A bug: only the pipeline's stamp is compared.
OutdatedPipeline(old, new) ==
  new.head = old.head /\ new.pipeline = old.pipeline /\ new.ran < old.ran

\* The source's own stamps: of the merge request, and of the pipeline while
\* head and pipeline are the same.
Outdated(old, new) ==
  \/ new.mr < old.mr
  \/ new.head = old.head /\ new.pipeline = old.pipeline /\ new.ran < old.ran

\* The answer may go into the row: the row is there, the workspace still has
\* the instance that was read, and no other attempt has begun.
Current(a) ==
  LET i == attempts[a].link IN
  /\ i \in DOMAIN links
  /\ instance[links[i].workspace] = attempts[a].source[1]
  /\ links[i].run = attempts[a].run

Cached(old, answer) ==
  IF answer = Failed \/ (old # None /\ Outdated(old.state, answer.state))
  THEN old ELSE answer

\* The second transaction of refresh.
Finish(a) ==
  /\ attempts[a] # None /\ attempts[a].answer # None
  /\ attempts' = [attempts EXCEPT ![a] = None]
  /\ IF Current(a)
     THEN LET i == attempts[a].link IN
          /\ links' = [links EXCEPT
               ![i].observation = Cached(@, attempts[a].answer),
               ![i].refreshing = FALSE, ![i].cooling = TRUE, ![i].due = FALSE]
          /\ pending' = [pending EXCEPT ![attempts[a].run] = None]
     ELSE UNCHANGED <<links, pending>>
  /\ UNCHANGED <<planning, keys, history, webhooks>>

\* A crash, a deadline, a failed transaction or a role lost meanwhile: the
\* call ends and leaves what it reserved.
Abandon(a) ==
  /\ attempts[a] # None
  /\ attempts' = [attempts EXCEPT ![a] = None]
  /\ UNCHANGED <<planning, links, pending, keys, history, webhooks>>

\* next_refresh passes: the lease of an attempt or the cooldown after one.
CooldownEnds(i) ==
  /\ i \in DOMAIN links /\ links[i].cooling
  /\ links' = [links EXCEPT ![i].cooling = FALSE]
  /\ UNCHANGED <<planning, pending, attempts, keys, history, webhooks>>

\* poll_after passes.
PollComesDue(i) ==
  /\ i \in DOMAIN links /\ ~links[i].due
  /\ links' = [links EXCEPT ![i].due = TRUE]
  /\ UNCHANGED <<planning, pending, attempts, keys, history, webhooks>>

-----------------------------------------------------------------------------
(* GitLab and its webhooks.                                                *)

\* An edit, a push with its own pipeline, a new pipeline for the same head, or
\* progress of the pipeline.
After(state, event, n) ==
  [mr |-> IF event \in {"edit", "push"} THEN n ELSE state.mr,
   head |-> IF event = "push" THEN n ELSE state.head,
   pipeline |-> IF event \in {"push", "pipeline"} THEN n ELSE state.pipeline,
   ran |-> IF event = "edit" THEN state.ran ELSE n]

SourceChanges(source, event) ==
  /\ Versions(source) < MaxVersion
  /\ history' = [history EXCEPT ![source] =
       Append(@, After(@[Len(@)], event, Len(@) + 1))]
  /\ UNCHANGED <<planning, links, pending, attempts, keys, webhooks>>

\* GitLab makes a delivery about one merge request, or about a project when
\* the hook names none (a push, a pipeline without its merge request).
Send(d, inst, project, hits) ==
  /\ hooks[d] = None
  /\ hooks' = [hooks EXCEPT ![d] =
       [instance |-> inst, project |-> project, hits |-> hits,
        at |-> [t \in Targets |-> Versions(<<inst, t>>)]]]
  /\ UNCHANGED <<planning, links, pending, attempts, keys, history, receivers,
                 receipts, accepted>>

Belonging(w, d) ==
  {i \in DOMAIN links : links[i].workspace = w
                        /\ ProjectOf[links[i].target] = hooks[d].project}

\* EnqueueWebhook lists the workspaces before it locks any. GitLab may send a
\* delivery again, also one that was answered.
Receive(x, d) ==
  /\ receivers[x] = None
  /\ hooks[d] # None /\ hooks[d].instance = connector
  /\ receivers' = [receivers EXCEPT ![x] =
       [delivery |-> d,
        todo |-> {w \in Workspaces : /\ Belonging(w, d) # {}
                                     /\ instance[w] = connector}]]
  /\ UNCHANGED <<planning, links, pending, attempts, keys, history, hooks,
                 receipts, accepted>>

Approved(w, d) ==
  instance[w] = hooks[d].instance /\ hooks[d].project \in approved[w]

\* The rows a hint makes dirty.
Hit(w, d) == {i \in Belonging(w, d) : links[i].target \in hooks[d].hits}

\* A bug: a delivery that one workspace has recorded is done for all.
SeenAnywhere(w, d) == \E v \in Workspaces : <<v, d>> \in receipts

Seen(w, d) == <<w, d>> \in receipts

\* enqueueWorkspace: one workspace, its rows and its receipt together.
EnqueueWorkspace(x, w) ==
  /\ receivers[x] # None /\ w \in receivers[x].todo
  /\ receivers' = [receivers EXCEPT ![x].todo = @ \ {w}]
  /\ LET d == receivers[x].delivery IN
     IF Approved(w, d) /\ ~Seen(w, d) /\ Hit(w, d) # {}
     THEN /\ links' = [i \in DOMAIN links |->
                         IF i \in Hit(w, d)
                         THEN [links[i] EXCEPT !.dirty = TRUE] ELSE links[i]]
          /\ receipts' = receipts \cup {<<w, d>>}
     ELSE UNCHANGED <<links, receipts>>
  /\ UNCHANGED <<planning, pending, attempts, keys, history, hooks, accepted>>

\* 202 once every workspace has committed.
Accept(x) ==
  /\ receivers[x] # None /\ receivers[x].todo = {}
  /\ accepted' = accepted \cup {receivers[x].delivery}
  /\ receivers' = [receivers EXCEPT ![x] = None]
  /\ UNCHANGED <<planning, links, pending, attempts, keys, history, hooks,
                 receipts>>

\* 503: the workspaces done so far keep their rows and receipts.
FailHook(x) ==
  /\ receivers[x] # None
  /\ receivers' = [receivers EXCEPT ![x] = None]
  /\ UNCHANGED <<planning, links, pending, attempts, keys, history, hooks,
                 receipts, accepted>>

\* The retention at the end of refreshBatch, after seven days.
ForgetReceipt(w, d) ==
  /\ <<w, d>> \in receipts
  /\ receipts' = receipts \ {<<w, d>>}
  /\ UNCHANGED <<planning, links, pending, attempts, keys, history, hooks,
                 receivers, accepted>>

-----------------------------------------------------------------------------
Next ==
  \/ \E w \in Workspaces, ps \in SUBSET Projects : SaveIntegration(w, ps)
  \/ \E w \in Workspaces, item \in Items, t \in Targets : AttachLink(w, item, t)
  \/ \E i \in Ids, item \in Items : DetachLink(i, item)
  \/ \E inst \in Instances : Reconfigure(inst)
  \/ \E a \in Attempts, i \in Ids, k \in Keys : RequestRefresh(a, i, k)
  \/ \E a \in Attempts, i \in Ids : BackgroundRefresh(a, i)
  \/ \E a \in Attempts : Answer(a)
  \/ \E a \in Attempts : Finish(a)
  \/ \E a \in Attempts : Abandon(a)
  \/ \E i \in Ids : CooldownEnds(i)
  \/ \E i \in Ids : PollComesDue(i)
  \/ \E s \in Sources, e \in Events : SourceChanges(s, e)
  \/ \E d \in Deliveries, inst \in Instances, t \in Targets :
       Send(d, inst, ProjectOf[t], {t})
  \/ \E d \in Deliveries, inst \in Instances, project \in Projects :
       Send(d, inst, project, {t \in Targets : ProjectOf[t] = project})
  \/ \E x \in Receivers, d \in Deliveries : Receive(x, d)
  \/ \E x \in Receivers, w \in Workspaces : EnqueueWorkspace(x, w)
  \/ \E x \in Receivers : Accept(x)
  \/ \E x \in Receivers : FailHook(x)
  \/ \E w \in Workspaces, d \in Deliveries : ForgetReceipt(w, d)

Spec == Init /\ [][Next]_vars

-----------------------------------------------------------------------------
(* What the servers' scheduling and the clocks guarantee.                  *)

\* A read of link i that comes back with GitLab's latest state while it is
\* still the link's current one, and the transaction that stores it.
AnswersFresh(i) ==
  \E a \in Attempts :
    /\ attempts[a] # None /\ attempts[a].link = i /\ attempts[a].answer = None
    /\ Current(a)
    /\ attempts' = [attempts EXCEPT ![a].answer =
         Observed(attempts[a].source, Versions(attempts[a].source))]
    /\ UNCHANGED <<planning, links, pending, keys, history, webhooks>>

StoresFresh(i) ==
  \E a \in Attempts :
    /\ attempts[a] # None /\ attempts[a].link = i
    /\ attempts[a].answer =
         Observed(attempts[a].source, Versions(attempts[a].source))
    /\ Current(a)
    /\ Finish(a)

\* Time passes; every call ends; refreshBatch takes the links least recently
\* attempted first, so one that is ready again and again is taken; and GitLab
\* and the servers do not fail every single time.
Fairness ==
  /\ \A i \in Ids :
       /\ WF_vars(CooldownEnds(i))
       /\ WF_vars(PollComesDue(i))
       /\ SF_vars(\E a \in Attempts : BackgroundRefresh(a, i))
       /\ SF_vars(AnswersFresh(i))
       /\ SF_vars(StoresFresh(i))
  /\ \A a \in Attempts : WF_vars(Answer(a)) /\ WF_vars(Finish(a))

FairSpec == Spec /\ Fairness

-----------------------------------------------------------------------------
(* Properties.                                                             *)

\* What is cached was read from the link's own merge request, on the instance
\* the workspace approved, and of a project it still approves: "Revoking
\* approvals removes affected links/caches" (docs/design/
\* gitlab-observations.md:14), and an answer that is on its way when that
\* happens brings none of it back (integration.go:239).
CachesAreApproved ==
  \A i \in DOMAIN links :
    LET l == links[i] IN
    /\ ProjectOf[l.target] \in approved[l.workspace]
    /\ l.observation # None => l.observation.source = SourceOf(i)

\* Two rows never cache the same merge request for one workspace, so no item
\* is shown an observation that refreshes no longer reach.
OneRowPerTarget ==
  \A i, j \in DOMAIN links :
    links[i].workspace = links[j].workspace /\ links[i].target = links[j].target
      => i = j

\* An attempt that was overtaken by another one changes nothing any more,
\* however late its answer comes (integration.go:239-254).
SupersededAnswersAreDropped ==
  [][\A a \in Attempts :
       attempts[a] # None /\ attempts[a].late /\ Finish(a) => links' = links]_vars

\* The run table and the rows agree: a link is 'refreshing' exactly while its
\* own run is pending, and of the pending runs of a link that is there only the
\* link's current one is left (integration.go:200, the abandoned attempt).
PendingRunsAreCurrent ==
  /\ \A i \in DOMAIN links :
       links[i].refreshing <=> links[i].run # None /\ pending[links[i].run] = i
  /\ \A r \in Runs : pending[r] \in DOMAIN links => links[pending[r]].run = r

\* A change GitLab told of and was answered 202 for is not forgotten by any
\* workspace, whatever was being read, failed or was repeated meanwhile: each
\* row it is about still waits to be read, or was read from after the change on
\* ("hints arriving during a fetch remain queued", README.md:243).
AcceptedHintsAreHonoured ==
  \A d \in accepted, i \in DOMAIN links :
    /\ links[i].target \in hooks[d].hits
    /\ instance[links[i].workspace] = hooks[d].instance
    => links[i].dirty \/ links[i].begun >= hooks[d].at[links[i].target]

\* A link that stays readable shows GitLab's latest state again and again,
\* whatever hooks were lost and whatever attempts were abandoned: "Polling
\* repairs missed events" (README.md:243).
ChangesAreObserved ==
  \A i \in Ids :
    []<>(\/ i \notin DOMAIN links
         \/ instance[links[i].workspace] # connector
         \/ /\ links[i].observation # None
            /\ links[i].observation.number = Versions(SourceOf(i)))

\* docs/design/gitlab-observations.md:19, "outdated provider versions never
\* replace newer cache entries".
NewerEntriesStay ==
  [][\A i \in DOMAIN links \cap DOMAIN links' :
       links[i].observation # None
         => /\ links'[i].observation # None
            /\ links'[i].observation.number >= links[i].observation.number]_vars
=============================================================================
