---------------------------- MODULE MCFluxChange ----------------------------
(***************************************************************************)
(* Small workspaces for TLC: two or three people and a handful of requests *)
(* chosen so that keys collide, bases go stale and roles change under the  *)
(* feet of requests on their way.                                          *)
(***************************************************************************)
EXTENDS FluxChange, TLC

CONSTANTS ann, bob

Plan(actor, key, base) ==
    [actor |-> actor, key |-> key, base |-> base, op |-> "plan",
     target |-> None, role |-> None]
Save(actor, key, base, target, role) ==
    [actor |-> actor, key |-> key, base |-> base, op |-> "save",
     target |-> target, role |-> role]
Delete(actor, key, base, target) ==
    [actor |-> actor, key |-> key, base |-> base, op |-> "delete",
     target |-> target, role |-> None]
Add(actor, key, base, target, role) ==
    [actor |-> actor, key |-> key, base |-> base, op |-> "add",
     target |-> target, role |-> role]

\* One administrator and one member.
TwoPeople == [u \in Subject |-> IF u = ann THEN "admin" ELSE "member"]

\* Retries: the same command twice, the same key for another command, and two
\* people against the same revision.
RetryRequests ==
    {Plan(ann, "k1", 1), Plan(ann, "k1", 2), Plan(bob, "k1", 1), Plan(bob, "k2", 2)}

\* Revocation: the administrator demotes, promotes or removes the other, who
\* is sending a command, and who may do the same once promoted.
RoleRequests ==
    {Plan(bob, "k1", 2), Save(ann, "k1", 1, bob, "viewer"),
     Save(ann, "k2", 1, bob, "admin"), Delete(ann, "k3", 2, bob),
     Save(bob, "k2", 2, ann, "member"), Add(ann, "k4", 3, bob, "member")}

RoleOperations == {[target |-> bob, role |-> "admin"], [target |-> ann, role |-> "viewer"]}

Remark(actor, key, body) == [actor |-> actor, key |-> key, body |-> body]

\* Two comments under one key, beside the demotion of their author on both
\* code paths.
TwoComments == {Remark(bob, "k1", "a"), Remark(bob, "k1", "b")}
OneComment == {Remark(bob, "k1", "a")}
BobDemoted == {Save(ann, "k1", 1, bob, "viewer"), Plan(ann, "k2", 1)}
BobSetViewer == {[target |-> bob, role |-> "viewer"]}

AllRequests == RetryRequests \cup RoleRequests \cup BobDemoted
AllOperations == RoleOperations \cup BobSetViewer

HandlerSymmetry == Permutations(Handler)

\* The bound of the safety run: one of the three stories at a time, retries by
\* three handlers, revocations by two, and comments by three.
InStory(set) ==
    /\ \A h \in Handler : work[h] # None => work[h] \in set
    /\ \A e \in receipts : e.request \in set
    /\ comments \subseteq set
Started == {h \in Handler : pc[h] # "idle"}
OneStory ==
    \/ InStory(RetryRequests) /\ roles = InitRoles
    \/ InStory(RoleRequests \cup RoleOperations) /\ Cardinality(Started) <= 2
    \/ /\ InStory(BobDemoted \cup TwoComments \cup BobSetViewer)
       /\ roles[ann] = "admin" /\ roles[bob] \in {"member", "viewer"}
=============================================================================
