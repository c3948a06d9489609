----------------------------- MODULE FluxLedger -----------------------------
(***************************************************************************)
(* What the change endpoint of one workspace promises: a ledger.  Accepted *)
(* requests form one numbered sequence; each was made against the revision *)
(* it follows, by somebody who was allowed to make it at that moment, and  *)
(* a request key is used up by the first request accepted under it.        *)
(* FluxChange shows that concurrent handlers, crashes, lost replies and    *)
(* retries implement exactly this.                                         *)
(***************************************************************************)
EXTENDS Integers, FiniteSets

CONSTANTS
    Subject,   \* people
    Request,   \* commands: [actor, key, base, op, target, role]
    None       \* no role, no target

Role == {"viewer", "member", "admin"}

VARIABLES
    revision,  \* revision of the workspace
    roles,     \* role of each person, None outside the workspace
    applied    \* the accepted requests with the revision each produced

ledgerVars == <<revision, roles, applied>>

Admins(r) == {u \in Subject : r[u] = "admin"}

\* The request keys of one person that are used up.
Used(actor, key) == \E e \in applied : e.request.actor = actor /\ e.request.key = key

\* Who may send the request: planning needs a member, a role change an
\* administrator.
MaySend(r, request) ==
    IF request.target = None
    THEN r[request.actor] \in {"member", "admin"}
    ELSE r[request.actor] = "admin"

\* The roles after the request.  A request with a target sets its role.
After(r, target, role) ==
    IF target = None THEN r ELSE [r EXCEPT ![target] = role]

LedgerInit ==
    /\ revision = 1
    /\ roles \in [Subject -> Role \cup {None}]
    /\ Admins(roles) # {}
    /\ applied = {}

\* A request of a member is appended to the sequence.
Accept(request) ==
    /\ MaySend(roles, request)
    /\ ~Used(request.actor, request.key)
    /\ request.base = revision
    /\ revision' = revision + 1
    /\ applied' = applied \cup {[request |-> request, revision |-> revision + 1]}
    /\ roles' = After(roles, request.target, request.role)
    /\ Admins(roles') # {}

\* The operator sets a role without a command.
Operate(u, role) ==
    /\ roles' = After(roles, u, role)
    /\ Admins(roles') # {}
    /\ UNCHANGED <<revision, applied>>

LedgerNext ==
    \/ \E request \in Request : Accept(request)
    \/ \E u \in Subject, role \in Role : Operate(u, role)

LedgerSpec == LedgerInit /\ [][LedgerNext]_ledgerVars
=============================================================================
