--------------------------- MODULE MCFluxRefresh ---------------------------
(***************************************************************************)
(* Small instances of FluxRefresh for TLC.  The safety run explores four   *)
(* stories, each a set of states that starts from the initial one: races   *)
(* of two attempts, links of two items, hints, and three states of one     *)
(* merge request.                                                          *)
(***************************************************************************)
EXTENDS FluxRefresh, TLC

CONSTANTS w1, w2, i1, i2, p1, p2, m1, m2, g1, g2, l1, l2, l3, a1, a2, d1, d2, x1, x2

MCProjectOf == [t \in Targets |-> IF t = m1 THEN p1 ELSE p2]
MCSymmetry == Permutations(Ids) \cup Permutations(Attempts)

-----------------------------------------------------------------------------
\* Bounds the stories are made of.
OneWorkspace == instance[w2] = None
OneProject == \A w \in Workspaces : approved[w] \subseteq {p1}
OneItem == \A i \in DOMAIN links : links[i].items = {i1}
OneInstance == connector = g1
NoHooks == \A d \in Deliveries : hooks[d] = None
Serial ==
  /\ keys = {} /\ pending[3] = None
  /\ \A i \in DOMAIN links : links[i].run # 3
  /\ Cardinality({a \in Attempts : attempts[a] # None}) <= 1
  /\ \A a \in Attempts : attempts[a] # None => attempts[a].run # 3
Versioned(S) == \A s \in Sources : Versions(s) > 1 => s \in S
EditsOnce ==
  \A s \in Sources : \A n \in DOMAIN history[s] :
    n <= 2 /\ history[s][n].head = 1 /\ history[s][n].ran = 1

\* Two attempts and a key, while approval, instance and links come and go.
Races ==
  OneWorkspace /\ OneProject /\ OneItem /\ NoHooks /\ Versioned({})

\* Two items and two merge requests of different projects, on one instance.
Linking == OneWorkspace /\ OneInstance /\ Serial /\ NoHooks /\ Versioned({})

\* A delivery for two workspaces, one of which reads.  What a read brings
\* changes nothing about hints, so every read fails.
Hinting ==
  /\ \A a \in Attempts : attempts[a] # None => attempts[a].answer \in {None, Failed}
  /\ OneProject /\ OneItem /\ OneInstance /\ Serial
  /\ Versioned({<<g1, m1>>}) /\ EditsOnce
  /\ \A d \in Deliveries : hooks[d] # None =>
       hooks[d].instance = g1 /\ hooks[d].project = p1
  /\ \A i \in DOMAIN links : links[i].workspace = w1 => links[i].run = None

\* One link, two attempts, three states of every kind.
ThreeVersions ==
  /\ OneWorkspace /\ OneProject /\ OneItem /\ OneInstance /\ NoHooks
  /\ keys = {} /\ Cardinality(used) <= 1 /\ Versioned({<<g1, m1>>})

Stories == Races \/ Linking \/ Hinting \/ ThreeVersions
=============================================================================
