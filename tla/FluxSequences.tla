---------------------------- MODULE FluxSequences ----------------------------
(***************************************************************************)
(* Array.filter of the browser, and the loops of the server that copy what *)
(* they keep, given the set of elements that are kept.  SelectSeq says the *)
(* same of a predicate, but by recursion over an operator, which a proof   *)
(* cannot open; this counts positions.                                     *)
(***************************************************************************)
EXTENDS Naturals, FiniteSets, SequencesExt

Positions(seq, S) == {i \in DOMAIN seq : seq[i] \in S}

\* The number of the positions up to i.
Rank(at, i) == Cardinality({k \in at : k <= i})

\* The elements of seq that are in S, in their order.
Only(seq, S) ==
  LET at == Positions(seq, S)
  IN  [j \in 1 .. Cardinality(at) |-> seq[CHOOSE i \in at : Rank(at, i) = j]]

=============================================================================
