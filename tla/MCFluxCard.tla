----------------------------- MODULE MCFluxCard -----------------------------
(***************************************************************************)
(* FluxCard for TLC.                                                       *)
(***************************************************************************)
EXTENDS FluxCard, TLC

CONSTANTS f1, f2, l1, l2

SameFiles == Permutations({f1, f2})

-----------------------------------------------------------------------------
(* Bounds.  Of the starting states of the parts that stand still, one.     *)

\* The first text sent is text 1; the second panel sends one attempt; a third
\* attempt leaves the server one comment short of MaxComments.
CommentsBound ==
  /\ part # "comments" => stored = <<>>
  /\ since.sent = <<>> => panel.draft \in {0, 1}
  /\ issued.panels = 2 => Len(since.sent) <= 1
  /\ issued.keys = 3 => Len(stored) < MaxComments

\* Two requests at a time.
FilesBound ==
  Cardinality(loads) + (IF removal = IdleRemoval THEN 0 ELSE 1)
    + Cardinality({w \in Ways : uploads[w].stage # "idle"}) <= 2

\* The card starts with the first text and without l2; comments are typed next
\* to a clean form; link dialogs come before the first save; an archived card
\* has a clean form; what is typed while a change runs is text; the last
\* revision is a save's.
Clean == editor = None \/ editor.form = editor.initial
FormBound ==
  /\ part # "form" => ~list /\ server.card.links = {} /\ ~server.card.archived
  /\ server.revision = 0 => server.card.text = 1 /\ l2 \notin server.card.links
  /\ editor # None =>
       /\ editor.comment => Clean /\ job = IdleJob /\ server.revision = 0
       /\ editor.form.text = 1 => editor.initial.text = 1
  /\ over # None \/ job.kind \in {"link", "paste"} =>
       (editor = None \/ editor.attempt = None) /\ server.card.text = 1
  /\ server.card.archived \/ job.kind \in {"archive", "restore"} =>
       Clean /\ server.revision < 3
  /\ over # None /\ over.kind = "archive" =>
       Clean /\ (server.card.archived \/ server.revision = over.revision)
  /\ editor # None /\ job.kind \in {"save", "paste"} => editor.form.links = job.draft.links
  /\ server.revision = 3 =>
       job.kind = "save" /\ job.step \in {"posted", "answered"} /\ job.alone

CardBound == CommentsBound /\ FilesBound /\ FormBound
=============================================================================
