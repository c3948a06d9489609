----------------------------- MODULE FluxFiles -----------------------------
(***************************************************************************)
(* The attachments of one card in one tab (item-attachments.js): a list    *)
(* kept per board generation and loaded when it is first shown, files      *)
(* dropped on the card or picked in its panel, removals.  The list of a    *)
(* tab that leaves the workspace goes, with all its loads and writes:      *)
(* their requests are aborted and answer nothing any more.                 *)
(***************************************************************************)
EXTENDS Naturals, Sequences, FiniteSets

CONSTANTS
  Files,          \* what uploadSignature tells apart, for this card
  Limit,          \* MAX_ITEM_ATTACHMENTS
  MaxIds,         \* bound on the attachments ever stored
  MaxKeys,        \* bound on the idempotency keys drawn
  MaxBoards,      \* bound on the boards read (boardGeneration)
  Unloaded        \* undefined: no list

\* No more files than uploadRequestKeys holds (1000): none is forgotten.
ASSUME FilesAssumption ==
  /\ {Limit, MaxIds, MaxKeys, MaxBoards} \subseteq Nat
  /\ IsFiniteSet(Files) /\ Cardinality(Files) <= 1000

VARIABLES
  attached,  \* the server's attachments of the card
  tab,       \* the store and the modules' own variables
  loads,     \* attachmentLoads: the lists being read, by generation
  uploads,   \* dropFilesOntoItem and uploadFiles
  removal,   \* removeAttachment
  drawn,     \* ids and keys handed out so far
  seen       \* history: see below

fileVars == <<attached, tab, loads, uploads, removal, drawn, seen>>

AttachmentIds == 1..MaxIds
Ways == {"drop", "panel"}
IdleUpload == [stage |-> "idle", files |-> <<>>, key |-> 0, id |-> 0]
IdleRemoval == [stage |-> "idle", id |-> 0]
IdsOf(attachments) == {a.id : a \in attachments}
\* Somebody else's files have no key of this tab.
Attachments == [id : AttachmentIds, file : Files \cup {Unloaded}, key : 0..MaxKeys]

Tabs == [here : BOOLEAN, panel : BOOLEAN, generation : 0..MaxBoards, declared : Nat,
         list : {Unloaded} \cup SUBSET AttachmentIds, busy : BOOLEAN,
         keys : [Files -> 0..MaxKeys]]
Loads == [generation : 0..MaxBoards, stage : {"asked", "answered", "failed"},
          list : SUBSET AttachmentIds]
Transfers == [stage : {"idle", "sent", "answered", "failed"}, files : Seq(Files),
              key : 0..MaxKeys, id : {0} \cup AttachmentIds]
Removals == [stage : {"idle", "sent", "answered", "failed"}, id : {0} \cup AttachmentIds]

\* Nobody else's file is one of this tab's.
ASSUME UnloadedAssumption == Unloaded \notin Files

FilesTypeOK ==
  /\ attached \subseteq Attachments
  /\ tab \in Tabs
  /\ loads \subseteq Loads
  /\ \A l, m \in loads : l.generation = m.generation => l = m
  /\ uploads \in [Ways -> Transfers]
  /\ removal \in Removals
  /\ drawn \in [ids : 0..MaxIds, keys : 0..MaxKeys]
  /\ seen \in [since : SUBSET AttachmentIds, own : SUBSET AttachmentIds,
               acknowledged : [Files -> Nat]]

FilesInit ==
  /\ attached = {}
  /\ tab = [here |-> TRUE, panel |-> FALSE, generation |-> 0, declared |-> 0,
            list |-> Unloaded, busy |-> FALSE, keys |-> [f \in Files |-> 0]]
  /\ loads = {} /\ removal = IdleRemoval
  /\ uploads = [w \in Ways |-> IdleUpload]
  /\ drawn = [ids |-> 0, keys |-> 0]
  /\ seen = [since |-> {}, own |-> {}, acknowledged |-> [f \in Files |-> 0]]

\* The attachments the server had since the board shown was read.
Sees(attachments) == seen' = [seen EXCEPT !.since = @ \cup IdsOf(attachments)]

-----------------------------------------------------------------------------
(* Lists. *)

\* ensureAttachments: one read per board, none for a list that is there.
Ensured(t) ==
  IF ~t.here \/ t.list # Unloaded
     \/ \E l \in loads : l.generation = t.generation
  THEN loads
  ELSE loads \cup {[generation |-> t.generation, stage |-> "asked", list |-> {}]}

\* The panel opens, or the card's attachments unfold on the board.
OpenPanel ==
  /\ tab.here /\ ~tab.panel
  /\ tab' = [tab EXCEPT !.panel = TRUE]
  /\ loads' = Ensured(tab)
  /\ UNCHANGED <<attached, uploads, removal, drawn, seen>>
Unfold ==
  /\ tab.here /\ loads' = Ensured(tab)
  /\ UNCHANGED <<attached, tab, uploads, removal, drawn, seen>>

AnswerLoad(l) ==
  /\ l.stage = "asked"
  /\ \E answer \in {[l EXCEPT !.stage = "answered", !.list = IdsOf(attached)],
                    [l EXCEPT !.stage = "failed"]} :
       loads' = (loads \ {l}) \cup {answer}
  /\ UNCHANGED <<attached, tab, uploads, removal, drawn, seen>>

\* A bug: any list read is taken.
AlwaysCurrent(l) == TRUE

\* A list read for another board is dropped.
Current(l) == l.generation = tab.generation
TakeLoad(l) ==
  /\ l.stage # "asked"
  /\ loads' = loads \ {l}
  /\ tab' = [tab EXCEPT !.list =
               IF l.stage = "answered" /\ Current(l) THEN l.list ELSE @]
  /\ UNCHANGED <<attached, uploads, removal, drawn, seen>>

\* A changed board is applied (sync.js): the lists of the last one go, and an
\* open panel loads its own again.
NewBoard ==
  /\ tab.here /\ tab.generation < MaxBoards
  /\ tab' = [tab EXCEPT !.generation = @ + 1, !.list = Unloaded,
                        !.declared = Cardinality(attached)]
  /\ loads' = IF tab.panel THEN Ensured(tab') ELSE loads
  /\ seen' = [seen EXCEPT !.since = IdsOf(attached)]
  /\ UNCHANGED <<attached, uploads, removal, drawn>>

-----------------------------------------------------------------------------
(* Uploads: the files of one drop or one choice, one after the other. *)

\* attachmentRejection; the file itself is taken to be an acceptable one.
Count(t) == IF t.list = Unloaded THEN t.declared ELSE Cardinality(t.list)
Rejected(t) == Count(t) >= Limit

\* uploadRequestKey: a file keeps its key until its upload is answered.
KeyOf(t, file) == IF t.keys[file] # 0 THEN t.keys[file] ELSE drawn.keys + 1

\* The loop goes on with these files, or ends and gives up uploadBusy.
UploadNext(way, t, files) ==
  IF files = <<>> \/ Rejected(t)
  THEN /\ uploads' = [uploads EXCEPT ![way] = IdleUpload]
       /\ tab' = [t EXCEPT !.busy = FALSE]
       /\ UNCHANGED drawn
  ELSE LET key == KeyOf(t, Head(files))
       IN /\ key <= MaxKeys
          /\ uploads' = [uploads EXCEPT ![way] =
               [stage |-> "sent", files |-> files, key |-> key, id |-> 0]]
          /\ tab' = [t EXCEPT !.busy = TRUE, !.keys[Head(files)] = key]
          /\ drawn' = [drawn EXCEPT !.keys = IF key > @ THEN key ELSE @]

\* The panel's own uploads and removals also wait for each other.
Writing == uploads["panel"].stage # "idle" \/ removal.stage # "idle"

MayUpload(way) ==
  /\ tab.here /\ ~tab.busy
  /\ way = "panel" => tab.panel /\ ~Writing
Upload(way, files) ==
  /\ MayUpload(way)
  /\ UploadNext(way, tab, files)
  /\ UNCHANGED <<attached, loads, removal, seen>>

\* What the server makes of an upload: one attachment per key.
Stored(upload) ==
  IF \E a \in attached : a.key = upload.key THEN attached
  ELSE attached \cup {[id |-> drawn.ids + 1, file |-> Head(upload.files), key |-> upload.key]}
AnswerUpload(way) ==
  LET upload == uploads[way]
      after == Stored(upload)
  IN /\ upload.stage = "sent"
     /\ \/ /\ drawn.ids + Cardinality(after \ attached) <= MaxIds
           /\ attached' = after /\ Sees(after)
           /\ drawn' = [drawn EXCEPT !.ids = @ + Cardinality(after \ attached)]
           /\ \E stage \in {"answered", "failed"} :
                uploads' = [uploads EXCEPT ![way].stage = stage,
                  ![way].id = (CHOOSE a \in after : a.key = upload.key).id]
        \/ /\ uploads' = [uploads EXCEPT ![way].stage = "failed"]
           /\ UNCHANGED <<attached, seen, drawn>>
     /\ UNCHANGED <<tab, loads, removal>>

\* An answered upload gives up its key and joins the list, or has the list
\* loaded where there is none.
TakeUpload(way) ==
  LET upload == uploads[way]
      file == Head(upload.files)
      t == [tab EXCEPT !.keys[file] = 0,
                       !.list = IF @ = Unloaded THEN @ ELSE @ \cup {upload.id}]
  IN /\ upload.stage = "answered"
     /\ loads' = Ensured(t)
     /\ UploadNext(way, t, Tail(upload.files))
     /\ seen' = [seen EXCEPT !.own = @ \cup {upload.id}, !.acknowledged[file] = @ + 1]
     /\ UNCHANGED <<attached, removal>>
UploadFails(way) ==
  /\ uploads[way].stage = "failed"
  /\ UploadNext(way, tab, <<>>)
  /\ UNCHANGED <<attached, loads, removal, seen>>

-----------------------------------------------------------------------------
(* Removals, and the ways out. *)

Remove(id) ==
  /\ tab.panel /\ tab.list # Unloaded /\ id \in tab.list /\ ~Writing
  /\ removal' = [stage |-> "sent", id |-> id]
  /\ UNCHANGED <<attached, tab, loads, uploads, drawn, seen>>
AnswerRemoval ==
  /\ removal.stage = "sent"
  /\ \/ /\ removal.id \in IdsOf(attached)
        /\ attached' = {a \in attached : a.id # removal.id}
        /\ \E stage \in {"answered", "failed"} : removal' = [removal EXCEPT !.stage = stage]
     \/ removal' = [removal EXCEPT !.stage = "failed"] /\ UNCHANGED attached
  /\ UNCHANGED <<tab, loads, uploads, drawn, seen>>
TakeRemoval ==
  /\ removal.stage \in {"answered", "failed"}
  /\ removal' = IdleRemoval
  /\ tab' = [tab EXCEPT !.list =
               IF removal.stage = "failed" THEN @
               ELSE (IF @ = Unloaded THEN {} ELSE @) \ {removal.id}]
  /\ UNCHANGED <<attached, loads, uploads, drawn, seen>>

\* An aborted request fails at once; the server may have done its work.
\* Uploads that are aborted still give up uploadBusy.
Released(ways) ==
  IF \E w \in ways : uploads[w].stage # "idle" THEN FALSE ELSE tab.busy
Aborted(ways) ==
  /\ uploads' = [w \in Ways |-> IF w \in ways THEN IdleUpload ELSE uploads[w]]
  /\ removal' = IdleRemoval
  /\ \/ UNCHANGED <<attached, drawn, seen>>
     \/ \E w \in ways : LET after == Stored(uploads[w]) IN
          /\ uploads[w].stage = "sent" /\ after # attached /\ drawn.ids < MaxIds
          /\ attached' = after /\ Sees(after)
          /\ drawn' = [drawn EXCEPT !.ids = @ + 1]
     \/ /\ removal.stage = "sent" /\ removal.id \in IdsOf(attached)
        /\ attached' = {a \in attached : a.id # removal.id}
        /\ UNCHANGED <<drawn, seen>>
ClosePanel ==
  /\ tab.panel
  /\ Aborted({"panel"})
  /\ tab' = [tab EXCEPT !.panel = FALSE, !.busy = Released({"panel"})]
  /\ UNCHANGED loads

\* Another workspace is shown (beginWorkspaceSession): everything is aborted.
LeaveWorkspace ==
  /\ tab.here
  /\ Aborted(Ways)
  /\ tab' = [tab EXCEPT !.here = FALSE, !.panel = FALSE, !.list = Unloaded,
                        !.busy = Released(Ways)]
  /\ loads' = {}
\* The card's workspace is shown again, with a board read anew.
Return ==
  /\ ~tab.here /\ tab.generation < MaxBoards
  /\ tab' = [tab EXCEPT !.here = TRUE, !.generation = @ + 1,
                        !.declared = Cardinality(attached)]
  /\ seen' = [seen EXCEPT !.since = IdsOf(attached)]
  /\ UNCHANGED <<attached, loads, uploads, removal, drawn>>

OthersAttach ==
  /\ \/ /\ drawn.ids < MaxIds
        /\ attached' = attached \cup
             {[id |-> drawn.ids + 1, file |-> Unloaded, key |-> 0]}
        /\ drawn' = [drawn EXCEPT !.ids = @ + 1]
     \/ /\ \E a \in attached : attached' = attached \ {a}
        /\ UNCHANGED drawn
  /\ Sees(attached')
  /\ UNCHANGED <<tab, loads, uploads, removal>>

FilesNext ==
  \/ OpenPanel \/ Unfold \/ NewBoard \/ ClosePanel \/ LeaveWorkspace \/ Return \/ OthersAttach
  \/ \E l \in loads : AnswerLoad(l) \/ TakeLoad(l)
  \/ \E way \in Ways :
       \/ \E f \in Files : Upload(way, <<f>>)
       \/ \E f, g \in Files : f # g /\ Upload(way, <<f, g>>)
       \/ AnswerUpload(way) \/ TakeUpload(way) \/ UploadFails(way)
  \/ \E id \in AttachmentIds : Remove(id)
  \/ AnswerRemoval \/ TakeRemoval

FilesSpec == FilesInit /\ [][FilesNext]_fileVars

-----------------------------------------------------------------------------
\* However often a lost answer, a closed panel or a change of workspace makes
\* the user upload a file again, at most one attachment of it is one that no
\* upload of this tab was told of.
FilesAttachedOnce ==
  \A f \in Files :
    Cardinality({a \in attached : a.file = f}) <= seen.acknowledged[f] + 1

\* The list shown holds nothing that was gone before the board shown was read,
\* except a file this tab itself was told it had uploaded.
ListFitsBoard ==
  tab.list # Unloaded => tab.list \subseteq seen.since \cup seen.own

=============================================================================
