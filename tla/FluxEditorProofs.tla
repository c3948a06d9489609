-------------------------- MODULE FluxEditorProofs --------------------------
(***************************************************************************)
(* Proofs about FluxEditor for any texts, links and bounds: what a save    *)
(* leaves on the server, what a repeated command is told, and where the    *)
(* input of a link operation goes.                                         *)
(***************************************************************************)
EXTENDS FluxEditor, TLAPS

-----------------------------------------------------------------------------
(* The inductive invariant *)

\* A card changes with its workspace.
RevisionsKeepStep == server.card.revision <= server.revision

\* A job holds the board it was started on and, while it runs, no dialog but
\* the one it was started from.
JobsKeepTheirPlace ==
  /\ job.kind = "idle" <=> job.step = "idle"
  /\ job.kind # "idle" =>
       /\ board # None /\ job.command # None
       /\ job.command.kind = "attach" => job.command.link \in Links
  /\ job.step = "answered" => job.answer # None
  /\ job.kind \in {"save", "paste"} => job.draft \in Forms
  /\ job.kind \in {"save", "paste", "restore"} => over = None
  /\ over # None => (job.kind = "link" => over.kind = "link")
  /\ over # None => (job.kind = "archive" => over.kind = "archive")

\* A key belongs to one attempt, and an attempt that is posted is still held
\* by the form or the dialog it was sent from.
KeysBelong ==
  /\ applied \subseteq 1..count.keys
  /\ editor # None /\ editor.attempt # None => editor.attempt.key <= count.keys
  /\ over # None /\ over.attempt # None => over.attempt.key <= count.keys
  /\ editor # None /\ editor.attempt # None /\ over # None /\ over.attempt # None =>
       editor.attempt.key # over.attempt.key
  /\ job.step = "posted" /\ job.key # 0 =>
       \/ /\ job.kind = "save" /\ editor # None /\ editor.attempt # None
          /\ editor.attempt.command = job.command /\ editor.attempt.key = job.key
       \/ /\ job.kind \in {"link", "archive"} /\ over # None /\ over.attempt # None
          /\ over.attempt.command = job.command /\ over.attempt.key = job.key
  /\ job.again => job.key \in applied /\ job.step # "refused"

\* The commands of a job are those of its kind: the first one of a save is
\* the form's, the others work off what is left of its links.
CommandsFitJob ==
  /\ job.kind \in {"link", "archive"} => job.key # 0
  /\ job.kind \in {"link", "paste"} => job.command.kind = "attach"
  /\ job.kind \in {"archive", "restore"} => job.command.kind = job.kind
  /\ job.kind = "save" /\ job.key # 0 =>
       job.command.kind = "update" /\ job.command.text = job.draft.text
  /\ job.kind = "save" /\ job.key = 0 =>
       /\ job.attach \subseteq job.draft.links
       /\ job.detach \cap job.draft.links = {}
       /\ \/ job.command.kind = "detach" /\ job.command.link \notin job.draft.links
          \/ job.command.kind = "attach" /\ job.command.link \in job.draft.links

\* The text a form was saved with is the server's until somebody else
\* changes the card.
TextIsSaved ==
  /\ editor # None /\ editor.attempt # None /\ editor.alone =>
       (editor.attempt.key \in applied =>
          server.card.text = editor.attempt.command.text)
  /\ job.kind = "save" /\ job.step = "posted" /\ job.key # 0 /\ job.alone => editor.alone
  /\ job.kind = "save" /\ job.alone /\ (job.step = "answered" \/ job.key = 0) =>
       server.card.text = job.draft.text
  /\ job.kind = "save" /\ job.alone /\ job.step = "answered" =>
       job.answer.card = server.card

\* The link of the command that is posted.
Pending(kind) ==
  IF job.step = "posted" /\ job.command.kind = kind THEN {job.command.link} ELSE {}
\* A link in which the server's card differs from the form is one the chain
\* still has to send, and no link of the form is only on the board, which may be
\* behind.
LinksAreListed ==
  job.kind = "save" /\ job.alone /\ job.fresh /\ job.key = 0
    /\ job.step \in {"posted", "answered"} =>
    /\ server.card.links \ job.draft.links \subseteq job.detach \cup Pending("detach")
    /\ job.draft.links \ server.card.links \subseteq job.attach \cup Pending("attach")
    /\ board.card.links \cap job.draft.links \subseteq server.card.links

EditorInv ==
  /\ EditorTypeOK /\ RevisionsKeepStep /\ JobsKeepTheirPlace /\ KeysBelong
  /\ CommandsFitJob /\ TextIsSaved /\ LinksAreListed

-----------------------------------------------------------------------------
(* Types *)

\* A new form of a board has the type of an editor.
LEMMA OpensTyped ==
  ASSUME EditorTypeOK, NEW b \in Boards, NEW form \in Forms, Opens(b, form)
  PROVE  /\ editor' \in Editors /\ editor'.form = form
         /\ editor'.attempt = None /\ editor'.alone = (b.card = server.card)
         /\ count'.editors \in 0..MaxEditors /\ count'.keys = count.keys
         /\ count' \in [editors : 0..MaxEditors, keys : 0..MaxAttempts]
<1>1. count \in [editors : 0..MaxEditors, keys : 0..MaxAttempts]
  BY DEF EditorTypeOK
<1>2. count.editors + 1 \in 1..MaxEditors
  BY <1>1, EditorAssumption DEF Opens
<1>3. b.card \in Cards /\ b.revision \in 0..MaxRevision
  BY DEF Boards
<1>4. editor' = [id |-> count.editors + 1, item |-> b.card, revision |-> b.revision,
                 form |-> form, initial |-> form, comment |-> FALSE, attempt |-> None,
                 alone |-> b.card = server.card]
  BY DEF Opens
<1>5. (b.card = server.card) \in BOOLEAN
  OBVIOUS
<1>6. editor' \in Editors
  BY <1>2, <1>3, <1>4, <1>5, Zenon DEF Editors, Attempts
<1>7. editor'.form = form /\ editor'.attempt = None /\ editor'.alone = (b.card = server.card)
  BY <1>4
<1>8. count' = [count EXCEPT !.editors = count.editors + 1]
  BY DEF Opens
<1> QED
  BY <1>1, <1>2, <1>6, <1>7, <1>8

\* The form of a card is a form; so is a draft with more links.
LEMMA FormsTyped ==
  /\ \A card \in Cards : FormOf(card) \in Forms
  /\ \A draft \in Forms, b \in Boards, previous \in SUBSET Links :
       [draft EXCEPT !.links = @ \cup (b.card.links \ previous)] \in Forms
<1>1. ASSUME NEW card \in Cards PROVE FormOf(card) \in Forms
  BY DEF Cards, Forms, FormOf
<1>2. ASSUME NEW draft \in Forms, NEW b \in Boards, NEW previous \in SUBSET Links
      PROVE  [draft EXCEPT !.links = @ \cup (b.card.links \ previous)] \in Forms
  BY DEF Cards, Forms, Boards
<1> QED
  BY <1>1, <1>2

\* What returnToCard, a dialog or a closing form leaves is typed.
EditorTyped == 
  /\ editor \in {None} \cup Editors
  /\ count \in [editors : 0..MaxEditors, keys : 0..MaxAttempts]

LEMMA StaysTyped ==
  ASSUME EditorTypeOK, StaysAsItIs \/ Closes \/ LeavesEditor
  PROVE  EditorTyped'
BY DEF EditorTypeOK, StaysAsItIs, Closes, LeavesEditor, EditorTyped

LEMMA ReturnTyped ==
  ASSUME EditorTypeOK, NEW b \in {None} \cup Boards, NEW draft \in Forms,
         NEW previous \in SUBSET Links, ReturnToCard(b, draft, previous)
  PROVE  EditorTyped'
<1>1. CASE b = None
  BY <1>1, StaysTyped DEF ReturnToCard
<1>2. CASE b # None /\ b.card.archived
  BY <1>2, StaysTyped DEF ReturnToCard
<1>3. CASE b # None /\ ~b.card.archived
  BY <1>3, FormsTyped, OpensTyped DEF ReturnToCard, EditorTyped
<1> QED
  BY <1>1, <1>2, <1>3

\* The attempt a command is sent under: the one before, or a new key.
LEMMA AttemptTyped ==
  ASSUME EditorTypeOK, NEW before \in Attempts, NEW command \in Commands,
         NEW attempt, attempt = Attempt(before, command), Draws(attempt)
  PROVE  /\ attempt \in [command : Commands, key : 1..MaxAttempts]
         /\ attempt.command = command
         /\ count' \in [editors : 0..MaxEditors, keys : 0..MaxAttempts]
         /\ \/ before # None /\ attempt = before
            \/ attempt.key = count.keys + 1
         /\ count'.editors = count.editors
         /\ count'.keys = IF attempt.key > count.keys THEN attempt.key ELSE count.keys
<1>1. count \in [editors : 0..MaxEditors, keys : 0..MaxAttempts] /\ MaxAttempts \in Nat
  BY EditorAssumption DEF EditorTypeOK
<1>2. CASE before # None /\ before.command = command
  BY <1>1, <1>2 DEF Attempt, Draws, Attempts
<1>3. CASE ~(before # None /\ before.command = command)
  <2>1. attempt = [command |-> command, key |-> count.keys + 1]
    BY <1>3 DEF Attempt
  <2>2. attempt.key \in 1..MaxAttempts
    BY <1>1, <2>1 DEF Draws
  <2> QED
    BY <1>1, <2>1, <2>2 DEF Draws
<1> QED
  BY <1>2, <1>3

\* A command of a form or of a board is a command.
LEMMA CommandsTyped ==
  ASSUME EditorTypeOK
  PROVE  /\ \A e \in Editors, revision \in 0..MaxRevision :
              Update(e, revision) \in Commands
         /\ board # None =>
              \A kind \in {"attach", "detach", "archive", "restore"},
                 link \in {None} \cup Links, revision \in 0..MaxRevision, text \in Texts :
                /\ Command(kind, link) \in Commands
                /\ [Command(kind, link) EXCEPT !.revision = revision] \in Commands
                /\ [Command(kind, link) EXCEPT !.revision = revision, !.text = text]
                     \in Commands
<1>1. ASSUME NEW e \in Editors, NEW revision \in 0..MaxRevision
      PROVE  Update(e, revision) \in Commands
  BY DEF Update, Commands, Editors, Cards, Forms
<1>2. ASSUME board # None, NEW kind \in {"attach", "detach", "archive", "restore"},
             NEW link \in {None} \cup Links, NEW revision \in 0..MaxRevision,
             NEW text \in Texts
      PROVE  /\ Command(kind, link) \in Commands
             /\ [Command(kind, link) EXCEPT !.revision = revision] \in Commands
             /\ [Command(kind, link) EXCEPT !.revision = revision, !.text = text]
                  \in Commands
  <2>1. board.revision \in 0..MaxRevision /\ board.card.text \in Texts
    BY <1>2 DEF EditorTypeOK, Boards, Cards
  <2>2. 0 \in 0..MaxRevision
    BY EditorAssumption
  <2>3. Command(kind, link) \in Commands
    BY <2>1, <2>2 DEF Command, Commands
  <2> QED
    BY <2>3 DEF Commands
<1> QED
  BY <1>1, <1>2

\* A job that is over is a job.
LEMMA IdleTyped == IdleJob \in Jobs
<1>1. 0 \in 0..MaxEditors /\ 0 \in 0..MaxAttempts
  BY EditorAssumption
<1> QED
  BY <1>1, Zenon DEF IdleJob, Jobs

LEMMA InitTyped == EditorInit => EditorTypeOK
<1> SUFFICES ASSUME EditorInit PROVE EditorTypeOK
  OBVIOUS
<1>1. PICK t \in Texts, ls \in SUBSET Links, hidden \in BOOLEAN :
        server = [revision |-> 0,
                  card |-> [revision |-> 0, text |-> t, links |-> ls, archived |-> hidden]]
  BY DEF EditorInit
<1>2. 0 \in 0..MaxRevision /\ 0 \in 0..MaxEditors /\ 0 \in 0..MaxAttempts
  BY EditorAssumption
<1>3. [revision |-> 0, text |-> t, links |-> ls, archived |-> hidden] \in Cards
  BY <1>2 DEF Cards
<1>4. server \in Boards
  BY <1>1, <1>2, <1>3 DEF Boards
<1>5. job \in Jobs
  BY IdleTyped DEF EditorInit
<1> QED
  BY <1>2, <1>4, <1>5 DEF EditorInit, EditorTypeOK

\* Every step keeps the types.
LEMMA AnswerTyped ==
  ASSUME EditorTypeOK, RevisionsKeepStep, JobsKeepTheirPlace, Answer
  PROVE  EditorTypeOK' /\ RevisionsKeepStep'
<1> DEFINE c == job.command
<1>0. job \in Jobs /\ server \in Boards /\ MaxRevision \in Nat /\ job.command \in Commands
      /\ server.card \in Cards /\ server.revision \in 0..MaxRevision
  <2>1. job \in Jobs /\ server \in Boards /\ MaxRevision \in Nat
    BY EditorAssumption DEF EditorTypeOK
  <2>2. job.command # None
    BY DEF Answer, JobsKeepTheirPlace
  <2>3. job.command \in {None} \cup Commands
    BY <2>1, Zenon DEF Jobs
  <2> QED
    BY <2>1, <2>2, <2>3 DEF Boards
<1>1. \A b \in Boards :
        /\ [job EXCEPT !.step = "answered", !.answer = b] \in Jobs
        /\ [job EXCEPT !.step = "refused"] \in Jobs
        /\ [job EXCEPT !.step = "failed"] \in Jobs
  BY <1>0, Zenon DEF Jobs
<1>2. ASSUME Accepts(c)
      PROVE  After(c) \in Boards /\ After(c).card.revision <= After(c).revision
  <2>1. server.revision + 1 \in 0..MaxRevision
        /\ server.card.revision + 1 \in 0..MaxRevision
        /\ server.card.revision + 1 <= server.revision + 1
    BY <1>0, <1>2 DEF Accepts, RevisionsKeepStep, Cards
  <2>2. server.card.text \in Texts /\ c.text \in Texts /\ server.card.links \in SUBSET Links
    BY <1>0 DEF Cards, Commands
  <2>3. c.kind = "attach" => c.link \in Links
    BY DEF Answer, JobsKeepTheirPlace
  <2>4. (c.kind = "archive") \in BOOLEAN
    OBVIOUS
  <2>5. (IF c.kind = "attach" THEN server.card.links \cup {c.link}
         ELSE IF c.kind = "detach" THEN server.card.links \ {c.link}
         ELSE server.card.links) \in SUBSET Links
    BY <2>2, <2>3
  <2> QED
    BY <2>1, <2>2, <2>4, <2>5 DEF After, Boards, Cards
<1>3. /\ server' \in Boards /\ server'.card.revision <= server'.revision
      /\ job' \in Jobs /\ applied' \subseteq 1..MaxAttempts
  <2>0. /\ applied \subseteq 1..MaxAttempts /\ job.key \in 0..MaxAttempts
        /\ server.card.revision <= server.revision
    BY <1>0 DEF EditorTypeOK, Jobs, RevisionsKeepStep
  <2>1. CASE job' \in {[job EXCEPT !.step = "answered", !.answer = server],
                      [job EXCEPT !.step = "failed"], [job EXCEPT !.step = "refused"]}
             /\ UNCHANGED <<server, applied>>
    BY <1>0, <1>1, <2>0, <2>1
  <2>2. CASE /\ Accepts(c) /\ server' = After(c)
             /\ job' \in {[job EXCEPT !.step = "answered", !.answer = After(c)],
                         [job EXCEPT !.step = "failed"]}
             /\ applied' = applied \cup ({job.key} \ {0})
    <3>1. After(c) \in Boards /\ After(c).card.revision <= After(c).revision
      BY <1>2, <2>2
    <3>2. job' \in Jobs
      BY <1>1, <2>2, <3>1
    <3> QED
      BY <2>0, <2>2, <3>1, <3>2, EditorAssumption
  <2> QED
    BY <2>1, <2>2 DEF Answer
<1> QED
  BY <1>3 DEF EditorTypeOK, RevisionsKeepStep, Answer

\* A refresh leaves a board.
LEMMA RefreshedTyped ==
  ASSUME EditorTypeOK, JobsKeepTheirPlace, job.step = "answered"
  PROVE  /\ \A b \in Refreshed : b \in Boards
         /\ job.answer \in Boards /\ board \in Boards
BY DEF Refreshed, JobsKeepTheirPlace, EditorTypeOK, Jobs

\* What is typed changes the form's content and nothing else of it.
LEMMA TypingTyped ==
  ASSUME EditorTypeOK, TypeInForm \/ TypeOrSendComment
  PROVE  /\ editor \in Editors /\ editor' \in Editors
         /\ editor'.attempt = editor.attempt /\ editor'.alone = editor.alone
<1>1. CASE TypeInForm
  <2>1. editor \in Editors /\ board \in Boards /\ editor.form \in Forms
    BY <1>1 DEF TypeInForm, CanType, EditorTypeOK, Editors
  <2>2. CASE \E t \in Texts : editor' = [editor EXCEPT !.form.text = t]
    <3>1. \A t \in Texts : [editor.form EXCEPT !.text = t] \in Forms
      BY <2>1 DEF Forms
    <3>2. editor' \in Editors
      BY <2>1, <2>2, <3>1 DEF Editors
    <3> QED
      BY <2>1, <2>2, <3>2 DEF Editors
  <2>3. CASE \E link \in Registered(board) \cup editor.form.links :
               editor' = [editor EXCEPT !.form.links = Toggled(@, link)]
    <3>1. PICK link \in Registered(board) \cup editor.form.links :
            editor' = [editor EXCEPT !.form.links = Toggled(@, link)]
      BY <2>3
    <3>2. link \in Links /\ editor.form.links \in SUBSET Links
      BY <2>1, EditorAssumption DEF Registered, Forms, Boards, Cards
    <3>3. [editor.form EXCEPT !.links = Toggled(@, link)] \in Forms
      BY <2>1, <3>2 DEF Forms, Toggled
    <3>4. editor' \in Editors
      BY <2>1, <3>1, <3>3 DEF Editors
    <3> QED
      BY <2>1, <3>1, <3>4 DEF Editors
  <2> QED
    BY <1>1, <2>2, <2>3 DEF TypeInForm
<1>2. CASE TypeOrSendComment
  <2>1. editor \in Editors
    BY <1>2 DEF TypeOrSendComment, CanType, EditorTypeOK
  <2>2. editor' \in Editors
    BY <1>2, <2>1 DEF TypeOrSendComment, Editors
  <2> QED
    BY <1>2, <2>1, <2>2 DEF TypeOrSendComment, Editors
<1> QED
  BY <1>1, <1>2

LEMMA FormStepsTyped ==
  ASSUME EditorTypeOK, JobsKeepTheirPlace,
         \/ OpenCard \/ TypeInForm \/ TypeOrSendComment \/ Discard \/ CancelDialog
         \/ Back \/ Leave \/ Reload \/ LosesWorkspace \/ Fails
  PROVE  EditorTypeOK'
<1>1. CASE OpenCard
  <2>1. board \in Boards /\ board.card \in Cards
    BY <1>1 DEF OpenCard, EditorTypeOK, Boards
  <2>2. EditorTyped'
    BY <1>1, <2>1, FormsTyped, OpensTyped DEF OpenCard, EditorTyped
  <2> QED
    BY <1>1, <2>2 DEF OpenCard, EditorTypeOK, EditorTyped
<1>2. CASE TypeInForm \/ TypeOrSendComment
  BY <1>2, TypingTyped DEF TypeInForm, TypeOrSendComment, EditorTypeOK
<1>4. CASE Discard \/ Back \/ Leave
  <2>1. EditorTyped'
    BY <1>4, StaysTyped DEF Discard, Back, Leave
  <2> QED
    BY <1>4, <2>1 DEF Discard, Back, Leave, EditorTypeOK, EditorTyped
<1>5. CASE CancelDialog
  <2>1. over \in Dialogs /\ over.draft \in Forms /\ over.previous \in SUBSET Links
        /\ board \in {None} \cup Boards
    BY <1>5 DEF CancelDialog, EditorTypeOK, Dialogs
  <2>2. EditorTyped'
    BY <1>5, <2>1, StaysTyped, ReturnTyped DEF CancelDialog
  <2> QED
    BY <1>5, <2>2 DEF CancelDialog, EditorTypeOK, EditorTyped
<1>6. CASE Reload
  BY <1>6 DEF Reload, EditorTypeOK
<1>7. CASE LosesWorkspace
  BY <1>7, IdleTyped DEF LosesWorkspace, EditorTypeOK
<1>8. CASE Fails
  BY <1>8, IdleTyped DEF Fails, EditorTypeOK
<1> QED
  BY <1>1, <1>2, <1>4, <1>5, <1>6, <1>7, <1>8

LEMMA SaveTyped ==
  ASSUME EditorTypeOK, Save
  PROVE  EditorTypeOK'
<1> DEFINE command == Update(editor, IF list THEN board.revision ELSE editor.revision)
           attempt == Attempt(editor.attempt, command)
<1>1. editor \in Editors /\ board \in Boards
  BY DEF Save, EditorTypeOK
<1>2. board.revision \in 0..MaxRevision /\ editor.revision \in 0..MaxRevision
      /\ editor.attempt \in Attempts /\ editor.id \in 0..MaxEditors /\ editor.form \in Forms
      /\ editor.alone \in BOOLEAN
  BY <1>1, EditorAssumption DEF Boards, Editors
<1>3. command \in Commands
  BY <1>1, <1>2, CommandsTyped
<1>4. Draws(attempt)
  BY DEF Save
<1>5. /\ attempt \in [command : Commands, key : 1..MaxAttempts]
      /\ count' \in [editors : 0..MaxEditors, keys : 0..MaxAttempts]
  <2> HIDE DEF command
  <2> QED
    BY <1>2, <1>3, <1>4, AttemptTyped
<1>6. editor' \in Editors
  <2>1. editor' = [editor EXCEPT !.attempt = attempt]
    BY DEF Save
  <2> HIDE DEF attempt
  <2> QED
    BY <1>1, <1>5, <2>1 DEF Editors, Attempts
<1>7. job' \in Jobs
  <2>1. job' = [IdleJob EXCEPT !.kind = "save", !.step = "posted", !.owner = editor.id,
                     !.command = attempt.command, !.key = attempt.key,
                     !.draft = editor.form, !.alone = editor.alone,
                     !.again = Again(editor.attempt, attempt)]
    BY DEF Save
  <2>2. Again(editor.attempt, attempt) \in BOOLEAN
    BY DEF Again
  <2>3. attempt.command \in Commands /\ attempt.key \in 0..MaxAttempts
    BY <1>5
  <2> HIDE DEF attempt
  <2> QED
    BY <1>2, <2>1, <2>2, <2>3, IdleTyped, Zenon DEF Jobs
<1> QED
  BY <1>5, <1>6, <1>7 DEF Save, EditorTypeOK

\* What a dialog sends: its attempt, kept in the dialog.
LEMMA SubmitTyped ==
  ASSUME EditorTypeOK, over \in Dialogs, NEW command \in Commands,
         NEW kind \in {"link", "archive"}, NEW attempt,
         attempt = Attempt(over.attempt, command), Draws(attempt),
         over' = [over EXCEPT !.attempt = attempt],
         job' = [IdleJob EXCEPT !.kind = kind, !.step = "posted",
                   !.command = attempt.command, !.key = attempt.key,
                   !.again = Again(over.attempt, attempt)],
         UNCHANGED <<server, applied, list, board, editor>>
  PROVE  EditorTypeOK'
<1>1. over.attempt \in Attempts
  BY DEF Dialogs
<1>2. /\ attempt \in [command : Commands, key : 1..MaxAttempts]
      /\ count' \in [editors : 0..MaxEditors, keys : 0..MaxAttempts]
  BY <1>1, AttemptTyped
<1>3. over' \in Dialogs
  BY <1>2 DEF Dialogs, Attempts
<1>4. job' \in Jobs
  <2>1. Again(over.attempt, attempt) \in BOOLEAN
    BY DEF Again
  <2>2. attempt.command \in Commands /\ attempt.key \in 0..MaxAttempts
    BY <1>2
  <2> QED
    BY <2>1, <2>2, IdleTyped, ZenonT(40) DEF Jobs
<1> QED
  BY <1>2, <1>3, <1>4 DEF EditorTypeOK

LEMMA StartsTyped ==
  ASSUME EditorTypeOK,
         \/ AddLink \/ (\E link \in Links : SubmitLink(link) \/ Paste(link))
         \/ OpenArchive \/ SubmitArchive \/ Restore
  PROVE  EditorTypeOK'
<1>1. CASE AddLink \/ OpenArchive
  <2>1. /\ editor.form \in Forms /\ board \in Boards
        /\ board.revision \in 0..MaxRevision /\ board.card.links \in SUBSET Links
    BY <1>1 DEF AddLink, OpenArchive, CanLink, EditorTypeOK, Editors, Boards, Cards
  <2>2. over' \in Dialogs
    BY <1>1, <2>1 DEF AddLink, OpenArchive, Dialogs, Attempts
  <2>3. EditorTyped'
    BY <1>1, StaysTyped DEF AddLink, OpenArchive
  <2> QED
    BY <1>1, <2>2, <2>3 DEF AddLink, OpenArchive, EditorTypeOK, EditorTyped
<1>2. ASSUME NEW link \in Links, SubmitLink(link) PROVE EditorTypeOK'
  <2> DEFINE command == [Command("attach", link) EXCEPT !.revision = over.revision]
  <2>1. over \in Dialogs /\ over.revision \in 0..MaxRevision /\ board # None
        /\ board.card.text \in Texts
    BY <1>2 DEF SubmitLink, EditorTypeOK, Dialogs, Boards, Cards
  <2>2. command \in Commands
    BY <2>1, CommandsTyped
  <2>3. PICK attempt :
          /\ attempt = Attempt(over.attempt, command) /\ Draws(attempt)
          /\ over' = [over EXCEPT !.attempt = attempt]
          /\ job' = [IdleJob EXCEPT !.kind = "link", !.step = "posted",
                     !.command = attempt.command, !.key = attempt.key,
                     !.again = Again(over.attempt, attempt)]
          /\ UNCHANGED <<server, applied, list, board, editor>>
    BY <1>2 DEF SubmitLink
  <2> HIDE DEF command
  <2> QED
    BY <2>1, <2>2, <2>3, SubmitTyped
<1>3. CASE SubmitArchive
  <2> DEFINE command == [Command("archive", None) EXCEPT !.revision = over.revision]
  <2>1. over \in Dialogs /\ over.revision \in 0..MaxRevision /\ board # None
        /\ board.card.text \in Texts
    BY <1>3 DEF SubmitArchive, EditorTypeOK, Dialogs, Boards, Cards
  <2>2. command \in Commands
    BY <2>1, CommandsTyped
  <2>3. PICK attempt :
          /\ attempt = Attempt(over.attempt, command) /\ Draws(attempt)
          /\ over' = [over EXCEPT !.attempt = attempt]
          /\ job' = [IdleJob EXCEPT !.kind = "archive", !.step = "posted",
                     !.command = attempt.command, !.key = attempt.key,
                     !.again = Again(over.attempt, attempt)]
          /\ UNCHANGED <<server, applied, list, board, editor>>
    BY <1>3 DEF SubmitArchive
  <2> HIDE DEF command
  <2> QED
    BY <2>1, <2>2, <2>3, SubmitTyped
<1>4. ASSUME NEW link \in Links, Paste(link) PROVE EditorTypeOK'
  <2>1. /\ editor.form \in Forms /\ board \in Boards /\ board # None
        /\ board.card.links \in SUBSET Links /\ board.revision \in 0..MaxRevision
        /\ board.card.text \in Texts
    BY <1>4 DEF Paste, CanLink, EditorTypeOK, Editors, Boards, Cards
  <2>2. Command("attach", link) \in Commands
    BY <2>1, CommandsTyped DEF Commands
  <2>3. job' \in Jobs
    <3>1. job' = [IdleJob EXCEPT !.kind = "paste", !.step = "posted", !.draft = editor.form,
               !.command = Command("attach", link), !.previous = board.card.links]
      BY <1>4 DEF Paste
    <3> QED
      BY <2>1, <2>2, <3>1, IdleTyped, Zenon DEF Jobs
  <2>4. EditorTyped'
    BY <1>4, StaysTyped DEF Paste
  <2> QED
    BY <1>4, <2>3, <2>4 DEF Paste, EditorTypeOK, EditorTyped
<1>5. CASE Restore
  <2>1. board # None /\ board \in Boards /\ board.revision \in 0..MaxRevision
        /\ board.card.text \in Texts
    BY <1>5 DEF Restore, EditorTypeOK, Boards, Cards
  <2>2. Command("restore", None) \in Commands
    BY <2>1, CommandsTyped DEF Commands
  <2>3. job' \in Jobs
    <3>1. job' = [IdleJob EXCEPT !.kind = "restore", !.step = "posted",
                    !.command = Command("restore", None)]
      BY <1>5 DEF Restore
    <3> QED
      BY <2>2, <3>1, IdleTyped, Zenon DEF Jobs
  <2> QED
    BY <1>5, <2>3 DEF Restore, EditorTypeOK
<1> QED
  BY <1>1, <1>2, <1>3, <1>4, <1>5

\* The next command of a save keeps the job a job.
LEMMA NextTyped ==
  ASSUME job \in Jobs, NEW command \in Commands, NEW fresh \in BOOLEAN,
         NEW detach \in SUBSET Links, NEW attach \in SUBSET Links
  PROVE  [job EXCEPT !.step = "posted", !.key = 0, !.again = FALSE, !.detach = detach,
            !.attach = attach, !.answer = None, !.fresh = fresh, !.command = command]
         \in Jobs
<1>1. 0 \in 0..MaxAttempts
  BY EditorAssumption
<1> QED
  BY <1>1, Zenon DEF Jobs

\* The command that takes up a link, against the board shown now.
NextCommand(b, kind, link) ==
  [kind |-> kind, revision |-> b.revision, card |-> 0, text |-> b.card.text, link |-> link]

\* What Reconcile makes of the job.
LEMMA ReconcileSteps ==
  ASSUME NEW b, NEW detach, NEW attach, Reconcile(b, detach, attach)
  PROVE  \/ \E kind \in {"attach", "detach"}, link \in detach \cup attach :
              /\ kind = "detach" => link \in detach
              /\ kind = "attach" => detach = {} /\ link \in attach \ b.card.links
              /\ job' = [job EXCEPT !.step = "posted", !.key = 0, !.again = FALSE,
                           !.detach = detach \ {link}, !.attach = attach \ {link},
                           !.answer = None, !.fresh = ReadAgain(b),
                           !.command = NextCommand(b, kind, link)]
              /\ StaysAsItIs
         \/ /\ detach = {} /\ attach \ b.card.links # {}
            /\ job' = IdleJob /\ StaysAsItIs
         \/ /\ detach = {} /\ attach \ b.card.links = {}
            /\ job' = IdleJob /\ (StaysAsItIs \/ Closes)
<1>1. ASSUME NEW kind, NEW link
      PROVE  [Command(kind, link) EXCEPT !.revision = b.revision, !.text = b.card.text]
               = NextCommand(b, kind, link)
  <2>1. [Command(kind, link) EXCEPT !.revision = b.revision]
          = [kind |-> kind, revision |-> b.revision, card |-> 0,
             text |-> board.card.text, link |-> link]
    BY DEF Command
  <2>2. [[kind |-> kind, revision |-> b.revision, card |-> 0,
             text |-> board.card.text, link |-> link] EXCEPT !.text = b.card.text]
          = NextCommand(b, kind, link)
    BY DEF NextCommand
  <2> QED
    BY <2>1, <2>2, Zenon
<1> QED
  BY <1>1 DEF Reconcile

LEMMA ReconcileTyped ==
  ASSUME EditorTypeOK, NEW b \in Boards, NEW detach \in SUBSET Links,
         NEW attach \in SUBSET Links, Reconcile(b, detach, attach)
  PROVE  EditorTyped' /\ job' \in Jobs
<1>1. job \in Jobs /\ b.revision \in 0..MaxRevision /\ b.card.text \in Texts
  BY DEF EditorTypeOK, Boards, Cards
<1>2. ASSUME NEW kind \in {"attach", "detach"}, NEW link \in Links
      PROVE  NextCommand(b, kind, link) \in Commands
  BY <1>1, EditorAssumption DEF NextCommand, Commands
<1>3. job' \in Jobs
  <2>1. CASE \E kind \in {"attach", "detach"}, link \in detach \cup attach :
               job' = [job EXCEPT !.step = "posted", !.key = 0, !.again = FALSE,
                           !.detach = detach \ {link}, !.attach = attach \ {link},
                           !.answer = None, !.fresh = ReadAgain(b),
                           !.command = NextCommand(b, kind, link)]
    <3>1. PICK kind \in {"attach", "detach"}, link \in detach \cup attach :
               job' = [job EXCEPT !.step = "posted", !.key = 0, !.again = FALSE,
                           !.detach = detach \ {link}, !.attach = attach \ {link},
                           !.answer = None, !.fresh = ReadAgain(b),
                           !.command = NextCommand(b, kind, link)]
      BY <2>1
    <3>2. /\ ReadAgain(b) \in BOOLEAN
          /\ detach \ {link} \in SUBSET Links /\ attach \ {link} \in SUBSET Links
          /\ NextCommand(b, kind, link) \in Commands
      BY <1>1, <1>2 DEF ReadAgain, Jobs
    <3> QED
      BY <1>1, <3>1, <3>2, NextTyped
  <2>2. CASE job' = IdleJob
    BY <2>2, IdleTyped
  <2> QED
    BY <2>1, <2>2, ReconcileSteps
<1>4. StaysAsItIs \/ Closes
  BY ReconcileSteps
<1> QED
  BY <1>3, <1>4, StaysTyped

\* A save goes on with the board it read again, or with the one it has.
LEMMA GoesOnSteps ==
  ASSUME SaveGoesOn
  PROVE  \E b \in Refreshed :
           /\ board' = b
           /\ \/ job' = IdleJob /\ StaysAsItIs
              \/ /\ job.command.kind = "update"
                 /\ Reconcile(b, Detaches(b, job.draft), job.draft.links)
              \/ /\ job.command.kind # "update"
                 /\ Reconcile(b, job.detach, job.attach)
<1>1. PICK refreshed \in BOOLEAN :
        LET b == IF refreshed THEN job.answer ELSE board
            updated == job.command.kind = "update"
        IN /\ board' = b
           /\ \/ updated /\ list /\ ~refreshed /\ job' = IdleJob /\ StaysAsItIs
              \/ /\ updated /\ (list => refreshed)
                 /\ Reconcile(b, Detaches(b, job.draft), job.draft.links)
              \/ ~updated /\ Reconcile(b, job.detach, job.attach)
  BY DEF SaveGoesOn
<1>2. CASE refreshed
  BY <1>1, <1>2 DEF Refreshed
<1>3. CASE ~refreshed
  BY <1>1, <1>3 DEF Refreshed
<1> QED
  BY <1>2, <1>3

LEMMA EndsTyped ==
  ASSUME EditorTypeOK, JobsKeepTheirPlace,
         \/ SaveGoesOn \/ LinkAdded \/ PasteEnds \/ Archived \/ Restored
  PROVE  EditorTypeOK'
<1>1. CASE SaveGoesOn
  <2>1. job.step = "answered" /\ job.kind = "save"
    BY <1>1 DEF SaveGoesOn
  <2>2. /\ job.draft \in Forms /\ job.draft.links \in SUBSET Links
        /\ job.detach \in SUBSET Links /\ job.attach \in SUBSET Links
    BY <2>1 DEF JobsKeepTheirPlace, EditorTypeOK, Jobs, Forms
  <2>3. PICK b \in Refreshed :
          /\ board' = b
          /\ \/ job' = IdleJob /\ StaysAsItIs
             \/ Reconcile(b, Detaches(b, job.draft), job.draft.links)
             \/ Reconcile(b, job.detach, job.attach)
    BY <1>1, GoesOnSteps
  <2>4. b \in Boards /\ Detaches(b, job.draft) \in SUBSET Links
    BY <2>1, RefreshedTyped DEF Detaches, Boards, Cards
  <2>5. EditorTyped' /\ job' \in Jobs
    BY <2>2, <2>3, <2>4, StaysTyped, IdleTyped, ReconcileTyped
  <2> QED
    BY <1>1, <2>3, <2>4, <2>5 DEF SaveGoesOn, EditorTypeOK, EditorTyped
<1>2. CASE LinkAdded
  <2>1. PICK b \in Refreshed :
          /\ board' = b
          /\ IF over # None /\ over.kind = "link"
             THEN ReturnToCard(b, over.draft, over.previous) ELSE LeavesEditor
    BY <1>2 DEF LinkAdded
  <2>2. b \in Boards
    BY <1>2, RefreshedTyped DEF LinkAdded
  <2>3. over # None => over.draft \in Forms /\ over.previous \in SUBSET Links
    BY DEF EditorTypeOK, Dialogs
  <2>4. EditorTyped'
    BY <2>1, <2>2, <2>3, StaysTyped, ReturnTyped
  <2> QED
    BY <1>2, <2>1, <2>2, <2>4, IdleTyped DEF LinkAdded, EditorTypeOK, EditorTyped
<1>3. CASE PasteEnds
  <2>1. /\ job.draft \in Forms /\ job.previous \in SUBSET Links
        /\ board \in {None} \cup Boards /\ board.card.links \in SUBSET Links
    BY <1>3 DEF PasteEnds, JobsKeepTheirPlace, EditorTypeOK, Jobs, Boards, Cards
  <2>2. CASE job.step = "answered"
    <3>1. PICK b \in Refreshed : board' = b /\ ReturnToCard(b, job.draft, job.previous)
      BY <1>3, <2>2 DEF PasteEnds
    <3>2. b \in Boards
      BY <2>2, RefreshedTyped
    <3>3. EditorTyped'
      BY <2>1, <3>1, <3>2, ReturnTyped
    <3> QED
      BY <1>3, <3>1, <3>2, <3>3, IdleTyped DEF PasteEnds, EditorTypeOK, EditorTyped
  <2>3. CASE job.step # "answered"
    <3>1. ReturnToCard(board, job.draft, board.card.links) /\ UNCHANGED board
      BY <1>3, <2>3 DEF PasteEnds
    <3>2. EditorTyped'
      BY <2>1, <3>1, ReturnTyped
    <3> QED
      BY <1>3, <3>1, <3>2, IdleTyped DEF PasteEnds, EditorTypeOK, EditorTyped
  <2> QED
    BY <2>2, <2>3
<1>4. CASE Archived
  <2>1. board' \in Boards
    BY <1>4, RefreshedTyped DEF Archived
  <2>2. EditorTyped'
    BY <1>4, StaysTyped DEF Archived
  <2> QED
    BY <1>4, <2>1, <2>2, IdleTyped DEF Archived, EditorTypeOK, EditorTyped
<1>5. CASE Restored
  <2>1. PICK b \in Refreshed : board' = b /\ Opens(b, FormOf(b.card))
    BY <1>5 DEF Restored
  <2>2. b \in Boards /\ FormOf(b.card) \in Forms
    BY <1>5, RefreshedTyped, FormsTyped DEF Restored, Boards
  <2>3. EditorTyped'
    BY <2>1, <2>2, OpensTyped DEF EditorTyped
  <2> QED
    BY <1>5, <2>1, <2>2, <2>3, IdleTyped DEF Restored, EditorTypeOK, EditorTyped
<1> QED
  BY <1>1, <1>2, <1>3, <1>4, <1>5

LEMMA OthersTyped ==
  ASSUME EditorTypeOK, RevisionsKeepStep, OthersEdit
  PROVE  EditorTypeOK' /\ RevisionsKeepStep'
<1>0. /\ server \in Boards /\ server.card \in Cards /\ server.revision \in 0..MaxRevision
      /\ server.card.revision \in 0..MaxRevision /\ server.card.links \in SUBSET Links
      /\ MaxRevision \in Nat
  BY EditorAssumption DEF EditorTypeOK, Boards, Cards
<1>2. server.revision + 1 \in 0..MaxRevision /\ server.card.revision + 1 \in 0..MaxRevision
      /\ server.card.revision + 1 <= server.revision + 1
  <2>1. server.revision < MaxRevision /\ server.card.revision <= server.revision
    BY DEF OthersEdit, RevisionsKeepStep
  <2>2. \A m, n, max \in Nat : n < max /\ m <= n =>
          n + 1 \in 0..max /\ m + 1 \in 0..max /\ m + 1 <= n + 1
    OBVIOUS
  <2>3. server.revision \in Nat /\ server.card.revision \in Nat
    BY <1>0
  <2> QED
    BY <1>0, <2>1, <2>2, <2>3
<1>1. PICK card \in {server.card} \cup
       {[server.card EXCEPT !.revision = @ + 1, !.text = t] : t \in Texts \ {server.card.text}} \cup
       {[server.card EXCEPT !.revision = @ + 1, !.links = Toggled(@, l)] : l \in Links} :
       /\ server' = [revision |-> server.revision + 1, card |-> card]
       /\ editor' = IF editor = None THEN None
                    ELSE [editor EXCEPT !.alone = @ /\ card = server.card]
       /\ job' = [job EXCEPT !.alone = @ /\ card = server.card]
  BY DEF OthersEdit
<1>3. card \in Cards /\ card.revision <= server.revision + 1
  <2>1. CASE card = server.card
    BY <1>0, <1>2, <2>1
  <2>2. ASSUME NEW t \in Texts, card = [server.card EXCEPT !.revision = @ + 1, !.text = t]
        PROVE  card \in Cards /\ card.revision <= server.revision + 1
    BY <1>0, <1>2, <2>2 DEF Cards
  <2>3. ASSUME NEW l \in Links,
               card = [server.card EXCEPT !.revision = @ + 1, !.links = Toggled(@, l)]
        PROVE  card \in Cards /\ card.revision <= server.revision + 1
    <3>1. Toggled(server.card.links, l) \in SUBSET Links
      BY <1>0 DEF Toggled
    <3> QED
      BY <1>0, <1>2, <2>3, <3>1 DEF Cards
  <2> QED
    BY <1>1, <2>1, <2>2, <2>3
<1>4. server' \in Boards /\ server'.card.revision <= server'.revision
  BY <1>1, <1>2, <1>3 DEF Boards
<1>5. editor' \in {None} \cup Editors
  <2>1. CASE editor = None
    BY <1>1, <2>1
  <2>2. CASE editor # None
    <3>1. editor \in Editors /\ editor' = [editor EXCEPT !.alone = @ /\ card = server.card]
      BY <1>1, <2>2 DEF EditorTypeOK
    <3>2. (editor.alone /\ card = server.card) \in BOOLEAN
      OBVIOUS
    <3> QED
      BY <3>1, <3>2 DEF Editors
  <2> QED
    BY <2>1, <2>2
<1>6. job' \in Jobs
  <2>1. job \in Jobs /\ (job.alone /\ card = server.card) \in BOOLEAN
    BY DEF EditorTypeOK
  <2> QED
    BY <1>1, <2>1, Zenon DEF Jobs
<1> QED
  BY <1>4, <1>5, <1>6 DEF OthersEdit, EditorTypeOK, RevisionsKeepStep

LEMMA TypesKept ==
  ASSUME EditorTypeOK, RevisionsKeepStep, JobsKeepTheirPlace, [EditorNext]_editorVars
  PROVE  EditorTypeOK' /\ RevisionsKeepStep'
<1>1. CASE Answer
  BY <1>1, AnswerTyped
<1>2. CASE OthersEdit
  BY <1>2, OthersTyped
<1>3. CASE \/ OpenCard \/ TypeInForm \/ TypeOrSendComment \/ Discard \/ CancelDialog
           \/ Back \/ Leave \/ Reload \/ LosesWorkspace \/ Fails
  <2>1. UNCHANGED server
    BY <1>3 DEF OpenCard, TypeInForm, TypeOrSendComment, Discard, CancelDialog, Back,
                Leave, Reload, LosesWorkspace, Fails
  <2> QED
    BY <1>3, <2>1, FormStepsTyped DEF RevisionsKeepStep
<1>4. CASE Save
  BY <1>4, SaveTyped DEF Save, RevisionsKeepStep
<1>5. CASE \/ AddLink \/ (\E link \in Links : SubmitLink(link) \/ Paste(link))
           \/ OpenArchive \/ SubmitArchive \/ Restore
  <2>1. UNCHANGED server
    BY <1>5 DEF AddLink, SubmitLink, Paste, OpenArchive, SubmitArchive, Restore
  <2> QED
    BY <1>5, <2>1, StartsTyped DEF RevisionsKeepStep
<1>6. CASE \/ SaveGoesOn \/ LinkAdded \/ PasteEnds \/ Archived \/ Restored
  <2>1. UNCHANGED server
    BY <1>6 DEF SaveGoesOn, LinkAdded, PasteEnds, Archived, Restored
  <2> QED
    BY <1>6, <2>1, EndsTyped DEF RevisionsKeepStep
<1>7. CASE UNCHANGED editorVars
  BY <1>7 DEF editorVars, EditorTypeOK, RevisionsKeepStep
<1> QED
  BY <1>1, <1>2, <1>3, <1>4, <1>5, <1>6, <1>7 DEF EditorNext

-----------------------------------------------------------------------------
(* Jobs, keys and what they leave *)

JobInv ==
  /\ JobsKeepTheirPlace /\ KeysBelong /\ CommandsFitJob /\ TextIsSaved /\ LinksAreListed

\* The form is gone, new, or still holds its attempt; so is the dialog.
FormKept ==
  editor # None /\ editor'.attempt = editor.attempt /\ editor'.alone = editor.alone
FormIsKeptOrNew == editor' = None \/ editor'.attempt = None \/ FormKept
DialogKept == over' = over
DialogIsKeptOrNew == over' = None \/ over'.attempt = None \/ DialogKept

\* A step that sends nothing and leaves the server alone, either ending the
\* job or keeping what it stands on.
QuietStep ==
  /\ UNCHANGED <<server, applied>>
  /\ count'.keys = count.keys
  /\ FormIsKeptOrNew /\ DialogIsKeptOrNew
  /\ \/ job' = IdleJob
     \/ /\ job' = job
        /\ job.kind # "idle" => board' = board /\ (over' = None \/ DialogKept)
        /\ job.step = "posted" /\ job.key # 0 =>
             (FormKept /\ editor' # None) \/ editor' = editor
        /\ job.step = "posted" => DialogKept

LEMMA QuietStepKeeps ==
  ASSUME JobInv, QuietStep
  PROVE  JobInv'
<1> USE DEF QuietStep, FormIsKeptOrNew, FormKept, DialogIsKeptOrNew, DialogKept
<1>1. CASE job' = IdleJob
  <2>1. /\ job'.kind = "idle" /\ job'.step = "idle" /\ job'.again = FALSE
        /\ job'.key = 0
    BY <1>1 DEF IdleJob
  <2>2. JobsKeepTheirPlace'
    BY <2>1 DEF JobsKeepTheirPlace
  <2>3. KeysBelong'
    BY <2>1 DEF JobInv, KeysBelong
  <2>4. CommandsFitJob' /\ LinksAreListed'
    BY <2>1 DEF CommandsFitJob, LinksAreListed
  <2>5. TextIsSaved'
    BY <2>1 DEF JobInv, TextIsSaved
  <2> QED
    BY <2>2, <2>3, <2>4, <2>5 DEF JobInv
<1>2. CASE job' = job /\ job' # IdleJob
  <2>2. JobsKeepTheirPlace'
    BY <1>2 DEF JobInv, JobsKeepTheirPlace
  <2>3. KeysBelong'
    BY <1>2 DEF JobInv, KeysBelong
  <2>4. CommandsFitJob'
    BY <1>2 DEF JobInv, CommandsFitJob
  <2>5. LinksAreListed'
    BY <1>2 DEF JobInv, LinksAreListed, Pending
  <2>6. TextIsSaved'
    BY <1>2 DEF JobInv, TextIsSaved, KeysBelong
  <2> QED
    BY <2>2, <2>3, <2>4, <2>5, <2>6 DEF JobInv
<1> QED
  BY <1>1, <1>2

\* A form that stays, closes or opens anew is quiet.
LEMMA FormsAreQuiet ==
  ASSUME EditorTypeOK
  PROVE  /\ StaysAsItIs \/ Closes \/ LeavesEditor =>
              FormIsKeptOrNew /\ count'.keys = count.keys
         /\ \A b \in Boards, form \in Forms : Opens(b, form) =>
              FormIsKeptOrNew /\ count'.keys = count.keys
         /\ \A b \in {None} \cup Boards, draft \in Forms, previous \in SUBSET Links :
              ReturnToCard(b, draft, previous) =>
                FormIsKeptOrNew /\ count'.keys = count.keys
<1>1. ASSUME StaysAsItIs \/ Closes \/ LeavesEditor
      PROVE  FormIsKeptOrNew /\ count'.keys = count.keys
  BY <1>1 DEF StaysAsItIs, Closes, LeavesEditor, FormIsKeptOrNew, FormKept
<1>2. ASSUME NEW b \in Boards, NEW form \in Forms, Opens(b, form)
      PROVE  FormIsKeptOrNew /\ count'.keys = count.keys
  BY <1>2, OpensTyped DEF FormIsKeptOrNew
<1>3. ASSUME NEW b \in {None} \cup Boards, NEW draft \in Forms, NEW previous \in SUBSET Links,
             ReturnToCard(b, draft, previous)
      PROVE  FormIsKeptOrNew /\ count'.keys = count.keys
  <2>1. CASE b = None \/ b.card.archived
    BY <1>1, <1>3, <2>1 DEF ReturnToCard
  <2>2. CASE b # None /\ ~b.card.archived
    BY <1>2, <1>3, <2>2, FormsTyped DEF ReturnToCard
  <2> QED
    BY <2>1, <2>2
<1> QED
  BY <1>1, <1>2, <1>3

LEMMA FormStepsAreQuiet ==
  ASSUME EditorTypeOK, JobInv,
         \/ OpenCard \/ TypeInForm \/ TypeOrSendComment \/ Discard \/ CancelDialog
         \/ Back \/ Leave \/ Reload \/ LosesWorkspace \/ Fails
  PROVE  QuietStep
<1>0. JobsKeepTheirPlace /\ KeysBelong
  BY DEF JobInv
<1>1. CASE OpenCard
  <2>1. board \in Boards /\ FormOf(board.card) \in Forms
    BY <1>1, FormsTyped DEF OpenCard, EditorTypeOK, Boards
  <2>2. FormIsKeptOrNew /\ count'.keys = count.keys
    BY <1>1, <2>1, FormsAreQuiet DEF OpenCard
  <2>3. ~(job.step = "posted" /\ job.key # 0)
    BY <1>0, <1>1 DEF KeysBelong, OpenCard
  <2> QED
    BY <1>1, <2>2, <2>3 DEF OpenCard, QuietStep, DialogIsKeptOrNew, DialogKept
<1>2. CASE TypeInForm \/ TypeOrSendComment
  <2>1. FormKept /\ editor' # None
    BY <1>2, TypingTyped, NoneAssumption DEF TypeInForm, TypeOrSendComment, CanType, FormKept
  <2> QED
    BY <1>2, <2>1 DEF TypeInForm, TypeOrSendComment, CanType, QuietStep, FormIsKeptOrNew,
       DialogIsKeptOrNew, DialogKept
<1>3. CASE Discard \/ Back \/ Leave
  <2>1. FormIsKeptOrNew /\ count'.keys = count.keys
    BY <1>3, FormsAreQuiet DEF Discard, Back, Leave
  <2>2. job.step # "posted" /\ UNCHANGED <<server, applied, over, job>>
    BY <1>0, <1>3 DEF Discard, Back, Leave, Busy, Idle, JobsKeepTheirPlace
  <2>3. job.kind # "idle" => board' = board
    BY <1>0, <1>3 DEF Discard, Back, Leave, Idle, JobsKeepTheirPlace
  <2> QED
    BY <2>1, <2>2, <2>3 DEF QuietStep, DialogIsKeptOrNew, DialogKept
<1>4. CASE CancelDialog
  <2>1. over \in Dialogs /\ over.draft \in Forms /\ over.previous \in SUBSET Links
        /\ board \in {None} \cup Boards
    BY <1>4 DEF CancelDialog, EditorTypeOK, Dialogs
  <2>2. FormIsKeptOrNew /\ count'.keys = count.keys
    BY <1>4, <2>1, FormsAreQuiet DEF CancelDialog
  <2>3. job.step # "posted"
    BY <1>4 DEF CancelDialog, Busy
  <2> QED
    BY <1>0, <1>4, <2>2, <2>3 DEF CancelDialog, QuietStep, DialogIsKeptOrNew, JobsKeepTheirPlace
<1>5. CASE Reload
  <2>1. job.kind = "idle" /\ job.step # "posted"
    BY <1>0, <1>5 DEF Reload, Idle, JobsKeepTheirPlace
  <2> QED
    BY <1>5, <2>1 DEF Reload, QuietStep, FormIsKeptOrNew, FormKept, DialogIsKeptOrNew,
       DialogKept
<1>6. CASE LosesWorkspace \/ Fails
  BY <1>6 DEF LosesWorkspace, Fails, QuietStep, FormIsKeptOrNew, FormKept,
     DialogIsKeptOrNew, DialogKept
<1> QED
  BY <1>1, <1>2, <1>3, <1>4, <1>5, <1>6

LEMMA DialogStepsAreQuiet ==
  ASSUME EditorTypeOK, JobInv,
         AddLink \/ OpenArchive \/ LinkAdded \/ PasteEnds \/ Archived \/ Restored
  PROVE  QuietStep
<1>0. JobsKeepTheirPlace
  BY DEF JobInv
<1>1. CASE AddLink \/ OpenArchive
  <2>1. FormIsKeptOrNew /\ count'.keys = count.keys
    BY <1>1, FormsAreQuiet DEF AddLink, OpenArchive
  <2>2. job.kind = "idle" /\ job.step # "posted"
    BY <1>0, <1>1 DEF AddLink, OpenArchive, CanLink, Idle, JobsKeepTheirPlace
  <2>3. over'.attempt = None
    BY <1>1 DEF AddLink, OpenArchive
  <2> QED
    BY <1>1, <2>1, <2>2, <2>3 DEF AddLink, OpenArchive, QuietStep, DialogIsKeptOrNew
<1>2. CASE LinkAdded
  <2>1. PICK b \in Refreshed :
          IF over # None /\ over.kind = "link"
          THEN ReturnToCard(b, over.draft, over.previous) ELSE LeavesEditor
    BY <1>2 DEF LinkAdded
  <2>2. b \in Boards
    BY <1>0, <1>2, RefreshedTyped DEF LinkAdded
  <2>3. over # None => over.draft \in Forms /\ over.previous \in SUBSET Links
    BY DEF EditorTypeOK, Dialogs
  <2>4. FormIsKeptOrNew /\ count'.keys = count.keys
    BY <2>1, <2>2, <2>3, FormsAreQuiet
  <2> QED
    BY <1>2, <2>4 DEF LinkAdded, QuietStep, DialogIsKeptOrNew
<1>3. CASE PasteEnds
  <2>1. /\ job.draft \in Forms /\ job.previous \in SUBSET Links
        /\ board \in {None} \cup Boards /\ board.card.links \in SUBSET Links
    BY <1>0, <1>3 DEF PasteEnds, JobsKeepTheirPlace, EditorTypeOK, Jobs, Boards, Cards
  <2>2. job.step = "answered" => \A b \in Refreshed : b \in Boards
    BY <1>0, RefreshedTyped
  <2>3. FormIsKeptOrNew /\ count'.keys = count.keys
    BY <1>3, <2>1, <2>2, FormsAreQuiet DEF PasteEnds
  <2> QED
    BY <1>3, <2>3 DEF PasteEnds, QuietStep, DialogIsKeptOrNew, DialogKept
<1>4. CASE Archived
  <2>1. FormIsKeptOrNew /\ count'.keys = count.keys
    BY <1>4, FormsAreQuiet DEF Archived
  <2> QED
    BY <1>4, <2>1 DEF Archived, QuietStep, DialogIsKeptOrNew
<1>5. CASE Restored
  <2>1. PICK b \in Refreshed : board' = b /\ Opens(b, FormOf(b.card))
    BY <1>5 DEF Restored
  <2>2. b \in Boards /\ FormOf(b.card) \in Forms
    BY <1>0, <1>5, RefreshedTyped, FormsTyped DEF Restored, Boards
  <2>3. FormIsKeptOrNew /\ count'.keys = count.keys
    BY <2>1, <2>2, FormsAreQuiet
  <2> QED
    BY <1>5, <2>3 DEF Restored, QuietStep, DialogIsKeptOrNew
<1> QED
  BY <1>1, <1>2, <1>3, <1>4, <1>5

LEMMA SaveKeeps ==
  ASSUME EditorInv, Save
  PROVE  JobInv'
<1> DEFINE command == Update(editor, IF list THEN board.revision ELSE editor.revision)
           attempt == Attempt(editor.attempt, command)
<1>0. /\ EditorTypeOK /\ JobsKeepTheirPlace /\ KeysBelong /\ TextIsSaved
      /\ editor # None /\ over = None /\ board # None /\ UNCHANGED <<server, applied, board, over>>
  BY DEF Save, EditorInv
<1>1. editor \in Editors /\ board \in Boards /\ editor.attempt \in Attempts
      /\ count.keys \in Nat
  BY <1>0, EditorAssumption DEF EditorTypeOK, Editors
<1>2. command \in Commands /\ command.kind = "update" /\ command.text = editor.form.text
  <2>1. board.revision \in 0..MaxRevision /\ editor.revision \in 0..MaxRevision
    BY <1>1 DEF Boards, Editors
  <2>2. command \in Commands
    BY <1>0, <1>1, <2>1, CommandsTyped
  <2> QED
    BY <2>2 DEF Update
<1>3. /\ attempt \in [command : Commands, key : 1..MaxAttempts]
      /\ attempt.command = command
      /\ \/ editor.attempt # None /\ attempt = editor.attempt
         \/ attempt.key = count.keys + 1
      /\ count'.keys = IF attempt.key > count.keys THEN attempt.key ELSE count.keys
  <2>1. Draws(attempt)
    BY DEF Save
  <2> HIDE DEF command
  <2> QED
    BY <1>0, <1>1, <1>2, <2>1, AttemptTyped
<1>4. /\ editor' = [editor EXCEPT !.attempt = attempt]
      /\ job' = [IdleJob EXCEPT !.kind = "save", !.step = "posted", !.owner = editor.id,
                     !.command = attempt.command, !.key = attempt.key,
                     !.draft = editor.form, !.alone = editor.alone,
                     !.again = Again(editor.attempt, attempt)]
  BY DEF Save
<1>5. Again(editor.attempt, attempt) => attempt.key \in applied
  BY <1>3 DEF Again, Attempt
<1> HIDE DEF command, attempt
<1>6. /\ job'.kind = "save" /\ job'.step = "posted" /\ job'.key = attempt.key
      /\ job'.key # 0 /\ job'.command = command /\ job'.draft = editor.form
      /\ job'.alone = editor.alone /\ job'.again = Again(editor.attempt, attempt)
  BY <1>3, <1>4 DEF IdleJob
<1>7. /\ editor' # None /\ editor'.attempt = attempt /\ editor'.alone = editor.alone
      /\ attempt # None
  <2>1. editor' \in Editors
    BY <1>1, <1>3, <1>4 DEF Editors, Attempts
  <2>2. editor'.attempt = attempt /\ editor'.alone = editor.alone
    BY <1>1, <1>4 DEF Editors
  <2>3. attempt # None
    BY <1>3, NoneAssumption
  <2> QED
    BY <2>1, <2>2, <2>3, NoneAssumption
<1>8. editor.form \in Forms
  BY <1>1 DEF Editors
<1>9. JobsKeepTheirPlace'
  BY <1>0, <1>2, <1>6, <1>8, NoneAssumption DEF JobsKeepTheirPlace
<1>10. KeysBelong'
  BY <1>0, <1>1, <1>3, <1>5, <1>6, <1>7 DEF KeysBelong
<1>11. CommandsFitJob'
  BY <1>2, <1>6 DEF CommandsFitJob
<1>12. TextIsSaved'
  <2>1. attempt.key \in applied => editor.attempt # None /\ attempt = editor.attempt
    BY <1>0, <1>1, <1>3 DEF KeysBelong
  <2> QED
    BY <1>0, <1>6, <1>7, <2>1 DEF TextIsSaved
<1>13. LinksAreListed'
  BY <1>6 DEF LinksAreListed
<1> QED
  BY <1>9, <1>10, <1>11, <1>12, <1>13 DEF JobInv

\* A dialog that sends its command.
LEMMA SubmitKeeps ==
  ASSUME EditorInv, over \in Dialogs, over # None, board # None, job.kind = "idle",
         NEW command \in Commands, NEW kind \in {"link", "archive"}, NEW attempt,
         over.kind = kind,
         kind = "link" => command.kind = "attach" /\ command.link \in Links,
         kind = "archive" => command.kind = "archive",
         attempt = Attempt(over.attempt, command), Draws(attempt),
         over' = [over EXCEPT !.attempt = attempt],
         job' = [IdleJob EXCEPT !.kind = kind, !.step = "posted",
                   !.command = attempt.command, !.key = attempt.key,
                   !.again = Again(over.attempt, attempt)],
         UNCHANGED <<server, applied, list, board, editor>>
  PROVE  JobInv'
<1>0. /\ EditorTypeOK /\ JobsKeepTheirPlace /\ KeysBelong /\ TextIsSaved
  BY DEF EditorInv
<1>1. over.attempt \in Attempts /\ count.keys \in Nat
  BY <1>0, EditorAssumption DEF EditorTypeOK, Dialogs
<1>3. /\ attempt \in [command : Commands, key : 1..MaxAttempts]
      /\ attempt.command = command
      /\ \/ over.attempt # None /\ attempt = over.attempt
         \/ attempt.key = count.keys + 1
      /\ count'.keys = IF attempt.key > count.keys THEN attempt.key ELSE count.keys
  BY <1>0, <1>1, AttemptTyped
<1>5. Again(over.attempt, attempt) => attempt.key \in applied
  BY <1>3 DEF Again, Attempt
<1>6. /\ job'.kind = kind /\ job'.step = "posted" /\ job'.key = attempt.key
      /\ job'.key # 0 /\ job'.command = command
      /\ job'.again = Again(over.attempt, attempt)
  BY <1>3 DEF IdleJob
<1>7. /\ over'.kind = kind /\ over'.attempt = attempt
      /\ attempt # None /\ over' # None
  <2>1. over' \in Dialogs
    BY <1>3 DEF Dialogs, Attempts
  <2>2. over'.attempt = attempt /\ over'.kind = over.kind
    BY DEF Dialogs
  <2>3. attempt # None
    BY <1>3, NoneAssumption
  <2> QED
    BY <2>1, <2>2, <2>3, NoneAssumption
<1>9. JobsKeepTheirPlace'
  BY <1>0, <1>6, <1>7, NoneAssumption DEF JobsKeepTheirPlace
<1>10. KeysBelong'
  <2>1. editor # None /\ editor.attempt # None => editor.attempt.key \in Nat
    BY <1>0 DEF EditorTypeOK, Editors, Attempts
  <2> QED
    BY <1>0, <1>1, <1>3, <1>5, <1>6, <1>7, <2>1 DEF KeysBelong
<1>11. CommandsFitJob'
  BY <1>6 DEF CommandsFitJob
<1>12. TextIsSaved'
  BY <1>0, <1>6 DEF TextIsSaved
<1>13. LinksAreListed'
  BY <1>6 DEF LinksAreListed
<1> QED
  BY <1>9, <1>10, <1>11, <1>12, <1>13 DEF JobInv

LEMMA StartsKeep ==
  ASSUME EditorInv,
         \/ (\E link \in Links : SubmitLink(link) \/ Paste(link))
         \/ SubmitArchive \/ Restore
  PROVE  JobInv'
<1>0. EditorTypeOK /\ JobsKeepTheirPlace /\ KeysBelong /\ TextIsSaved
  BY DEF EditorInv
<1>2. ASSUME NEW link \in Links, SubmitLink(link) PROVE JobInv'
  <2> DEFINE command == [Command("attach", link) EXCEPT !.revision = over.revision]
  <2>1. over \in Dialogs /\ over.revision \in 0..MaxRevision /\ board # None
        /\ board.card.text \in Texts
    BY <1>0, <1>2 DEF SubmitLink, EditorTypeOK, Dialogs, Boards, Cards
  <2>2. command \in Commands
    BY <1>0, <2>1, CommandsTyped
  <2>3. command.kind = "attach" /\ command.link = link
    BY DEF Command
  <2>4. PICK attempt :
          /\ attempt = Attempt(over.attempt, command) /\ Draws(attempt)
          /\ over' = [over EXCEPT !.attempt = attempt]
          /\ job' = [IdleJob EXCEPT !.kind = "link", !.step = "posted",
                     !.command = attempt.command, !.key = attempt.key,
                     !.again = Again(over.attempt, attempt)]
          /\ UNCHANGED <<server, applied, list, board, editor>>
    BY <1>2 DEF SubmitLink
  <2>5. over # None /\ over.kind = "link" /\ job.kind = "idle"
    BY <1>2 DEF SubmitLink, Idle
  <2> HIDE DEF command
  <2> QED
    BY <2>1, <2>2, <2>3, <2>4, <2>5, SubmitKeeps
<1>3. CASE SubmitArchive
  <2> DEFINE command == [Command("archive", None) EXCEPT !.revision = over.revision]
  <2>1. over \in Dialogs /\ over.revision \in 0..MaxRevision /\ board # None
        /\ board.card.text \in Texts
    BY <1>0, <1>3 DEF SubmitArchive, EditorTypeOK, Dialogs, Boards, Cards
  <2>2. command \in Commands
    BY <1>0, <2>1, CommandsTyped
  <2>3. command.kind = "archive"
    BY DEF Command
  <2>4. PICK attempt :
          /\ attempt = Attempt(over.attempt, command) /\ Draws(attempt)
          /\ over' = [over EXCEPT !.attempt = attempt]
          /\ job' = [IdleJob EXCEPT !.kind = "archive", !.step = "posted",
                     !.command = attempt.command, !.key = attempt.key,
                     !.again = Again(over.attempt, attempt)]
          /\ UNCHANGED <<server, applied, list, board, editor>>
    BY <1>3 DEF SubmitArchive
  <2>5. over # None /\ over.kind = "archive" /\ job.kind = "idle"
    BY <1>3 DEF SubmitArchive, Idle
  <2> HIDE DEF command
  <2> QED
    BY <2>1, <2>2, <2>3, <2>4, <2>5, SubmitKeeps
<1>4. ASSUME UNCHANGED <<server, applied, board, over>>, count'.keys = count.keys,
             FormIsKeptOrNew, over = None, board # None,
             NEW kind \in {"paste", "restore"}, NEW command \in Commands,
             job'.kind = kind, job'.step = "posted", job'.command = command, job'.key = 0,
             job'.again = FALSE, kind = "paste" => job'.draft \in Forms,
             kind = "paste" => command.kind = "attach" /\ command.link \in Links,
             kind = "restore" => command.kind = "restore"
      PROVE  JobInv'
  <2>1. JobsKeepTheirPlace'
    BY <1>0, <1>4, NoneAssumption DEF JobsKeepTheirPlace
  <2>2. KeysBelong'
    BY <1>0, <1>4 DEF KeysBelong, FormIsKeptOrNew, FormKept
  <2>3. CommandsFitJob' /\ LinksAreListed'
    BY <1>4 DEF CommandsFitJob, LinksAreListed
  <2>4. TextIsSaved'
    BY <1>0, <1>4 DEF TextIsSaved, FormIsKeptOrNew, FormKept
  <2> QED
    BY <2>1, <2>2, <2>3, <2>4 DEF JobInv
<1>5. ASSUME NEW link \in Links, Paste(link) PROVE JobInv'
  <2>1. /\ editor.form \in Forms /\ board \in Boards /\ board # None
        /\ board.revision \in 0..MaxRevision /\ board.card.text \in Texts
    BY <1>0, <1>5 DEF Paste, CanLink, EditorTypeOK, Editors, Boards, Cards
  <2>2. Command("attach", link) \in Commands
    BY <1>0, <2>1, CommandsTyped
  <2>3. Command("attach", link).kind = "attach" /\ Command("attach", link).link = link
    BY DEF Command
  <2>4. FormIsKeptOrNew /\ count'.keys = count.keys
    BY <1>0, <1>5, FormsAreQuiet DEF Paste
  <2>5. /\ job'.kind = "paste" /\ job'.step = "posted" /\ job'.key = 0
        /\ job'.command = Command("attach", link) /\ job'.again = FALSE
        /\ job'.draft = editor.form
    BY <1>5 DEF Paste, IdleJob
  <2>6. UNCHANGED <<server, applied, board, over>> /\ over = None
    BY <1>5 DEF Paste, CanLink
  <2> QED
    BY <1>4, <2>1, <2>2, <2>3, <2>4, <2>5, <2>6
<1>6. CASE Restore
  <2>1. board # None /\ board \in Boards /\ board.revision \in 0..MaxRevision
        /\ board.card.text \in Texts
    BY <1>0, <1>6 DEF Restore, EditorTypeOK, Boards, Cards
  <2>2. Command("restore", None) \in Commands
    BY <1>0, <2>1, CommandsTyped
  <2>3. Command("restore", None).kind = "restore"
    BY DEF Command
  <2>4. FormIsKeptOrNew /\ count'.keys = count.keys
    BY <1>6 DEF Restore, FormIsKeptOrNew, FormKept
  <2>5. /\ job'.kind = "restore" /\ job'.step = "posted" /\ job'.key = 0
        /\ job'.command = Command("restore", None) /\ job'.again = FALSE
    BY <1>6 DEF Restore, IdleJob
  <2>6. UNCHANGED <<server, applied, board, over>> /\ over = None
    BY <1>6 DEF Restore
  <2> QED
    BY <1>4, <2>1, <2>2, <2>3, <2>4, <2>5, <2>6
<1> QED
  BY <1>2, <1>3, <1>5, <1>6

\* An answer is all a job gains.
JobKept ==
  /\ job'.kind = job.kind /\ job'.command = job.command /\ job'.key = job.key
  /\ job'.draft = job.draft /\ job'.detach = job.detach /\ job'.attach = job.attach
  /\ job'.alone = job.alone /\ job'.fresh = job.fresh /\ job'.again = job.again

\* What an answer leaves of the job and of the server.
LEMMA AnswerSteps ==
  ASSUME EditorInv, Answer
  PROVE  /\ UNCHANGED <<list, board, editor, over, count>> /\ job.step = "posted"
         /\ JobKept
         /\ job'.step \in {"answered", "failed", "refused"}
         /\ job'.step = "refused" => job.key \notin applied
         /\ job'.step = "answered" => job'.answer = server'
         /\ \/ /\ UNCHANGED <<server, applied>>
               /\ job'.step = "answered" => job.key \in applied
            \/ /\ applied' = applied \cup ({job.key} \ {0})
               /\ job'.step # "refused"
               /\ job.command.kind # "update" => server'.card.text = server.card.text
               /\ job.command.kind = "update" => server'.card.text = job.command.text
               /\ server'.card.links =
                    IF job.command.kind = "attach"
                    THEN server.card.links \cup {job.command.link}
                    ELSE IF job.command.kind = "detach"
                         THEN server.card.links \ {job.command.link}
                         ELSE server.card.links
<1>1. job \in Jobs
  BY DEF EditorInv, EditorTypeOK
<1>2. /\ \A b : job' = [job EXCEPT !.step = "answered", !.answer = b] =>
              JobKept /\ job'.step = "answered" /\ job'.answer = b
      /\ \A s : job' = [job EXCEPT !.step = s] => JobKept /\ job'.step = s
  BY <1>1 DEF Jobs, JobKept
<1>3. /\ After(job.command).card.text =
           IF job.command.kind = "update" THEN job.command.text ELSE server.card.text
      /\ After(job.command).card.links =
                    IF job.command.kind = "attach"
                    THEN server.card.links \cup {job.command.link}
                    ELSE IF job.command.kind = "detach"
                         THEN server.card.links \ {job.command.link}
                         ELSE server.card.links
  BY DEF After
<1>4. UNCHANGED <<list, board, editor, over, count>> /\ job.step = "posted"
  BY DEF Answer
<1>5. CASE /\ job.key \in applied /\ UNCHANGED <<server, applied>>
           /\ job' \in {[job EXCEPT !.step = "answered", !.answer = server],
                        [job EXCEPT !.step = "failed"]}
  BY <1>2, <1>4, <1>5
<1>6. CASE /\ server' = After(job.command)
           /\ job' \in {[job EXCEPT !.step = "answered", !.answer = After(job.command)],
                        [job EXCEPT !.step = "failed"]}
           /\ applied' = applied \cup ({job.key} \ {0})
  BY <1>2, <1>3, <1>4, <1>6
<1>7. CASE /\ job.key \notin applied /\ job' = [job EXCEPT !.step = "refused"]
           /\ UNCHANGED <<server, applied>>
  BY <1>2, <1>4, <1>7
<1>8. CASE job' = [job EXCEPT !.step = "failed"] /\ UNCHANGED <<server, applied>>
  BY <1>2, <1>4, <1>8
<1> QED
  BY <1>5, <1>6, <1>7, <1>8 DEF Answer

LEMMA AnswerKeeps ==
  ASSUME EditorInv, EditorTypeOK', Answer
  PROVE  JobInv'
<1>0. /\ EditorTypeOK /\ JobsKeepTheirPlace /\ KeysBelong /\ CommandsFitJob /\ TextIsSaved
      /\ LinksAreListed
  BY DEF EditorInv
<1>1. /\ UNCHANGED <<list, board, editor, over, count>> /\ job.step = "posted"
      /\ job'.kind = job.kind /\ job'.command = job.command /\ job'.key = job.key
      /\ job'.draft = job.draft /\ job'.detach = job.detach /\ job'.attach = job.attach
      /\ job'.alone = job.alone /\ job'.fresh = job.fresh /\ job'.again = job.again
      /\ job'.step \in {"answered", "failed", "refused"}
      /\ job'.step = "refused" => job.key \notin applied
      /\ job'.step = "answered" => job'.answer = server'
  BY AnswerSteps DEF JobKept
<1>2. count.keys \in Nat /\ job.key \in Nat /\ job.kind # "idle"
      /\ job.kind \in {"save", "link", "paste", "archive", "restore"}
  BY <1>0, <1>1, EditorAssumption DEF EditorTypeOK, Jobs, JobsKeepTheirPlace
<1>3. server' # None
  BY NoneAssumption DEF EditorTypeOK
<1>4. JobsKeepTheirPlace'
  BY <1>0, <1>1, <1>2, <1>3 DEF JobsKeepTheirPlace
<1>5. CommandsFitJob'
  BY <1>0, <1>1 DEF CommandsFitJob
<1>6. CASE /\ UNCHANGED <<server, applied>>
           /\ job'.step = "answered" => job.key \in applied
  <2>1. KeysBelong'
    BY <1>0, <1>1, <1>6 DEF KeysBelong
  <2>2. job'.step = "answered" => job.key # 0
    BY <1>0, <1>6 DEF KeysBelong
  <2>3. TextIsSaved'
    BY <1>0, <1>1, <1>6, <2>2 DEF TextIsSaved, KeysBelong, CommandsFitJob
  <2>4. LinksAreListed'
    BY <1>1, <2>2 DEF LinksAreListed
  <2> QED
    BY <1>4, <1>5, <2>1, <2>3, <2>4 DEF JobInv
<1>7. CASE /\ applied' = applied \cup ({job.key} \ {0})
           /\ job'.step # "refused"
           /\ job.command.kind # "update" => server'.card.text = server.card.text
           /\ job.command.kind = "update" => server'.card.text = job.command.text
           /\ server'.card.links =
                    IF job.command.kind = "attach"
                    THEN server.card.links \cup {job.command.link}
                    ELSE IF job.command.kind = "detach"
                         THEN server.card.links \ {job.command.link}
                         ELSE server.card.links
  <2>1. job.key # 0 => job.key \in 1..count.keys
    <3>1. editor # None /\ editor.attempt # None => editor.attempt.key \in Nat
      BY <1>0 DEF EditorTypeOK, Editors, Attempts
    <3>2. over # None /\ over.attempt # None => over.attempt.key \in Nat
      BY <1>0 DEF EditorTypeOK, Dialogs, Attempts
    <3> QED
      BY <1>0, <1>1, <1>2, <3>1, <3>2 DEF KeysBelong
  <2>2. KeysBelong'
    BY <1>0, <1>1, <1>7, <2>1 DEF KeysBelong
  <2>3. job.command.kind = "update" => job.kind = "save" /\ job.key # 0
    BY <1>0, <1>2 DEF CommandsFitJob
  <2>4. TextIsSaved'
    <3>1. ASSUME editor # None, editor.attempt # None, editor.alone,
                 editor.attempt.key \in applied'
          PROVE  server'.card.text = editor.attempt.command.text
      <4>1. CASE editor.attempt.key = job.key /\ job.key # 0
        <5>1. job.kind = "save" /\ editor.attempt.command = job.command
          BY <1>0, <1>1, <3>1, <4>1 DEF KeysBelong
        <5> QED
          BY <1>0, <1>7, <4>1, <5>1 DEF CommandsFitJob
      <4>2. CASE editor.attempt.key # job.key \/ job.key = 0
        <5>1. editor.attempt.key \in applied
          BY <1>7, <3>1, <4>2
        <5>2. server.card.text = editor.attempt.command.text
          BY <1>0, <3>1, <5>1 DEF TextIsSaved
        <5>3. job.command.kind # "update" \/ editor.attempt.command = job.command
          BY <1>0, <1>1, <2>3 DEF KeysBelong
        <5> QED
          BY <1>7, <5>2, <5>3
      <4> QED
        BY <4>1, <4>2
    <3>2. ASSUME job.kind = "save", job.alone
          PROVE  (job'.step = "answered" \/ job.key = 0) => server'.card.text = job.draft.text
      <4>1. CASE job.key # 0
        BY <1>0, <1>7, <3>2, <4>1 DEF CommandsFitJob
      <4>2. CASE job.key = 0
        BY <1>0, <1>7, <3>2, <4>2 DEF CommandsFitJob, TextIsSaved
      <4> QED
        BY <4>1, <4>2
    <3> QED
      BY <1>1, <3>1, <3>2 DEF TextIsSaved
  <2>5. LinksAreListed'
    <3> SUFFICES ASSUME job.kind = "save", job.alone, job.fresh, job.key = 0,
                        job'.step = "answered"
                 PROVE  /\ server'.card.links \ job.draft.links \subseteq job.detach
                        /\ job.draft.links \ server'.card.links \subseteq job.attach
                        /\ board.card.links \cap job.draft.links \subseteq server'.card.links
      BY <1>1 DEF LinksAreListed, Pending
    <3>1. /\ server.card.links \ job.draft.links \subseteq job.detach \cup Pending("detach")
          /\ job.draft.links \ server.card.links \subseteq job.attach \cup Pending("attach")
          /\ board.card.links \cap job.draft.links \subseteq server.card.links
      BY <1>0, <1>1 DEF LinksAreListed
    <3>2. CASE job.command.kind = "detach" /\ job.command.link \notin job.draft.links
      BY <1>1, <1>7, <3>1, <3>2 DEF Pending
    <3>3. CASE job.command.kind = "attach" /\ job.command.link \in job.draft.links
      BY <1>1, <1>7, <3>1, <3>3 DEF Pending
    <3> QED
      BY <1>0, <3>2, <3>3 DEF CommandsFitJob
  <2> QED
    BY <1>4, <1>5, <2>2, <2>4, <2>5 DEF JobInv
<1> QED
  BY <1>6, <1>7, AnswerSteps

\* A save goes on with a command for a link that is left, or is over.
LEMMA SaveGoesOnKeeps ==
  ASSUME EditorInv, EditorTypeOK', SaveGoesOn
  PROVE  JobInv'
<1>0. /\ EditorTypeOK /\ JobsKeepTheirPlace /\ KeysBelong /\ CommandsFitJob /\ TextIsSaved
      /\ LinksAreListed /\ JobInv
  BY DEF EditorInv, JobInv
<1>1. job.kind = "save" /\ job.step = "answered" /\ UNCHANGED <<server, applied, list, over>>
  BY DEF SaveGoesOn
<1>2. job.draft \in Forms /\ job.draft.links \in SUBSET Links
  BY <1>0, <1>1 DEF JobsKeepTheirPlace, Forms
<1>3. PICK b \in Refreshed :
        /\ board' = b
        /\ \/ job' = IdleJob /\ StaysAsItIs
           \/ /\ job.command.kind = "update"
              /\ Reconcile(b, Detaches(b, job.draft), job.draft.links)
           \/ /\ job.command.kind # "update"
              /\ Reconcile(b, job.detach, job.attach)
  BY GoesOnSteps
<1>4. b \in Boards
  BY <1>0, <1>1, RefreshedTyped
<1>5. CASE job' = IdleJob
  <2>1. StaysAsItIs \/ Closes
    BY <1>3, ReconcileSteps
  <2>2. FormIsKeptOrNew /\ count'.keys = count.keys
    BY <1>0, <2>1, FormsAreQuiet
  <2> QED
    BY <1>0, <1>1, <1>5, <2>2, QuietStepKeeps DEF QuietStep, DialogIsKeptOrNew, DialogKept
<1>6. CASE job' # IdleJob
  <2>1. PICK detach, attach :
          /\ Reconcile(b, detach, attach)
          /\ \/ /\ job.command.kind = "update"
                /\ detach = b.card.links \ job.draft.links /\ attach = job.draft.links
             \/ /\ job.command.kind # "update"
                /\ detach = job.detach /\ attach = job.attach
    BY <1>3, <1>6 DEF Detaches
  <2>2. PICK kind \in {"attach", "detach"}, link \in detach \cup attach :
          /\ kind = "detach" => link \in detach
          /\ kind = "attach" => detach = {} /\ link \in attach \ b.card.links
          /\ job' = [job EXCEPT !.step = "posted", !.key = 0, !.again = FALSE,
                       !.detach = detach \ {link}, !.attach = attach \ {link},
                       !.answer = None, !.fresh = ReadAgain(b),
                       !.command = NextCommand(b, kind, link)]
          /\ StaysAsItIs
    BY <1>6, <2>1, ReconcileSteps
  <2>3. job \in Jobs
    BY <1>0 DEF EditorTypeOK
  <2>4. /\ job'.kind = "save" /\ job'.step = "posted" /\ job'.key = 0 /\ job'.again = FALSE
        /\ job'.draft = job.draft /\ job'.alone = job.alone
        /\ job'.detach = detach \ {link} /\ job'.attach = attach \ {link}
        /\ job'.fresh = ReadAgain(b)
        /\ job'.command = NextCommand(b, kind, link)
    BY <1>1, <2>2, <2>3 DEF Jobs
  <2>5. job'.command.kind = kind /\ job'.command.link = link
    BY <2>4 DEF NextCommand
  <2>6. UNCHANGED <<editor, count>>
    BY <2>2 DEF StaysAsItIs
  <2>7. attach \subseteq job.draft.links /\ detach \cap job.draft.links = {}
    BY <1>0, <1>1, <2>1 DEF CommandsFitJob
  <2>8. job'.command # None /\ b # None
    <3>1. b.revision \in 0..MaxRevision /\ b.card.text \in Texts /\ 0 \in 0..MaxRevision
      BY <1>4, EditorAssumption DEF Boards, Cards
    <3>2. kind = "attach" => link \in Links
      BY <1>2, <2>2, <2>7
    <3>3. kind = "detach" => link \in Links
      BY <1>0, <1>4, <2>1, <2>2 DEF EditorTypeOK, Jobs, Boards, Cards
    <3>4. NextCommand(b, kind, link) \in Commands
      BY <3>1, <3>2, <3>3 DEF NextCommand, Commands
    <3> QED
      BY <1>4, <2>4, <3>4, NoneAssumption
  <2>9. JobsKeepTheirPlace'
    BY <1>0, <1>1, <1>2, <1>3, <2>2, <2>4, <2>5, <2>7, <2>8 DEF JobsKeepTheirPlace
  <2>10. KeysBelong'
    BY <1>0, <1>1, <2>4, <2>6 DEF KeysBelong
  <2>11. CommandsFitJob'
    BY <2>2, <2>4, <2>5, <2>7 DEF CommandsFitJob
  <2>12. TextIsSaved'
    BY <1>0, <1>1, <2>4, <2>6 DEF TextIsSaved
  <2>13. LinksAreListed'
    <3> SUFFICES ASSUME job.alone, ReadAgain(b)
                 PROVE  /\ server.card.links \ job.draft.links
                             \subseteq (detach \ {link}) \cup Pending("detach")'
                        /\ job.draft.links \ server.card.links
                             \subseteq (attach \ {link}) \cup Pending("attach")'
                        /\ b.card.links \cap job.draft.links \subseteq server.card.links
      BY <1>1, <1>3, <2>4 DEF LinksAreListed
    <3>1. b = job.answer => b.card = server.card
      BY <1>0, <1>1 DEF TextIsSaved
    <3>2. /\ server.card.links \ job.draft.links \subseteq detach
          /\ job.draft.links \ server.card.links \subseteq attach
          /\ b.card.links \cap job.draft.links \subseteq server.card.links
      <4>1. CASE job.command.kind = "update"
        BY <2>1, <3>1, <4>1 DEF ReadAgain
      <4>2. CASE job.command.kind # "update"
        <5>1. job.key = 0 /\ job.fresh
          BY <1>0, <1>1, <4>2 DEF CommandsFitJob, ReadAgain
        <5>2. /\ server.card.links \ job.draft.links \subseteq detach
              /\ job.draft.links \ server.card.links \subseteq attach
              /\ board.card.links \cap job.draft.links \subseteq server.card.links
          BY <1>0, <1>1, <2>1, <4>2, <5>1 DEF LinksAreListed, Pending
        <5> QED
          BY <1>3, <3>1, <5>2 DEF Refreshed
      <4> QED
        BY <4>1, <4>2
    <3>3. Pending(kind)' = {link}
      BY <2>4, <2>5 DEF Pending
    <3>4. CASE kind = "detach"
      BY <2>2, <2>7, <3>2, <3>3, <3>4
    <3>5. CASE kind = "attach"
      BY <2>2, <2>7, <3>2, <3>3, <3>5
    <3> QED
      BY <3>4, <3>5
  <2> QED
    BY <2>9, <2>10, <2>11, <2>12, <2>13 DEF JobInv
<1> QED
  BY <1>5, <1>6

\* What others do to the card ends what a form knows of it.
LEMMA OthersKeep ==
  ASSUME EditorInv, EditorTypeOK', OthersEdit
  PROVE  JobInv'
<1>0. /\ EditorTypeOK /\ JobsKeepTheirPlace /\ KeysBelong /\ CommandsFitJob /\ TextIsSaved
      /\ LinksAreListed
  BY DEF EditorInv
<1>1. PICK card :
        /\ server' = [revision |-> server.revision + 1, card |-> card]
        /\ editor' = IF editor = None THEN None
                     ELSE [editor EXCEPT !.alone = @ /\ card = server.card]
        /\ job' = [job EXCEPT !.alone = @ /\ card = server.card]
  BY DEF OthersEdit
<1>2. UNCHANGED <<applied, list, board, over, count>>
  BY DEF OthersEdit
<1>3. /\ server'.card = card
      /\ job'.kind = job.kind /\ job'.step = job.step /\ job'.command = job.command
      /\ job'.key = job.key /\ job'.draft = job.draft /\ job'.detach = job.detach
      /\ job'.attach = job.attach /\ job'.answer = job.answer /\ job'.fresh = job.fresh
      /\ job'.again = job.again /\ job'.alone = (job.alone /\ card = server.card)
  BY <1>0, <1>1 DEF EditorTypeOK, Jobs
<1>4. CASE editor = None
  <2>0. editor' = None
    BY <1>1, <1>4
  <2>1. JobsKeepTheirPlace'
    BY <1>0, <1>2, <1>3 DEF JobsKeepTheirPlace
  <2>2. KeysBelong'
    BY <1>0, <1>2, <1>3, <1>4, <2>0 DEF KeysBelong
  <2>3. CommandsFitJob'
    BY <1>0, <1>3 DEF CommandsFitJob
  <2>4. TextIsSaved'
    BY <1>0, <1>3, <1>4, <2>0 DEF TextIsSaved, KeysBelong
  <2>5. LinksAreListed'
    BY <1>0, <1>2, <1>3 DEF LinksAreListed, Pending
  <2> QED
    BY <2>1, <2>2, <2>3, <2>4, <2>5 DEF JobInv
<1>5. CASE editor # None
  <2>0. /\ editor'.attempt = editor.attempt /\ editor' # None
        /\ editor'.alone = (editor.alone /\ card = server.card)
    <3>1. editor \in Editors /\ editor' = [editor EXCEPT !.alone = @ /\ card = server.card]
      BY <1>0, <1>1, <1>5 DEF EditorTypeOK
    <3>2. editor' \in Editors
      BY <3>1 DEF Editors
    <3> QED
      BY <3>1, <3>2, NoneAssumption DEF Editors
  <2>1. JobsKeepTheirPlace'
    BY <1>0, <1>2, <1>3 DEF JobsKeepTheirPlace
  <2>2. KeysBelong'
    BY <1>0, <1>2, <1>3, <1>5, <2>0 DEF KeysBelong
  <2>3. CommandsFitJob'
    BY <1>0, <1>3 DEF CommandsFitJob
  <2>4. TextIsSaved'
    BY <1>0, <1>2, <1>3, <1>5, <2>0 DEF TextIsSaved
  <2>5. LinksAreListed'
    BY <1>0, <1>2, <1>3 DEF LinksAreListed, Pending
  <2> QED
    BY <2>1, <2>2, <2>3, <2>4, <2>5 DEF JobInv
<1> QED
  BY <1>4, <1>5

-----------------------------------------------------------------------------
(* The theorems *)

LEMMA InitJobs == EditorInit => EditorInv
<1> SUFFICES ASSUME EditorInit PROVE EditorInv
  OBVIOUS
<1>1. EditorTypeOK
  BY InitTyped
<1>2. RevisionsKeepStep
  BY DEF EditorInit, RevisionsKeepStep
<1>3. JobsKeepTheirPlace /\ KeysBelong /\ CommandsFitJob /\ TextIsSaved /\ LinksAreListed
  BY DEF EditorInit, IdleJob, JobsKeepTheirPlace, KeysBelong, CommandsFitJob, TextIsSaved,
         LinksAreListed
<1> QED
  BY <1>1, <1>2, <1>3 DEF EditorInv

LEMMA EditorInvKept == EditorInv /\ [EditorNext]_editorVars => EditorInv'
<1> SUFFICES ASSUME EditorInv, [EditorNext]_editorVars PROVE EditorInv'
  OBVIOUS
<1>0. EditorTypeOK /\ RevisionsKeepStep /\ JobsKeepTheirPlace /\ JobInv
  BY DEF EditorInv, JobInv
<1>1. EditorTypeOK' /\ RevisionsKeepStep'
  BY <1>0, TypesKept
<1>2. CASE Answer
  BY <1>1, <1>2, AnswerKeeps DEF EditorInv, JobInv
<1>3. CASE OthersEdit
  BY <1>1, <1>3, OthersKeep DEF EditorInv, JobInv
<1>4. CASE \/ OpenCard \/ TypeInForm \/ TypeOrSendComment \/ Discard \/ CancelDialog
           \/ Back \/ Leave \/ Reload \/ LosesWorkspace \/ Fails
  BY <1>0, <1>1, <1>4, FormStepsAreQuiet, QuietStepKeeps DEF EditorInv, JobInv
<1>5. CASE AddLink \/ OpenArchive \/ LinkAdded \/ PasteEnds \/ Archived \/ Restored
  BY <1>0, <1>1, <1>5, DialogStepsAreQuiet, QuietStepKeeps DEF EditorInv, JobInv
<1>6. CASE Save
  BY <1>1, <1>6, SaveKeeps DEF EditorInv, JobInv
<1>7. CASE \/ (\E link \in Links : SubmitLink(link) \/ Paste(link))
           \/ SubmitArchive \/ Restore
  BY <1>1, <1>7, StartsKeep DEF EditorInv, JobInv
<1>8. CASE SaveGoesOn
  BY <1>1, <1>8, SaveGoesOnKeeps DEF EditorInv, JobInv
<1>9. CASE UNCHANGED editorVars
  <2>1. JobsKeepTheirPlace' /\ KeysBelong' /\ CommandsFitJob'
    BY <1>0, <1>9 DEF editorVars, JobInv, JobsKeepTheirPlace, KeysBelong, CommandsFitJob
  <2>2. TextIsSaved' /\ LinksAreListed'
    BY <1>0, <1>9 DEF editorVars, JobInv, TextIsSaved, LinksAreListed, Pending
  <2> QED
    BY <1>1, <2>1, <2>2 DEF EditorInv
<1> QED
  BY <1>2, <1>3, <1>4, <1>5, <1>6, <1>7, <1>8, <1>9 DEF EditorNext

LEMMA EditorInvariant == EditorSpec => []EditorInv
<1>1. EditorInit => EditorInv
  BY InitJobs
<1>2. EditorInv /\ [EditorNext]_editorVars => EditorInv'
  BY EditorInvKept
<1> QED
  BY <1>1, <1>2, PTL DEF EditorSpec

\* The editor's variables have their types: a form, dialog or job of the
\* browser is one the code can hold, whatever is dropped, answered late or
\* done by others.
THEOREM EditorTypes == EditorSpec => []EditorTypeOK
<1>1. EditorInv => EditorTypeOK
  BY DEF EditorInv
<1> QED
  BY <1>1, EditorInvariant, PTL

\* A command that was applied and whose answer was lost is not refused when its
\* dialog or pane presents it again: its key is the first attempt's.
THEOREM RetriesAreRecognised == EditorSpec => []RetryIsRecognised
<1>1. EditorInv => RetryIsRecognised
  BY DEF EditorInv, KeysBelong, RetryIsRecognised
<1> QED
  BY <1>1, EditorInvariant, PTL

LEMMA ClosingStep ==
  ASSUME EditorInv, [EditorNext]_editorVars, SaveCloses, job.alone
  PROVE  /\ server.card.text = job.draft.text
         /\ ReadAgain(board') => server.card.links = job.draft.links
<1>0. /\ JobsKeepTheirPlace /\ CommandsFitJob /\ TextIsSaved /\ LinksAreListed
      /\ EditorTypeOK
  BY DEF EditorInv
<1>1. /\ job.kind = "save" /\ job.step = "answered" /\ job'.kind = "idle"
      /\ editor # None /\ editor' = None /\ board' # None
  BY DEF SaveCloses
<1>2. server.card.text = job.draft.text
  BY <1>0, <1>1 DEF TextIsSaved
<1>3. SaveGoesOn
  <2>1. CASE UNCHANGED job
    BY <1>1, <2>1
  <2>2. CASE LosesWorkspace
    BY <1>1, <2>2 DEF LosesWorkspace
  <2>3. CASE Answer
    BY <1>1, <2>3 DEF Answer
  <2>4. CASE Fails
    BY <1>1, <2>4 DEF Fails
  <2>5. CASE \/ Save \/ (\E link \in Links : SubmitLink(link) \/ Paste(link))
             \/ SubmitArchive \/ Restore
    BY <1>1, <2>5 DEF Save, SubmitLink, Paste, SubmitArchive, Restore, CanLink, Idle
  <2>6. CASE LinkAdded \/ PasteEnds \/ Archived \/ Restored
    BY <1>1, <2>6 DEF LinkAdded, PasteEnds, Archived, Restored
  <2>7. CASE OthersEdit
    <3>1. PICK alone : job' = [job EXCEPT !.alone = alone]
      BY <2>7 DEF OthersEdit
    <3> QED
      BY <1>0, <1>1, <3>1 DEF EditorTypeOK, Jobs
  <2> QED
    BY <2>1, <2>2, <2>3, <2>4, <2>5, <2>6, <2>7
       DEF EditorNext, OpenCard, TypeInForm, TypeOrSendComment, AddLink, OpenArchive,
           Discard, CancelDialog, Back, Leave, Reload, editorVars
<1>4. ASSUME ReadAgain(board') PROVE server.card.links = job.draft.links
  <2>1. PICK b \in Refreshed :
          /\ board' = b
          /\ \/ job' = IdleJob /\ StaysAsItIs
             \/ /\ job.command.kind = "update"
                /\ Reconcile(b, Detaches(b, job.draft), job.draft.links)
             \/ /\ job.command.kind # "update"
                /\ Reconcile(b, job.detach, job.attach)
    BY <1>3, GoesOnSteps
  <2>2. ~StaysAsItIs
    BY <1>1 DEF StaysAsItIs
  <2>3. /\ b = job.answer => b.card = server.card
        /\ server.card.links \in SUBSET Links /\ job.draft.links \in SUBSET Links
    BY <1>0, <1>1 DEF TextIsSaved, EditorTypeOK, Boards, Cards, JobsKeepTheirPlace, Forms
  <2>4. CASE /\ job.command.kind = "update"
             /\ Reconcile(b, b.card.links \ job.draft.links, job.draft.links)
    <3>1. b.card.links \ job.draft.links = {} /\ job.draft.links \ b.card.links = {}
      BY <2>2, <2>4, ReconcileSteps
    <3>2. b.card = server.card
      BY <1>4, <2>1, <2>3, <2>4 DEF ReadAgain
    <3> QED
      BY <2>3, <3>1, <3>2
  <2>5. CASE job.command.kind # "update" /\ Reconcile(b, job.detach, job.attach)
    <3>1. job.detach = {} /\ job.attach \ b.card.links = {}
      BY <2>2, <2>5, ReconcileSteps
    <3>2. job.key = 0 /\ job.fresh
      BY <1>0, <1>1, <1>4, <2>5 DEF CommandsFitJob, ReadAgain
    <3>3. /\ server.card.links \ job.draft.links \subseteq job.detach
          /\ job.draft.links \ server.card.links \subseteq job.attach
          /\ board.card.links \cap job.draft.links \subseteq server.card.links
      BY <1>0, <1>1, <3>2 DEF LinksAreListed, Pending
    <3>4. b.card.links \cap job.draft.links \subseteq server.card.links
      BY <2>1, <2>3, <3>3 DEF Refreshed
    <3> QED
      BY <2>3, <3>1, <3>3, <3>4
  <2> QED
    BY <2>1, <2>2, <2>4, <2>5 DEF Detaches
<1> QED
  BY <1>2, <1>4

\* A save that closes its form has left the server's card as the form showed
\* it, over lost answers, retries and link changes worked off against a board that
\* could not be read again, unless somebody else changed the card; the links only
\* if the board was read again after item.update.
THEOREM SavesArriveWhole == EditorSpec => SavedAsShown
<1>1. EditorInv /\ [EditorNext]_editorVars =>
        [SaveCloses /\ job.alone =>
           /\ server.card.text = job.draft.text
           /\ ReadAgain(board') => server.card.links = job.draft.links]_editorVars
  BY ClosingStep
<1> QED
  BY <1>1, EditorInvariant, PTL DEF EditorSpec, SavedAsShown

LEMMA ReturnStep ==
  ASSUME EditorInv, [EditorNext]_editorVars,
         Carried # None, Carried' = None, board' # None, ~board'.card.archived
  PROVE  /\ editor' # None
         /\ editor'.form.text = Carried.text
         /\ Carried.links \subseteq editor'.form.links
<1>0. EditorTypeOK /\ JobsKeepTheirPlace
  BY DEF EditorInv
<1>1. ASSUME NEW b \in Boards, ~b.card.archived, NEW draft \in Forms,
             NEW previous \in SUBSET Links, ReturnToCard(b, draft, previous)
      PROVE  /\ editor' # None /\ editor'.form.text = draft.text
             /\ draft.links \subseteq editor'.form.links
  <2> DEFINE form == [draft EXCEPT !.links = @ \cup (b.card.links \ previous)]
  <2>1. form \in Forms /\ form.text = draft.text /\ draft.links \subseteq form.links
    <3>1. form \in Forms
      BY FormsTyped
    <3>2. form.text = draft.text
      BY DEF Forms
    <3>3. form.links = draft.links \cup (b.card.links \ previous)
      BY DEF Forms
    <3> QED
      BY <3>1, <3>2, <3>3
  <2>2. Opens(b, form)
    BY <1>1, NoneAssumption DEF ReturnToCard
  <2> HIDE DEF form
  <2>3. editor' \in Editors /\ editor'.form = form
    BY <1>0, <2>1, <2>2, OpensTyped
  <2> QED
    BY <2>1, <2>3, NoneAssumption
<1>2. CASE over # None /\ over.kind = "link"
  <2>1. /\ Carried = over.draft /\ over.draft \in Forms /\ over.previous \in SUBSET Links
    BY <1>0, <1>2 DEF Carried, EditorTypeOK, Dialogs
  <2>2. over' # over
    BY <1>2, <2>1 DEF Carried
  <2>3. CASE LinkAdded
    <3>1. PICK b \in Refreshed : board' = b /\ ReturnToCard(b, over.draft, over.previous)
      BY <1>2, <2>3 DEF LinkAdded
    <3>2. b \in Boards
      BY <1>0, <2>3, RefreshedTyped DEF LinkAdded
    <3> QED
      BY <1>1, <2>1, <3>1, <3>2
  <2>4. CASE CancelDialog
    <3>1. ReturnToCard(board, over.draft, over.previous) /\ board' = board
      BY <1>2, <2>4 DEF CancelDialog
    <3>2. board \in Boards
      BY <1>0, <3>1 DEF EditorTypeOK
    <3> QED
      BY <1>1, <2>1, <3>1, <3>2
  <2>5. CASE LosesWorkspace
    BY <2>5 DEF LosesWorkspace
  <2>6. CASE \E link \in Links : SubmitLink(link)
    <3>1. over' # None /\ over'.kind = over.kind /\ over'.draft = over.draft
      <4>1. over \in Dialogs /\ EditorTypeOK'
        BY <1>0, <1>2, <2>6, StartsTyped DEF EditorTypeOK
      <4>2. PICK attempt : over' = [over EXCEPT !.attempt = attempt]
        BY <2>6 DEF SubmitLink
      <4>3. over'.kind = over.kind /\ over'.draft = over.draft
        BY <4>1, <4>2 DEF Dialogs
      <4>4. over' # None
        <5>1. KeysBelong' /\ CommandsFitJob'
          BY <2>6, StartsKeep DEF JobInv
        <5>2. job'.kind = "link" /\ job'.step = "posted"
          BY <2>6 DEF SubmitLink, IdleJob
        <5> QED
          BY <5>1, <5>2 DEF KeysBelong, CommandsFitJob
      <4> QED
        BY <4>3, <4>4
    <3> QED
      BY <1>2, <2>1, <3>1 DEF Carried
  <2>7. CASE SubmitArchive
    BY <1>2, <2>7 DEF SubmitArchive
  <2>8. CASE Archived \/ Restored
    BY <1>0, <1>2, <2>8 DEF Archived, Restored, JobsKeepTheirPlace
  <2>9. CASE AddLink \/ OpenArchive
    BY <1>2, <2>9 DEF AddLink, OpenArchive, CanLink
  <2> QED
    BY <2>2, <2>3, <2>4, <2>5, <2>6, <2>7, <2>8, <2>9
       DEF EditorNext, OpenCard, TypeInForm, TypeOrSendComment, Answer, Save, SaveGoesOn,
           Fails, Paste, PasteEnds, Restore, Discard, Back, Leave, Reload, OthersEdit,
           editorVars
<1>3. CASE ~(over # None /\ over.kind = "link") /\ job.kind = "paste"
  <2>1. /\ Carried = job.draft /\ job.draft \in Forms /\ job.previous \in SUBSET Links
        /\ over = None
    BY <1>0, <1>3 DEF Carried, JobsKeepTheirPlace, EditorTypeOK, Jobs
  <2>2. ~(over' = None /\ job'.kind = "paste" /\ job'.draft = job.draft)
    BY <2>1 DEF Carried
  <2>3. CASE PasteEnds
    <3>1. CASE job.step = "answered"
      <4>1. PICK b \in Refreshed : board' = b /\ ReturnToCard(b, job.draft, job.previous)
        BY <2>3, <3>1 DEF PasteEnds
      <4>2. b \in Boards
        BY <1>0, <3>1, RefreshedTyped
      <4> QED
        BY <1>1, <2>1, <4>1, <4>2
    <3>2. CASE job.step # "answered"
      <4>1. ReturnToCard(board, job.draft, board.card.links) /\ board' = board
        BY <2>3, <3>2 DEF PasteEnds
      <4>2. board \in Boards /\ board.card.links \in SUBSET Links
        BY <1>0, <4>1 DEF EditorTypeOK, Boards, Cards
      <4> QED
        BY <1>1, <2>1, <4>1, <4>2
    <3> QED
      BY <3>1, <3>2
  <2>4. CASE LosesWorkspace
    BY <2>4 DEF LosesWorkspace
  <2>5. CASE Answer
    BY <1>3, <2>1, <2>2, <2>5, AnswerSteps DEF JobKept
  <2>6. CASE OthersEdit
    <3>1. PICK alone : job' = [job EXCEPT !.alone = alone]
      BY <2>6 DEF OthersEdit
    <3>2. job \in Jobs
      BY <1>0 DEF EditorTypeOK
    <3>3. job'.kind = job.kind /\ job'.draft = job.draft
      BY <3>1, <3>2 DEF Jobs
    <3> QED
      BY <1>3, <2>1, <2>2, <2>6, <3>3 DEF OthersEdit
  <2>7. CASE UNCHANGED job /\ UNCHANGED over
    BY <1>3, <2>1, <2>2, <2>7
  <2>8. CASE \/ Save \/ (\E link \in Links : SubmitLink(link) \/ Paste(link))
             \/ SubmitArchive \/ Restore \/ AddLink \/ OpenArchive
    BY <1>3, <2>8 DEF Save, SubmitLink, Paste, SubmitArchive, Restore, CanLink, Idle,
       AddLink, OpenArchive
  <2>9. CASE SaveGoesOn \/ Fails \/ LinkAdded \/ Archived \/ Restored \/ CancelDialog
    BY <1>3, <2>1, <2>9 DEF SaveGoesOn, Fails, LinkAdded, Archived, Restored, CancelDialog
  <2> QED
    BY <2>3, <2>4, <2>5, <2>6, <2>7, <2>8, <2>9
       DEF EditorNext, OpenCard, TypeInForm, TypeOrSendComment, Discard, Back, Leave,
           Reload, editorVars
<1> QED
  BY <1>2, <1>3 DEF Carried

\* A link operation brings its card back with the input it was started with,
\* unless the workspace or the card is no longer there.
THEOREM LinkInputReturns == EditorSpec => LinksBringInputBack
<1>1. EditorInv /\ [EditorNext]_editorVars =>
        [Carried # None /\ Carried' = None /\ board' # None /\ ~board'.card.archived =>
           /\ editor' # None
           /\ editor'.form.text = Carried.text
           /\ Carried.links \subseteq editor'.form.links]_editorVars
  BY ReturnStep
<1> QED
  BY <1>1, EditorInvariant, PTL DEF EditorSpec, LinksBringInputBack

=============================================================================
