------------------------------ MODULE FluxCard ------------------------------
(***************************************************************************)
(* The dialog of one card: its comments, its attachments and its form,     *)
(* which share nothing but the form's knowledge that a comment is being    *)
(* typed.  A behaviour lets one of the three run.                          *)
(***************************************************************************)
EXTENDS FluxComments, FluxFiles, FluxEditor

VARIABLE part
cardVars == <<part, commentVars, fileVars, editorVars>>

CardInit ==
  /\ part \in {"comments", "files", "form"}
  /\ CommentsInit /\ FilesInit /\ EditorInit

CardNext ==
  \/ part = "comments" /\ CommentsNext /\ UNCHANGED <<part, fileVars, editorVars>>
  \/ part = "files" /\ FilesNext /\ UNCHANGED <<part, commentVars, editorVars>>
  \/ part = "form" /\ EditorNext /\ UNCHANGED <<part, commentVars, fileVars>>

CardSpec == CardInit /\ [][CardNext]_cardVars

\* Every variable of the part that runs has its type.
CardTypeOK ==
  CASE part = "comments" -> CommentsTypeOK
    [] part = "files" -> FilesTypeOK
    [] part = "form" -> EditorTypeOK

\* Nothing the user presses again to send after a lost answer is stored twice: no
\* comment, as long as no other text is sent and no answer received in between
\* (commentAttempt is the last attempt alone); no file on the card it was dropped on
\* (uploadRequestKey).
SentOnce ==
  /\ part = "comments" => StoredOnce
  /\ part = "files" => FilesAttachedOnce

=============================================================================
