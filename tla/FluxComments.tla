---------------------------- MODULE FluxComments ----------------------------
(***************************************************************************)
(* The comments of one card (item-comments.js): pages read from the        *)
(* newest, older pages put in front, a composer that retries under the key *)
(* of the last attempt as long as the text is the same.  A body is one of  *)
(* a few texts, 0 for none; a comment's id is its place in the server's    *)
(* list.                                                                   *)
(***************************************************************************)
EXTENDS Naturals, Sequences, FiniteSets

CONSTANTS
  PageLimit,    \* COMMENT_PAGE_LIMIT
  MaxComments,  \* bound on the comments stored
  MaxTexts,     \* the different texts the user types
  MaxSends,     \* bound on the attempts, each with a key of its own
  MaxPanels,    \* bound on the times the panel is opened
  NoPage        \* undefined data

ASSUME CommentsAssumption ==
  PageLimit \in Nat \ {0} /\ MaxComments \in Nat /\ MaxTexts \in Nat
  /\ MaxSends \in Nat /\ MaxPanels \in Nat

VARIABLES
  stored,  \* the server's comments of the card: body 0 is somebody else's
  panel,   \* ItemComments: the reducer's state, the dependencies, the composer
  read,    \* the request of useRequest
  write,   \* the task of useMutation
  issued,  \* keys issued, panels opened so far
  since    \* since the panel was opened: whether a read failed, the attempts
           \* acknowledged, and all in their order, each once however often
           \* it is repeated; Answered follows one that was acknowledged

commentVars == <<stored, panel, read, write, issued, since>>

CommentIds == 1..MaxComments
Pages == [ids : Seq(CommentIds), next : 0..MaxComments]
PageOrNone == {NoPage} \cup Pages
Comments == [body : 0..MaxTexts, key : Nat]
Nothing == [body |-> 0, key |-> 0]  \* no attempt; stored, somebody else's comment
Answered == Nothing
Panels == [open : BOOLEAN, shown : Seq(CommentIds), next : 0..MaxComments,
           olderDisabled : BOOLEAN, draft : 0..MaxTexts, attempt : Comments,
           before : 0..MaxComments, data : PageOrNone, error : BOOLEAN]

\* What is no page is not a page.
ASSUME NoPageAssumption == NoPage \notin Pages

ClosedPanel == [open |-> FALSE, shown |-> <<>>, next |-> 0, olderDisabled |-> TRUE,
                draft |-> 0, attempt |-> Nothing,
                before |-> 0, data |-> NoPage, error |-> FALSE]
IdleRead == [stage |-> "idle", page |-> NoPage]
IdleWrite == [stage |-> "idle", body |-> 0, key |-> 0]
NothingYet == [failed |-> FALSE, acknowledged |-> {}, sent |-> <<>>]

CommentsTypeOK ==
  /\ stored \in Seq(Comments) /\ Len(stored) <= MaxComments
  /\ panel \in Panels
  /\ read \in [stage : {"idle", "asked", "answered", "failed"}, page : PageOrNone]
  /\ write \in [stage : {"idle", "sent", "stored", "failed"},
                body : 0..MaxTexts, key : Nat]
  /\ issued \in [keys : Nat, panels : 0..MaxPanels]
  /\ since \in [failed : BOOLEAN, acknowledged : SUBSET Comments, sent : Seq(Comments)]

CommentsInit ==
  /\ stored \in {[i \in 1..n |-> Nothing] : n \in 0..MaxComments}
  /\ panel = ClosedPanel /\ read = IdleRead /\ write = IdleWrite
  /\ issued = [keys |-> 0, panels |-> 0]
  /\ since = NothingYet

-----------------------------------------------------------------------------
\* The newest comments older than `before', oldest first (0: no limit), and
\* where the next page goes on: 0 when there is none.
PageOf(before) ==
  LET newest == IF before = 0 THEN Len(stored) ELSE before - 1
      oldest == IF newest > PageLimit THEN newest - PageLimit + 1 ELSE 1
  IN [ids |-> [i \in 1..(newest + 1 - oldest) |-> oldest + i - 1],
      next |-> IF oldest > 1 THEN oldest ELSE 0]

\* commentsReducer, `loaded'.
Loaded(p, page) ==
  [p EXCEPT !.shown = IF p.before > 0 THEN page.ids \o p.shown ELSE page.ids,
            !.next = page.next, !.olderDisabled = FALSE]

\* The effect on [page.data, page.error]: kept data is dispatched again
\* whenever the error comes or goes.
Dispatched(p) ==
  IF p.data # NoPage THEN Loaded(p, p.data)
  ELSE IF p.error THEN [p EXCEPT !.olderDisabled = FALSE] ELSE p

\* A change of before or reload: useRequest aborts the read and starts anew,
\* `loading' is dispatched, and an error that goes runs the effect after it.
Restarted(p) ==
  LET loading == [p EXCEPT !.olderDisabled = TRUE, !.error = FALSE]
  IN IF p.error THEN Dispatched(loading) ELSE loading
StartRead(p) == panel' = Restarted(p) /\ read' = [IdleRead EXCEPT !.stage = "asked"]

-----------------------------------------------------------------------------
OpenComments ==
  /\ ~panel.open /\ issued.panels < MaxPanels
  /\ StartRead([ClosedPanel EXCEPT !.open = TRUE])
  /\ issued' = [issued EXCEPT !.panels = @ + 1]
  /\ since' = NothingYet
  /\ UNCHANGED <<stored, write>>

\* Unmounting aborts the read and the write.
CloseComments ==
  /\ panel.open
  /\ panel' = ClosedPanel /\ read' = IdleRead /\ write' = IdleWrite
  /\ UNCHANGED <<stored, issued, since>>

AnswerRead ==
  /\ read.stage = "asked"
  /\ \/ read' = [stage |-> "answered", page |-> PageOf(panel.before)]
     \/ read' = [read EXCEPT !.stage = "failed"]
  /\ UNCHANGED <<stored, panel, write, issued, since>>

ReceivePage ==
  /\ read.stage = "answered"
  /\ panel' = Dispatched([panel EXCEPT !.data = read.page, !.error = FALSE])
  /\ read' = IdleRead
  /\ UNCHANGED <<stored, write, issued, since>>

\* A failed read keeps the data of the page before.
ReadFails ==
  /\ read.stage = "failed"
  /\ panel' = Dispatched([panel EXCEPT !.error = TRUE])
  /\ read' = IdleRead
  /\ since' = [since EXCEPT !.failed = TRUE]
  /\ UNCHANGED <<stored, write, issued>>

\* Setting `before' to the value it has starts no request.
LoadOlder ==
  /\ panel.open /\ panel.next # 0 /\ ~panel.olderDisabled /\ write.stage = "idle"
  /\ panel.next # panel.before
  /\ StartRead([panel EXCEPT !.before = panel.next])
  /\ UNCHANGED <<stored, write, issued, since>>

\* The composer stays editable while a comment is sent, and takes a text that
\* was typed before, or none.
TypeComment ==
  /\ panel.open
  /\ \E text \in 0..MaxTexts : panel' = [panel EXCEPT !.draft = text]
  /\ UNCHANGED <<stored, read, write, issued, since>>

\* A bug: every attempt draws a key.
FreshKeyEachAttempt(body) == [body |-> body, key |-> issued.keys + 1]

\* The attempt a body is sent under: the last one, until it is answered, if it
\* was made for the same body.
AttemptFor(body) ==
  IF panel.attempt.body = body THEN panel.attempt
  ELSE [body |-> body, key |-> issued.keys + 1]
AddComment ==
  /\ panel.open /\ panel.draft # 0 /\ write.stage = "idle"
  /\ LET attempt == AttemptFor(panel.draft)
     IN /\ attempt.key <= MaxSends
        /\ panel' = [panel EXCEPT !.attempt = attempt]
        /\ write' = [stage |-> "sent", body |-> attempt.body, key |-> attempt.key]
        /\ IF since.sent # <<>> /\ since.sent[Len(since.sent)] = attempt
           THEN UNCHANGED <<issued, since>>
           ELSE /\ issued' = [issued EXCEPT !.keys = attempt.key]
                /\ since' = [since EXCEPT !.sent = Append(@, attempt)]
  /\ UNCHANGED <<stored, read>>

\* The server stores a comment once per key, and refuses another body under
\* it; the answer may be lost, before or after it did.
CanStore(comment) ==
  Len(stored) < MaxComments /\ \A i \in DOMAIN stored : stored[i].key # comment.key
Comment == [body |-> write.body, key |-> write.key]
AnswerWrite ==
  /\ write.stage = "sent"
  /\ \/ /\ \/ CanStore(Comment) /\ stored' = Append(stored, Comment)
           \/ (\E i \in DOMAIN stored : stored[i] = Comment) /\ UNCHANGED stored
        /\ write' \in {[write EXCEPT !.stage = s] : s \in {"stored", "failed"}}
     \/ UNCHANGED stored /\ write' = [write EXCEPT !.stage = "failed"]
  /\ UNCHANGED <<panel, read, issued, since>>

\* A request whose answer was lost, or that was aborted, reaches the server
\* late.  (Once the panel is opened anew it sees somebody's comment in it.)
StoreLate ==
  /\ \E n \in DOMAIN since.sent :
       /\ since.sent[n] # Answered /\ CanStore(since.sent[n])
       /\ stored' = Append(stored, since.sent[n])
  /\ UNCHANGED <<panel, read, write, issued, since>>

\* A bug: the newest page is not asked for again.
CommentAddedKeepsBefore ==
  /\ write.stage = "stored"
  /\ StartRead([panel EXCEPT !.attempt = Nothing, !.draft = 0])
  /\ write' = IdleWrite
  /\ since' = [since EXCEPT !.acknowledged = @ \cup {Comment},
                            !.sent = Append(@, Answered)]
  /\ UNCHANGED <<stored, issued>>

\* A stored comment clears the composer, whatever it holds by now, and the
\* newest page is read again.
CommentAdded ==
  /\ write.stage = "stored"
  /\ StartRead([panel EXCEPT !.attempt = Nothing, !.draft = 0,
                             !.before = 0])
  /\ write' = IdleWrite
  /\ since' = [since EXCEPT !.acknowledged = @ \cup {Comment},
                            !.sent = Append(@, Answered)]
  /\ UNCHANGED <<stored, issued>>
CommentFails ==
  /\ write.stage = "failed"
  /\ write' = IdleWrite
  /\ UNCHANGED <<stored, panel, read, issued, since>>

OthersComment ==
  /\ Len(stored) < MaxComments
  /\ stored' = Append(stored, Nothing)
  /\ UNCHANGED <<panel, read, write, issued, since>>

CommentsNext ==
  \/ OpenComments \/ CloseComments \/ AnswerRead \/ ReceivePage \/ ReadFails
  \/ LoadOlder \/ TypeComment \/ AddComment \/ AnswerWrite \/ StoreLate
  \/ CommentAdded \/ CommentFails \/ OthersComment

CommentsSpec == CommentsInit /\ [][CommentsNext]_commentVars

-----------------------------------------------------------------------------
\* Pressing Add comment for the same text again and again stores one comment,
\* whichever of the requests is lost, late or answered, as long as no other text
\* is sent and no answer received between: then, and only then, a second comment
\* of that text may be stored (addComment remembers the last attempt alone).  What
\* the panel saw acknowledged is stored, with the text that was sent.
SameText(n, m) == \A k \in n..m : since.sent[k].body = since.sent[n].body
StoredOnce ==
  /\ \A n, m \in DOMAIN since.sent :
       n <= m /\ SameText(n, m) /\ since.sent[n] # Answered =>
         \A i, j \in DOMAIN stored :
           stored[i].key = since.sent[n].key /\ stored[j].key = since.sent[m].key => i = j
  /\ \A comment \in since.acknowledged : \E i \in DOMAIN stored : stored[i] = comment

\* As long as no read has failed, the comments shown are a stretch of the
\* card's comments without repetition or gap, however pages, new comments and
\* other people's comments interleave.  Once nothing is in flight the older
\* ones are offered exactly when there are some, and no comment this panel saw
\* acknowledged is newer than those shown.
CommentsAreContiguous ==
  panel.open /\ ~since.failed =>
    /\ \A i \in DOMAIN panel.shown : panel.shown[i] = panel.shown[1] + i - 1
    /\ read.stage = "idle" =>
         /\ panel.shown # <<>> =>
              panel.next = IF panel.shown[1] = 1 THEN 0 ELSE panel.shown[1]
         /\ \A i \in DOMAIN stored : stored[i] \in since.acknowledged =>
              panel.shown # <<>> /\ i <= panel.shown[Len(panel.shown)]
=============================================================================
