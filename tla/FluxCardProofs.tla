--------------------------- MODULE FluxCardProofs ---------------------------
(***************************************************************************)
(* Proofs about the parts of a card's dialog for any number of comments,   *)
(* texts, files and boards: what is sent again is stored once, comments    *)
(* are shown without a gap, a list of files fits the board it stands on.   *)
(***************************************************************************)
EXTENDS FluxCard, FluxEditorProofs, SequenceTheorems, FiniteSetTheorems

-----------------------------------------------------------------------------
(* Comments: the inductive invariant *)

\* A panel that is closed asks and sends nothing.
ClosedIsIdle ==
  ~panel.open => panel = ClosedPanel /\ read = IdleRead /\ write = IdleWrite

\* The last of the attempts, or what stands for an answer to it.
LastSent == IF since.sent = <<>> THEN Nothing ELSE since.sent[Len(since.sent)]

\* Each attempt has a key, and another text than the one before unless that was
\* answered; the panel holds the last one, and sends nothing else.
AttemptsInOrder ==
  /\ \A n \in DOMAIN since.sent :
       /\ since.sent[n] = Answered \/ (since.sent[n].body # 0 /\ since.sent[n].key # 0)
       /\ n + 1 \in DOMAIN since.sent => since.sent[n + 1].body # since.sent[n].body
  /\ panel.open => panel.attempt = LastSent
  /\ write.stage # "idle" => panel.attempt = Comment /\ write.body # 0

\* No key but somebody else's comments' is stored twice.
KeysStoredOnce ==
  \A i, j \in DOMAIN stored : stored[i].key = stored[j].key /\ stored[i].key # 0 => i = j

IsStored(comment) == \E i \in DOMAIN stored : stored[i] = comment

\* What is answered, and what the panel took for answered, is stored.
AcknowledgedIsStored ==
  /\ \A comment \in since.acknowledged : comment.body # 0 /\ IsStored(comment)
  /\ write.stage = "stored" => IsStored(Comment)

\* Numbers without repetition or gap.
Stretch(s) == \A i \in DOMAIN s : s[i] = s[1] + i - 1
\* Where the page before a stretch goes on.
NextOf(s) == IF s = <<>> THEN 0 ELSE IF s[1] = 1 THEN 0 ELSE s[1]
\* No comment acknowledged is newer than those of a stretch.
Covers(s) ==
  \A i \in DOMAIN stored : stored[i] \in since.acknowledged =>
    s # <<>> /\ i <= s[Len(s)]

\* What is shown, and what a page in flight adds to it.
PagesFit ==
  panel.open /\ ~since.failed =>
    /\ ~panel.error /\ Stretch(panel.shown)
    /\ read.stage = "idle" => panel.next = NextOf(panel.shown) /\ Covers(panel.shown)
    /\ read.stage # "idle" =>
         /\ panel.olderDisabled
         /\ panel.before # 0 =>
              /\ panel.shown # <<>> /\ panel.shown[1] = panel.before /\ panel.before > 1
              /\ Covers(panel.shown)
    /\ read.stage = "answered" =>
         /\ read.page # NoPage /\ Stretch(read.page.ids)
         /\ read.page.next = NextOf(read.page.ids)
         /\ panel.before = 0 => Covers(read.page.ids)
         /\ panel.before # 0 =>
              /\ read.page.ids # <<>>
              /\ read.page.ids[Len(read.page.ids)] = panel.before - 1

CommentsInv ==
  /\ CommentsTypeOK /\ ClosedIsIdle /\ AttemptsInOrder /\ KeysStoredOnce
  /\ AcknowledgedIsStored /\ PagesFit

-----------------------------------------------------------------------------
(* Comments: pages and panels *)

\* A page is a stretch that ends where it was asked to and begins where the
\* next one goes on.
LEMMA PagesAreStretches ==
  ASSUME CommentsTypeOK, NEW before \in 0..MaxComments
  PROVE  /\ PageOf(before) \in Pages
         /\ Stretch(PageOf(before).ids)
         /\ PageOf(before).next = NextOf(PageOf(before).ids)
         /\ before > 1 =>
              /\ PageOf(before).ids # <<>>
              /\ PageOf(before).ids[Len(PageOf(before).ids)] = before - 1
         /\ before = 0 /\ Len(stored) > 0 =>
              /\ PageOf(before).ids # <<>>
              /\ PageOf(before).ids[Len(PageOf(before).ids)] = Len(stored)
<1> DEFINE newest == IF before = 0 THEN Len(stored) ELSE before - 1
           oldest == IF newest > PageLimit THEN newest - PageLimit + 1 ELSE 1
           n == newest + 1 - oldest
           ids == [i \in 1..n |-> oldest + i - 1]
<1>1. Len(stored) \in 0..MaxComments /\ MaxComments \in Nat /\ PageLimit \in Nat \ {0}
  BY CommentsAssumption DEF CommentsTypeOK
<1>2. newest \in 0..MaxComments
  BY <1>1
<1>3. oldest \in 1..(newest + 1) /\ (newest > 0 => oldest <= newest)
  <2> HIDE DEF newest
  <2> QED
    BY <1>1, <1>2
<1>4. PageOf(before) = [ids |-> ids, next |-> IF oldest > 1 THEN oldest ELSE 0]
  BY DEF PageOf
<1> HIDE DEF newest, oldest
<1>5. n \in Nat /\ (newest > 0 => n > 0) /\ (newest = 0 => n = 0)
  BY <1>1, <1>2, <1>3
<1>6. \A i \in 1..n : oldest + i - 1 \in CommentIds
  BY <1>1, <1>2, <1>3, <1>5 DEF CommentIds
<1>7. ids \in Seq(CommentIds) /\ Len(ids) = n /\ DOMAIN ids = 1..n
  <2>1. ids \in [1..n -> CommentIds]
    BY <1>6
  <2> HIDE DEF n
  <2>2. ids \in Seq(CommentIds)
    BY <1>5, <2>1, SeqDef
  <2>3. DOMAIN ids = 1..n
    BY <2>1
  <2>4. Len(ids) = n
    BY <1>5, <2>2, <2>3, LenProperties
  <2> QED
    BY <2>2, <2>3, <2>4
<1>8. n > 0 => ids # <<>> /\ ids[1] = oldest /\ ids[n] = newest
  BY <1>1, <1>2, <1>3, <1>5, <1>7
<1>9. n = 0 => ids = <<>> /\ oldest = 1
  <2>1. n = 0 => oldest = 1
    BY <1>1, <1>2, <1>3, <1>5
  <2> HIDE DEF n, ids
  <2> QED
    BY <1>7, <2>1
<1>10. \A i \in 1..n : ids[i] = oldest + i - 1
  OBVIOUS
<1> HIDE DEF n, ids
<1>11. Stretch(ids)
  BY <1>3, <1>5, <1>7, <1>8, <1>10 DEF Stretch
<1>12. (IF oldest > 1 THEN oldest ELSE 0) = NextOf(ids)
  BY <1>2, <1>3, <1>5, <1>8, <1>9, <1>1 DEF NextOf
<1>13. PageOf(before) \in Pages
  <2>1. (IF oldest > 1 THEN oldest ELSE 0) \in 0..MaxComments
    BY <1>1, <1>2, <1>3
  <2> QED
    BY <1>4, <1>7, <2>1 DEF Pages
<1>14. before > 1 => newest > 0 /\ newest = before - 1
  BY <1>1 DEF newest
<1>15. before = 0 => newest = Len(stored)
  BY DEF newest
<1> QED
  BY <1>4, <1>5, <1>7, <1>8, <1>11, <1>12, <1>13, <1>14, <1>15

LEMMA LoadedTyped ==
  ASSUME NEW p \in Panels, NEW page \in Pages
  PROVE  Loaded(p, page) \in Panels
<1>1. p.shown \in Seq(CommentIds) /\ page.ids \in Seq(CommentIds)
      /\ page.next \in 0..MaxComments
  BY DEF Panels, Pages
<1>2. (IF p.before > 0 THEN page.ids \o p.shown ELSE page.ids) \in Seq(CommentIds)
  BY <1>1
<1> QED
  BY <1>1, <1>2, Zenon DEF Loaded, Panels

LEMMA DispatchedTyped ==
  ASSUME NEW p \in Panels
  PROVE  Dispatched(p) \in Panels
<1>1. CASE p.data # NoPage
  <2>1. p.data \in Pages
    BY <1>1 DEF Panels, PageOrNone
  <2> QED
    BY <1>1, <2>1, LoadedTyped DEF Dispatched
<1>2. CASE p.data = NoPage
  <2>1. [p EXCEPT !.olderDisabled = FALSE] \in Panels
    BY Zenon DEF Panels
  <2> QED
    BY <1>2, <2>1 DEF Dispatched
<1> QED
  BY <1>1, <1>2

LEMMA RestartedTyped ==
  ASSUME NEW p \in Panels
  PROVE  Restarted(p) \in Panels
<1>1. [p EXCEPT !.olderDisabled = TRUE, !.error = FALSE] \in Panels
  BY Zenon DEF Panels
<1> QED
  BY <1>1, DispatchedTyped DEF Restarted

LEMMA ClosedTyped ==
  /\ ClosedPanel \in Panels /\ [ClosedPanel EXCEPT !.open = TRUE] \in Panels
  /\ IdleRead \in [stage : {"idle", "asked", "answered", "failed"}, page : PageOrNone]
  /\ IdleWrite \in [stage : {"idle", "sent", "stored", "failed"},
                    body : 0..MaxTexts, key : Nat]
  /\ Nothing \in Comments
<1>1. 0 \in 0..MaxComments /\ 0 \in 0..MaxTexts /\ 0 \in Nat /\ <<>> \in Seq(CommentIds)
  BY CommentsAssumption
<1>2. NoPage \in PageOrNone /\ Nothing \in Comments
  BY <1>1 DEF PageOrNone, Comments, Nothing
<1>3. ClosedPanel \in Panels
  BY <1>1, <1>2, Zenon DEF ClosedPanel, Panels
<1>4. [ClosedPanel EXCEPT !.open = TRUE] \in Panels
  BY <1>3, Zenon DEF Panels
<1> QED
  BY <1>1, <1>2, <1>3, <1>4 DEF IdleRead, IdleWrite

\* A comment the server stores goes to the end.
LEMMA StoredTyped ==
  ASSUME CommentsTypeOK, NEW comment \in Comments, Len(stored) < MaxComments,
         stored' = Append(stored, comment)
  PROVE  /\ stored' \in Seq(Comments) /\ Len(stored') <= MaxComments
         /\ DOMAIN stored' = DOMAIN stored \cup {Len(stored) + 1}
         /\ DOMAIN stored = 1..Len(stored) /\ Len(stored) \in Nat
         /\ \A i \in DOMAIN stored : stored'[i] = stored[i]
         /\ stored'[Len(stored) + 1] = comment
<1>1. stored \in Seq(Comments) /\ Len(stored) \in Nat /\ MaxComments \in Nat
  BY CommentsAssumption DEF CommentsTypeOK
<1>2. stored' \in Seq(Comments) /\ Len(stored') = Len(stored) + 1
  BY <1>1, AppendProperties
<1>3. \A i \in 1..Len(stored) : stored'[i] = stored[i]
  BY <1>1, AppendProperties
<1>4. DOMAIN stored = 1..Len(stored) /\ DOMAIN stored' = 1..(Len(stored) + 1)
  BY <1>1, <1>2
<1>5. stored'[Len(stored) + 1] = comment
  BY <1>1, AppendProperties
<1> QED
  BY <1>1, <1>2, <1>3, <1>4, <1>5

\* A step's starting of a read.
LEMMA StartReadTyped ==
  ASSUME NEW p \in Panels, StartRead(p)
  PROVE  /\ panel' \in Panels
         /\ read' \in [stage : {"idle", "asked", "answered", "failed"}, page : PageOrNone]
         /\ read'.stage = "asked"
<1>1. panel' \in Panels
  BY RestartedTyped DEF StartRead
<1>2. [IdleRead EXCEPT !.stage = "asked"]
        \in [stage : {"idle", "asked", "answered", "failed"}, page : PageOrNone]
  BY ClosedTyped
<1>3. [IdleRead EXCEPT !.stage = "asked"].stage = "asked"
  BY DEF IdleRead
<1> QED
  BY <1>1, <1>2, <1>3 DEF StartRead

\* The attempt of a body.
LEMMA AttemptForTyped ==
  ASSUME CommentsTypeOK, NEW body \in 0..MaxTexts
  PROVE  AttemptFor(body) \in Comments /\ AttemptFor(body).body = body
<1>1. panel.attempt \in Comments /\ issued.keys + 1 \in Nat
  BY DEF CommentsTypeOK, Panels
<1> QED
  BY <1>1 DEF AttemptFor, Comments

\* Every step keeps the types.
LEMMA CommentsTypesKept ==
  ASSUME CommentsTypeOK, ClosedIsIdle, [CommentsNext]_commentVars
  PROVE  CommentsTypeOK'
<1> DEFINE Read == [stage : {"idle", "asked", "answered", "failed"}, page : PageOrNone]
           Write == [stage : {"idle", "sent", "stored", "failed"}, body : 0..MaxTexts, key : Nat]
           Issued == [keys : Nat, panels : 0..MaxPanels]
           Since == [failed : BOOLEAN, acknowledged : SUBSET Comments, sent : Seq(Comments)]
<1>0. /\ panel \in Panels /\ read \in Read /\ write \in Write /\ MaxTexts \in Nat
      /\ issued \in Issued /\ issued.keys \in Nat /\ issued.panels \in 0..MaxPanels
      /\ MaxPanels \in Nat /\ write.body \in 0..MaxTexts /\ write.key \in Nat
      /\ Comment \in Comments /\ panel.attempt \in Comments
      /\ since \in Since /\ since.sent \in Seq(Comments)
      /\ since.acknowledged \in SUBSET Comments
  BY CommentsAssumption DEF CommentsTypeOK, Comments, Comment, Panels
<1>1. CASE OpenComments
  <2>1. panel' \in Panels /\ read' \in Read
    BY <1>1, ClosedTyped, StartReadTyped DEF OpenComments
  <2>2. issued' \in Issued
    BY <1>0, <1>1, SMTT(30) DEF OpenComments
  <2>3. NothingYet \in Since
    BY DEF NothingYet
  <2> QED
    BY <1>1, <2>1, <2>2, <2>3 DEF OpenComments, CommentsTypeOK
<1>2. CASE CloseComments
  BY <1>2, ClosedTyped DEF CloseComments, CommentsTypeOK
<1>3. CASE AnswerRead
  <2>1. panel.before \in 0..MaxComments
    BY <1>0 DEF Panels
  <2>2. PageOf(panel.before) \in PageOrNone
    BY <2>1, PagesAreStretches DEF PageOrNone
  <2>3. read' \in Read
    BY <1>0, <1>3, <2>2 DEF AnswerRead
  <2> QED
    BY <1>3, <2>3 DEF AnswerRead, CommentsTypeOK
<1>4. CASE ReceivePage
  <2>1. [panel EXCEPT !.data = read.page, !.error = FALSE] \in Panels
    <3>1. read.page \in PageOrNone
      BY <1>0
    <3> QED
      BY <1>0, <3>1, Zenon DEF Panels
  <2>2. panel' \in Panels
    BY <1>4, <2>1, DispatchedTyped DEF ReceivePage
  <2> QED
    BY <1>4, <2>2, ClosedTyped DEF ReceivePage, CommentsTypeOK
<1>5. CASE ReadFails
  <2>1. [panel EXCEPT !.error = TRUE] \in Panels
    BY <1>0, Zenon DEF Panels
  <2>2. panel' \in Panels
    BY <1>5, <2>1, DispatchedTyped DEF ReadFails
  <2>3. since' \in Since
    BY <1>0, <1>5 DEF ReadFails
  <2> QED
    BY <1>5, <2>2, <2>3, ClosedTyped DEF ReadFails, CommentsTypeOK
<1>6. CASE LoadOlder
  <2>1. [panel EXCEPT !.before = panel.next] \in Panels
    <3>1. panel.next \in 0..MaxComments
      BY <1>0 DEF Panels
    <3> QED
      BY <1>0, <3>1, Zenon DEF Panels
  <2>2. panel' \in Panels /\ read' \in Read
    BY <1>6, <2>1, StartReadTyped DEF LoadOlder
  <2> QED
    BY <1>6, <2>2 DEF LoadOlder, CommentsTypeOK
<1>7. CASE TypeComment
  <2>1. PICK text \in 0..MaxTexts : panel' = [panel EXCEPT !.draft = text]
    BY <1>7 DEF TypeComment
  <2>2. panel' \in Panels
    BY <1>0, <2>1, Zenon DEF Panels
  <2> QED
    BY <1>7, <2>2 DEF TypeComment, CommentsTypeOK
<1>8. CASE AddComment
  <2>1. panel.draft \in 0..MaxTexts
    BY <1>0 DEF Panels
  <2>2. PICK attempt \in Comments :
          /\ panel' = [panel EXCEPT !.attempt = attempt]
          /\ write' = [stage |-> "sent", body |-> attempt.body, key |-> attempt.key]
          /\ \/ UNCHANGED <<issued, since>>
             \/ /\ issued' = [issued EXCEPT !.keys = attempt.key]
                /\ since' = [since EXCEPT !.sent = Append(since.sent, attempt)]
    BY <1>8, <2>1, AttemptForTyped DEF AddComment
  <2>3. panel' \in Panels
    BY <1>0, <2>2, Zenon DEF Panels
  <2>4. attempt.body \in 0..MaxTexts /\ attempt.key \in Nat
        /\ Append(since.sent, attempt) \in Seq(Comments)
    BY <1>0, <2>2, AppendProperties DEF Comments
  <2>5. write' \in Write /\ issued' \in Issued
    BY <1>0, <2>2, <2>4
  <2>6. since' \in Since
    BY <1>0, <2>2, <2>4
  <2> QED
    BY <1>8, <2>3, <2>5, <2>6 DEF AddComment, CommentsTypeOK
<1>9. CASE AnswerWrite
  <2>1. write' \in Write
    BY <1>0, <1>9 DEF AnswerWrite
  <2>2. stored' \in Seq(Comments) /\ Len(stored') <= MaxComments
    <3>1. CASE stored' = stored
      BY <3>1 DEF CommentsTypeOK
    <3>2. CASE stored' # stored
      <4>1. stored' = Append(stored, Comment) /\ Len(stored) < MaxComments
        BY <1>9, <3>2 DEF AnswerWrite, CanStore
      <4> QED
        BY <1>0, <4>1, StoredTyped
    <3> QED
      BY <3>1, <3>2
  <2> QED
    BY <1>9, <2>1, <2>2 DEF AnswerWrite, CommentsTypeOK
<1>14. CASE StoreLate
  <2>1. PICK n \in DOMAIN since.sent : CanStore(since.sent[n])
                                      /\ stored' = Append(stored, since.sent[n])
    BY <1>14 DEF StoreLate
  <2>2. since.sent[n] \in Comments
    BY <1>0, ElementOfSeq
  <2>3. stored' \in Seq(Comments) /\ Len(stored') <= MaxComments
    BY <2>1, <2>2, StoredTyped DEF CanStore
  <2> QED
    BY <1>14, <2>3 DEF StoreLate, CommentsTypeOK
<1>10. CASE CommentAdded
  <2>1. [panel EXCEPT !.attempt = Nothing, !.draft = 0, !.before = 0] \in Panels
    <3>1. 0 \in 0..MaxComments /\ 0 \in 0..MaxTexts /\ Nothing \in Comments
      BY CommentsAssumption, ClosedTyped
    <3> QED
      BY <1>0, <3>1, Zenon DEF Panels
  <2>2. panel' \in Panels /\ read' \in Read
    BY <1>10, <2>1, StartReadTyped DEF CommentAdded
  <2>3. since' \in Since
    <3>1. Append(since.sent, Answered) \in Seq(Comments)
      BY <1>0, ClosedTyped, AppendProperties DEF Answered
    <3>2. since.acknowledged \cup {Comment} \in SUBSET Comments
      BY <1>0
    <3>3. since' = [since EXCEPT !.acknowledged = since.acknowledged \cup {Comment},
                                 !.sent = Append(since.sent, Answered)]
      BY <1>10 DEF CommentAdded
    <3> QED
      BY <1>0, <3>1, <3>2, <3>3, Zenon
  <2> QED
    BY <1>10, <2>2, <2>3, ClosedTyped DEF CommentAdded, CommentsTypeOK
<1>11. CASE CommentFails
  BY <1>11, ClosedTyped DEF CommentFails, CommentsTypeOK
<1>12. CASE OthersComment
  <2>1. stored' \in Seq(Comments) /\ Len(stored') <= MaxComments
    BY <1>12, ClosedTyped, StoredTyped DEF OthersComment
  <2> QED
    BY <1>12, <2>1 DEF OthersComment, CommentsTypeOK
<1>13. CASE UNCHANGED commentVars
  BY <1>13 DEF commentVars, CommentsTypeOK
<1> QED
  BY <1>1, <1>2, <1>3, <1>4, <1>5, <1>6, <1>7, <1>8, <1>9, <1>10, <1>11, <1>12, <1>13,
     <1>14 DEF CommentsNext

-----------------------------------------------------------------------------
(* Comments: texts and keys *)

\* The reducer and the effect change what is shown, never what is typed.
TypedKept(p, q) ==
  /\ q.open = p.open /\ q.draft = p.draft /\ q.attempt = p.attempt /\ q.before = p.before

LEMMA ReducerKeepsTyped ==
  ASSUME NEW p \in Panels
  PROVE  TypedKept(p, Dispatched(p)) /\ TypedKept(p, Restarted(p))
<1>1. ASSUME NEW q \in Panels, NEW page PROVE TypedKept(q, Loaded(q, page))
  BY DEF Loaded, Panels, TypedKept
<1>2. ASSUME NEW q \in Panels PROVE TypedKept(q, Dispatched(q))
  <2>1. TypedKept(q, [q EXCEPT !.olderDisabled = FALSE]) /\ TypedKept(q, q)
    BY DEF Panels, TypedKept
  <2> QED
    BY <1>1, <2>1 DEF Dispatched
<1>3. TypedKept(p, Restarted(p))
  <2> DEFINE loading == [p EXCEPT !.olderDisabled = TRUE, !.error = FALSE]
  <2>1. loading \in Panels
    BY Zenon DEF Panels
  <2>2. TypedKept(p, loading)
    BY DEF Panels, TypedKept
  <2>3. Restarted(p) = loading \/ Restarted(p) = Dispatched(loading)
    BY DEF Restarted
  <2> HIDE DEF loading
  <2> QED
    BY <1>2, <2>1, <2>2, <2>3 DEF TypedKept
<1> QED
  BY <1>2, <1>3

TextsInv == ClosedIsIdle /\ AttemptsInOrder /\ KeysStoredOnce /\ AcknowledgedIsStored

\* A step that sends and stores nothing.
LEMMA ReadingKeepsTexts ==
  ASSUME TextsInv, UNCHANGED <<stored, write>>, panel'.open = panel.open, panel.open,
         panel'.attempt = panel.attempt,
         since'.acknowledged = since.acknowledged, since'.sent = since.sent
  PROVE  TextsInv'
<1>1. ClosedIsIdle'
  BY DEF ClosedIsIdle
<1>2. AttemptsInOrder'
  BY DEF TextsInv, AttemptsInOrder, LastSent, Comment
<1>3. KeysStoredOnce' /\ AcknowledgedIsStored'
  BY DEF TextsInv, KeysStoredOnce, AcknowledgedIsStored, IsStored, Comment
<1> QED
  BY <1>1, <1>2, <1>3 DEF TextsInv

\* What is stored stays stored, and a comment goes to the end of the list under
\* a key that is not in it.
LEMMA StoringKeepsTexts ==
  ASSUME CommentsTypeOK, KeysStoredOnce, Len(stored) < MaxComments,
         NEW comment \in Comments, stored' = Append(stored, comment),
         comment.key # 0 => \A i \in DOMAIN stored : stored[i].key # comment.key
  PROVE  /\ KeysStoredOnce'
         /\ \E i \in DOMAIN stored' : stored'[i] = comment
         /\ \A c : IsStored(c) => \E i \in DOMAIN stored' : stored'[i] = c
<1>1. /\ DOMAIN stored' = DOMAIN stored \cup {Len(stored) + 1}
      /\ DOMAIN stored = 1..Len(stored) /\ Len(stored) \in Nat
      /\ \A i \in DOMAIN stored : stored'[i] = stored[i]
      /\ stored'[Len(stored) + 1] = comment
  BY StoredTyped
<1>2. KeysStoredOnce'
  BY <1>1 DEF KeysStoredOnce
<1> QED
  BY <1>1, <1>2 DEF IsStored

\* An attempt for another text than the last one, or an answer to it, goes to the
\* end of those sent.
LEMMA SendingKeepsOrder ==
  ASSUME CommentsTypeOK, AttemptsInOrder, NEW comment \in Comments,
         since'.sent = Append(since.sent, comment),
         comment = Answered \/ (comment.body # 0 /\ comment.key # 0),
         comment.body # LastSent.body
  PROVE  /\ LastSent' = comment
         /\ \A n \in DOMAIN since'.sent :
              /\ \/ since'.sent[n] = Answered
                 \/ (since'.sent[n].body # 0 /\ since'.sent[n].key # 0)
              /\ n + 1 \in DOMAIN since'.sent
                   => since'.sent[n + 1].body # since'.sent[n].body
<1> DEFINE sent == since.sent
<1>1. sent \in Seq(Comments) /\ Len(sent) \in Nat /\ DOMAIN sent = 1..Len(sent)
      /\ (sent = <<>> <=> Len(sent) = 0)
  BY EmptySeq DEF CommentsTypeOK
<1>2. /\ Len(since'.sent) = Len(sent) + 1 /\ since'.sent \in Seq(Comments)
      /\ \A n \in 1..Len(sent) : since'.sent[n] = sent[n]
      /\ since'.sent[Len(sent) + 1] = comment
  BY <1>1, AppendProperties
<1>3. DOMAIN since'.sent = 1..(Len(sent) + 1) /\ since'.sent # <<>>
  BY <1>1, <1>2, EmptySeq
<1>4. LastSent' = comment
  BY <1>1, <1>2, <1>3 DEF LastSent
<1>5. Len(sent) > 0 => sent[Len(sent)].body # comment.body
  BY <1>1 DEF LastSent
<1> QED
  BY <1>1, <1>2, <1>3, <1>4, <1>5 DEF AttemptsInOrder

LEMMA TextsKept ==
  ASSUME CommentsTypeOK, TextsInv, [CommentsNext]_commentVars
  PROVE  TextsInv'
<1>0. /\ panel \in Panels /\ MaxComments \in Nat /\ panel.attempt \in Comments
      /\ ClosedIsIdle /\ AttemptsInOrder /\ KeysStoredOnce /\ AcknowledgedIsStored
      /\ since \in [failed : BOOLEAN, acknowledged : SUBSET Comments, sent : Seq(Comments)]
      /\ since.sent \in Seq(Comments)
  BY CommentsAssumption DEF CommentsTypeOK, Panels, TextsInv
<1>1. CASE OpenComments
  <2>1. TypedKept([ClosedPanel EXCEPT !.open = TRUE], panel')
    BY <1>1, ClosedTyped, ReducerKeepsTyped DEF OpenComments, StartRead
  <2>2. panel'.open = TRUE /\ panel'.attempt = Nothing
    BY <2>1 DEF TypedKept, ClosedPanel
  <2>3. /\ write.stage = "idle" /\ UNCHANGED <<stored, write>>
        /\ since'.acknowledged = {} /\ since'.sent = <<>>
    BY <1>0, <1>1 DEF OpenComments, ClosedIsIdle, IdleWrite, NothingYet
  <2>4. ClosedIsIdle' /\ AttemptsInOrder'
    BY <2>2, <2>3 DEF ClosedIsIdle, AttemptsInOrder, LastSent
  <2>5. KeysStoredOnce' /\ AcknowledgedIsStored'
    BY <1>0, <2>3 DEF KeysStoredOnce, AcknowledgedIsStored
  <2> QED
    BY <2>4, <2>5 DEF TextsInv
<1>2. CASE CloseComments
  <2>1. /\ panel' = ClosedPanel /\ read' = IdleRead /\ write' = IdleWrite
        /\ UNCHANGED <<stored, since>>
    BY <1>2 DEF CloseComments
  <2>2. write'.stage = "idle" /\ panel'.open = FALSE
    BY <2>1 DEF ClosedPanel, IdleWrite
  <2>3. ClosedIsIdle' /\ AttemptsInOrder'
    BY <1>0, <2>1, <2>2 DEF ClosedIsIdle, AttemptsInOrder
  <2>4. KeysStoredOnce' /\ AcknowledgedIsStored'
    BY <1>0, <2>1, <2>2 DEF KeysStoredOnce, AcknowledgedIsStored, IsStored
  <2> QED
    BY <2>3, <2>4 DEF TextsInv
<1>3. CASE AnswerRead
  <2>1. panel.open
    BY <1>0, <1>3 DEF AnswerRead, ClosedIsIdle, IdleRead
  <2> QED
    BY <1>3, <2>1, ReadingKeepsTexts DEF AnswerRead
<1>4. CASE ReceivePage
  <2>1. panel.open
    BY <1>0, <1>4 DEF ReceivePage, ClosedIsIdle, IdleRead
  <2>2. [panel EXCEPT !.data = read.page, !.error = FALSE] \in Panels
        /\ TypedKept(panel, [panel EXCEPT !.data = read.page, !.error = FALSE])
    <3>1. read.page \in PageOrNone
      BY DEF CommentsTypeOK
    <3>2. [panel EXCEPT !.data = read.page, !.error = FALSE] \in Panels
      BY <1>0, <3>1, Zenon DEF Panels
    <3> QED
      BY <1>0, <3>2 DEF Panels, TypedKept
  <2>3. TypedKept(panel, panel')
    BY <1>4, <2>2, ReducerKeepsTyped DEF ReceivePage, TypedKept
  <2> QED
    BY <1>4, <2>1, <2>3, ReadingKeepsTexts DEF ReceivePage, TypedKept
<1>5. CASE ReadFails
  <2>1. panel.open
    BY <1>0, <1>5 DEF ReadFails, ClosedIsIdle, IdleRead
  <2>2. [panel EXCEPT !.error = TRUE] \in Panels
        /\ TypedKept(panel, [panel EXCEPT !.error = TRUE])
    <3>2. [panel EXCEPT !.error = TRUE] \in Panels
      BY <1>0, Zenon DEF Panels
    <3> QED
      BY <1>0, <3>2 DEF Panels, TypedKept
  <2>3. TypedKept(panel, panel')
    BY <1>5, <2>2, ReducerKeepsTyped DEF ReadFails, TypedKept
  <2>4. since'.acknowledged = since.acknowledged /\ since'.sent = since.sent
    BY <1>0, <1>5 DEF ReadFails
  <2> QED
    BY <1>5, <2>1, <2>3, <2>4, ReadingKeepsTexts DEF ReadFails, TypedKept
<1>6. CASE LoadOlder
  <2>2. [panel EXCEPT !.before = panel.next] \in Panels
        /\ [panel EXCEPT !.before = panel.next].open = panel.open
        /\ [panel EXCEPT !.before = panel.next].attempt = panel.attempt
    <3>1. panel.next \in 0..MaxComments
      BY <1>0 DEF Panels
    <3>2. [panel EXCEPT !.before = panel.next] \in Panels
      BY <1>0, <3>1, Zenon DEF Panels
    <3> QED
      BY <1>0, <3>2 DEF Panels
  <2>3. panel'.open = panel.open /\ panel'.attempt = panel.attempt
    BY <1>6, <2>2, ReducerKeepsTyped DEF LoadOlder, StartRead, TypedKept
  <2> QED
    BY <1>6, <2>3, ReadingKeepsTexts DEF LoadOlder
<1>7. CASE TypeComment
  <2>1. PICK text : panel' = [panel EXCEPT !.draft = text]
    BY <1>7 DEF TypeComment
  <2>2. panel'.open = panel.open /\ panel'.attempt = panel.attempt
    BY <1>0, <2>1 DEF Panels
  <2> QED
    BY <1>7, <2>2, ReadingKeepsTexts DEF TypeComment
<1>8. CASE AddComment
  <2>1. panel.draft \in 0..MaxTexts /\ panel.draft # 0 /\ panel.open
    BY <1>0, <1>8 DEF Panels, AddComment
  <2>2. PICK attempt \in Comments :
          /\ attempt.body = panel.draft
          /\ attempt = IF panel.attempt.body = panel.draft THEN panel.attempt
                       ELSE [body |-> panel.draft, key |-> issued.keys + 1]
          /\ panel' = [panel EXCEPT !.attempt = attempt]
          /\ write' = [stage |-> "sent", body |-> attempt.body, key |-> attempt.key]
          /\ IF since.sent # <<>> /\ since.sent[Len(since.sent)] = attempt
             THEN UNCHANGED since
             ELSE since' = [since EXCEPT !.sent = Append(since.sent, attempt)]
    BY <1>8, <2>1, AttemptForTyped DEF AddComment, AttemptFor
  <2>3. /\ panel'.open = panel.open /\ panel'.attempt = attempt
        /\ write'.body = attempt.body /\ write'.key = attempt.key
        /\ write'.stage = "sent" /\ UNCHANGED <<stored, read>>
        /\ since'.acknowledged = since.acknowledged
    <3>1. since'.acknowledged = since.acknowledged
      BY <1>0, <2>2
    <3>2. UNCHANGED <<stored, read>>
      BY <1>8 DEF AddComment
    <3>3. panel'.open = panel.open /\ panel'.attempt = attempt
      BY <1>0, <2>2 DEF Panels
    <3>4. /\ write'.body = attempt.body /\ write'.key = attempt.key
          /\ write'.stage = "sent"
      BY <2>2
    <3> QED
      BY <3>1, <3>2, <3>3, <3>4
  <2>4. attempt = [body |-> write'.body, key |-> write'.key] /\ write'.body # 0
    BY <2>1, <2>2, <2>3 DEF Comments
  <2>5. ClosedIsIdle' /\ KeysStoredOnce' /\ AcknowledgedIsStored'
    BY <1>0, <2>1, <2>3 DEF ClosedIsIdle, KeysStoredOnce, AcknowledgedIsStored, IsStored
  <2>6. panel.attempt = LastSent
    BY <1>0, <2>1 DEF AttemptsInOrder
  <2>7. AttemptsInOrder'
    <3>1. CASE since.sent # <<>> /\ since.sent[Len(since.sent)] = attempt
      <4>1. UNCHANGED since /\ LastSent' = attempt
        BY <2>2, <3>1 DEF LastSent
      <4> QED
        BY <1>0, <2>3, <2>4, <4>1 DEF AttemptsInOrder, Comment
    <3>2. CASE ~(since.sent # <<>> /\ since.sent[Len(since.sent)] = attempt)
      <4>1. since' = [since EXCEPT !.sent = Append(since.sent, attempt)]
        BY <2>2, <3>2
      <4>2. attempt = [body |-> panel.draft, key |-> issued.keys + 1]
            /\ attempt.body # LastSent.body
        BY <2>1, <2>2, <2>6, <3>2 DEF LastSent, Nothing
      <4>3. attempt.body # 0 /\ attempt.key # 0
        <5>1. issued.keys \in Nat
          BY DEF CommentsTypeOK
        <5> QED
          BY <2>1, <4>2, <5>1
      <4>4. since'.sent = Append(since.sent, attempt)
        BY <1>0, <4>1
      <4> QED
        BY <1>0, <2>3, <2>4, <4>2, <4>3, <4>4, SendingKeepsOrder DEF AttemptsInOrder, Comment
    <3> QED
      BY <3>1, <3>2
  <2> QED
    BY <2>5, <2>7 DEF TextsInv
<1>9. CASE AnswerWrite
  <2>1. /\ panel.open /\ UNCHANGED <<panel, read, since>>
        /\ write'.body = write.body /\ write'.key = write.key
        /\ write.stage = "sent" /\ write'.stage # "idle"
    <3>1. write \in [stage : {"idle", "sent", "stored", "failed"}, body : 0..MaxTexts, key : Nat]
      BY DEF CommentsTypeOK
    <3> QED
      BY <1>0, <1>9, <3>1 DEF AnswerWrite, ClosedIsIdle, IdleWrite
  <2>2. Comment' = Comment
    BY <2>1 DEF Comment
  <2>3. ClosedIsIdle' /\ AttemptsInOrder'
    BY <1>0, <2>1, <2>2 DEF ClosedIsIdle, AttemptsInOrder, LastSent
  <2>4. CASE stored' = stored
    <3>1. write'.stage = "stored" => IsStored(Comment)
      <4>1. write'.stage = "stored" => (\E i \in DOMAIN stored : stored[i] = Comment)
                                     \/ stored' = Append(stored, Comment)
        <5>1. [write EXCEPT !.stage = "failed"].stage = "failed"
          BY DEF CommentsTypeOK
        <5> QED
          BY <1>9, <5>1 DEF AnswerWrite
      <4>2. stored' # Append(stored, Comment)
        <5>1. stored \in Seq(Comments) /\ Comment \in Comments
          BY DEF CommentsTypeOK, Comment, Comments
        <5> QED
          BY <2>4, <5>1, AppendProperties
      <4> QED
        BY <4>1, <4>2 DEF IsStored
    <3>2. KeysStoredOnce' /\ AcknowledgedIsStored'
      BY <1>0, <2>1, <2>2, <2>4, <3>1 DEF KeysStoredOnce, AcknowledgedIsStored, IsStored
    <3> QED
      BY <2>3, <3>2 DEF TextsInv
  <2>5. CASE stored' # stored
    <3>1. /\ stored' = Append(stored, Comment) /\ Len(stored) < MaxComments
          /\ \A i \in DOMAIN stored : stored[i].key # Comment.key
          /\ Comment \in Comments
      BY <1>9, <2>5 DEF AnswerWrite, CanStore, CommentsTypeOK, Comment, Comments
    <3>2. /\ KeysStoredOnce'
          /\ \E i \in DOMAIN stored' : stored'[i] = Comment
          /\ \A c : IsStored(c) => \E i \in DOMAIN stored' : stored'[i] = c
      BY <1>0, <3>1, StoringKeepsTexts
    <3>3. AcknowledgedIsStored'
      BY <1>0, <2>1, <2>2, <3>2 DEF AcknowledgedIsStored, IsStored
    <3> QED
      BY <2>3, <3>2, <3>3 DEF TextsInv
  <2> QED
    BY <2>4, <2>5
<1>10. CASE StoreLate \/ OthersComment
  <2>1. PICK c \in Comments :
          /\ stored' = Append(stored, c) /\ Len(stored) < MaxComments
          /\ c.key # 0 => \A i \in DOMAIN stored : stored[i].key # c.key
    <3>1. CASE StoreLate
      <4>1. PICK n \in DOMAIN since.sent : CanStore(since.sent[n])
                                          /\ stored' = Append(stored, since.sent[n])
        BY <3>1 DEF StoreLate
      <4>2. since.sent[n] \in Comments
        BY <1>0, ElementOfSeq
      <4> QED
        BY <4>1, <4>2 DEF CanStore
    <3>2. CASE OthersComment
      BY <3>2, ClosedTyped DEF OthersComment, Nothing
    <3> QED
      BY <1>10, <3>1, <3>2
  <2>2. UNCHANGED <<panel, read, write, since>>
    BY <1>10 DEF StoreLate, OthersComment
  <2>3. KeysStoredOnce' /\ \A k : IsStored(k) => \E i \in DOMAIN stored' : stored'[i] = k
    BY <1>0, <2>1, StoringKeepsTexts
  <2>4. ClosedIsIdle' /\ AttemptsInOrder'
    BY <1>0, <2>2 DEF ClosedIsIdle, AttemptsInOrder, LastSent, Comment
  <2>5. AcknowledgedIsStored'
    <3>1. since' = since /\ write' = write /\ Comment' = Comment
      BY <2>2 DEF Comment
    <3>2. \A comment \in since'.acknowledged :
            comment.body # 0 /\ \E i \in DOMAIN stored' : stored'[i] = comment
      BY <1>0, <2>3, <3>1 DEF AcknowledgedIsStored
    <3>3. write'.stage = "stored" => \E i \in DOMAIN stored' : stored'[i] = Comment'
      BY <1>0, <2>3, <3>1 DEF AcknowledgedIsStored
    <3> QED
      BY <3>2, <3>3 DEF AcknowledgedIsStored, IsStored
  <2> QED
    BY <2>3, <2>4, <2>5 DEF TextsInv
<1>11. CASE CommentAdded
  <2> DEFINE p == [panel EXCEPT !.attempt = Nothing, !.draft = 0, !.before = 0]
  <2>1. p \in Panels /\ p.open = panel.open /\ p.attempt = Nothing
    <3>1. 0 \in 0..MaxComments /\ 0 \in 0..MaxTexts /\ Nothing \in Comments
      BY CommentsAssumption, ClosedTyped
    <3>2. p \in Panels
      BY <1>0, <3>1, Zenon DEF Panels
    <3> QED
      BY <1>0, <3>2 DEF Panels
  <2>2. StartRead(p) /\ write' = IdleWrite /\ write.stage = "stored" /\ UNCHANGED stored
        /\ since' = [since EXCEPT !.acknowledged = since.acknowledged \cup {Comment},
                                  !.sent = Append(since.sent, Answered)]
    BY <1>11 DEF CommentAdded
  <2> HIDE DEF p
  <2>3. panel'.open = panel.open /\ panel'.attempt = Nothing
    BY <2>1, <2>2, ReducerKeepsTyped DEF StartRead, TypedKept
  <2>4. since'.acknowledged = since.acknowledged \cup {Comment}
        /\ since'.sent = Append(since.sent, Answered)
    BY <1>0, <2>2
  <2>5. panel.open /\ write'.stage = "idle"
    BY <1>0, <2>2 DEF ClosedIsIdle, IdleWrite
  <2>6. panel.attempt = LastSent /\ panel.attempt = Comment /\ Comment.body # 0
    BY <1>0, <2>2, <2>5 DEF AttemptsInOrder, Comment
  <2>7. AttemptsInOrder'
    <3>1. Answered.body # LastSent.body /\ Answered \in Comments
      BY <2>6, ClosedTyped DEF Answered, Nothing
    <3> QED
      BY <1>0, <2>3, <2>4, <2>5, <3>1, SendingKeepsOrder DEF AttemptsInOrder, Answered
  <2>8. ClosedIsIdle' /\ KeysStoredOnce'
    BY <1>0, <2>2, <2>3, <2>5 DEF ClosedIsIdle, KeysStoredOnce
  <2>9. AcknowledgedIsStored'
    BY <1>0, <2>2, <2>4, <2>5, <2>6 DEF AcknowledgedIsStored, IsStored
  <2> QED
    BY <2>7, <2>8, <2>9 DEF TextsInv
<1>12. CASE CommentFails
  <2>1. write'.stage = "idle" /\ panel.open /\ UNCHANGED <<stored, panel, read, since>>
    BY <1>0, <1>12 DEF CommentFails, ClosedIsIdle, IdleWrite
  <2>2. ClosedIsIdle' /\ AttemptsInOrder'
    BY <1>0, <2>1 DEF ClosedIsIdle, AttemptsInOrder, LastSent
  <2>3. KeysStoredOnce' /\ AcknowledgedIsStored'
    BY <1>0, <2>1 DEF KeysStoredOnce, AcknowledgedIsStored, IsStored
  <2> QED
    BY <2>2, <2>3 DEF TextsInv
<1>13. CASE UNCHANGED commentVars
  <2>1. UNCHANGED <<stored, panel, read, write, since>>
    BY <1>13 DEF commentVars
  <2>2. ClosedIsIdle' /\ AttemptsInOrder'
    BY <1>0, <2>1 DEF ClosedIsIdle, AttemptsInOrder, LastSent, Comment
  <2>3. KeysStoredOnce' /\ AcknowledgedIsStored'
    BY <1>0, <2>1 DEF KeysStoredOnce, AcknowledgedIsStored, IsStored, Comment
  <2> QED
    BY <2>2, <2>3 DEF TextsInv
<1> QED
  BY <1>1, <1>2, <1>3, <1>4, <1>5, <1>6, <1>7, <1>8, <1>9, <1>10, <1>11, <1>12, <1>13
     DEF CommentsNext

\* Attempts for one text with no other between them are one attempt, and it has
\* one key.
LEMMA InOrderIsOnce ==
  ASSUME CommentsTypeOK, TextsInv
  PROVE  StoredOnce
<1>0. AttemptsInOrder /\ KeysStoredOnce /\ AcknowledgedIsStored
  BY DEF TextsInv
<1>1. \A comment \in since.acknowledged : \E i \in DOMAIN stored : stored[i] = comment
  BY <1>0 DEF AcknowledgedIsStored, IsStored
<1>2. ASSUME NEW n \in DOMAIN since.sent, NEW m \in DOMAIN since.sent,
             n <= m, SameText(n, m), since.sent[n] # Answered,
             NEW i \in DOMAIN stored, NEW j \in DOMAIN stored,
             stored[i].key = since.sent[n].key, stored[j].key = since.sent[m].key
      PROVE  i = j
  <2>1. DOMAIN since.sent = 1..Len(since.sent) /\ Len(since.sent) \in Nat
    BY DEF CommentsTypeOK
  <2>2. n = m
    <3>1. SUFFICES ASSUME n < m PROVE FALSE
      BY <1>2, <2>1
    <3>2. n + 1 \in n..m /\ n + 1 \in DOMAIN since.sent
      BY <2>1, <3>1
    <3>3. since.sent[n + 1].body = since.sent[n].body
      BY <1>2, <3>2 DEF SameText
    <3> QED
      BY <1>0, <3>2, <3>3 DEF AttemptsInOrder
  <2>3. since.sent[n].key # 0
    BY <1>0, <1>2 DEF AttemptsInOrder
  <2> QED
    BY <1>0, <1>2, <2>2, <2>3 DEF KeysStoredOnce
<1> QED
  BY <1>1, <1>2 DEF StoredOnce

-----------------------------------------------------------------------------
(* Comments: what is shown *)

\* What an acknowledged read covers it covers as long as only comments that
\* were not acknowledged are stored after it.
LEMMA CoversKept ==
  ASSUME CommentsTypeOK, NEW s, Covers(s), since'.acknowledged = since.acknowledged,
         \/ stored' = stored
         \/ \E comment \in Comments :
              /\ stored' = Append(stored, comment) /\ Len(stored) < MaxComments
              /\ comment \notin since.acknowledged
  PROVE  \A i \in DOMAIN stored' : stored'[i] \in since.acknowledged =>
           s # <<>> /\ i <= s[Len(s)]
<1>1. CASE stored' = stored
  BY <1>1 DEF Covers
<1>2. CASE \E comment \in Comments :
             /\ stored' = Append(stored, comment) /\ Len(stored) < MaxComments
             /\ comment \notin since.acknowledged
  <2>1. PICK comment \in Comments :
             /\ stored' = Append(stored, comment) /\ Len(stored) < MaxComments
             /\ comment \notin since.acknowledged
    BY <1>2
  <2>2. /\ DOMAIN stored' = DOMAIN stored \cup {Len(stored) + 1}
        /\ \A i \in DOMAIN stored : stored'[i] = stored[i]
        /\ stored'[Len(stored) + 1] = comment
    BY <2>1, StoredTyped
  <2> QED
    BY <2>1, <2>2 DEF Covers
<1> QED
  BY <1>1, <1>2

\* A step that leaves the panel, the read and what was acknowledged alone.
LEMMA StoringKeepsPages ==
  ASSUME CommentsTypeOK, PagesFit, UNCHANGED read,
         since'.failed = since.failed, since'.acknowledged = since.acknowledged,
         panel'.open = panel.open, panel'.shown = panel.shown, panel'.next = panel.next,
         panel'.error = panel.error, panel'.before = panel.before,
         panel'.olderDisabled = panel.olderDisabled,
         \/ stored' = stored
         \/ \E comment \in Comments :
              /\ stored' = Append(stored, comment) /\ Len(stored) < MaxComments
              /\ comment \notin since.acknowledged
  PROVE  PagesFit'
<1> SUFFICES ASSUME panel.open, ~since.failed PROVE PagesFit'
  BY DEF PagesFit
<1>1. \A s : Covers(s) => \A i \in DOMAIN stored' : stored'[i] \in since.acknowledged =>
                            s # <<>> /\ i <= s[Len(s)]
  BY CoversKept
<1>2. Covers(panel.shown) => Covers(panel.shown)'
  BY <1>1 DEF Covers
<1>3. Covers(read.page.ids) => Covers(read.page.ids)'
  BY <1>1 DEF Covers
<1> QED
  BY <1>2, <1>3 DEF PagesFit, Stretch, NextOf

\* A page that ends before a stretch begins makes one with it.
LEMMA StretchesJoin ==
  ASSUME NEW s \in Seq(CommentIds), NEW t \in Seq(CommentIds), Stretch(s), Stretch(t),
         s # <<>>, t # <<>>, s[Len(s)] = t[1] - 1
  PROVE  /\ s \o t \in Seq(CommentIds) /\ Stretch(s \o t) /\ s \o t # <<>>
         /\ (s \o t)[1] = s[1] /\ (s \o t)[Len(s \o t)] = t[Len(t)]
<1>1. /\ Len(s) \in Nat /\ Len(t) \in Nat /\ Len(s) > 0 /\ Len(t) > 0
      /\ DOMAIN s = 1..Len(s) /\ DOMAIN t = 1..Len(t)
      /\ \A i \in 1..Len(s) : s[i] \in Nat
      /\ \A i \in 1..Len(t) : t[i] \in Nat
  <2>1. CommentIds \subseteq Nat
    BY CommentsAssumption DEF CommentIds
  <2>2. /\ \A i \in 1..Len(s) : s[i] \in CommentIds
        /\ \A i \in 1..Len(t) : t[i] \in CommentIds
    BY ElementOfSeq
  <2>3. /\ Len(s) \in Nat /\ Len(t) \in Nat /\ Len(s) > 0 /\ Len(t) > 0
        /\ DOMAIN s = 1..Len(s) /\ DOMAIN t = 1..Len(t)
    OBVIOUS
  <2> QED
    BY <2>1, <2>2, <2>3
<1>2. /\ s \o t \in Seq(CommentIds) /\ Len(s \o t) = Len(s) + Len(t)
      /\ \A i \in 1..(Len(s) + Len(t)) :
           (s \o t)[i] = IF i <= Len(s) THEN s[i] ELSE t[i - Len(s)]
  BY ConcatProperties
<1>3. /\ \A i \in 1..Len(s) : s[i] = s[1] + i - 1
      /\ \A i \in 1..Len(t) : t[i] = t[1] + i - 1
  BY <1>1 DEF Stretch
<1>4. t[1] = s[1] + Len(s)
  <2>1. s[Len(s)] = s[1] + Len(s) - 1 /\ s[Len(s)] = t[1] - 1
    BY <1>1, <1>3
  <2>2. s[1] \in Nat /\ t[1] \in Nat
    BY <1>1
  <2> QED
    BY <1>1, <2>1, <2>2
<1>5. (s \o t)[1] = s[1] /\ (s \o t)[Len(s) + Len(t)] = t[Len(t)]
  BY <1>1, <1>2
<1>6. ASSUME NEW i \in 1..(Len(s) + Len(t)) PROVE (s \o t)[i] = s[1] + i - 1
  <2>1. CASE i <= Len(s)
    BY <1>1, <1>2, <1>3, <2>1
  <2>2. CASE i > Len(s)
    <3>1. i - Len(s) \in 1..Len(t)
      BY <1>1, <2>2
    <3>2. (s \o t)[i] = t[i - Len(s)]
      BY <1>1, <1>2, <2>2
    <3>3. t[i - Len(s)] = t[1] + (i - Len(s)) - 1
      BY <1>3, <3>1
    <3> QED
      BY <1>1, <1>4, <3>2, <3>3
  <2> QED
    BY <1>1, <2>1, <2>2
<1>7. s \o t # <<>>
  BY <1>1, <1>2
<1>8. DOMAIN (s \o t) = 1..(Len(s) + Len(t))
  BY <1>2
<1>9. Stretch(s \o t)
  BY <1>5, <1>6, <1>8 DEF Stretch
<1> QED
  BY <1>2, <1>5, <1>7, <1>9

\* A panel without an error loses only its Load older button to a new read.
LEMMA RestartedPlain ==
  ASSUME NEW p \in Panels, ~p.error
  PROVE  /\ Restarted(p).shown = p.shown /\ Restarted(p).olderDisabled
         /\ ~Restarted(p).error /\ Restarted(p).open = p.open
         /\ Restarted(p).before = p.before
<1>1. Restarted(p) = [p EXCEPT !.olderDisabled = TRUE, !.error = FALSE]
  BY DEF Restarted
<1>2. [p EXCEPT !.olderDisabled = TRUE, !.error = FALSE] \in Panels
  BY Zenon DEF Panels
<1> QED
  BY <1>1, <1>2 DEF Panels

\* The step of each operation keeps what is shown without a gap.
LEMMA PagesKept ==
  ASSUME CommentsInv, [CommentsNext]_commentVars
  PROVE  PagesFit'
<1>0. /\ CommentsTypeOK /\ ClosedIsIdle /\ AttemptsInOrder /\ AcknowledgedIsStored /\ PagesFit
      /\ panel \in Panels /\ panel.before \in 0..MaxComments /\ panel.shown \in Seq(CommentIds)
      /\ panel.next \in 0..MaxComments /\ MaxComments \in Nat
  <2>1. panel \in Panels /\ MaxComments \in Nat
    BY CommentsAssumption DEF CommentsInv, CommentsTypeOK
  <2>2. panel.before \in 0..MaxComments /\ panel.shown \in Seq(CommentIds)
        /\ panel.next \in 0..MaxComments
    BY <2>1 DEF Panels
  <2> QED
    BY <2>1, <2>2 DEF CommentsInv
<1>1. CASE OpenComments
  <2>1. /\ panel' = Restarted([ClosedPanel EXCEPT !.open = TRUE]) /\ read'.stage = "asked"
        /\ since'.acknowledged = {}
    BY <1>1, ClosedTyped, StartReadTyped DEF OpenComments, StartRead, NothingYet
  <2>2. /\ [ClosedPanel EXCEPT !.open = TRUE].before = 0
        /\ [ClosedPanel EXCEPT !.open = TRUE].shown = <<>>
        /\ ~[ClosedPanel EXCEPT !.open = TRUE].error
    BY DEF ClosedPanel
  <2>3. /\ ~panel'.error /\ panel'.shown = <<>> /\ panel'.before = 0 /\ panel'.olderDisabled
    BY <2>1, <2>2, ClosedTyped, RestartedPlain
  <2>4. Stretch(panel.shown)'
    <3>1. DOMAIN panel'.shown = {}
      BY <2>3
    <3> QED
      BY <3>1 DEF Stretch
  <2> QED
    BY <2>1, <2>3, <2>4 DEF PagesFit
<1>2. CASE CloseComments
  <2>1. panel'.open = FALSE
    BY <1>2 DEF CloseComments, ClosedPanel
  <2> QED
    BY <2>1 DEF PagesFit
<1>3. CASE AnswerRead
  <2> SUFFICES ASSUME panel.open, ~since.failed PROVE PagesFit'
    BY <1>3 DEF AnswerRead, PagesFit
  <2>1. UNCHANGED <<stored, panel, since>> /\ read.stage = "asked"
    BY <1>3 DEF AnswerRead
  <2>2. CASE read' = [stage |-> "answered", page |-> PageOf(panel.before)]
    <3> DEFINE page == PageOf(panel.before)
    <3>1. /\ page \in Pages /\ Stretch(page.ids) /\ page.next = NextOf(page.ids)
          /\ panel.before > 1 =>
               page.ids # <<>> /\ page.ids[Len(page.ids)] = panel.before - 1
          /\ panel.before = 0 /\ Len(stored) > 0 =>
               page.ids # <<>> /\ page.ids[Len(page.ids)] = Len(stored)
      BY <1>0, PagesAreStretches
    <3>2. read'.stage = "answered" /\ read'.page = page
      BY <2>2
    <3> HIDE DEF page
    <3>3. page # NoPage
      BY <3>1, NoPageAssumption
    <3>4. panel.before = 0 => Covers(page.ids)
      <4>1. DOMAIN stored = 1..Len(stored) /\ Len(stored) \in Nat
        BY <1>0 DEF CommentsTypeOK
      <4> QED
        BY <3>1, <4>1 DEF Covers
    <3>5. panel.before = 0 => Covers(read.page.ids)'
      BY <2>1, <3>2, <3>4 DEF Covers
    <3>6. Covers(panel.shown) => Covers(panel.shown)'
      BY <2>1 DEF Covers
    <3> QED
      BY <1>0, <2>1, <3>1, <3>2, <3>3, <3>5, <3>6 DEF PagesFit
  <2>3. CASE read' = [read EXCEPT !.stage = "failed"]
    <3>1. read'.stage = "failed"
      BY <1>0, <2>3 DEF CommentsTypeOK
    <3>2. Covers(panel.shown) => Covers(panel.shown)'
      BY <2>1 DEF Covers
    <3> QED
      BY <1>0, <2>1, <3>1, <3>2 DEF PagesFit
  <2> QED
    BY <1>3, <2>2, <2>3 DEF AnswerRead
<1>4. CASE ReceivePage
  <2> DEFINE p == [panel EXCEPT !.data = read.page, !.error = FALSE]
  <2>1. /\ UNCHANGED <<stored, since>> /\ read.stage = "answered" /\ read' = IdleRead
        /\ panel' = Dispatched(p)
    BY <1>4 DEF ReceivePage
  <2>2. read.page \in PageOrNone
    BY <1>0 DEF CommentsTypeOK
  <2>3. p \in Panels
    BY <1>0, <2>2, Zenon DEF Panels
  <2>4. /\ p.data = read.page /\ ~p.error /\ p.shown = panel.shown /\ p.before = panel.before
        /\ p.open = panel.open
    BY <1>0, <2>3 DEF Panels
  <2> HIDE DEF p
  <2>5. panel'.open = panel.open
    BY <2>1, <2>3, <2>4, ReducerKeepsTyped DEF TypedKept
  <2> SUFFICES ASSUME panel.open, ~since.failed PROVE PagesFit'
    BY <2>1, <2>5 DEF PagesFit
  <2>6. /\ read.page # NoPage /\ Stretch(read.page.ids)
        /\ read.page.next = NextOf(read.page.ids)
        /\ panel.before = 0 => Covers(read.page.ids)
        /\ panel.before # 0 =>
             /\ read.page.ids # <<>>
             /\ read.page.ids[Len(read.page.ids)] = panel.before - 1
             /\ panel.shown # <<>> /\ panel.shown[1] = panel.before /\ panel.before > 1
             /\ Covers(panel.shown)
        /\ Stretch(panel.shown)
    BY <1>0, <2>1 DEF PagesFit
  <2>7. read.page \in Pages /\ read.page.ids \in Seq(CommentIds)
    BY <2>2, <2>6 DEF PageOrNone, Pages
  <2>8. /\ panel'.shown = IF panel.before > 0 THEN read.page.ids \o panel.shown
                          ELSE read.page.ids
        /\ panel'.next = read.page.next /\ panel'.error = FALSE
    <3>1. panel' = Loaded(p, read.page)
      BY <2>1, <2>4, <2>6 DEF Dispatched
    <3> QED
      BY <2>3, <2>4, <3>1 DEF Loaded, Panels
  <2>9. read'.stage = "idle"
    BY <2>1 DEF IdleRead
  <2>10. CASE panel.before = 0
    <3>1. panel'.shown = read.page.ids
      BY <2>8, <2>10
    <3>2. Covers(read.page.ids)
      BY <2>6, <2>10
    <3>3. Covers(panel.shown)'
      BY <2>1, <3>1, <3>2 DEF Covers
    <3>4. Stretch(panel.shown)' /\ panel'.next = NextOf(panel'.shown)
      BY <2>6, <2>8, <3>1 DEF Stretch
    <3> QED
      BY <2>8, <2>9, <3>3, <3>4 DEF PagesFit, NextOf
  <2>11. CASE panel.before # 0
    <3> DEFINE joined == read.page.ids \o panel.shown
    <3>0. /\ panel.before > 0 /\ Stretch(read.page.ids) /\ Stretch(panel.shown)
          /\ read.page.ids # <<>> /\ panel.shown # <<>>
          /\ read.page.ids[Len(read.page.ids)] = panel.shown[1] - 1
      <4>1. panel.before > 0
        BY <1>0, <2>11
      <4> QED
        BY <2>6, <2>11, <4>1
    <3>1. /\ Stretch(joined) /\ joined # <<>> /\ joined[1] = read.page.ids[1]
          /\ joined[Len(joined)] = panel.shown[Len(panel.shown)]
      <4> HIDE DEF joined
      <4>1. joined = read.page.ids \o panel.shown
        BY DEF joined
      <4> QED
        BY <1>0, <2>7, <3>0, <4>1, StretchesJoin
    <3>2. panel'.shown = joined
      BY <2>8, <3>0
    <3> HIDE DEF joined
    <3>3. panel'.next = NextOf(joined)
      BY <2>6, <2>8, <2>11, <3>1 DEF NextOf
    <3>4. Covers(panel.shown)'
      BY <2>1, <2>6, <2>11, <3>1, <3>2 DEF Covers
    <3>5. Stretch(panel.shown)' /\ panel'.next = NextOf(panel'.shown)
      BY <3>1, <3>2, <3>3 DEF Stretch
    <3> QED
      BY <2>8, <2>9, <3>4, <3>5 DEF PagesFit, NextOf
  <2> QED
    BY <2>10, <2>11
<1>5. CASE ReadFails
  <2>1. since'.failed = TRUE
    BY <1>0, <1>5 DEF ReadFails, CommentsTypeOK
  <2> QED
    BY <2>1 DEF PagesFit
<1>6. CASE LoadOlder
  <2> DEFINE p == [panel EXCEPT !.before = panel.next]
  <2>1. /\ UNCHANGED <<stored, since>> /\ StartRead(p) /\ panel.open /\ panel.next # 0
        /\ ~panel.olderDisabled
    BY <1>6 DEF LoadOlder
  <2>2. p \in Panels
    BY <1>0, Zenon DEF Panels
  <2>3. /\ p.error = panel.error /\ p.shown = panel.shown /\ p.before = panel.next
        /\ p.open = panel.open
    BY <1>0, <2>2 DEF Panels
  <2> HIDE DEF p
  <2>4. panel' = Restarted(p) /\ read'.stage = "asked"
    BY <2>1, <2>2, StartReadTyped DEF StartRead
  <2> SUFFICES ASSUME ~since.failed PROVE PagesFit'
    BY <2>1 DEF PagesFit
  <2>5. /\ read.stage = "idle" /\ ~panel.error /\ Stretch(panel.shown)
        /\ panel.next = NextOf(panel.shown) /\ Covers(panel.shown)
    BY <1>0, <2>1 DEF PagesFit
  <2>6. /\ panel'.shown = panel.shown /\ panel'.before = panel.next /\ panel'.olderDisabled
        /\ ~panel'.error
    BY <2>2, <2>3, <2>4, <2>5, RestartedPlain
  <2>7. panel.shown # <<>> /\ panel.shown[1] = panel.next /\ panel.next > 1
    BY <1>0, <2>1, <2>5 DEF NextOf
  <2>8. Covers(panel.shown)' /\ Stretch(panel.shown)'
    BY <2>1, <2>5, <2>6 DEF Covers, Stretch
  <2> QED
    BY <2>4, <2>6, <2>7, <2>8 DEF PagesFit
<1>7. CASE TypeComment \/ AddComment
  <2>1. /\ UNCHANGED <<stored, read>> /\ since'.failed = since.failed
        /\ since'.acknowledged = since.acknowledged
        /\ \/ \E draft : panel' = [panel EXCEPT !.draft = draft]
           \/ \E attempt : panel' = [panel EXCEPT !.attempt = attempt]
    <3>1. CASE TypeComment
      BY <3>1 DEF TypeComment
    <3>2. CASE AddComment
      BY <1>0, <3>2 DEF AddComment, CommentsTypeOK
    <3> QED
      BY <1>7, <3>1, <3>2
  <2>2. /\ panel'.open = panel.open /\ panel'.shown = panel.shown /\ panel'.next = panel.next
        /\ panel'.error = panel.error /\ panel'.before = panel.before
        /\ panel'.olderDisabled = panel.olderDisabled
    BY <1>0, <2>1 DEF Panels
  <2> QED
    BY <1>0, <2>1, <2>2, StoringKeepsPages
<1>8. CASE AnswerWrite \/ StoreLate \/ CommentFails \/ OthersComment
  <2>1. UNCHANGED <<panel, read, since>>
    BY <1>8 DEF AnswerWrite, StoreLate, CommentFails, OthersComment
  <2>2. \A c \in Comments : c \in since.acknowledged =>
          c.body # 0 /\ \E i \in DOMAIN stored : stored[i] = c
    BY <1>0 DEF AcknowledgedIsStored, IsStored
  <2>3. \/ stored' = stored
        \/ \E comment \in Comments :
             /\ stored' = Append(stored, comment) /\ Len(stored) < MaxComments
             /\ comment \notin since.acknowledged
    <3>1. CASE OthersComment
      <4>1. Nothing \in Comments /\ Nothing \notin since.acknowledged
        BY <2>2, ClosedTyped DEF Nothing
      <4> QED
        BY <3>1, <4>1 DEF OthersComment
    <3>2. CASE AnswerWrite
      <4>1. Comment \in Comments
        BY <1>0 DEF CommentsTypeOK, Comment, Comments
      <4>2. \/ stored' = stored
            \/ /\ stored' = Append(stored, Comment) /\ Len(stored) < MaxComments
               /\ \A i \in DOMAIN stored : stored[i].key # Comment.key
        BY <3>2 DEF AnswerWrite, CanStore
      <4> QED
        BY <2>2, <4>1, <4>2
    <3>3. CASE StoreLate
      <4>1. PICK n \in DOMAIN since.sent : CanStore(since.sent[n])
                                          /\ stored' = Append(stored, since.sent[n])
        BY <3>3 DEF StoreLate
      <4>2. since.sent[n] \in Comments
        BY <1>0, ElementOfSeq DEF CommentsTypeOK
      <4> QED
        BY <2>2, <4>1, <4>2 DEF CanStore
    <3>4. CASE CommentFails
      BY <3>4 DEF CommentFails
    <3> QED
      BY <1>8, <3>1, <3>2, <3>3, <3>4
  <2> QED
    BY <1>0, <2>1, <2>3, StoringKeepsPages
<1>9. CASE CommentAdded
  <2> DEFINE p == [panel EXCEPT !.attempt = Nothing, !.draft = 0, !.before = 0]
  <2>1. StartRead(p) /\ since' = [since EXCEPT !.acknowledged = since.acknowledged \cup {Comment},
                                               !.sent = Append(since.sent, Answered)]
    BY <1>9 DEF CommentAdded
  <2>2. p \in Panels
    <3>1. 0 \in 0..MaxComments /\ 0 \in 0..MaxTexts /\ Nothing \in Comments
      BY CommentsAssumption, ClosedTyped
    <3> QED
      BY <1>0, <3>1, Zenon DEF Panels
  <2>3. p.error = panel.error /\ p.shown = panel.shown /\ p.before = 0 /\ p.open = panel.open
    BY <1>0, <2>2 DEF Panels
  <2> HIDE DEF p
  <2>4. panel' = Restarted(p) /\ read'.stage = "asked" /\ since'.failed = since.failed
    BY <1>0, <2>1, <2>2, StartReadTyped DEF StartRead, CommentsTypeOK
  <2>5. panel.open
    BY <1>0, <1>9 DEF CommentAdded, ClosedIsIdle, IdleWrite
  <2> SUFFICES ASSUME ~since.failed PROVE PagesFit'
    BY <2>4 DEF PagesFit
  <2>6. ~panel.error /\ Stretch(panel.shown)
    BY <1>0, <2>5 DEF PagesFit
  <2>7. /\ panel'.shown = panel.shown /\ panel'.before = 0 /\ panel'.olderDisabled
        /\ ~panel'.error
    BY <2>2, <2>3, <2>4, <2>6, RestartedPlain
  <2>8. Stretch(panel.shown)'
    BY <2>6, <2>7 DEF Stretch
  <2> QED
    BY <2>4, <2>7, <2>8 DEF PagesFit
<1>10. CASE UNCHANGED commentVars
  BY <1>0, <1>10 DEF commentVars, PagesFit, Covers, Stretch
<1> QED
  BY <1>1, <1>2, <1>3, <1>4, <1>5, <1>6, <1>7, <1>8, <1>9, <1>10 DEF CommentsNext

LEMMA CommentsInvariant == CommentsSpec => []CommentsInv
<1>1. CommentsInit => CommentsInv
  <2> SUFFICES ASSUME CommentsInit PROVE CommentsInv
    OBVIOUS
  <2>1. PICK n \in 0..MaxComments : stored = [i \in 1..n |-> Nothing]
    BY DEF CommentsInit
  <2>2. n \in Nat /\ MaxComments \in Nat /\ MaxTexts \in Nat /\ MaxPanels \in Nat
    BY CommentsAssumption
  <2>3. /\ stored \in Seq(Comments) /\ Len(stored) = n /\ DOMAIN stored = 1..n
        /\ \A i \in DOMAIN stored : stored[i].key = 0
    <3>1. Nothing \in Comments /\ Nothing.key = 0
      BY ClosedTyped DEF Nothing
    <3>2. stored \in [1..n -> Comments]
      BY <2>1, <3>1
    <3>3. stored \in Seq(Comments)
      BY <2>2, <3>2, SeqDef
    <3>4. DOMAIN stored = 1..n
      BY <3>2
    <3>5. Len(stored) = n
      BY <2>2, <3>3, <3>4, LenProperties
    <3> QED
      BY <2>1, <3>1, <3>3, <3>4, <3>5
  <2>4. CommentsTypeOK
    BY <2>2, <2>3, ClosedTyped DEF CommentsInit, CommentsTypeOK, NothingYet
  <2>5. ClosedIsIdle
    BY DEF CommentsInit, ClosedIsIdle
  <2>6. panel.open = FALSE /\ write.stage = "idle" /\ since.acknowledged = {}
        /\ since.sent = <<>>
    BY DEF CommentsInit, ClosedPanel, IdleWrite, NothingYet
  <2>7. AttemptsInOrder /\ KeysStoredOnce /\ AcknowledgedIsStored /\ PagesFit
    BY <2>3, <2>6 DEF AttemptsInOrder, KeysStoredOnce, AcknowledgedIsStored, PagesFit
  <2> QED
    BY <2>4, <2>5, <2>7 DEF CommentsInv
<1>2. CommentsInv /\ [CommentsNext]_commentVars => CommentsInv'
  <2> SUFFICES ASSUME CommentsInv, [CommentsNext]_commentVars PROVE CommentsInv'
    OBVIOUS
  <2>1. CommentsTypeOK /\ ClosedIsIdle /\ TextsInv
    BY DEF CommentsInv, TextsInv
  <2>2. CommentsTypeOK'
    BY <2>1, CommentsTypesKept
  <2>3. TextsInv'
    BY <2>1, TextsKept
  <2>4. PagesFit'
    BY PagesKept
  <2> QED
    BY <2>2, <2>3, <2>4 DEF CommentsInv, TextsInv
<1> QED
  BY <1>1, <1>2, PTL DEF CommentsSpec

\* Pressing Add comment again for a text, with no other sent and no answer received
\* between, stores it once, however many of the requests are lost, late or answered;
\* and what the panel saw acknowledged is stored as it was sent.
THEOREM TextsAreStoredOnce == CommentsSpec => []StoredOnce
<1>1. CommentsInv => StoredOnce
  BY InOrderIsOnce DEF CommentsInv, TextsInv
<1> QED
  BY <1>1, CommentsInvariant, PTL

\* Pages, new comments and other people's comments interleave without a gap or a
\* repetition in what is shown, and no comment acknowledged is missing.
THEOREM CommentsShownWhole == CommentsSpec => []CommentsAreContiguous
<1>1. CommentsInv => CommentsAreContiguous
  <2> SUFFICES ASSUME CommentsInv, panel.open, ~since.failed
               PROVE  /\ \A i \in DOMAIN panel.shown : panel.shown[i] = panel.shown[1] + i - 1
                      /\ read.stage = "idle" =>
                           /\ panel.shown # <<>> =>
                                panel.next = IF panel.shown[1] = 1 THEN 0 ELSE panel.shown[1]
                           /\ \A i \in DOMAIN stored : stored[i] \in since.acknowledged =>
                                panel.shown # <<>> /\ i <= panel.shown[Len(panel.shown)]
    BY DEF CommentsAreContiguous
  <2>1. /\ Stretch(panel.shown)
        /\ read.stage = "idle" => panel.next = NextOf(panel.shown) /\ Covers(panel.shown)
    BY DEF CommentsInv, PagesFit
  <2> QED
    BY <2>1 DEF Stretch, NextOf, Covers
<1> QED
  BY <1>1, CommentsInvariant, PTL

-----------------------------------------------------------------------------
(* Attachments: the inductive invariant *)

\* A card that is not shown asks, sends and holds nothing.
AwayIsIdle ==
  ~tab.here =>
    /\ ~tab.panel /\ tab.list = Unloaded /\ loads = {}
    /\ \A way \in Ways : uploads[way].stage = "idle"
    /\ removal.stage = "idle"

\* One way uploads at a time, the first of its files under the file's key.
OneUploadAtATime ==
  /\ \A way \in Ways : uploads[way].stage # "idle" =>
       /\ tab.busy /\ uploads[way].files # <<>> /\ uploads[way].key # 0
       /\ tab.keys[Head(uploads[way].files)] = uploads[way].key
  /\ \A way, other \in Ways :
       uploads[way].stage # "idle" /\ uploads[other].stage # "idle" => way = other
  /\ \A way \in Ways : uploads[way].stage = "answered" => uploads[way].id # 0
  /\ removal.stage # "idle" => removal.id # 0

\* An attachment's number and its key are its own, and a file of this tab was
\* sent under a key.
KeysAreDrawn ==
  /\ \A a \in attached :
       /\ a.id <= drawn.ids /\ a.key <= drawn.keys
       /\ a.file \in Files => a.key # 0
  /\ \A f \in Files : tab.keys[f] <= drawn.keys
  /\ \A a, b \in attached : a.key # 0 /\ a.key = b.key => a = b

\* What a file has on the server beside the upload under way, this tab was told.
OthersWereTold ==
  \A f \in Files :
    Cardinality({a \in attached : a.file = f /\ a.key # tab.keys[f]}) <= seen.acknowledged[f]

\* A list, shown or on its way, holds nothing that was gone before its board.
ListsFollowBoards ==
  /\ IdsOf(attached) \subseteq seen.since
  /\ \A l \in loads :
       /\ l.generation <= tab.generation
       /\ l.stage = "answered" /\ l.generation = tab.generation => l.list \subseteq seen.since
  /\ ListFitsBoard

FilesInv ==
  /\ FilesTypeOK /\ IsFiniteSet(attached) /\ AwayIsIdle /\ OneUploadAtATime /\ KeysAreDrawn
  /\ OthersWereTold /\ ListsFollowBoards

-----------------------------------------------------------------------------
(* Attachments: what the steps are made of *)

LEMMA FilesNumbers ==
  /\ MaxIds \in Nat /\ MaxKeys \in Nat /\ MaxBoards \in Nat
  /\ IdleUpload \in Transfers /\ IdleRemoval \in Removals
<1>1. 0 \in 0..MaxKeys /\ <<>> \in Seq(Files)
  BY FilesAssumption
<1> QED
  BY <1>1, FilesAssumption DEF IdleUpload, IdleRemoval, Transfers, Removals

LEMMA EnsuredTyped ==
  ASSUME NEW t \in Tabs, loads \subseteq Loads,
         \A l, m \in loads : l.generation = m.generation => l = m
  PROVE  /\ Ensured(t) \subseteq Loads
         /\ \A l, m \in Ensured(t) : l.generation = m.generation => l = m
         /\ \A l \in Ensured(t) : l \in loads \/ (l.generation = t.generation /\ l.stage = "asked")
         /\ ~t.here => Ensured(t) = loads
<1> DEFINE new == [generation |-> t.generation, stage |-> "asked", list |-> {}]
<1>1. new \in Loads /\ new.generation = t.generation /\ new.stage = "asked"
  BY DEF Tabs, Loads
<1> HIDE DEF new
<1>2. \/ Ensured(t) = loads
      \/ /\ Ensured(t) = loads \cup {new} /\ t.here
         /\ \A l \in loads : l.generation # t.generation
  BY DEF Ensured, new
<1> QED
  BY <1>1, <1>2

\* The loop's next step: a file keeps its key or draws a new one, and the rest
\* of the tab stays as it is.
LEMMA UploadNextTyped ==
  ASSUME FilesTypeOK, NEW way \in Ways, NEW t \in Tabs, NEW files \in Seq(Files),
         UploadNext(way, t, files), \A f \in Files : t.keys[f] <= drawn.keys
  PROVE  /\ tab' \in Tabs /\ uploads' \in [Ways -> Transfers]
         /\ drawn' \in [ids : 0..MaxIds, keys : 0..MaxKeys]
         /\ drawn'.ids = drawn.ids /\ drawn.keys <= drawn'.keys
         /\ tab'.here = t.here /\ tab'.panel = t.panel /\ tab'.generation = t.generation
         /\ tab'.list = t.list
         /\ \A other \in Ways \ {way} : uploads'[other] = uploads[other]
         /\ \A f \in Files :
              /\ tab'.keys[f] <= drawn'.keys
              /\ tab'.keys[f] # t.keys[f] => t.keys[f] = 0 /\ tab'.keys[f] = drawn.keys + 1
         /\ \/ uploads'[way] = IdleUpload
            \/ /\ uploads'[way].stage = "sent" /\ tab'.busy /\ uploads'[way].files # <<>>
               /\ uploads'[way].key # 0
               /\ tab'.keys[Head(uploads'[way].files)] = uploads'[way].key
<1>0. /\ drawn \in [ids : 0..MaxIds, keys : 0..MaxKeys] /\ uploads \in [Ways -> Transfers]
      /\ drawn.keys \in Nat /\ MaxKeys \in Nat /\ t.keys \in [Files -> 0..MaxKeys]
  BY FilesNumbers DEF FilesTypeOK, Tabs
<1>1. CASE files = <<>> \/ Rejected(t)
  <2>1. /\ uploads' = [uploads EXCEPT ![way] = IdleUpload]
        /\ tab' = [t EXCEPT !.busy = FALSE] /\ drawn' = drawn
    BY <1>1 DEF UploadNext
  <2>2. tab' \in Tabs
    BY <2>1, Zenon DEF Tabs
  <2>3. tab'.here = t.here /\ tab'.panel = t.panel /\ tab'.generation = t.generation
        /\ tab'.list = t.list /\ tab'.keys = t.keys
    BY <2>1 DEF Tabs
  <2> QED
    BY <1>0, <2>1, <2>2, <2>3, FilesNumbers
<1>2. CASE ~(files = <<>> \/ Rejected(t))
  <2> DEFINE file == Head(files)
             key == KeyOf(t, file)
             upload == [stage |-> "sent", files |-> files, key |-> key, id |-> 0]
  <2>1. /\ key <= MaxKeys /\ uploads' = [uploads EXCEPT ![way] = upload]
        /\ tab' = [t EXCEPT !.busy = TRUE, !.keys[file] = key]
        /\ drawn' = [drawn EXCEPT !.keys = IF key > @ THEN key ELSE @]
    BY <1>2 DEF UploadNext
  <2>2. file \in Files
    BY <1>2, HeadTailProperties
  <2>3. /\ key \in Nat /\ key # 0
        /\ \/ key = t.keys[file] /\ key <= drawn.keys
           \/ t.keys[file] = 0 /\ key = drawn.keys + 1
    <3>1. /\ t.keys[file] \in Nat /\ t.keys[file] <= drawn.keys
          /\ key = IF t.keys[file] # 0 THEN t.keys[file] ELSE drawn.keys + 1
      BY <1>0, <2>2 DEF KeyOf
    <3> HIDE DEF key
    <3> QED
      BY <1>0, <3>1
  <2>4. key \in 0..MaxKeys
    BY <1>0, <2>1, <2>3
  <2> HIDE DEF key, file
  <2>5. upload \in Transfers
    BY <2>4 DEF Transfers
  <2>6. tab' \in Tabs
    <3>1. [t.keys EXCEPT ![file] = key] \in [Files -> 0..MaxKeys]
      BY <1>0, <2>2, <2>4
    <3> QED
      BY <2>1, <3>1, Zenon DEF Tabs
  <2>7. /\ tab'.here = t.here /\ tab'.panel = t.panel /\ tab'.generation = t.generation
        /\ tab'.list = t.list /\ tab'.busy /\ tab'.keys = [t.keys EXCEPT ![file] = key]
    BY <2>1 DEF Tabs
  <2>8. drawn'.ids = drawn.ids /\ drawn'.keys = IF key > drawn.keys THEN key ELSE drawn.keys
    BY <1>0, <2>1
  <2>9. drawn' \in [ids : 0..MaxIds, keys : 0..MaxKeys] /\ drawn.keys <= drawn'.keys
        /\ key <= drawn'.keys
    BY <1>0, <2>1, <2>4, <2>8
  <2>10. uploads'[way] = upload /\ Head(files) = file
    BY <1>0, <2>1 DEF file
  <2>11. /\ upload.stage = "sent" /\ upload.files = files /\ upload.key = key
    OBVIOUS
  <2>12. uploads' \in [Ways -> Transfers]
         /\ \A other \in Ways \ {way} : uploads'[other] = uploads[other]
    BY <1>0, <2>1, <2>5
  <2>13. \A f \in Files :
              /\ tab'.keys[f] <= drawn'.keys
              /\ tab'.keys[f] # t.keys[f] => t.keys[f] = 0 /\ tab'.keys[f] = drawn.keys + 1
    BY <1>0, <2>2, <2>3, <2>7, <2>8, <2>9
  <2>14. tab'.keys[file] = key
    BY <1>0, <2>2, <2>7
  <2> HIDE DEF upload
  <2> QED
    BY <1>2, <2>3, <2>6, <2>7, <2>8, <2>9, <2>10, <2>11, <2>12, <2>13, <2>14
<1> QED
  BY <1>1, <1>2

\* An upload is stored under a number and a key nothing else has, or was stored
\* before.
LEMMA StoredIsNew ==
  ASSUME FilesTypeOK, OneUploadAtATime, KeysAreDrawn, NEW way \in Ways,
         uploads[way].stage = "sent"
  PROVE  /\ \E a \in Stored(uploads[way]) : a.key = uploads[way].key
         /\ \/ Stored(uploads[way]) = attached
            \/ \E new : /\ Stored(uploads[way]) = attached \cup {new} /\ new \notin attached
                        /\ new.id = drawn.ids + 1 /\ new.file \in Files
                        /\ new = [id |-> new.id, file |-> new.file, key |-> new.key]
                        /\ new.key = uploads[way].key /\ new.key # 0
                        /\ new.key \in 0..MaxKeys /\ new.key <= drawn.keys
                        /\ tab.keys[new.file] = new.key
                        /\ \A a \in attached : a.key # new.key
<1>0. /\ uploads[way] \in Transfers /\ uploads[way].key \in 0..MaxKeys /\ uploads[way].key # 0
      /\ uploads[way].files \in Seq(Files) /\ uploads[way].files # <<>>
      /\ tab.keys[Head(uploads[way].files)] = uploads[way].key
      /\ drawn.ids \in Nat
  BY FilesNumbers DEF FilesTypeOK, Transfers, OneUploadAtATime
<1>1. Head(uploads[way].files) \in Files
  BY <1>0, HeadTailProperties
<1>2. uploads[way].key <= drawn.keys
  BY <1>0, <1>1 DEF KeysAreDrawn
<1>3. CASE \E a \in attached : a.key = uploads[way].key
  BY <1>3 DEF Stored
<1>4. CASE ~\E a \in attached : a.key = uploads[way].key
  <2> DEFINE new == [id |-> drawn.ids + 1, file |-> Head(uploads[way].files),
                     key |-> uploads[way].key]
  <2>1. Stored(uploads[way]) = attached \cup {new}
    BY <1>4 DEF Stored
  <2>2. new.id = drawn.ids + 1 /\ new.file = Head(uploads[way].files)
        /\ new.key = uploads[way].key /\ new = [id |-> new.id, file |-> new.file, key |-> new.key]
    OBVIOUS
  <2> HIDE DEF new
  <2>3. new \notin attached
    BY <1>4, <2>2
  <2> QED
    BY <1>0, <1>1, <1>2, <1>4, <2>1, <2>2, <2>3
<1> QED
  BY <1>3, <1>4

-----------------------------------------------------------------------------
(* Attachments: what the server holds *)

\* What a file has on the server beside the upload under way.
Others(f) == {a \in attached : a.file = f /\ a.key # tab.keys[f]}

HeldInv ==
  /\ FilesTypeOK /\ IsFiniteSet(attached) /\ KeysAreDrawn /\ OthersWereTold

\* At most one attachment has a key.
LEMMA OneMore ==
  ASSUME NEW T, IsFiniteSet(T), NEW S, NEW K, S \subseteq T \cup K,
         \A a, b \in K : a = b
  PROVE  IsFiniteSet(S) /\ Cardinality(S) <= Cardinality(T) + 1
<1>1. PICK x : K \subseteq {x}
  <2>1. CASE K = {}
    BY <2>1
  <2>2. CASE K # {}
    <3>1. PICK x : x \in K
      BY <2>2
    <3> QED
      BY <3>1
  <2> QED
    BY <2>1, <2>2
<1>2. /\ IsFiniteSet(T \cup {x}) /\ Cardinality(T \cup {x}) <= Cardinality(T) + 1
      /\ Cardinality(T) \in Nat
  <2>1. Cardinality(T) \in Nat
    BY FS_CardinalityType
  <2>2. IsFiniteSet(T \cup {x})
        /\ Cardinality(T \cup {x}) = IF x \in T THEN Cardinality(T) ELSE Cardinality(T) + 1
    BY FS_AddElement
  <2> QED
    BY <2>1, <2>2
<1>3. S \subseteq T \cup {x}
  BY <1>1
<1>4. IsFiniteSet(S) /\ Cardinality(S) <= Cardinality(T \cup {x})
  BY <1>2, <1>3, FS_Subset
<1>5. Cardinality(S) \in Nat /\ Cardinality(T \cup {x}) \in Nat
  BY <1>2, <1>4, FS_CardinalityType
<1> QED
  BY <1>2, <1>4, <1>5

\* Removals, files that draw a key, and an upload this tab is told of.
LEMMA HeldKept ==
  ASSUME HeldInv, attached' \subseteq attached,
         drawn.ids <= drawn'.ids, drawn.keys <= drawn'.keys,
         drawn'.ids \in Nat, drawn'.keys \in Nat,
         \A f \in Files : tab'.keys[f] <= drawn'.keys,
         \A f \in Files :
           \/ /\ seen'.acknowledged[f] = seen.acknowledged[f]
              /\ tab'.keys[f] # tab.keys[f] => tab.keys[f] = 0
           \/ /\ seen'.acknowledged[f] = seen.acknowledged[f] + 1
              /\ tab.keys[f] # 0
  PROVE  IsFiniteSet(attached)' /\ KeysAreDrawn' /\ OthersWereTold'
<1>0. /\ attached \subseteq Attachments /\ IsFiniteSet(attached) /\ drawn.ids \in Nat
      /\ drawn.keys \in Nat /\ seen.acknowledged \in [Files -> Nat]
      /\ MaxIds \in Nat /\ MaxKeys \in Nat
  BY FilesNumbers DEF HeldInv, FilesTypeOK
<1>1. IsFiniteSet(attached)'
  BY <1>0, FS_Subset
<1>2. KeysAreDrawn'
  <2>1. \A a \in attached : a.id \in Nat /\ a.key \in Nat
    BY <1>0 DEF Attachments, AttachmentIds
  <2>2. \A a \in attached' :
          a.id <= drawn'.ids /\ a.key <= drawn'.keys /\ (a.file \in Files => a.key # 0)
    BY <1>0, <2>1 DEF HeldInv, KeysAreDrawn
  <2>3. \A a, b \in attached' : a.key # 0 /\ a.key = b.key => a = b
    BY DEF HeldInv, KeysAreDrawn
  <2> QED
    BY <2>2, <2>3 DEF KeysAreDrawn
<1>3. ASSUME NEW f \in Files
      PROVE  Cardinality(Others(f)') <= seen'.acknowledged[f]
  <2>1. Others(f) \subseteq attached /\ IsFiniteSet(Others(f))
        /\ Cardinality(Others(f)) \in Nat /\ Cardinality(Others(f)) <= seen.acknowledged[f]
        /\ seen.acknowledged[f] \in Nat
    <3>1. Others(f) \subseteq attached
      BY DEF Others
    <3>2. IsFiniteSet(Others(f)) /\ Cardinality(Others(f)) \in Nat
      BY <1>0, <3>1, FS_Subset, FS_CardinalityType
    <3> QED
      BY <1>0, <3>1, <3>2 DEF HeldInv, OthersWereTold, Others
  <2>2. CASE /\ seen'.acknowledged[f] = seen.acknowledged[f]
             /\ tab'.keys[f] # tab.keys[f] => tab.keys[f] = 0
    <3>1. Others(f)' \subseteq Others(f)
      <4>1. \A a \in attached : a.file = f => a.key # 0
        BY DEF HeldInv, KeysAreDrawn
      <4> QED
        BY <2>2, <4>1 DEF Others
    <3>2. IsFiniteSet(Others(f)') /\ Cardinality(Others(f)') <= Cardinality(Others(f))
      BY <2>1, <3>1, FS_Subset
    <3>3. Cardinality(Others(f)') \in Nat
      BY <3>2, FS_CardinalityType
    <3> QED
      BY <2>1, <2>2, <3>2, <3>3
  <2>3. CASE /\ seen'.acknowledged[f] = seen.acknowledged[f] + 1
             /\ tab.keys[f] # 0
    <3> DEFINE K == {a \in attached : a.key = tab.keys[f]}
    <3>1. \A a, b \in K : a = b
      BY <2>3 DEF HeldInv, KeysAreDrawn
    <3>2. Others(f)' \subseteq Others(f) \cup K
      BY DEF Others
    <3> HIDE DEF K
    <3>3. IsFiniteSet(Others(f)') /\ Cardinality(Others(f)') <= Cardinality(Others(f)) + 1
      BY <2>1, <3>1, <3>2, OneMore
    <3>4. Cardinality(Others(f)') \in Nat
      BY <3>3, FS_CardinalityType
    <3> QED
      BY <2>1, <2>3, <3>3, <3>4
  <2> QED
    BY <2>2, <2>3
<1>4. OthersWereTold'
  BY <1>3 DEF OthersWereTold, Others
<1> QED
  BY <1>1, <1>2, <1>4

\* An attachment is stored.
LEMMA HeldGrows ==
  ASSUME HeldInv, NEW new, attached' = attached \cup {new}, new.id = drawn.ids + 1,
         new.key \in Nat, new.key <= drawn.keys,
         new.file \in Files => new.key # 0 /\ tab.keys[new.file] = new.key,
         new.key # 0 => \A a \in attached : a.key # new.key,
         drawn'.ids = drawn.ids + 1, drawn'.keys = drawn.keys, tab'.keys = tab.keys,
         seen'.acknowledged = seen.acknowledged
  PROVE  IsFiniteSet(attached)' /\ KeysAreDrawn' /\ OthersWereTold'
<1>0. /\ attached \subseteq Attachments /\ IsFiniteSet(attached) /\ drawn.ids \in Nat
      /\ drawn.keys \in Nat /\ MaxIds \in Nat /\ MaxKeys \in Nat
  BY FilesNumbers DEF HeldInv, FilesTypeOK
<1>1. IsFiniteSet(attached)'
  BY <1>0, FS_AddElement
<1>2. KeysAreDrawn'
  <2>1. \A a \in attached : a.id \in Nat /\ a.key \in Nat
    BY <1>0 DEF Attachments, AttachmentIds
  <2>2. \A a \in attached' :
          a.id <= drawn'.ids /\ a.key <= drawn'.keys /\ (a.file \in Files => a.key # 0)
    BY <1>0, <2>1 DEF HeldInv, KeysAreDrawn
  <2>3. \A a, b \in attached' : a.key # 0 /\ a.key = b.key => a = b
    BY DEF HeldInv, KeysAreDrawn
  <2>4. \A f \in Files : tab'.keys[f] <= drawn'.keys
    BY DEF HeldInv, KeysAreDrawn
  <2> QED
    BY <2>2, <2>3, <2>4 DEF KeysAreDrawn
<1>3. \A f \in Files : Others(f)' = Others(f)
  BY DEF Others
<1>4. OthersWereTold'
  BY <1>3 DEF HeldInv, OthersWereTold, Others
<1> QED
  BY <1>1, <1>2, <1>4

\* A file's attachment that the server takes in: it has a number of its own, and
\* the key its file has in this tab unless somebody else attached it.
Adds(new) ==
  /\ attached' = attached \cup {new} /\ new \in Attachments /\ new.id = drawn.ids + 1
  /\ new.key <= drawn.keys
  /\ new.file \in Files => new.key # 0 /\ tab.keys[new.file] = new.key
  /\ new.key # 0 => \A a \in attached : a.key # new.key
  /\ drawn.ids < MaxIds /\ drawn' = [drawn EXCEPT !.ids = @ + 1]
  /\ Sees(attached')

\* What a step does to the server's attachments, if no file draws a key by it.
ServerStep ==
  \/ attached' \subseteq attached /\ drawn' = drawn /\ (seen' = seen \/ Sees(attached'))
  \/ \E new : Adds(new)

LEMMA ServerStepKeeps ==
  ASSUME HeldInv, ServerStep, tab'.keys = tab.keys
  PROVE  /\ attached' \subseteq Attachments
         /\ drawn' \in [ids : 0..MaxIds, keys : 0..MaxKeys]
         /\ seen' \in [since : SUBSET AttachmentIds, own : SUBSET AttachmentIds,
                       acknowledged : [Files -> Nat]]
         /\ IsFiniteSet(attached)' /\ KeysAreDrawn' /\ OthersWereTold'
         /\ seen.since \subseteq seen'.since /\ seen'.own = seen.own
         /\ IdsOf(attached) \subseteq seen.since => IdsOf(attached') \subseteq seen'.since
<1>0. /\ attached \subseteq Attachments /\ drawn \in [ids : 0..MaxIds, keys : 0..MaxKeys]
      /\ seen \in [since : SUBSET AttachmentIds, own : SUBSET AttachmentIds,
                   acknowledged : [Files -> Nat]]
      /\ drawn.ids \in Nat /\ drawn.keys \in Nat /\ MaxIds \in Nat /\ MaxKeys \in Nat
      /\ \A f \in Files : tab.keys[f] <= drawn.keys
  BY FilesNumbers DEF HeldInv, FilesTypeOK, KeysAreDrawn
<1>1. attached' \subseteq Attachments
  BY <1>0 DEF ServerStep, Adds
<1>2. seen' = seen \/ Sees(attached')
  BY DEF ServerStep, Adds
<1>3. IdsOf(attached') \subseteq AttachmentIds
  BY <1>1 DEF IdsOf, Attachments
<1>4. /\ seen' \in [since : SUBSET AttachmentIds, own : SUBSET AttachmentIds,
                    acknowledged : [Files -> Nat]]
      /\ seen'.acknowledged = seen.acknowledged
      /\ seen.since \subseteq seen'.since /\ seen'.own = seen.own
  <2>1. CASE seen' = seen
    BY <1>0, <2>1
  <2>2. CASE Sees(attached')
    <3>1. seen' = [seen EXCEPT !.since = @ \cup IdsOf(attached')]
      BY <2>2 DEF Sees
    <3> QED
      BY <1>0, <1>3, <3>1
  <2> QED
    BY <1>2, <2>1, <2>2
<1>5. CASE attached' \subseteq attached /\ drawn' = drawn /\ (seen' = seen \/ Sees(attached'))
  <2>1. IsFiniteSet(attached)' /\ KeysAreDrawn' /\ OthersWereTold'
    BY <1>0, <1>4, <1>5, HeldKept
  <2>2. IdsOf(attached') \subseteq IdsOf(attached)
    BY <1>5 DEF IdsOf
  <2> QED
    BY <1>0, <1>1, <1>4, <1>5, <2>1, <2>2
<1>6. CASE \E new : Adds(new)
  <2>1. PICK new : Adds(new)
    BY <1>6
  <2>2. new.key \in Nat
    BY <2>1 DEF Adds, Attachments
  <2>3. /\ drawn'.ids = drawn.ids + 1 /\ drawn'.keys = drawn.keys
        /\ drawn' \in [ids : 0..MaxIds, keys : 0..MaxKeys]
    BY <1>0, <2>1 DEF Adds
  <2>4. IsFiniteSet(attached)' /\ KeysAreDrawn' /\ OthersWereTold'
    BY <1>4, <2>1, <2>2, <2>3, HeldGrows DEF Adds
  <2>5. IdsOf(attached') \subseteq seen'.since
    BY <1>0, <2>1 DEF Adds, Sees
  <2> QED
    BY <1>1, <1>4, <2>3, <2>4, <2>5
<1> QED
  BY <1>5, <1>6 DEF ServerStep

\* The server's answer to an upload, or its work for one that was aborted.
LEMMA UploadIsStored ==
  ASSUME HeldInv, OneUploadAtATime, NEW way \in Ways, uploads[way].stage = "sent"
  PROVE  /\ Stored(uploads[way]) # attached => Cardinality(Stored(uploads[way]) \ attached) = 1
         /\ Stored(uploads[way]) = attached => Cardinality(Stored(uploads[way]) \ attached) = 0
         /\ /\ Stored(uploads[way]) # attached /\ attached' = Stored(uploads[way])
            /\ drawn.ids < MaxIds /\ drawn' = [drawn EXCEPT !.ids = @ + 1]
            /\ Sees(attached')
            => \E new : Adds(new)
<1>0. /\ FilesTypeOK /\ KeysAreDrawn /\ attached \subseteq Attachments
      /\ drawn.ids \in Nat /\ MaxIds \in Nat
  BY FilesNumbers DEF HeldInv, FilesTypeOK
<1>1. CASE Stored(uploads[way]) = attached
  <2>1. Stored(uploads[way]) \ attached = {}
    BY <1>1
  <2> QED
    BY <1>1, <2>1, FS_EmptySet
<1>2. CASE Stored(uploads[way]) # attached
  <2>1. PICK new : /\ Stored(uploads[way]) = attached \cup {new} /\ new \notin attached
                   /\ new.id = drawn.ids + 1 /\ new.file \in Files
                   /\ new = [id |-> new.id, file |-> new.file, key |-> new.key]
                   /\ new.key = uploads[way].key /\ new.key # 0
                   /\ new.key \in 0..MaxKeys /\ new.key <= drawn.keys
                   /\ tab.keys[new.file] = new.key
                   /\ \A a \in attached : a.key # new.key
    BY <1>0, <1>2, StoredIsNew
  <2>2. Stored(uploads[way]) \ attached = {new}
    BY <2>1
  <2>3. Cardinality({new}) = 1
    BY FS_Singleton
  <2>4. drawn.ids < MaxIds => new.id \in AttachmentIds
    BY <1>0, <2>1 DEF AttachmentIds
  <2>5. drawn.ids < MaxIds => new \in Attachments
    BY <2>1, <2>4 DEF Attachments
  <2> QED
    BY <1>2, <2>1, <2>2, <2>3, <2>5 DEF Adds
<1> QED
  BY <1>1, <1>2

\* Requests that are aborted: the server may have done the work of one.
LEMMA AbortedServes ==
  ASSUME HeldInv, OneUploadAtATime, NEW ways \in SUBSET Ways, Aborted(ways)
  PROVE  /\ ServerStep /\ uploads' \in [Ways -> Transfers] /\ removal' = IdleRemoval
         /\ \A way \in Ways :
              uploads'[way] = IF way \in ways THEN IdleUpload ELSE uploads[way]
<1>1. /\ removal' = IdleRemoval
      /\ uploads' = [w \in Ways |-> IF w \in ways THEN IdleUpload ELSE uploads[w]]
  BY DEF Aborted
<1>2. uploads' \in [Ways -> Transfers]
  BY <1>1, FilesNumbers DEF HeldInv, FilesTypeOK
<1>3. ServerStep
  <2>1. CASE UNCHANGED <<attached, drawn, seen>>
    BY <2>1 DEF ServerStep
  <2>2. CASE \E w \in ways :
               /\ uploads[w].stage = "sent" /\ Stored(uploads[w]) # attached
               /\ drawn.ids < MaxIds
               /\ attached' = Stored(uploads[w]) /\ Sees(Stored(uploads[w]))
               /\ drawn' = [drawn EXCEPT !.ids = @ + 1]
    <3>1. PICK w \in ways :
               /\ uploads[w].stage = "sent" /\ Stored(uploads[w]) # attached
               /\ drawn.ids < MaxIds
               /\ attached' = Stored(uploads[w]) /\ Sees(Stored(uploads[w]))
               /\ drawn' = [drawn EXCEPT !.ids = @ + 1]
      BY <2>2
    <3>2. w \in Ways /\ Sees(attached')
      BY <3>1 DEF Sees
    <3> QED
      BY <3>1, <3>2, UploadIsStored DEF ServerStep
  <2>3. CASE /\ attached' = {a \in attached : a.id # removal.id}
             /\ UNCHANGED <<drawn, seen>>
    <3>1. attached' \subseteq attached
      BY <2>3
    <3> QED
      BY <2>3, <3>1 DEF ServerStep
  <2> QED
    BY <2>1, <2>2, <2>3 DEF Aborted
<1> QED
  BY <1>1, <1>2, <1>3

\* An answered upload has the number of its attachment.
LEMMA AnswerServes ==
  ASSUME HeldInv, OneUploadAtATime, NEW way \in Ways, AnswerUpload(way)
  PROVE  /\ ServerStep /\ uploads' \in [Ways -> Transfers]
         /\ \A other \in Ways \ {way} : uploads'[other] = uploads[other]
         /\ uploads'[way].files = uploads[way].files /\ uploads'[way].key = uploads[way].key
         /\ uploads[way].stage = "sent" /\ uploads'[way].stage \in {"answered", "failed"}
         /\ uploads'[way].stage = "answered" => uploads'[way].id # 0
         /\ tab' = tab /\ loads' = loads /\ removal' = removal
<1> DEFINE upload == uploads[way]
           after == Stored(upload)
           id == (CHOOSE a \in after : a.key = upload.key).id
<1>0. /\ uploads \in [Ways -> Transfers] /\ attached \subseteq Attachments
      /\ FilesTypeOK /\ KeysAreDrawn /\ drawn.ids \in Nat /\ MaxIds \in Nat
      /\ drawn \in [ids : 0..MaxIds, keys : 0..MaxKeys] /\ upload \in Transfers
  BY FilesNumbers DEF HeldInv, FilesTypeOK
<1>1. upload.stage = "sent" /\ UNCHANGED <<tab, loads, removal>>
  BY DEF AnswerUpload
<1>2. CASE /\ uploads' = [uploads EXCEPT ![way].stage = "failed"]
           /\ UNCHANGED <<attached, seen, drawn>>
  <2>1. [upload EXCEPT !.stage = "failed"] \in Transfers
    BY <1>0 DEF Transfers
  <2>2. uploads' = [uploads EXCEPT ![way] = [upload EXCEPT !.stage = "failed"]]
    BY <1>0, <1>2
  <2>3. uploads' \in [Ways -> Transfers] /\ uploads'[way] = [upload EXCEPT !.stage = "failed"]
        /\ \A other \in Ways \ {way} : uploads'[other] = uploads[other]
    BY <1>0, <2>1, <2>2
  <2>4. /\ uploads'[way].files = upload.files /\ uploads'[way].key = upload.key
        /\ uploads'[way].stage = "failed"
    BY <1>0, <2>3 DEF Transfers
  <2>5. ServerStep
    BY <1>2 DEF ServerStep
  <2> QED
    BY <1>1, <2>3, <2>4, <2>5
<1>3. CASE /\ drawn.ids + Cardinality(after \ attached) <= MaxIds
           /\ attached' = after /\ Sees(after)
           /\ drawn' = [drawn EXCEPT !.ids = @ + Cardinality(after \ attached)]
           /\ \E stage \in {"answered", "failed"} :
                uploads' = [uploads EXCEPT ![way].stage = stage, ![way].id = id]
  <2>1. ServerStep /\ after \subseteq Attachments
    <3>1. CASE after = attached
      <4>1. Cardinality(after \ attached) = 0
        BY <1>1, <3>1, UploadIsStored
      <4>2. drawn' = drawn
        <5>1. drawn.ids + Cardinality(after \ attached) = drawn.ids
          BY <1>0, <4>1
        <5>2. drawn' = [drawn EXCEPT !.ids = drawn.ids]
          BY <1>3, <5>1
        <5> QED
          BY <1>0, <5>2
      <4>3. Sees(attached')
        BY <1>3 DEF Sees
      <4> QED
        BY <1>0, <1>3, <3>1, <4>2, <4>3 DEF ServerStep
    <3>2. CASE after # attached
      <4>1. Cardinality(after \ attached) = 1
        BY <1>1, <3>2, UploadIsStored
      <4>2. drawn.ids < MaxIds /\ drawn' = [drawn EXCEPT !.ids = @ + 1]
        <5>1. /\ drawn.ids + Cardinality(after \ attached) <= MaxIds
              /\ drawn' = [drawn EXCEPT !.ids = drawn.ids + Cardinality(after \ attached)]
          BY <1>3
        <5>2. drawn.ids + 1 <= MaxIds /\ drawn' = [drawn EXCEPT !.ids = drawn.ids + 1]
          BY <4>1, <5>1
        <5> QED
          BY <1>0, <5>2
      <4>3. Sees(attached')
        BY <1>3 DEF Sees
      <4>4. \E new : Adds(new)
        BY <1>1, <1>3, <3>2, <4>2, <4>3, UploadIsStored
      <4> QED
        BY <1>0, <1>3, <4>4 DEF ServerStep, Adds
    <3> QED
      BY <3>1, <3>2
  <2>2. id \in AttachmentIds /\ id # 0
    <3>1. \E a \in after : a.key = upload.key
      BY <1>0, <1>1, StoredIsNew
    <3>2. (CHOOSE a \in after : a.key = upload.key) \in after
      BY <3>1
    <3> HIDE DEF after
    <3> QED
      BY <2>1, <3>2 DEF Attachments, AttachmentIds
  <2>3. PICK stage \in {"answered", "failed"} :
          uploads' = [uploads EXCEPT ![way].stage = stage, ![way].id = id]
    BY <1>3
  <2> HIDE DEF id
  <2>4. uploads' = [uploads EXCEPT ![way] = [upload EXCEPT !.stage = stage, !.id = id]]
    BY <1>0, <2>3
  <2>5. [upload EXCEPT !.stage = stage, !.id = id] \in Transfers
    BY <1>0, <2>2 DEF Transfers
  <2>6. uploads' \in [Ways -> Transfers]
        /\ uploads'[way] = [upload EXCEPT !.stage = stage, !.id = id]
        /\ \A other \in Ways \ {way} : uploads'[other] = uploads[other]
    BY <1>0, <2>4, <2>5
  <2>7. /\ uploads'[way].files = upload.files /\ uploads'[way].key = upload.key
        /\ uploads'[way].stage = stage /\ uploads'[way].id = id
    BY <1>0, <2>6 DEF Transfers
  <2> QED
    BY <1>1, <2>1, <2>2, <2>6, <2>7
<1> QED
  BY <1>2, <1>3 DEF AnswerUpload

LEMMA OthersServe ==
  ASSUME HeldInv, OthersAttach
  PROVE  ServerStep /\ Sees(attached') /\ UNCHANGED <<tab, loads, uploads, removal>>
<1>0. /\ attached \subseteq Attachments /\ drawn.ids \in Nat /\ drawn.keys \in Nat
      /\ MaxIds \in Nat /\ MaxKeys \in Nat /\ Unloaded \notin Files
  BY FilesNumbers, UnloadedAssumption DEF HeldInv, FilesTypeOK
<1>1. Sees(attached') /\ UNCHANGED <<tab, loads, uploads, removal>>
  BY DEF OthersAttach, Sees
<1>2. CASE /\ drawn.ids < MaxIds
           /\ attached' = attached \cup
                {[id |-> drawn.ids + 1, file |-> Unloaded, key |-> 0]}
           /\ drawn' = [drawn EXCEPT !.ids = @ + 1]
  <2> DEFINE new == [id |-> drawn.ids + 1, file |-> Unloaded, key |-> 0]
  <2>1. new \in Attachments /\ new.id = drawn.ids + 1 /\ new.file = Unloaded /\ new.key = 0
    BY <1>0, <1>2 DEF Attachments, AttachmentIds
  <2> HIDE DEF new
  <2>2. attached' = attached \cup {new}
    BY <1>2 DEF new
  <2>3. Adds(new)
    BY <1>0, <1>1, <1>2, <2>1, <2>2 DEF Adds
  <2> QED
    BY <1>1, <2>3 DEF ServerStep
<1>3. CASE /\ \E a \in attached : attached' = attached \ {a}
           /\ UNCHANGED drawn
  BY <1>1, <1>3 DEF ServerStep
<1> QED
  BY <1>1, <1>2, <1>3 DEF OthersAttach

\* Steps the server has no part in.
LEMMA QuietHeld ==
  ASSUME HeldInv, attached' = attached, drawn' = drawn, tab'.keys = tab.keys,
         seen'.acknowledged = seen.acknowledged
  PROVE  IsFiniteSet(attached)' /\ KeysAreDrawn' /\ OthersWereTold'
<1>1. drawn.ids \in Nat /\ drawn.keys \in Nat /\ \A f \in Files : tab.keys[f] <= drawn.keys
  BY FilesNumbers DEF HeldInv, FilesTypeOK, KeysAreDrawn
<1> QED
  BY <1>1, HeldKept

-----------------------------------------------------------------------------
(* Attachments: every step keeps the invariant *)

\* A list is asked for.
LEMMA AskingKeepsFiles ==
  ASSUME FilesInv, OpenPanel \/ Unfold
  PROVE  FilesInv'
<1>0. FilesTypeOK /\ HeldInv /\ AwayIsIdle /\ OneUploadAtATime /\ ListsFollowBoards
  BY DEF FilesInv, HeldInv
<1>1. /\ tab.here /\ (tab' = [tab EXCEPT !.panel = TRUE] \/ tab' = tab)
      /\ loads' = Ensured(tab) /\ UNCHANGED <<attached, uploads, removal, drawn, seen>>
  BY DEF OpenPanel, Unfold
<1>2. /\ tab' \in Tabs /\ tab'.here /\ tab'.list = tab.list /\ tab'.keys = tab.keys
      /\ tab'.busy = tab.busy /\ tab'.generation = tab.generation
  BY <1>0, <1>1 DEF FilesTypeOK, Tabs
<1>3. /\ loads' \subseteq Loads
      /\ \A l, m \in loads' : l.generation = m.generation => l = m
      /\ \A l \in loads' : l \in loads \/ (l.generation = tab.generation /\ l.stage = "asked")
  <2>1. tab \in Tabs /\ loads \subseteq Loads
        /\ \A l, m \in loads : l.generation = m.generation => l = m
    BY <1>0 DEF FilesTypeOK
  <2>2. /\ Ensured(tab) \subseteq Loads
        /\ \A l, m \in Ensured(tab) : l.generation = m.generation => l = m
        /\ \A l \in Ensured(tab) :
             l \in loads \/ (l.generation = tab.generation /\ l.stage = "asked")
    BY <2>1, EnsuredTyped
  <2> QED
    BY <1>1, <2>2
<1>4. FilesTypeOK'
  BY <1>0, <1>1, <1>2, <1>3 DEF FilesTypeOK
<1>5. IsFiniteSet(attached)' /\ KeysAreDrawn' /\ OthersWereTold'
  BY <1>0, <1>1, <1>2, QuietHeld
<1>6. AwayIsIdle'
  BY <1>2 DEF AwayIsIdle
<1>7. OneUploadAtATime'
  BY <1>0, <1>1, <1>2 DEF OneUploadAtATime
<1>8. ListsFollowBoards'
  <2>1. tab.generation \in Nat
    BY <1>0, FilesNumbers DEF FilesTypeOK, Tabs
  <2>2. ListFitsBoard'
    BY <1>0, <1>1, <1>2 DEF ListsFollowBoards, ListFitsBoard
  <2>3. \A l \in loads' :
          /\ l.generation <= tab'.generation
          /\ l.stage = "answered" /\ l.generation = tab'.generation => l.list \subseteq seen'.since
    BY <1>0, <1>1, <1>2, <1>3, <2>1 DEF ListsFollowBoards
  <2>4. IdsOf(attached') \subseteq seen'.since
    BY <1>0, <1>1 DEF ListsFollowBoards
  <2> QED
    BY <2>2, <2>3, <2>4 DEF ListsFollowBoards, IdsOf
<1> QED
  BY <1>4, <1>5, <1>6, <1>7, <1>8 DEF FilesInv

\* A list is read, and taken if its board is still the one shown.
LEMMA ReadingKeepsFiles ==
  ASSUME FilesInv, NEW l \in loads, AnswerLoad(l) \/ TakeLoad(l)
  PROVE  FilesInv'
<1>0. /\ FilesTypeOK /\ HeldInv /\ AwayIsIdle /\ OneUploadAtATime /\ ListsFollowBoards
      /\ tab \in Tabs /\ l \in Loads /\ attached \subseteq Attachments
      /\ tab.here
  BY DEF FilesInv, HeldInv, FilesTypeOK, AwayIsIdle
<1>1. UNCHANGED <<attached, uploads, removal, drawn, seen>>
  BY DEF AnswerLoad, TakeLoad
<1>2. /\ loads' \subseteq Loads
      /\ \A k, m \in loads' : k.generation = m.generation => k = m
      /\ \A k \in loads' :
           \/ k \in loads
           \/ /\ k.generation = l.generation /\ k.generation <= tab.generation
              /\ k.stage = "answered" => k.list = IdsOf(attached)
  <2>1. CASE AnswerLoad(l)
    <3>1. PICK answer : /\ loads' = (loads \ {l}) \cup {answer}
                        /\ \/ answer = [l EXCEPT !.stage = "answered", !.list = IdsOf(attached)]
                           \/ answer = [l EXCEPT !.stage = "failed"]
      BY <2>1 DEF AnswerLoad
    <3>2. IdsOf(attached) \subseteq AttachmentIds
      BY <1>0 DEF IdsOf, Attachments
    <3>3. answer \in Loads /\ answer.generation = l.generation
          /\ (answer.stage = "answered" => answer.list = IdsOf(attached))
      BY <1>0, <3>1, <3>2 DEF Loads
    <3> QED
      BY <1>0, <3>1, <3>3 DEF FilesTypeOK, ListsFollowBoards
  <2>2. CASE TakeLoad(l)
    BY <1>0, <2>2 DEF TakeLoad, FilesTypeOK
  <2> QED
    BY <2>1, <2>2
<1>3. /\ tab' \in Tabs /\ tab'.here /\ tab'.keys = tab.keys
      /\ tab'.busy = tab.busy /\ tab'.generation = tab.generation
      /\ \/ tab'.list = tab.list
         \/ l.stage = "answered" /\ l.generation = tab.generation /\ tab'.list = l.list
  <2>1. CASE AnswerLoad(l)
    BY <1>0, <2>1 DEF AnswerLoad
  <2>2. CASE TakeLoad(l)
    <3>1. PICK chosen : /\ tab' = [tab EXCEPT !.list = chosen]
                        /\ \/ chosen = tab.list
                           \/ /\ l.stage = "answered" /\ l.generation = tab.generation
                              /\ chosen = l.list
      BY <2>2 DEF TakeLoad, Current
    <3>2. chosen \in {Unloaded} \cup SUBSET AttachmentIds
      BY <1>0, <3>1 DEF Tabs, Loads
    <3>3. tab' \in Tabs
      BY <1>0, <3>1, <3>2, Zenon DEF Tabs
    <3> QED
      BY <1>0, <3>1, <3>3 DEF Tabs
  <2> QED
    BY <2>1, <2>2
<1>4. FilesTypeOK'
  BY <1>0, <1>1, <1>2, <1>3 DEF FilesTypeOK
<1>5. IsFiniteSet(attached)' /\ KeysAreDrawn' /\ OthersWereTold'
  BY <1>0, <1>1, <1>3, QuietHeld
<1>6. AwayIsIdle'
  BY <1>3 DEF AwayIsIdle
<1>7. OneUploadAtATime'
  BY <1>0, <1>1, <1>3 DEF OneUploadAtATime
<1>8. ListsFollowBoards'
  <2>1. ListFitsBoard'
    BY <1>0, <1>1, <1>3 DEF ListsFollowBoards, ListFitsBoard
  <2>2. \A k \in loads' :
          /\ k.generation <= tab'.generation
          /\ k.stage = "answered" /\ k.generation = tab'.generation => k.list \subseteq seen'.since
    BY <1>0, <1>1, <1>2, <1>3 DEF ListsFollowBoards
  <2>3. IdsOf(attached') \subseteq seen'.since
    BY <1>0, <1>1 DEF ListsFollowBoards
  <2> QED
    BY <2>1, <2>2, <2>3 DEF ListsFollowBoards, IdsOf
<1> QED
  BY <1>4, <1>5, <1>6, <1>7, <1>8 DEF FilesInv

\* Another board is shown, or the card's board again.
LEMMA BoardsKeepFiles ==
  ASSUME FilesInv, NewBoard \/ Return
  PROVE  FilesInv'
<1>0. /\ FilesTypeOK /\ HeldInv /\ AwayIsIdle /\ OneUploadAtATime /\ ListsFollowBoards
      /\ tab \in Tabs /\ attached \subseteq Attachments /\ loads \subseteq Loads
      /\ \A l, m \in loads : l.generation = m.generation => l = m
      /\ IsFiniteSet(attached)
  BY DEF FilesInv, HeldInv, FilesTypeOK
<1>1. /\ UNCHANGED <<attached, uploads, removal, drawn>>
      /\ seen' = [seen EXCEPT !.since = IdsOf(attached)]
      /\ tab.generation < MaxBoards
  BY DEF NewBoard, Return
<1>2. Cardinality(attached) \in Nat /\ tab.generation + 1 \in 0..MaxBoards
      /\ Unloaded \in {Unloaded} \cup SUBSET AttachmentIds
      /\ IdsOf(attached) \subseteq AttachmentIds /\ tab.generation \in Nat
  BY <1>0, <1>1, FilesNumbers, FS_CardinalityType DEF Tabs, IdsOf, Attachments
<1>3. /\ tab' \in Tabs /\ tab'.here /\ tab'.keys = tab.keys
      /\ tab'.busy = tab.busy /\ tab'.generation = tab.generation + 1
      /\ tab'.list = Unloaded
  <2>1. CASE NewBoard
    <3>1. tab' = [tab EXCEPT !.generation = @ + 1, !.list = Unloaded,
                             !.declared = Cardinality(attached)] /\ tab.here
      BY <2>1 DEF NewBoard
    <3>2. tab' \in Tabs
      BY <1>0, <1>2, <3>1, Zenon DEF Tabs
    <3> QED
      BY <1>0, <3>1, <3>2 DEF Tabs
  <2>2. CASE Return
    <3>1. tab' = [tab EXCEPT !.here = TRUE, !.generation = @ + 1,
                             !.declared = Cardinality(attached)] /\ ~tab.here
      BY <2>2 DEF Return
    <3>2. tab' \in Tabs
      BY <1>0, <1>2, <3>1, Zenon DEF Tabs
    <3> QED
      BY <1>0, <3>1, <3>2 DEF Tabs, AwayIsIdle
  <2> QED
    BY <2>1, <2>2
<1>4. /\ loads' \subseteq Loads
      /\ \A l, m \in loads' : l.generation = m.generation => l = m
      /\ \A l \in loads' : l \in loads \/ (l.generation = tab'.generation /\ l.stage = "asked")
  <2>1. /\ Ensured(tab') \subseteq Loads
        /\ \A l, m \in Ensured(tab') : l.generation = m.generation => l = m
        /\ \A l \in Ensured(tab') :
             l \in loads \/ (l.generation = tab'.generation /\ l.stage = "asked")
    BY <1>0, <1>3, EnsuredTyped
  <2>2. loads' = loads \/ loads' = Ensured(tab')
    BY DEF NewBoard, Return
  <2> QED
    BY <1>0, <2>1, <2>2
<1>5. /\ seen' \in [since : SUBSET AttachmentIds, own : SUBSET AttachmentIds,
                    acknowledged : [Files -> Nat]]
      /\ seen'.acknowledged = seen.acknowledged /\ seen'.since = IdsOf(attached)
  BY <1>0, <1>1, <1>2 DEF FilesTypeOK
<1>6. FilesTypeOK'
  BY <1>0, <1>1, <1>3, <1>4, <1>5 DEF FilesTypeOK
<1>7. IsFiniteSet(attached)' /\ KeysAreDrawn' /\ OthersWereTold'
  BY <1>0, <1>1, <1>3, <1>5, QuietHeld
<1>8. AwayIsIdle'
  BY <1>3 DEF AwayIsIdle
<1>9. OneUploadAtATime'
  BY <1>0, <1>1, <1>3 DEF OneUploadAtATime
<1>10. ListsFollowBoards'
  <2>1. ListFitsBoard'
    BY <1>3 DEF ListFitsBoard
  <2>2. \A l \in loads : l.generation \in Nat /\ l.generation <= tab.generation
    BY <1>0 DEF ListsFollowBoards, Loads
  <2>3. \A l \in loads' :
          /\ l.generation <= tab'.generation
          /\ ~(l.stage = "answered" /\ l.generation = tab'.generation)
    BY <1>2, <1>3, <1>4, <2>2
  <2>4. IdsOf(attached') \subseteq seen'.since
    BY <1>1, <1>5
  <2> QED
    BY <2>1, <2>3, <2>4 DEF ListsFollowBoards, IdsOf
<1> QED
  BY <1>6, <1>7, <1>8, <1>9, <1>10 DEF FilesInv

\* The panel closes, or the workspace is left: what was sent may have arrived.
LEMMA LeavingKeepsFiles ==
  ASSUME FilesInv, ClosePanel \/ LeaveWorkspace
  PROVE  FilesInv'
<1>0. /\ FilesTypeOK /\ HeldInv /\ AwayIsIdle /\ OneUploadAtATime /\ ListsFollowBoards
      /\ tab \in Tabs /\ loads \subseteq Loads /\ uploads \in [Ways -> Transfers]
      /\ \A l, m \in loads : l.generation = m.generation => l = m
  BY DEF FilesInv, HeldInv, FilesTypeOK
<1>1. PICK ways \in SUBSET Ways :
        /\ Aborted(ways)
        /\ \/ /\ tab' = [tab EXCEPT !.panel = FALSE, !.busy = Released(ways)]
              /\ tab.panel /\ loads' = loads
           \/ /\ tab' = [tab EXCEPT !.here = FALSE, !.panel = FALSE, !.list = Unloaded,
                                    !.busy = Released(ways)]
              /\ ways = Ways /\ loads' = {}
  <2>1. {"panel"} \in SUBSET Ways
    BY DEF Ways
  <2> QED
    BY <2>1 DEF ClosePanel, LeaveWorkspace
<1>2. /\ ServerStep /\ uploads' \in [Ways -> Transfers] /\ removal' = IdleRemoval
      /\ \A way \in Ways :
           uploads'[way] = IF way \in ways THEN IdleUpload ELSE uploads[way]
  BY <1>0, <1>1, AbortedServes
<1>3. /\ Released(ways) \in BOOLEAN
      /\ (\A way \in ways : uploads[way].stage = "idle") => Released(ways) = tab.busy
  BY <1>0 DEF Released, Tabs
<1>4. /\ tab' \in Tabs /\ tab'.keys = tab.keys
      /\ tab'.busy = Released(ways) /\ tab'.generation = tab.generation
      /\ \/ tab'.here = tab.here /\ tab.panel /\ tab'.list = tab.list
         \/ ~tab'.here /\ ~tab'.panel /\ tab'.list = Unloaded /\ ways = Ways /\ loads' = {}
  <2>1. CASE /\ tab' = [tab EXCEPT !.panel = FALSE, !.busy = Released(ways)]
             /\ tab.panel
    <3>1. tab' \in Tabs
      BY <1>0, <1>3, <2>1, Zenon DEF Tabs
    <3> QED
      BY <1>0, <2>1, <3>1 DEF Tabs
  <2>2. CASE /\ tab' = [tab EXCEPT !.here = FALSE, !.panel = FALSE, !.list = Unloaded,
                                   !.busy = Released(ways)]
             /\ ways = Ways /\ loads' = {}
    <3>1. Unloaded \in {Unloaded} \cup SUBSET AttachmentIds
      OBVIOUS
    <3>2. tab' \in Tabs
      BY <1>0, <1>3, <2>2, <3>1, Zenon DEF Tabs
    <3> QED
      BY <1>0, <2>2, <3>2 DEF Tabs
  <2> QED
    BY <1>1, <2>1, <2>2
<1>5. loads' \subseteq loads
  BY <1>1
<1>6. /\ attached' \subseteq Attachments
      /\ drawn' \in [ids : 0..MaxIds, keys : 0..MaxKeys]
      /\ seen' \in [since : SUBSET AttachmentIds, own : SUBSET AttachmentIds,
                    acknowledged : [Files -> Nat]]
      /\ IsFiniteSet(attached)' /\ KeysAreDrawn' /\ OthersWereTold'
      /\ seen.since \subseteq seen'.since /\ seen'.own = seen.own
      /\ IdsOf(attached') \subseteq seen'.since
  BY <1>0, <1>2, <1>4, ServerStepKeeps DEF ListsFollowBoards
<1>7. FilesTypeOK'
  <2>1. \A l, m \in loads' : l.generation = m.generation => l = m
    BY <1>0, <1>5
  <2> QED
    BY <1>0, <1>2, <1>4, <1>5, <1>6, <2>1, FilesNumbers DEF FilesTypeOK
<1>8. IdleUpload.stage = "idle" /\ IdleRemoval.stage = "idle"
  BY DEF IdleUpload, IdleRemoval
<1>9. AwayIsIdle'
  <2>1. CASE ~tab'.here /\ ~tab'.panel /\ tab'.list = Unloaded /\ ways = Ways /\ loads' = {}
    BY <1>2, <1>8, <2>1 DEF AwayIsIdle
  <2>2. CASE tab'.here = tab.here /\ tab.panel
    BY <1>0, <2>2 DEF AwayIsIdle
  <2> QED
    BY <1>4, <2>1, <2>2
<1>10. OneUploadAtATime'
  <2>1. \A way \in Ways : uploads'[way].stage # "idle" => uploads'[way] = uploads[way]
    BY <1>2, <1>8
  <2>2. \A way \in Ways : uploads'[way].stage # "idle" => Released(ways) = tab.busy
    <3> SUFFICES ASSUME NEW way \in Ways, uploads'[way].stage # "idle"
                 PROVE  Released(ways) = tab.busy
      OBVIOUS
    <3>1. way \notin ways /\ uploads[way].stage # "idle"
      BY <1>2, <1>8
    <3>2. \A other \in ways : uploads[other].stage = "idle"
      BY <1>0, <3>1 DEF OneUploadAtATime
    <3> QED
      BY <1>3, <3>2
  <2> QED
    BY <1>0, <1>2, <1>4, <1>8, <2>1, <2>2 DEF OneUploadAtATime
<1>11. ListsFollowBoards'
  <2>1. ListFitsBoard'
    BY <1>0, <1>4, <1>6 DEF ListsFollowBoards, ListFitsBoard
  <2>2. \A l \in loads' :
          /\ l.generation <= tab'.generation
          /\ l.stage = "answered" /\ l.generation = tab'.generation => l.list \subseteq seen'.since
    BY <1>0, <1>4, <1>5, <1>6 DEF ListsFollowBoards
  <2> QED
    BY <1>6, <2>1, <2>2 DEF ListsFollowBoards, IdsOf
<1> QED
  BY <1>6, <1>7, <1>9, <1>10, <1>11 DEF FilesInv

\* The server answers, or somebody else's attachment comes or goes.
LEMMA ServingKeepsFiles ==
  ASSUME FilesInv, ServerStep, tab' = tab, loads' = loads,
         uploads' \in [Ways -> Transfers], removal' \in Removals,
         ~tab.here => uploads' = uploads /\ removal' = removal,
         OneUploadAtATime'
  PROVE  FilesInv'
<1>0. /\ FilesTypeOK /\ HeldInv /\ AwayIsIdle /\ ListsFollowBoards
  BY DEF FilesInv, HeldInv
<1>1. /\ attached' \subseteq Attachments
      /\ drawn' \in [ids : 0..MaxIds, keys : 0..MaxKeys]
      /\ seen' \in [since : SUBSET AttachmentIds, own : SUBSET AttachmentIds,
                    acknowledged : [Files -> Nat]]
      /\ IsFiniteSet(attached)' /\ KeysAreDrawn' /\ OthersWereTold'
      /\ seen.since \subseteq seen'.since /\ seen'.own = seen.own
      /\ IdsOf(attached') \subseteq seen'.since
  BY <1>0, ServerStepKeeps DEF ListsFollowBoards
<1>2. FilesTypeOK'
  BY <1>0, <1>1 DEF FilesTypeOK
<1>3. AwayIsIdle'
  BY <1>0 DEF AwayIsIdle
<1>4. ListsFollowBoards'
  <2>1. ListFitsBoard'
    BY <1>0, <1>1 DEF ListsFollowBoards, ListFitsBoard
  <2>2. \A l \in loads' :
          /\ l.generation <= tab'.generation
          /\ l.stage = "answered" /\ l.generation = tab'.generation => l.list \subseteq seen'.since
    BY <1>0, <1>1 DEF ListsFollowBoards
  <2> QED
    BY <1>1, <2>1, <2>2 DEF ListsFollowBoards, IdsOf
<1> QED
  BY <1>1, <1>2, <1>3, <1>4 DEF FilesInv

LEMMA AnswersKeepFiles ==
  ASSUME FilesInv,
         OthersAttach \/ AnswerRemoval \/ \E way \in Ways : AnswerUpload(way)
  PROVE  FilesInv'
<1>0. /\ FilesTypeOK /\ HeldInv /\ AwayIsIdle /\ OneUploadAtATime
      /\ uploads \in [Ways -> Transfers] /\ removal \in Removals
  BY DEF FilesInv, HeldInv, FilesTypeOK
<1>1. CASE OthersAttach
  <2>1. ServerStep /\ UNCHANGED <<tab, loads, uploads, removal>>
    BY <1>0, <1>1, OthersServe
  <2>2. OneUploadAtATime'
    BY <1>0, <2>1 DEF OneUploadAtATime
  <2> QED
    BY <1>0, <2>1, <2>2, ServingKeepsFiles
<1>2. CASE AnswerRemoval
  <2>1. removal.stage = "sent" /\ UNCHANGED <<tab, loads, uploads, drawn, seen>>
        /\ attached' \subseteq attached
        /\ \E stage \in {"answered", "failed"} : removal' = [removal EXCEPT !.stage = stage]
    BY <1>2 DEF AnswerRemoval
  <2>2. removal' \in Removals /\ removal'.id = removal.id
    BY <1>0, <2>1 DEF Removals
  <2>3. OneUploadAtATime'
    BY <1>0, <2>1, <2>2 DEF OneUploadAtATime
  <2>4. tab.here
    BY <1>0, <2>1 DEF AwayIsIdle
  <2>5. ServerStep
    BY <2>1 DEF ServerStep
  <2> QED
    BY <1>0, <2>1, <2>2, <2>3, <2>4, <2>5, ServingKeepsFiles
<1>3. ASSUME NEW way \in Ways, AnswerUpload(way)
      PROVE  FilesInv'
  <2>1. /\ ServerStep /\ uploads' \in [Ways -> Transfers]
        /\ \A other \in Ways \ {way} : uploads'[other] = uploads[other]
        /\ uploads'[way].files = uploads[way].files /\ uploads'[way].key = uploads[way].key
        /\ uploads[way].stage = "sent" /\ uploads'[way].stage \in {"answered", "failed"}
        /\ uploads'[way].stage = "answered" => uploads'[way].id # 0
        /\ tab' = tab /\ loads' = loads /\ removal' = removal
    BY <1>0, <1>3, AnswerServes
  <2>2. tab.here
    BY <1>0, <2>1 DEF AwayIsIdle
  <2>3. OneUploadAtATime'
    BY <1>0, <2>1 DEF OneUploadAtATime
  <2> QED
    BY <1>0, <2>1, <2>2, <2>3, ServingKeepsFiles
<1> QED
  BY <1>1, <1>2, <1>3

\* A removal is sent, and its answer taken.
LEMMA RemovingKeepsFiles ==
  ASSUME FilesInv, TakeRemoval \/ \E id \in AttachmentIds : Remove(id)
  PROVE  FilesInv'
<1>0. /\ FilesTypeOK /\ HeldInv /\ AwayIsIdle /\ OneUploadAtATime /\ ListsFollowBoards
      /\ tab \in Tabs /\ removal \in Removals /\ MaxIds \in Nat
  BY FilesNumbers DEF FilesInv, HeldInv, FilesTypeOK
<1>1. UNCHANGED <<attached, loads, uploads, drawn, seen>>
  BY DEF Remove, TakeRemoval
<1>2. /\ removal' \in Removals /\ (removal'.stage # "idle" => removal'.id # 0)
      /\ tab.here
  <2>1. CASE TakeRemoval
    <3>1. removal' = IdleRemoval /\ removal.stage # "idle"
      BY <2>1 DEF TakeRemoval
    <3> QED
      BY <1>0, <3>1, FilesNumbers DEF IdleRemoval, AwayIsIdle
  <2>2. ASSUME NEW id \in AttachmentIds, Remove(id)
        PROVE  /\ removal' \in Removals /\ (removal'.stage # "idle" => removal'.id # 0)
               /\ tab.here
    <3>1. removal' = [stage |-> "sent", id |-> id] /\ tab.panel
      BY <2>2 DEF Remove
    <3>2. id # 0
      BY <1>0 DEF AttachmentIds
    <3> QED
      BY <1>0, <3>1, <3>2 DEF Removals, AwayIsIdle
  <2> QED
    BY <2>1, <2>2
<1>3. /\ tab' \in Tabs /\ tab'.here /\ tab'.keys = tab.keys
      /\ tab'.busy = tab.busy /\ tab'.generation = tab.generation
      /\ \/ tab'.list = tab.list
         \/ tab'.list = {}
         \/ tab.list # Unloaded /\ tab'.list \subseteq tab.list
  <2>1. CASE TakeRemoval
    <3>1. PICK chosen : /\ tab' = [tab EXCEPT !.list = chosen]
                        /\ \/ chosen = tab.list
                           \/ tab.list = Unloaded /\ chosen = {}
                           \/ tab.list # Unloaded /\ chosen = tab.list \ {removal.id}
      BY <2>1 DEF TakeRemoval
    <3>2. chosen \in {Unloaded} \cup SUBSET AttachmentIds
      BY <1>0, <3>1 DEF Tabs
    <3>3. tab' \in Tabs
      BY <1>0, <3>1, <3>2, Zenon DEF Tabs
    <3> QED
      BY <1>0, <1>2, <3>1, <3>3 DEF Tabs
  <2>2. CASE \E id \in AttachmentIds : Remove(id)
    BY <1>0, <1>2, <2>2 DEF Remove
  <2> QED
    BY <2>1, <2>2
<1>4. FilesTypeOK'
  BY <1>0, <1>1, <1>2, <1>3 DEF FilesTypeOK
<1>5. IsFiniteSet(attached)' /\ KeysAreDrawn' /\ OthersWereTold'
  BY <1>0, <1>1, <1>3, QuietHeld
<1>6. AwayIsIdle'
  BY <1>3 DEF AwayIsIdle
<1>7. OneUploadAtATime'
  BY <1>0, <1>1, <1>2, <1>3 DEF OneUploadAtATime
<1>8. ListsFollowBoards'
  <2>1. ListFitsBoard'
    BY <1>0, <1>1, <1>3 DEF ListsFollowBoards, ListFitsBoard
  <2> QED
    BY <1>0, <1>1, <1>3, <2>1 DEF ListsFollowBoards, IdsOf
<1> QED
  BY <1>4, <1>5, <1>6, <1>7, <1>8 DEF FilesInv

\* The loop over the files of one drop or choice goes on or ends.
LEMMA LoopKeepsFiles ==
  ASSUME FilesInv, NEW way \in Ways, NEW t \in Tabs, NEW files \in Seq(Files),
         UploadNext(way, t, files),
         \A other \in Ways \ {way} : uploads[other].stage = "idle",
         tab.here, t.here, t.generation = tab.generation,
         loads' = loads \/ loads' = Ensured(t),
         attached' = attached, removal' = removal,
         seen' \in [since : SUBSET AttachmentIds, own : SUBSET AttachmentIds,
                    acknowledged : [Files -> Nat]],
         seen'.since = seen.since,
         t.list # Unloaded => t.list \subseteq seen.since \cup seen'.own,
         \A f \in Files :
           /\ t.keys[f] <= drawn.keys
           /\ \/ seen'.acknowledged[f] = seen.acknowledged[f] /\ t.keys[f] = tab.keys[f]
              \/ seen'.acknowledged[f] = seen.acknowledged[f] + 1 /\ tab.keys[f] # 0
  PROVE  FilesInv'
<1>0. /\ FilesTypeOK /\ HeldInv /\ AwayIsIdle /\ OneUploadAtATime /\ ListsFollowBoards
      /\ attached \subseteq Attachments /\ loads \subseteq Loads
      /\ \A l, m \in loads : l.generation = m.generation => l = m
      /\ drawn.ids \in Nat /\ drawn.keys \in Nat /\ tab.generation \in Nat
  BY FilesNumbers, SMTT(30) DEF FilesInv, HeldInv, FilesTypeOK, Tabs
<1>1. /\ tab' \in Tabs /\ uploads' \in [Ways -> Transfers]
      /\ drawn' \in [ids : 0..MaxIds, keys : 0..MaxKeys]
      /\ drawn'.ids = drawn.ids /\ drawn.keys <= drawn'.keys
      /\ tab'.here = t.here /\ tab'.panel = t.panel /\ tab'.generation = t.generation
      /\ tab'.list = t.list
      /\ \A other \in Ways \ {way} : uploads'[other] = uploads[other]
      /\ \A f \in Files :
           /\ tab'.keys[f] <= drawn'.keys
           /\ tab'.keys[f] # t.keys[f] => t.keys[f] = 0 /\ tab'.keys[f] = drawn.keys + 1
      /\ \/ uploads'[way] = IdleUpload
         \/ /\ uploads'[way].stage = "sent" /\ tab'.busy /\ uploads'[way].files # <<>>
            /\ uploads'[way].key # 0
            /\ tab'.keys[Head(uploads'[way].files)] = uploads'[way].key
  BY <1>0, UploadNextTyped
<1>2. /\ loads' \subseteq Loads
      /\ \A l, m \in loads' : l.generation = m.generation => l = m
      /\ \A l \in loads' : l \in loads \/ (l.generation = tab.generation /\ l.stage = "asked")
  <2>1. /\ Ensured(t) \subseteq Loads
        /\ \A l, m \in Ensured(t) : l.generation = m.generation => l = m
        /\ \A l \in Ensured(t) :
             l \in loads \/ (l.generation = tab.generation /\ l.stage = "asked")
    BY <1>0, EnsuredTyped
  <2> QED
    BY <1>0, <2>1
<1>3. FilesTypeOK'
  BY <1>0, <1>1, <1>2 DEF FilesTypeOK
<1>4. IsFiniteSet(attached)' /\ KeysAreDrawn' /\ OthersWereTold'
  <2>1. drawn'.ids \in Nat /\ drawn'.keys \in Nat
    BY <1>1, FilesNumbers
  <2>2. ASSUME NEW f \in Files
        PROVE  \/ /\ seen'.acknowledged[f] = seen.acknowledged[f]
                  /\ tab'.keys[f] # tab.keys[f] => tab.keys[f] = 0
               \/ /\ seen'.acknowledged[f] = seen.acknowledged[f] + 1
                  /\ tab.keys[f] # 0
    <3>1. tab'.keys[f] # t.keys[f] => t.keys[f] = 0
      BY <1>1
    <3>2. \/ seen'.acknowledged[f] = seen.acknowledged[f] /\ t.keys[f] = tab.keys[f]
          \/ seen'.acknowledged[f] = seen.acknowledged[f] + 1 /\ tab.keys[f] # 0
      OBVIOUS
    <3> QED
      BY <3>1, <3>2
  <2>3. attached' \subseteq attached /\ drawn.ids <= drawn'.ids
    BY <1>0, <1>1
  <2> QED
    BY <1>0, <1>1, <2>1, <2>2, <2>3, HeldKept
<1>5. AwayIsIdle'
  BY <1>1 DEF AwayIsIdle
<1>6. IdleUpload.stage = "idle"
  BY DEF IdleUpload
<1>7. OneUploadAtATime'
  <2>1. \A other \in Ways \ {way} : uploads'[other].stage = "idle"
    BY <1>1
  <2>2. uploads'[way].stage \in {"idle", "sent"}
    BY <1>1, <1>6
  <2> QED
    BY <1>0, <1>1, <1>6, <2>1, <2>2 DEF OneUploadAtATime
<1>8. ListsFollowBoards'
  <2>1. ListFitsBoard'
    BY <1>1 DEF ListFitsBoard
  <2>2. \A l \in loads' :
          /\ l.generation <= tab'.generation
          /\ l.stage = "answered" /\ l.generation = tab'.generation => l.list \subseteq seen'.since
    BY <1>0, <1>1, <1>2 DEF ListsFollowBoards
  <2>3. IdsOf(attached') \subseteq seen'.since
    BY <1>0 DEF ListsFollowBoards
  <2> QED
    BY <2>1, <2>2, <2>3 DEF ListsFollowBoards, IdsOf
<1> QED
  BY <1>3, <1>4, <1>5, <1>7, <1>8 DEF FilesInv

\* Files are sent, an answer is taken, a failure ends the loop.
LEMMA UploadsKeepFiles ==
  ASSUME FilesInv, NEW way \in Ways,
         \/ \E files \in Seq(Files) : Upload(way, files)
         \/ TakeUpload(way) \/ UploadFails(way)
  PROVE  FilesInv'
<1>0. /\ FilesTypeOK /\ HeldInv /\ AwayIsIdle /\ OneUploadAtATime /\ ListsFollowBoards
      /\ tab \in Tabs /\ uploads \in [Ways -> Transfers] /\ KeysAreDrawn
      /\ seen \in [since : SUBSET AttachmentIds, own : SUBSET AttachmentIds,
                   acknowledged : [Files -> Nat]]
      /\ tab.list # Unloaded => tab.list \subseteq seen.since \cup seen.own
      /\ \A f \in Files : tab.keys[f] <= drawn.keys
      /\ drawn.keys \in Nat
  BY FilesNumbers
     DEF FilesInv, HeldInv, FilesTypeOK, KeysAreDrawn, ListsFollowBoards, ListFitsBoard
<1>1. ASSUME NEW files \in Seq(Files), Upload(way, files)
      PROVE  FilesInv'
  <2>1. /\ tab.here /\ ~tab.busy /\ UploadNext(way, tab, files)
        /\ UNCHANGED <<attached, loads, removal, seen>>
    BY <1>1 DEF Upload, MayUpload
  <2>2. \A other \in Ways \ {way} : uploads[other].stage = "idle"
    BY <1>0, <2>1 DEF OneUploadAtATime
  <2> QED
    BY <1>0, <2>1, <2>2, LoopKeepsFiles
<1>2. CASE UploadFails(way)
  <2>1. /\ uploads[way].stage = "failed" /\ UploadNext(way, tab, <<>>)
        /\ UNCHANGED <<attached, loads, removal, seen>> /\ <<>> \in Seq(Files)
    BY <1>2 DEF UploadFails
  <2>2. tab.here /\ \A other \in Ways \ {way} : uploads[other].stage = "idle"
    BY <1>0, <2>1 DEF OneUploadAtATime, AwayIsIdle
  <2> QED
    BY <1>0, <2>1, <2>2, LoopKeepsFiles
<1>3. CASE TakeUpload(way)
  <2> DEFINE upload == uploads[way]
             file == Head(upload.files)
             id == upload.id
             chosen == IF tab.list = Unloaded THEN Unloaded ELSE tab.list \cup {id}
             t == [tab EXCEPT !.keys[file] = 0, !.list = chosen]
  <2>1. /\ upload.stage = "answered" /\ loads' = Ensured(t)
        /\ UploadNext(way, t, Tail(upload.files))
        /\ seen' = [seen EXCEPT !.own = @ \cup {id}, !.acknowledged[file] = @ + 1]
        /\ UNCHANGED <<attached, removal>>
    <3>1. t = [tab EXCEPT !.keys[file] = 0,
                          !.list = IF @ = Unloaded THEN @ ELSE @ \cup {upload.id}]
      OBVIOUS
    <3> HIDE DEF t
    <3> QED
      BY <1>3, <3>1 DEF TakeUpload
  <2>2. /\ upload \in Transfers /\ upload.files # <<>> /\ upload.files \in Seq(Files)
        /\ id \in AttachmentIds /\ tab.keys[file] # 0
    BY <1>0, <2>1 DEF OneUploadAtATime, Transfers
  <2>3. file \in Files /\ Tail(upload.files) \in Seq(Files)
    BY <2>2, HeadTailProperties
  <2>4. tab.here /\ \A other \in Ways \ {way} : uploads[other].stage = "idle"
    BY <1>0, <2>1 DEF OneUploadAtATime, AwayIsIdle
  <2>5. chosen \in {Unloaded} \cup SUBSET AttachmentIds
    BY <1>0, <2>2 DEF Tabs
  <2>6. [tab.keys EXCEPT ![file] = 0] \in [Files -> 0..MaxKeys]
    BY <1>0, <2>3, FilesNumbers DEF Tabs
  <2> HIDE DEF file, id
  <2>7. t \in Tabs
    <3> HIDE DEF chosen
    <3> QED
      BY <1>0, <2>5, <2>6, Zenon DEF Tabs
  <2>8. /\ t.here = tab.here /\ t.generation = tab.generation /\ t.list = chosen
        /\ t.keys = [tab.keys EXCEPT ![file] = 0]
    <3> HIDE DEF chosen
    <3> QED
      BY <1>0 DEF Tabs
  <2>9. \A f \in Files :
           /\ t.keys[f] <= drawn.keys
           /\ f # file => t.keys[f] = tab.keys[f]
    <3>1. tab.keys \in [Files -> 0..MaxKeys]
      BY <1>0 DEF Tabs
    <3> HIDE DEF t
    <3> QED
      BY <1>0, <2>3, <2>8, <3>1
  <2>10. /\ seen'.since = seen.since /\ seen'.own = seen.own \cup {id}
         /\ seen'.acknowledged = [seen.acknowledged EXCEPT ![file] = @ + 1]
    BY <1>0, <2>1
  <2>11. [seen.acknowledged EXCEPT ![file] = @ + 1] \in [Files -> Nat]
    BY <1>0, <2>3
  <2>12. seen' \in [since : SUBSET AttachmentIds, own : SUBSET AttachmentIds,
                    acknowledged : [Files -> Nat]]
    BY <1>0, <2>1, <2>2, <2>10, <2>11
  <2>13. t.list # Unloaded => t.list \subseteq seen.since \cup seen'.own
    <3> HIDE DEF t
    <3> QED
      BY <1>0, <2>8, <2>10
  <2>14. \A f \in Files :
           \/ seen'.acknowledged[f] = seen.acknowledged[f] /\ t.keys[f] = tab.keys[f]
           \/ seen'.acknowledged[f] = seen.acknowledged[f] + 1 /\ tab.keys[f] # 0
    <3> HIDE DEF t
    <3> QED
      BY <1>0, <2>2, <2>9, <2>10
  <2>15. \A f \in Files :
           /\ t.keys[f] <= drawn.keys
           /\ \/ seen'.acknowledged[f] = seen.acknowledged[f] /\ t.keys[f] = tab.keys[f]
              \/ seen'.acknowledged[f] = seen.acknowledged[f] + 1 /\ tab.keys[f] # 0
    BY <2>9, <2>14
  <2> DEFINE left == Tail(upload.files)
  <2> HIDE DEF t
  <2>16. UploadNext(way, t, left) /\ left \in Seq(Files) /\ loads' = Ensured(t)
         /\ attached' = attached /\ removal' = removal /\ t.here
         /\ t.generation = tab.generation /\ seen'.since = seen.since
    BY <2>1, <2>3, <2>4, <2>8, <2>10
  <2> HIDE DEF left
  <2> QED
    BY <2>4, <2>7, <2>12, <2>13, <2>15, <2>16, LoopKeepsFiles
<1> QED
  BY <1>1, <1>2, <1>3

LEMMA FilesInvariant == FilesSpec => []FilesInv
<1>1. FilesInit => FilesInv
  <2> SUFFICES ASSUME FilesInit PROVE FilesInv
    OBVIOUS
  <2>1. /\ attached = {} /\ loads = {} /\ removal = IdleRemoval
        /\ tab = [here |-> TRUE, panel |-> FALSE, generation |-> 0, declared |-> 0,
                  list |-> Unloaded, busy |-> FALSE, keys |-> [f \in Files |-> 0]]
        /\ uploads = [w \in Ways |-> IdleUpload]
        /\ drawn = [ids |-> 0, keys |-> 0]
        /\ seen = [since |-> {}, own |-> {}, acknowledged |-> [f \in Files |-> 0]]
    BY DEF FilesInit
  <2>2. 0 \in 0..MaxKeys /\ 0 \in 0..MaxIds /\ 0 \in 0..MaxBoards
    BY FilesNumbers
  <2>3. FilesTypeOK
    BY <2>1, <2>2, FilesNumbers DEF FilesTypeOK, Tabs
  <2>4. IsFiniteSet(attached) /\ AwayIsIdle /\ KeysAreDrawn
    BY <2>1, FS_EmptySet DEF AwayIsIdle, KeysAreDrawn
  <2>5. OneUploadAtATime
    <3>1. \A way \in Ways : uploads[way].stage = "idle"
      BY <2>1 DEF IdleUpload
    <3>2. removal.stage = "idle"
      BY <2>1 DEF IdleRemoval
    <3> QED
      BY <3>1, <3>2 DEF OneUploadAtATime
  <2>6. OthersWereTold
    <3>1. \A f \in Files : {a \in attached : a.file = f /\ a.key # tab.keys[f]} = {}
      BY <2>1
    <3> QED
      BY <2>1, <3>1, FS_EmptySet DEF OthersWereTold
  <2>7. ListsFollowBoards
    BY <2>1 DEF ListsFollowBoards, ListFitsBoard, IdsOf
  <2> QED
    BY <2>3, <2>4, <2>5, <2>6, <2>7 DEF FilesInv
<1>2. FilesInv /\ [FilesNext]_fileVars => FilesInv'
  <2> SUFFICES ASSUME FilesInv, [FilesNext]_fileVars PROVE FilesInv'
    OBVIOUS
  <2>1. CASE OpenPanel \/ Unfold
    BY <2>1, AskingKeepsFiles
  <2>2. CASE NewBoard \/ Return
    BY <2>2, BoardsKeepFiles
  <2>3. CASE ClosePanel \/ LeaveWorkspace
    BY <2>3, LeavingKeepsFiles
  <2>4. CASE OthersAttach \/ AnswerRemoval \/ \E way \in Ways : AnswerUpload(way)
    BY <2>4, AnswersKeepFiles
  <2>5. CASE \E l \in loads : AnswerLoad(l) \/ TakeLoad(l)
    BY <2>5, ReadingKeepsFiles
  <2>6. CASE TakeRemoval \/ \E id \in AttachmentIds : Remove(id)
    BY <2>6, RemovingKeepsFiles
  <2>7. ASSUME NEW way \in Ways,
               \/ \E f \in Files : Upload(way, <<f>>)
               \/ \E f, g \in Files : f # g /\ Upload(way, <<f, g>>)
               \/ TakeUpload(way) \/ UploadFails(way)
        PROVE  FilesInv'
    <3>1. \A f, g \in Files : <<f>> \in Seq(Files) /\ <<f, g>> \in Seq(Files)
      OBVIOUS
    <3> QED
      BY <2>7, <3>1, UploadsKeepFiles
  <2>8. CASE UNCHANGED fileVars
    BY <2>8 DEF fileVars, FilesInv, FilesTypeOK, AwayIsIdle, OneUploadAtATime, KeysAreDrawn,
                OthersWereTold, ListsFollowBoards, ListFitsBoard, IdsOf
  <2> QED
    BY <2>1, <2>2, <2>3, <2>4, <2>5, <2>6, <2>7, <2>8 DEF FilesNext
<1> QED
  BY <1>1, <1>2, PTL DEF FilesSpec

\* However often an upload is sent again, one attachment of a file at most is one
\* that no upload of this tab was told of: the file's key outlives the panel, the
\* board and the workspace it was sent from.
THEOREM FilesAreAttachedOnce == FilesSpec => []FilesAttachedOnce
<1>1. FilesInv => FilesAttachedOnce
  <2> SUFFICES ASSUME FilesInv, NEW f \in Files
               PROVE  Cardinality({a \in attached : a.file = f}) <= seen.acknowledged[f] + 1
    BY DEF FilesAttachedOnce
  <2> DEFINE S == {a \in attached : a.file = f}
             K == {a \in attached : a.file = f /\ a.key = tab.keys[f]}
  <2>1. /\ FilesTypeOK /\ IsFiniteSet(attached) /\ KeysAreDrawn
        /\ Cardinality(Others(f)) <= seen.acknowledged[f] /\ seen.acknowledged[f] \in Nat
    BY DEF FilesInv, FilesTypeOK, OthersWereTold, Others
  <2>2. \A a, b \in K : a = b
    BY <2>1 DEF KeysAreDrawn
  <2>3. S \subseteq Others(f) \cup K /\ S \subseteq attached /\ Others(f) \subseteq attached
    BY DEF Others
  <2> HIDE DEF S, K
  <2>4. IsFiniteSet(Others(f)) /\ IsFiniteSet(S)
    BY <2>1, <2>3, FS_Subset
  <2>5. Cardinality(S) <= Cardinality(Others(f)) + 1
    BY <2>2, <2>3, <2>4, OneMore
  <2>6. Cardinality(S) \in Nat /\ Cardinality(Others(f)) \in Nat
    BY <2>4, FS_CardinalityType
  <2>7. Cardinality(S) <= seen.acknowledged[f] + 1
    BY <2>1, <2>5, <2>6
  <2> QED
    BY <2>7 DEF S
<1> QED
  BY <1>1, FilesInvariant, PTL

\* Loads, removals and uploads that answer late, out of order or for another
\* board put nothing into the list that was gone before the board shown was read.
THEOREM ListsFitBoards == FilesSpec => []ListFitsBoard
<1>1. FilesInv => ListFitsBoard
  BY DEF FilesInv, ListsFollowBoards
<1> QED
  BY <1>1, FilesInvariant, PTL

-----------------------------------------------------------------------------
(* The card: its parts one beside the other *)

\* The card lets its parts run as they are.
LEMMA PartsRun == CardSpec => CommentsSpec /\ FilesSpec /\ EditorSpec
<1>1. CardInit => CommentsInit /\ FilesInit /\ EditorInit
  BY DEF CardInit
<1>2. [CardNext]_cardVars =>
        [CommentsNext]_commentVars /\ [FilesNext]_fileVars /\ [EditorNext]_editorVars
  BY DEF CardNext, cardVars
<1> QED
  BY <1>1, <1>2, PTL DEF CardSpec, CommentsSpec, FilesSpec, EditorSpec

\* Every variable of the card's dialog keeps its type, whichever part runs.
THEOREM CardTypes == CardSpec => []CardTypeOK
<1>1. CommentsInv => CommentsTypeOK
  BY DEF CommentsInv
<1>2. FilesInv => FilesTypeOK
  BY DEF FilesInv
<1>3. CardInit => part \in {"comments", "files", "form"}
  BY DEF CardInit
<1>4. part \in {"comments", "files", "form"} /\ [CardNext]_cardVars
        => (part \in {"comments", "files", "form"})'
  BY DEF CardNext, cardVars
<1>5. /\ part \in {"comments", "files", "form"}
      /\ CommentsTypeOK /\ FilesTypeOK /\ EditorTypeOK
      => CardTypeOK
  BY DEF CardTypeOK
<1> QED
  BY <1>1, <1>2, <1>3, <1>4, <1>5, PartsRun, CommentsInvariant, FilesInvariant, EditorTypes,
     PTL DEF CardSpec

\* Nothing the user presses again to send from the card is stored twice: no comment
\* as long as no other text is sent and no answer received in between, no file that
\* was dropped on the card; and what was acknowledged is stored.
THEOREM SentIsStoredOnce == CardSpec => []SentOnce
<1>1. StoredOnce /\ FilesAttachedOnce => SentOnce
  BY DEF SentOnce
<1> QED
  BY <1>1, PartsRun, TextsAreStoredOnce, FilesAreAttachedOnce, PTL

=============================================================================
