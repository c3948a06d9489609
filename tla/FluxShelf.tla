----------------------------- MODULE FluxShelf -----------------------------
(***************************************************************************)
(* What the attachment endpoints of one workspace promise: a shelf of      *)
(* files.  A file is listed under a key of its own, once for each uploader *)
(* and idempotency key; an upload is answered with what became of it, and  *)
(* a listed file can be read until it is removed.  There is no blob store  *)
(* here, no reservation and no worker.  FluxAttachments shows that they    *)
(* implement exactly this, whatever fails in between.                      *)
(***************************************************************************)
EXTENDS Integers

CONSTANTS
    Key,           \* storage keys
    Request,       \* uploads: [uploader, idempotencyKey, content]
    Handler,       \* request handlers
    AckMayBeLost,  \* uploads whose commit may succeed and be reported as failed
    None

VARIABLES
    listed,   \* the files on the shelf: [key, request]
    spent,    \* keys handed out so far
    sending,  \* the file a handler is receiving, or None
    reading,  \* the key a handler is about to read, or None
    answer    \* what a handler answered

shelfVars == <<listed, spent, sending, reading, answer>>

File == [key: Key, request: Request]

\* The file that was listed under the uploader and idempotency key of request.
Twins(request) ==
    {e \in listed : /\ e.request.uploader = request.uploader
                    /\ e.request.idempotencyKey = request.idempotencyKey}

\* The bytes of these files are promised to every reader.
Kept(k) == \E e \in listed : e.key = k /\ e.request \notin AckMayBeLost

ShelfInit ==
    /\ listed = {} /\ spent = {}
    /\ sending = [h \in Handler |-> None]
    /\ reading = [h \in Handler |-> None]
    /\ answer = [h \in Handler |-> None]

Idle(h) == sending[h] = None /\ reading[h] = None
Say(h, text) == answer' = [answer EXCEPT ![h] = text]

-----------------------------------------------------------------------------
(* Uploads *)

\* An upload begins under a key nobody had before.
Begin(h, file) ==
    /\ Idle(h) /\ file.key \notin spent
    /\ spent' = spent \cup {file.key}
    /\ sending' = [sending EXCEPT ![h] = file]
    /\ Say(h, None)
    /\ UNCHANGED <<listed, reading>>

\* The upload ends with this answer.
End(h, text) ==
    /\ sending' = [sending EXCEPT ![h] = None]
    /\ Say(h, text)
    /\ UNCHANGED <<spent, reading>>

\* The file is listed, and the uploader told so unless the answer is lost.
Store(h) ==
    /\ sending[h] # None
    /\ Twins(sending[h].request) = {}
    /\ \/ End(h, "created")
       \/ sending[h].request \in AckMayBeLost /\ End(h, "failed")
    /\ listed' = listed \cup {sending[h]}

\* A retry is told that its file is there; another file under the same
\* idempotency key is refused.
Replay(h) ==
    /\ sending[h] # None
    /\ \E e \in Twins(sending[h].request) :
         End(h, IF e.request = sending[h].request THEN "replayed" ELSE "failed")
    /\ UNCHANGED listed

Fail(h) == sending[h] # None /\ End(h, "failed") /\ UNCHANGED listed

-----------------------------------------------------------------------------
(* Removals, downloads and crashes *)

\* An upload is turned away, or a file leaves the shelf.
TurnAway(h) ==
    /\ Idle(h) /\ Say(h, None)
    /\ UNCHANGED <<listed, spent, sending, reading>>
Remove(h, file) ==
    /\ Idle(h) /\ Say(h, None)
    /\ listed' = listed \ {file}
    /\ UNCHANGED <<spent, sending, reading>>

BeginRead(h, file) ==
    /\ Idle(h) /\ Say(h, None)
    /\ reading' = [reading EXCEPT ![h] = file.key]
    /\ UNCHANGED <<listed, spent, sending>>

\* A file that is kept until the end of the download is sent.
Read(h) ==
    /\ reading[h] # None
    /\ \/ Say(h, "sent")
       \/ ~Kept(reading[h]) /\ Say(h, "unavailable")
    /\ reading' = [reading EXCEPT ![h] = None]
    /\ UNCHANGED <<listed, spent, sending>>

\* A handler is gone: what it was sending will never be listed.
Crash(h) ==
    /\ sending' = [sending EXCEPT ![h] = None]
    /\ reading' = [reading EXCEPT ![h] = None]
    /\ Say(h, None)
    /\ UNCHANGED <<listed, spent>>

ShelfNext ==
    \E h \in Handler :
        \/ \E file \in File : Begin(h, file)
        \/ Store(h) \/ Replay(h) \/ Fail(h)
        \/ TurnAway(h) \/ Read(h) \/ Crash(h)
        \/ \E file \in listed : Remove(h, file) \/ BeginRead(h, file)

ShelfSpec == ShelfInit /\ [][ShelfNext]_shelfVars
=============================================================================
