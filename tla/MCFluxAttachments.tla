------------------------- MODULE MCFluxAttachments -------------------------
(***************************************************************************)
(* Small instances for TLC: two storage keys, and requests that share an   *)
(* idempotency key with the same and with different content.               *)
(***************************************************************************)
EXTENDS FluxAttachments

CONSTANTS ann

Upload(idempotencyKey, content) ==
    [uploader |-> ann, idempotencyKey |-> idempotencyKey, content |-> content]

\* A file, its retry, and another file under the same idempotency key.
Uploads == {Upload("i1", "a"), Upload("i1", "b")}
OneUpload == {Upload("i1", "a")}

\* The upload whose commit may be reported as failed: its bytes may go, those
\* of the other uploads must stay.
LostAcks == {Upload("i1", "b")}
=============================================================================
