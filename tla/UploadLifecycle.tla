---------------------------- MODULE UploadLifecycle ----------------------------
(***************************************************************************)
(* What whoever sends a file in chunks may count on, with no requests, no  *)
(* object store and no purges in the middle of anything.  Chunks may be    *)
(* sent again as long as the upload receives.  It is closed once: as       *)
(* complete, with the digest of the sound file its chunks make up at that  *)
(* moment, and one run; as rejected, when every chunk was there; or it is  *)
(* thrown away.  Later only its chunks go.  Uploads implements this.       *)
(***************************************************************************)
EXTENDS Naturals

CONSTANTS
    Index,       \* places of a chunk in the file
    Content,     \* what a chunk may be
    Files,       \* contents for every place
    SoundFiles,  \* those of them that can be processed
    None         \* nothing at any place

VARIABLES
    status,  \* receiving, complete, rejected or purged
    chunks,  \* the content received for each place
    digest,  \* the file the upload was completed with
    runs     \* pipeline runs it opened

vars == <<status, chunks, digest, runs>>

Init ==
    /\ status = "receiving"
    /\ chunks = None /\ digest = None
    /\ runs = 0

Receive(i, c) ==
    /\ status = "receiving"
    /\ chunks' = [chunks EXCEPT ![i] = c]
    /\ UNCHANGED <<status, digest, runs>>

Complete ==
    /\ status = "receiving" /\ chunks \in SoundFiles
    /\ status' = "complete"
    /\ digest' = chunks
    /\ runs' = 1
    /\ UNCHANGED chunks

Reject ==
    /\ status = "receiving" /\ chunks \in Files
    /\ status' = "rejected"
    /\ UNCHANGED <<chunks, digest, runs>>

Abandon ==
    /\ status = "receiving"
    /\ status' = "purged" /\ chunks' = None
    /\ UNCHANGED <<digest, runs>>

Forget(i) ==
    /\ status \in {"complete", "rejected"}
    /\ chunks' = [chunks EXCEPT ![i] = None[i]]
    /\ UNCHANGED <<status, digest, runs>>

Next ==
    \/ \E i \in Index, c \in Content : Receive(i, c)
    \/ \E i \in Index : Forget(i)
    \/ Complete \/ Reject \/ Abandon

Spec == Init /\ [][Next]_vars
===============================================================================
