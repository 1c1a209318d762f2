-------------------------------- MODULE Uploads --------------------------------
(***************************************************************************)
(* One upload in chunks, on a floor that stays live.  #6 stores a chunk    *)
(* and then writes its row, #7 joins the chunks into the original and then *)
(* closes the upload, and the purges remove what nobody needs.  None of    *)
(* them holds a transaction while it talks to the object store, so every   *)
(* handler is several steps, with any other one in between: a chunk sent   *)
(* twice, two parallel #7, a purge in the middle of either.                *)
(*                                                                         *)
(* A chunk object's key carries the digest of its content, so a chunk is   *)
(* named by its index and content.  A file is sound when all its chunks    *)
(* are; any other one is refused by its type, its end marker or its pages. *)
(* A request #7 that dies is one that takes no further step.               *)
(***************************************************************************)
EXTENDS Naturals

CONSTANTS
    Chunks,    \* chunk_count of the upload
    Calls,     \* requests #7
    MaxSends   \* bound: requests #6

ASSUME ConstantsAssumption == Chunks \in Nat \ {0} /\ MaxSends \in Nat

Index == 1..Chunks
Content == {"sound", "broken"}
Chunk == Index \X Content
Files == [Index -> Content]
None == [i \in Index |-> "none"]
Sound(file) == \A i \in Index : file[i] = "sound"

VARIABLES
    status,     \* receiving, complete, rejected, or purged: the row is gone
    rows,       \* upload_chunks: the content each index points to
    stored,     \* chunk objects in the store
    original,   \* the joined object, None without one
    digest,     \* content_sha256
    runs,       \* pipeline runs opened by this upload
    sends,      \* requests #6 so far
    accepted,   \* chunks a #6 checked and has not put yet
    put,        \* chunks a #6 put and has not saved yet
    call,       \* where each #7 is, and the chunks it read
    old,        \* updated_at is before the cutoff of the purge
    abandoned,  \* what the purge of abandoned uploads is about to do
    freshChunk, \* history: a chunk was saved since the purge listed the upload
    trash,      \* indexes whose object the purge of finished chunks deleted
    orphans     \* chunk objects that the orphan purge looked up and is about to delete

chunkVars == <<rows, stored, sends, accepted, put>>
purgeVars == <<old, abandoned, freshChunk, trash, orphans>>
vars == <<status, chunkVars, original, digest, runs, call, purgeVars>>

Idle == [at |-> "idle", chunks |-> None]

Init ==
    /\ status = "receiving"
    /\ rows = None /\ original = None /\ digest = None
    /\ stored = {} /\ accepted = {} /\ put = {} /\ trash = {} /\ orphans = {}
    /\ runs = 0 /\ sends = 0
    /\ call = [c \in Calls |-> Idle]
    /\ old = FALSE /\ abandoned = "no" /\ freshChunk = FALSE

-----------------------------------------------------------------------------
(* #6, upload_chunk *)

AcceptChunk(k) ==
    /\ status = "receiving"
    /\ sends < MaxSends
    /\ sends' = sends + 1
    /\ accepted' = accepted \cup {k}
    /\ UNCHANGED <<status, rows, stored, put, original, digest, runs, call, purgeVars>>

PutChunk(k) ==
    /\ k \in accepted
    /\ accepted' = accepted \ {k}
    /\ stored' = stored \cup {k}
    /\ put' = put \cup {k}
    /\ UNCHANGED <<status, rows, sends, original, digest, runs, call, purgeVars>>

\* _save_chunk: only while the upload receives; `uploads.updated_at` is not touched.
SaveChunk(k) ==
    /\ k \in put
    /\ put' = put \ {k}
    /\ IF status = "receiving"
         THEN rows' = [rows EXCEPT ![k[1]] = k[2]] /\ freshChunk' = TRUE
         ELSE UNCHANGED <<rows, freshChunk>>
    /\ UNCHANGED <<status, stored, sends, accepted, original, digest, runs, call, old, abandoned,
                   trash, orphans>>

\* The request dies after its put: a lost connection, or the process.
AbortChunk(k) ==
    /\ k \in put
    /\ put' = put \ {k}
    /\ UNCHANGED <<status, rows, stored, sends, accepted, original, digest, runs, call, purgeVars>>

-----------------------------------------------------------------------------
(* #7, complete_upload *)

BeginComplete(c) ==
    /\ call[c].at = "idle"
    /\ status = "receiving"
    /\ rows \in Files
    /\ call' = [call EXCEPT ![c] = [at |-> "building", chunks |-> rows]]
    /\ UNCHANGED <<status, chunkVars, original, digest, runs, purgeVars>>

\* _build_original.  A chunk object that is gone is a 404, which rejects like a broken file;
\* a store that fails is a 503, and the upload keeps receiving.
BuildOriginal(c) ==
    LET file == call[c].chunks
        found == \A i \in Index : <<i, file[i]>> \in stored
    IN /\ call[c].at = "building"
       /\ \/ /\ found /\ Sound(file)
             /\ original' = file
             /\ call' = [call EXCEPT ![c].at = "built"]
          \/ /\ ~found \/ ~Sound(file)
             /\ original' \in {original} \cup {f \in {file} : found}
             /\ call' = [call EXCEPT ![c].at = "failed"]
          \/ /\ call' = [call EXCEPT ![c] = Idle]
             /\ UNCHANGED original
       /\ UNCHANGED <<status, chunkVars, digest, runs, purgeVars>>

\* _reject deletes the original before it looks at the status.
RejectDelete(c) ==
    /\ call[c].at = "failed"
    /\ original' = None
    /\ call' = [call EXCEPT ![c].at = "rejecting"]
    /\ UNCHANGED <<status, chunkVars, digest, runs, purgeVars>>

RejectWrite(c) ==
    /\ call[c].at = "rejecting"
    /\ call' = [call EXCEPT ![c] = Idle]
    /\ status' = IF status = "receiving" THEN "rejected" ELSE status
    /\ UNCHANGED <<chunkVars, original, digest, runs, purgeVars>>

\* Slip: the status is only checked before the chunks are joined.
ClosesMutant(c) == status # "purged" /\ rows = call[c].chunks

\* Slip: the chunks are not compared with those that were joined.
ClosesAnyChunksMutant(c) == status = "receiving"

\* _finish goes through: still receiving, and the same chunks as were joined.
Closes(c) == status = "receiving" /\ rows = call[c].chunks

\* _finish, with start_run in the same transaction; otherwise 404, the old progress, or 409.
Finish(c) ==
    /\ call[c].at = "built"
    /\ call' = [call EXCEPT ![c] = Idle]
    /\ IF Closes(c)
         THEN status' = "complete" /\ digest' = call[c].chunks /\ runs' = runs + 1
         ELSE UNCHANGED <<status, digest, runs>>
    /\ UNCHANGED <<chunkVars, original, purgeVars>>

-----------------------------------------------------------------------------
(* The purges *)

\* The upload stays `receiving` past UPLOAD_ABANDON_AFTER_H, counted from its own updated_at.
Age ==
    /\ ~old /\ status = "receiving"
    /\ old' = TRUE
    /\ UNCHANGED <<status, chunkVars, original, digest, runs, call, abandoned, freshChunk, trash, orphans>>

\* _abandoned_batch
ListAbandoned ==
    /\ old /\ status = "receiving" /\ abandoned = "no"
    /\ abandoned' = "listed"
    /\ freshChunk' = FALSE
    /\ UNCHANGED <<status, chunkVars, original, digest, runs, call, old, trash, orphans>>

\* _delete_prefix, of an upload that was receiving when it was listed; or the store fails.
WipeAbandoned ==
    /\ abandoned = "listed"
    /\ \/ abandoned' = "wiped" /\ stored' = {} /\ original' = None
       \/ abandoned' = "no" /\ UNCHANGED <<stored, original>>
    /\ UNCHANGED <<status, rows, sends, accepted, put, digest, runs, call, old, freshChunk, trash, orphans>>

\* _delete_upload_row: if it is still receiving and its updated_at is still old.
DeleteAbandoned ==
    /\ abandoned = "wiped"
    /\ abandoned' = "no"
    /\ IF status = "receiving" THEN status' = "purged" /\ rows' = None ELSE UNCHANGED <<status, rows>>
    /\ UNCHANGED <<stored, sends, accepted, put, original, digest, runs, call, old, freshChunk, trash, orphans>>

\* Slip: the chunks of every upload whose original exists are taken for finished.
FinishedMutant == original # None

\* _finished_chunks: the chunks of an upload that will not read them again.
Finished == status \in {"complete", "rejected"}

\* _purge_finished_chunks: the object first, then the row.
TrashChunk(i) ==
    /\ Finished
    /\ rows[i] # "none" /\ i \notin trash
    /\ stored' = stored \ {<<i, rows[i]>>}
    /\ trash' = trash \cup {i}
    /\ UNCHANGED <<status, rows, sends, accepted, put, original, digest, runs, call, old, abandoned,
                   freshChunk, orphans>>

DropChunkRow(i) ==
    /\ i \in trash
    /\ trash' = trash \ {i}
    /\ rows' = [rows EXCEPT ![i] = "none"]
    /\ UNCHANGED <<status, stored, sends, accepted, put, original, digest, runs, call, old, abandoned,
                   freshChunk, orphans>>

\* _orphans: an object older than a day that no row points to; one being saved is younger.
FindOrphan(k) ==
    /\ k \in stored /\ k \notin put
    /\ rows[k[1]] # k[2]
    /\ orphans' = orphans \cup {k}
    /\ UNCHANGED <<status, chunkVars, original, digest, runs, call, old, abandoned, freshChunk, trash>>

\* _delete_all, by key, with no second look.
DeleteOrphan(k) ==
    /\ k \in orphans
    /\ orphans' = orphans \ {k}
    /\ stored' = stored \ {k}
    /\ UNCHANGED <<status, rows, sends, accepted, put, original, digest, runs, call, old, abandoned,
                   freshChunk, trash>>

\* Slip: only chunks and pages are looked up.
OrphanOriginalMutant ==
    /\ status = "rejected"
    /\ original # None
    /\ original' = None
    /\ UNCHANGED <<status, chunkVars, digest, runs, call, purgeVars>>

\* An original goes when its upload has no row.
OrphanOriginal ==
    /\ status = "purged"
    /\ original # None
    /\ original' = None
    /\ UNCHANGED <<status, chunkVars, digest, runs, call, purgeVars>>

-----------------------------------------------------------------------------
Next ==
    \/ \E k \in Chunk : AcceptChunk(k) \/ PutChunk(k) \/ SaveChunk(k) \/ AbortChunk(k)
                        \/ FindOrphan(k) \/ DeleteOrphan(k)
    \/ \E c \in Calls : BeginComplete(c) \/ BuildOriginal(c) \/ RejectDelete(c) \/ RejectWrite(c) \/ Finish(c)
    \/ \E i \in Index : TrashChunk(i) \/ DropChunkRow(i)
    \/ Age \/ ListAbandoned \/ WipeAbandoned \/ DeleteAbandoned \/ OrphanOriginal

Spec == Init /\ [][Next]_vars

\* The orphan schedule is fair: it runs every day for as long as there are workers.  A request
\* ends, one way or the other, long before its object is a day old.
FairSpec ==
    /\ Spec
    /\ WF_vars(OrphanOriginal)
    /\ \A k \in Chunk : /\ WF_vars(FindOrphan(k)) /\ WF_vars(DeleteOrphan(k))
                        /\ WF_vars(SaveChunk(k) \/ AbortChunk(k))

-----------------------------------------------------------------------------
(* Properties *)

\* The type invariant; no chunk of an upload that still receives is thrown away as finished.
TypeOK ==
    /\ status \in {"receiving", "complete", "rejected", "purged"}
    /\ rows \in [Index -> Content \cup {"none"}]
    /\ stored \subseteq Chunk /\ accepted \subseteq Chunk /\ put \subseteq Chunk /\ orphans \subseteq Chunk
    /\ original \in Files \cup {None} /\ digest \in Files \cup {None}
    /\ runs \in Nat /\ sends \in 0..MaxSends
    /\ \A c \in Calls : call[c].at \in {"idle", "building", "built", "failed", "rejecting"}
    /\ old \in BOOLEAN /\ freshChunk \in BOOLEAN
    /\ abandoned \in {"no", "listed", "wiped"}
    /\ trash \subseteq Index
    /\ status = "receiving" => trash = {}

\* An upload opens exactly one run, and only by being completed, with any number of #7 in parallel
\* and purges between their steps (C14).
OneRunPerUpload == runs = IF status = "complete" THEN 1 ELSE 0

\* A complete upload recorded the digest of a sound file made of the very chunks its rows pointed
\* to when it was closed, even if chunks were sent again while they were being joined.
DigestIsOfTheChunks ==
    status = "complete" =>
        /\ Sound(digest)
        /\ \A i \in Index : rows[i] \in {"none", digest[i]}

\* With parallel requests, lost ones, chunks sent again while others are joined, and the purges in
\* between, an upload is an UploadLifecycle: it is closed once, completed only with the sound file its
\* rows point to at that moment, and rejected only once it had all chunks (_finish, _reject).
Lifecycle == INSTANCE UploadLifecycle WITH
    SoundFiles <- {file \in Files : Sound(file)}, chunks <- rows
ImplementsUpload == Lifecycle!Spec

\* A late #7 or a purge never changes an upload that was closed.
ClosedStaysClosed == [][Finished => UNCHANGED status]_vars

\* Nothing stays in the store for ever for an upload whose row was purged, not even what a #6 or
\* a #7 that was still running wrote afterwards.
PurgedLeavesNothing == status = "purged" ~> stored = {} /\ original = None

\* apps/api/drawings/jobs.py:99 and tests/test_jobs.py:143: a chunk that arrives after the purge
\* listed the upload keeps the upload.
NewChunkKeepsUpload == [][status' = "purged" /\ status # "purged" => ~freshChunk]_vars

\* apps/api/drawings/complete.py:221: content_sha256 is the digest of the original file, which
\* pipeline.orchestrate.start reads.  A complete upload has that file.
CompleteHasItsOriginal == status = "complete" => original = digest
=============================================================================
