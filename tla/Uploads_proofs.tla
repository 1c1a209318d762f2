----------------------------- MODULE Uploads_proofs ------------------------------
(***************************************************************************)
(* Proofs about Uploads for every number of chunks, requests #6 and        *)
(* parallel requests #7.                                                   *)
(***************************************************************************)
EXTENDS Uploads, TLAPS

Places == {"idle", "building", "built", "failed", "rejecting"}

\* A #7 that joined its chunks found them sound; they are the ones it read.
CallsAreSound ==
    /\ call \in [Calls -> [at : Places, chunks : Files \cup {None}]]
    /\ \A c \in Calls : call[c].at = "built" => Sound(call[c].chunks)

IInv == TypeOK /\ CallsAreSound /\ OneRunPerUpload /\ DigestIsOfTheChunks

LEMMA IInvInit == Init => IInv
<1> SUFFICES ASSUME Init PROVE IInv
  OBVIOUS
<1>1. None \in [Index -> Content \cup {"none"}]
  BY DEF None
<1>2. TypeOK
  <2>1. sends \in 0..MaxSends /\ runs \in Nat
    BY ConstantsAssumption DEF Init
  <2>2. \A c \in Calls : call[c].at = "idle"
    BY DEF Init, Idle
  <2>3. rows \in [Index -> Content \cup {"none"}] /\ original \in Files \cup {None} /\ digest \in Files \cup {None}
    BY <1>1 DEF Init
  <2> QED
    BY <2>1, <2>2, <2>3 DEF Init, TypeOK
<1>3. CallsAreSound
  BY DEF Init, CallsAreSound, Idle, Places
<1>4. OneRunPerUpload /\ DigestIsOfTheChunks
  BY DEF Init, OneRunPerUpload, DigestIsOfTheChunks
<1> QED
  BY <1>2, <1>3, <1>4 DEF IInv

\* Every step of a #7 keeps its place and its chunks; only joining them makes it `built`.
LEMMA CallsNext == IInv /\ [Next]_vars => CallsAreSound'
<1> SUFFICES ASSUME IInv, [Next]_vars PROVE CallsAreSound'
  OBVIOUS
<1>0. /\ call \in [Calls -> [at : Places, chunks : Files \cup {None}]]
      /\ \A c \in Calls : call[c].at = "built" => Sound(call[c].chunks)
      /\ Idle \in [at : Places, chunks : Files \cup {None}] /\ Idle.at # "built"
  BY DEF IInv, CallsAreSound, Idle, Places
<1>1. ASSUME UNCHANGED call PROVE CallsAreSound'
  BY <1>1 DEF IInv, CallsAreSound
<1>2. ASSUME NEW c \in Calls, NEW p \in Places, call' = [call EXCEPT ![c].at = p],
             p = "built" => Sound(call[c].chunks)
      PROVE  CallsAreSound'
  <2>1. /\ call' \in [Calls -> [at : Places, chunks : Files \cup {None}]]
        /\ call'[c].at = p /\ call'[c].chunks = call[c].chunks
        /\ \A d \in Calls \ {c} : call'[d] = call[d]
    BY <1>0, <1>2
  <2> QED
    BY <1>0, <1>2, <2>1 DEF CallsAreSound
<1>3. ASSUME NEW c \in Calls, NEW v \in [at : Places, chunks : Files \cup {None}],
             call' = [call EXCEPT ![c] = v], v.at # "built"
      PROVE  CallsAreSound'
  BY <1>0, <1>3 DEF CallsAreSound
<1>4. ASSUME NEW c \in Calls, BeginComplete(c) PROVE CallsAreSound'
  <2>1. [at |-> "building", chunks |-> rows] \in [at : Places, chunks : Files \cup {None}]
    BY <1>4 DEF BeginComplete, Places
  <2> QED
    BY <1>3, <1>4, <2>1 DEF BeginComplete
<1>5. ASSUME NEW c \in Calls, BuildOriginal(c) PROVE CallsAreSound'
  <2>1. "built" \in Places /\ "failed" \in Places
    BY DEF Places
  <2>2. CASE Sound(call[c].chunks) /\ call' = [call EXCEPT ![c].at = "built"]
    BY <1>2, <2>1, <2>2
  <2>3. CASE call' = [call EXCEPT ![c].at = "failed"]
    BY <1>2, <2>1, <2>3
  <2>4. CASE call' = [call EXCEPT ![c] = Idle]
    BY <1>0, <1>3, <2>4
  <2> QED
    BY <1>5, <2>2, <2>3, <2>4 DEF BuildOriginal
<1>6. ASSUME NEW c \in Calls, RejectDelete(c) PROVE CallsAreSound'
  BY <1>2, <1>6 DEF RejectDelete, Places
<1>7. ASSUME NEW c \in Calls, RejectWrite(c) \/ Finish(c) PROVE CallsAreSound'
  BY <1>0, <1>3, <1>7 DEF RejectWrite, Finish
<1>8. ASSUME NEW k \in Chunk, AcceptChunk(k) \/ PutChunk(k) \/ SaveChunk(k) \/ AbortChunk(k)
                              \/ FindOrphan(k) \/ DeleteOrphan(k)
      PROVE  CallsAreSound'
  BY <1>1, <1>8 DEF AcceptChunk, PutChunk, SaveChunk, AbortChunk, FindOrphan, DeleteOrphan
<1>9. CASE \/ \E i \in Index : TrashChunk(i) \/ DropChunkRow(i)
           \/ Age \/ ListAbandoned \/ WipeAbandoned \/ DeleteAbandoned \/ OrphanOriginal
           \/ UNCHANGED vars
  BY <1>1, <1>9 DEF TrashChunk, DropChunkRow, Age, ListAbandoned, WipeAbandoned, DeleteAbandoned,
                    OrphanOriginal, vars
<1> QED
  BY <1>4, <1>5, <1>6, <1>7, <1>8, <1>9 DEF Next

LEMMA TypeNext == IInv /\ [Next]_vars => TypeOK'
<1> SUFFICES ASSUME IInv, [Next]_vars PROVE TypeOK'
  OBVIOUS
<1>0. /\ TypeOK /\ CallsAreSound
      /\ \A c \in Calls : call'[c].at \in {"idle", "building", "built", "failed", "rejecting"}
      /\ \A c \in Calls : call[c].chunks \in Files \cup {None}
  BY CallsNext DEF IInv, CallsAreSound, Places
<1>1. ASSUME NEW k \in Chunk, AcceptChunk(k) PROVE TypeOK'
  BY <1>0, <1>1, ConstantsAssumption DEF AcceptChunk, TypeOK, purgeVars
<1>2. ASSUME NEW k \in Chunk, PutChunk(k) PROVE TypeOK'
  BY <1>0, <1>2 DEF PutChunk, TypeOK, purgeVars
<1>3. ASSUME NEW k \in Chunk, SaveChunk(k) PROVE TypeOK'
  <2>1. k[1] \in Index /\ k[2] \in Content \cup {"none"}
    BY DEF Chunk
  <2>2. rows' \in [Index -> Content \cup {"none"}] /\ freshChunk' \in BOOLEAN
    BY <1>0, <1>3, <2>1 DEF SaveChunk, TypeOK
  <2> QED
    BY <1>0, <1>3, <2>2 DEF SaveChunk, TypeOK
<1>4. ASSUME NEW k \in Chunk, AbortChunk(k) PROVE TypeOK'
  BY <1>0, <1>4 DEF AbortChunk, TypeOK, purgeVars
<1>5. ASSUME NEW k \in Chunk, FindOrphan(k) PROVE TypeOK'
  BY <1>0, <1>5 DEF FindOrphan, TypeOK, chunkVars
<1>6. ASSUME NEW k \in Chunk, DeleteOrphan(k) PROVE TypeOK'
  BY <1>0, <1>6 DEF DeleteOrphan, TypeOK
<1>7. ASSUME NEW c \in Calls, BeginComplete(c) PROVE TypeOK'
  BY <1>0, <1>7 DEF BeginComplete, TypeOK, chunkVars, purgeVars
<1>8. ASSUME NEW c \in Calls, BuildOriginal(c) PROVE TypeOK'
  <2>1. original' \in Files \cup {None}
    <3>1. original \in Files \cup {None} /\ call[c].chunks \in Files \cup {None}
      BY <1>0 DEF TypeOK
    <3> QED
      BY <1>8, <3>1 DEF BuildOriginal
  <2> QED
    BY <1>0, <1>8, <2>1 DEF BuildOriginal, TypeOK, chunkVars, purgeVars
<1>9. ASSUME NEW c \in Calls, RejectDelete(c) PROVE TypeOK'
  BY <1>0, <1>9 DEF RejectDelete, TypeOK, chunkVars, purgeVars
<1>10. ASSUME NEW c \in Calls, RejectWrite(c) PROVE TypeOK'
  BY <1>0, <1>10 DEF RejectWrite, TypeOK, chunkVars, purgeVars
<1>11. ASSUME NEW c \in Calls, Finish(c) PROVE TypeOK'
  <2>1. CASE Closes(c)
    <3>1. status = "receiving" /\ status' = "complete" /\ digest' = call[c].chunks /\ runs' = runs + 1
      BY <1>11, <2>1 DEF Finish, Closes
    <3> QED
      BY <1>0, <1>11, <3>1 DEF Finish, TypeOK, chunkVars, purgeVars
  <2>2. CASE ~Closes(c)
    BY <1>0, <1>11, <2>2 DEF Finish, TypeOK, chunkVars, purgeVars
  <2> QED
    BY <2>1, <2>2
<1>12. ASSUME NEW i \in Index, TrashChunk(i) PROVE TypeOK'
  BY <1>0, <1>12 DEF TrashChunk, Finished, TypeOK
<1>13. ASSUME NEW i \in Index, DropChunkRow(i) PROVE TypeOK'
  <2>1. rows' \in [Index -> Content \cup {"none"}]
    BY <1>0, <1>13 DEF DropChunkRow, TypeOK
  <2> QED
    BY <1>0, <1>13, <2>1 DEF DropChunkRow, TypeOK
<1>14. CASE Age \/ ListAbandoned
  BY <1>0, <1>14 DEF Age, ListAbandoned, TypeOK, chunkVars
<1>15. CASE WipeAbandoned
  BY <1>0, <1>15 DEF WipeAbandoned, TypeOK
<1>16. CASE DeleteAbandoned
  <2>1. None \in [Index -> Content \cup {"none"}]
    BY DEF None
  <2> QED
    BY <1>0, <1>16, <2>1 DEF DeleteAbandoned, TypeOK
<1>17. CASE OrphanOriginal
  BY <1>0, <1>17 DEF OrphanOriginal, TypeOK, chunkVars, purgeVars
<1>18. CASE UNCHANGED vars
  BY <1>0, <1>18 DEF vars, TypeOK, chunkVars, purgeVars
<1> QED
  BY <1>1, <1>2, <1>3, <1>4, <1>5, <1>6, <1>7, <1>8, <1>9, <1>10, <1>11, <1>12, <1>13, <1>14, <1>15,
     <1>16, <1>17, <1>18 DEF Next

\* What a step may do to an upload: nothing, drop or save a chunk's row, or leave `receiving`.
LEMMA StatusStep ==
    ASSUME IInv, [Next]_vars
    PROVE  \/ UNCHANGED <<status, rows, digest, runs>>
           \/ /\ UNCHANGED <<status, digest, runs>>
              /\ status = "receiving" \/ \A i \in Index : rows'[i] \in {"none", rows[i]}
           \/ /\ status = "receiving" /\ status' \in {"rejected", "purged"}
              /\ UNCHANGED <<digest, runs>>
           \/ /\ status = "receiving" /\ status' = "complete" /\ runs' = runs + 1
              /\ Sound(digest') /\ digest' = rows /\ rows' = rows
<1>1. ASSUME NEW k \in Chunk, AcceptChunk(k) \/ PutChunk(k) \/ AbortChunk(k) \/ FindOrphan(k) \/ DeleteOrphan(k)
      PROVE  UNCHANGED <<status, rows, digest, runs>>
  BY <1>1 DEF AcceptChunk, PutChunk, AbortChunk, FindOrphan, DeleteOrphan, chunkVars
<1>2. ASSUME NEW k \in Chunk, SaveChunk(k)
      PROVE  /\ UNCHANGED <<status, digest, runs>>
             /\ status = "receiving" \/ rows' = rows
  BY <1>2 DEF SaveChunk
<1>3. ASSUME NEW c \in Calls, BeginComplete(c) \/ BuildOriginal(c) \/ RejectDelete(c)
      PROVE  UNCHANGED <<status, rows, digest, runs>>
  BY <1>3 DEF BeginComplete, BuildOriginal, RejectDelete, chunkVars
<1>4. ASSUME NEW c \in Calls, RejectWrite(c)
      PROVE  \/ UNCHANGED <<status, rows, digest, runs>>
             \/ status = "receiving" /\ status' = "rejected" /\ UNCHANGED <<digest, runs>>
  BY <1>4 DEF RejectWrite, chunkVars
<1>5. ASSUME NEW c \in Calls, Finish(c)
      PROVE  \/ UNCHANGED <<status, rows, digest, runs>>
             \/ /\ status = "receiving" /\ status' = "complete" /\ runs' = runs + 1
                /\ Sound(digest') /\ digest' = rows /\ rows' = rows
  <2>1. Sound(call[c].chunks)
    BY <1>5 DEF Finish, IInv, CallsAreSound
  <2>2. CASE Closes(c)
    <3>1. digest' = call[c].chunks /\ rows = call[c].chunks
      BY <1>5, <2>2 DEF Finish, Closes
    <3>2. Sound(digest')
      BY <2>1, <3>1 DEF Sound
    <3> QED
      BY <1>5, <2>2, <3>1, <3>2 DEF Finish, Closes, chunkVars
  <2>3. CASE ~Closes(c)
    BY <1>5, <2>3 DEF Finish, chunkVars
  <2> QED
    BY <2>2, <2>3
<1>6. ASSUME NEW i \in Index, TrashChunk(i) PROVE UNCHANGED <<status, rows, digest, runs>>
  BY <1>6 DEF TrashChunk
<1>7. ASSUME NEW i \in Index, DropChunkRow(i)
      PROVE  UNCHANGED <<status, digest, runs>> /\ \A j \in Index : rows'[j] \in {"none", rows[j]}
  BY <1>7 DEF DropChunkRow, IInv, TypeOK
<1>8. CASE Age \/ ListAbandoned \/ WipeAbandoned \/ OrphanOriginal \/ UNCHANGED vars
  BY <1>8 DEF Age, ListAbandoned, WipeAbandoned, OrphanOriginal, vars, chunkVars
<1>9. CASE DeleteAbandoned
  BY <1>9 DEF DeleteAbandoned
<1> QED
  BY <1>1, <1>2, <1>3, <1>4, <1>5, <1>6, <1>7, <1>8, <1>9 DEF Next

LEMMA IInvNext == IInv /\ [Next]_vars => IInv'
<1> SUFFICES ASSUME IInv, [Next]_vars PROVE OneRunPerUpload' /\ DigestIsOfTheChunks'
  BY TypeNext, CallsNext DEF IInv
<1>0. /\ OneRunPerUpload /\ DigestIsOfTheChunks /\ digest \in Files \cup {None}
  BY DEF IInv, TypeOK
<1>1. CASE UNCHANGED <<status, rows, digest, runs>>
  BY <1>0, <1>1 DEF OneRunPerUpload, DigestIsOfTheChunks, Sound
<1>2. CASE /\ UNCHANGED <<status, digest, runs>>
           /\ status = "receiving" \/ \A i \in Index : rows'[i] \in {"none", rows[i]}
  BY <1>0, <1>2 DEF OneRunPerUpload, DigestIsOfTheChunks, Sound
<1>3. CASE /\ status = "receiving" /\ status' \in {"rejected", "purged"}
           /\ UNCHANGED <<digest, runs>>
  BY <1>0, <1>3 DEF OneRunPerUpload, DigestIsOfTheChunks
<1>4. CASE /\ status = "receiving" /\ status' = "complete" /\ runs' = runs + 1
           /\ Sound(digest') /\ digest' = rows /\ rows' = rows
  BY <1>0, <1>4 DEF OneRunPerUpload, DigestIsOfTheChunks
<1> QED
  BY <1>1, <1>2, <1>3, <1>4, StatusStep

\* What holds of every reachable state, for every number of chunks and requests.
THEOREM Invariant == Spec => []IInv
BY IInvInit, IInvNext, PTL DEF Spec

\* The types; no chunk of an upload that still receives is thrown away as finished (_finished_chunks).
THEOREM TypeCorrect == Spec => []TypeOK
<1>1. IInv => TypeOK
  BY DEF IInv
<1> QED
  BY <1>1, Invariant, PTL

\* An upload opens one run, and only by being completed (_finish).
THEOREM UploadOpensOneRun == Spec => []OneRunPerUpload
<1>1. IInv => OneRunPerUpload
  BY DEF IInv
<1> QED
  BY <1>1, Invariant, PTL

\* The digest of a complete upload is of a sound file of the chunks its rows point to (_finish).
THEOREM DigestIsSound == Spec => []DigestIsOfTheChunks
<1>1. IInv => DigestIsOfTheChunks
  BY DEF IInv
<1> QED
  BY <1>1, Invariant, PTL

\* A closed upload stays closed (_finish, _reject, _delete_upload_row).
THEOREM ClosedUploadsRest == Spec => ClosedStaysClosed
<1>1. IInv /\ [Next]_vars => [Finished => UNCHANGED status]_vars
  BY StatusStep DEF Finished
<1> QED
  BY <1>1, Invariant, PTL DEF Spec, ClosedStaysClosed

-----------------------------------------------------------------------------
\* What the refinement needs besides: an upload that receives has all its chunks once a #7 read them,
\* and only those of a closed upload are being thrown away.
Settled ==
    /\ status = "receiving" /\ (\E c \in Calls : call[c].at # "idle") => rows \in Files
    /\ trash # {} => Finished

LEMMA SettledNext == IInv /\ Settled /\ [Next]_vars => Settled'
<1> SUFFICES ASSUME IInv, Settled, [Next]_vars PROVE Settled'
  OBVIOUS
<1>0. /\ call \in [Calls -> [at : Places, chunks : Files \cup {None}]]
      /\ rows \in [Index -> Content \cup {"none"}] /\ trash \subseteq Index
  BY DEF IInv, TypeOK, CallsAreSound
<1>1. ASSUME NEW k \in Chunk, SaveChunk(k) PROVE Settled'
  <2>1. k[1] \in Index /\ k[2] \in Content
    BY DEF Chunk
  <2>2. rows \in Files => rows' \in Files
    BY <1>1, <2>1 DEF SaveChunk, Files
  <2> QED
    BY <1>1, <2>2 DEF SaveChunk, Settled, Finished
<1>2. ASSUME NEW k \in Chunk, AcceptChunk(k) \/ PutChunk(k) \/ AbortChunk(k) \/ FindOrphan(k) \/ DeleteOrphan(k)
      PROVE  Settled'
  BY <1>2 DEF AcceptChunk, PutChunk, AbortChunk, FindOrphan, DeleteOrphan, Settled, Finished, chunkVars, purgeVars
<1>3. ASSUME NEW c \in Calls, BeginComplete(c) PROVE Settled'
  BY <1>3 DEF BeginComplete, Settled, Finished, chunkVars, purgeVars
<1>4. ASSUME NEW c \in Calls, call[c].at # "idle", \A d \in Calls \ {c} : call'[d] = call[d],
             UNCHANGED <<rows, trash>>, status' = status \/ status' \in {"complete", "rejected"}
      PROVE  Settled'
  BY <1>4 DEF Settled, Finished
<1>5. ASSUME NEW c \in Calls, BuildOriginal(c) \/ RejectDelete(c) \/ RejectWrite(c) \/ Finish(c) PROVE Settled'
  <2>1. call[c].at # "idle" /\ \A d \in Calls \ {c} : call'[d] = call[d]
    BY <1>0, <1>5 DEF BuildOriginal, RejectDelete, RejectWrite, Finish
  <2>2. UNCHANGED <<rows, trash>> /\ (status' = status \/ status' \in {"complete", "rejected"})
    BY <1>5 DEF BuildOriginal, RejectDelete, RejectWrite, Finish, chunkVars, purgeVars
  <2> QED
    BY <1>4, <2>1, <2>2
<1>6. ASSUME NEW i \in Index, TrashChunk(i) \/ DropChunkRow(i) PROVE Settled'
  BY <1>6 DEF TrashChunk, DropChunkRow, Settled, Finished
<1>7. CASE DeleteAbandoned
  BY <1>7 DEF DeleteAbandoned, Settled, Finished
<1>8. CASE Age \/ ListAbandoned \/ WipeAbandoned \/ OrphanOriginal \/ UNCHANGED vars
  BY <1>8 DEF Age, ListAbandoned, WipeAbandoned, OrphanOriginal, vars, Settled, Finished, chunkVars, purgeVars
<1> QED
  BY <1>1, <1>2, <1>3, <1>5, <1>6, <1>7, <1>8 DEF Next

LEMMA LifecycleNext == IInv /\ Settled /\ [Next]_vars => [Lifecycle!Next]_Lifecycle!vars
<1> SUFFICES ASSUME IInv, Settled, [Next]_vars PROVE Lifecycle!Next \/ UNCHANGED Lifecycle!vars
  OBVIOUS
<1>0. /\ rows \in [Index -> Content \cup {"none"}]
      /\ status = "receiving" => runs = 0
  BY DEF IInv, TypeOK, OneRunPerUpload
<1>1. ASSUME UNCHANGED <<status, rows, digest, runs>> PROVE UNCHANGED Lifecycle!vars
  BY <1>1 DEF Lifecycle!vars
<1>2. ASSUME NEW k \in Chunk, SaveChunk(k) PROVE Lifecycle!Next \/ UNCHANGED Lifecycle!vars
  <2>1. CASE status = "receiving"
    <3>1. k[1] \in Index /\ k[2] \in Content
      BY DEF Chunk
    <3>2. Lifecycle!Receive(k[1], k[2])
      BY <1>2, <2>1 DEF SaveChunk, Lifecycle!Receive
    <3> QED
      BY <3>1, <3>2 DEF Lifecycle!Next
  <2>2. CASE status # "receiving"
    BY <1>1, <1>2, <2>2 DEF SaveChunk
  <2> QED
    BY <2>1, <2>2
<1>3. ASSUME NEW c \in Calls, Finish(c) PROVE Lifecycle!Next \/ UNCHANGED Lifecycle!vars
  <2>1. CASE Closes(c)
    <3>1. rows \in Files /\ Sound(rows)
      BY <1>3, <2>1 DEF Finish, Closes, IInv, CallsAreSound, Settled
    <3>2. Lifecycle!Complete
      BY <1>0, <1>3, <2>1, <3>1 DEF Finish, Closes, chunkVars, Lifecycle!Complete
    <3> QED
      BY <3>2 DEF Lifecycle!Next
  <2>2. CASE ~Closes(c)
    BY <1>1, <1>3, <2>2 DEF Finish, chunkVars
  <2> QED
    BY <2>1, <2>2
<1>4. ASSUME NEW c \in Calls, RejectWrite(c) PROVE Lifecycle!Next \/ UNCHANGED Lifecycle!vars
  <2>1. CASE status = "receiving"
    <3>1. Lifecycle!Reject
      BY <1>4, <2>1 DEF RejectWrite, Settled, chunkVars, Lifecycle!Reject
    <3> QED
      BY <3>1 DEF Lifecycle!Next
  <2>2. CASE status # "receiving"
    BY <1>1, <1>4, <2>2 DEF RejectWrite, chunkVars
  <2> QED
    BY <2>1, <2>2
<1>5. ASSUME NEW i \in Index, DropChunkRow(i) PROVE Lifecycle!Next
  <2>1. Lifecycle!Forget(i)
    BY <1>5 DEF DropChunkRow, Settled, Finished, None, Lifecycle!Forget
  <2> QED
    BY <2>1 DEF Lifecycle!Next
<1>6. CASE DeleteAbandoned
  <2>1. CASE status = "receiving"
    BY <1>6, <2>1 DEF DeleteAbandoned, Lifecycle!Abandon, Lifecycle!Next
  <2>2. CASE status # "receiving"
    BY <1>1, <1>6, <2>2 DEF DeleteAbandoned
  <2> QED
    BY <2>1, <2>2
<1>7. ASSUME NEW k \in Chunk, AcceptChunk(k) \/ PutChunk(k) \/ AbortChunk(k) \/ FindOrphan(k) \/ DeleteOrphan(k)
      PROVE  UNCHANGED Lifecycle!vars
  BY <1>1, <1>7 DEF AcceptChunk, PutChunk, AbortChunk, FindOrphan, DeleteOrphan, chunkVars
<1>8. ASSUME NEW c \in Calls, BeginComplete(c) \/ BuildOriginal(c) \/ RejectDelete(c) PROVE UNCHANGED Lifecycle!vars
  BY <1>1, <1>8 DEF BeginComplete, BuildOriginal, RejectDelete, chunkVars
<1>9. ASSUME NEW i \in Index, TrashChunk(i) PROVE UNCHANGED Lifecycle!vars
  BY <1>1, <1>9 DEF TrashChunk
<1>10. CASE Age \/ ListAbandoned \/ WipeAbandoned \/ OrphanOriginal \/ UNCHANGED vars
  BY <1>1, <1>10 DEF Age, ListAbandoned, WipeAbandoned, OrphanOriginal, vars, chunkVars
<1> QED
  BY <1>2, <1>3, <1>4, <1>5, <1>6, <1>7, <1>8, <1>9, <1>10 DEF Next

\* An upload goes through the life of UploadLifecycle (_finish, _reject, _delete_upload_row), for every
\* number of chunks, of parallel #7 and of repeated #6, and wherever the purges come in between.
THEOREM UploadsImplementLifecycle == Spec => ImplementsUpload
<1>1. Init => Settled /\ Lifecycle!Init
  BY DEF Init, Settled, Idle, Lifecycle!Init
<1>2. Init /\ [][Next]_vars => Lifecycle!Init /\ [][Lifecycle!Next]_Lifecycle!vars
  BY <1>1, IInvInit, IInvNext, SettledNext, LifecycleNext, PTL
<1> QED
  BY <1>2 DEF Spec, ImplementsUpload, Lifecycle!Spec

-----------------------------------------------------------------------------
\* No two #7 of the upload are under way at once.
OneAtATime == \A c, d \in Calls : call[c].at # "idle" /\ call[d].at # "idle" => c = d

\* The original of an upload that only one #7 works on at a time, and that no purge listed.
Undisturbed ==
    /\ abandoned = "no" /\ status # "purged"
    /\ \A c \in Calls : call[c].at = "built" => original = call[c].chunks
    /\ status = "complete" => original = digest /\ \A c \in Calls : call[c].at = "idle"

LEMMA UndisturbedNext ==
    ASSUME IInv, ~old, OneAtATime, Undisturbed, [Next]_vars
    PROVE  Undisturbed'
<1>0. /\ call \in [Calls -> [at : Places, chunks : Files \cup {None}]]
      /\ \A c, d \in Calls : call[c].at # "idle" /\ d # c => call[d].at = "idle"
  BY DEF IInv, CallsAreSound, OneAtATime
<1>1. ASSUME UNCHANGED <<status, original, digest, call, abandoned>> PROVE Undisturbed'
  BY <1>1 DEF Undisturbed
<1>2. ASSUME NEW c \in Calls, BeginComplete(c) PROVE Undisturbed'
  <2>1. call'[c].at = "building" /\ \A d \in Calls \ {c} : call'[d] = call[d]
    BY <1>0, <1>2 DEF BeginComplete
  <2> QED
    BY <1>2, <2>1 DEF BeginComplete, Undisturbed, purgeVars
<1>3. ASSUME NEW c \in Calls, call[c].at # "idle" PROVE status # "complete" /\ \A d \in Calls \ {c} : call[d].at = "idle"
  BY <1>0, <1>3 DEF Undisturbed
<1>4. ASSUME NEW c \in Calls, BuildOriginal(c) PROVE Undisturbed'
  <2>1. call[c].at = "building" /\ UNCHANGED <<status, abandoned>>
    BY <1>4 DEF BuildOriginal, purgeVars
  <2>2. \A d \in Calls \ {c} : call'[d] = call[d] /\ call[d].at = "idle"
    BY <1>0, <1>3, <1>4, <2>1 DEF BuildOriginal
  <2>3. call'[c].at = "built" => original' = call'[c].chunks
    <3>1. CASE original' = call[c].chunks /\ call' = [call EXCEPT ![c].at = "built"]
      BY <1>0, <3>1
    <3>2. CASE call' = [call EXCEPT ![c].at = "failed"] \/ call' = [call EXCEPT ![c] = Idle]
      BY <1>0, <3>2 DEF Idle
    <3> QED
      BY <1>4, <3>1, <3>2 DEF BuildOriginal
  <2> QED
    BY <1>3, <2>1, <2>2, <2>3 DEF Undisturbed
<1>5. ASSUME NEW c \in Calls, RejectDelete(c) \/ RejectWrite(c) PROVE Undisturbed'
  <2>1. status # "complete" /\ \A d \in Calls \ {c} : call'[d] = call[d] /\ call[d].at = "idle"
    BY <1>0, <1>3, <1>5 DEF RejectDelete, RejectWrite
  <2>2. call'[c].at # "built"
    BY <1>0, <1>5 DEF RejectDelete, RejectWrite, Idle
  <2> QED
    BY <1>5, <2>1, <2>2 DEF RejectDelete, RejectWrite, Undisturbed, purgeVars
<1>6. ASSUME NEW c \in Calls, Finish(c) PROVE Undisturbed'
  <2>1. call[c].at = "built" /\ original = call[c].chunks
    BY <1>6 DEF Finish, Undisturbed
  <2>2. \A d \in Calls : call'[d].at = "idle"
    BY <1>0, <1>3, <1>6, <2>1 DEF Finish, Idle
  <2>3. UNCHANGED <<original, abandoned>> /\ (status' = "complete" => digest' = original)
    BY <1>3, <1>6, <2>1 DEF Finish, purgeVars
  <2>4. status' # "purged"
    BY <1>6 DEF Finish, Undisturbed
  <2> QED
    BY <2>2, <2>3, <2>4 DEF Undisturbed
<1>7. ASSUME NEW k \in Chunk, AcceptChunk(k) \/ PutChunk(k) \/ SaveChunk(k) \/ AbortChunk(k)
                              \/ FindOrphan(k) \/ DeleteOrphan(k)
      PROVE  Undisturbed'
  BY <1>1, <1>7 DEF AcceptChunk, PutChunk, SaveChunk, AbortChunk, FindOrphan, DeleteOrphan, purgeVars
<1>8. CASE (\E i \in Index : TrashChunk(i) \/ DropChunkRow(i)) \/ Age \/ UNCHANGED vars
  BY <1>1, <1>8 DEF TrashChunk, DropChunkRow, Age, vars, purgeVars
<1>9. ~(ListAbandoned \/ WipeAbandoned \/ DeleteAbandoned \/ OrphanOriginal)
  BY DEF ListAbandoned, WipeAbandoned, DeleteAbandoned, OrphanOriginal, Undisturbed
<1> QED
  BY <1>2, <1>4, <1>5, <1>6, <1>7, <1>8, <1>9 DEF Next

\* What it takes to lose the original of a complete upload (_reject, _purge_abandoned): if no two #7 of
\* it overlap and it never gets as old as an abandoned one, it has the file its digest is of.
THEOREM AloneKeepsOriginal == Spec /\ []~old /\ []OneAtATime => []CompleteHasItsOriginal
<1>1. Init => Undisturbed
  BY DEF Init, Undisturbed, Idle
<1>2. Undisturbed => CompleteHasItsOriginal
  BY DEF Undisturbed, CompleteHasItsOriginal
<1> QED
  BY <1>1, <1>2, UndisturbedNext, Invariant, PTL DEF Spec
=============================================================================
