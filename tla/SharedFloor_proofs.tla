-------------------------- MODULE SharedFloor_proofs ---------------------------
(***************************************************************************)
(* The document of a floor, under requests, restores, runs of the pipeline *)
(* and compaction, is a SharedFloor.  Beside the invariant of              *)
(* SpatialWrite_proofs this needs Allowed: that somebody may make a write  *)
(* is decided on the revision the request loaded, and is still true of the *)
(* revision it replaces, since an update goes through only if the two are  *)
(* the same.                                                               *)
(***************************************************************************)
EXTENDS SpatialWrite_proofs

Allowed == \A p \in People :
    req[p].pc = "update" => ~Forbidden(p, docs[req[p].cur], req[p].body)

-----------------------------------------------------------------------------
(* Who may write *)

(* No step changes the layers of the past. *)
LEMMA PastStays ==
    ASSUME IInv, [Next]_vars
    PROVE  \A n \in 0..rev : docs'[n] = docs[n]
<1>1. rev \in Nat /\ docs \in [0..MaxRev -> Doc]
    BY Constants DEF IInv, DocInv, DocType
<1>2. CASE docs' = docs
    BY <1>2
<1>3. CASE \E by, base, body, layer, axes : Commit(by, base, body, layer, axes)
  <2> PICK by, base, body, layer, axes : Commit(by, base, body, layer, axes)
    BY <1>3
  <2>1. docs' = [docs EXCEPT ![rev + 1] = [layer |-> layer, axes |-> axes]]
    BY DEF Commit
  <2> QED BY <1>1, <2>1
<1>4. CASE Compact
    BY <1>2, <1>4 DEF Compact
<1> QED BY <1>2, <1>3, <1>4, Commits DEF docVars

(* One request changes, and goes on to its update only if that is allowed. *)
LEMMA OneAllowed ==
    ASSUME IInv, Allowed, [Next]_vars, NEW p \in People, NEW q,
           req' = [req EXCEPT ![p] = q],
           q.pc = "update" => q.cur \in 0..rev /\ ~Forbidden(p, docs[q.cur], q.body)
    PROVE  Allowed'
<1>1. \A n \in 0..rev : docs'[n] = docs[n]
    BY PastStays
<1>2. req \in [People -> Req] /\ rev \in Nat /\ \A s \in People : req[s].cur \in 0..rev
    BY Constants DEF IInv, Requested, ReqOK, Sound, Req, DocInv, DocType
<1>3. \A s \in People : req'[s] = IF s = p THEN q ELSE req[s]
    BY <1>2
<1>4. \A s \in People : req'[s].pc = "update" => docs'[req'[s].cur] = docs[req'[s].cur]
    BY <1>1, <1>2, <1>3
<1>5. \A s \in People : req'[s].pc = "update" => ~Forbidden(s, docs[req'[s].cur], req'[s].body)
    BY <1>3 DEF Allowed
<1> QED BY <1>4, <1>5 DEF Allowed

LEMMA DecideAllowed ==
    ASSUME IInv, Allowed, [Next]_vars, NEW p \in People, NEW r \in Req, r.cur \in 0..rev, Decide(p, r)
    PROVE  Allowed'
<1>1. CASE Drop(p)
    BY <1>1, OneAllowed DEF Drop, Idle
<1>2. CASE Done(p, r)
  <2>1. [r EXCEPT !.pc = "done", !.cur = 0, !.tries = 0].pc = "done"
    BY DEF Req
  <2> QED BY <1>2, <2>1, OneAllowed DEF Done
<1>3. CASE ~Forbidden(p, docs[r.cur], r.body) /\ Becomes(p, r, "update")
  <2> DEFINE q == [r EXCEPT !.pc = "update"]
  <2>1. q.cur = r.cur /\ q.body = r.body
    BY DEF Req
  <2>2. req' = [req EXCEPT ![p] = q]
    BY <1>3 DEF Becomes
  <2> HIDE DEF q
  <2> QED BY <1>3, <2>1, <2>2, OneAllowed
<1> QED BY <1>1, <1>2, <1>3 DEF Decide

LEMMA LoadAllowed ==
    ASSUME IInv, Allowed, [Next]_vars, NEW p \in People, NEW r \in Req, Load(p, r)
    PROVE  Allowed'
<1> DEFINE loaded == [r EXCEPT !.cur = rev]
<1>1. rev \in Nat /\ rev \in 0..rev
    BY DEF IInv, DocInv, DocType
<1>2. loaded \in Req /\ loaded.cur = rev
    BY <1>1 DEF Req
<1>3. CASE Done(p, r)
  <2>1. [r EXCEPT !.pc = "done", !.cur = 0, !.tries = 0].pc = "done"
    BY DEF Req
  <2> QED BY <1>3, <2>1, OneAllowed DEF Done
<1>4. CASE Decide(p, loaded)
    BY <1>1, <1>2, <1>4, DecideAllowed
<1>5. CASE Becomes(p, loaded, "settle")
  <2>1. [loaded EXCEPT !.pc = "settle"].pc = "settle"
    BY <1>2 DEF Req
  <2> QED BY <1>5, <2>1, OneAllowed DEF Becomes
<1> QED BY <1>3, <1>4, <1>5 DEF Load

LEMMA AllowedNext == IInv /\ Allowed /\ [Next]_vars => Allowed'
<1> SUFFICES ASSUME IInv, Allowed, [Next]_vars PROVE Allowed'
    OBVIOUS
<1>0. req \in [People -> Req] /\ rev \in Nat /\ \A p \in People : req[p] \in Req /\ req[p].cur \in 0..rev
    BY DEF IInv, Requested, ReqOK, Sound, Req, DocInv, DocType
<1>1. CASE \E p \in People : Send(p)
  <2>0. PICK p \in People, base \in 0..rev : \E body \in Bodies(docs[base]) :
           Load(p, [Idle EXCEPT !.base = base, !.body = body])
    BY <1>1 DEF Send
  <2>1. PICK body \in Bodies(docs[base]) : Load(p, [Idle EXCEPT !.base = base, !.body = body])
    BY <2>0
  <2>2. docs[base] \in Doc /\ base \in Nat
    BY <1>0, Constants DEF IInv, DocInv, DocType
  <2>3. body \in Body
    BY <2>2, BodiesValid
  <2>4. [Idle EXCEPT !.base = base, !.body = body] \in Req
    BY <2>2, <2>3, IdleWith
  <2> QED BY <2>1, <2>4, LoadAllowed
<1>2. CASE \E p \in People : Settle(p)
  <2> PICK p \in People : Settle(p)
    BY <1>2
  <2>1. Drop(p) \/ Decide(p, req[p])
    BY DEF Settle
  <2> QED BY <1>0, <2>1, DecideAllowed, OneAllowed DEF Drop, Idle
<1>3. CASE \E p \in People : LoseRace(p) \/ SendAgain(p)
  <2> PICK p \in People : LoseRace(p) \/ SendAgain(p)
    BY <1>3
  <2>1. [req[p] EXCEPT !.tries = @ + 1] \in Req
    BY <1>0 DEF Req
  <2> QED BY <1>0, <2>1, LoadAllowed DEF LoseRace, SendAgain
<1>4. CASE \E p \in People : GiveUp(p) \/ Answer(p)
    BY <1>4, OneAllowed DEF GiveUp, Answer, Drop, Idle
<1>5. CASE \E p \in People : Update(p)
  <2> PICK p \in People : Update(p)
    BY <1>5
  <2> DEFINE r == Applied(req[p])
  <2>1. r = [req[p] EXCEPT !.times = @ + (IF docs'[rev'].layer # docs[rev].layer THEN 1 ELSE 0)]
    BY DEF Applied
  <2>2. [r EXCEPT !.pc = "done", !.cur = 0, !.tries = 0].pc = "done"
    BY <1>0, <2>1 DEF Req
  <2>3. req' = [req EXCEPT ![p] = [r EXCEPT !.pc = "done", !.cur = 0, !.tries = 0]]
    BY DEF Update, Done
  <2> HIDE DEF r
  <2> QED BY <2>2, <2>3, OneAllowed
<1>6. CASE \E p \in People : RestoreVersion(p)
  <2>0. PICK p \in People : RestoreVersion(p)
    BY <1>6
  <2>1. PICK r \in RestoreRequests(p) :
           RestoreAgain(p, r) \/ RestoreRefused(p, r) \/ RestoreNothing(p, r) \/ Restore(p, r)
    BY <2>0 DEF RestoreVersion
  <2>2. r \in Req
    BY <2>1, RestoreFacts DEF ReqOK, Sound
  <2> DEFINE a == Applied(r)
  <2>3. [r EXCEPT !.pc = "done", !.cur = 0, !.tries = 0].pc = "done"
    BY <2>2 DEF Req
  <2>4. [a EXCEPT !.pc = "done", !.cur = 0, !.tries = 0].pc = "done"
    BY <2>2 DEF Req, Applied
  <2> HIDE DEF a
  <2>5. \/ Drop(p)
        \/ req' = [req EXCEPT ![p] = [r EXCEPT !.pc = "done", !.cur = 0, !.tries = 0]]
        \/ req' = [req EXCEPT ![p] = [a EXCEPT !.pc = "done", !.cur = 0, !.tries = 0]]
    BY <2>1 DEF RestoreAgain, RestoreRefused, RestoreNothing, Restore, Done, a
  <2> QED BY <2>3, <2>4, <2>5, OneAllowed DEF Drop, Idle
<1>7. CASE Persist \/ Compact \/ UNCHANGED vars
  <2>1. UNCHANGED req
    BY <1>7 DEF Persist, Compact, vars
  <2> QED BY <1>0, <2>1, PastStays DEF Allowed
<1> QED BY <1>1, <1>2, <1>3, <1>4, <1>5, <1>6, <1>7 DEF Next
-----------------------------------------------------------------------------
(* Refinement *)

Past == [n \in 0..MaxRev |-> docs[n].layer]

(* A commit is one write of the shared floor. *)
LEMMA CommitReplaces ==
    ASSUME IInv, DocInv', NEW by, NEW base, NEW body, NEW layer, NEW axes,
           Commit(by, base, body, layer, axes)
    PROVE  /\ Shared!Replace(by, base)
           /\ Past[rev] = docs[rev].layer /\ Past'[rev + 1] = layer
           /\ rev \in 0..MaxRev /\ \A n \in 0..rev : Past[n] = docs[n].layer
<1>1. /\ rev \in 0..MaxRev /\ rev \in Nat /\ docs \in [0..MaxRev -> Doc]
      /\ rev < MaxRev /\ rev' = rev + 1
      /\ docs' = [docs EXCEPT ![rev + 1] = [layer |-> layer, axes |-> axes]]
      /\ last' = [by |-> by, body |-> body, base |-> base]
    BY Constants DEF IInv, DocInv, DocType, Commit
<1>2. rev + 1 \in 0..MaxRev /\ \A n \in 0..rev : n \in 0..MaxRev
    BY <1>1, Constants
<1>3. docs'[rev + 1].layer = layer /\ \A n \in 0..MaxRev : n # rev + 1 => docs'[n] = docs[n]
    BY <1>1, <1>2
<1>4. Past' = [n \in 0..MaxRev |-> docs'[n].layer]
    BY DEF Past
<1>5. Past'[rev + 1] = layer /\ Past' = [Past EXCEPT ![rev + 1] = Past'[rev + 1]]
    BY <1>2, <1>3, <1>4 DEF Past
<1>6. layer \in Layers /\ Valid(layer)
  <2>1. docs'[rev + 1] \in Doc /\ rev' \in 0..rev'
    BY <1>1, <1>2 DEF DocInv, DocType
  <2> QED BY <1>1, <1>3, <2>1 DEF DocInv, Doc
<1>7. last'.by = by /\ last'.base = base
    BY <1>1
<1>8. Shared!Replace(by, base)
    BY <1>1, <1>5, <1>6, <1>7 DEF Shared!Replace, Past
<1> QED BY <1>1, <1>2, <1>5, <1>8 DEF Past

(* What a person decided on is what the write replaces. *)
LEMMA WriteEdits ==
    ASSUME IInv, DocInv', NEW p \in People, NEW r, Write(p, r), r.base \in 0..rev,
           docs[r.base].layer = docs[rev].layer, ~Forbidden(p, docs[rev], r.body)
    PROVE  Shared!Edit(p, r.base)
<1> DEFINE old == docs[rev].layer
           new == NextLayer(docs[rev], r.body)
<1>1. Commit(p, r.base, r.body, new, NextAxes(docs[rev], r.body)) /\ p # Pipeline
    BY Constants DEF Write
<1>2. /\ Shared!Replace(p, r.base)
      /\ Past[rev] = old /\ Past[r.base] = old /\ Past'[rev + 1] = new
    BY <1>1, CommitReplaces
<1>3. p \in Approvers \/ Shared!Approved(new) \subseteq Shared!Approved(old)
    BY DEF Forbidden, Approves, Reviewed, Live, Shared!Approved
<1>4. touched \subseteq Ids /\ \A i \in touched : old[i] # None
    BY DEF IInv, DocInv, OfPeople, Live
<1>5. touched' = {i \in Ids : /\ new[i] # None
                              /\ \/ i \in touched
                                 \/ old[i] = None \/ old[i].at # new[i].at
                                 \/ new[i].reviewed}
    BY <1>1, <1>4 DEF Commit, Live
<1>6. gone' = [w \in Walls |-> IF new[w] # None THEN None
                               ELSE IF old[w] # None THEN old[w].at ELSE gone[w]]
    BY <1>1 DEF Commit
<1> HIDE DEF old, new
<1> QED BY <1>2, <1>3, <1>5, <1>6 DEF Shared!Edit, Past

(* The merge approves nothing. *)
LEMMA MergeApproves ==
    ASSUME NEW l \in Layers, NEW ai \in AiResults, NEW i \in Ids,
           Merge(l, ai)[i] # None, Merge(l, ai)[i].reviewed
    PROVE  l[i] # None /\ l[i].reviewed
<1>1. Merge(l, ai)[i] \in {IF i \in KeepIds(l) THEN l[i] ELSE None, ai[i], None}
    BY DEF Merge
<1>2. CASE Merge(l, ai)[i] = ai[i]
    BY <1>2, Constants
<1>3. CASE Merge(l, ai)[i] = l[i]
    BY <1>3
<1> QED BY <1>1, <1>2, <1>3

LEMMA PersistRuns ==
    ASSUME IInv, IInv', Persist
    PROVE  Shared!Run \/ UNCHANGED docVars
<1> USE Constants
<1>1. PICK ai \in AiResults :
        \/ UNCHANGED docVars
        \/ Commit(Pipeline, rev, Nothing, Merge(docs[rev].layer, ai), docs[rev].axes)
    BY DEF Persist
<1> DEFINE old == docs[rev].layer
           new == Merge(old, ai)
<1>2. ASSUME Commit(Pipeline, rev, Nothing, new, docs[rev].axes)
      PROVE  Shared!Run
  <2>0. PICK base : base = rev
    OBVIOUS
  <2>1. /\ Shared!Replace(Pipeline, base)
        /\ Past[rev] = old /\ Past'[rev + 1] = new
    BY <1>2, <2>0, CommitReplaces DEF IInv
  <2>2. old \in Layers /\ touched \subseteq OfPeople(old) /\ touched \subseteq Ids
    BY DEF IInv, DocInv, DocType, Doc
  <2>3. Shared!Approved(new) \subseteq Shared!Approved(old)
    BY <2>2, MergeApproves DEF Shared!Approved
  <2>4. \A i \in touched : new[i] = old[i] /\ old[i] # None
    BY <2>2, MergeFacts DEF OfPeople, Live
  <2>5. \A w \in Walls : old[w] = None /\ new[w] # None =>
           gone[w] = None /\ \A k \in Walls : gone[k] # new[w].at
    BY MergeSpares DEF IInv
  <2>6. gone' = [w \in Walls |-> IF old[w] # None \/ new[w] # None THEN None ELSE gone[w]]
    BY <1>2 DEF Commit
  <2>7. touched' = touched
    BY <1>2, <2>2, <2>4 DEF Commit, Live
  <2> HIDE DEF old, new
  <2> QED BY <2>0, <2>1, <2>3, <2>4, <2>5, <2>6, <2>7 DEF Shared!Run, Shared!Replace, Past
<1> QED BY <1>1, <1>2

LEMMA SharedInit == Init => Shared!Init
<1> SUFFICES ASSUME Init PROVE Shared!Init
    OBVIOUS
<1>1. Past = [r \in 0..MaxRev |-> EmptyLayer]
    BY DEF Past, Init
<1> QED BY <1>1 DEF Init, Shared!Init, Past

LEMMA SharedNext == IInv /\ Allowed /\ [Next]_vars => [Shared!Next]_Shared!vars
<1> SUFFICES ASSUME IInv, Allowed, [Next]_vars PROVE [Shared!Next]_Shared!vars
    OBVIOUS
<1>0. IInv' /\ DocInv'
    BY Steps DEF IInv
<1>1. CASE UNCHANGED docVars
    BY <1>1 DEF docVars, Shared!vars
<1>2. CASE \E p \in People : Send(p) \/ Settle(p) \/ LoseRace(p) \/ GiveUp(p) \/ Answer(p) \/ SendAgain(p)
    BY <1>1, <1>2, RequestStep
<1>3. CASE \E p \in People : Update(p)
  <2> PICK p \in People : Update(p)
    BY <1>3
  <2>1. req[p].pc = "update" /\ req[p].cur = rev /\ Write(p, req[p])
    BY DEF Update
  <2>0. PICK r : r = req[p]
    OBVIOUS
  <2>2. r.base \in 0..rev /\ docs[r.base].layer = docs[rev].layer
    BY <2>0, <2>1 DEF IInv, Requested, ReqOK, Sound, Req, DocInv, DocType
  <2>3. Shared!Edit(p, r.base)
    BY <1>0, <2>0, <2>1, <2>2, WriteEdits DEF Allowed
  <2> QED BY <2>2, <2>3 DEF Shared!Next
<1>4. CASE \E p \in People : RestoreVersion(p)
  <2>0. PICK p \in People : RestoreVersion(p)
    BY <1>4
  <2>1. PICK r \in RestoreRequests(p) :
           RestoreAgain(p, r) \/ RestoreRefused(p, r) \/ RestoreNothing(p, r) \/ Restore(p, r)
    BY <2>0 DEF RestoreVersion
  <2>2. CASE Restore(p, r)
    <3>1. ~Refused(p, r) /\ ~NoChange(p, r) /\ Write(p, r)
      BY <2>2 DEF Restore
    <3>2. r.base \in 0..rev /\ docs[r.base].layer = docs[rev].layer
      BY <3>1, RestoreFacts DEF ReqOK, Sound, Req, IInv, DocInv, DocType
    <3>3. ~Forbidden(p, docs[rev], r.body)
      BY <3>1 DEF Refused, NoChange
    <3>4. Shared!Edit(p, r.base)
      BY <1>0, <3>1, <3>2, <3>3, WriteEdits
    <3> QED BY <3>2, <3>4 DEF Shared!Next
  <2> QED BY <1>1, <2>1, <2>2, RestoreOtherStep
<1>5. CASE Persist
    BY <1>0, <1>1, <1>5, PersistRuns DEF Shared!Next
<1>6. CASE Compact
    BY <1>6 DEF Compact, Shared!vars
<1>7. CASE UNCHANGED vars
    BY <1>1, <1>7 DEF vars, docVars
<1> QED BY <1>2, <1>3, <1>4, <1>5, <1>6, <1>7 DEF Next

(* Who may write is decided on the revision the write replaces, though #35 holds no lock on the     *)
(* document between the two (write_layer, _attempt).                                                *)
THEOREM WritesAreAllowed == Spec => []Allowed
<1>1. Init => Allowed
    BY DEF Init, Allowed, Idle
<1> QED BY <1>1, AllowedNext, Invariance, PTL DEF Spec

(* The document of a floor, with all its writers, is a SharedFloor (write_layer, restore_version,   *)
(* merge_pipeline_result, run_change_log_compaction).                                               *)
THEOREM FloorIsShared == Spec => ImplementsSharedFloor
<1>1. Init /\ [][Next]_vars => Shared!Init /\ [][Shared!Next]_Shared!vars
    BY SharedInit, SharedNext, Invariance, WritesAreAllowed, PTL DEF Spec
<1> QED BY <1>1 DEF Spec, ImplementsSharedFloor, Shared!Spec
===============================================================================
