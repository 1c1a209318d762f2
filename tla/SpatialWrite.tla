----------------------------- MODULE SpatialWrite -----------------------------
(***************************************************************************)
(* The document of one floor and everybody who writes it: people who send  *)
(* a layer (#35) or restore a version (N19) from a copy they read earlier, *)
(* the persist step of the pipeline, which merges what the detector found, *)
(* and the schedule that compacts the change log.                          *)
(*                                                                         *)
(* A floor holds walls and openings in walls.  Of a wall the model keeps   *)
(* where it is (the tracked fields) and its provenance; of an opening that *)
(* it refers to its wall and its wall to it.  Rooms and furniture refer to *)
(* other items the same way.  Axes stand for what a write may change and   *)
(* the change log does not record: axes, origin and scale.                 *)
(*                                                                         *)
(* #35 takes no lock on the document: it loads it, decides, and updates it *)
(* only if the revision is still the one it loaded.  It shares the lock of *)
(* the floor's row, which the persist step takes alone, and a restore      *)
(* locks the document, so these two are one step each.                     *)
(***************************************************************************)
EXTENDS Naturals, FiniteSets, Sequences

CONSTANTS
    Walls, Openings,
    Host,       \* the wall of each opening
    Places,     \* where a wall may be; two at one place match each other
    AiResults,  \* layers the pipeline may build
    Axes,
    People,
    Approvers,  \* people whose role has qc.approve
    None,       \* no item, or a key that a body leaves out
    Keep,       \* VERSIONS_KEEP_SNAPSHOTS
    Attempts,   \* SPATIAL_WRITE_ATTEMPTS
    MaxRev      \* bound: revisions of the document; the model stops at the last

Pipeline == "sys.pipeline"
Ids == Walls \cup Openings
Item == [src : {"human", "ai"}, edited : BOOLEAN, reviewed : BOOLEAN, at : Places]
Layers == [Ids -> Item \cup {None}]
Body == [layer : Layers \cup {None}, axes : Axes \cup {None}]
Doc == [layer : Layers, axes : Axes]

ASSUME ConstantsAssumption ==
    /\ None \notin Item /\ None \notin Layers /\ None \notin Places /\ None \notin Axes
    /\ Host \in [Openings -> Walls] /\ Walls \cap Openings = {}
    /\ AiResults \subseteq Layers /\ Axes # {}
    /\ \A ai \in AiResults, i \in Ids : ai[i] # None => ai[i].src = "ai" /\ ~ai[i].reviewed /\ ~ai[i].edited
    /\ Pipeline \notin People /\ None \notin People /\ Approvers \subseteq People
    /\ Keep \in Nat \ {0} /\ Attempts \in Nat \ {0} /\ MaxRev \in Nat

VARIABLES
    rev,       \* floor_documents.revision
    docs,      \* history: the document at each revision, the current one at rev
    last,      \* last_writer_id, last_body_sha256, last_base_revision
    log,       \* floor_change_log
    versions,  \* versions of the floor, oldest first
    req,       \* the request each person has under way
    touched,   \* history: items somebody drew, moved or approved
    gone       \* history: where each wall was that somebody removed last

docVars == <<rev, docs, last, log, touched, gone>>
vars == <<docVars, versions, req>>

-----------------------------------------------------------------------------
(* Layers *)

Nothing == [layer |-> None, axes |-> None]
EmptyLayer == [i \in Ids |-> None]
Live(l) == {i \in Ids : l[i] # None}
References(i) == IF i \in Walls THEN {o \in Openings : Host[o] = i} ELSE {Host[i]}
Valid(l) ==
    /\ \A o \in Openings \cap Live(l) : Host[o] \in Live(l)
    /\ \A i \in Live(l) : l[i].reviewed => l[i].src = "human"

MarkEdited(old, sent) ==
    LET Edited(i) == /\ sent[i] # None
                     /\ sent[i].src = "ai"
                     /\ \/ old[i] = None
                        \/ old[i].edited \/ old[i].src = "human"
                        \/ old[i].at # sent[i].at
    IN  [i \in Ids |-> IF Edited(i) THEN [sent[i] EXCEPT !.edited = TRUE] ELSE sent[i]]

Reviewed(l) == {i \in Live(l) : l[i].reviewed}
Approves(old, new) == ~(Reviewed(new) \subseteq Reviewed(old))

(* The log rows of a write: the tracked fields that differ, or one mark on *)
(* each item that differs when none of them does.                          *)
Row(r, by, i, field, at) == [rev |-> r, by |-> by, id |-> i, field |-> field, at |-> at]
Diff(old, new, r, by) ==
    LET live  == Live(new)
        fresh == live \ Live(old)
        moved == {i \in live \ fresh : old[i].at # new[i].at}
    IN  {Row(r, by, i, "line", new[i].at) : i \in fresh \cup moved}
        \cup {Row(r, by, i, "thickness_mm", None) : i \in fresh}
        \cup {Row(r, by, i, "__deleted__", None) : i \in Live(old) \ live}
TouchMarks(old, new, r, by) ==
    {Row(r, by, i, "thickness_mm", None) : i \in {j \in Live(old) \cap Live(new) : old[j] # new[j]}}
LogRowsMutant(old, new, r, by) == Diff(old, new, r, by)
LogRowsLateMutant(old, new, r, by) == Diff(old, new, r + 1, by)
LogRows(old, new, r, by) ==
    LET diff == Diff(old, new, r, by) IN IF diff # {} THEN diff ELSE TouchMarks(old, new, r, by)

ChangedSinceMutant(base) == \E row \in log : row.rev > rev
ChangedSince(base) == \E row \in log : row.rev > base

-----------------------------------------------------------------------------
(* Merging what the pipeline built *)

OfPeople(l) == {i \in Live(l) : l[i].reviewed \/ l[i].src = "human" \/ l[i].edited}
KeepIdsMutant(l) == OfPeople(l)
KeepIds(l) ==
    LET closed == {S \in SUBSET Live(l) : /\ OfPeople(l) \subseteq S
                                         /\ \A i \in S : References(i) \cap Live(l) \subseteq S}
    IN  {i \in Live(l) : \A S \in closed : i \in S}

NewestOf(i) == {row \in log : row.id = i /\ \A other \in log : other.id = i => other.rev <= row.rev}
Removed(i) == \E row \in NewestOf(i) : row.field = "__deleted__" /\ row.by # Pipeline
LastPlaces(i) ==
    LET lines == {row \in log : row.id = i /\ row.field = "line"}
    IN  {row.at : row \in {x \in lines : \A y \in lines : y.rev <= x.rev}}
HumanRemovals == {r \in [wall : Walls, at : Places] : Removed(r.wall) /\ r.at \in LastPlaces(r.wall)}

\* An AI wall that is kept already: under its id, or a kept wall is where it is.
TakenMutant(l, ai, w) == w \in KeepIds(l) \/ \E k \in Live(l) \cap Walls : l[k].at = ai[w].at
Taken(l, ai, w) == w \in KeepIds(l) \/ \E k \in KeepIds(l) \cap Walls : l[k].at = ai[w].at

Merge(l, ai) ==
    LET keep == KeepIds(l)
        live == {r \in HumanRemovals : r.wall \notin Live(l)}
        Suppressed(w) == \E r \in live : r.wall = w \/ r.at = ai[w].at
        walls == {w \in Walls \cap Live(ai) : ~Taken(l, ai, w) /\ ~Suppressed(w)}
        openings == {o \in Openings \cap Live(ai) : o \notin keep /\ Host[o] \in walls}
    IN  [i \in Ids |-> IF i \in keep THEN l[i]
                       ELSE IF i \in walls \cup openings THEN ai[i] ELSE None]

-----------------------------------------------------------------------------
(* Writing a document and recording a version *)

NextLayer(cur, body) == IF body.layer = None THEN cur.layer ELSE MarkEdited(cur.layer, body.layer)
NextAxes(cur, body) == IF body.axes = None THEN cur.axes ELSE body.axes
Unchanged(cur, body) == NextLayer(cur, body) = cur.layer /\ NextAxes(cur, body) = cur.axes
Forbidden(p, cur, body) == p \notin Approvers /\ Approves(cur.layer, NextLayer(cur, body))

(* C09b: the last write is this very body of this person on this base. *)
Replayed(p, base, body) == base < rev /\ last = [by |-> p, body |-> body, base |-> base]

Commit(by, base, body, layer, axes) ==
    LET old == docs[rev].layer
        person == by # Pipeline
    IN  /\ rev < MaxRev
        /\ rev' = rev + 1
        /\ docs' = [docs EXCEPT ![rev + 1] = [layer |-> layer, axes |-> axes]]
        /\ last' = [by |-> by, body |-> body, base |-> base]
        /\ log' = log \cup LogRows(old, layer, rev + 1, by)
        /\ touched' = {i \in Live(layer) :
                         \/ i \in touched /\ old[i] # None
                         \/ person /\ (old[i] = None \/ old[i].at # layer[i].at)
                         \/ person /\ layer[i].reviewed}
        /\ gone' = [w \in Walls |->
                      IF layer[w] # None THEN None
                      ELSE IF old[w] = None THEN gone[w]
                      ELSE IF person THEN old[w].at ELSE None]
Write(p, r) == Commit(p, r.base, r.body, NextLayer(docs[rev], r.body), NextAxes(docs[rev], r.body))

Version(r, by, from, base) == [rev |-> r, by |-> by, from |-> from, base |-> base, kept |-> TRUE]
RecordMutant(vs, v) ==
    IF vs # <<>> /\ vs[Len(vs)].rev = v.rev THEN vs
    ELSE [n \in 1..Len(vs) + 1 |->
            IF n = Len(vs) + 1 THEN v
            ELSE [vs[n] EXCEPT !.kept = vs[n].kept /\ n > Len(vs) + 2 - Keep]]
Record(vs, v) ==
    IF vs # <<>> /\ vs[Len(vs)].rev = v.rev THEN vs
    ELSE [n \in 1..Len(vs) + 1 |->
            IF n = Len(vs) + 1 THEN v
            ELSE [vs[n] EXCEPT !.kept = vs[n].kept /\ n > Len(vs) + 1 - Keep]]

-----------------------------------------------------------------------------
(* #35: one person's write.  The request keeps what it loaded (cur), the   *)
(* attempts it lost and how often it changed the layer.                    *)

Idle == [pc |-> "idle", base |-> 0, body |-> Nothing, from |-> 0, cur |-> 0, tries |-> 0, times |-> 0]
Becomes(p, r, pc) == req' = [req EXCEPT ![p] = [r EXCEPT !.pc = pc]]
Done(p, r) == req' = [req EXCEPT ![p] = [r EXCEPT !.pc = "done", !.cur = 0, !.tries = 0]]
Drop(p) == req' = [req EXCEPT ![p] = Idle]
Applied(r) == [r EXCEPT !.times = @ + (IF docs'[rev'].layer # docs[rev].layer THEN 1 ELSE 0)]

Drawn(l) ==
    {[l EXCEPT ![w] = [src |-> "human", edited |-> FALSE, reviewed |-> FALSE, at |-> p]] :
        w \in Walls \ Live(l), p \in Places}
Moved(l) == {[l EXCEPT ![w].at = p] : w \in Walls \cap Live(l), p \in Places}
Approved(l) == {[l EXCEPT ![i].src = "human", ![i].reviewed = TRUE] : i \in Live(l)}
FlagsLost(l) == {[l EXCEPT ![i].src = "ai", ![i].edited = FALSE, ![i].reviewed = FALSE] : i \in Live(l)}
Deleted(l) ==
    {[j \in Ids |-> IF j = i \/ (i \in Walls /\ j \in References(i)) THEN None ELSE l[j]] : i \in Live(l)}
Edits(l) == Drawn(l) \cup Moved(l) \cup Approved(l) \cup FlagsLost(l) \cup Deleted(l)
Bodies(d) ==
    {[layer |-> l, axes |-> None] : l \in {e \in Edits(d.layer) : Valid(e) /\ e # d.layer}}
    \cup {[layer |-> None, axes |-> a] : a \in Axes}

Decide(p, r) ==
    LET cur == docs[r.cur] IN
    \/ Forbidden(p, cur, r.body) /\ Drop(p)
    \/ ~Forbidden(p, cur, r.body) /\ Unchanged(cur, r.body) /\ Done(p, r)
    \/ ~Forbidden(p, cur, r.body) /\ ~Unchanged(cur, r.body) /\ Becomes(p, r, "update")

Load(p, r) ==
    LET loaded == [r EXCEPT !.cur = rev] IN
    /\ rev < MaxRev
    /\ \/ Replayed(p, r.base, r.body) /\ Done(p, r)
       \/ r.base = rev /\ Decide(p, loaded)
       \/ r.base < rev /\ ~Replayed(p, r.base, r.body) /\ Becomes(p, loaded, "settle")
    /\ UNCHANGED <<docVars, versions>>

Send(p) ==
    /\ req[p].pc = "idle"
    /\ \E base \in 0..rev : \E body \in Bodies(docs[base]) :
         Load(p, [Idle EXCEPT !.base = base, !.body = body])

Settle(p) ==
    /\ req[p].pc = "settle" /\ rev < MaxRev
    /\ \/ ChangedSince(req[p].base) /\ Drop(p)
       \/ ~ChangedSince(req[p].base) /\ Decide(p, req[p])
    /\ UNCHANGED <<docVars, versions>>

UpdateMutant(p) ==
    /\ req[p].pc = "update"
    /\ Write(p, req[p])
    /\ Done(p, Applied(req[p]))
    /\ UNCHANGED versions
Update(p) ==
    /\ req[p].pc = "update" /\ req[p].cur = rev
    /\ Write(p, req[p])
    /\ Done(p, Applied(req[p]))
    /\ UNCHANGED versions

LoseRace(p) ==
    /\ req[p].pc = "update" /\ req[p].cur # rev
    /\ req[p].tries + 1 < Attempts
    /\ Load(p, [req[p] EXCEPT !.tries = @ + 1])
GiveUp(p) ==
    /\ req[p].pc = "update" /\ req[p].cur # rev
    /\ req[p].tries + 1 = Attempts /\ rev < MaxRev
    /\ Drop(p)
    /\ UNCHANGED <<docVars, versions>>

(* The answer arrives, or is lost and the person sends the same request again. *)
Answer(p) ==
    /\ req[p].pc = "done" /\ rev < MaxRev
    /\ Drop(p)
    /\ UNCHANGED <<docVars, versions>>
SendAgain(p) ==
    /\ req[p].pc = "done" /\ req[p].from = 0
    /\ Load(p, req[p])

-----------------------------------------------------------------------------
(* N19: a person restores a version, under the lock of the document *)

Asked(base, v) ==
    [Idle EXCEPT !.base = base, !.from = v, !.body = docs[versions[v].rev]]
RestoreRequests(p) ==
    {r \in {Asked(base, v) : base \in 0..rev, v \in 1..Len(versions)} : req[p].pc = "idle"}
    \cup {r \in {req[p]} : r.pc = "done" /\ r.from # 0}

Known(p, r) ==
    LET newest == versions[Len(versions)]
    IN  newest.from = r.from /\ newest.by = p /\ newest.rev = rev /\ newest.base = r.base
Conflict(p, r) == r.base < rev /\ ~Replayed(p, r.base, r.body) /\ ChangedSince(r.base)
NoChange(p, r) == Replayed(p, r.base, r.body) \/ Unchanged(docs[rev], r.body)
Refused(p, r) ==
    \/ ~versions[r.from].kept
    \/ Conflict(p, r)
    \/ ~Replayed(p, r.base, r.body) /\ Forbidden(p, docs[rev], r.body)
Before(by) == Record(versions, Version(rev, by, 0, 0))

RestoreAgain(p, r) ==
    /\ Known(p, r)
    /\ Done(p, r)
    /\ UNCHANGED <<docVars, versions>>
RestoreRefused(p, r) ==
    /\ ~Known(p, r) /\ Refused(p, r)
    /\ Drop(p)
    /\ UNCHANGED <<docVars, versions>>
RestoreNothing(p, r) ==
    /\ ~Known(p, r) /\ ~Refused(p, r) /\ NoChange(p, r)
    /\ versions' = Before(p)
    /\ Done(p, r)
    /\ UNCHANGED docVars
Restore(p, r) ==
    /\ ~Known(p, r) /\ ~Refused(p, r) /\ ~NoChange(p, r)
    /\ Write(p, r)
    /\ versions' = Record(Before(p), Version(rev + 1, p, r.from, r.base))
    /\ Done(p, Applied(r))
RestoreVersion(p) ==
    /\ rev < MaxRev
    /\ \E r \in RestoreRequests(p) :
        RestoreAgain(p, r) \/ RestoreRefused(p, r) \/ RestoreNothing(p, r) \/ Restore(p, r)

-----------------------------------------------------------------------------
(* The persist step, alone on the floor, and the compaction of the log *)

SharesFloor(p) == req[p].pc \in {"settle", "update"}

Persist ==
    /\ rev < MaxRev /\ \A p \in People : ~SharesFloor(p)
    /\ \E ai \in AiResults :
         LET new == Merge(docs[rev].layer, ai)
         IN  /\ Valid(new)
             /\ \/ /\ new = docs[rev].layer
                   /\ versions' = Before(Pipeline)
                   /\ UNCHANGED docVars
                \/ /\ new # docs[rev].layer
                   /\ Commit(Pipeline, rev, Nothing, new, docs[rev].axes)
                   /\ versions' = Record(Before(Pipeline), Version(rev + 1, Pipeline, 0, 0))
    /\ UNCHANGED req

HiddenMutant(row) == \E x \in log : x.id = row.id /\ x.rev > row.rev
Hidden(row) == \E x \in log : x.id = row.id /\ x.field = row.field /\ x.rev > row.rev
Compact ==
    /\ rev < MaxRev
    /\ \E cutoff \in 1..rev : log' = {row \in log : row.rev > cutoff \/ ~Hidden(row)}
    /\ log' # log
    /\ UNCHANGED <<rev, docs, last, touched, gone, versions, req>>

-----------------------------------------------------------------------------
Init ==
    /\ rev = 0
    /\ docs = [r \in 0..MaxRev |-> [layer |-> EmptyLayer, axes |-> CHOOSE a \in Axes : TRUE]]
    /\ last = [by |-> None, body |-> Nothing, base |-> 0]
    /\ log = {} /\ versions = <<>>
    /\ req = [p \in People |-> Idle]
    /\ touched = {} /\ gone = [w \in Walls |-> None]

Next ==
    \/ \E p \in People :
         \/ Send(p) \/ Settle(p) \/ Update(p) \/ LoseRace(p) \/ GiveUp(p)
         \/ Answer(p) \/ SendAgain(p) \/ RestoreVersion(p)
    \/ Persist
    \/ Compact

Spec == Init /\ [][Next]_vars

-----------------------------------------------------------------------------
(* Properties *)

(* Every variable keeps its type (the columns of floor_documents,          *)
(* floor_change_log and versions), and nobody works on a revision to come. *)
TypeOK ==
    /\ rev \in 0..MaxRev
    /\ docs \in [0..MaxRev -> Doc]
    /\ last \in [by : People \cup {Pipeline, None}, body : Body, base : 0..rev]
    /\ \A row \in log : row.rev \in 1..rev /\ row.id \in Ids
    /\ \A n \in 1..Len(versions) : versions[n].rev \in 0..rev
    /\ \A p \in People :
         /\ req[p].pc \in {"idle", "settle", "update", "done"}
         /\ req[p].base \in 0..rev /\ req[p].cur \in 0..rev
         /\ req[p].body \in Body
    /\ touched \subseteq Ids
    /\ gone \in [Walls -> Places \cup {None}]

(* The change log tells a stale copy from a fresh one: a base after which  *)
(* it has no row carries the current layer, whatever compaction removed.   *)
LogTellsTheTruth ==
    \A base \in 0..rev : ~ChangedSince(base) => docs[base].layer = docs[rev].layer

(* No edit is lost: a person's write, restores included, replaces exactly  *)
(* the layer that person saw.                                              *)
NoLostEdit ==
    [][\A p \in People : rev' # rev /\ last'.by = p =>
          docs[last'.base].layer = docs[rev].layer]_vars

(* A request sent again because its answer was lost changes the layer no   *)
(* second time, whoever wrote in between.                                  *)
AppliedOnce == \A p \in People : req[p].times <= 1

(* K21: a run of the pipeline leaves everything alone that somebody drew,  *)
(* moved or approved, even if a client dropped the flags that say so.      *)
PipelineKeepsHumanWork ==
    [][rev' # rev /\ last'.by = Pipeline =>
          \A i \in touched : docs'[rev'].layer[i] = docs[rev].layer[i]]_vars

(* H2: a run does not bring back a wall somebody removed, under its id or  *)
(* at its place, however much of the log was compacted since.              *)
RemovedStaysRemoved ==
    [][rev' # rev /\ last'.by = Pipeline =>
          \A w \in Walls : docs[rev].layer[w] = None /\ docs'[rev'].layer[w] # None =>
             /\ gone[w] = None
             /\ \A k \in Walls : gone[k] # docs'[rev'].layer[w].at]_vars

(* The merge learns what people removed, and where it was, from the log    *)
(* alone (human_removals); it learns exactly that, although rows are       *)
(* compacted away, walls come back, and runs remove walls as well.         *)
RemovalsAreExact == HumanRemovals = {r \in [wall : Walls, at : Places] : gone[r.wall] = r.at}

(* A run that built once more what was just merged leaves the layer alone  *)
(* (merge.py promises this for a redelivery, test_random.py for one and    *)
(* the same list of removals): what the first merge wrote, the log rows    *)
(* included, is not taken for something people did.                        *)
RerunChangesNothing ==
    [][rev' # rev /\ last'.by = Pipeline =>
          \E ai \in AiResults :
             /\ docs'[rev'].layer = Merge(docs[rev].layer, ai)
             /\ (Merge(docs[rev].layer, ai) = docs[rev].layer)']_vars

(* What the pipeline built can always be written: the merge leaves no      *)
(* opening without its wall, so a run never dies with                      *)
(* LAYER_INTEGRITY_BROKEN because of what people did meanwhile.            *)
MergeIsValid == \A ai \in AiResults : Valid(Merge(docs[rev].layer, ai))

(* A restore or a run that changed the floor can be undone: the version of *)
(* the revision it replaced is there, with its snapshot.                   *)
Undoable ==
    [][rev' # rev /\ versions' # versions =>
          \E n \in 1..Len(versions') : versions'[n].rev = rev /\ versions'[n].kept]_vars

(* The document under all its requests, restores, runs and compactions is  *)
(* a SharedFloor: what a person decided on a revision read without a lock, *)
(* validity and the right to approve included, still holds of the revision *)
(* it replaces, and what the pipeline built is merged around it.           *)
Shared == INSTANCE SharedFloor WITH
    ValidLayers <- {l \in Layers : Valid(l)},
    layers <- [r \in 0..MaxRev |-> docs[r].layer],
    wrote <- [by |-> last.by, base |-> last.base]
ImplementsSharedFloor == Shared!Spec
===============================================================================
