-------------------------- MODULE SpatialWrite_proofs --------------------------
(***************************************************************************)
(* What TLAPS proves of SpatialWrite, for any number of people, items and  *)
(* places, and any detector.                                               *)
(*                                                                         *)
(* DocInv is about the document and its log: the log has a newest row,     *)
(* which compaction never removes, so it keeps telling a stale base from a *)
(* fresh one; and what somebody touched carries a flag that says so.       *)
(* ReqOK is about one request: when its update would match the revision,   *)
(* its base has the current layer; and once it changed the layer the log   *)
(* has a row after its base, so it cannot be applied again.  Tracked ties  *)
(* the walls, and those that people removed, to the newest rows of each;   *)
(* Exact adds the converse, so the log tells neither less nor more than    *)
(* what people removed.                                                    *)
(***************************************************************************)
EXTENDS SpatialWrite, SequenceTheorems, TLAPS

Pcs == {"idle", "settle", "update", "done"}
Req == [pc : Pcs, base : Nat, body : Body, from : Nat, cur : Nat, tries : Nat, times : Nat]
Versions == [rev : Nat, by : People \cup {Pipeline}, from : Nat, base : Nat, kept : BOOLEAN]

Sound(r, n, l) ==
    /\ r \in Req
    /\ r.base <= n /\ r.cur <= n
    /\ r.body.layer # None => Valid(r.body.layer)
    /\ r.times <= 1
    /\ r.times = 1 => r.base < n /\ \E row \in l : row.rev > r.base
ReqOK(r, d, n, l) ==
    /\ Sound(r, n, l)
    /\ r.pc \in {"idle", "update"} => r.times = 0
    /\ r.pc = "update" /\ r.cur = n => d[r.base].layer = d[n].layer
Requested == req \in [People -> Req] /\ \A p \in People : ReqOK(req[p], docs, rev, log)

Newest == log # {} => \E row \in log : \A other \in log : other.rev <= row.rev
DocType ==
    /\ rev \in 0..MaxRev
    /\ docs \in [0..MaxRev -> Doc]
    /\ last \in [by : People \cup {Pipeline, None}, body : Body, base : 0..rev]
    /\ \A row \in log : row.rev \in 1..rev /\ row.id \in Ids
    /\ touched \subseteq Ids
    /\ gone \in [Walls -> Places \cup {None}]
Tracked == \A w \in Walls :
    /\ docs[rev].layer[w] # None => docs[rev].layer[w].at \in LastPlaces(w)
    /\ gone[w] # None => docs[rev].layer[w] = None /\ gone[w] \in LastPlaces(w) /\ Removed(w)
DocInv ==
    /\ DocType
    /\ Newest
    /\ LogTellsTheTruth
    /\ \A r \in 0..rev : Valid(docs[r].layer)
    /\ touched \subseteq OfPeople(docs[rev].layer)
    /\ Tracked

VersionsOK ==
    /\ versions \in Seq(Versions)
    /\ \A n \in 1..Len(versions) : versions[n].rev <= rev
    /\ versions # <<>> => versions[Len(versions)].kept

IInv == DocInv /\ Requested /\ VersionsOK

-----------------------------------------------------------------------------
(* Layers *)

LEMMA Constants ==
    /\ None \notin Item /\ None \notin Layers /\ None \notin Places /\ None \notin Axes
    /\ Host \in [Openings -> Walls] /\ Walls \cap Openings = {}
    /\ AiResults \subseteq Layers /\ Axes # {}
    /\ \A ai \in AiResults, i \in Ids : ai[i] # None => ai[i].src = "ai" /\ ~ai[i].reviewed /\ ~ai[i].edited
    /\ Pipeline \notin People /\ None \notin People
    /\ Keep \in Nat \ {0} /\ Attempts \in Nat \ {0} /\ MaxRev \in Nat
BY ConstantsAssumption

LEMMA LayerItem ==
    ASSUME NEW l \in Layers, NEW i \in Ids
    PROVE  l[i] = None \/ (l[i] # None /\ l[i] \in Item /\ l[i].at \in Places /\ l[i].at # None)
BY Constants DEF Layers, Item

(* Flagging an item as edited changes neither what is there nor what is approved. *)
LEMMA MarkEditedValid ==
    ASSUME NEW old \in Layers, NEW sent \in Layers
    PROVE  /\ MarkEdited(old, sent) \in Layers
           /\ Valid(sent) => Valid(MarkEdited(old, sent))
           /\ \A i \in Ids :
                /\ MarkEdited(old, sent)[i] = None <=> sent[i] = None
                /\ sent[i] # None =>
                     /\ MarkEdited(old, sent)[i].at = sent[i].at
                     /\ MarkEdited(old, sent)[i].src = sent[i].src
                     /\ MarkEdited(old, sent)[i].reviewed = sent[i].reviewed
                     /\ sent[i].src = "ai" /\ (\/ old[i] = None \/ old[i].edited
                                               \/ old[i].src = "human" \/ old[i].at # sent[i].at)
                          => MarkEdited(old, sent)[i].edited
<1> DEFINE new == MarkEdited(old, sent)
           Edited(i) == /\ sent[i] # None
                        /\ sent[i].src = "ai"
                        /\ \/ old[i] = None
                           \/ old[i].edited \/ old[i].src = "human"
                           \/ old[i].at # sent[i].at
<1>1. new = [i \in Ids |-> IF Edited(i) THEN [sent[i] EXCEPT !.edited = TRUE] ELSE sent[i]]
    BY DEF MarkEdited
<1>2. ASSUME NEW i \in Ids
      PROVE  /\ new[i] \in Item \cup {None}
             /\ new[i] = None <=> sent[i] = None
             /\ sent[i] # None =>
                  /\ new[i].at = sent[i].at /\ new[i].src = sent[i].src /\ new[i].reviewed = sent[i].reviewed
                  /\ Edited(i) => new[i].edited
  <2>1. CASE Edited(i)
    <3>1. sent[i] \in Item /\ new[i] = [sent[i] EXCEPT !.edited = TRUE]
      BY <1>1, <2>1, LayerItem
    <3>2. new[i] \in Item /\ new[i].at = sent[i].at /\ new[i].src = sent[i].src
          /\ new[i].reviewed = sent[i].reviewed /\ new[i].edited
      BY <3>1 DEF Item
    <3> QED BY <2>1, <3>2, Constants
  <2>2. CASE ~Edited(i)
    <3>1. new[i] = sent[i]
      BY <1>1, <2>2
    <3> QED BY <2>2, <3>1, LayerItem
  <2> QED BY <2>1, <2>2
<1>3. new \in Layers
    BY <1>1, <1>2 DEF Layers
<1>4. Live(new) = Live(sent)
    BY <1>2 DEF Live
<1>5. Valid(sent) => Valid(new)
    BY <1>2, <1>4 DEF Valid, Live
<1> HIDE DEF new
<1> QED BY <1>2, <1>3, <1>5 DEF new

(* A write that changes the layer leaves at least one row in the log. *)
LEMMA LogRowsTell ==
    ASSUME NEW old \in Layers, NEW new \in Layers, NEW r, NEW by
    PROVE  /\ \A row \in LogRows(old, new, r, by) : row.rev = r /\ row.id \in Ids
           /\ old # new => LogRows(old, new, r, by) # {}
<1>1. \A row \in Diff(old, new, r, by) : row.rev = r /\ row.id \in Ids
    BY DEF Diff, Row, Live
<1>2. \A row \in TouchMarks(old, new, r, by) : row.rev = r /\ row.id \in Ids
    BY DEF TouchMarks, Row, Live
<1>3. ASSUME old # new, Diff(old, new, r, by) = {} PROVE TouchMarks(old, new, r, by) # {}
  <2>1. PICK i \in Ids : old[i] # new[i]
    BY <1>3 DEF Layers
  <2>2. CASE i \notin Live(old)
    <3>1. i \in Live(new) \ Live(old)
      BY <2>1, <2>2 DEF Live
    <3>2. Row(r, by, i, "thickness_mm", None) \in Diff(old, new, r, by)
      BY <3>1 DEF Diff
    <3> QED BY <1>3, <3>2
  <2>3. CASE i \notin Live(new)
    <3>1. i \in Live(old) \ Live(new)
      BY <2>1, <2>3 DEF Live
    <3>2. Row(r, by, i, "__deleted__", None) \in Diff(old, new, r, by)
      BY <3>1 DEF Diff
    <3> QED BY <1>3, <3>2
  <2>4. CASE i \in Live(old) \cap Live(new)
    <3>1. Row(r, by, i, "thickness_mm", None) \in TouchMarks(old, new, r, by)
      BY <2>1, <2>4 DEF TouchMarks
    <3> QED BY <3>1
  <2> QED BY <2>2, <2>3, <2>4
<1> QED BY <1>1, <1>2, <1>3 DEF LogRows
(* The merge keeps what people made, and what it keeps holds together. *)
LEMMA KeepFacts ==
    ASSUME NEW l \in Layers
    PROVE  /\ KeepIds(l) \subseteq Live(l) /\ OfPeople(l) \subseteq KeepIds(l)
           /\ Valid(l) => \A o \in Openings \cap KeepIds(l) : Host[o] \in KeepIds(l)
<1>1. KeepIds(l) \subseteq Live(l) /\ OfPeople(l) \subseteq Live(l)
    BY DEF KeepIds, OfPeople
<1>2. OfPeople(l) \subseteq KeepIds(l)
    BY <1>1 DEF KeepIds
<1>3. ASSUME Valid(l), NEW o \in Openings \cap KeepIds(l)
      PROVE  Host[o] \in KeepIds(l)
  <2>1. Host[o] \in Live(l) /\ o \notin Walls
    BY <1>1, <1>3, Constants DEF Valid
  <2>2. Host[o] \in References(o)
    BY <2>1 DEF References
  <2> QED BY <1>3, <2>1, <2>2 DEF KeepIds
<1> QED BY <1>1, <1>2, <1>3

LEMMA MergeFacts ==
    ASSUME NEW l \in Layers, NEW ai \in AiResults
    PROVE  /\ Merge(l, ai) \in Layers
           /\ \A i \in OfPeople(l) : Merge(l, ai)[i] = l[i]
           /\ Valid(l) => Valid(Merge(l, ai))
<1> DEFINE keep == KeepIds(l)
           live == {r \in HumanRemovals : r.wall \notin Live(l)}
           Suppressed(w) == \E r \in live : r.wall = w \/ r.at = ai[w].at
           walls == {w \in Walls \cap Live(ai) : ~Taken(l, ai, w) /\ ~Suppressed(w)}
           openings == {o \in Openings \cap Live(ai) : o \notin keep /\ Host[o] \in walls}
           new == Merge(l, ai)
<1>1. new = [i \in Ids |-> IF i \in keep THEN l[i] ELSE IF i \in walls \cup openings THEN ai[i] ELSE None]
    BY DEF Merge
<1>2. keep \subseteq Live(l) /\ OfPeople(l) \subseteq keep /\ (Valid(l) => \A o \in Openings \cap keep : Host[o] \in keep)
    BY KeepFacts
<1>3. ai \in Layers /\ walls \subseteq Live(ai) \cap Walls /\ openings \subseteq Live(ai) \cap Openings
      /\ \A o \in openings : Host[o] \in walls
    BY Constants
<1> HIDE DEF keep, walls, openings, new
<1>4. new \in Layers
    BY <1>1, <1>3 DEF Layers
<1>5. \A i \in OfPeople(l) : new[i] = l[i]
    BY <1>1, <1>2 DEF Live
<1>6. \A i \in keep \cup walls \cup openings : new[i] # None
    BY <1>1, <1>2, <1>3 DEF Live
<1>7. Live(new) = keep \cup walls \cup openings
    BY <1>1, <1>2, <1>3, <1>6 DEF Live
<1>8. ASSUME Valid(l) PROVE Valid(new)
  <2>1. ASSUME NEW o \in Openings \cap Live(new) PROVE Host[o] \in Live(new)
    <3>1. o \in keep \/ o \in openings
      BY <1>3, <1>7, Constants
    <3> QED BY <1>2, <1>3, <1>7, <1>8, <3>1
  <2>2. ASSUME NEW i \in Live(new), new[i].reviewed PROVE new[i].src = "human"
    <3>1. CASE i \in keep
      BY <1>1, <1>2, <1>8, <2>2, <3>1 DEF Valid, Live
    <3>2. CASE i \notin keep
      <4>1. i \in Live(ai) /\ new[i] = ai[i] /\ i \in Ids /\ ai[i] # None
        BY <1>1, <1>3, <1>7, <3>2 DEF Live
      <4> QED BY <2>2, <4>1, Constants
    <3> QED BY <3>1, <3>2
  <2> QED BY <2>1, <2>2 DEF Valid
<1> QED BY <1>4, <1>5, <1>8 DEF new

-----------------------------------------------------------------------------
(* A revision *)

(* The rows of a write say where each wall is that it draws or moves, and which it removes. *)
Told(rows, old, new, r, by, w) ==
    /\ new[w] # None /\ (old[w] = None \/ old[w].at # new[w].at) => Row(r, by, w, "line", new[w].at) \in rows
    /\ old[w] # None /\ new[w] = None => Row(r, by, w, "__deleted__", None) \in rows
    /\ new[w] = None \/ (old[w] # None /\ old[w].at = new[w].at) =>
          \A row \in rows : ~(row.id = w /\ row.field = "line")
    /\ new[w] = None /\ old[w] = None => \A row \in rows : row.id # w
LEMMA WallRows ==
    ASSUME NEW old \in Layers, NEW new \in Layers, NEW r, NEW by, NEW w \in Walls
    PROVE  Told(LogRows(old, new, r, by), old, new, r, by, w)
<1>1. w \in Ids
    BY DEF Ids
<1>2. \A x \in Diff(old, new, r, by) : LogRows(old, new, r, by) = Diff(old, new, r, by)
    BY DEF LogRows
<1>3. ASSUME new[w] # None, old[w] = None \/ old[w].at # new[w].at
      PROVE  Row(r, by, w, "line", new[w].at) \in Diff(old, new, r, by)
    BY <1>1, <1>3 DEF Diff, Live
<1>4. ASSUME old[w] # None, new[w] = None
      PROVE  Row(r, by, w, "__deleted__", None) \in Diff(old, new, r, by)
    BY <1>1, <1>4 DEF Diff, Live
<1>5. ASSUME new[w] = None \/ (old[w] # None /\ old[w].at = new[w].at), NEW row \in LogRows(old, new, r, by)
      PROVE  ~(row.id = w /\ row.field = "line")
  <2>1. CASE row \in Diff(old, new, r, by)
    BY <1>5, <2>1 DEF Diff, Live, Row
  <2>2. CASE row \in TouchMarks(old, new, r, by)
    BY <2>2 DEF TouchMarks, Row
  <2> QED BY <2>1, <2>2 DEF LogRows
<1>6. ASSUME new[w] = None, old[w] = None, NEW row \in LogRows(old, new, r, by)
      PROVE  row.id # w
  <2>1. CASE row \in Diff(old, new, r, by)
    BY <1>6, <2>1 DEF Diff, Live, Row
  <2>2. CASE row \in TouchMarks(old, new, r, by)
    BY <1>6, <2>2 DEF TouchMarks, Row, Live
  <2> QED BY <2>1, <2>2 DEF LogRows
<1> QED BY <1>2, <1>3, <1>4, <1>5, <1>6 DEF Told

(* So the newest rows of a wall tell where it is, or was when somebody removed it. *)
LEMMA CommitTracks ==
    ASSUME DocInv, NEW by \in People \cup {Pipeline}, NEW layer \in Layers,
           log' = log \cup LogRows(docs[rev].layer, layer, rev + 1, by),
           docs'[rev'].layer = layer,
           gone' = [w \in Walls |->
                      IF layer[w] # None THEN None
                      ELSE IF docs[rev].layer[w] = None THEN gone[w]
                      ELSE IF by # Pipeline THEN docs[rev].layer[w].at ELSE None]
    PROVE  Tracked'
<1> DEFINE old == docs[rev].layer
           rows == LogRows(old, layer, rev + 1, by)
<1>0. rev \in Nat /\ (\A row \in log : row.rev \in Nat /\ row.rev <= rev) /\ old \in Layers /\ Tracked
    BY Constants DEF DocInv, DocType, Doc
<1>1. \A row \in rows : row.rev = rev + 1
    BY <1>0, LogRowsTell
<1> SUFFICES ASSUME NEW w \in Walls
             PROVE  /\ layer[w] # None => layer[w].at \in LastPlaces(w)'
                    /\ gone'[w] # None => layer[w] = None /\ gone'[w] \in LastPlaces(w)' /\ Removed(w)'
    BY DEF Tracked
<1>3. log' = log \cup rows
    OBVIOUS
<1>4. gone'[w] = IF layer[w] # None THEN None
                 ELSE IF old[w] = None THEN gone[w]
                 ELSE IF by # Pipeline THEN old[w].at ELSE None
    OBVIOUS
<1> HIDE DEF rows, old
<1>9. Told(rows, old, layer, rev + 1, by, w)
    BY <1>0, WallRows DEF rows
<1>2. /\ layer[w] # None /\ (old[w] = None \/ old[w].at # layer[w].at) =>
           Row(rev + 1, by, w, "line", layer[w].at) \in rows
      /\ old[w] # None /\ layer[w] = None => Row(rev + 1, by, w, "__deleted__", None) \in rows
      /\ layer[w] = None \/ (old[w] # None /\ old[w].at = layer[w].at) =>
           \A row \in rows : ~(row.id = w /\ row.field = "line")
      /\ layer[w] = None /\ old[w] = None => \A row \in rows : row.id # w
    BY <1>9 DEF Told
<1>5. ASSUME \A row \in rows : ~(row.id = w /\ row.field = "line")
      PROVE  LastPlaces(w)' = LastPlaces(w)
  <2>1. {row \in log' : row.id = w /\ row.field = "line"} = {row \in log : row.id = w /\ row.field = "line"}
    BY <1>3, <1>5
  <2> QED BY <2>1 DEF LastPlaces
<1>6. ASSUME \A row \in rows : row.id # w
      PROVE  Removed(w)' = Removed(w)
  <2>1. NewestOf(w)' = NewestOf(w)
    BY <1>3, <1>6 DEF NewestOf
  <2> QED BY <2>1 DEF Removed
<1>7. ASSUME layer[w] # None PROVE layer[w].at \in LastPlaces(w)'
  <2>1. CASE old[w] # None /\ old[w].at = layer[w].at
    BY <1>0, <1>2, <1>5, <2>1 DEF Tracked, old
  <2>2. CASE ~(old[w] # None /\ old[w].at = layer[w].at)
    <3> DEFINE row == Row(rev + 1, by, w, "line", layer[w].at)
    <3>1. row \in log' /\ row.id = w /\ row.field = "line" /\ row.at = layer[w].at /\ row.rev = rev + 1
      BY <1>2, <1>3, <1>7, <2>2 DEF Row
    <3>2. \A y \in log' : y.rev <= row.rev
      BY <1>0, <1>1, <1>3, <3>1
    <3> HIDE DEF row
    <3> QED BY <3>1, <3>2 DEF LastPlaces
  <2> QED BY <2>1, <2>2
<1>8. ASSUME gone'[w] # None PROVE layer[w] = None /\ gone'[w] \in LastPlaces(w)' /\ Removed(w)'
  <2>1. layer[w] = None /\ LastPlaces(w)' = LastPlaces(w)
    BY <1>2, <1>4, <1>5, <1>8
  <2>2. CASE old[w] = None
    BY <1>0, <1>2, <1>4, <1>6, <1>8, <2>1, <2>2 DEF Tracked
  <2>3. CASE old[w] # None
    <3> DEFINE row == Row(rev + 1, by, w, "__deleted__", None)
    <3>1. by # Pipeline /\ gone'[w] = old[w].at
      BY <1>4, <1>8, <2>1, <2>3
    <3>2. row \in log' /\ row.id = w /\ row.field = "__deleted__" /\ row.by = by /\ row.rev = rev + 1
      BY <1>2, <1>3, <2>1, <2>3 DEF Row
    <3>3. \A y \in log' : y.rev <= row.rev
      BY <1>0, <1>1, <1>3, <3>2
    <3> HIDE DEF row
    <3>4. Removed(w)'
      BY <3>1, <3>2, <3>3 DEF Removed, NewestOf
    <3> QED BY <1>0, <2>1, <2>3, <3>1, <3>4 DEF Tracked, old
  <2> QED BY <2>2, <2>3
<1> QED BY <1>7, <1>8

(* What a write keeps of the document, of every request and of the log. *)
LEMMA CommitFacts ==
    ASSUME DocInv, NEW by \in People \cup {Pipeline}, NEW base \in 0..rev, NEW body \in Body,
           NEW layer \in Layers, NEW axes \in Axes, Valid(layer),
           Commit(by, base, body, layer, axes),
           \A i \in touched : layer[i] # None => i \in OfPeople(layer),
           by # Pipeline => \A i \in Live(layer) :
              docs[rev].layer[i] = None \/ docs[rev].layer[i].at # layer[i].at => i \in OfPeople(layer)
    PROVE  /\ DocInv' /\ rev' = rev + 1 /\ docs'[rev'].layer = layer
           /\ \A r : ReqOK(r, docs, rev, log) => ReqOK(r, docs', rev', log')
           /\ layer # docs[rev].layer => \E row \in log' : row.rev > rev
<1> USE Constants
<1> DEFINE old == docs[rev].layer
           rows == LogRows(old, layer, rev + 1, by)
<1>0. /\ rev \in 0..MaxRev /\ rev \in Nat /\ docs \in [0..MaxRev -> Doc]
      /\ \A row \in log : row.rev \in 1..rev /\ row.id \in Ids
      /\ old \in Layers /\ touched \subseteq Ids /\ gone \in [Walls -> Places \cup {None}]
    BY DEF DocInv, DocType, Doc
<1>1. /\ rev < MaxRev /\ rev' = rev + 1 /\ rev' \in 0..MaxRev
      /\ docs' = [docs EXCEPT ![rev + 1] = [layer |-> layer, axes |-> axes]]
      /\ last' = [by |-> by, body |-> body, base |-> base]
      /\ log' = log \cup rows
    BY <1>0 DEF Commit
<1>2. /\ docs' \in [0..MaxRev -> Doc] /\ docs'[rev'].layer = layer
      /\ \A r \in 0..rev : docs'[r] = docs[r]
    BY <1>0, <1>1 DEF Doc
<1>3. (\A row \in rows : row.rev = rev + 1 /\ row.id \in Ids) /\ (old # layer => rows # {})
    BY <1>0, LogRowsTell
<1> HIDE DEF rows
<1>4. touched' = {i \in Live(layer) :
                         \/ i \in touched /\ old[i] # None
                         \/ by # Pipeline /\ (old[i] = None \/ old[i].at # layer[i].at)
                         \/ by # Pipeline /\ layer[i].reviewed}
    BY DEF Commit
<1>5. touched' \subseteq OfPeople(layer) /\ touched' \subseteq Ids
    BY <1>4 DEF OfPeople, Live
<1>6. gone' \in [Walls -> Places \cup {None}]
  <2>1. gone' = [w \in Walls |->
                      IF layer[w] # None THEN None
                      ELSE IF old[w] = None THEN gone[w]
                      ELSE IF by # Pipeline THEN old[w].at ELSE None]
    BY DEF Commit
  <2>2. \A w \in Walls : old[w] # None => old[w].at \in Places
    BY <1>0, LayerItem DEF Ids
  <2> HIDE DEF old
  <2> QED BY <1>0, <2>1, <2>2
<1>7. DocType'
  <2>1. last' \in [by : People \cup {Pipeline, None}, body : Body, base : 0..rev']
    BY <1>0, <1>1
  <2>2. \A row \in log' : row.rev \in 1..rev' /\ row.id \in Ids
    BY <1>0, <1>1, <1>3
  <2> QED BY <1>1, <1>2, <1>5, <1>6, <2>1, <2>2 DEF DocType
<1>8. Newest'
  <2>1. CASE rows = {}
    BY <1>1, <2>1 DEF DocInv, Newest
  <2>2. CASE rows # {}
    <3>1. PICK row \in rows : TRUE
      BY <2>2
    <3>2. \A other \in log' : other.rev <= row.rev
      BY <1>0, <1>1, <1>3, <3>1
    <3> QED BY <1>1, <3>1, <3>2 DEF Newest
  <2> QED BY <2>1, <2>2
<1>9. layer # old => \E row \in log' : row.rev > rev
    BY <1>0, <1>1, <1>3
<1>10. LogTellsTheTruth'
  <2> SUFFICES ASSUME NEW b \in 0..rev', ~(\E row \in log' : row.rev > b)
               PROVE  docs'[b].layer = docs'[rev'].layer
    BY DEF LogTellsTheTruth, ChangedSince
  <2>1. CASE b = rev'
    BY <2>1
  <2>2. CASE b # rev'
    <3>1. b \in 0..rev /\ docs'[b] = docs[b]
      BY <1>0, <1>1, <1>2, <2>2
    <3>2. rows = {}
      BY <1>0, <1>1, <1>3, <3>1
    <3>3. docs[b].layer = old
      BY <1>1, <3>1 DEF DocInv, LogTellsTheTruth, ChangedSince
    <3> QED BY <1>2, <1>3, <3>1, <3>2, <3>3
  <2> QED BY <2>1, <2>2
<1>11. \A r \in 0..rev' : Valid(docs'[r].layer)
  <2> TAKE r \in 0..rev'
  <2>1. r \in 0..rev \/ r = rev'
    BY <1>0, <1>1
  <2> QED BY <1>2, <2>1 DEF DocInv
<1>12. ASSUME NEW r, ReqOK(r, docs, rev, log) PROVE ReqOK(r, docs', rev', log')
  <2>1. r.base \in Nat /\ r.cur \in Nat /\ r.cur <= rev /\ r.base <= rev /\ r.cur # rev'
    BY <1>0, <1>1, <1>12 DEF ReqOK, Sound, Req
  <2> QED BY <1>0, <1>1, <1>12, <2>1 DEF ReqOK, Sound
<1>14. Tracked'
  <2>1. log' = log \cup LogRows(old, layer, rev + 1, by)
    BY DEF Commit
  <2>2. gone' = [w \in Walls |->
                      IF layer[w] # None THEN None
                      ELSE IF old[w] = None THEN gone[w]
                      ELSE IF by # Pipeline THEN old[w].at ELSE None]
    BY DEF Commit
  <2> QED BY <1>2, <2>1, <2>2, CommitTracks
<1>13. DocInv'
    BY <1>2, <1>5, <1>7, <1>8, <1>10, <1>11, <1>14 DEF DocInv
<1> QED BY <1>1, <1>2, <1>9, <1>12, <1>13
(* A person's write gives the layer they sent, with the flags that tell the pipeline to keep it. *)
LEMMA NextLayerFacts ==
    ASSUME DocInv, NEW body \in Body, body.layer # None => Valid(body.layer)
    PROVE  LET layer == NextLayer(docs[rev], body)
           IN  /\ layer \in Layers /\ Valid(layer) /\ NextAxes(docs[rev], body) \in Axes
               /\ \A i \in touched : layer[i] # None => i \in OfPeople(layer)
               /\ \A i \in Live(layer) :
                    docs[rev].layer[i] = None \/ docs[rev].layer[i].at # layer[i].at => i \in OfPeople(layer)
<1> USE Constants
<1> DEFINE old == docs[rev].layer
           layer == NextLayer(docs[rev], body)
<1>1. /\ docs[rev] \in Doc /\ old \in Layers /\ Valid(old) /\ touched \subseteq OfPeople(old) /\ touched \subseteq Ids
    BY DEF DocInv, DocType, Doc
<1>2. NextAxes(docs[rev], body) \in Axes
    BY <1>1 DEF NextAxes, Body, Doc
<1>3. CASE body.layer = None
  <2>1. layer = old
    BY <1>3 DEF NextLayer
  <2> QED BY <1>1, <1>2, <2>1 DEF Live
<1>4. CASE body.layer # None
  <2> DEFINE sent == body.layer
  <2>1. layer = MarkEdited(old, sent) /\ sent \in Layers /\ Valid(sent)
    BY <1>4 DEF NextLayer, Body
  <2> HIDE DEF old, sent, layer
  <2>2. layer \in Layers /\ Valid(layer)
    BY <1>1, <2>1, MarkEditedValid
  <2>3. ASSUME NEW i \in Ids, layer[i] # None,
               old[i] = None \/ old[i].edited \/ old[i].src = "human" \/ old[i].at # layer[i].at
        PROVE  i \in OfPeople(layer)
    <3>1. /\ sent[i] # None /\ layer[i].at = sent[i].at /\ layer[i].src = sent[i].src
          /\ sent[i].src = "ai" => layer[i].edited
      BY <1>1, <2>1, <2>3, MarkEditedValid
    <3>2. sent[i].src \in {"human", "ai"}
      BY <2>1, <3>1, LayerItem DEF Item
    <3> QED BY <2>3, <3>1, <3>2 DEF OfPeople, Live
  <2>4. ASSUME NEW i \in touched PROVE old[i].edited \/ old[i].src = "human"
    BY <1>1 DEF OfPeople, Valid
  <2>5. \A i \in touched : layer[i] # None => i \in OfPeople(layer)
    BY <1>1, <2>3, <2>4
  <2>6. \A i \in Live(layer) : old[i] = None \/ old[i].at # layer[i].at => i \in OfPeople(layer)
    BY <2>3 DEF Live
  <2> QED BY <1>2, <2>2, <2>5, <2>6 DEF old, layer
<1> QED BY <1>3, <1>4

LEMMA WriteFacts ==
    ASSUME DocInv, NEW p \in People, NEW r, ReqOK(r, docs, rev, log), Write(p, r)
    PROVE  /\ DocInv' /\ rev' = rev + 1
           /\ last'.by = p /\ last'.base = r.base
           /\ \A q : ReqOK(q, docs, rev, log) => ReqOK(q, docs', rev', log')
           /\ docs'[rev'].layer # docs[rev].layer => \E row \in log' : row.rev > rev
<1> DEFINE layer == NextLayer(docs[rev], r.body)
           axes == NextAxes(docs[rev], r.body)
<1>1. r.base \in 0..rev /\ r.body \in Body /\ (r.body.layer # None => Valid(r.body.layer))
    BY DEF ReqOK, Sound, Req, DocInv, DocType
<1>2. Commit(p, r.base, r.body, layer, axes) /\ p # Pipeline
    BY Constants DEF Write
<1>3. /\ layer \in Layers /\ Valid(layer) /\ axes \in Axes
      /\ \A i \in touched : layer[i] # None => i \in OfPeople(layer)
      /\ \A i \in Live(layer) :
           docs[rev].layer[i] = None \/ docs[rev].layer[i].at # layer[i].at => i \in OfPeople(layer)
    BY <1>1, NextLayerFacts
<1>4. last' = [by |-> p, body |-> r.body, base |-> r.base]
    BY <1>2 DEF Commit
<1> HIDE DEF layer, axes
<1> QED BY <1>1, <1>2, <1>3, <1>4, CommitFacts

LEMMA BodiesValid ==
    ASSUME NEW d \in Doc, NEW body \in Bodies(d)
    PROVE  body \in Body /\ (body.layer # None => Valid(body.layer))
<1> USE Constants
<1> DEFINE l == d.layer
<1>0. l \in Layers
    BY DEF Doc
<1> HIDE DEF l
<1>1. ASSUME NEW e \in Edits(l) PROVE e \in Layers
  <2>0. \A f \in [Ids -> Item \cup {None}] : f \in Layers
    BY DEF Layers
  <2>00. l \in [Ids -> Item \cup {None}] /\ \A i \in Live(l) : i \in Ids /\ l[i] \in Item
    BY <1>0 DEF Layers, Live
  <2>1. CASE e \in Drawn(l)
    <3>1. PICK w \in Walls \ Live(l), p \in Places :
             e = [l EXCEPT ![w] = [src |-> "human", edited |-> FALSE, reviewed |-> FALSE, at |-> p]]
      BY <2>1 DEF Drawn
    <3>2. [src |-> "human", edited |-> FALSE, reviewed |-> FALSE, at |-> p] \in Item
      BY DEF Item
    <3> QED BY <2>0, <2>00, <3>1, <3>2
  <2>2. CASE e \in Moved(l)
    <3>1. PICK w \in Walls \cap Live(l), p \in Places : e = [l EXCEPT ![w].at = p]
      BY <2>2 DEF Moved
    <3>2. [l[w] EXCEPT !.at = p] \in Item
      BY <2>00 DEF Item
    <3> QED BY <2>0, <2>00, <3>1, <3>2
  <2>3. CASE e \in Approved(l)
    <3>1. PICK i \in Live(l) : e = [l EXCEPT ![i].src = "human", ![i].reviewed = TRUE]
      BY <2>3 DEF Approved
    <3>2. e = [l EXCEPT ![i] = [l[i] EXCEPT !.src = "human", !.reviewed = TRUE]]
      BY <2>00, <3>1
    <3>3. [l[i] EXCEPT !.src = "human", !.reviewed = TRUE] \in Item
      BY <2>00 DEF Item
    <3> QED BY <2>0, <2>00, <3>2, <3>3
  <2>4. CASE e \in FlagsLost(l)
    <3>1. PICK i \in Live(l) : e = [l EXCEPT ![i].src = "ai", ![i].edited = FALSE, ![i].reviewed = FALSE]
      BY <2>4 DEF FlagsLost
    <3>2. e = [l EXCEPT ![i] = [l[i] EXCEPT !.src = "ai", !.edited = FALSE, !.reviewed = FALSE]]
      BY <2>00, <3>1
    <3>3. [l[i] EXCEPT !.src = "ai", !.edited = FALSE, !.reviewed = FALSE] \in Item
      BY <2>00 DEF Item
    <3> QED BY <2>0, <2>00, <3>2, <3>3
  <2>5. CASE e \in Deleted(l)
    BY <2>0, <2>00, <2>5 DEF Deleted
  <2> QED BY <2>1, <2>2, <2>3, <2>4, <2>5 DEF Edits
<1>2. CASE body \in {[layer |-> e, axes |-> None] : e \in {f \in Edits(l) : Valid(f) /\ f # l}}
  <2>1. PICK e \in Edits(l) : body = [layer |-> e, axes |-> None] /\ Valid(e)
    BY <1>2
  <2> QED BY <1>1, <2>1 DEF Body
<1>3. CASE body \in {[layer |-> None, axes |-> a] : a \in Axes}
    BY <1>3 DEF Body
<1> QED BY <1>2, <1>3 DEF Bodies, l

-----------------------------------------------------------------------------
(* Versions *)

LEMMA RecordFacts ==
    ASSUME NEW vs \in Seq(Versions), NEW v \in Versions, v.kept, NEW m \in Nat, v.rev <= m,
           \A n \in 1..Len(vs) : vs[n].rev <= m,
           vs # <<>> => vs[Len(vs)].kept
    PROVE  LET new == Record(vs, v)
           IN  /\ new \in Seq(Versions) /\ new # <<>>
               /\ \A n \in 1..Len(new) : new[n].rev <= m
               /\ new[Len(new)].rev = v.rev /\ new[Len(new)].kept
               /\ Keep > 1 /\ vs # <<>> => \E n \in 1..Len(new) : new[n].rev = vs[Len(vs)].rev /\ new[n].kept
<1> USE Constants
<1> DEFINE k == Len(vs)
           f == [n \in 1..(k + 1) |->
                   IF n = k + 1 THEN v ELSE [vs[n] EXCEPT !.kept = vs[n].kept /\ n > k + 1 - Keep]]
<1>0. k \in Nat /\ \A n \in 1..k : vs[n] \in Versions
    BY LenProperties, ElementOfSeq
<1>1. CASE vs # <<>> /\ vs[k].rev = v.rev
  <2>1. Record(vs, v) = vs /\ k \in 1..k
    BY <1>0, <1>1, EmptySeq DEF Record
  <2> QED BY <1>1, <2>1
<1>2. CASE ~(vs # <<>> /\ vs[k].rev = v.rev)
  <2>1. Record(vs, v) = f
    BY <1>2 DEF Record
  <2>2. \A n \in 1..k : /\ f[n] = [vs[n] EXCEPT !.kept = vs[n].kept /\ n > k + 1 - Keep]
                        /\ f[n] \in Versions /\ f[n].rev = vs[n].rev
                        /\ f[n].kept = (vs[n].kept /\ n > k + 1 - Keep)
    <3> TAKE n \in 1..k
    <3>1. n \in 1..(k + 1) /\ n # k + 1 /\ vs[n] \in Versions
      BY <1>0
    <3>2. f[n] = [vs[n] EXCEPT !.kept = vs[n].kept /\ n > k + 1 - Keep]
      BY <3>1
    <3>3. (vs[n].kept /\ n > k + 1 - Keep) \in BOOLEAN
      OBVIOUS
    <3> QED BY <3>1, <3>2, <3>3 DEF Versions
  <2>3. k + 1 \in 1..(k + 1) /\ f[k + 1] = v
    BY <1>0
  <2>4. \A n \in 1..(k + 1) : n \in 1..k \/ n = k + 1
    BY <1>0
  <2>5. \A n \in 1..(k + 1) : f[n] \in Versions /\ f[n].rev <= m
    BY <2>2, <2>3, <2>4
  <2>6. f \in [1..(k + 1) -> Versions]
    BY <2>5
  <2>7. f \in Seq(Versions) /\ Len(f) = k + 1
    BY <1>0, <2>6
  <2> HIDE DEF f
  <2>8. f # <<>>
    BY <1>0, <2>7, EmptySeq
  <2>9. ASSUME Keep > 1, vs # <<>> PROVE \E n \in 1..(k + 1) : f[n].rev = vs[k].rev /\ f[n].kept
    <3>1. k \in 1..k /\ k > k + 1 - Keep
      BY <1>0, <2>9, EmptySeq
    <3>2. f[k].rev = vs[k].rev /\ f[k].kept = (vs[k].kept /\ k > k + 1 - Keep)
      BY <2>2, <3>1
    <3>3. k \in 1..(k + 1)
      BY <1>0, <3>1
    <3> QED BY <2>9, <3>1, <3>2, <3>3
  <2> QED BY <2>1, <2>3, <2>5, <2>7, <2>8, <2>9
<1> QED BY <1>1, <1>2
-----------------------------------------------------------------------------
(* Requests *)

LEMMA Shapes ==
    ASSUME NEW r, NEW d, NEW n \in Nat, NEW l, Sound(r, n, l)
    PROVE  /\ ReqOK(Idle, d, n, l)
           /\ ReqOK([r EXCEPT !.pc = "done", !.cur = 0, !.tries = 0], d, n, l)
           /\ ReqOK([r EXCEPT !.pc = "settle"], d, n, l)
           /\ r.times = 0 /\ (r.cur = n => d[r.base].layer = d[n].layer)
                => ReqOK([r EXCEPT !.pc = "update"], d, n, l)
<1>1. Nothing \in Body /\ Nothing.layer = None
    BY DEF Nothing, Body
<1>2. Idle \in Req /\ Idle.pc = "idle" /\ Idle.base = 0 /\ Idle.cur = 0 /\ Idle.times = 0 /\ Idle.body = Nothing
    BY <1>1 DEF Idle, Req, Pcs
<1>3. ReqOK(Idle, d, n, l)
    BY <1>1, <1>2 DEF ReqOK, Sound
<1>4. ReqOK([r EXCEPT !.pc = "done", !.cur = 0, !.tries = 0], d, n, l)
  <2> DEFINE q == [r EXCEPT !.pc = "done", !.cur = 0, !.tries = 0]
  <2>1. q \in Req /\ q.pc = "done" /\ q.base = r.base /\ q.cur = 0 /\ q.body = r.body /\ q.times = r.times
    BY DEF Sound, Req, Pcs
  <2> HIDE DEF q
  <2>2. ReqOK(q, d, n, l)
    BY <2>1 DEF ReqOK, Sound
  <2> QED BY <2>2 DEF q
<1>5. ReqOK([r EXCEPT !.pc = "settle"], d, n, l)
  <2> DEFINE q == [r EXCEPT !.pc = "settle"]
  <2>1. q \in Req /\ q.pc = "settle" /\ q.base = r.base /\ q.cur = r.cur /\ q.body = r.body /\ q.times = r.times
    BY DEF Sound, Req, Pcs
  <2> HIDE DEF q
  <2>2. ReqOK(q, d, n, l)
    BY <2>1 DEF ReqOK, Sound
  <2> QED BY <2>2 DEF q
<1>6. ASSUME r.times = 0, r.cur = n => d[r.base].layer = d[n].layer
      PROVE  ReqOK([r EXCEPT !.pc = "update"], d, n, l)
  <2> DEFINE q == [r EXCEPT !.pc = "update"]
  <2>1. q \in Req /\ q.pc = "update" /\ q.base = r.base /\ q.cur = r.cur /\ q.body = r.body /\ q.times = r.times
    BY DEF Sound, Req, Pcs
  <2> HIDE DEF q
  <2>2. ReqOK(q, d, n, l)
    BY <1>6, <2>1 DEF ReqOK, Sound
  <2> QED BY <2>2 DEF q
<1> QED BY <1>3, <1>4, <1>5, <1>6

(* One request changes; what the step did to the document, no other one minds. *)
LEMMA OneRequest ==
    ASSUME Requested, NEW p \in People, NEW q, req' = [req EXCEPT ![p] = q],
           ReqOK(q, docs', rev', log'),
           \A r : ReqOK(r, docs, rev, log) => ReqOK(r, docs', rev', log')
    PROVE  Requested'
<1>1. q \in Req /\ req \in [People -> Req]
    BY DEF Requested, ReqOK, Sound
<1>2. req' \in [People -> Req] /\ \A s \in People : req'[s] = IF s = p THEN q ELSE req[s]
    BY <1>1
<1>3. \A s \in People : ReqOK(req'[s], docs', rev', log')
    BY <1>2 DEF Requested
<1> QED BY <1>2, <1>3 DEF Requested

LEMMA DecideFacts ==
    ASSUME DocInv, Requested, NEW p \in People, NEW r, Sound(r, rev, log), r.times = 0,
           r.cur = rev => docs[r.base].layer = docs[rev].layer,
           Decide(p, r), UNCHANGED docVars
    PROVE  Requested'
<1>1. rev \in Nat
    BY DEF DocInv, DocType
<1>2. UNCHANGED <<docs, rev, log>>
    BY DEF docVars
<1>3. \/ req' = [req EXCEPT ![p] = Idle]
      \/ req' = [req EXCEPT ![p] = [r EXCEPT !.pc = "done", !.cur = 0, !.tries = 0]]
      \/ req' = [req EXCEPT ![p] = [r EXCEPT !.pc = "update"]]
    BY DEF Decide, Drop, Done, Becomes
<1> QED BY <1>1, <1>2, <1>3, Shapes, OneRequest

LEMMA LoadFacts ==
    ASSUME DocInv, Requested, NEW p \in People, NEW r, Sound(r, rev, log), Load(p, r)
    PROVE  Requested'
<1>1. rev \in Nat
    BY DEF DocInv, DocType
<1>2. UNCHANGED docVars /\ UNCHANGED <<docs, rev, log>>
    BY DEF Load, docVars
<1> DEFINE loaded == [r EXCEPT !.cur = rev]
<1>3. /\ loaded \in Req /\ loaded.cur = rev /\ loaded.base = r.base /\ loaded.body = r.body
      /\ loaded.times = r.times
    BY <1>1 DEF Sound, Req
<1>4. \/ Done(p, r)
      \/ r.base = rev /\ Decide(p, loaded)
      \/ Becomes(p, loaded, "settle")
    BY DEF Load
<1> HIDE DEF loaded
<1>5. Sound(loaded, rev, log)
    BY <1>1, <1>3 DEF Sound
<1>6. CASE Done(p, r)
  <2>1. req' = [req EXCEPT ![p] = [r EXCEPT !.pc = "done", !.cur = 0, !.tries = 0]]
    BY <1>6 DEF Done
  <2> QED BY <1>1, <1>2, <2>1, Shapes, OneRequest
<1>7. CASE r.base = rev /\ Decide(p, loaded)
  <2>1. loaded.times = 0
    BY <1>1, <1>3, <1>7 DEF Sound, Req
  <2> QED BY <1>2, <1>3, <1>5, <1>7, <2>1, DecideFacts
<1>8. CASE Becomes(p, loaded, "settle")
  <2>1. req' = [req EXCEPT ![p] = [loaded EXCEPT !.pc = "settle"]]
    BY <1>8 DEF Becomes
  <2> QED BY <1>1, <1>2, <1>5, <2>1, Shapes, OneRequest
<1> QED BY <1>4, <1>6, <1>7, <1>8

(* A write that is applied was never applied before, and leaves a row after its base. *)
LEMMA ApplyFacts ==
    ASSUME DocInv, Requested, NEW p \in People, NEW r, ReqOK(r, docs, rev, log), r.times = 0,
           Write(p, r), Done(p, Applied(r))
    PROVE  DocInv' /\ Requested' /\ rev' = rev + 1 /\ last'.by = p /\ last'.base = r.base
<1>1. /\ DocInv' /\ rev' = rev + 1 /\ last'.by = p /\ last'.base = r.base
      /\ \A q : ReqOK(q, docs, rev, log) => ReqOK(q, docs', rev', log')
      /\ docs'[rev'].layer # docs[rev].layer => \E row \in log' : row.rev > rev
    BY WriteFacts
<1>2. rev \in Nat /\ rev' \in Nat /\ \A row \in log' : row.rev \in Nat
    BY <1>1 DEF DocInv, DocType
<1> DEFINE t == IF docs'[rev'].layer # docs[rev].layer THEN 1 ELSE 0
           q == [r EXCEPT !.times = @ + t]
<1>3. t \in {0, 1} /\ (t = 1 => \E row \in log' : row.rev > rev)
    BY <1>1
<1>4. r \in Req /\ r.base \in Nat /\ r.base <= rev /\ Sound(r, rev', log')
    BY <1>1 DEF ReqOK, Sound, Req
<1> HIDE DEF t
<1>5. q \in Req /\ q.pc = r.pc /\ q.base = r.base /\ q.cur = r.cur /\ q.body = r.body /\ q.times = t
    BY <1>3, <1>4 DEF Req
<1>6. req' = [req EXCEPT ![p] = [q EXCEPT !.pc = "done", !.cur = 0, !.tries = 0]]
    BY DEF Done, Applied, t
<1> HIDE DEF q
<1>7. Sound(q, rev', log')
  <2>1. q.times = 1 => q.base < rev' /\ \E row \in log' : row.rev > q.base
    BY <1>1, <1>2, <1>3, <1>4, <1>5
  <2> QED BY <1>3, <1>4, <1>5, <2>1 DEF Sound
<1>8. ReqOK([q EXCEPT !.pc = "done", !.cur = 0, !.tries = 0], docs', rev', log')
    BY <1>2, <1>7, Shapes
<1>9. Requested'
    BY <1>1, <1>6, <1>8, OneRequest
<1> QED BY <1>1, <1>9

(* A restore that writes starts from the layer the person saw. *)
LEMMA RestoreFacts ==
    ASSUME IInv, NEW p \in People, NEW r \in RestoreRequests(p)
    PROVE  /\ ReqOK(r, docs, rev, log) /\ r.from \in Nat
           /\ ~Refused(p, r) /\ ~NoChange(p, r) => r.times = 0 /\ docs[r.base].layer = docs[rev].layer
<1> USE Constants
<1>0. /\ rev \in Nat /\ rev \in 0..MaxRev /\ docs \in [0..MaxRev -> Doc]
      /\ \A n \in 0..rev : Valid(docs[n].layer)
      /\ \A row \in log : row.rev \in Nat
    BY DEF IInv, DocInv, DocType
<1>1. ReqOK(r, docs, rev, log)
  <2>1. CASE r \in {Asked(base, v) : base \in 0..rev, v \in 1..Len(versions)}
    <3>1. PICK base \in 0..rev, v \in 1..Len(versions) : r = Asked(base, v)
      BY <2>1
    <3> DEFINE n == versions[v].rev
    <3>2. n \in 0..rev /\ v \in Nat
      <4>1. versions[v] \in Versions /\ versions[v].rev <= rev
        BY ElementOfSeq DEF IInv, VersionsOK
      <4> QED BY <1>0, <4>1 DEF Versions
    <3>3. docs[n] \in Doc /\ docs[n] \in Body /\ Valid(docs[n].layer)
      BY <1>0, <3>2 DEF Doc, Body
    <3>4. r = [pc |-> "idle", base |-> base, body |-> docs[n], from |-> v, cur |-> 0, tries |-> 0, times |-> 0]
      BY <3>1 DEF Asked, Idle
    <3> HIDE DEF n
    <3>5. r \in Req
      BY <1>0, <3>2, <3>3, <3>4 DEF Req, Pcs
    <3>6. r.pc = "idle" /\ r.base = base /\ r.cur = 0 /\ r.times = 0 /\ r.body = docs[n]
      BY <3>4
    <3> QED BY <1>0, <3>3, <3>5, <3>6 DEF ReqOK, Sound
  <2>2. CASE r = req[p]
    BY <2>2 DEF IInv, Requested
  <2> QED BY <2>1, <2>2 DEF RestoreRequests
<1>2. r.base \in 0..rev /\ r.from \in Nat /\ r.times \in {0, 1} /\ (r.times = 1 => r.base < rev /\ ChangedSince(r.base))
    BY <1>0, <1>1 DEF ReqOK, Sound, Req, ChangedSince
<1>3. ASSUME ~Refused(p, r), ~NoChange(p, r)
      PROVE  r.base = rev \/ ~ChangedSince(r.base)
    BY <1>0, <1>2, <1>3 DEF Refused, NoChange, Conflict
<1>4. ASSUME ~Refused(p, r), ~NoChange(p, r)
      PROVE  r.times = 0 /\ docs[r.base].layer = docs[rev].layer
    BY <1>0, <1>2, <1>3, <1>4 DEF IInv, DocInv, LogTellsTheTruth
<1> QED BY <1>1, <1>2, <1>4
(* The version recorded before a change, and the one after it. *)
LEMMA BeforeFacts ==
    ASSUME IInv, NEW by \in People \cup {Pipeline}
    PROVE  /\ Before(by) \in Seq(Versions) /\ Before(by) # <<>>
           /\ \A n \in 1..Len(Before(by)) : Before(by)[n].rev <= rev
           /\ Before(by)[Len(Before(by))].rev = rev /\ Before(by)[Len(Before(by))].kept
<1>1. rev \in Nat
    BY DEF IInv, DocInv, DocType
<1>2. Version(rev, by, 0, 0) \in Versions /\ Version(rev, by, 0, 0).kept /\ Version(rev, by, 0, 0).rev = rev
    BY <1>1 DEF Version, Versions
<1>3. versions \in Seq(Versions) /\ (\A n \in 1..Len(versions) : versions[n].rev <= rev)
      /\ (versions # <<>> => versions[Len(versions)].kept)
    BY DEF IInv, VersionsOK
<1> QED BY <1>1, <1>2, <1>3, RecordFacts DEF Before

LEMMA AfterFacts ==
    ASSUME IInv, NEW by \in People \cup {Pipeline}, NEW from \in Nat, NEW base \in Nat,
           rev' = rev + 1,
           versions' = Record(Before(by), Version(rev + 1, by, from, base))
    PROVE  /\ VersionsOK'
           /\ Keep > 1 => \E n \in 1..Len(versions') : versions'[n].rev = rev /\ versions'[n].kept
<1> DEFINE v == Version(rev + 1, by, from, base)
           vs == Before(by)
<1>1. rev \in Nat /\ rev + 1 \in Nat
    BY DEF IInv, DocInv, DocType
<1>2. v \in Versions /\ v.kept /\ v.rev = rev + 1 /\ v.rev <= rev + 1
    BY <1>1 DEF Version, Versions
<1>3. /\ vs \in Seq(Versions) /\ vs # <<>>
      /\ \A n \in 1..Len(vs) : vs[n].rev <= rev
      /\ vs[Len(vs)].rev = rev /\ vs[Len(vs)].kept
    BY BeforeFacts
<1>4. \A n \in 1..Len(vs) : vs[n].rev <= rev + 1
  <2> TAKE n \in 1..Len(vs)
  <2>1. vs[n] \in Versions
    BY <1>3, ElementOfSeq
  <2> QED BY <1>1, <1>3, <2>1 DEF Versions
<1> HIDE DEF v, vs
<1>5. /\ Record(vs, v) \in Seq(Versions) /\ Record(vs, v) # <<>>
      /\ \A n \in 1..Len(Record(vs, v)) : Record(vs, v)[n].rev <= rev + 1
      /\ Record(vs, v)[Len(Record(vs, v))].kept
      /\ Keep > 1 /\ vs # <<>> => \E n \in 1..Len(Record(vs, v)) :
                                     Record(vs, v)[n].rev = vs[Len(vs)].rev /\ Record(vs, v)[n].kept
    BY <1>1, <1>2, <1>3, <1>4, RecordFacts
<1>6. versions' = Record(vs, v)
    BY DEF vs, v
<1> QED BY <1>3, <1>5, <1>6 DEF VersionsOK

-----------------------------------------------------------------------------
(* The steps *)

LEMMA IInvInit == Init => IInv
<1> SUFFICES ASSUME Init PROVE IInv
    OBVIOUS
<1> USE Constants
<1>1. EmptyLayer \in Layers /\ Live(EmptyLayer) = {} /\ Valid(EmptyLayer)
    BY DEF EmptyLayer, Layers, Live, Valid
<1>2. (CHOOSE a \in Axes : TRUE) \in Axes
    OBVIOUS
<1>3. Nothing \in Body /\ Nothing.layer = None
    BY DEF Nothing, Body
<1> DEFINE first == [layer |-> EmptyLayer, axes |-> CHOOSE a \in Axes : TRUE]
<1>4. first \in Doc /\ first.layer = EmptyLayer
    BY <1>1, <1>2 DEF Doc
<1> HIDE DEF first
<1>5. rev = 0 /\ docs = [r \in 0..MaxRev |-> first] /\ log = {} /\ versions = <<>> /\ touched = {}
    BY DEF Init, first
<1>6. DocInv
  <2>1. docs \in [0..MaxRev -> Doc] /\ docs[0] = first /\ rev \in 0..MaxRev
    BY <1>4, <1>5
  <2>2. last \in [by : People \cup {Pipeline, None}, body : Body, base : 0..rev]
    BY <1>3, <1>5 DEF Init
  <2>3. gone \in [Walls -> Places \cup {None}]
    BY DEF Init
  <2>4. DocType
    BY <1>5, <2>1, <2>2, <2>3 DEF DocType
  <2>5. Newest
    BY <1>5 DEF Newest
  <2>6. \A r \in 0..rev : r = 0
    BY <1>5
  <2>7. LogTellsTheTruth
    BY <1>5, <2>6 DEF LogTellsTheTruth
  <2>8. \A r \in 0..rev : Valid(docs[r].layer)
    BY <1>1, <1>4, <2>1, <2>6
  <2>9. Tracked
    <3>1. \A w \in Walls : docs[rev].layer[w] = None /\ gone[w] = None
      BY <1>4, <1>5, <2>1 DEF Init, EmptyLayer, Ids
    <3> QED BY <3>1 DEF Tracked
  <2> QED BY <1>5, <2>4, <2>5, <2>7, <2>8, <2>9 DEF DocInv
<1>7. Requested
  <2>1. Idle \in Req /\ Idle.pc = "idle" /\ Idle.base = 0 /\ Idle.cur = 0 /\ Idle.times = 0 /\ Idle.body = Nothing
    BY <1>3 DEF Idle, Req, Pcs
  <2>2. ReqOK(Idle, docs, rev, log)
    BY <1>3, <1>5, <2>1 DEF ReqOK, Sound
  <2>3. req \in [People -> Req] /\ \A p \in People : req[p] = Idle
    BY <2>1 DEF Init
  <2> QED BY <2>2, <2>3 DEF Requested
<1>8. VersionsOK
    BY <1>5, EmptySeq DEF VersionsOK
<1> QED BY <1>6, <1>7, <1>8 DEF IInv

(* A step that leaves the document alone keeps what is known of it. *)
LEMMA DocStays == ASSUME DocInv, UNCHANGED docVars PROVE DocInv'
BY DEF docVars, DocInv, DocType, Newest, LogTellsTheTruth, ChangedSince, Tracked, LastPlaces, Removed, NewestOf

LEMMA VersionsStay ==
    ASSUME VersionsOK, UNCHANGED versions, rev' = rev \/ (rev \in Nat /\ rev' = rev + 1)
    PROVE  VersionsOK'
<1>1. CASE rev' = rev
    BY <1>1 DEF VersionsOK
<1>2. CASE rev \in Nat /\ rev' = rev + 1
  <2>1. ASSUME NEW n \in 1..Len(versions) PROVE versions[n].rev <= rev'
    <3>1. versions[n] \in Versions /\ versions[n].rev <= rev
      BY ElementOfSeq DEF VersionsOK
    <3> QED BY <1>2, <3>1 DEF Versions
  <2> QED BY <2>1 DEF VersionsOK
<1> QED BY <1>1, <1>2

(* A run brings back no wall that somebody removed, under its id or at its place. *)
LEMMA MergeSpares ==
    ASSUME DocInv, NEW ai \in AiResults, NEW w \in Walls,
           docs[rev].layer[w] = None, Merge(docs[rev].layer, ai)[w] # None
    PROVE  gone[w] = None /\ \A k \in Walls : gone[k] # Merge(docs[rev].layer, ai)[w].at
<1> USE Constants
<1> DEFINE l == docs[rev].layer
           keep == KeepIds(l)
           live == {r \in HumanRemovals : r.wall \notin Live(l)}
           Suppressed(v) == \E r \in live : r.wall = v \/ r.at = ai[v].at
           walls == {v \in Walls \cap Live(ai) : ~Taken(l, ai, v) /\ ~Suppressed(v)}
           openings == {o \in Openings \cap Live(ai) : o \notin keep /\ Host[o] \in walls}
           new == Merge(l, ai)
<1>0. l \in Layers /\ Tracked /\ gone \in [Walls -> Places \cup {None}] /\ w \in Ids /\ w \notin Openings
    BY DEF DocInv, DocType, Doc, Ids
<1>1. new = [i \in Ids |-> IF i \in keep THEN l[i] ELSE IF i \in walls \cup openings THEN ai[i] ELSE None]
    BY DEF Merge
<1>2. ~Suppressed(w) /\ new[w] = ai[w] /\ ai \in Layers /\ ai[w] # None
  <2>1. openings \subseteq Openings /\ (w \in walls => ~Suppressed(w) /\ w \in Live(ai))
    OBVIOUS
  <2>2. keep \subseteq Live(l)
    BY <1>0, KeepFacts
  <2> HIDE DEF keep, walls, openings
  <2>3. w \notin keep
    BY <2>2 DEF Live
  <2>4. w \in walls /\ new[w] = ai[w]
    BY <1>0, <1>1, <2>1, <2>3
  <2> QED BY <2>1, <2>4 DEF Live
<1>3. ASSUME NEW k \in Walls, gone[k] # None PROVE [wall |-> k, at |-> gone[k]] \in live
  <2>1. l[k] = None /\ gone[k] \in LastPlaces(k) /\ Removed(k) /\ gone[k] \in Places
    BY <1>0, <1>3 DEF Tracked
  <2> QED BY <2>1 DEF HumanRemovals, Live
<1>4. gone[w] = None
    BY <1>2, <1>3
<1>5. ai[w].at \in Places /\ ai[w].at # None
    BY <1>0, <1>2, LayerItem
<1> HIDE DEF live, new
<1>6. ASSUME NEW k \in Walls PROVE gone[k] # ai[w].at
    BY <1>2, <1>3, <1>5
<1> QED BY <1>2, <1>4, <1>6 DEF new

(* What a step that makes a revision promises. *)
Promises ==
    /\ \A p \in People : last'.by = p => docs[last'.base].layer = docs[rev].layer
    /\ last'.by = Pipeline => \A i \in touched : docs'[rev'].layer[i] = docs[rev].layer[i]
    /\ Keep > 1 /\ versions' # versions =>
         \E n \in 1..Len(versions') : versions'[n].rev = rev /\ versions'[n].kept
    /\ last'.by = Pipeline =>
         \A w \in Walls : docs[rev].layer[w] = None /\ docs'[rev'].layer[w] # None =>
            /\ gone[w] = None
            /\ \A k \in Walls : gone[k] # docs'[rev'].layer[w].at

LEMMA UpdateStep ==
    ASSUME IInv, NEW p \in People, Update(p)
    PROVE  IInv' /\ Promises
<1> USE Constants
<1>1. /\ req[p].pc = "update" /\ req[p].cur = rev /\ Write(p, req[p]) /\ Done(p, Applied(req[p]))
      /\ UNCHANGED versions
    BY DEF Update
<1>2. /\ ReqOK(req[p], docs, rev, log) /\ req[p].times = 0 /\ docs[req[p].base].layer = docs[rev].layer
    BY <1>1 DEF IInv, Requested, ReqOK
<1>3. DocInv' /\ Requested' /\ rev' = rev + 1 /\ last'.by = p /\ last'.base = req[p].base
    BY <1>1, <1>2, ApplyFacts DEF IInv
<1>4. VersionsOK'
    BY <1>1, <1>3, VersionsStay DEF IInv, DocInv, DocType
<1> QED BY <1>1, <1>2, <1>3, <1>4 DEF IInv, Promises

LEMMA RestoreStep ==
    ASSUME IInv, NEW p \in People, NEW r \in RestoreRequests(p), Restore(p, r)
    PROVE  IInv' /\ Promises
<1> USE Constants
<1>1. /\ ~Refused(p, r) /\ ~NoChange(p, r) /\ Write(p, r) /\ Done(p, Applied(r))
      /\ versions' = Record(Before(p), Version(rev + 1, p, r.from, r.base))
    BY DEF Restore
<1>2. ReqOK(r, docs, rev, log) /\ r.from \in Nat /\ r.times = 0 /\ docs[r.base].layer = docs[rev].layer
    BY <1>1, RestoreFacts
<1>3. DocInv' /\ Requested' /\ rev' = rev + 1 /\ last'.by = p /\ last'.base = r.base
    BY <1>1, <1>2, ApplyFacts DEF IInv
<1>4. r.base \in Nat
    BY <1>2 DEF ReqOK, Sound, Req
<1>5. VersionsOK' /\ (Keep > 1 => \E n \in 1..Len(versions') : versions'[n].rev = rev /\ versions'[n].kept)
    BY <1>1, <1>2, <1>3, <1>4, AfterFacts
<1> QED BY <1>2, <1>3, <1>5 DEF IInv, Promises

LEMMA PersistStep ==
    ASSUME IInv, Persist
    PROVE  IInv' /\ (UNCHANGED docVars \/ Promises)
<1> USE Constants
<1>1. PICK ai \in AiResults :
             LET new == Merge(docs[rev].layer, ai)
             IN  /\ Valid(new)
                 /\ \/ /\ new = docs[rev].layer
                       /\ versions' = Before(Pipeline)
                       /\ UNCHANGED docVars
                    \/ /\ new # docs[rev].layer
                       /\ Commit(Pipeline, rev, Nothing, new, docs[rev].axes)
                       /\ versions' = Record(Before(Pipeline), Version(rev + 1, Pipeline, 0, 0))
    BY DEF Persist
<1>2. UNCHANGED req
    BY DEF Persist
<1> DEFINE old == docs[rev].layer
           new == Merge(old, ai)
<1>3. /\ rev \in Nat /\ rev \in 0..rev /\ docs[rev] \in Doc /\ old \in Layers /\ docs[rev].axes \in Axes
      /\ touched \subseteq OfPeople(old)
    BY DEF IInv, DocInv, DocType, Doc
<1>4. new \in Layers /\ \A i \in OfPeople(old) : new[i] = old[i]
    BY <1>3, MergeFacts
<1>5. CASE versions' = Before(Pipeline) /\ UNCHANGED docVars
  <2>1. DocInv'
    BY <1>5, DocStays DEF IInv
  <2>2. Requested' /\ rev' = rev
    BY <1>2, <1>5 DEF IInv, Requested, docVars
  <2>3. VersionsOK'
    BY <1>5, <2>2, BeforeFacts DEF VersionsOK
  <2> QED BY <1>5, <2>1, <2>2, <2>3 DEF IInv
<1>6. CASE /\ Valid(new)
           /\ Commit(Pipeline, rev, Nothing, new, docs[rev].axes)
           /\ versions' = Record(Before(Pipeline), Version(rev + 1, Pipeline, 0, 0))
  <2>1. Nothing \in Body /\ Pipeline \in People \cup {Pipeline}
    BY DEF Nothing, Body
  <2>2. \A i \in touched : new[i] # None => i \in OfPeople(new)
    BY <1>3, <1>4 DEF OfPeople, Live
  <2> HIDE DEF new
  <2>3. /\ DocInv' /\ rev' = rev + 1 /\ docs'[rev'].layer = new
        /\ \A r : ReqOK(r, docs, rev, log) => ReqOK(r, docs', rev', log')
    BY <1>3, <1>4, <1>6, <2>1, <2>2, CommitFacts DEF IInv
  <2>4. Requested'
    BY <1>2, <2>3 DEF IInv, Requested
  <2>5. VersionsOK' /\ (Keep > 1 => \E n \in 1..Len(versions') : versions'[n].rev = rev /\ versions'[n].kept)
    BY <1>6, <2>3, AfterFacts
  <2>6. last'.by = Pipeline
    BY <1>6 DEF Commit
  <2>7. \A i \in touched : docs'[rev'].layer[i] = docs[rev].layer[i]
    BY <1>3, <1>4, <2>3
  <2>8. \A w \in Walls : docs[rev].layer[w] = None /\ docs'[rev'].layer[w] # None =>
            /\ gone[w] = None
            /\ \A k \in Walls : gone[k] # docs'[rev'].layer[w].at
    BY <2>3, MergeSpares DEF IInv, new
  <2> QED BY <2>3, <2>4, <2>5, <2>6, <2>7, <2>8 DEF IInv, Promises
<1> QED BY <1>1, <1>5, <1>6

(* Compaction keeps the newest row, so no base looks fresh that did not before. *)
LEMMA CompactStep ==
    ASSUME IInv, Compact
    PROVE  IInv'
<1>1. PICK cutoff \in 1..rev : log' = {row \in log : row.rev > cutoff \/ ~Hidden(row)}
    BY DEF Compact
<1>2. UNCHANGED <<rev, docs, last, touched, gone, versions, req>>
    BY DEF Compact
<1>3. /\ rev \in Nat /\ \A row \in log : row.rev \in Nat /\ row.rev \in 1..rev
    BY DEF IInv, DocInv, DocType
<1>4. \A row \in log : (\A other \in log : other.rev <= row.rev) => row \in log'
    BY <1>1, <1>3 DEF Hidden
<1>5. log' \subseteq log
    BY <1>1
<1>6. \A base \in Nat : (\E row \in log : row.rev > base) => \E row \in log' : row.rev > base
  <2> SUFFICES ASSUME NEW base \in Nat, NEW row \in log, row.rev > base PROVE \E x \in log' : x.rev > base
    OBVIOUS
  <2>1. PICK top \in log : \A other \in log : other.rev <= top.rev
    BY DEF IInv, DocInv, Newest
  <2> QED BY <1>3, <1>4, <2>1
<1>7. DocInv'
  <2>1. DocType'
    BY <1>2, <1>5 DEF IInv, DocInv, DocType
  <2>2. Newest'
    BY <1>4, <1>5 DEF IInv, DocInv, Newest
  <2>3. LogTellsTheTruth'
    BY <1>2, <1>3, <1>6 DEF IInv, DocInv, LogTellsTheTruth, ChangedSince
  <2>4. ASSUME NEW w \in Walls PROVE LastPlaces(w) \subseteq LastPlaces(w)'
    <3> SUFFICES ASSUME NEW row \in log, row.id = w, row.field = "line",
                        \A y \in log : y.id = w /\ y.field = "line" => y.rev <= row.rev
                 PROVE  row.at \in LastPlaces(w)'
      BY DEF LastPlaces
    <3>1. row \in log'
      BY <1>1, <1>3 DEF Hidden
    <3> QED BY <1>5, <3>1 DEF LastPlaces
  <2>5. ASSUME NEW w \in Walls, Removed(w) PROVE Removed(w)'
    <3>1. PICK row \in NewestOf(w) : row.field = "__deleted__" /\ row.by # Pipeline
      BY <2>5 DEF Removed
    <3>2. row \in log'
      BY <1>1, <1>3 DEF Hidden, NewestOf
    <3> QED BY <1>5, <3>1, <3>2 DEF Removed, NewestOf
  <2>6. Tracked'
    BY <1>2, <2>4, <2>5 DEF IInv, DocInv, Tracked
  <2> QED BY <1>2, <2>1, <2>2, <2>3, <2>6 DEF IInv, DocInv
<1>8. Requested'
  <2>1. \A r : ReqOK(r, docs, rev, log) => ReqOK(r, docs', rev', log')
    BY <1>2, <1>6 DEF ReqOK, Sound, Req
  <2> QED BY <1>2, <2>1 DEF IInv, Requested
<1>9. VersionsOK'
    BY <1>2 DEF IInv, VersionsOK
<1> QED BY <1>7, <1>8, <1>9 DEF IInv

LEMMA IdleWith ==
    ASSUME NEW b \in Nat, NEW y \in Body
    PROVE  LET r == [Idle EXCEPT !.base = b, !.body = y]
           IN  r \in Req /\ r.base = b /\ r.body = y /\ r.cur = 0 /\ r.times = 0
<1>1. Idle \in Req /\ Idle.cur = 0 /\ Idle.times = 0
    BY DEF Idle, Req, Pcs, Nothing, Body
<1> QED BY <1>1 DEF Req

(* The steps of a request before it writes. *)
LEMMA RequestStep ==
    ASSUME IInv, NEW p \in People,
           Send(p) \/ Settle(p) \/ LoseRace(p) \/ GiveUp(p) \/ Answer(p) \/ SendAgain(p)
    PROVE  IInv' /\ UNCHANGED docVars
<1> USE Constants
<1>1. UNCHANGED docVars /\ UNCHANGED <<docs, rev, log>> /\ UNCHANGED versions
    BY DEF Send, Settle, LoseRace, GiveUp, Answer, SendAgain, Load, docVars
<1>2. DocInv /\ Requested /\ rev \in Nat /\ ReqOK(req[p], docs, rev, log) /\ docs \in [0..MaxRev -> Doc] /\ rev \in 0..MaxRev
    BY DEF IInv, DocInv, DocType, Requested
<1>8. ASSUME Drop(p) PROVE Requested'
  <2>1. Sound(req[p], rev, log)
    BY <1>2 DEF ReqOK
  <2>2. req' = [req EXCEPT ![p] = Idle]
    BY <1>8 DEF Drop
  <2> QED BY <1>1, <1>2, <2>1, <2>2, Shapes, OneRequest
<1>3. CASE Send(p)
  <2>0. PICK base \in 0..rev : \E body \in Bodies(docs[base]) : Load(p, [Idle EXCEPT !.base = base, !.body = body])
    BY <1>3 DEF Send
  <2>1. PICK body \in Bodies(docs[base]) : Load(p, [Idle EXCEPT !.base = base, !.body = body])
    BY <2>0
  <2>2. docs[base] \in Doc
    BY <1>2
  <2>3. body \in Body /\ (body.layer # None => Valid(body.layer))
    BY <2>2, BodiesValid
  <2>4. base \in Nat /\ base <= rev
    BY <1>2
  <2> DEFINE r == [Idle EXCEPT !.base = base, !.body = body]
  <2>5. r \in Req /\ r.base = base /\ r.body = body /\ r.cur = 0 /\ r.times = 0
    BY <2>3, <2>4, IdleWith
  <2> HIDE DEF r
  <2>6. Sound(r, rev, log)
    BY <1>2, <2>3, <2>4, <2>5 DEF Sound
  <2> QED BY <1>2, <2>1, <2>6, LoadFacts, <1>1, DocStays, VersionsStay DEF IInv, r
<1>4. CASE Settle(p)
  <2>1. CASE Drop(p)
    <3>1. Requested'
      BY <1>1, <1>2, <1>8, <2>1
    <3> QED BY <1>1, <1>2, <3>1, DocStays, VersionsStay DEF IInv
  <2>2. CASE ~ChangedSince(req[p].base) /\ Decide(p, req[p])
    <3>1. Sound(req[p], rev, log) /\ req[p].times = 0
      BY <1>2, <2>2 DEF ReqOK, Sound, ChangedSince, Req
    <3>2. docs[req[p].base].layer = docs[rev].layer
      BY <1>2, <2>2, <3>1 DEF DocInv, LogTellsTheTruth, Sound, Req
    <3>3. Requested'
      BY <1>1, <1>2, <2>2, <3>1, <3>2, DecideFacts
    <3> QED BY <1>1, <1>2, <3>3, DocStays, VersionsStay DEF IInv
  <2> QED BY <1>4, <2>1, <2>2 DEF Settle
<1>5. CASE LoseRace(p)
  <2> DEFINE r == [req[p] EXCEPT !.tries = @ + 1]
  <2>0. req[p] \in Req
    BY <1>2 DEF ReqOK, Sound
  <2>1. r \in Req /\ r.base = req[p].base /\ r.body = req[p].body /\ r.cur = req[p].cur /\ r.times = req[p].times
    BY <2>0 DEF Req
  <2>2. Load(p, r)
    BY <1>5 DEF LoseRace
  <2> HIDE DEF r
  <2>3. Sound(r, rev, log)
    BY <1>2, <2>1 DEF ReqOK, Sound
  <2>4. Requested'
    BY <1>2, <2>2, <2>3, LoadFacts
  <2> QED BY <1>1, <1>2, <2>4, DocStays, VersionsStay DEF IInv
<1>6. CASE GiveUp(p) \/ Answer(p)
  <2>1. Drop(p)
    BY <1>6 DEF GiveUp, Answer
  <2>2. Requested'
    BY <1>8, <2>1
  <2> QED BY <1>1, <1>2, <2>2, DocStays, VersionsStay DEF IInv
<1>7. CASE SendAgain(p)
  <2>1. Sound(req[p], rev, log) /\ Load(p, req[p])
    BY <1>2, <1>7 DEF SendAgain, ReqOK
  <2>2. Requested'
    BY <1>2, <2>1, LoadFacts
  <2> QED BY <1>1, <1>2, <2>2, DocStays, VersionsStay DEF IInv
<1> QED BY <1>1, <1>3, <1>4, <1>5, <1>6, <1>7

LEMMA RestoreOtherStep ==
    ASSUME IInv, NEW p \in People, NEW r \in RestoreRequests(p),
           RestoreAgain(p, r) \/ RestoreRefused(p, r) \/ RestoreNothing(p, r)
    PROVE  IInv' /\ UNCHANGED docVars
<1>1. UNCHANGED docVars /\ UNCHANGED <<docs, rev, log>>
    BY DEF RestoreAgain, RestoreRefused, RestoreNothing, docVars
<1>2. DocInv /\ Requested /\ rev \in Nat /\ Sound(r, rev, log)
    BY RestoreFacts DEF IInv, DocInv, DocType, ReqOK
<1>3. \/ req' = [req EXCEPT ![p] = Idle]
      \/ req' = [req EXCEPT ![p] = [r EXCEPT !.pc = "done", !.cur = 0, !.tries = 0]]
    BY DEF RestoreAgain, RestoreRefused, RestoreNothing, Drop, Done
<1>4. Requested'
    BY <1>1, <1>2, <1>3, Shapes, OneRequest
<1>5. versions' = versions \/ versions' = Before(p)
    BY DEF RestoreAgain, RestoreRefused, RestoreNothing
<1>6. VersionsOK'
    BY <1>1, <1>5, BeforeFacts, VersionsStay DEF VersionsOK, IInv
<1>7. DocInv'
    BY <1>1, <1>2, DocStays
<1> QED BY <1>1, <1>4, <1>6, <1>7 DEF IInv

LEMMA Steps ==
    ASSUME IInv, [Next]_vars
    PROVE  IInv' /\ (rev' # rev => Promises)
<1>1. CASE \E p \in People : Send(p) \/ Settle(p) \/ LoseRace(p) \/ GiveUp(p) \/ Answer(p) \/ SendAgain(p)
    BY <1>1, RequestStep DEF docVars
<1>2. CASE \E p \in People : Update(p)
    BY <1>2, UpdateStep
<1>3. CASE \E p \in People : RestoreVersion(p)
  <2>0. PICK p \in People : RestoreVersion(p)
    BY <1>3
  <2>1. PICK r \in RestoreRequests(p) :
           RestoreAgain(p, r) \/ RestoreRefused(p, r) \/ RestoreNothing(p, r) \/ Restore(p, r)
    BY <2>0 DEF RestoreVersion
  <2> QED BY <2>1, RestoreStep, RestoreOtherStep DEF docVars
<1>4. CASE Persist
    BY <1>4, PersistStep DEF docVars
<1>5. CASE Compact
  <2>1. rev' = rev
    BY <1>5 DEF Compact
  <2> QED BY <1>5, <2>1, CompactStep
<1>6. CASE UNCHANGED vars
  <2>1. DocInv' /\ rev' = rev
    BY <1>6, DocStays DEF vars, docVars, IInv
  <2>2. Requested' /\ VersionsOK'
    BY <1>6 DEF vars, docVars, IInv, Requested, VersionsOK
  <2> QED BY <2>1, <2>2 DEF IInv
<1> QED BY <1>1, <1>2, <1>3, <1>4, <1>5, <1>6 DEF Next

-----------------------------------------------------------------------------
THEOREM Invariance == Spec => []IInv
<1>1. IInv /\ [Next]_vars => IInv'
    BY Steps
<1> QED BY <1>1, IInvInit, PTL DEF Spec

(* The document, the log, the versions and the requests keep their types, and nobody works on a *)
(* revision to come (floor_documents, floor_change_log, versions).                               *)
THEOREM TypeCorrect == Spec => []TypeOK
<1>1. IInv => TypeOK
  <2> SUFFICES ASSUME IInv PROVE TypeOK
    OBVIOUS
  <2>1. DocType
    BY DEF IInv, DocInv
  <2>2. \A n \in 1..Len(versions) : versions[n].rev \in 0..rev
    <3> TAKE n \in 1..Len(versions)
    <3>1. versions[n] \in Versions /\ versions[n].rev <= rev
      BY ElementOfSeq DEF IInv, VersionsOK
    <3> QED BY <2>1, <3>1, Constants DEF DocType, Versions
  <2>3. ASSUME NEW p \in People
        PROVE  /\ req[p].pc \in {"idle", "settle", "update", "done"}
               /\ req[p].base \in 0..rev /\ req[p].cur \in 0..rev /\ req[p].body \in Body
    <3>1. req[p] \in Req /\ req[p].base <= rev /\ req[p].cur <= rev
      BY DEF IInv, Requested, ReqOK, Sound
    <3> QED BY <2>1, <3>1, Constants DEF DocType, Req, Pcs
  <2> QED BY <2>1, <2>2, <2>3 DEF TypeOK, DocType
<1> QED BY <1>1, Invariance, PTL

(* A base after which the log has no row carries the current layer, whatever was compacted: the   *)
(* rebase of a stale write never skips over somebody's change (changes.py, remote_changes_since). *)
THEOREM LogIsTrue == Spec => []LogTellsTheTruth
<1>1. IInv => LogTellsTheTruth
    BY DEF IInv, DocInv
<1> QED BY <1>1, Invariance, PTL

(* A person's write or restore replaces exactly the layer that person saw (write_layer,            *)
(* restore_version).                                                                               *)
THEOREM NoEditLost == Spec => NoLostEdit
<1>1. IInv /\ [Next]_vars => [\A p \in People : rev' # rev /\ last'.by = p =>
                                docs[last'.base].layer = docs[rev].layer]_vars
    BY Steps DEF Promises
<1> QED BY <1>1, Invariance, PTL DEF Spec, NoLostEdit

(* A request sent again after its answer was lost does not change the layer again (_replayed).    *)
THEOREM Applied1 == Spec => []AppliedOnce
<1>1. IInv => AppliedOnce
    BY DEF IInv, Requested, ReqOK, Sound, AppliedOnce
<1> QED BY <1>1, Invariance, PTL

(* Whatever the detector builds, the merge keeps every item somebody drew, moved or approved as it *)
(* is (K21; merge_pipeline_result, mark_edited).                                                   *)
THEOREM HumanWorkKept == Spec => PipelineKeepsHumanWork
<1>1. IInv /\ [Next]_vars => [rev' # rev /\ last'.by = Pipeline =>
                                \A i \in touched : docs'[rev'].layer[i] = docs[rev].layer[i]]_vars
    BY Steps DEF Promises
<1> QED BY <1>1, Invariance, PTL DEF Spec, PipelineKeepsHumanWork

(* A run does not bring back a wall somebody removed, under its id or at its place, whatever was   *)
(* compacted since (H2; human_removals, _live_removed).                                           *)
THEOREM RemovalsKept == Spec => RemovedStaysRemoved
<1>1. IInv /\ [Next]_vars => [rev' # rev /\ last'.by = Pipeline =>
                                \A w \in Walls : docs[rev].layer[w] = None /\ docs'[rev'].layer[w] # None =>
                                   /\ gone[w] = None
                                   /\ \A k \in Walls : gone[k] # docs'[rev'].layer[w].at]_vars
    BY Steps DEF Promises
<1> QED BY <1>1, Invariance, PTL DEF Spec, RemovedStaysRemoved

(* The layer a run merges is always valid, so a run cannot fail on what people did meanwhile       *)
(* (_screen, _keep_ids).                                                                           *)
THEOREM MergesAreValid == Spec => []MergeIsValid
<1>1. IInv => MergeIsValid
  <2> SUFFICES ASSUME IInv, NEW ai \in AiResults PROVE Valid(Merge(docs[rev].layer, ai))
    BY DEF MergeIsValid
  <2>1. docs[rev].layer \in Layers /\ Valid(docs[rev].layer)
    BY Constants DEF IInv, DocInv, DocType, Doc
  <2> QED BY <2>1, MergeFacts
<1> QED BY <1>1, Invariance, PTL

(* As long as two snapshots are kept, a restore or a run leaves the version it replaced with its    *)
(* snapshot; with one, the new version's snapshot takes its place (record_version).                 *)
THEOREM CanUndo ==
    ASSUME Keep > 1
    PROVE  Spec => Undoable
<1>1. IInv /\ [Next]_vars => [rev' # rev /\ versions' # versions =>
                                \E n \in 1..Len(versions') : versions'[n].rev = rev /\ versions'[n].kept]_vars
    BY Steps DEF Promises
<1> QED BY <1>1, Invariance, PTL DEF Spec, Undoable

-----------------------------------------------------------------------------
(* What people removed, and merging once more *)

(* Of the rows of an id the newest stay, the rows of one write put a wall at one place, and when the *)
(* newest rows of a wall say that a person removed it, then that is what happened last.             *)
RowsOf(i) == {row \in log : row.id = i}
LinesOf(i) == {row \in log : row.id = i /\ row.field = "line"}
HasNewest(rows) == rows # {} => \E row \in rows : \A other \in rows : other.rev <= row.rev
Exact == \A w \in Walls :
    /\ HasNewest(RowsOf(w)) /\ HasNewest(LinesOf(w))
    /\ \A x, y \in LinesOf(w) : x.rev = y.rev => x.at = y.at
    /\ Removed(w) => gone[w] # None

(* Every step is a person's commit, a run's, a compaction, or leaves the document and its log alone. *)
LEMMA Commits ==
    ASSUME [Next]_vars
    PROVE  \/ UNCHANGED docVars
           \/ Compact
           \/ \E p \in People : \E base, body, layer, axes : Commit(p, base, body, layer, axes)
           \/ \E ai \in AiResults : Commit(Pipeline, rev, Nothing, Merge(docs[rev].layer, ai), docs[rev].axes)
<1>1. ASSUME NEW p \in People, Update(p) \/ RestoreVersion(p)
      PROVE  UNCHANGED docVars \/ \E base, body, layer, axes : Commit(p, base, body, layer, axes)
    BY <1>1 DEF Update, RestoreVersion, RestoreAgain, RestoreRefused, RestoreNothing, Restore, Write
<1>2. ASSUME Persist
      PROVE  \/ UNCHANGED docVars
             \/ \E ai \in AiResults : Commit(Pipeline, rev, Nothing, Merge(docs[rev].layer, ai), docs[rev].axes)
    BY <1>2 DEF Persist
<1>3. ASSUME NEW p \in People, Send(p) \/ Settle(p) \/ LoseRace(p) \/ GiveUp(p) \/ Answer(p) \/ SendAgain(p)
      PROVE  UNCHANGED docVars
    BY <1>3 DEF Send, Settle, LoseRace, GiveUp, Answer, SendAgain, Load
<1>4. ASSUME UNCHANGED vars PROVE UNCHANGED docVars
    BY <1>4 DEF vars
<1> QED BY <1>1, <1>2, <1>3, <1>4 DEF Next

(* The rows a write adds for a wall. *)
LEMMA NewRows ==
    ASSUME NEW old \in Layers, NEW new \in Layers, NEW r, NEW by, NEW w \in Walls,
           NEW row \in LogRows(old, new, r, by), row.id = w
    PROVE  /\ row.field = "line" => row.at = new[w].at
           /\ row.field = "__deleted__" => row.by = by /\ old[w] # None /\ new[w] = None
<1>1. CASE row \in Diff(old, new, r, by)
    BY <1>1 DEF Diff, Row, Live
<1>2. CASE row \in TouchMarks(old, new, r, by)
    BY <1>2 DEF TouchMarks, Row
<1> QED BY <1>1, <1>2 DEF LogRows

LEMMA NewestGrows ==
    ASSUME NEW rows, NEW more, NEW r \in Nat, HasNewest(rows),
           \A row \in rows : row.rev \in Nat /\ row.rev <= r,
           \A row \in more : row.rev = r + 1
    PROVE  HasNewest(rows \cup more)
<1>1. CASE more = {}
    BY <1>1 DEF HasNewest
<1>2. CASE more # {}
  <2>1. PICK row \in more : TRUE
    BY <1>2
  <2>2. \A other \in rows \cup more : other.rev <= row.rev
    BY <2>1
  <2> QED BY <2>1, <2>2 DEF HasNewest
<1> QED BY <1>1, <1>2

LEMMA CommitExact ==
    ASSUME IInv, IInv', Exact, NEW by \in People \cup {Pipeline}, NEW base, NEW body, NEW layer, NEW axes,
           Commit(by, base, body, layer, axes)
    PROVE  Exact'
<1> DEFINE old == docs[rev].layer
           rows == LogRows(old, layer, rev + 1, by)
<1>0. /\ rev \in Nat /\ old \in Layers /\ Tracked
      /\ \A row \in log : row.rev \in Nat /\ row.rev <= rev
    BY Constants DEF IInv, DocInv, DocType, Doc
<1>1. /\ log' = log \cup rows
      /\ gone' = [w \in Walls |-> IF layer[w] # None THEN None
                                  ELSE IF old[w] = None THEN gone[w]
                                  ELSE IF by # Pipeline THEN old[w].at ELSE None]
    BY DEF Commit
<1>2. layer \in Layers
  <2>1. rev < MaxRev /\ rev' = rev + 1 /\ docs' = [docs EXCEPT ![rev + 1] = [layer |-> layer, axes |-> axes]]
    BY DEF Commit
  <2>2. rev + 1 \in 0..MaxRev /\ docs \in [0..MaxRev -> Doc]
    BY <1>0, <2>1, Constants DEF IInv, DocInv, DocType
  <2>3. docs'[rev + 1].layer = layer /\ docs'[rev + 1] \in Doc
    BY <2>1, <2>2 DEF IInv, DocInv, DocType
  <2> QED BY <2>3 DEF Doc
<1>3. \A row \in rows : row.rev = rev + 1
    BY <1>0, <1>2, LogRowsTell
<1>4. \A w \in Walls : Told(rows, old, layer, rev + 1, by, w)
    BY <1>0, <1>2, WallRows
<1>5. \A w \in Walls, row \in rows : row.id = w =>
         /\ row.field = "line" => row.at = layer[w].at
         /\ row.field = "__deleted__" => row.by = by /\ old[w] # None /\ layer[w] = None
    BY <1>0, <1>2, NewRows
<1> SUFFICES ASSUME NEW w \in Walls
             PROVE  /\ HasNewest(RowsOf(w)') /\ HasNewest(LinesOf(w)')
                    /\ \A x, y \in LinesOf(w)' : x.rev = y.rev => x.at = y.at
                    /\ Removed(w)' => gone'[w] # None
    BY DEF Exact, HasNewest
<1> HIDE DEF rows
<1>6. /\ RowsOf(w)' = RowsOf(w) \cup {row \in rows : row.id = w}
      /\ LinesOf(w)' = LinesOf(w) \cup {row \in rows : row.id = w /\ row.field = "line"}
    BY <1>1 DEF RowsOf, LinesOf
<1>7. HasNewest(RowsOf(w)') /\ HasNewest(LinesOf(w)')
  <2>1. /\ \A row \in RowsOf(w) : row.rev \in Nat /\ row.rev <= rev
        /\ \A row \in LinesOf(w) : row.rev \in Nat /\ row.rev <= rev
    BY <1>0 DEF RowsOf, LinesOf
  <2>2. HasNewest(RowsOf(w)) /\ HasNewest(LinesOf(w))
    BY DEF Exact
  <2>3. HasNewest(RowsOf(w) \cup {row \in rows : row.id = w})
    BY <1>0, <1>3, <2>1, <2>2, NewestGrows
  <2>4. HasNewest(LinesOf(w) \cup {row \in rows : row.id = w /\ row.field = "line"})
    BY <1>0, <1>3, <2>1, <2>2, NewestGrows
  <2> QED BY <1>6, <2>3, <2>4
<1>8. \A x, y \in LinesOf(w)' : x.rev = y.rev => x.at = y.at
  <2> TAKE x, y \in LinesOf(w)'
  <2> HAVE x.rev = y.rev
  <2>1. CASE x.rev = rev + 1
    <3>1. \A row \in LinesOf(w) : row.rev # rev + 1
      BY <1>0 DEF LinesOf
    <3>2. x \notin LinesOf(w) /\ y \notin LinesOf(w)
      BY <2>1, <3>1
    <3>3. x \in rows /\ y \in rows /\ x.id = w /\ y.id = w /\ x.field = "line" /\ y.field = "line"
      BY <1>6, <3>2
    <3> QED BY <1>5, <3>3
  <2>2. CASE x.rev # rev + 1
    <3>1. x \in LinesOf(w) /\ y \in LinesOf(w)
      BY <1>3, <1>6, <2>2
    <3> QED BY <3>1 DEF Exact
  <2> QED BY <2>1, <2>2
<1>9. ASSUME Removed(w)' PROVE gone'[w] # None
  <2>1. PICK top \in log' : /\ top.id = w /\ top.field = "__deleted__" /\ top.by # Pipeline
                            /\ \A other \in log' : other.id = w => other.rev <= top.rev
    BY <1>9 DEF Removed, NewestOf
  <2>2. CASE top \in rows
    <3>1. top.by = by /\ old[w] # None /\ layer[w] = None
      BY <1>5, <2>1, <2>2
    <3>2. old[w].at # None
      BY <1>0, <3>1, LayerItem DEF Ids
    <3> QED BY <1>1, <2>1, <3>1, <3>2
  <2>3. CASE top \in log /\ top \notin rows
    <3>1. \A row \in rows : row.id # w
      BY <1>0, <1>1, <1>3, <2>1, <2>3
    <3>2. Removed(w)
      BY <1>1, <2>1, <2>3 DEF Removed, NewestOf
    <3>3. gone[w] # None /\ old[w] = None
      BY <1>0, <3>2 DEF Exact, Tracked
    <3>4. layer[w] = None
      BY <1>4, <3>1, <3>3 DEF Told, Row
    <3> QED BY <1>1, <3>3, <3>4
  <2> QED BY <1>1, <2>1, <2>2, <2>3
<1> QED BY <1>7, <1>8, <1>9

(* Compaction takes no row of an id that has no newer one of the same field. *)
LEMMA CompactExact ==
    ASSUME IInv, Exact, Compact
    PROVE  Exact'
<1>1. PICK cutoff \in 1..rev : log' = {row \in log : row.rev > cutoff \/ ~Hidden(row)}
    BY DEF Compact
<1>2. UNCHANGED gone
    BY DEF Compact
<1>3. rev \in Nat /\ \A row \in log : row.rev \in Nat
    BY DEF IInv, DocInv, DocType
<1> SUFFICES ASSUME NEW w \in Walls
             PROVE  /\ HasNewest(RowsOf(w)') /\ HasNewest(LinesOf(w)')
                    /\ \A x, y \in LinesOf(w)' : x.rev = y.rev => x.at = y.at
                    /\ Removed(w)' => gone'[w] # None
    BY DEF Exact, HasNewest
<1>4. RowsOf(w)' \subseteq RowsOf(w) /\ LinesOf(w)' \subseteq LinesOf(w)
    BY <1>1 DEF RowsOf, LinesOf
<1>5. \A row \in RowsOf(w) : (\A other \in RowsOf(w) : other.rev <= row.rev) => row \in RowsOf(w)'
    BY <1>1, <1>3 DEF RowsOf, Hidden
<1>6. \A row \in LinesOf(w) : (\A other \in LinesOf(w) : other.rev <= row.rev) => row \in LinesOf(w)'
    BY <1>1, <1>3 DEF LinesOf, Hidden
<1>7. HasNewest(RowsOf(w)') /\ HasNewest(LinesOf(w)')
    BY <1>4, <1>5, <1>6 DEF Exact, HasNewest
<1>8. ASSUME Removed(w)' PROVE Removed(w)
  <2>1. PICK row \in RowsOf(w)' : /\ row.field = "__deleted__" /\ row.by # Pipeline
                                  /\ \A other \in RowsOf(w)' : other.rev <= row.rev
    BY <1>8 DEF Removed, NewestOf, RowsOf
  <2>2. PICK top \in RowsOf(w) : \A other \in RowsOf(w) : other.rev <= top.rev
    BY <1>4, <2>1 DEF Exact, HasNewest
  <2>3. top.rev <= row.rev
    BY <1>5, <2>1, <2>2
  <2>4. \A other \in RowsOf(w) : other.rev <= row.rev
    BY <1>3, <1>4, <2>1, <2>2, <2>3 DEF RowsOf
  <2> QED BY <1>4, <2>1, <2>4 DEF Removed, NewestOf, RowsOf
<1> QED BY <1>2, <1>4, <1>7, <1>8 DEF Exact

LEMMA ExactStep == IInv /\ Exact /\ [Next]_vars => Exact'
<1> SUFFICES ASSUME IInv, Exact, [Next]_vars PROVE Exact'
    OBVIOUS
<1>1. IInv'
    BY Steps
<1>2. CASE UNCHANGED docVars
    BY <1>2 DEF docVars, Exact, RowsOf, LinesOf, HasNewest, Removed, NewestOf
<1> QED BY <1>1, <1>2, Commits, CommitExact, CompactExact

LEMMA ExactRemovals ==
    ASSUME IInv, Exact
    PROVE  RemovalsAreExact
<1>0. Tracked /\ gone \in [Walls -> Places \cup {None}]
    BY DEF IInv, DocInv, DocType
<1>1. ASSUME NEW w \in Walls, NEW a \in LastPlaces(w), NEW b \in LastPlaces(w) PROVE a = b
  <2>1. PICK x \in LinesOf(w) : x.at = a /\ \A y \in LinesOf(w) : y.rev <= x.rev
    BY DEF LastPlaces, LinesOf
  <2>2. PICK z \in LinesOf(w) : z.at = b /\ \A y \in LinesOf(w) : y.rev <= z.rev
    BY DEF LastPlaces, LinesOf
  <2>3. x.rev \in Nat /\ z.rev \in Nat
    BY DEF IInv, DocInv, DocType, LinesOf
  <2>4. x.rev = z.rev
    BY <2>1, <2>2, <2>3
  <2> QED BY <2>1, <2>2, <2>4 DEF Exact
<1>2. ASSUME NEW r \in [wall : Walls, at : Places]
      PROVE  Removed(r.wall) /\ r.at \in LastPlaces(r.wall) <=> gone[r.wall] = r.at
  <2>1. r.wall \in Walls /\ r.at # None
    BY Constants
  <2>2. ASSUME Removed(r.wall), r.at \in LastPlaces(r.wall) PROVE gone[r.wall] = r.at
    <3>1. gone[r.wall] # None
      BY <2>1, <2>2 DEF Exact
    <3>2. gone[r.wall] \in LastPlaces(r.wall)
      BY <1>0, <2>1, <3>1 DEF Tracked
    <3> QED BY <1>1, <2>1, <2>2, <3>2
  <2>3. ASSUME gone[r.wall] = r.at PROVE Removed(r.wall) /\ r.at \in LastPlaces(r.wall)
    BY <1>0, <2>1, <2>3 DEF Tracked
  <2> QED BY <2>2, <2>3
<1> QED BY <1>2 DEF RemovalsAreExact, HumanRemovals

THEOREM ExactInvariance == Spec => []Exact
<1>1. Init => Exact
    BY DEF Init, Exact, RowsOf, LinesOf, HasNewest, Removed, NewestOf
<1> QED BY <1>1, ExactStep, Invariance, PTL DEF Spec

(* What the merge learns from the log is exactly which walls people removed and where these were,  *)
(* however the log was compacted and whatever runs removed meanwhile (human_removals).              *)
THEOREM RemovalsKnown == Spec => []RemovalsAreExact
<1> QED BY ExactRemovals, Invariance, ExactInvariance, PTL

(* The merge as a function of what it is told was removed. *)
MergeWith(l, ai, removals) ==
    LET keep == KeepIds(l)
        live == {r \in removals : r.wall \notin Live(l)}
        Suppressed(w) == \E r \in live : r.wall = w \/ r.at = ai[w].at
        walls == {w \in Walls \cap Live(ai) : ~Taken(l, ai, w) /\ ~Suppressed(w)}
        openings == {o \in Openings \cap Live(ai) : o \notin keep /\ Host[o] \in walls}
    IN  [i \in Ids |-> IF i \in keep THEN l[i]
                       ELSE IF i \in walls \cup openings THEN ai[i] ELSE None]

(* Merging the same again keeps the same items of people, so it comes to the same. *)
LEMMA MergeTwice ==
    ASSUME NEW l \in Layers, Valid(l), NEW ai \in AiResults, NEW removals,
           \A r \in removals : r.wall \in Walls /\ l[r.wall] = None
    PROVE  LET new == MergeWith(l, ai, removals) IN MergeWith(new, ai, removals) = new
<1> DEFINE keep == KeepIds(l)
           Suppressed(w) == \E r \in removals : r.wall = w \/ r.at = ai[w].at
           walls == {w \in Walls \cap Live(ai) : ~Taken(l, ai, w) /\ ~Suppressed(w)}
           openings == {o \in Openings \cap Live(ai) : o \notin keep /\ Host[o] \in walls}
           new == MergeWith(l, ai, removals)
<1>0. {r \in removals : r.wall \notin Live(l)} = removals
    BY DEF Live
<1>1. new = [i \in Ids |-> IF i \in keep THEN l[i] ELSE IF i \in walls \cup openings THEN ai[i] ELSE None]
    BY <1>0 DEF MergeWith
<1>2. /\ keep \subseteq Live(l) /\ OfPeople(l) \subseteq keep
      /\ \A o \in Openings \cap keep : Host[o] \in keep
    BY KeepFacts
<1>3. /\ ai \in Layers /\ walls \subseteq Live(ai) \cap Walls /\ openings \subseteq Live(ai) \cap Openings
      /\ (\A o \in openings : Host[o] \in walls)
      /\ keep \cap walls = {} /\ keep \cap openings = {} /\ Walls \cap Openings = {}
      /\ \A w \in walls : ~Suppressed(w)
    BY Constants DEF Taken
<1>4. \A i \in Ids : ai[i] # None => ai[i].src = "ai" /\ ~ai[i].reviewed /\ ~ai[i].edited
    BY Constants
<1>5. \A i \in keep : \A j \in References(i) \cap Live(l) : j \in keep
    BY DEF KeepIds
<1> HIDE DEF walls, openings, new
<1>7. \A i \in Ids : new[i] = IF i \in keep THEN l[i] ELSE IF i \in walls \cup openings THEN ai[i] ELSE None
    BY <1>1
<1>8. /\ Live(new) = keep \cup walls \cup openings
      /\ \A i \in keep : i \in Ids /\ new[i] = l[i]
      /\ \A i \in walls \cup openings : i \in Ids /\ new[i] = ai[i] /\ ai[i] # None
    BY <1>2, <1>3, <1>7 DEF Live
<1>9. OfPeople(new) = OfPeople(l)
  <2>1. \A i \in walls \cup openings : i \notin OfPeople(new)
    BY <1>4, <1>8 DEF OfPeople
  <2>2. \A i \in keep : i \in OfPeople(new) <=> i \in OfPeople(l)
    BY <1>2, <1>8 DEF OfPeople
  <2> QED BY <1>2, <1>8, <2>1, <2>2 DEF OfPeople
<1>10. KeepIds(new) = keep
  <2>1. \A i \in keep : References(i) \cap Live(new) \subseteq keep
    <3> SUFFICES ASSUME NEW i \in keep, NEW j \in References(i) \cap Live(new) PROVE j \in keep
      OBVIOUS
    <3>1. CASE i \in Walls
      <4>1. j \in Openings /\ Host[j] = i
        BY <3>1 DEF References
      <4> QED BY <1>3, <1>8, <4>1
    <3>2. CASE i \notin Walls
      <4>1. i \in Openings /\ j = Host[i]
        BY <1>8, <3>2 DEF References, Ids
      <4> QED BY <1>2, <4>1
    <3> QED BY <3>1, <3>2
  <2>2. KeepIds(new) \subseteq keep
    <3>1. keep \in SUBSET Live(new) /\ OfPeople(new) \subseteq keep
      BY <1>2, <1>8, <1>9
    <3> HIDE DEF keep
    <3> QED BY <2>1, <3>1 DEF KeepIds
  <2>3. ASSUME NEW S \in SUBSET Live(new), OfPeople(new) \subseteq S,
               \A i \in S : References(i) \cap Live(new) \subseteq S
        PROVE  keep \subseteq S
    <3> DEFINE T == S \cap keep
    <3>1. T \in SUBSET Live(l) /\ OfPeople(l) \subseteq T
      BY <1>2, <1>9, <2>3
    <3>2. \A i \in T : References(i) \cap Live(l) \subseteq T
      BY <1>5, <1>8, <2>3
    <3> HIDE DEF T
    <3>3. keep \subseteq T
      BY <3>1, <3>2 DEF KeepIds
    <3> QED BY <3>3 DEF T
  <2> QED BY <1>8, <2>2, <2>3 DEF KeepIds
<1>11. \A w \in Walls : Taken(new, ai, w) <=> Taken(l, ai, w)
    BY <1>8, <1>10 DEF Taken
<1>12. {r \in removals : r.wall \notin Live(new)} = removals
  <2> SUFFICES ASSUME NEW r \in removals PROVE r.wall \notin Live(new)
    OBVIOUS
  <2>1. r.wall \notin keep
    BY <1>2 DEF Live
  <2>2. r.wall \notin walls
    BY <1>3
  <2>3. r.wall \notin openings
    BY <1>3
  <2> QED BY <1>8, <2>1, <2>2, <2>3
<1>13. walls = {w \in Walls \cap Live(ai) : ~Taken(new, ai, w) /\ ~Suppressed(w)}
    BY <1>11 DEF walls
<1>14. openings = {o \in Openings \cap Live(ai) : o \notin KeepIds(new) /\ Host[o] \in walls}
    BY <1>10 DEF openings
<1>15. MergeWith(new, ai, removals) =
         [i \in Ids |-> IF i \in keep THEN new[i] ELSE IF i \in walls \cup openings THEN ai[i] ELSE None]
    BY <1>10, <1>12, <1>13, <1>14 DEF MergeWith
<1>16. \A i \in Ids : new[i] = IF i \in keep THEN new[i] ELSE IF i \in walls \cup openings THEN ai[i] ELSE None
    BY <1>7
<1>17. MergeWith(new, ai, removals) = new
  <2>1. MergeWith(new, ai, removals) = [i \in Ids |-> new[i]]
    BY <1>15, <1>16
  <2>2. new = [i \in Ids |-> new[i]]
    BY <1>1
  <2> QED BY <2>1, <2>2
<1> QED BY <1>17 DEF new

(* A run of the pipeline does not change what people removed. *)
LEMMA RunKeepsRemovals ==
    ASSUME IInv, NEW ai \in AiResults,
           Commit(Pipeline, rev, Nothing, Merge(docs[rev].layer, ai), docs[rev].axes)
    PROVE  gone' = gone
<1> DEFINE old == docs[rev].layer
           new == Merge(old, ai)
<1>1. gone' = [w \in Walls |-> IF new[w] # None THEN None
                               ELSE IF old[w] = None THEN gone[w] ELSE None]
    BY DEF Commit
<1>2. DocInv /\ Tracked /\ gone \in [Walls -> Places \cup {None}]
    BY DEF IInv, DocInv, DocType
<1>3. \A w \in Walls : gone[w] # None => old[w] = None
    BY <1>2 DEF Tracked
<1>4. \A w \in Walls : old[w] = None /\ new[w] # None => gone[w] = None
    BY <1>2, MergeSpares
<1> HIDE DEF old, new
<1>5. \A w \in Walls : gone'[w] = gone[w]
    BY <1>1, <1>3, <1>4
<1> QED BY <1>1, <1>2, <1>5

(* A run that built once more what was just merged leaves the layer alone: neither what the first  *)
(* merge wrote nor its rows in the log count as people's (merge_pipeline_result, human_removals).   *)
THEOREM RerunIsHarmless == Spec => RerunChangesNothing
<1>1. ASSUME IInv, RemovalsAreExact, RemovalsAreExact', [Next]_vars, rev' # rev, last'.by = Pipeline
      PROVE  \E ai \in AiResults : /\ docs'[rev'].layer = Merge(docs[rev].layer, ai)
                                   /\ (Merge(docs[rev].layer, ai) = docs[rev].layer)'
  <2>1. \A p \in People : \A base, body, layer, axes : ~Commit(p, base, body, layer, axes)
    BY <1>1, Constants DEF Commit
  <2>2. ~UNCHANGED docVars /\ ~Compact
    BY <1>1 DEF docVars, Compact
  <2>3. PICK ai \in AiResults :
           Commit(Pipeline, rev, Nothing, Merge(docs[rev].layer, ai), docs[rev].axes)
    BY <1>1, <2>1, <2>2, Commits
  <2> DEFINE old == docs[rev].layer
             removals == {r \in [wall : Walls, at : Places] : gone[r.wall] = r.at}
  <2>4. /\ rev \in Nat /\ rev + 1 \in 0..MaxRev /\ docs \in [0..MaxRev -> Doc]
        /\ rev' = rev + 1 /\ docs' = [docs EXCEPT ![rev + 1] = [layer |-> Merge(old, ai), axes |-> docs[rev].axes]]
    BY <1>1, <2>3, Constants DEF IInv, DocInv, DocType, Commit
  <2>5. docs'[rev'].layer = Merge(old, ai)
    BY <2>4
  <2>6. HumanRemovals = removals /\ HumanRemovals' = removals
    <3>1. gone' = gone
      BY <1>1, <2>3, RunKeepsRemovals
    <3> QED BY <1>1, <3>1 DEF RemovalsAreExact
  <2>7. old \in Layers /\ Valid(old) /\ \A r \in removals : r.wall \in Walls /\ old[r.wall] = None
    BY <1>1, Constants DEF IInv, DocInv, DocType, Doc, Tracked
  <2>8. Merge(old, ai) = MergeWith(old, ai, removals)
    BY <2>6 DEF Merge, MergeWith
  <2>9. (Merge(docs[rev].layer, ai))' = MergeWith(docs'[rev'].layer, ai, removals)
    BY <2>6 DEF Merge, MergeWith
  <2> HIDE DEF old, removals
  <2>10. MergeWith(MergeWith(old, ai, removals), ai, removals) = MergeWith(old, ai, removals)
    BY <2>7, MergeTwice
  <2> QED BY <2>5, <2>8, <2>9, <2>10 DEF old
<1>2. IInv /\ RemovalsAreExact /\ RemovalsAreExact' /\ [Next]_vars =>
        [rev' # rev /\ last'.by = Pipeline =>
           \E ai \in AiResults : /\ docs'[rev'].layer = Merge(docs[rev].layer, ai)
                                 /\ (Merge(docs[rev].layer, ai) = docs[rev].layer)']_vars
    BY <1>1
<1> QED BY <1>2, Invariance, RemovalsKnown, PTL DEF Spec, RerunChangesNothing
===============================================================================
