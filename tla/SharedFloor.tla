------------------------------ MODULE SharedFloor ------------------------------
(***************************************************************************)
(* What everybody who works on the document of a floor may count on, with  *)
(* no requests, change log, versions or locks.  The layer is replaced as a *)
(* whole, one write after the other.  A person replaces the very layer     *)
(* that person saw, and approves only with the right to; a run of the      *)
(* pipeline works around what people made and removed, and approves        *)
(* nothing.  SpatialWrite implements this.                                 *)
(***************************************************************************)
EXTENDS Naturals

CONSTANTS
    Ids, Walls,   \* items, and those of them that are walls
    ValidLayers,  \* layers that may be written
    EmptyLayer,
    People, Approvers, Pipeline,
    None,         \* no item, or nobody
    MaxRev        \* bound: writes of the document

VARIABLES
    rev,
    layers,   \* history: the layer at each revision, the current one at rev
    wrote,    \* history: who made the current revision, having seen which
    touched,  \* history: items somebody drew, moved or approved
    gone      \* history: where each wall was that somebody removed last

vars == <<rev, layers, wrote, touched, gone>>

Init ==
    /\ rev = 0
    /\ layers = [r \in 0..MaxRev |-> EmptyLayer]
    /\ wrote = [by |-> None, base |-> 0]
    /\ touched = {}
    /\ gone = [w \in Walls |-> None]

Approved(l) == {i \in Ids : l[i] # None /\ l[i].reviewed}

\* One write of the document; what it makes of the layer is left to the two below.
Replace(by, base) ==
    /\ rev < MaxRev
    /\ rev' = rev + 1
    /\ layers' = [layers EXCEPT ![rev + 1] = layers'[rev + 1]]
    /\ layers'[rev + 1] \in ValidLayers
    /\ wrote' = [by |-> by, base |-> base]

Edit(p, base) ==
    LET old == layers[rev]
        new == layers'[rev + 1]
    IN  /\ layers[base] = old
        /\ Replace(p, base)
        /\ p \in Approvers \/ Approved(new) \subseteq Approved(old)
        /\ touched' = {i \in Ids : /\ new[i] # None
                                   /\ \/ i \in touched
                                      \/ old[i] = None \/ old[i].at # new[i].at
                                      \/ new[i].reviewed}
        /\ gone' = [w \in Walls |-> IF new[w] # None THEN None
                                    ELSE IF old[w] # None THEN old[w].at ELSE gone[w]]

Run ==
    LET old == layers[rev]
        new == layers'[rev + 1]
    IN  /\ Replace(Pipeline, rev)
        /\ Approved(new) \subseteq Approved(old)
        /\ \A i \in touched : new[i] = old[i]
        /\ \A w \in Walls : old[w] = None /\ new[w] # None =>
              gone[w] = None /\ \A k \in Walls : gone[k] # new[w].at
        /\ gone' = [w \in Walls |-> IF old[w] # None \/ new[w] # None THEN None ELSE gone[w]]
        /\ UNCHANGED touched

Next ==
    \/ \E p \in People, base \in 0..rev : Edit(p, base)
    \/ Run

Spec == Init /\ [][Next]_vars
===============================================================================
