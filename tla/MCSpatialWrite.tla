---------------------------- MODULE MCSpatialWrite ----------------------------
(* Two walls, an opening in the first, and what the detector may find. *)
EXTENDS SpatialWrite, TLC

CONSTANTS w1, w2, o1, p1, p2, ann, bob

MCHost == o1 :> w1
Layer(items) == [i \in Ids |->
    IF i \in DOMAIN items
    THEN [src |-> "ai", edited |-> FALSE, reviewed |-> FALSE, at |-> items[i]] ELSE None]
MCAiResults == {Layer(w1 :> p1 @@ o1 :> p1), Layer(w2 :> p1)}
===============================================================================
