--------------------------- MODULE MCBlockTracker ---------------------------
(***************************************************************************)
(* Small trees for BlockTracker: a chain g - a1 - a2 and a fork of it      *)
(* that starts at g, so that reorgs in both directions, to a longer or to  *)
(* a shorter branch, happen at every step of the tracker.                  *)
(***************************************************************************)
EXTENDS BlockTracker, TLC

CONSTANTS g, a1, a2, b1, b2

MCParent ==
    g :> g @@ a1 :> g @@ a2 :> a1 @@ b1 :> g @@ b2 :> b1

MCNumber ==
    g :> 0 @@ a1 :> 1 @@ a2 :> 2 @@ b1 :> 1 @@ b2 :> 2

ParentOf == [b \in Block |-> MCParent[b]]
NumberOf == [b \in Block |-> MCNumber[b]]
=============================================================================
