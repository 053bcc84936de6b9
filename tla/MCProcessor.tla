---------------------------- MODULE MCProcessor ----------------------------
(***************************************************************************)
(* Small trees for Processor: two branches from g, which the node may      *)
(* switch between at any step of a batch.                                  *)
(***************************************************************************)
EXTENDS Processor, TLC

CONSTANTS g, a1, a2, a3, b1, b2

AllParents ==
    g :> g @@ a1 :> g @@ a2 :> a1 @@ a3 :> a2 @@ b1 :> g @@ b2 :> b1

AllNumbers == g :> 0 @@ a1 :> 1 @@ a2 :> 2 @@ a3 :> 3 @@ b1 :> 1 @@ b2 :> 2

ParentOf == [b \in Block |-> AllParents[b]]
NumberOf == [b \in Block |-> AllNumbers[b]]
============================================================================
