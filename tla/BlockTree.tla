----------------------------- MODULE BlockTree -----------------------------
(***************************************************************************)
(* The tree of blocks a Substrate node holds, as shared/src/subspace.rs    *)
(* sees it: a block is known by its hash, its header names its parent and  *)
(* its number.  Every module of the project that speaks of forks, of the   *)
(* canonical chain or of a route between two blocks uses these operators.  *)
(*                                                                         *)
(* The ancestors of a block are written as the least set closed under      *)
(* Parent instead of by recursion, so that every fact about them follows   *)
(* by choosing a closed set, and can be proved.                            *)
(***************************************************************************)
EXTENDS Naturals

CONSTANTS
    Block,      \* block hashes
    Genesis,    \* the block with number zero
    Parent,     \* the parent hash in a block's header
    Number      \* the number in a block's header

ASSUME TreeAssumption ==
    /\ Genesis \in Block
    /\ Parent \in [Block -> Block]
    /\ Parent[Genesis] = Genesis
    /\ Number \in [Block -> Nat]
    /\ Number[Genesis] = 0
    /\ \A b \in Block \ {Genesis} : Number[b] = Number[Parent[b]] + 1

ParentClosed(S) == \A x \in S : Parent[x] \in S

\* Chain[b] is the branch that ends in b: b and all of its ancestors.
Chain ==
    [b \in Block |->
        {c \in Block :
            \A S \in SUBSET Block : b \in S /\ ParentClosed(S) => c \in S}]

\* What `sp_blockchain::tree_route` returns for a pair of blocks.
Enacted(from, to) == Chain[to] \ Chain[from]
Retracted(from, to) == Chain[from] \ Chain[to]

\* The block two branches meet in, as a set of one.
Meeting(from, to) ==
    LET shared == Chain[from] \cap Chain[to] IN
    {b \in shared : \A c \in shared : Number[c] <= Number[b]}

\* The headers the walk of `tree_route` looks up: both branches down to, and
\* with, the block they meet in.
RouteHeaders(from, to) ==
    Enacted(from, to) \union Retracted(from, to) \union Meeting(from, to)

\* The blocks at height n of the branch that ends in b: one, or none when the
\* branch is shorter.
AtHeight(b, n) == {c \in Chain[b] : Number[c] = n}

\* Mutant: only the new best block is broadcast.
BlocksExtBestOnly(from, to) ==
    [blocks |-> {to},
     best |-> to,
     reorgEnacted |-> Enacted(from, to) \ {to},
     retracted |-> Retracted(from, to),
     common |-> Meeting(from, to)]

\* Mutant: the blocks are collected after the best one was popped off.
BlocksExtAfterPop(from, to) ==
    [blocks |-> Enacted(from, to) \ {to},
     best |-> to,
     reorgEnacted |-> Enacted(from, to) \ {to},
     retracted |-> Retracted(from, to),
     common |-> Meeting(from, to)]

\* The message for a route, `BlocksExt`; the best block is popped off `enacted`
\* before that moves into `ReorgData`.
BlocksExt(from, to) ==
    [blocks |-> Enacted(from, to),
     best |-> to,
     reorgEnacted |-> Enacted(from, to) \ {to},
     retracted |-> Retracted(from, to),
     common |-> Meeting(from, to)]
============================================================================
