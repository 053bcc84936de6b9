----------------------------- MODULE ChainFeed -----------------------------
(***************************************************************************)
(* What the block tracker of shared/src/subspace.rs promises to the tasks  *)
(* that read its broadcast channel (the stall and reorg monitor, the event *)
(* watcher, the indexer's processors).  While it listens, its tip moves    *)
(* with a message only, and that message leads a reader from the branch of *)
(* the old tip to the branch of the new one.  In silence the tip moves     *)
(* when it begins to listen, first or again, and when the process starts.  *)
(***************************************************************************)
EXTENDS BlockTree

CONSTANTS NoBlock, NoMessage

VARIABLES
    live,   \* the tracker listens to the node
    tip,    \* the block consumers were last told is the best one
    msg     \* the last message broadcast

feedVars == <<live, tip, msg>>

\* The message undoes blocks of the old branch and adds new ones, and what is
\* left is the new branch.
Replays(from, m, to) ==
    /\ m.retracted \subseteq Chain[from] \ Chain[to]
    /\ m.blocks \cap Chain[from] = {}
    /\ (Chain[from] \ m.retracted) \union m.blocks = Chain[to]

\* The common block is on both branches, and below it the message goes to no
\* block: the parent of each block it names is named as well, or is that one.
Meets(from, m, to) ==
    /\ m.common \subseteq Chain[from] \cap Chain[to]
    /\ \A c, d \in m.common : c = d
    /\ \A b \in m.blocks : Parent[b] \in m.blocks \union m.common
    /\ \A b \in m.retracted : Parent[b] \in m.retracted \union m.common

Leads(from, m, to) ==
    /\ m.best = to /\ to \in m.blocks
    /\ m.reorgEnacted = m.blocks \ {to}
    /\ Replays(from, m, to)
    /\ Meets(from, m, to)

FeedInit == ~live /\ tip = NoBlock /\ msg = NoMessage

Publish(b) ==
    /\ live /\ live'
    /\ tip \in Block \ {b}
    /\ tip' = b
    /\ Leads(tip, msg', b)

Connect(b) == ~live /\ live' /\ tip' = b /\ UNCHANGED msg

Disconnect == live /\ ~live' /\ UNCHANGED <<tip, msg>>

Forget == ~live /\ ~live' /\ tip' = NoBlock /\ UNCHANGED msg

FeedNext ==
    \/ \E b \in Block : Publish(b)
    \/ \E b \in Block : Connect(b)
    \/ Disconnect
    \/ Forget

FeedSpec == FeedInit /\ [][FeedNext]_feedVars
============================================================================
