---------------------------- MODULE BlockTracker ----------------------------
(***************************************************************************)
(* Block tracking and reorg detection: `Subspace::listen_for_all_blocks`   *)
(* and what it calls (shared/src/subspace.rs), beside the node it listens  *)
(* to.  The tracker is one task; every await on the node is a step, and    *)
(* the node imports blocks and changes its best block between any two.     *)
(*                                                                         *)
(* Hashes, roots and digests are abstracted to the block's identity; a     *)
(* header in the cache is the block itself, its height is Number.          *)
(***************************************************************************)
EXTENDS BlockTree, Sequences, FiniteSets

CONSTANTS
    NoBlock,            \* no block yet
    NoMessage,          \* nothing broadcast yet
    CacheHeaderDepth,   \* CACHE_HEADER_DEPTH
    MaxFailures         \* bound: disconnections and failed subscriptions

ASSUME TrackerAssumption ==
    /\ NoBlock \notin Block
    /\ CacheHeaderDepth \in Nat
    /\ MaxFailures \in Nat

VARIABLES
    imported,       \* node: the blocks it has imported
    best,           \* node: its best block
    pending,        \* node: the block imported but not yet notified
    sub,            \* subscription: "none", "opening" or "open"
    queue,          \* subscription: headers sent and not yet received
    sent,           \* history: every block sent on this subscription
    pc,             \* where the tracker's task is
    hand,           \* `block`: the block the task is working on
    current_best,   \* `current_best_block`
    cache,          \* `header_metadata`, never cleared by a reconnection
    todo,           \* heights `load_header_metadata_cache` has yet to fetch
    loaded,         \* the headers it has fetched
    msg,            \* the last `BlocksExt` sent to `sink`
    view,           \* history: the chain a reader of every message holds
    resynced,       \* history: the cache was loaded again in this process
    failures        \* history: failures so far

nodeVars == <<imported, best, pending>>
subVars == <<sub, queue, sent>>
loadVars == <<todo, loaded>>
feedVars == <<current_best, msg, view, resynced>>
vars == <<nodeVars, subVars, pc, hand, cache, loadVars, feedVars, failures>>

Init ==
    /\ imported = {Genesis}
    /\ best = Genesis
    /\ pending = NoBlock
    /\ sub = "none"
    /\ queue = <<>>
    /\ sent = {}
    /\ pc = "subscribe"
    /\ hand = NoBlock
    /\ current_best = NoBlock
    /\ cache = {}
    /\ todo = {}
    /\ loaded = {}
    /\ msg = NoMessage
    /\ view = {}
    /\ resynced = FALSE
    /\ failures = 0
-----------------------------------------------------------------------------
(***************************************************************************)
(* The node, from how the tracker uses it: importing a block commits it,   *)
(* as the new best block or as a fork, and notifies the subscribers after; *)
(* the fork choice is left open.  A new subscription gets the best block   *)
(* first, and its stream of notifications a moment later, so that a block  *)
(* may be announced twice or, when imported in between, never.             *)
(***************************************************************************)
NodeImport(b, isBest) ==
    /\ pending = NoBlock
    /\ b \notin imported
    /\ Parent[b] \in imported
    /\ imported' = imported \union {b}
    /\ best' = IF isBest THEN b ELSE best
    /\ pending' = b
    /\ UNCHANGED <<subVars, pc, hand, cache, loadVars, feedVars, failures>>

NodeNotify ==
    /\ pending # NoBlock
    /\ pending' = NoBlock
    /\ IF sub = "open"
       THEN queue' = Append(queue, pending) /\ sent' = sent \union {pending}
       ELSE UNCHANGED <<queue, sent>>
    /\ UNCHANGED <<imported, best, sub, pc, hand, cache, loadVars, feedVars,
                   failures>>

OpenStream ==
    /\ sub = "opening"
    /\ sub' = "open"
    /\ UNCHANGED <<nodeVars, queue, sent, pc, hand, cache, loadVars, feedVars,
                   failures>>

\* The node's answer to `chain_get_block_hash(number)`, empty for `None`.
CanonicalAt(n) == AtHeight(best, n)
-----------------------------------------------------------------------------
\* `subscribe_all()` succeeds.
Subscribe ==
    /\ pc = "subscribe"
    /\ sub' = "opening"
    /\ queue' = <<best>>
    /\ sent' = {best}
    /\ pc' = "first"
    /\ UNCHANGED <<nodeVars, hand, cache, loadVars, feedVars, failures>>

\* The arms of `listen_for_all_blocks` that `continue`: the subscription is
\* dropped and opened again, the cache is kept.
Reinitiate ==
    /\ pc' = "subscribe"
    /\ sub' = "none"
    /\ queue' = <<>>
    /\ sent' = {}

\* `load_header_metadata_cache`: the next block of the new subscription.
ReceiveFirst ==
    /\ pc = "first"
    /\ queue # <<>>
    /\ hand' = Head(queue)
    /\ queue' = Tail(queue)
    /\ pc' = "checkFirst"
    /\ UNCHANGED <<nodeVars, sub, sent, cache, loadVars, feedVars, failures>>

\* Its `is_canonical_block`: the first canonical block received becomes the
\* latest block, whose ancestors by height are to be loaded.
HeightsToLoadUnsaturated(n) == (n - CacheHeaderDepth) .. n  \* mutant

HeightsToLoad(n) ==
    (IF n > CacheHeaderDepth THEN n - CacheHeaderDepth ELSE 0) .. n

CheckFirst ==
    /\ pc = "checkFirst"
    /\ LET canonical == CanonicalAt(Number[hand]) IN
       \/ /\ canonical = {}
          /\ Reinitiate
          /\ UNCHANGED loadVars
       \/ /\ canonical # {}
          /\ hand \notin canonical
          /\ pc' = "first"
          /\ UNCHANGED <<subVars, loadVars>>
       \/ /\ hand \in canonical
          /\ pc' = "load"
          /\ todo' = HeightsToLoad(Number[hand])
          /\ loaded' = {}
          /\ UNCHANGED subVars
    /\ UNCHANGED <<nodeVars, hand, cache, feedVars, failures>>

\* One of the buffered requests of the load is answered, in any order: the
\* header of whatever block is canonical at that height by then.
LoadHeight(n) ==
    /\ pc = "load"
    /\ n \in todo
    /\ \/ /\ CanonicalAt(n) = {}
          /\ Reinitiate
          /\ UNCHANGED loadVars
       \/ /\ CanonicalAt(n) # {}
          /\ loaded' = loaded \union CanonicalAt(n)
          /\ todo' = todo \ {n}
          /\ UNCHANGED <<subVars, pc>>
    /\ UNCHANGED <<nodeVars, hand, cache, feedVars, failures>>

\* Mutant: the head is asked for again once the headers are loaded.
FinishLoadAtHead ==
    /\ pc = "load"
    /\ todo = {}
    /\ cache' = cache \union loaded
    /\ current_best' = best
    /\ IF current_best = NoBlock
       THEN view' = Chain[best] /\ UNCHANGED resynced
       ELSE resynced' = TRUE /\ UNCHANGED view
    /\ pc' = "receive"
    /\ UNCHANGED <<nodeVars, subVars, hand, loadVars, msg, failures>>

\* All headers are there: they enter the cache and the latest block becomes
\* the current best one, without a broadcast.
FinishLoad ==
    /\ pc = "load"
    /\ todo = {}
    /\ cache' = cache \union loaded
    /\ current_best' = hand
    /\ IF current_best = NoBlock
       THEN view' = Chain[hand] /\ UNCHANGED resynced
       ELSE resynced' = TRUE /\ UNCHANGED view
    /\ pc' = "receive"
    /\ UNCHANGED <<nodeVars, subVars, hand, loadVars, msg, failures>>
-----------------------------------------------------------------------------
\* `listen_for_blocks`: the next block; its header enters the cache.
Receive ==
    /\ pc = "receive"
    /\ queue # <<>>
    /\ hand' = Head(queue)
    /\ queue' = Tail(queue)
    /\ cache' = cache \union {Head(queue)}
    /\ pc' = "check"
    /\ UNCHANGED <<nodeVars, sub, sent, loadVars, feedVars, failures>>

\* Mutant: fork blocks are not told apart.
CheckHeightOnly ==
    /\ pc = "check"
    /\ IF CanonicalAt(Number[hand]) = {}
       THEN Reinitiate
       ELSE pc' = "route" /\ UNCHANGED subVars
    /\ UNCHANGED <<nodeVars, hand, cache, loadVars, feedVars, failures>>

\* `is_canonical_block`: no block at that height reinitiates, a fork block is
\* skipped, a canonical one is routed to.
Check ==
    /\ pc = "check"
    /\ LET canonical == CanonicalAt(Number[hand]) IN
       \/ /\ canonical = {}
          /\ Reinitiate
       \/ /\ canonical # {}
          /\ hand \notin canonical
          /\ pc' = "receive"
          /\ UNCHANGED subVars
       \/ /\ hand \in canonical
          /\ pc' = "route"
          /\ UNCHANGED subVars
    /\ UNCHANGED <<nodeVars, hand, cache, loadVars, feedVars, failures>>

\* `recursive_tree_route`: the walk stops at the first header the cache lacks
\* (both ends first, then by falling height, the new branch before the old).
MissingHeaders == RouteHeaders(current_best, hand) \ cache

LookedUpFirst(x) ==
    \/ x = current_best
    \/ x = hand /\ current_best \notin MissingHeaders
    \/ /\ {current_best, hand} \cap MissingHeaders = {}
       /\ \A y \in MissingHeaders \ {x} :
             \/ Number[x] > Number[y]
             \/ Number[x] = Number[y] /\ x \in Chain[hand]

\* Mutant: the fetched header is not added to the cache.
FetchHeaderUncached ==
    /\ pc = "route"
    /\ \E x \in MissingHeaders : LookedUpFirst(x)
    /\ UNCHANGED vars

\* ... which is fetched, and the walk starts again.
FetchHeader ==
    /\ pc = "route"
    /\ \E x \in MissingHeaders :
          LookedUpFirst(x) /\ cache' = cache \union {x}
    /\ UNCHANGED <<nodeVars, subVars, pc, hand, loadVars, feedVars, failures>>

\* Nothing to enact: the block is on the current best branch already.
SkipBlock ==
    /\ pc = "route"
    /\ MissingHeaders = {}
    /\ Enacted(current_best, hand) = {}
    /\ pc' = "receive"
    /\ UNCHANGED <<nodeVars, subVars, hand, cache, loadVars, feedVars, failures>>

\* `remove_header_until`: downwards from n, up to the first height the cache
\* has no header at.
RemoveHeaderUntil(headers, n) ==
    {h \in headers :
        \/ Number[h] > n
        \/ \E m \in Number[h] .. n : \A x \in headers : Number[x] # m}

Broadcast ==
    /\ pc = "route"
    /\ MissingHeaders = {}
    /\ Enacted(current_best, hand) # {}
    /\ msg' = BlocksExt(current_best, hand)
    /\ view' = (view \ msg'.retracted) \union msg'.blocks
    /\ current_best' = hand
    /\ cache' = RemoveHeaderUntil(cache,
                    IF Number[hand] > CacheHeaderDepth
                    THEN Number[hand] - CacheHeaderDepth ELSE 0)
    /\ pc' = "receive"
    /\ UNCHANGED <<nodeVars, subVars, hand, loadVars, resynced, failures>>
-----------------------------------------------------------------------------
\* An await on the node fails: the stream ends or a request returns an error.
AwaitsNode ==
    \/ pc \in {"first", "checkFirst", "receive", "check"}
    \/ pc = "load" /\ todo # {}
    \/ pc = "route" /\ MissingHeaders # {}

RpcFails ==
    /\ failures < MaxFailures
    /\ AwaitsNode
    /\ failures' = failures + 1
    /\ Reinitiate
    /\ UNCHANGED <<nodeVars, hand, cache, loadVars, feedVars>>

\* `subscribe_all().await?` leaves the loop: the task ends and with it the
\* process.
SubscribeFails ==
    /\ failures < MaxFailures
    /\ pc = "subscribe"
    /\ failures' = failures + 1
    /\ pc' = "exited"
    /\ UNCHANGED <<nodeVars, subVars, hand, cache, loadVars, feedVars>>

\* The container is restarted: nothing of the tracker was kept.
Restart ==
    /\ pc = "exited"
    /\ pc' = "subscribe"
    /\ cache' = {}
    /\ current_best' = NoBlock
    /\ hand' = NoBlock
    /\ view' = {}
    /\ resynced' = FALSE
    /\ UNCHANGED <<nodeVars, subVars, loadVars, msg, failures>>

NodeStep ==
    \/ \E b \in Block, isBest \in BOOLEAN : NodeImport(b, isBest)
    \/ NodeNotify
    \/ OpenStream

TrackerStep ==
    \/ Subscribe
    \/ ReceiveFirst
    \/ CheckFirst
    \/ \E n \in todo : LoadHeight(n)
    \/ FinishLoad
    \/ Receive
    \/ Check
    \/ FetchHeader
    \/ SkipBlock
    \/ Broadcast
    \/ Restart

Next == NodeStep \/ TrackerStep \/ RpcFails \/ SubscribeFails

Spec == Init /\ [][Next]_vars

\* The tracker's task is polled, the node answers and completes what it has
\* begun; nothing makes the node import another block.
FairSpec ==
    /\ Spec
    /\ WF_vars(TrackerStep)
    /\ WF_vars(NodeNotify)
    /\ WF_vars(OpenStream)
-----------------------------------------------------------------------------
TypeOK ==
    /\ imported \subseteq Block /\ best \in imported
    /\ pending \in imported \union {NoBlock}
    /\ sub \in {"none", "opening", "open"}
    /\ queue \in Seq(imported) /\ sent \subseteq imported
    /\ pc \in {"subscribe", "first", "checkFirst", "load", "receive", "check",
               "route", "exited"}
    /\ hand \in imported \union {NoBlock}
    /\ current_best \in imported \union {NoBlock}
    /\ cache \subseteq Block
    /\ todo \subseteq Nat
    /\ loaded \subseteq Block
    /\ view \subseteq Block
    /\ resynced \in BOOLEAN
    /\ failures \in 0 .. MaxFailures

(***************************************************************************)
(* Converged: when the tracker waits for the next block and has read all   *)
(* that was sent, its current best block is the node's, whatever imports   *)
(* fell between a block's receipt, its canonical check and its route.  The *)
(* one exception is a best block the node never announced here, imported   *)
(* while the subscription was being opened or not notified yet.            *)
(***************************************************************************)
Converged ==
    pc = "receive" /\ queue = <<>> /\ best \in sent => current_best = best

(***************************************************************************)
(* FeedExact: a reader that applies every message (drop the retracted      *)
(* blocks, add the enacted ones) holds exactly the branch of the current   *)
(* best block, as long as the cache was loaded once in this process.       *)
(***************************************************************************)
FeedExact ==
    current_best # NoBlock /\ ~resynced => view = Chain[current_best]

(***************************************************************************)
(* NoBareRetraction: the route never retracts blocks and enacts none, the  *)
(* state `listen_for_blocks` only warns of ("should not happen"): the      *)
(* tracker would stay on the retracted branch without a message.           *)
(***************************************************************************)
NoBareRetraction ==
    pc = "route" /\ Retracted(current_best, hand) # {}
        => Enacted(current_best, hand) # {}

(***************************************************************************)
(* FeedImplemented: the tracker implements ChainFeed; each message leads   *)
(* from the branch of the previous best block to that of the new one, and  *)
(* only a load, before listening, or a restart moves the best block        *)
(* without a message.                                                      *)
(***************************************************************************)
Listening == pc \in {"receive", "check", "route"}

Feed == INSTANCE ChainFeed WITH tip <- current_best, live <- Listening

FeedImplemented == Feed!FeedSpec

(***************************************************************************)
(* Settles: once the node stops importing and failing, the tracker ends up *)
(* on the node's best block for good, if it was announced at all; no await *)
(* or refetch of a missing header keeps it away for ever.                  *)
(***************************************************************************)
Settles == <>[](best \in sent => current_best = best)

(***************************************************************************)
(* FeedExactAcrossReconnects: FeedExact without its exemption: the task    *)
(* "Listens for all the blocks being imported [...] and broadcast the best *)
(* blocks and reorg data", also those imported while it reconnected.       *)
(***************************************************************************)
FeedExactAcrossReconnects ==
    current_best # NoBlock => view = Chain[current_best]
=============================================================================
