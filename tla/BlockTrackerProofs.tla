------------------------- MODULE BlockTrackerProofs -------------------------
(***************************************************************************)
(* The tracker's invariants for every tree of blocks, every depth of the   *)
(* cache and any number of failures.                                       *)
(***************************************************************************)
EXTENDS BlockTracker, Lemmas

\* The branches of the block tree (Lemmas).
LEMMA TreeIs ==
    /\ IsTree(Block, Genesis, Parent, Number)
    /\ Parent \in [Block -> Block]
    /\ \A b \in Block : Chain[b] = Branch(Block, Parent, b)
    /\ \A S : ParentClosed(S) <=> ClosedUnder(Parent, S)
BY TreeAssumption DEF IsTree, Chain, Branch, ParentClosed, ClosedUnder

LEMMA ChainWithin ==
    ASSUME NEW b \in Block, NEW S \in SUBSET Block, b \in S, ParentClosed(S)
    PROVE  Chain[b] \subseteq S
BY TreeIs, BranchWithin

LEMMA ChainClosed ==
    ASSUME NEW b \in Block
    PROVE  Chain[b] \subseteq Block /\ b \in Chain[b] /\ ParentClosed(Chain[b])
BY TreeIs, BranchClosed

LEMMA ChainTransitive ==
    ASSUME NEW b \in Block, NEW c \in Chain[b]
    PROVE  Chain[c] \subseteq Chain[b]
<1>1. c \in Block
    BY ChainClosed
<1> QED
    BY <1>1, TreeIs, BranchTransitive

LEMMA ChainNumber ==
    ASSUME NEW b \in Block, NEW c \in Chain[b], c # b
    PROVE  Number[c] < Number[b]
BY TreeIs, BranchNumber

\* Two blocks that lie on each other's branch are one.
LEMMA ChainAntisymmetric ==
    ASSUME NEW b \in Block, NEW c \in Block, b \in Chain[c], c \in Chain[b]
    PROVE  b = c
<1>1. SUFFICES ASSUME b # c PROVE FALSE
    OBVIOUS
<1>2. Number[b] < Number[c] /\ Number[c] < Number[b]
    BY <1>1, ChainNumber
<1>3. Number[b] \in Nat /\ Number[c] \in Nat
    BY TreeAssumption
<1> QED
    BY <1>2, <1>3

\* The type invariant is inductive once the imported blocks hold the parents
\* of each of them, and a dropped subscription has sent nothing.
Grounded ==
    /\ ParentClosed(imported)
    /\ pc \in {"subscribe", "exited"} => sub = "none" /\ sent = {}
    /\ pc \in {"checkFirst", "load", "check", "route"} => hand \in imported
    /\ pc \in {"receive", "check", "route"} => current_best \in imported

\* The blocks of a queue.
InQueue(b, q) == \E i \in 1 .. Len(q) : q[i] = b

\* Where the announced best block is while the tracker has not settled on it.
Announced ==
    best \in sent =>
        \/ InQueue(best, queue)
        \/ pc \in {"checkFirst", "load", "check", "route"} /\ hand = best
        \/ pc \in {"receive", "check"} /\ current_best = best
        \/ pc = "route" /\ current_best = best /\ hand \in Chain[best]

\* The tracker never stands above the node's best block.
NotAbove ==
    /\ pc \in {"receive", "check", "route"} /\ best \in Chain[current_best]
          => current_best = best
    /\ pc \in {"load", "route"} /\ best \in Chain[hand] => hand = best

IInv == TypeOK /\ Grounded /\ Announced /\ NotAbove

\* The branches of imported blocks are imported.
LEMMA ImportedBranch ==
    ASSUME TypeOK, Grounded, NEW b \in imported
    PROVE  Chain[b] \subseteq imported
BY ChainWithin DEF TypeOK, Grounded

\* The node finds its best block canonical.
LEMMA BestIsCanonical ==
    ASSUME TypeOK
    PROVE  /\ best \in CanonicalAt(Number[best])
           /\ \A n : CanonicalAt(n) \subseteq Chain[best]
           /\ \A n : CanonicalAt(n) \subseteq Block
BY ChainClosed DEF TypeOK, CanonicalAt, AtHeight

LEMMA InitIInv == Init => TypeOK /\ Grounded /\ Announced /\ NotAbove
<1> SUFFICES ASSUME Init PROVE TypeOK /\ Grounded /\ Announced /\ NotAbove
    OBVIOUS
<1> USE TreeAssumption, TrackerAssumption DEF Init
<1>1. TypeOK
    <2>1. queue \in Seq(imported) /\ failures \in 0 .. MaxFailures
        OBVIOUS
    <2>2. resynced \in BOOLEAN
        OBVIOUS
    <2> QED
        BY <2>1, <2>2 DEF TypeOK
<1>2. Grounded
    BY DEF Grounded, ParentClosed
<1>3. Announced /\ NotAbove
    BY DEF Announced, NotAbove
<1> QED
    BY <1>1, <1>2, <1>3

\* Dropping the subscription keeps both.
LEMMA ReinitiateTypeOK ==
    ASSUME TypeOK, Grounded, Reinitiate,
           UNCHANGED <<nodeVars, hand, cache, loadVars, feedVars>>,
           failures' \in 0 .. MaxFailures
    PROVE  TypeOK' /\ Grounded'
BY DEF TypeOK, Grounded, Reinitiate, nodeVars, loadVars, feedVars

\* Every step keeps the types and the ground the other parts stand on.
LEMMA StepTypeOK ==
    ASSUME TypeOK, Grounded, [Next]_vars
    PROVE  TypeOK' /\ Grounded'
<1> USE TreeAssumption, TrackerAssumption
<1>1. CASE UNCHANGED vars
    BY <1>1 DEF TypeOK, Grounded, vars, nodeVars, subVars, loadVars, feedVars
<1>2. ASSUME NEW b \in Block, NEW isBest \in BOOLEAN, NodeImport(b, isBest)
      PROVE  TypeOK' /\ Grounded'
    BY <1>2 DEF TypeOK, Grounded, ParentClosed, NodeImport, subVars, loadVars,
                feedVars
<1>3. CASE NodeNotify
    <2>1. pending \in imported /\ queue \in Seq(imported)
        BY <1>3 DEF TypeOK, NodeNotify
    <2>2. Append(queue, pending) \in Seq(imported)
        BY <2>1
    <2>3. queue' \in Seq(imported) /\ sent' \subseteq imported
        BY <1>3, <2>1, <2>2 DEF TypeOK, NodeNotify
    <2> QED
        BY <1>3, <2>3 DEF TypeOK, Grounded, NodeNotify, loadVars, feedVars
<1>4. CASE OpenStream
    BY <1>4 DEF TypeOK, Grounded, OpenStream, nodeVars, loadVars, feedVars
<1>5. CASE Subscribe
    BY <1>5 DEF TypeOK, Grounded, Subscribe, nodeVars, loadVars, feedVars
<1>6. CASE ReceiveFirst
    BY <1>6 DEF TypeOK, Grounded, ReceiveFirst, nodeVars, loadVars, feedVars
<1>7. CASE CheckFirst
    <2>1. hand \in Block /\ Number[hand] \in Nat
        BY <1>7 DEF TypeOK, Grounded, CheckFirst
    <2>2. HeightsToLoad(Number[hand]) \subseteq Nat
        BY <2>1 DEF HeightsToLoad
    <2> QED
        <3>1. CASE Reinitiate
            <4>1. UNCHANGED loadVars
                BY <1>7, <3>1 DEF CheckFirst, Reinitiate
            <4> QED
                BY <1>7, <3>1, <4>1, ReinitiateTypeOK DEF CheckFirst, TypeOK
        <3>2. CASE ~Reinitiate
            BY <1>7, <3>2, <2>2 DEF TypeOK, Grounded, CheckFirst, nodeVars,
                                    subVars, loadVars, feedVars
        <3> QED
            BY <3>1, <3>2
<1>8. ASSUME NEW n \in todo, LoadHeight(n) PROVE TypeOK' /\ Grounded'
    <2>1. CASE Reinitiate
        <3>1. UNCHANGED loadVars
            BY <1>8, <2>1 DEF LoadHeight, Reinitiate
        <3> QED
            BY <1>8, <2>1, <3>1, ReinitiateTypeOK DEF LoadHeight, TypeOK
    <2>2. CASE ~Reinitiate
        <3>1. CanonicalAt(n) \subseteq Block
            BY BestIsCanonical
        <3> QED
            BY <1>8, <2>2, <3>1 DEF TypeOK, Grounded, LoadHeight, nodeVars,
                                    subVars, loadVars, feedVars
    <2> QED
        BY <2>1, <2>2
<1>9. CASE FinishLoad
    <2>1. Chain[hand] \subseteq Block
        BY <1>9, ChainClosed DEF TypeOK, Grounded, FinishLoad
    <2> QED
        BY <1>9, <2>1 DEF TypeOK, Grounded, FinishLoad, nodeVars, subVars,
                          loadVars
<1>10. CASE Receive
    BY <1>10 DEF TypeOK, Grounded, Receive, nodeVars, loadVars, feedVars
<1>11. CASE Check
    <2>1. CASE Reinitiate
        BY <1>11, <2>1, ReinitiateTypeOK DEF Check, TypeOK
    <2>2. CASE ~Reinitiate
        BY <1>11, <2>2 DEF TypeOK, Grounded, Check, nodeVars, subVars,
                           loadVars, feedVars
    <2> QED
        BY <2>1, <2>2
<1>12. CASE FetchHeader
    <2>1. MissingHeaders \subseteq Block
        BY <1>12, ChainClosed
           DEF TypeOK, Grounded, FetchHeader, MissingHeaders, RouteHeaders,
               Enacted, Retracted, Meeting
    <2> QED
        BY <1>12, <2>1 DEF TypeOK, Grounded, FetchHeader, nodeVars, subVars,
                           loadVars, feedVars
<1>13. CASE SkipBlock
    BY <1>13 DEF TypeOK, Grounded, SkipBlock, nodeVars, subVars, loadVars,
                 feedVars
<1>14. CASE Broadcast
    <2>1. current_best \in Block /\ hand \in Block
        BY <1>14 DEF TypeOK, Grounded, Broadcast
    <2>2. view' \subseteq Block
        BY <1>14, <2>1, ChainClosed
           DEF TypeOK, Broadcast, BlocksExt, Enacted, Retracted
    <2>3. cache' \subseteq Block
        BY <1>14 DEF TypeOK, Broadcast, RemoveHeaderUntil
    <2> QED
        BY <1>14, <2>2, <2>3 DEF TypeOK, Grounded, Broadcast, nodeVars,
                                 subVars, loadVars
<1>15. CASE Restart
    BY <1>15 DEF TypeOK, Grounded, Restart, nodeVars, subVars, loadVars
<1>16. CASE RpcFails
    BY <1>16, ReinitiateTypeOK DEF RpcFails, TypeOK
<1>17. CASE SubscribeFails
    BY <1>17 DEF TypeOK, Grounded, SubscribeFails, nodeVars, subVars, loadVars,
                 feedVars
<1> QED
    BY <1>1, <1>2, <1>3, <1>4, <1>5, <1>6, <1>7, <1>8, <1>9, <1>10, <1>11,
       <1>12, <1>13, <1>14, <1>15, <1>16, <1>17
       DEF Next, NodeStep, TrackerStep

(***************************************************************************)
(* TypeCorrect: every variable keeps its type; in particular the tracker   *)
(* only ever holds and queues blocks the node has imported.                *)
(***************************************************************************)
THEOREM TypeCorrect == Spec => []TypeOK
<1>1. Init => TypeOK /\ Grounded
    BY InitIInv
<1>2. TypeOK /\ Grounded /\ [Next]_vars => TypeOK' /\ Grounded'
    BY StepTypeOK
<1> QED
    BY <1>1, <1>2, PTL DEF Spec
-----------------------------------------------------------------------------
\* What taking the head off a queue, and appending to it, does to its blocks.
LEMMA QueueHead ==
    ASSUME NEW S, NEW q \in Seq(S), q # <<>>, NEW b, InQueue(b, q)
    PROVE  b = Head(q) \/ InQueue(b, Tail(q))
<1>1. PICK i \in 1 .. Len(q) : q[i] = b
    BY DEF InQueue
<1>2. CASE i = 1
    BY <1>1, <1>2
<1>3. CASE i # 1
    <2>1. i - 1 \in 1 .. Len(Tail(q)) /\ Tail(q)[i - 1] = b
        BY <1>1, <1>3
    <2> QED
        BY <2>1 DEF InQueue
<1> QED
    BY <1>2, <1>3

LEMMA QueueAppend ==
    ASSUME NEW S, NEW q \in Seq(S), NEW x \in S
    PROVE  /\ InQueue(x, Append(q, x))
           /\ \A b : InQueue(b, q) => InQueue(b, Append(q, x))
BY DEF InQueue

\* Every step keeps track of where the announced best block is, and keeps the
\* tracker from standing above the node.
LEMMA StepAnnounced ==
    ASSUME IInv, [Next]_vars
    PROVE  Announced' /\ NotAbove'
<1> USE DEF IInv
<1>1. CASE UNCHANGED vars
    BY <1>1 DEF Announced, NotAbove, InQueue, vars, nodeVars, subVars, feedVars
<1>2. ASSUME NEW b \in Block, NEW isBest \in BOOLEAN, NodeImport(b, isBest)
      PROVE  Announced' /\ NotAbove'
    <2>1. CASE best' = best
        BY <1>2, <2>1 DEF Announced, NotAbove, InQueue, NodeImport, subVars,
                          feedVars
    <2>2. CASE best' # best
        <3>1. best' = b /\ b \notin imported
            BY <1>2, <2>2 DEF NodeImport
        <3>2. Announced'
            BY <1>2, <3>1 DEF TypeOK, Announced, NodeImport, subVars
        <3>3. \A x \in imported : b \notin Chain[x]
            BY <3>1, ImportedBranch
        <3>4. NotAbove'
            BY <1>2, <3>1, <3>3 DEF TypeOK, Grounded, NotAbove, NodeImport,
                                    feedVars
        <3> QED
            BY <3>2, <3>4
    <2> QED
        BY <2>1, <2>2
<1>3. CASE NodeNotify
    <2>1. NotAbove'
        BY <1>3 DEF NotAbove, NodeNotify, feedVars
    <2>2. CASE sub = "open"
        <3>1. pending \in imported /\ queue \in Seq(imported)
            BY <1>3 DEF TypeOK, NodeNotify
        <3>2. queue' = Append(queue, pending) /\ sent' = sent \union {pending}
            BY <1>3, <2>2 DEF NodeNotify
        <3>3. /\ best = pending => InQueue(best, queue')
              /\ InQueue(best, queue) => InQueue(best, queue')
            BY <3>1, <3>2, QueueAppend
        <3> QED
            BY <1>3, <2>1, <3>2, <3>3 DEF Announced, NodeNotify, feedVars,
                                          InQueue
    <2>3. CASE sub # "open"
        BY <1>3, <2>1, <2>3 DEF Announced, NodeNotify, feedVars, InQueue
    <2> QED
        BY <2>2, <2>3
<1>4. CASE OpenStream
    BY <1>4 DEF Announced, NotAbove, InQueue, OpenStream, nodeVars, feedVars
<1>5. CASE Subscribe
    <2>1. InQueue(best, <<best>>)
        BY DEF InQueue
    <2> QED
        BY <1>5, <2>1 DEF Announced, NotAbove, InQueue, Subscribe, nodeVars,
                          feedVars
<1>6. CASE ReceiveFirst
    <2>1. InQueue(best, queue) => hand' = best \/ InQueue(best, queue')
        BY <1>6, QueueHead DEF TypeOK, ReceiveFirst
    <2> QED
        BY <1>6, <2>1 DEF Announced, NotAbove, InQueue, ReceiveFirst, nodeVars,
                          feedVars
<1>7. CASE CheckFirst
    <2>1. hand \in Block /\ best \in Block
        BY <1>7 DEF TypeOK, Grounded, CheckFirst
    <2>2. CASE Reinitiate
        BY <1>7, <2>2 DEF Announced, NotAbove, Reinitiate
    <2>3. CASE pc' = "first"
        <3>1. hand # best
            BY <1>7, <2>3, BestIsCanonical DEF CheckFirst, Reinitiate
        <3>2. UNCHANGED subVars
            BY <1>7, <2>3 DEF CheckFirst, Reinitiate
        <3> QED
            BY <1>7, <2>3, <3>1, <3>2
               DEF Announced, NotAbove, InQueue, CheckFirst, nodeVars, subVars,
                   feedVars
    <2>4. CASE pc' = "load"
        <3>1. hand \in Chain[best] /\ UNCHANGED subVars
            BY <1>7, <2>4, BestIsCanonical DEF CheckFirst, Reinitiate
        <3>2. best \in Chain[hand] => hand = best
            BY <2>1, <3>1, ChainAntisymmetric
        <3> QED
            BY <1>7, <2>4, <3>1, <3>2
               DEF Announced, NotAbove, InQueue, CheckFirst, nodeVars, subVars,
                   feedVars
    <2> QED
        BY <1>7, <2>2, <2>3, <2>4 DEF CheckFirst
<1>8. ASSUME NEW n \in todo, LoadHeight(n) PROVE Announced' /\ NotAbove'
    <2>1. CASE Reinitiate
        BY <2>1 DEF Announced, NotAbove, Reinitiate
    <2>2. CASE ~Reinitiate
        BY <1>8, <2>2 DEF Announced, NotAbove, InQueue, LoadHeight, nodeVars,
                          subVars, feedVars
    <2> QED
        BY <2>1, <2>2
<1>9. CASE FinishLoad
    BY <1>9 DEF Announced, NotAbove, InQueue, FinishLoad, nodeVars, subVars
<1>10. CASE Receive
    <2>1. InQueue(best, queue) => hand' = best \/ InQueue(best, queue')
        BY <1>10, QueueHead DEF TypeOK, Receive
    <2> QED
        BY <1>10, <2>1 DEF Announced, NotAbove, InQueue, Receive, nodeVars,
                           feedVars
<1>11. CASE Check
    <2>1. hand \in Block /\ best \in Block
        BY <1>11 DEF TypeOK, Grounded, Check
    <2>2. CASE Reinitiate
        BY <1>11, <2>2 DEF Announced, NotAbove, Reinitiate
    <2>3. CASE pc' = "receive"
        <3>1. hand # best
            BY <1>11, <2>3, BestIsCanonical DEF Check, Reinitiate
        <3>2. UNCHANGED subVars
            BY <1>11, <2>3 DEF Check, Reinitiate
        <3> QED
            BY <1>11, <2>3, <3>1, <3>2
               DEF Announced, NotAbove, InQueue, Check, nodeVars, subVars,
                   feedVars
    <2>4. CASE pc' = "route"
        <3>1. hand \in Chain[best] /\ UNCHANGED subVars
            BY <1>11, <2>4, BestIsCanonical DEF Check, Reinitiate
        <3>2. best \in Chain[hand] => hand = best
            BY <2>1, <3>1, ChainAntisymmetric
        <3> QED
            BY <1>11, <2>4, <3>1, <3>2
               DEF Announced, NotAbove, InQueue, Check, nodeVars, subVars,
                   feedVars
    <2> QED
        BY <1>11, <2>2, <2>3, <2>4 DEF Check
<1>12. CASE FetchHeader
    BY <1>12 DEF Announced, NotAbove, InQueue, FetchHeader, nodeVars, subVars,
                 feedVars
<1>13. CASE SkipBlock
    <2>1. hand \in Chain[current_best]
        BY <1>13, ChainClosed DEF TypeOK, Grounded, SkipBlock, Enacted
    <2>2. hand = best => current_best = best
        BY <1>13, <2>1 DEF NotAbove, SkipBlock
    <2> QED
        BY <1>13, <2>2 DEF Announced, NotAbove, InQueue, SkipBlock, nodeVars,
                           subVars, feedVars
<1>14. CASE Broadcast
    <2>1. ~(current_best = best /\ hand \in Chain[best])
        BY <1>14, ChainTransitive DEF TypeOK, Broadcast, Enacted
    <2> QED
        BY <1>14, <2>1 DEF Announced, NotAbove, InQueue, Broadcast, nodeVars,
                           subVars
<1>15. CASE Restart
    BY <1>15 DEF Announced, NotAbove, Grounded, Restart, subVars
<1>16. CASE RpcFails
    BY <1>16 DEF Announced, NotAbove, RpcFails, Reinitiate
<1>17. CASE SubscribeFails
    BY <1>17 DEF Announced, NotAbove, Grounded, SubscribeFails, subVars
<1> QED
    BY <1>1, <1>2, <1>3, <1>4, <1>5, <1>6, <1>7, <1>8, <1>9, <1>10, <1>11,
       <1>12, <1>13, <1>14, <1>15, <1>16, <1>17
       DEF Next, NodeStep, TrackerStep

(***************************************************************************)
(* TrackerConverges: whenever the tracker has read all that was sent, its  *)
(* current best block is the node's (Converged), for every tree, every     *)
(* fork choice of the node and every pattern of disconnections.            *)
(***************************************************************************)
THEOREM TrackerConverges == Spec => []Converged
<1>1. Init => IInv
    BY InitIInv DEF IInv
<1>2. IInv /\ [Next]_vars => IInv'
    BY StepTypeOK, StepAnnounced DEF IInv
<1>3. IInv => Converged
    BY DEF IInv, Announced, Converged, InQueue
<1> QED
    BY <1>1, <1>2, <1>3, PTL DEF Spec
-----------------------------------------------------------------------------
\* A block x may follow y on a subscription: it is no proper ancestor of y.
Follows(x, y) == x \in Chain[y] => x = y

\* Blocks are announced in the order of the tree: a block is imported after
\* its ancestors, and the one the node has yet to notify has no descendants.
InOrder ==
    /\ pending # NoBlock => \A x \in imported : Follows(pending, x)
    /\ \A i, j \in 1 .. Len(queue) : i < j => Follows(queue[j], queue[i])
    /\ pc \in {"checkFirst", "load", "check", "route"} =>
          \A j \in 1 .. Len(queue) : Follows(queue[j], hand)
    /\ pc \in {"receive", "check", "route"} =>
          \A j \in 1 .. Len(queue) : Follows(queue[j], current_best)
    /\ pc \in {"check", "route"} => Follows(hand, current_best)

\* What is left of an ordered queue is ordered, and follows what was taken.
LEMMA QueueTail ==
    ASSUME NEW q \in Seq(Block), q # <<>>,
           \A i, j \in 1 .. Len(q) : i < j => Follows(q[j], q[i])
    PROVE  /\ \A i, j \in 1 .. Len(Tail(q)) :
                 i < j => Follows(Tail(q)[j], Tail(q)[i])
           /\ \A j \in 1 .. Len(Tail(q)) : Follows(Tail(q)[j], Head(q))
           /\ \A x : (\A j \in 1 .. Len(q) : Follows(q[j], x)) =>
                 /\ Follows(Head(q), x)
                 /\ \A j \in 1 .. Len(Tail(q)) : Follows(Tail(q)[j], x)
<1>1. /\ Len(Tail(q)) = Len(q) - 1 /\ Len(q) \in Nat \ {0}
      /\ Head(q) = q[1] /\ 1 \in 1 .. Len(q)
      /\ \A j \in 1 .. Len(Tail(q)) :
            Tail(q)[j] = q[j + 1] /\ j + 1 \in 1 .. Len(q) /\ 1 < j + 1
    OBVIOUS
<1> QED
    BY <1>1

LEMMA InitInOrder == Init => InOrder
BY DEF Init, InOrder

LEMMA StepInOrder ==
    ASSUME TypeOK, Grounded, InOrder, [Next]_vars
    PROVE  InOrder'
<1> DEFINE Ordered(q) ==
        \A i, j \in 1 .. Len(q) : i < j => Follows(q[j], q[i])
<1>1. CASE UNCHANGED vars
    BY <1>1 DEF InOrder, vars, nodeVars, subVars, feedVars
<1>2. ASSUME NEW b \in Block, NEW isBest \in BOOLEAN, NodeImport(b, isBest)
      PROVE  InOrder'
    <2>1. \A x \in imported : b \notin Chain[x]
        BY <1>2, ImportedBranch DEF NodeImport
    <2>2. \A x \in imported' : Follows(pending', x)
        BY <1>2, <2>1 DEF NodeImport, Follows
    <2> QED
        BY <1>2, <2>2 DEF InOrder, NodeImport, subVars, feedVars
<1>3. CASE NodeNotify
    <2>1. CASE sub = "open"
        <3>1. /\ pending \in imported /\ queue \in Seq(imported)
              /\ queue' = Append(queue, pending)
              /\ \A x \in imported : Follows(pending, x)
            BY <1>3, <2>1 DEF TypeOK, InOrder, NodeNotify
        <3>2. \A j \in 1 .. Len(queue') :
                 \/ queue'[j] = pending /\ j = Len(queue) + 1
                 \/ j \in 1 .. Len(queue) /\ queue'[j] = queue[j]
            BY <3>1
        <3>3. /\ Len(queue) \in Nat /\ Len(queue') = Len(queue) + 1
              /\ \A j \in 1 .. Len(queue) : queue[j] \in imported
            BY <3>1
        <3>4. ASSUME NEW i \in 1 .. Len(queue'), NEW j \in 1 .. Len(queue'),
                     i < j
              PROVE  Follows(queue'[j], queue'[i])
            <4>1. i \in 1 .. Len(queue) /\ queue'[i] = queue[i]
                BY <3>2, <3>3, <3>4
            <4> QED
                BY <4>1, <3>1, <3>2, <3>3, <3>4 DEF InOrder
        <3>5. /\ pc \in {"checkFirst", "load", "check", "route"} =>
                    \A j \in 1 .. Len(queue') : Follows(queue'[j], hand)
              /\ pc \in {"receive", "check", "route"} =>
                    \A j \in 1 .. Len(queue') : Follows(queue'[j], current_best)
            BY <3>1, <3>2 DEF InOrder, Grounded
        <3> QED
            BY <1>3, <3>4, <3>5 DEF InOrder, NodeNotify, feedVars, Follows
    <2>2. CASE sub # "open"
        BY <1>3, <2>2 DEF InOrder, NodeNotify, feedVars
    <2> QED
        BY <2>1, <2>2
<1>4. CASE OpenStream
    BY <1>4 DEF InOrder, OpenStream, nodeVars, feedVars
<1>5. CASE Subscribe
    BY <1>5 DEF InOrder, Subscribe, nodeVars, feedVars
<1>6. CASE ReceiveFirst
    <2>1. queue \in Seq(Block) /\ queue # <<>> /\ Ordered(queue)
        BY <1>6 DEF TypeOK, InOrder, ReceiveFirst
    <2>2. Ordered(queue') /\ \A j \in 1 .. Len(queue') : Follows(queue'[j], hand')
        BY <1>6, <2>1, QueueTail DEF ReceiveFirst
    <2> QED
        BY <1>6, <2>2 DEF InOrder, ReceiveFirst, nodeVars, feedVars
<1>7. CASE CheckFirst
    <2>1. CASE Reinitiate
        BY <1>7, <2>1 DEF InOrder, CheckFirst, Reinitiate, nodeVars
    <2>2. CASE ~Reinitiate
        BY <1>7, <2>2 DEF InOrder, CheckFirst, nodeVars, subVars, feedVars
    <2> QED
        BY <2>1, <2>2
<1>8. ASSUME NEW n \in todo, LoadHeight(n) PROVE InOrder'
    <2>1. CASE Reinitiate
        BY <1>8, <2>1 DEF InOrder, LoadHeight, Reinitiate, nodeVars
    <2>2. CASE ~Reinitiate
        BY <1>8, <2>2 DEF InOrder, LoadHeight, nodeVars, subVars, feedVars
    <2> QED
        BY <2>1, <2>2
<1>9. CASE FinishLoad
    BY <1>9 DEF InOrder, FinishLoad, nodeVars, subVars
<1>10. CASE Receive
    <2>1. /\ queue \in Seq(Block) /\ queue # <<>> /\ Ordered(queue)
          /\ \A j \in 1 .. Len(queue) : Follows(queue[j], current_best)
        BY <1>10 DEF TypeOK, InOrder, Receive
    <2>2. /\ Ordered(queue')
          /\ \A j \in 1 .. Len(queue') : Follows(queue'[j], hand')
          /\ \A j \in 1 .. Len(queue') : Follows(queue'[j], current_best)
          /\ Follows(hand', current_best)
        BY <1>10, <2>1, QueueTail DEF Receive
    <2> QED
        BY <1>10, <2>2 DEF InOrder, Receive, nodeVars, feedVars
<1>11. CASE Check
    <2>1. CASE Reinitiate
        BY <1>11, <2>1 DEF InOrder, Check, Reinitiate, nodeVars
    <2>2. CASE ~Reinitiate
        BY <1>11, <2>2 DEF InOrder, Check, nodeVars, subVars, feedVars
    <2> QED
        BY <2>1, <2>2
<1>12. CASE FetchHeader
    BY <1>12 DEF InOrder, FetchHeader, nodeVars, subVars, feedVars
<1>13. CASE SkipBlock
    BY <1>13 DEF InOrder, SkipBlock, nodeVars, subVars, feedVars
<1>14. CASE Broadcast
    BY <1>14 DEF InOrder, Broadcast, nodeVars, subVars
<1>15. CASE Restart
    BY <1>15 DEF InOrder, Restart, nodeVars, subVars
<1>16. CASE RpcFails
    BY <1>16 DEF InOrder, RpcFails, Reinitiate, nodeVars
<1>17. CASE SubscribeFails
    BY <1>17 DEF InOrder, SubscribeFails, nodeVars, subVars
<1> QED
    BY <1>1, <1>2, <1>3, <1>4, <1>5, <1>6, <1>7, <1>8, <1>9, <1>10, <1>11,
       <1>12, <1>13, <1>14, <1>15, <1>16, <1>17
       DEF Next, NodeStep, TrackerStep

(***************************************************************************)
(* NeverBareRetraction: the state `listen_for_blocks` calls unexpected, a  *)
(* route that retracts and enacts nothing, is unreachable.                 *)
(***************************************************************************)
THEOREM NeverBareRetraction == Spec => []NoBareRetraction
<1>1. Init => TypeOK /\ Grounded /\ InOrder
    BY InitIInv, InitInOrder
<1>2. TypeOK /\ Grounded /\ InOrder /\ [Next]_vars
          => TypeOK' /\ Grounded' /\ InOrder'
    BY StepTypeOK, StepInOrder
<1>3. TypeOK /\ Grounded /\ InOrder => NoBareRetraction
    <2> SUFFICES ASSUME TypeOK, Grounded, InOrder, pc = "route",
                        Enacted(current_best, hand) = {}
                 PROVE  Retracted(current_best, hand) = {}
        BY DEF NoBareRetraction
    <2>1. hand \in Chain[current_best]
        BY ChainClosed DEF TypeOK, Grounded, Enacted
    <2>2. hand = current_best
        BY <2>1 DEF InOrder, Follows
    <2> QED
        BY <2>2 DEF Retracted
<1> QED
    BY <1>1, <1>2, <1>3, PTL DEF Spec
-----------------------------------------------------------------------------
LEMMA StepFeedExact ==
    ASSUME TypeOK, Grounded, FeedExact, [Next]_vars
    PROVE  FeedExact'
<1>1. CASE UNCHANGED feedVars
    BY <1>1 DEF FeedExact, feedVars
<1>2. CASE FinishLoad
    <2>1. CASE current_best = NoBlock
        BY <1>2, <2>1 DEF FeedExact, FinishLoad
    <2>2. CASE current_best # NoBlock
        BY <1>2, <2>2 DEF FeedExact, FinishLoad
    <2> QED
        BY <2>1, <2>2
<1>3. CASE Broadcast
    <2>1. current_best # NoBlock
        BY <1>3, TrackerAssumption DEF TypeOK, Grounded, Broadcast
    <2>2. view = Chain[current_best] => view' = Chain[hand]
        BY <1>3 DEF Broadcast, BlocksExt, Enacted, Retracted
    <2> QED
        BY <1>3, <2>1, <2>2 DEF FeedExact, Broadcast
<1>4. CASE Restart
    BY <1>4 DEF FeedExact, Restart
<1> QED
    BY <1>1, <1>2, <1>3, <1>4
       DEF Next, NodeStep, TrackerStep, vars, NodeImport, NodeNotify,
           OpenStream, Subscribe, ReceiveFirst, CheckFirst, LoadHeight, Receive,
           Check, FetchHeader, SkipBlock, RpcFails, SubscribeFails

(***************************************************************************)
(* FeedIsExact: replaying the messages of a process that loaded its cache  *)
(* once gives the branch of the tracker's current best block (FeedExact).  *)
(***************************************************************************)
THEOREM FeedIsExact == Spec => []FeedExact
<1>1. Init => TypeOK /\ Grounded /\ FeedExact
    BY InitIInv DEF Init, FeedExact
<1>2. TypeOK /\ Grounded /\ FeedExact /\ [Next]_vars
          => TypeOK' /\ Grounded' /\ FeedExact'
    BY StepTypeOK, StepFeedExact
<1> QED
    BY <1>1, <1>2, PTL DEF Spec

(***************************************************************************)
(* The message of a route leads from the one branch to the other.          *)
(***************************************************************************)
LEMMA ChainComparable ==
    ASSUME NEW b \in Block, NEW c \in Chain[b], NEW d \in Chain[b]
    PROVE  c \in Chain[d] \/ d \in Chain[c]
<1>1. c \in Block /\ d \in Block
    BY ChainClosed
<1> QED
    BY <1>1, TreeIs, BranchComparable

\* Below a block that only one of the branches has, the next is on that
\* branch too, or it is the highest block of both.
LEMMA ParentMeets ==
    ASSUME NEW p \in Block, NEW q \in Block, NEW b \in Chain[p] \ Chain[q]
    PROVE  Parent[b] \in (Chain[p] \ Chain[q]) \union Meeting(p, q)
<1>1. b \in Block /\ Parent[b] \in Chain[p] /\ Parent[b] \in Block
    BY ChainClosed, TreeIs DEF ParentClosed
<1>2. SUFFICES ASSUME Parent[b] \in Chain[q], NEW c \in Chain[p] \cap Chain[q]
               PROVE  Number[c] <= Number[Parent[b]]
    BY <1>1 DEF Meeting
<1>3. c \in Block
    BY ChainClosed
<1>4. b \notin Chain[c]
    BY ChainTransitive
<1>5. c \in Chain[b] /\ c # b
    BY <1>4, ChainComparable
<1>6. c \in Chain[Parent[b]]
    BY <1>1, <1>5, TreeIs, BranchBelow
<1>7. c = Parent[b] \/ Number[c] < Number[Parent[b]]
    BY <1>1, <1>6, ChainNumber
<1>8. Number[c] \in Nat /\ Number[Parent[b]] \in Nat
    BY <1>1, <1>3, TreeAssumption
<1> QED
    BY <1>7, <1>8

LEMMA MeetingOnce ==
    ASSUME NEW p \in Block, NEW q \in Block, NEW c \in Meeting(p, q), NEW d \in Meeting(p, q)
    PROVE  c = d
<1>1. /\ c \in Chain[p] /\ d \in Chain[p] /\ c \in Block /\ d \in Block
      /\ Number[c] <= Number[d] /\ Number[d] <= Number[c]
    BY ChainClosed DEF Meeting
<1>2. Number[c] \in Nat /\ Number[d] \in Nat
    BY <1>1, TreeAssumption
<1>3. c \in Chain[d] \/ d \in Chain[c]
    BY <1>1, ChainComparable
<1> QED
    BY <1>1, <1>2, <1>3, ChainNumber

LEMMA RouteLeads ==
    ASSUME NEW p \in Block, NEW q \in Block, Enacted(p, q) # {}
    PROVE  Feed!Leads(p, BlocksExt(p, q), q)
<1>1. PICK m : m = BlocksExt(p, q)
    OBVIOUS
<1>2. /\ m.blocks = Chain[q] \ Chain[p] /\ m.best = q
      /\ m.reorgEnacted = m.blocks \ {q}
      /\ m.retracted = Chain[p] \ Chain[q] /\ m.common = Meeting(p, q)
    BY <1>1 DEF BlocksExt, Enacted, Retracted
<1>3. q \in m.blocks
    BY <1>2, ChainClosed, ChainTransitive DEF Enacted
<1>4. Feed!Chain = Chain
    BY DEF Feed!Chain, Chain, Feed!ParentClosed, ParentClosed
<1>5. Feed!Replays(p, m, q)
    BY <1>2, <1>4 DEF Feed!Replays
<1>6. Feed!Meets(p, m, q)
    <2>1. m.common \subseteq Chain[p] \cap Chain[q]
        BY <1>2 DEF Meeting
    <2>2. \A c, d \in m.common : c = d
        BY <1>2, MeetingOnce
    <2>3. Meeting(q, p) = Meeting(p, q)
        BY DEF Meeting
    <2>4. ASSUME NEW b \in m.blocks PROVE Parent[b] \in m.blocks \union m.common
        BY <1>2, <2>3, <2>4, ParentMeets
    <2>5. ASSUME NEW b \in m.retracted PROVE Parent[b] \in m.retracted \union m.common
        BY <1>2, <2>5, ParentMeets
    <2> QED
        BY <1>4, <2>1, <2>2, <2>4, <2>5 DEF Feed!Meets
<1> QED
    BY <1>1, <1>2, <1>3, <1>5, <1>6 DEF Feed!Leads

(***************************************************************************)
(* TrackerImplementsFeed: every behaviour of the tracker is one of         *)
(* ChainFeed with the current best block as the tip (FeedImplemented):     *)
(* while it listens its best block moves with a message only, and that     *)
(* message turns the one branch into the other.                            *)
(***************************************************************************)
THEOREM TrackerImplementsFeed == Spec => FeedImplemented
<1>1. Init => Feed!FeedInit
    BY DEF Init, Feed!FeedInit, Listening
<1>2. ASSUME TypeOK, Grounded, [Next]_vars
      PROVE  [Feed!FeedNext]_(Feed!feedVars)
    <2>1. CASE UNCHANGED feedVars /\ Listening' = Listening
        BY <2>1 DEF feedVars, Feed!feedVars
    <2>2. CASE FinishLoad
        <3>1. hand \in Block /\ Feed!Connect(hand)
            BY <1>2, <2>2 DEF TypeOK, Grounded, FinishLoad, Feed!Connect, Listening
        <3> QED
            BY <3>1 DEF Feed!FeedNext
    <2>3. CASE Broadcast
        <3>1. /\ hand \in Block /\ current_best \in Block /\ Enacted(current_best, hand) # {}
              /\ hand # current_best
            BY <1>2, <2>3 DEF TypeOK, Grounded, Broadcast, Enacted
        <3>2. Feed!Leads(current_best, BlocksExt(current_best, hand), hand)
            BY <3>1, RouteLeads
        <3>3. Feed!Publish(hand)
            BY <2>3, <3>1, <3>2 DEF Broadcast, Feed!Publish, Listening
        <3> QED
            BY <3>1, <3>3 DEF Feed!FeedNext
    <2>4. CASE Restart
        BY <2>4 DEF Restart, Feed!FeedNext, Feed!Forget, Listening
    <2>5. CASE UNCHANGED feedVars /\ pc' = "subscribe"
        <3>1. CASE Listening
            BY <2>5, <3>1 DEF feedVars, Feed!FeedNext, Feed!Disconnect, Listening
        <3>2. CASE ~Listening
            BY <2>1, <2>5, <3>2 DEF Listening
        <3> QED
            BY <3>1, <3>2
    <2>6. CASE UNCHANGED vars
        BY <2>1, <2>6 DEF vars, Listening
    <2>7. CASE NodeStep
        BY <2>1, <2>7 DEF NodeStep, NodeImport, NodeNotify, OpenStream, Listening
    <2>8. CASE Subscribe \/ ReceiveFirst \/ Receive \/ FetchHeader \/ SkipBlock \/ SubscribeFails
        BY <2>1, <2>8 DEF Subscribe, ReceiveFirst, Receive, FetchHeader, SkipBlock,
                          SubscribeFails, Listening
    <2>9. CASE CheckFirst \/ Check \/ \E n \in todo : LoadHeight(n)
        BY <2>1, <2>5, <2>9 DEF CheckFirst, Check, LoadHeight, Reinitiate, Listening
    <2>10. CASE RpcFails
        BY <2>5, <2>10 DEF RpcFails, Reinitiate
    <2> QED
        BY <1>2, <2>2, <2>3, <2>4, <2>6, <2>7, <2>8, <2>9, <2>10 DEF Next, TrackerStep
<1>3. TypeOK /\ Grounded /\ [Next]_vars => TypeOK' /\ Grounded'
    BY StepTypeOK
<1>4. Init => TypeOK /\ Grounded
    BY InitIInv
<1> QED
    BY <1>1, <1>2, <1>3, <1>4, PTL DEF Spec, FeedImplemented, Feed!FeedSpec
=============================================================================
