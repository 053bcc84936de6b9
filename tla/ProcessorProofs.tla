--------------------------- MODULE ProcessorProofs ---------------------------
(***************************************************************************)
(* The processor's checkpoint is sound for every tree, every degree of     *)
(* parallelism, every capacity of the channel and any number of failures.  *)
(***************************************************************************)
EXTENDS Processor, Lemmas, FiniteSetTheorems

\* The branches of the block tree (Lemmas).
LEMMA TreeIs ==
    /\ IsTree(Block, Genesis, Parent, Number)
    /\ Parent \in [Block -> Block]
    /\ \A b \in Block : Chain[b] = Branch(Block, Parent, b)
    /\ \A S : ParentClosed(S) <=> ClosedUnder(Parent, S)
BY TreeAssumption DEF IsTree, Chain, Branch, ParentClosed, ClosedUnder

LEMMA ChainWithin ==
    ASSUME NEW b \in Block, NEW S \in SUBSET Block, b \in S, ParentClosed(S)
    PROVE  Chain[b] \subseteq S
BY TreeIs, BranchWithin

LEMMA ChainClosed ==
    ASSUME NEW b \in Block
    PROVE  Chain[b] \subseteq Block /\ b \in Chain[b] /\ ParentClosed(Chain[b])
BY TreeIs, BranchClosed

LEMMA ChainTransitive ==
    ASSUME NEW b \in Block, NEW c \in Chain[b]
    PROVE  Chain[c] \subseteq Chain[b]
<1>1. c \in Block
    BY ChainClosed
<1> QED
    BY <1>1, TreeIs, BranchTransitive

LEMMA ChainNumber ==
    ASSUME NEW b \in Block, NEW c \in Chain[b], c # b
    PROVE  Number[c] < Number[b]
BY TreeIs, BranchNumber

LEMMA ChainBelow ==
    ASSUME NEW b \in Block, NEW c \in Chain[b], c # b
    PROVE  c \in Chain[Parent[b]]
<1>1. Parent[b] \in Block
    BY TreeIs
<1> QED
    BY <1>1, TreeIs, BranchBelow

LEMMA ChainComparable ==
    ASSUME NEW b \in Block, NEW c \in Chain[b], NEW d \in Chain[b]
    PROVE  c \in Chain[d] \/ d \in Chain[c]
<1>1. c \in Block /\ d \in Block
    BY ChainClosed
<1> QED
    BY <1>1, TreeIs, BranchComparable

\* A branch has at most one block at each height.
LEMMA ChainUnique ==
    ASSUME NEW b \in Block, NEW c \in Chain[b], NEW d \in Chain[b],
           Number[c] = Number[d]
    PROVE  c = d
<1>1. c \in Block /\ d \in Block
    BY ChainClosed
<1>2. Number[c] \in Nat /\ Number[d] \in Nat
    BY <1>1, TreeAssumption
<1>3. SUFFICES ASSUME c # d PROVE FALSE
    OBVIOUS
<1>4. Number[c] < Number[d] \/ Number[d] < Number[c]
    BY <1>1, <1>3, ChainComparable, ChainNumber
<1> QED
    BY <1>2, <1>4

\* A set of naturals has a least element, which Min picks.
LEMMA MinOfNat ==
    ASSUME NEW T \in SUBSET Nat, T # {}
    PROVE  Min(T) \in T /\ \A y \in T : Min(T) <= y
<1>1. PICK m \in T : \A y \in T : <<y, m>> \notin OpToRel(<, Nat)
    BY NatLessThanWellFounded, WFMin, Zenon
<1>2. \A y \in T : ~(y < m)
    BY <1>1 DEF OpToRel
<1>3. \E x \in T : \A y \in T : x <= y
    BY <1>2
<1> QED
    BY <1>3 DEF Min

\* A branch is finite: otherwise so would be a lowest infinite one, and that is
\* one block longer than its parent's.
LEMMA ChainFinite ==
    ASSUME NEW b \in Block
    PROVE  IsFiniteSet(Chain[b])
<1> DEFINE T == {Number[x] : x \in {y \in Block : ~IsFiniteSet(Chain[y])}}
<1>1. SUFFICES ASSUME T # {} PROVE FALSE
    OBVIOUS
<1>2. T \in SUBSET Nat
    BY TreeAssumption
<1>3. Min(T) \in T /\ \A y \in T : Min(T) <= y
    <2> HIDE DEF T
    <2> QED
        BY <1>1, <1>2, MinOfNat
<1>4. PICK x \in Block : ~IsFiniteSet(Chain[x]) /\ Number[x] = Min(T)
    BY <1>3
<1>5. Parent[x] \in Block
    BY TreeAssumption
<1>6. IsFiniteSet(Chain[Parent[x]]) \/ x = Genesis
    <2>1. SUFFICES ASSUME x # Genesis, ~IsFiniteSet(Chain[Parent[x]]) PROVE FALSE
        OBVIOUS
    <2>2. Number[Parent[x]] \in T
        BY <2>1, <1>5
    <2>3. Min(T) <= Number[Parent[x]]
        BY <2>2, <1>3
    <2>4. /\ Number[x] = Number[Parent[x]] + 1 /\ Number[x] \in Nat
          /\ Number[Parent[x]] \in Nat
        BY <2>1, <1>5, TreeAssumption
    <2> HIDE DEF T
    <2> QED
        BY <1>4, <2>3, <2>4
<1>7. CASE x = Genesis
    <2>1. {Genesis} \in SUBSET Block /\ ParentClosed({Genesis})
        BY TreeAssumption DEF ParentClosed
    <2>2. Chain[x] \subseteq {Genesis}
        BY <1>7, <2>1, ChainWithin
    <2> QED
        BY <1>4, <2>2, FS_Singleton, FS_Subset
<1>8. CASE IsFiniteSet(Chain[Parent[x]])
    <2>1. Chain[x] \subseteq Chain[Parent[x]] \union {x}
        BY ChainBelow
    <2>2. IsFiniteSet(Chain[Parent[x]] \union {x})
        BY <1>8, FS_AddElement
    <2> QED
        BY <1>4, <2>1, <2>2, FS_Subset
<1> QED
    BY <1>6, <1>7, <1>8

\* A batch starts at a height, and right after the last processed block or
\* below.
LEMMA BatchStartBound ==
    ASSUME NEW blocks \in SUBSET Block, blocks # {}, NEW last \in Nat
    PROVE  BatchStart(blocks, last) \in Nat /\ BatchStart(blocks, last) <= last + 1
<1>1. Heights(blocks) \in SUBSET Nat /\ Heights(blocks) # {}
    BY TreeAssumption DEF Heights
<1>2. Min(Heights(blocks)) \in Nat
    BY <1>1, MinOfNat
<1> DEFINE T == {Min(Heights(blocks)), last + 1}
<1>3. T \in SUBSET Nat /\ T # {} /\ last + 1 \in T
    BY <1>2
<1> HIDE DEF T
<1>4. Min(T) \in Nat /\ Min(T) <= last + 1
    BY <1>3, MinOfNat
<1> QED
    BY <1>4 DEF BatchStart, T

\* The messages in the channel: the best block is one of the finitely many
\* enacted ones, and the highest of them.
Headed(m) ==
    /\ IsFiniteSet(m.blocks)
    /\ m.best \in m.blocks
    /\ \A b \in m.blocks : Number[b] <= Number[m.best]

StreamHeaded == \A i \in 1 .. Len(stream) : Headed(stream[i])

\* While a batch is worked on, every height below the one awaited is indexed,
\* and so are the finished ones.
BatchSound ==
    pc = "work" => /\ \A h \in 1 .. next - 1 : h \in Heights(indexed)
                   /\ finished \subseteq Heights(indexed)

IInv ==
    /\ TypeOK
    /\ ParentClosed(imported)
    /\ StreamHeaded
    /\ BatchSound
    /\ CheckpointComplete

\* The last height of a batch is that of the message's best block.
LEMMA BatchEnd ==
    ASSUME NEW m \in MessageType, Headed(m)
    PROVE  Max(Heights(m.blocks)) = Number[m.best]
<1>1. m.best \in Block /\ m.blocks \subseteq Block
    BY DEF MessageType
<1>2. Number[m.best] \in Heights(m.blocks)
    BY DEF Heights, Headed
<1>3. \A y \in Heights(m.blocks) : Number[m.best] >= y /\ y \in Nat
    BY <1>1, TreeAssumption DEF Heights, Headed
<1>4. Number[m.best] \in Nat
    BY <1>1, TreeAssumption
<1>5. ASSUME NEW x \in Heights(m.blocks),
             \A y \in Heights(m.blocks) : x >= y
      PROVE  x = Number[m.best]
    BY <1>2, <1>3, <1>4, <1>5
<1> QED
    BY <1>2, <1>3, <1>5 DEF Max

\* A message the tracker publishes is well-formed.
LEMMA PublishedMessage ==
    ASSUME NEW from \in Block, NEW b \in Block, Enacted(from, b) # {}
    PROVE  BlocksExt(from, b) \in MessageType /\ Headed(BlocksExt(from, b))
<1>1. /\ Chain[from] \subseteq Block /\ Chain[b] \subseteq Block
      /\ b \in Chain[b]
    BY ChainClosed
<1>2. BlocksExt(from, b) \in MessageType
    <2>1. /\ Enacted(from, b) \in (SUBSET Block) \ {{}}
          /\ Enacted(from, b) \ {b} \in SUBSET Block
        BY <1>1 DEF Enacted
    <2>2. Retracted(from, b) \in SUBSET Block /\ Meeting(from, b) \in SUBSET Block
        BY <1>1 DEF Retracted, Meeting
    <2> QED
        BY <2>1, <2>2 DEF BlocksExt, MessageType
<1>3. b \in Enacted(from, b)
    BY <1>1, ChainTransitive DEF Enacted
<1>4. \A c \in Enacted(from, b) : Number[c] <= Number[b]
    <2>1. ASSUME NEW c \in Enacted(from, b), c # b PROVE Number[c] <= Number[b]
        <3>1. c \in Chain[b] /\ c \in Block
            BY <1>1 DEF Enacted
        <3>2. Number[c] < Number[b]
            BY <3>1, <2>1, ChainNumber
        <3> QED
            BY <3>1, <3>2, TreeAssumption
    <2>2. Number[b] <= Number[b]
        BY TreeAssumption
    <2> QED
        BY <2>1, <2>2
<1>5. IsFiniteSet(Enacted(from, b))
    BY ChainFinite, FS_Subset DEF Enacted
<1> QED
    BY <1>2, <1>3, <1>4, <1>5 DEF BlocksExt, Headed
-----------------------------------------------------------------------------
LEMMA InitIInv == Init => IInv
<1> SUFFICES ASSUME Init PROVE IInv
    OBVIOUS
<1> USE TreeAssumption, ProcessorAssumption DEF Init
<1>1. lagged \in BOOLEAN
    OBVIOUS
<1>2. news \in Seq(imported) /\ stream \in Seq(MessageType) /\ Len(stream) = 0
    OBVIOUS
<1>3. TypeOK
    BY <1>1, <1>2 DEF TypeOK
<1>4. ParentClosed(imported) /\ StreamHeaded
    BY <1>2 DEF ParentClosed, StreamHeaded
<1>5. BatchSound /\ CheckpointComplete
    BY DEF BatchSound, CheckpointComplete
<1> QED
    BY <1>3, <1>4, <1>5 DEF IInv

\* The branches of imported blocks are imported.
LEMMA ImportedBranch ==
    ASSUME IInv, NEW b \in imported
    PROVE  Chain[b] \subseteq imported
BY ChainWithin DEF IInv, TypeOK

\* Receiving a message: the batch starts no higher than right after a last
\* processed block below which everything is indexed.
LEMMA StepRecvMessage ==
    ASSUME IInv, NEW last \in {checkpoint, 0}, RecvMessage(last)
    PROVE  IInv'
<1> DEFINE m == Head(stream)
<1>1. /\ stream \in Seq(MessageType) /\ stream # <<>>
      /\ stream' = Tail(stream) /\ Len(stream) <= Capacity
    BY DEF IInv, TypeOK, RecvMessage
<1>2. m \in MessageType /\ Headed(m)
    <2>1. 1 \in 1 .. Len(stream) /\ m = stream[1]
        BY <1>1
    <2> QED
        BY <1>1, <2>1 DEF IInv, StreamHeaded
<1>3. /\ stream' \in Seq(MessageType) /\ Len(stream') <= Capacity
      /\ StreamHeaded'
    <2>1. /\ Len(Tail(stream)) = Len(stream) - 1
          /\ \A j \in 1 .. Len(Tail(stream)) :
                Tail(stream)[j] = stream[j + 1] /\ j + 1 \in 1 .. Len(stream)
        BY <1>1
    <2>2. StreamHeaded'
        BY <1>1, <2>1 DEF IInv, StreamHeaded
    <2>3. Tail(stream) \in Seq(MessageType) /\ Len(stream) \in Nat
        BY <1>1
    <2> QED
        BY <1>1, <2>1, <2>2, <2>3, ProcessorAssumption
<1> HIDE DEF m
<1>4. /\ m.blocks \in SUBSET Block /\ m.blocks # {} /\ m.best \in Block
      /\ Max(Heights(m.blocks)) \in Nat
    <2>1. m.blocks \in SUBSET Block /\ m.blocks # {} /\ m.best \in Block
        BY <1>2 DEF MessageType
    <2> QED
        BY <1>2, <2>1, BatchEnd, TreeAssumption
<1>5. last \in Nat /\ last <= checkpoint /\ checkpoint \in Nat
    BY DEF IInv, TypeOK
<1>6. /\ BatchStart(m.blocks, last) \in Nat
      /\ BatchStart(m.blocks, last) <= last + 1
    BY <1>4, <1>5, BatchStartBound
<1>7. failures' \in 0 .. MaxFailures
    BY ProcessorAssumption DEF IInv, TypeOK, RecvMessage
<1>8. CASE BatchStart(m.blocks, last) > Max(Heights(m.blocks))
    <2>1. UNCHANGED <<pc, batchVars>>
        BY <1>8 DEF RecvMessage, m
    <2> QED
        BY <1>3, <1>7, <2>1
           DEF IInv, TypeOK, BatchSound, CheckpointComplete, RecvMessage,
               nodeVars, trackerVars, batchVars, dbVars
<1>9. CASE ~(BatchStart(m.blocks, last) > Max(Heights(m.blocks)))
    <2>1. /\ pc' = "work" /\ next' = BatchStart(m.blocks, last)
          /\ to' = Max(Heights(m.blocks))
          /\ fetched' = {} /\ finished' = {}
        BY <1>9 DEF RecvMessage, m
    <2>2. UNCHANGED <<indexed, checkpoint>>
        BY DEF RecvMessage, dbVars
    <2>3. TypeOK'
        BY <1>3, <1>4, <1>6, <1>7, <2>1, <2>2
           DEF IInv, TypeOK, RecvMessage, nodeVars, trackerVars
    <2>4. BatchSound'
        <3>1. 1 .. next' - 1 \subseteq 1 .. checkpoint
            BY <1>5, <1>6, <2>1
        <3> QED
            BY <2>1, <2>2, <3>1 DEF IInv, BatchSound, CheckpointComplete
    <2> QED
        BY <1>3, <2>2, <2>3, <2>4
           DEF IInv, CheckpointComplete, RecvMessage, nodeVars
<1> QED
    BY <1>8, <1>9

\* The tracker's messages enter the channel, which keeps its bound.
LEMMA StepTrackerPublish ==
    ASSUME IInv, TrackerPublish
    PROVE  IInv'
<1>1. CASE UNCHANGED <<tip, msg, streamVars, missed, due>>
    BY <1>1 DEF IInv, TypeOK, StreamHeaded, BatchSound, CheckpointComplete,
                TrackerPublish, nodeVars, streamVars, batchVars, dbVars
<1>2. CASE Enacted(tip, checked) # {}
    <2>1. /\ tip \in Block /\ checked \in imported /\ imported \subseteq Block
          /\ Enacted(tip, checked) # {} /\ tip' = checked
          /\ msg' = BlocksExt(tip, checked)
        BY <1>2 DEF IInv, TypeOK, TrackerPublish
    <2>2. msg' \in MessageType /\ Headed(msg')
        BY <2>1, PublishedMessage
    <2>3. /\ stream \in Seq(MessageType) /\ Len(stream) \in Nat
          /\ Len(stream) <= Capacity /\ Capacity \in Nat \ {0}
        BY ProcessorAssumption DEF IInv, TypeOK
    <2>4. /\ stream' \in Seq(MessageType) /\ Len(stream') <= Capacity
          /\ StreamHeaded' /\ lagged' \in BOOLEAN
        <3>1. CASE UNCHANGED <<tip, msg, streamVars, missed, due>>
            BY <3>1, <2>3 DEF IInv, TypeOK, StreamHeaded, streamVars
        <3>2. CASE ~UNCHANGED <<tip, msg, streamVars, missed, due>>
            <4>1. CASE Len(stream) = Capacity
                <5> DEFINE t == Tail(stream)
                <5>1. /\ t \in Seq(MessageType) /\ Len(t) = Capacity - 1
                      /\ \A j \in 1 .. Len(t) :
                            t[j] = stream[j + 1] /\ j + 1 \in 1 .. Len(stream)
                    BY <2>3, <4>1
                <5>2. stream' = Append(t, msg') /\ lagged' = TRUE
                    BY <3>2, <4>1 DEF TrackerPublish
                <5>3. \A j \in 1 .. Len(t) : Headed(t[j])
                    BY <5>1 DEF IInv, StreamHeaded
                <5> HIDE DEF t
                <5>4. /\ Len(stream') = Len(t) + 1
                      /\ stream' \in Seq(MessageType)
                      /\ \A j \in 1 .. Len(stream') :
                            (j \in 1 .. Len(t) /\ stream'[j] = t[j])
                              \/ stream'[j] = msg'
                    BY <5>1, <5>2, <2>2
                <5>5. StreamHeaded'
                    BY <5>3, <5>4, <2>2 DEF StreamHeaded
                <5> QED
                    BY <5>1, <5>2, <5>4, <5>5, <2>3
            <4>2. CASE Len(stream) # Capacity
                <5>1. stream' = Append(stream, msg') /\ lagged' = lagged
                    BY <3>2, <4>2 DEF TrackerPublish
                <5>2. /\ Len(stream') = Len(stream) + 1
                      /\ stream' \in Seq(MessageType)
                      /\ \A j \in 1 .. Len(stream') :
                            (j \in 1 .. Len(stream) /\ stream'[j] = stream[j])
                              \/ stream'[j] = msg'
                    BY <5>1, <2>2, <2>3
                <5>3. StreamHeaded'
                    BY <5>2, <2>2 DEF IInv, StreamHeaded
                <5> QED
                    BY <5>1, <5>2, <5>3, <2>3, <4>2 DEF IInv, TypeOK
            <4> QED
                BY <4>1, <4>2
        <3> QED
            BY <3>1, <3>2
    <2> QED
        BY <2>1, <2>4 DEF IInv, TypeOK, BatchSound, CheckpointComplete,
                          TrackerPublish, nodeVars, batchVars, dbVars
<1> QED
    BY <1>1, <1>2 DEF TrackerPublish

LEMMA StepIInv ==
    ASSUME IInv, [Next]_vars
    PROVE  IInv'
<1> USE TreeAssumption, ProcessorAssumption
<1> USE DEF IInv
<1>1. CASE UNCHANGED vars
    BY <1>1 DEF TypeOK, StreamHeaded, BatchSound, CheckpointComplete, vars,
                nodeVars, trackerVars, streamVars, batchVars, dbVars, history
<1>2. ASSUME NEW b \in Block, NEW isBest \in BOOLEAN, NodeImport(b, isBest)
      PROVE  IInv'
    <2>1. news' \in Seq(imported')
        BY <1>2 DEF TypeOK, NodeImport
    <2>2. TypeOK' /\ ParentClosed(imported')
        BY <1>2, <2>1 DEF TypeOK, ParentClosed, NodeImport, streamVars,
                          batchVars, dbVars, history
    <2> QED
        BY <1>2, <2>2 DEF StreamHeaded, BatchSound, CheckpointComplete,
                          NodeImport, streamVars, batchVars, dbVars
<1>3. CASE TrackerCheck
    <2>1. Head(news) \in imported /\ Tail(news) \in Seq(imported)
        BY <1>3 DEF TypeOK, TrackerCheck
    <2> QED
        BY <1>3, <2>1
           DEF TypeOK, StreamHeaded, BatchSound, CheckpointComplete, TrackerCheck,
               nodeVars, streamVars, batchVars, dbVars, history
<1>4. CASE TrackerPublish
    BY <1>4, StepTrackerPublish
<1>5. CASE TrackerReload
    BY <1>5 DEF TypeOK, StreamHeaded, BatchSound, CheckpointComplete,
                TrackerReload, nodeVars, streamVars, batchVars, dbVars
<1>6. CASE RecvLagged
    BY <1>6 DEF TypeOK, StreamHeaded, BatchSound, CheckpointComplete, RecvLagged,
                nodeVars, trackerVars, batchVars, dbVars, history
<1>7. ASSUME NEW last \in {checkpoint, 0}, RecvMessage(last) PROVE IInv'
    BY <1>7, StepRecvMessage
<1>8. ASSUME NEW h \in InFlight, FetchBlock(h) PROVE IInv'
    <2>1. AtHeight(best, h) \subseteq imported
        BY ImportedBranch DEF TypeOK, AtHeight
    <2> QED
        BY <1>8, <2>1
           DEF TypeOK, StreamHeaded, BatchSound, CheckpointComplete, FetchBlock,
               Exit, nodeVars, trackerVars, streamVars, dbVars
<1>9. ASSUME NEW b \in fetched, StoreBlock(b) PROVE IInv'
    <2>1. b \in Block /\ Number[b] \in Nat
        BY DEF TypeOK
    <2>2. Heights(indexed') = Heights(indexed) \union {Number[b]}
        BY <1>9 DEF Heights, StoreBlock
    <2>3. TypeOK'
        BY <1>9, <2>1 DEF TypeOK, StoreBlock, nodeVars, trackerVars, streamVars,
                          history
    <2>4. BatchSound' /\ CheckpointComplete'
        BY <1>9, <2>2 DEF BatchSound, CheckpointComplete, StoreBlock
    <2> QED
        BY <1>9, <2>3, <2>4 DEF StreamHeaded, StoreBlock, nodeVars, streamVars
<1>10. CASE YieldBlock
    <2>1. next \in Nat /\ next \in Heights(indexed)
        BY <1>10 DEF TypeOK, BatchSound, YieldBlock
    <2>2. \A h \in 1 .. next : h \in Heights(indexed)
        BY <1>10, <2>1 DEF BatchSound, YieldBlock
    <2>3. next' = next + 1 /\ checkpoint' \in {next, checkpoint}
        BY <1>10 DEF YieldBlock
    <2>4. BatchSound' /\ CheckpointComplete'
        BY <1>10, <2>1, <2>2, <2>3
           DEF BatchSound, CheckpointComplete, YieldBlock
    <2>5. TypeOK'
        BY <1>10, <2>1, <2>3 DEF TypeOK, YieldBlock, nodeVars, trackerVars,
                                 streamVars, history
    <2> QED
        BY <1>10, <2>4, <2>5 DEF StreamHeaded, YieldBlock, nodeVars, streamVars
<1>11. CASE FinishBatch
    <2>1. CheckpointComplete'
        <3>1. 1 .. to \subseteq 1 .. next - 1
            BY <1>11 DEF TypeOK, FinishBatch
        <3> QED
            BY <1>11, <3>1 DEF BatchSound, CheckpointComplete, FinishBatch
    <2> QED
        BY <1>11, <2>1
           DEF TypeOK, StreamHeaded, BatchSound, FinishBatch, nodeVars,
               trackerVars, streamVars, batchVars, history
<1>12. CASE Crash
    BY <1>12 DEF TypeOK, StreamHeaded, BatchSound, CheckpointComplete, Crash,
                 Exit, nodeVars, trackerVars, streamVars, batchVars, dbVars
<1>13. CASE Restart
    <2>1. /\ news' \in Seq(imported') /\ stream' \in Seq(MessageType)
          /\ Len(stream') = 0
        BY <1>13 DEF Restart
    <2>2. lagged' \in BOOLEAN
        BY <1>13 DEF Restart
    <2>3. TypeOK' /\ StreamHeaded'
        BY <1>13, <2>1, <2>2 DEF TypeOK, StreamHeaded, Restart, nodeVars,
                           batchVars, dbVars
    <2> QED
        BY <1>13, <2>3 DEF BatchSound, CheckpointComplete, Restart, nodeVars,
                           dbVars
<1> QED
    BY <1>1, <1>2, <1>3, <1>4, <1>5, <1>6, <1>7, <1>8, <1>9, <1>10, <1>11,
       <1>12, <1>13
       DEF Next, EnvironmentStep, ProcessorStep

(***************************************************************************)
(* CheckpointIsComplete: no height up to the saved last processed block    *)
(* was ever left out (CheckpointComplete), so that a restarted indexer     *)
(* that goes on from it leaves no hole.                                    *)
(***************************************************************************)
THEOREM CheckpointIsComplete == Spec => []CheckpointComplete
<1>1. Init => IInv
    BY InitIInv
<1>2. IInv /\ [Next]_vars => IInv'
    BY StepIInv
<1>3. IInv => CheckpointComplete
    BY DEF IInv
<1> QED
    BY <1>1, <1>2, <1>3, PTL DEF Spec

(***************************************************************************)
(* Every variable of the node, the tracker, the channel and the processor  *)
(* keeps its type: the channel never holds more than it retains, and only  *)
(* imported blocks are read or indexed.                                    *)
(***************************************************************************)
THEOREM TypeCorrect == Spec => []TypeOK
BY InitIInv, StepIInv, PTL DEF Spec, IInv
-----------------------------------------------------------------------------
(***************************************************************************)
(* Why a stale block of the index is always accounted for.                 *)
(***************************************************************************)

\* A message that will still be received enacts b.
InStream(b) ==
    pc # "exited" /\ \E i \in 1 .. Len(stream) : b \in stream[i].blocks

\* The index may hold another block in the place of b.
Excused(b) == b \in missed \/ Number[b] \in raced \/ InStream(b)

\* The heights the batch has yet to write.
Pending == {h \in next .. to : pc = "work" /\ h \notin finished}

\* Up to the height the processor will have reached, each block of the branch
\* it was told of is indexed or excused, or was read, or will be read.
Accounted ==
    \A b \in Chain[tip] : Number[b] \in 1 .. Reach =>
        \/ b \in indexed \/ Excused(b)
        \/ pc = "work" /\ b \in fetched
        \/ Number[b] \in Pending \ Heights(fetched)

\* One block is read per height to be written, and writing it replaces only
\* excused ones.
FetchedSound ==
    pc = "work" => \A f \in fetched :
        /\ Number[f] \in Pending
        /\ \A x \in fetched : Number[x] = Number[f] => x = f
        /\ \A b \in Chain[tip] : Number[b] = Number[f] /\ b # f => Excused(b)

\* What is written of a batch belongs to it.
FinishedWithin == pc = "work" => \A h \in finished : h <= to

AInv == Accounted /\ FetchedSound /\ FinishedWithin

LEMMA InitAInv == Init => AInv
BY DEF Init, AInv, Accounted, FetchedSound, FinishedWithin, Reach

\* What AInv speaks of.
LEMMA KeepAInv ==
    ASSUME AInv,
           UNCHANGED <<tip, stream, pc, next, to, fetched, finished, indexed,
                       checkpoint, missed, raced>>
    PROVE  AInv'
BY DEF AInv, Accounted, FetchedSound, FinishedWithin, Excused, InStream, Pending,
       Reach

\* The heights and the branch the other steps argue about.
LEMMA TipBranch ==
    ASSUME IInv
    PROVE  /\ tip \in Block /\ Chain[tip] \subseteq imported
           /\ imported \subseteq Block
           /\ \A b \in imported : Number[b] \in Nat
           /\ next \in Nat /\ to \in Nat /\ checkpoint \in Nat
           /\ Reach \in Nat /\ checkpoint <= Reach
           /\ pc = "work" => to <= Reach
BY ImportedBranch, TreeAssumption DEF IInv, TypeOK, Reach

\* The tip moves without a message: what it enacts is missed.
LEMMA ReloadAInv ==
    ASSUME IInv, AInv, tip' = best,
           missed' = missed \union Enacted(tip, best),
           UNCHANGED <<stream, pc, next, to, fetched, finished, indexed,
                       checkpoint, raced>>
    PROVE  AInv'
<1>1. \A b \in Chain[tip'] : b \in Chain[tip] \/ b \in missed'
    BY DEF Enacted
<1>2. missed \subseteq missed'
    OBVIOUS
<1>3. \A b : Excused(b) => Excused(b)'
    BY <1>2 DEF Excused, InStream
<1>4. \A b : b \in missed' => Excused(b)'
    BY DEF Excused
<1>5. Accounted'
    BY <1>1, <1>3, <1>4 DEF AInv, Accounted, Pending, Reach
<1>6. FetchedSound'
    BY <1>1, <1>3, <1>4 DEF AInv, FetchedSound, Pending
<1> QED
    BY <1>5, <1>6 DEF AInv, FinishedWithin

\* A process that exits has missed all it had not written.
LEMMA ExitAInv ==
    ASSUME IInv, AInv, pc # "exited", pc' = "exited",
           missed' = missed \union CutShort,
           UNCHANGED <<tip, stream, next, to, fetched, finished, indexed,
                       checkpoint, raced>>
    PROVE  AInv'
<1>1. FetchedSound'
    BY DEF FetchedSound
<1>2. ASSUME NEW b \in Chain[tip], Number[b] \in 1 .. checkpoint
      PROVE  b \in indexed \/ b \in missed' \/ Number[b] \in raced
    <2>1. b \in imported /\ Number[b] \in 1 .. Reach
        BY <1>2, TipBranch
    <2>2. CASE InStream(b)
        <3>1. b \in UNION {stream[i].blocks : i \in 1 .. Len(stream)}
            BY <2>2 DEF InStream
        <3> QED
            BY <2>1, <3>1 DEF CutShort
    <2>3. CASE Number[b] \in Pending
        BY <2>1, <2>3 DEF CutShort, Pending
    <2>4. CASE pc = "work" /\ b \in fetched
        BY <2>3, <2>4 DEF AInv, FetchedSound
    <2> QED
        BY <2>1, <2>2, <2>3, <2>4 DEF AInv, Accounted, Excused
<1>3. Reach' = checkpoint
    BY DEF Reach
<1>4. Accounted'
    BY <1>2, <1>3 DEF Accounted, Excused
<1> QED
    BY <1>1, <1>4 DEF AInv, FinishedWithin

\* A message that enters the channel excuses the blocks it enacts; one that is
\* overwritten leaves those within reach missed.
LEMMA PublishAInv ==
    ASSUME IInv, AInv, TrackerPublish, pc # "exited"
    PROVE  AInv'
<1>1. /\ UNCHANGED <<pc, next, to, fetched, finished, indexed, checkpoint, raced>>
      /\ Reach' = Reach /\ Pending' = Pending
    BY DEF TrackerPublish, batchVars, dbVars, Reach, Pending
<1>2. CASE UNCHANGED <<tip, msg, streamVars, missed, due>>
    BY <1>1, <1>2, KeepAInv DEF streamVars
<1>3. CASE ~UNCHANGED <<tip, msg, streamVars, missed, due>>
    <2>1. /\ Enacted(tip, checked) # {} /\ tip' = checked
          /\ msg' = BlocksExt(tip, checked)
          /\ msg'.blocks = Enacted(tip, checked)
        BY <1>3 DEF TrackerPublish, BlocksExt
    <2>2. /\ stream \in Seq(MessageType) /\ Len(stream) \in Nat
          /\ Capacity \in Nat \ {0}
        BY ProcessorAssumption DEF IInv, TypeOK
    <2>3. msg' \in MessageType
        BY <2>1, PublishedMessage DEF IInv, TypeOK, TrackerPublish
    <2>4. \A b \in msg'.blocks : InStream(b)'
        <3>1. Len(stream') \in 1 .. Len(stream') /\ stream'[Len(stream')] = msg'
            <4>1. CASE Len(stream) = Capacity
                <5> DEFINE t == Tail(stream)
                <5>1. t \in Seq(MessageType) /\ stream' = Append(t, msg')
                    BY <1>3, <2>2, <4>1 DEF TrackerPublish
                <5> HIDE DEF t
                <5> QED
                    BY <5>1, <2>3
            <4>2. CASE Len(stream) # Capacity
                <5>1. stream' = Append(stream, msg')
                    BY <1>3, <4>2 DEF TrackerPublish
                <5> QED
                    BY <5>1, <2>2, <2>3
            <4> QED
                BY <4>1, <4>2
        <3> QED
            BY <1>1, <3>1 DEF InStream
    <2>5. missed \subseteq missed'
        BY <1>3 DEF TrackerPublish
    <2>6. ASSUME NEW b, InStream(b), Number[b] \in Nat, Number[b] <= Reach
          PROVE  b \in missed' \/ InStream(b)'
        <3>1. PICK k \in 1 .. Len(stream) : b \in stream[k].blocks
            BY <2>6 DEF InStream
        <3>2. CASE Len(stream) # Capacity
            <4>1. stream' = Append(stream, msg')
                BY <1>3, <3>2 DEF TrackerPublish
            <4>2. k \in 1 .. Len(stream') /\ stream'[k] = stream[k]
                BY <4>1, <2>2, <2>3
            <4> QED
                BY <1>1, <3>1, <4>2 DEF InStream
        <3>3. CASE Len(stream) = Capacity /\ k = 1
            <4>1. stream[k] = Head(stream)
                BY <2>2, <3>3
            <4> QED
                BY <1>3, <2>6, <3>1, <3>3, <4>1 DEF TrackerPublish
        <3>4. CASE Len(stream) = Capacity /\ k # 1
            <4> DEFINE t == Tail(stream)
            <4>1. /\ t \in Seq(MessageType) /\ stream' = Append(t, msg')
                BY <1>3, <2>2, <3>4 DEF TrackerPublish
            <4>2. Len(t) = Len(stream) - 1 /\ k - 1 \in 1 .. Len(t)
                BY <2>2, <3>4
            <4>3. t[k - 1] = stream[k]
                BY <2>2, <3>4, <4>2
            <4> HIDE DEF t
            <4>4. k - 1 \in 1 .. Len(stream') /\ stream'[k - 1] = t[k - 1]
                BY <4>1, <4>2, <2>3
            <4> QED
                BY <1>1, <3>1, <4>3, <4>4 DEF InStream
        <3> QED
            BY <3>2, <3>3, <3>4
    <2>7. \A b \in Chain[tip'] : b \in Chain[tip] \/ InStream(b)'
        BY <2>1, <2>4 DEF Enacted
    <2>8. ASSUME NEW b \in Chain[tip], Number[b] <= Reach, Excused(b)
          PROVE  Excused(b)'
        <3>1. Number[b] \in Nat
            BY TipBranch
        <3> QED
            BY <1>1, <2>5, <2>6, <2>8, <3>1 DEF Excused
    <2>9. \A b : InStream(b)' => Excused(b)'
        BY DEF Excused
    <2>10. Accounted'
        <3> SUFFICES ASSUME NEW b \in Chain[tip'], Number[b] \in 1 .. Reach'
                     PROVE  (\/ b \in indexed \/ Excused(b)
                             \/ pc = "work" /\ b \in fetched
                             \/ Number[b] \in Pending \ Heights(fetched))'
            BY DEF Accounted
        <3>1. CASE InStream(b)'
            BY <2>9, <3>1
        <3>2. CASE b \in Chain[tip]
            <4>1. Number[b] <= Reach /\ Number[b] \in 1 .. Reach
                BY <1>1, TipBranch
            <4>2. \/ b \in indexed \/ Excused(b)
                  \/ pc = "work" /\ b \in fetched
                  \/ Number[b] \in Pending \ Heights(fetched)
                BY <3>2, <4>1 DEF AInv, Accounted
            <4> QED
                BY <1>1, <2>8, <3>2, <4>1, <4>2
        <3> QED
            BY <2>7, <3>1, <3>2
    <2>11. FetchedSound'
        <3> SUFFICES ASSUME pc' = "work", NEW f \in fetched'
                     PROVE  /\ Number[f] \in Pending'
                            /\ \A x \in fetched' : Number[x] = Number[f] => x = f
                            /\ \A b \in Chain[tip'] :
                                  Number[b] = Number[f] /\ b # f => Excused(b)'
            BY DEF FetchedSound
        <3>1. /\ Number[f] \in Pending
              /\ \A x \in fetched : Number[x] = Number[f] => x = f
              /\ \A b \in Chain[tip] :
                    Number[b] = Number[f] /\ b # f => Excused(b)
            BY <1>1 DEF AInv, FetchedSound
        <3>2. Number[f] <= Reach
            <4>1. Number[f] \in next .. to /\ to <= Reach
                BY <1>1, <3>1, TipBranch DEF Pending
            <4> QED
                BY <4>1, TipBranch
        <3> QED
            BY <1>1, <2>7, <2>8, <2>9, <3>1, <3>2
    <2> QED
        BY <1>1, <2>10, <2>11 DEF AInv, FinishedWithin
<1> QED
    BY <1>2, <1>3

\* A batch spans the heights of all the blocks of its message.
LEMMA BatchSpan ==
    ASSUME NEW m \in MessageType, Headed(m), NEW last \in Nat,
           BatchStart(m.blocks, last) <= Max(Heights(m.blocks)),
           NEW b \in m.blocks
    PROVE  Number[b] \in BatchStart(m.blocks, last) .. Max(Heights(m.blocks))
<1>1. m.blocks \in SUBSET Block /\ m.best \in Block /\ b \in Block
    BY DEF MessageType
<1>2. /\ Number[b] \in Nat /\ Number[m.best] \in Nat
      /\ Number[b] <= Number[m.best]
    BY <1>1, TreeAssumption DEF Headed
<1>3. Max(Heights(m.blocks)) = Number[m.best]
    BY BatchEnd
<1>4. CASE Cardinality(m.blocks) = 1
    <2>1. PICK x : m.blocks = {x}
        BY <1>4, FS_Singleton DEF Headed
    <2>2. b = m.best
        BY <2>1 DEF Headed
    <2>3. BatchStart(m.blocks, last) \in Nat
        BY <1>4 DEF BatchStart
    <2> QED
        BY <1>2, <1>3, <2>2, <2>3
<1>5. CASE Cardinality(m.blocks) # 1
    <2>1. Heights(m.blocks) \in SUBSET Nat /\ Number[b] \in Heights(m.blocks)
        BY <1>1, TreeAssumption DEF Heights
    <2>2. /\ Min(Heights(m.blocks)) \in Nat
          /\ Min(Heights(m.blocks)) <= Number[b]
        BY <2>1, MinOfNat
    <2> DEFINE T == {Min(Heights(m.blocks)), last + 1}
    <2>3. T \in SUBSET Nat /\ T # {} /\ Min(Heights(m.blocks)) \in T
        BY <2>2
    <2>4. BatchStart(m.blocks, last) = Min(T)
        BY <1>5 DEF BatchStart
    <2> HIDE DEF T
    <2>5. Min(T) \in Nat /\ Min(T) <= Min(Heights(m.blocks))
        BY <2>3, MinOfNat
    <2> QED
        BY <1>2, <1>3, <2>2, <2>4, <2>5
<1> QED
    BY <1>4, <1>5

\* A received message is skipped, and its blocks missed, or becomes a batch
\* that reads all of their heights again.
LEMMA RecvAInv ==
    ASSUME IInv, AInv, NEW last \in {checkpoint, 0}, RecvMessage(last)
    PROVE  AInv'
<1> DEFINE m == Head(stream)
<1>1. /\ pc = "recv" /\ stream \in Seq(MessageType) /\ stream # <<>>
      /\ stream' = Tail(stream)
      /\ UNCHANGED <<tip, indexed, checkpoint, raced>>
    BY DEF IInv, TypeOK, RecvMessage, trackerVars, dbVars
<1>2. m \in MessageType /\ Headed(m)
    <2>1. 1 \in 1 .. Len(stream) /\ m = stream[1]
        BY <1>1
    <2> QED
        BY <1>1, <2>1 DEF IInv, StreamHeaded
<1>3. /\ last \in Nat /\ last <= checkpoint /\ checkpoint \in Nat
      /\ Reach = checkpoint
    BY <1>1 DEF IInv, TypeOK, Reach
<1>4. \A b : InStream(b) /\ pc' # "exited" => b \in m.blocks \/ InStream(b)'
    <2> SUFFICES ASSUME NEW b, InStream(b), pc' # "exited"
                 PROVE  b \in m.blocks \/ InStream(b)'
        OBVIOUS
    <2>1. PICK k \in 1 .. Len(stream) : b \in stream[k].blocks
        BY DEF InStream
    <2>2. CASE k = 1
        BY <1>1, <2>1, <2>2
    <2>3. CASE k # 1
        <3>1. k - 1 \in 1 .. Len(Tail(stream)) /\ Tail(stream)[k - 1] = stream[k]
            BY <1>1, <2>3
        <3> QED
            BY <1>1, <2>1, <3>1 DEF InStream
    <2> QED
        BY <2>2, <2>3
<1>5. /\ m.blocks \in SUBSET Block /\ m.blocks # {} /\ m.best \in Block
      /\ Max(Heights(m.blocks)) \in Nat
    <2>1. m.blocks \in SUBSET Block /\ m.blocks # {} /\ m.best \in Block
        BY <1>2 DEF MessageType
    <2> QED
        BY <1>2, <2>1, BatchEnd, TreeAssumption
<1>6. /\ BatchStart(m.blocks, last) \in Nat
      /\ BatchStart(m.blocks, last) <= last + 1
    BY <1>3, <1>5, BatchStartBound
<1>7. ASSUME NEW b \in Chain[tip], Number[b] \in 1 .. checkpoint
      PROVE  b \in indexed \/ Excused(b)
    BY <1>1, <1>3, <1>7 DEF AInv, Accounted, Pending
<1>8. CASE BatchStart(m.blocks, last) > Max(Heights(m.blocks))
    <2>1. missed' = missed \union m.blocks /\ UNCHANGED pc
        BY <1>8 DEF RecvMessage
    <2>2. Reach' = checkpoint
        BY <1>1, <2>1 DEF Reach
    <2>3. \A b : Excused(b) => Excused(b)'
        BY <1>1, <1>4, <2>1 DEF Excused
    <2> QED
        BY <1>1, <1>7, <2>1, <2>2, <2>3
           DEF AInv, Accounted, FetchedSound, FinishedWithin
<1>9. CASE ~(BatchStart(m.blocks, last) > Max(Heights(m.blocks)))
    <2>1. /\ pc' = "work" /\ next' = BatchStart(m.blocks, last)
          /\ to' = Max(Heights(m.blocks)) /\ missed' = missed
          /\ fetched' = {} /\ finished' = {}
        BY <1>9 DEF RecvMessage
    <2>2. Pending' = next' .. to' /\ Heights(fetched') = {}
        BY <2>1 DEF Pending, Heights
    <2> HIDE DEF m
    <2>3. \A b \in m.blocks : Number[b] \in Pending'
        BY <1>2, <1>3, <1>5, <1>6, <1>9, <2>1, <2>2, BatchSpan
    <2>4. \A b : Excused(b) => Excused(b)' \/ b \in m.blocks
        BY <1>1, <1>4, <2>1 DEF Excused
    <2>5. ASSUME NEW b \in Chain[tip], Number[b] \in 1 .. Reach'
          PROVE  b \in indexed \/ Excused(b)' \/ Number[b] \in Pending'
        <3>1. Number[b] \in Nat
            BY TipBranch
        <3>2. CASE Number[b] <= checkpoint
            BY <1>3, <1>7, <2>3, <2>4, <2>5, <3>1, <3>2
        <3>3. CASE ~(Number[b] <= checkpoint)
            <4>1. Reach' \in {checkpoint, to'}
                BY <1>1, <2>1 DEF Reach
            <4> QED
                BY <1>3, <1>5, <1>6, <2>1, <2>2, <2>5, <3>1, <3>3, <4>1
        <3> QED
            BY <3>2, <3>3
    <2>6. Accounted'
        BY <1>1, <2>2, <2>5 DEF Accounted
    <2>7. FetchedSound'
        BY <2>1 DEF FetchedSound
    <2> QED
        BY <2>1, <2>6, <2>7 DEF AInv, FinishedWithin
<1> QED
    BY <1>8, <1>9

\* The block read at a height is the one of the tip's branch, or the height
\* is raced.
LEMMA FetchAInv ==
    ASSUME IInv, AInv, NEW h \in InFlight, FetchBlock(h)
    PROVE  AInv'
<1>1. CASE AtHeight(best, h) = {}
    <2>1. /\ pc = "work" /\ pc' = "exited" /\ missed' = missed \union CutShort
          /\ UNCHANGED <<tip, stream, next, to, fetched, finished, indexed,
                         checkpoint, raced>>
        BY <1>1 DEF FetchBlock, Exit, trackerVars, streamVars, dbVars
    <2> QED
        BY <2>1, ExitAInv
<1>2. CASE AtHeight(best, h) # {}
    <2>1. /\ pc = "work" /\ h \notin finished /\ h \notin Heights(fetched)
          /\ UNCHANGED <<tip, stream, pc, next, to, finished, indexed,
                         checkpoint, missed>>
          /\ fetched' = fetched \union AtHeight(best, h)
          /\ raced' = IF AtHeight(best, h) \subseteq Chain[tip]
                      THEN raced \ {h} ELSE raced \union {h}
        BY <1>2 DEF FetchBlock, trackerVars, streamVars, dbVars
    <2>2. h \in Pending /\ Pending' = Pending /\ Reach' = Reach
        BY <2>1 DEF Pending, InFlight, Reach
    <2>3. tip \in Block
        BY TipBranch
    <2>4. \A f \in AtHeight(best, h) : Number[f] = h
        BY DEF AtHeight
    <2>5. Heights(fetched') = Heights(fetched) \union {h}
        BY <1>2, <2>1, <2>4 DEF Heights
    <2>6. ASSUME NEW b, Excused(b), Number[b] # h PROVE Excused(b)'
        BY <2>1, <2>6 DEF Excused, InStream
    <2>7. ASSUME NEW b \in Chain[tip], Number[b] = h, b \notin fetched'
          PROVE  Excused(b)'
        <3>1. PICK f \in AtHeight(best, h) : TRUE
            BY <1>2
        <3>2. CASE AtHeight(best, h) \subseteq Chain[tip]
            <4>1. b = f
                BY <2>3, <2>4, <2>7, <3>1, <3>2, ChainUnique
            <4> QED
                BY <2>1, <2>7, <4>1
        <3>3. CASE ~(AtHeight(best, h) \subseteq Chain[tip])
            BY <2>1, <2>7, <3>3 DEF Excused
        <3> QED
            BY <3>2, <3>3
    <2>8. Accounted'
        <3> SUFFICES ASSUME NEW b \in Chain[tip'], Number[b] \in 1 .. Reach'
                     PROVE  (\/ b \in indexed \/ Excused(b)
                             \/ pc = "work" /\ b \in fetched
                             \/ Number[b] \in Pending \ Heights(fetched))'
            BY DEF Accounted
        <3>1. \/ b \in indexed \/ Excused(b)
              \/ pc = "work" /\ b \in fetched
              \/ Number[b] \in Pending \ Heights(fetched)
            BY <2>1, <2>2 DEF AInv, Accounted
        <3>2. CASE Number[b] = h
            BY <2>1, <2>7, <3>2
        <3>3. CASE Number[b] # h
            BY <2>1, <2>2, <2>5, <2>6, <3>1, <3>3
        <3> QED
            BY <3>2, <3>3
    <2>9. FetchedSound'
        <3> SUFFICES ASSUME NEW f \in fetched'
                     PROVE  /\ Number[f] \in Pending'
                            /\ \A x \in fetched' : Number[x] = Number[f] => x = f
                            /\ \A b \in Chain[tip'] :
                                  Number[b] = Number[f] /\ b # f => Excused(b)'
            BY DEF FetchedSound
        <3>1. CASE f \in fetched
            <4>1. Number[f] # h
                BY <2>1, <3>1 DEF Heights
            <4> QED
                BY <2>1, <2>2, <2>4, <2>6, <3>1, <4>1 DEF AInv, FetchedSound
        <3>2. CASE f \in AtHeight(best, h)
            <4>1. Number[f] = h
                BY <2>4, <3>2
            <4>2. ASSUME NEW b \in Chain[tip], Number[b] = h, b # f
                  PROVE  Excused(b)'
                <5>1. CASE AtHeight(best, h) \subseteq Chain[tip]
                    BY <2>3, <3>2, <4>1, <4>2, <5>1, ChainUnique
                <5>2. CASE ~(AtHeight(best, h) \subseteq Chain[tip])
                    BY <2>1, <4>2, <5>2 DEF Excused
                <5> QED
                    BY <5>1, <5>2
            <4>3. ASSUME NEW x \in fetched', Number[x] = h PROVE x = f
                <5>1. x \in AtHeight(best, h)
                    BY <2>1, <4>3 DEF Heights
                <5> QED
                    BY <3>2, <4>1, <4>3, <5>1, ChainUnique DEF AtHeight, IInv, TypeOK
            <4> QED
                BY <2>1, <2>2, <4>1, <4>2, <4>3
        <3> QED
            BY <2>1, <3>1, <3>2
    <2> QED
        BY <2>1, <2>8, <2>9 DEF AInv, FinishedWithin
<1> QED
    BY <1>1, <1>2

\* Writing a block replaces only excused ones.
LEMMA StoreAInv ==
    ASSUME IInv, AInv, NEW f \in fetched, StoreBlock(f)
    PROVE  AInv'
<1>1. /\ pc = "work" /\ fetched' = fetched \ {f}
      /\ finished' = finished \union {Number[f]}
      /\ indexed' = {x \in indexed : Number[x] # Number[f]} \union {f}
      /\ UNCHANGED <<tip, stream, pc, next, to, checkpoint, missed, raced>>
    BY DEF StoreBlock, trackerVars, streamVars, history
<1>2. Reach' = Reach /\ Pending' = Pending \ {Number[f]}
    BY <1>1 DEF Reach, Pending
<1>3. \A b : Excused(b) => Excused(b)'
    BY <1>1 DEF Excused, InStream
<1>4. /\ \A x \in fetched : Number[x] = Number[f] => x = f
      /\ \A b \in Chain[tip] : Number[b] = Number[f] /\ b # f => Excused(b)
    BY <1>1 DEF AInv, FetchedSound
<1>5. Heights(fetched') \subseteq Heights(fetched)
    BY <1>1 DEF Heights
<1>6. Accounted'
    <2> SUFFICES ASSUME NEW b \in Chain[tip'], Number[b] \in 1 .. Reach'
                 PROVE  (\/ b \in indexed \/ Excused(b)
                         \/ pc = "work" /\ b \in fetched
                         \/ Number[b] \in Pending \ Heights(fetched))'
        BY DEF Accounted
    <2>1. CASE Number[b] = Number[f]
        BY <1>1, <1>3, <1>4, <2>1
    <2>2. CASE Number[b] # Number[f]
        <3>1. \/ b \in indexed \/ Excused(b)
              \/ pc = "work" /\ b \in fetched
              \/ Number[b] \in Pending \ Heights(fetched)
            BY <1>1, <1>2 DEF AInv, Accounted
        <3> QED
            BY <1>1, <1>2, <1>3, <1>5, <2>2, <3>1
    <2> QED
        BY <2>1, <2>2
<1>7. FetchedSound'
    BY <1>1, <1>2, <1>3, <1>4 DEF AInv, FetchedSound
<1>8. FinishedWithin'
    <2>1. Number[f] \in next .. to
        BY <1>1 DEF AInv, FetchedSound, Pending
    <2> QED
        BY <1>1, <2>1, TipBranch DEF AInv, FinishedWithin
<1> QED
    BY <1>6, <1>7, <1>8 DEF AInv


\* Heights that are yielded have been written.
LEMMA YieldAInv ==
    ASSUME IInv, AInv, YieldBlock
    PROVE  AInv'
<1>1. /\ pc = "work" /\ next \in finished /\ next' = next + 1
      /\ checkpoint' \in {next, checkpoint}
      /\ UNCHANGED <<tip, stream, pc, to, fetched, finished, indexed, missed,
                     raced>>
    BY DEF YieldBlock, trackerVars, streamVars, history
<1>2. Pending' = Pending
    BY <1>1, TipBranch DEF Pending
<1>3. \A b : Excused(b) => Excused(b)'
    BY <1>1 DEF Excused, InStream
<1>4. FetchedSound' /\ FinishedWithin'
    BY <1>1, <1>2, <1>3 DEF AInv, FetchedSound, FinishedWithin
<1>5. 1 .. Reach' \subseteq 1 .. Reach
    <2>1. next <= to
        BY <1>1 DEF AInv, FinishedWithin
    <2>2. Reach' \in Nat /\ Reach' <= Reach
        BY <1>1, <2>1, TipBranch DEF Reach
    <2> QED
        BY <2>2, TipBranch
<1>6. Accounted'
    BY <1>1, <1>2, <1>3, <1>5 DEF AInv, Accounted
<1> QED
    BY <1>4, <1>6 DEF AInv

\* A drained batch has nothing pending.
LEMMA FinishAInv ==
    ASSUME IInv, AInv, FinishBatch
    PROVE  AInv'
<1>1. /\ pc = "work" /\ next > to /\ checkpoint' = to /\ pc' = "recv"
      /\ UNCHANGED <<tip, stream, next, to, fetched, finished, indexed, missed,
                     raced>>
    BY DEF FinishBatch, trackerVars, streamVars, batchVars, history
<1>2. Pending = {}
    BY <1>1, TipBranch DEF Pending
<1>3. fetched = {}
    BY <1>1, <1>2 DEF AInv, FetchedSound
<1>4. \A b : Excused(b) => Excused(b)'
    BY <1>1 DEF Excused, InStream
<1>5. 1 .. Reach' \subseteq 1 .. Reach
    <2>1. Reach' = to
        BY <1>1 DEF Reach
    <2> QED
        BY <1>1, <2>1, TipBranch
<1>6. Accounted'
    BY <1>1, <1>2, <1>3, <1>4, <1>5 DEF AInv, Accounted
<1> QED
    BY <1>1, <1>6 DEF AInv, FetchedSound, FinishedWithin

\* A restart loses nothing that the exit before it had not counted as missed.
LEMMA RestartAInv ==
    ASSUME IInv, AInv, Restart
    PROVE  AInv'
<1>1. /\ pc = "exited" /\ pc' = "recv" /\ tip' = best
      /\ missed' = missed \union Enacted(tip, best)
      /\ UNCHANGED <<next, to, fetched, finished, indexed, checkpoint, raced>>
    BY DEF Restart, batchVars, dbVars
<1>2. Reach' = Reach /\ Pending = {}
    BY <1>1 DEF Reach, Pending
<1>3. \A b : Excused(b) => Excused(b)'
    BY <1>1 DEF Excused, InStream
<1>4. \A b \in Chain[tip'] : b \in Chain[tip] \/ Excused(b)'
    BY <1>1 DEF Enacted, Excused
<1>5. Accounted'
    BY <1>1, <1>2, <1>3, <1>4 DEF AInv, Accounted
<1> QED
    BY <1>1, <1>5 DEF AInv, FetchedSound, FinishedWithin

LEMMA StepAInv ==
    ASSUME IInv, AInv, [Next]_vars
    PROVE  AInv'
<1>1. CASE UNCHANGED vars
    BY <1>1, KeepAInv DEF vars, trackerVars, streamVars, batchVars, dbVars, history
<1>2. ASSUME NEW b \in Block, NEW isBest \in BOOLEAN, NodeImport(b, isBest)
      PROVE  AInv'
    BY <1>2, KeepAInv DEF NodeImport, streamVars, batchVars, dbVars, history
<1>3. CASE TrackerCheck
    BY <1>3, KeepAInv DEF TrackerCheck, streamVars, batchVars, dbVars, history
<1>4. CASE TrackerPublish /\ pc # "exited"
    BY <1>4, PublishAInv
<1>5. CASE TrackerReload
    BY <1>5, ReloadAInv DEF TrackerReload, streamVars, batchVars, dbVars
<1>6. CASE RecvLagged
    BY <1>6, KeepAInv DEF RecvLagged, trackerVars, batchVars, dbVars, history
<1>7. ASSUME NEW last \in {checkpoint, 0}, RecvMessage(last) PROVE AInv'
    BY <1>7, RecvAInv
<1>8. ASSUME NEW h \in InFlight, FetchBlock(h) PROVE AInv'
    BY <1>8, FetchAInv
<1>9. ASSUME NEW b \in fetched, StoreBlock(b) PROVE AInv'
    BY <1>9, StoreAInv
<1>10. CASE YieldBlock
    BY <1>10, YieldAInv
<1>11. CASE FinishBatch
    BY <1>11, FinishAInv
<1>12. CASE Crash
    BY <1>12, ExitAInv DEF Crash, Exit, trackerVars, streamVars, batchVars, dbVars
<1>13. CASE Restart
    BY <1>13, RestartAInv
<1> QED
    BY <1>1, <1>2, <1>3, <1>4, <1>5, <1>6, <1>7, <1>8, <1>9, <1>10, <1>11,
       <1>12, <1>13
       DEF Next, EnvironmentStep, ProcessorStep

(***************************************************************************)
(* StalenessIsAccountedFor: whenever the indexer has nothing left to do, a *)
(* canonical block it should hold but does not was in a message that was   *)
(* overwritten, skipped, cut short or replaced by a reload, or was raced   *)
(* by a reorg between the message and the read (StaleOnlyIfMissed).        *)
(***************************************************************************)
THEOREM StalenessIsAccountedFor == Spec => []StaleOnlyIfMissed
<1>1. IInv /\ AInv => StaleOnlyIfMissed
    <2> SUFFICES ASSUME IInv, AInv, Quiet, NEW b \in Owed
                 PROVE  b \in indexed \union missed \/ Number[b] \in raced
        BY DEF StaleOnlyIfMissed
    <2>1. pc = "recv" /\ Len(stream) = 0 /\ tip = best
        BY DEF Quiet
    <2>2. b \in Chain[tip] /\ Number[b] \in 1 .. Reach
        BY <2>1 DEF Owed, Reach
    <2> QED
        BY <2>1, <2>2 DEF AInv, Accounted, Excused, InStream, Pending
<1>2. Init => IInv /\ AInv
    BY InitIInv, InitAInv
<1>3. IInv /\ AInv /\ [Next]_vars => IInv' /\ AInv'
    BY StepIInv, StepAInv
<1> QED
    BY <1>1, <1>2, <1>3, PTL DEF Spec
=============================================================================
