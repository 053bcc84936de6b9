----------------------------- MODULE Processor -----------------------------
(***************************************************************************)
(* The indexer's block processing loop: `run_processor`                    *)
(* (indexer/src/processor.rs), which the XDM and the staking processor     *)
(* share, fed by the tracker's broadcast channel and reading blocks from   *)
(* the node by number while the node goes on importing.                    *)
(*                                                                         *)
(* What a block's events become in the database is left out: `indexed`     *)
(* holds, for each height, the block that was processed last there.        *)
(***************************************************************************)
EXTENDS BlockTree, Sequences, FiniteSetsExt

CONSTANTS
    NoBlock,            \* no block in the tracker's hand
    NoMessage,          \* nothing broadcast yet
    CheckpointEvery,    \* CHECKPOINT_PROCESSED_BLOCK
    Parallel,           \* process_blocks_in_parallel
    Capacity,           \* messages the broadcast channel retains
    MaxFailures         \* bound: crashes, reconnections, failed reads

ASSUME ProcessorAssumption ==
    /\ NoBlock \notin Block
    /\ CheckpointEvery \in Nat \ {0}
    /\ Parallel \in Nat \ {0}
    /\ Capacity \in Nat \ {0}
    /\ MaxFailures \in Nat

VARIABLES
    imported,   \* node: the blocks it has imported
    best,       \* node: its best block
    news,       \* tracker: announced blocks it has yet to look at
    checked,    \* tracker: the block it found canonical and now routes to
    tip,        \* tracker: `current_best_block`
    msg,        \* tracker: the last message broadcast
    stream,     \* channel: messages the processor has not received
    lagged,     \* channel: messages were overwritten before they were read
    pc,         \* the processor: "recv", "work" or "exited"
    next,       \* the height whose result the loop awaits next
    to,         \* the last height of the batch
    fetched,    \* blocks read from the node and not yet written
    finished,   \* heights of the batch that are written
    indexed,    \* database: per height, the block processed last
    checkpoint, \* database: the last processed block, 0 for none
    missed,     \* history: blocks of messages lost, skipped or cut short
    raced,      \* history: heights read while another branch was canonical
    due,        \* history: height of the last message of this process
    failures    \* history: failures so far

nodeVars == <<imported, best>>
trackerVars == <<news, checked, tip, msg>>
streamVars == <<stream, lagged>>
batchVars == <<next, to, fetched, finished>>
dbVars == <<indexed, checkpoint>>
history == <<missed, raced, due, failures>>
vars == <<nodeVars, trackerVars, streamVars, pc, batchVars, dbVars, history>>

Init ==
    /\ imported = {Genesis}
    /\ best = Genesis
    /\ news = <<>>
    /\ checked = NoBlock
    /\ tip = Genesis
    /\ msg = NoMessage
    /\ stream = <<>>
    /\ lagged = FALSE
    /\ pc = "recv"
    /\ next = 1 /\ to = 0
    /\ fetched = {}
    /\ finished = {}
    /\ indexed = {}
    /\ checkpoint = 0
    /\ missed = {}
    /\ raced = {}
    /\ due = 0
    /\ failures = 0

Heights(S) == {Number[b] : b \in S}
-----------------------------------------------------------------------------
(***************************************************************************)
(* The node and, once its cache is loaded, the tracker (BlockTracker has   *)
(* the detail): announced blocks are looked at in order, those canonical   *)
(* when looked at move the tip.                                            *)
(***************************************************************************)
NodeImport(b, isBest) ==
    /\ b \notin imported
    /\ Parent[b] \in imported
    /\ imported' = imported \union {b}
    /\ best' = IF isBest THEN b ELSE best
    /\ news' = Append(news, b)
    /\ UNCHANGED <<checked, tip, msg, streamVars, pc, batchVars, dbVars, history>>

TrackerCheck ==
    /\ checked = NoBlock
    /\ news # <<>>
    /\ news' = Tail(news)
    /\ checked' = IF Head(news) \in Chain[best] THEN Head(news) ELSE NoBlock
    /\ UNCHANGED <<nodeVars, tip, msg, streamVars, pc, batchVars, dbVars, history>>

\* The heights up to which the processor will have set its checkpoint once it
\* has done what it is doing: a later message does not go below them unless it
\* enacts a block there.
Reach == IF pc = "work" /\ to > checkpoint THEN to ELSE checkpoint

\* The broadcast channel: a message for a full channel overwrites the oldest,
\* and the receiver is told so once.  A message nobody listens to is lost.
TrackerPublish ==
    /\ checked # NoBlock
    /\ checked' = NoBlock
    /\ \/ /\ Enacted(tip, checked) = {}
          /\ UNCHANGED <<tip, msg, streamVars, missed, due>>
       \/ /\ Enacted(tip, checked) # {}
          /\ tip' = checked
          /\ msg' = BlocksExt(tip, checked)
          /\ due' = Number[checked]
          /\ IF Len(stream) = Capacity
             THEN /\ stream' = Append(Tail(stream), msg')
                  /\ lagged' = TRUE
                  /\ missed' = missed \union
                        {b \in Head(stream).blocks : Number[b] <= Reach}
             ELSE /\ stream' = Append(stream, msg')
                  /\ UNCHANGED <<lagged, missed>>
    /\ UNCHANGED <<nodeVars, news, pc, batchVars, dbVars, raced, failures>>

\* The tracker lost its connection and loaded its cache again: the tip moves
\* to the best block without a message.
TrackerReload ==
    /\ failures < MaxFailures
    /\ failures' = failures + 1
    /\ tip' = best /\ UNCHANGED msg
    /\ missed' = missed \union Enacted(tip, best)
    /\ news' = <<>>
    /\ checked' = NoBlock
    /\ UNCHANGED <<nodeVars, streamVars, pc, batchVars, dbVars, raced, due>>
-----------------------------------------------------------------------------
\* `stream.recv()` returns `Lagged`, which is passed over.
RecvLagged ==
    /\ pc = "recv"
    /\ lagged
    /\ lagged' = FALSE
    /\ UNCHANGED <<nodeVars, trackerVars, stream, pc, batchVars, dbVars, history>>

\* Mutant: every message is continued from the checkpoint.
BatchStartIgnoringReorg(blocks, last) == last + 1

\* Mutant: the boundary is crossed the wrong way.
BatchStartBefore(blocks, last) == last - 1

\* Mutant: a batch starts at the lowest block of the message.
BatchStartAtMessage(blocks, last) == Min(Heights(blocks))

\* The first height of a message's batch: one block continues from the last
\* processed one, several also go back to the lowest of them.
BatchStart(blocks, last) ==
    IF Cardinality(blocks) = 1
    THEN last + 1
    ELSE Min({Min(Heights(blocks)), last + 1})

\* A message is received and the last processed block is read; when that read
\* fails the loop goes on with 0.
RecvMessage(last) ==
    /\ pc = "recv"
    /\ ~lagged
    /\ stream # <<>>
    /\ \/ last = checkpoint /\ UNCHANGED failures
       \/ last = 0 /\ failures < MaxFailures /\ failures' = failures + 1
    /\ stream' = Tail(stream)
    /\ LET blocks == Head(stream).blocks
           from == BatchStart(blocks, last)
           until == Max(Heights(blocks))
       IN  IF from > until
           THEN /\ missed' = missed \union blocks
                /\ UNCHANGED <<pc, batchVars>>
           ELSE /\ pc' = "work"
                /\ next' = from
                /\ to' = until
                /\ fetched' = {}
                /\ finished' = {}
                /\ UNCHANGED missed
    /\ UNCHANGED <<nodeVars, trackerVars, lagged, dbVars, raced, due>>

\* The heights `buffered` polls: from the one awaited, no more than Parallel.
InFlight == {h \in next .. to : h < next + Parallel}

Exit == pc' = "exited"

\* What a process that exits here leaves behind: the batch and the messages it
\* had, as far as they lie below the checkpoint it will start from.
CutShort ==
    LET blocks == UNION {stream[i].blocks : i \in 1 .. Len(stream)}
        heights == {h \in next .. to : pc = "work" /\ h \notin finished}
    IN  {b \in imported : b \in blocks \/ Number[b] \in heights}

\* `block_ext_at_number` of a height in flight: whichever block is canonical
\* there by now; none is an error, which ends the process.
FetchBlock(h) ==
    /\ pc = "work"
    /\ h \in InFlight \ (finished \union Heights(fetched))
    /\ \/ /\ AtHeight(best, h) = {}
          /\ Exit
          /\ missed' = missed \union CutShort
          /\ UNCHANGED <<fetched, raced>>
       \/ /\ AtHeight(best, h) # {}
          /\ fetched' = fetched \union AtHeight(best, h)
          /\ raced' = IF AtHeight(best, h) \subseteq Chain[tip]
                      THEN raced \ {h} ELSE raced \union {h}
          /\ UNCHANGED <<pc, missed>>
    /\ UNCHANGED <<nodeVars, trackerVars, streamVars, next, to, finished, dbVars,
                   due, failures>>

\* Its events are in the database: the block replaces what was indexed at its
\* height.
StoreBlock(b) ==
    /\ pc = "work"
    /\ b \in fetched
    /\ fetched' = fetched \ {b}
    /\ finished' = finished \union {Number[b]}
    /\ indexed' = {x \in indexed : Number[x] # Number[b]} \union {b}
    /\ UNCHANGED <<nodeVars, trackerVars, streamVars, pc, next, to, checkpoint,
                   history>>

\* `s.try_next()` yields the next height in order; every CheckpointEvery-th is
\* saved as the last processed block.
YieldBlock ==
    /\ pc = "work"
    /\ next \in finished
    /\ next' = next + 1
    /\ checkpoint' = IF next % CheckpointEvery = 0 THEN next ELSE checkpoint
    /\ UNCHANGED <<nodeVars, trackerVars, streamVars, pc, to, fetched, finished,
                   indexed, history>>

\* Mutant: the final save is left to the periodic ones.
FinishBatchUnsaved ==
    /\ pc = "work"
    /\ next > to
    /\ pc' = "recv"
    /\ UNCHANGED <<nodeVars, trackerVars, streamVars, batchVars, dbVars, history>>

\* The stream of results is drained: the end of the batch is saved.
FinishBatch ==
    /\ pc = "work"
    /\ next > to
    /\ checkpoint' = to
    /\ pc' = "recv"
    /\ UNCHANGED <<nodeVars, trackerVars, streamVars, batchVars, indexed, history>>
-----------------------------------------------------------------------------
\* An await of this or of another task of the indexer fails: the first task
\* that ends ends the process.
Crash ==
    /\ failures < MaxFailures
    /\ failures' = failures + 1
    /\ pc # "exited"
    /\ Exit
    /\ missed' = missed \union CutShort
    /\ UNCHANGED <<nodeVars, trackerVars, streamVars, batchVars, dbVars, raced,
                   due>>

\* The container is restarted: only the database is left, the tracker loads
\* its cache at the best block.
Restart ==
    /\ pc = "exited"
    /\ pc' = "recv"
    /\ tip' = best /\ UNCHANGED msg
    /\ missed' = missed \union Enacted(tip, best)
    /\ news' = <<>>
    /\ checked' = NoBlock
    /\ stream' = <<>>
    /\ lagged' = FALSE
    /\ due' = 0
    /\ UNCHANGED <<nodeVars, batchVars, dbVars, raced, failures>>

EnvironmentStep ==
    \/ \E b \in Block, isBest \in BOOLEAN : NodeImport(b, isBest)
    \/ pc # "exited" /\ (TrackerCheck \/ TrackerPublish \/ TrackerReload)

ProcessorStep ==
    \/ RecvLagged
    \/ \E last \in {checkpoint, 0} : RecvMessage(last)
    \/ \E h \in InFlight : FetchBlock(h)
    \/ \E b \in fetched : StoreBlock(b)
    \/ YieldBlock
    \/ FinishBatch
    \/ Restart

Next == EnvironmentStep \/ ProcessorStep \/ Crash

Spec == Init /\ [][Next]_vars

\* The processor's task is polled, and the node and the database answer.
FairSpec == Spec /\ WF_vars(ProcessorStep)
-----------------------------------------------------------------------------
MessageType ==
    [blocks : (SUBSET Block) \ {{}}, best : Block, reorgEnacted : SUBSET Block,
     retracted : SUBSET Block, common : SUBSET Block]

TypeOK ==
    /\ imported \subseteq Block /\ best \in imported
    /\ news \in Seq(imported)
    /\ checked \in imported \union {NoBlock}
    /\ tip \in imported
    /\ stream \in Seq(MessageType) /\ Len(stream) <= Capacity
    /\ lagged \in BOOLEAN
    /\ pc \in {"recv", "work", "exited"}
    /\ next \in Nat /\ to \in Nat /\ checkpoint \in Nat
    /\ fetched \subseteq imported
    /\ indexed \subseteq imported
    /\ finished \subseteq Nat
    /\ failures \in 0 .. MaxFailures

(***************************************************************************)
(* CheckpointComplete: every height up to the last processed block has     *)
(* been indexed, whatever order the blocks of a batch complete in, however *)
(* often the processor lags, reads no checkpoint or dies halfway.          *)
(***************************************************************************)
CheckpointComplete == 1 .. checkpoint \subseteq Heights(indexed)

Quiet ==
    /\ pc = "recv" /\ stream = <<>> /\ ~lagged
    /\ news = <<>> /\ checked = NoBlock /\ tip = best

\* The canonical blocks the index should hold by its own account.
Owed == {b \in Chain[best] : Number[b] \in 1 .. checkpoint}

(***************************************************************************)
(* StaleOnlyIfMissed: with nothing left to do, the index holds the         *)
(* canonical block at every height up to the checkpoint, except for blocks *)
(* whose message was overwritten, skipped (a one-block reorg), cut short   *)
(* by an exit or replaced by a reload, and heights read from a branch that *)
(* was canonical only in between.                                          *)
(***************************************************************************)
StaleOnlyIfMissed ==
    Quiet => \A b \in Owed : b \in indexed \union missed \/ Number[b] \in raced

(***************************************************************************)
(* KeepsUp: once the node stops importing and failing, the checkpoint      *)
(* stays at or above the last block this process was told of.              *)
(***************************************************************************)
KeepsUp == <>[](checkpoint >= due)

(***************************************************************************)
(* ReorgOverwrites: "re-org should overwrite", as the test of the epoch    *)
(* share prices says: with nothing left to do the index holds the          *)
(* canonical block at every height up to the checkpoint.                   *)
(***************************************************************************)
ReorgOverwrites == Quiet => Owed \subseteq indexed
=============================================================================
