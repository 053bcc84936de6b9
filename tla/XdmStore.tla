------------------------------ MODULE XdmStore ------------------------------
(***************************************************************************)
(* Cross-domain transfers: the processors of several chains                *)
(* (indexer/src/xdm.rs), one process, merge what they see of a transfer    *)
(* into one row of `indexer.xdm_transfers` (indexer/src/storage.rs): its   *)
(* initiation and acknowledgement come from the source chain, its          *)
(* execution from the destination chain.  Each event is one statement.     *)
(*                                                                         *)
(* The chains are constants, one branch each.  A block's hash and time are *)
(* determined by its height.  The events of a domain are read from         *)
(* segments of its storage, which outlive the block that wrote them.       *)
(***************************************************************************)
EXTENDS Integers, SeqOps, SequencesExt

CONSTANTS
    Chains,
    Parties,            \* accounts
    Events,             \* Events[c][h]: the events of block h of chain c
    Segmented,          \* the chains whose events are stored in segments
    SegmentSize,        \* EventSegmentSize
    CheckpointEvery,    \* CHECKPOINT_PROCESSED_BLOCK
    Parallel,           \* process_blocks_in_parallel
    MaxFailures,        \* bound: crashes
    MaxRewinds          \* bound: batches that start below the checkpoint

Kinds == {"initiated", "incoming", "successful", "failed", "other"}
Top(c) == Len(Events[c])

\* An event and the chain at the other end of its message.  `parties` stands
\* for the sender and the receiver.
Event == [kind : Kinds, chain : Chains, nonce : Nat, amount : Nat \ {0},
          parties : SUBSET Parties]

ASSUME XdmAssumption ==
    /\ Events \in [Chains -> Seq(Seq(Event))]
    /\ Segmented \subseteq Chains
    /\ SegmentSize \in Nat \ {0}
    /\ CheckpointEvery \in Nat \ {0}
    /\ Parallel \in Nat \ {0}
    /\ MaxFailures \in Nat /\ MaxRewinds \in Nat

VARIABLES
    working,    \* per chain: its processor is in a batch
    next,       \* per chain: the height whose result the loop awaits next
    to,         \* per chain: the last height of the batch
    todo,       \* per chain and height in flight: the events still to store
    checkpoint, \* database, per chain: the last processed block, 0 for none
    rows,       \* database: `xdm_transfers` by primary key
    failures, rewinds

procVars == <<working, next, to, todo>>
vars == <<procVars, checkpoint, rows, failures, rewinds>>
-----------------------------------------------------------------------------
UpTo(s, n) == SubSeq(s, 1, IF n < Len(s) THEN n ELSE Len(s))

\* The storage of chain c at block h: a segment holds the events of the last
\* block that reached it.
Segment(c, h, i) ==
    LET first == i * SegmentSize
        writers == {g \in 1 .. h : Len(Events[c][g]) > first}
    IN  IF writers = {} THEN <<>>
        ELSE LET es == Events[c][Max(writers)]
             IN  UpTo(SubSeq(es, first + 1, Len(es)), SegmentSize)

Segments(c, h, last) ==
    LET total_events[n \in 0 .. last + 1] ==
            IF n = 0 THEN <<>> ELSE total_events[n - 1] \o Segment(c, h, n - 1)
    IN  total_events[last + 1]

\* Mutant: without `total_events.truncate(event_count)`.
events_from_all_segments(c, h) ==
    Segments(c, h, Len(Events[c][h]) \div SegmentSize)

\* When the last segment is full, the one after it is read as well.
events_from_segments(c, h) ==
    LET event_count == Len(Events[c][h])
    IN  UpTo(Segments(c, h, event_count \div SegmentSize), event_count)

\* `extract_xdm_events_for_block`: one kind of event after the other.
Extracted(c, h) ==
    LET block_events ==
            IF c \in Segmented THEN events_from_segments(c, h) ELSE Events[c][h]
        OfKind(kind) == Among(block_events, {e \in Event : e.kind = kind})
    IN  OfKind("failed") \o OfKind("successful")
            \o OfKind("incoming") \o OfKind("initiated")

\* Source, destination and message of the transfer an event on c is about.
Key(c, e) ==
    IF e.kind = "incoming" THEN <<e.chain, c, e.nonce>> ELSE <<c, e.chain, e.nonce>>

\* What the messages between the chains guarantee (external): a transfer is
\* initiated, executed and acknowledged at most once, moves one amount, and
\* is acknowledged as failed only if it was not executed.
Phase(e) == IF e.kind \in {"successful", "failed"} THEN "acknowledged" ELSE e.kind

ASSUME MessageAssumption ==
    \A c, d \in Chains : \A g \in 1 .. Top(c), h \in 1 .. Top(d) :
        \A i \in DOMAIN Events[c][g], j \in DOMAIN Events[d][h] :
            LET e == Events[c][g][i]
                f == Events[d][h][j]
            IN  e.kind # "other" /\ f.kind # "other" /\ Key(c, e) = Key(d, f) =>
                    /\ Phase(e) = Phase(f) => e = f /\ g = h
                    /\ e.kind = "initiated" /\ f.kind = "incoming" => e.amount = f.amount
                    /\ e.kind = "incoming" => f.kind # "failed"

\* The columns an event sets, 0 or "null" for NULL.
NullRow == [initiated |-> 0, executed |-> 0, acknowledged |-> 0, amount |-> 0,
            parties |-> {}, transfer_successful |-> "null"]

store_outgoing_transfer_initiated(row, h, e) ==
    [row EXCEPT !.initiated = h, !.amount = e.amount, !.parties = e.parties]

\* Mutant: the insert's values replace the row.
store_incoming_replacing(row, h, e) ==
    [NullRow EXCEPT !.executed = h, !.amount = e.amount,
                    !.transfer_successful = "true"]

store_incoming_transfer_execution(row, h, e) ==
    [row EXCEPT !.executed = h, !.amount = e.amount,
                !.transfer_successful = "true"]

store_outgoing_transfer_acknowledgement(row, h, e) ==
    [row EXCEPT !.acknowledged = h,
                !.transfer_successful =
                    IF e.kind = "successful" THEN "true" ELSE "false"]

Merge(row, h, e) ==
    CASE e.kind = "initiated" -> store_outgoing_transfer_initiated(row, h, e)
      [] e.kind = "incoming"  -> store_incoming_transfer_execution(row, h, e)
      [] OTHER                -> store_outgoing_transfer_acknowledgement(row, h, e)

\* `insert ... on conflict do update`.
Upsert(c, h, e) ==
    LET k == Key(c, e)
        old == IF k \in DOMAIN rows THEN rows[k] ELSE NullRow
    IN  [x \in DOMAIN rows \union {k} |->
            IF x = k THEN Merge(old, h, e) ELSE rows[x]]
-----------------------------------------------------------------------------
Nothing == [h \in {} |-> <<>>]

Init ==
    /\ working = [c \in Chains |-> FALSE]
    /\ next = [c \in Chains |-> 1]
    /\ to = [c \in Chains |-> 0]
    /\ todo = [c \in Chains |-> Nothing]
    /\ checkpoint = [c \in Chains |-> 0]
    /\ rows = [k \in {} |-> NullRow]
    /\ failures = 0 /\ rewinds = 0

\* A batch of `run_processor`, from above the checkpoint or, after a message
\* of several blocks or a checkpoint that could not be read, from below it.
StartBatch(c, from, until) ==
    /\ ~working[c]
    /\ from <= until /\ checkpoint[c] <= until
    /\ \/ from = checkpoint[c] + 1 /\ UNCHANGED rewinds
       \/ /\ from <= checkpoint[c]
          /\ rewinds < MaxRewinds
          /\ rewinds' = rewinds + 1
    /\ working' = [working EXCEPT ![c] = TRUE]
    /\ next' = [next EXCEPT ![c] = from]
    /\ to' = [to EXCEPT ![c] = until]
    /\ UNCHANGED <<todo, checkpoint, rows, failures>>

\* Mutant: all blocks of the batch at once.
StartBlockUnbuffered(c, h) ==
    /\ working[c]
    /\ h \in next[c] .. to[c]
    /\ h \notin DOMAIN todo[c]
    /\ todo' = [todo EXCEPT ![c] =
                    [g \in DOMAIN @ \union {h} |->
                        IF g = h THEN Extracted(c, h) ELSE todo[c][g]]]
    /\ UNCHANGED <<working, next, to, checkpoint, rows, failures, rewinds>>

StartBlock(c, h) ==
    /\ working[c]
    /\ h \in next[c] .. to[c] /\ h < next[c] + Parallel
    /\ h \notin DOMAIN todo[c]
    /\ todo' = [todo EXCEPT ![c] =
                    [g \in DOMAIN @ \union {h} |->
                        IF g = h THEN Extracted(c, h) ELSE todo[c][g]]]
    /\ UNCHANGED <<working, next, to, checkpoint, rows, failures, rewinds>>

\* The next statement of `store_events`.
StoreEvent(c, h) ==
    /\ h \in DOMAIN todo[c]
    /\ todo[c][h] # <<>>
    /\ rows' = Upsert(c, h, Head(todo[c][h]))
    /\ todo' = [todo EXCEPT ![c][h] = Tail(@)]
    /\ UNCHANGED <<working, next, to, checkpoint, failures, rewinds>>

\* Mutant: the checkpoint is saved when the block is reached.
YieldBlockUnawaited(c) ==
    /\ working[c]
    /\ next[c] \in DOMAIN todo[c]
    /\ next' = [next EXCEPT ![c] = @ + 1]
    /\ todo' = [todo EXCEPT ![c] = [g \in DOMAIN @ \ {next[c]} |-> todo[c][g]]]
    /\ checkpoint' = IF next[c] % CheckpointEvery = 0
                     THEN [checkpoint EXCEPT ![c] = next[c]] ELSE checkpoint
    /\ UNCHANGED <<working, to, rows, failures, rewinds>>

YieldBlock(c) ==
    /\ working[c]
    /\ next[c] \in DOMAIN todo[c]
    /\ todo[c][next[c]] = <<>>
    /\ next' = [next EXCEPT ![c] = @ + 1]
    /\ todo' = [todo EXCEPT ![c] = [g \in DOMAIN @ \ {next[c]} |-> todo[c][g]]]
    /\ checkpoint' = IF next[c] % CheckpointEvery = 0
                     THEN [checkpoint EXCEPT ![c] = next[c]] ELSE checkpoint
    /\ UNCHANGED <<working, to, rows, failures, rewinds>>

FinishBatch(c) ==
    /\ working[c]
    /\ next[c] > to[c]
    /\ checkpoint' = [checkpoint EXCEPT ![c] = to[c]]
    /\ working' = [working EXCEPT ![c] = FALSE]
    /\ UNCHANGED <<next, to, todo, rows, failures, rewinds>>

\* The process ends at any await, for all chains, and is started again.
Crash ==
    /\ failures < MaxFailures
    /\ failures' = failures + 1
    /\ working' = [c \in Chains |-> FALSE]
    /\ todo' = [c \in Chains |-> Nothing]
    /\ UNCHANGED <<next, to, checkpoint, rows, rewinds>>

Next ==
    \/ \E c \in Chains :
          \/ \E from, until \in 1 .. Top(c) : StartBatch(c, from, until)
          \/ \E h \in 1 .. Top(c) : StartBlock(c, h) \/ StoreEvent(c, h)
          \/ YieldBlock(c)
          \/ FinishBatch(c)
    \/ Crash

Spec == Init /\ [][Next]_vars
-----------------------------------------------------------------------------
TypeOK ==
    /\ working \in [Chains -> BOOLEAN]
    /\ next \in [Chains -> Nat \ {0}] /\ to \in [Chains -> Nat]
    /\ \A c \in Chains :
          /\ to[c] <= Top(c) /\ checkpoint[c] <= Top(c)
          /\ DOMAIN todo[c] \subseteq next[c] .. to[c]
          /\ \A h \in DOMAIN todo[c] : h < next[c] + Parallel
    /\ checkpoint \in [Chains -> Nat]
    /\ DOMAIN rows \subseteq Chains \X Chains \X Nat
    /\ \A k \in DOMAIN rows :
          rows[k] \in [initiated : Nat, executed : Nat, acknowledged : Nat,
                       amount : Nat, parties : SUBSET Parties,
                       transfer_successful : {"null", "true", "false"}]
    /\ failures \in 0 .. MaxFailures /\ rewinds \in 0 .. MaxRewinds

\* What an event on chain c at height h leaves behind, in its own columns.
Stored(c, h, e) ==
    /\ Key(c, e) \in DOMAIN rows
    /\ LET row == rows[Key(c, e)] IN
       CASE e.kind = "initiated"  -> /\ row.initiated = h /\ row.amount = e.amount
                                     /\ row.parties = e.parties
         [] e.kind = "incoming"   -> /\ row.executed = h /\ row.amount = e.amount
                                     /\ row.transfer_successful = "true"
         [] e.kind = "successful" -> /\ row.acknowledged = h
                                     /\ row.transfer_successful = "true"
         [] e.kind = "failed"     -> /\ row.acknowledged = h
                                     /\ row.transfer_successful = "false"

(***************************************************************************)
(* CheckpointCovers: every event up to a chain's checkpoint is in its row, *)
(* with its own block, amount and outcome, although the other chain's      *)
(* processor writes the same row at any time and although the process may  *)
(* have ended between any two statements.                                  *)
(***************************************************************************)
CheckpointCovers ==
    \A c \in Chains : \A h \in 1 .. checkpoint[c] :
        \A i \in DOMAIN Events[c][h] :
            Events[c][h][i].kind # "other" => Stored(c, h, Events[c][h][i])

(***************************************************************************)
(* NothingInvented: a row tells nothing but what some chain's events say:  *)
(* each column that is set comes from an event of the transfer on the      *)
(* right side of it, and the outcome from an execution or acknowledgement. *)
(***************************************************************************)
From(k, c, h, kinds) ==
    \E i \in DOMAIN Events[c][h] :
        Events[c][h][i].kind \in kinds /\ Key(c, Events[c][h][i]) = k

NothingInvented ==
    \A k \in DOMAIN rows :
        LET row == rows[k] IN
        /\ row.initiated # 0 => From(k, k[1], row.initiated, {"initiated"})
        /\ row.executed # 0 => From(k, k[2], row.executed, {"incoming"})
        /\ row.acknowledged # 0 =>
              From(k, k[1], row.acknowledged,
                   IF row.transfer_successful = "true"
                   THEN {"successful"} ELSE {"failed"})
        /\ row.transfer_successful # "null" =>
              row.executed # 0 \/ row.acknowledged # 0

(***************************************************************************)
(* NothingUnsaid: no statement takes back what a row already tells, be it  *)
(* of the other chain, of an older block or of a block processed again.    *)
(***************************************************************************)
NothingUnsaid ==
    [][\A k \in DOMAIN rows :
          /\ k \in DOMAIN rows'
          /\ \A column \in DOMAIN rows[k] :
                \/ rows[k][column] = NullRow[column]
                \/ rows'[k][column] = rows[k][column]]_vars
=============================================================================
