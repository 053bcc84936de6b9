---------------------------- MODULE StakingStore ----------------------------
(***************************************************************************)
(* The staking processor: the SQL statements `index_staking_for_block`     *)
(* (indexer/src/staking.rs) issues for a block, and what the functions of  *)
(* indexer/src/storage.rs make of them, while `run_processor` works on     *)
(* several blocks at once, crashes and processes blocks again.  Between    *)
(* two statements anything may happen.  A statement is atomic but for the  *)
(* count of nominators: at READ COMMITTED its sub-select keeps the         *)
(* snapshot of the statement's start, and the row is written later.        *)
(*                                                                         *)
(* The chain is a constant, one branch, given by the events of each block. *)
(* Amounts are left out but for the storage fee, which the code has to     *)
(* pair with a nomination; a stake or share price is the block it was read *)
(* at.                                                                     *)
(***************************************************************************)
EXTENDS SeqOps, SequencesExt

CONSTANTS
    Operators, Addresses,
    Events,             \* Events[h]: the events of block h in chain order
    CheckpointEvery,    \* CHECKPOINT_PROCESSED_BLOCK
    Parallel,           \* process_blocks_in_parallel
    MaxFailures,        \* bound: crashes and failed storage reads
    MaxRewinds          \* bound: batches that start below the checkpoint

Top == Len(Events)
Height == 1 .. Top

\* The events that change an operator's status, and the status they give it.
StatusKinds == {"registered", "deregistered", "slashed", "deactivated", "reactivated"}
StatusOf(kind) == IF kind = "reactivated" THEN "registered" ELSE kind

\* The changes of status the code has no event for; it meets them in what it reads.
SilentKinds == {"pending_slash", "invalid_bundle"}

\* The events that make a nominator, or may end it.
TouchKinds == {"registered", "nominated", "nominatorUnlocked", "stakedUnlocked"}

\* `ops` are, when an epoch ends, the domain's current operators that have a
\* share price for it; one that has just registered has none.
ChainEvent ==
    [kind : StatusKinds \union SilentKinds \union TouchKinds \union {"fee", "withdrew", "epoch"},
     op : Operators, addr : Addresses, n : Nat, ops : SUBSET Operators]

ASSUME StakingAssumption ==
    /\ IsFiniteSet(Operators) /\ IsFiniteSet(Addresses)
    /\ Events \in Seq(Seq(ChainEvent))
    /\ CheckpointEvery \in Nat \ {0}
    /\ Parallel \in Nat \ {0}
    /\ MaxFailures \in Nat /\ MaxRewinds \in Nat

VARIABLES
    pc,         \* the processor: "idle" or "work"
    next,       \* the height whose result the loop awaits next
    to,         \* the last height of the batch
    todo,       \* per height in flight, the statements still to issue
    counted,    \* per height whose count has its snapshot, the number it found
    db,         \* the tables
    checkpoint, \* database: the last processed block, 0 for none
    top,        \* history: the highest block of any batch
    torn,       \* history: processed heights whose rewrite was cut short
    owed,       \* history: processed heights a rewind that was cut short
                \*          had still to rewrite
    degraded,   \* history: a storage read failed and was passed over
    overtaken,  \* history: operators whose nominators changed between a
                \*          count's snapshot and its write
    failures, rewinds

batchVars == <<pc, next, to, todo>>
counting == <<counted, overtaken>>
history == <<top, torn, owed, degraded, failures, rewinds>>
vars == <<batchVars, counting, db, checkpoint, history>>
-----------------------------------------------------------------------------
(***************************************************************************)
(* The chain's own state, which `read_storage` reads at a block.           *)
(***************************************************************************)
\* The events up to block h, each known by its block and its place there.
Places(h) == UNION {{g} \X DOMAIN Events[g] : g \in 1 .. h}
EventAt(p) == Events[p[1]][p[2]]

\* The last of some places.
NotBefore(p, q) == p[1] > q[1] \/ (p[1] = q[1] /\ p[2] >= q[2])
Latest(S) == CHOOSE p \in S : \A q \in S : NotBefore(p, q)

Changes(o, h) ==
    {p \in Places(h) : EventAt(p).op = o /\ EventAt(p).kind \in StatusKinds \union SilentKinds}

OperatorAt(o, h) ==
    LET S == Changes(o, h) IN
    IF S = {} THEN "none" ELSE StatusOf(EventAt(Latest(S)).kind)

Touches(o, a, h) ==
    {p \in Places(h) : /\ EventAt(p).op = o /\ EventAt(p).addr = a
                       /\ EventAt(p).kind \in TouchKinds}

\* A nominator is out after NominatorUnlocked, and after
\* NominatedStakedUnlocked if that emptied its deposit (n = 0).
Leaves(e) == e.kind = "nominatorUnlocked" \/ (e.kind = "stakedUnlocked" /\ e.n = 0)

NominatorAt(o, a, h) ==
    LET S == Touches(o, a, h) IN
    IF S = {} THEN "none"
    ELSE IF Leaves(EventAt(Latest(S))) THEN "withdrawn" ELSE "active"

\* The i-th event of block h is a nomination with its storage fee in front.
Nomination(h, i) == Events[h][i].kind = "nominated"
SameNominator(e, f) == e.op = f.op /\ e.addr = f.addr
FeeInFront(h, i) ==
    /\ i > 1 /\ Events[h][i - 1].kind = "fee"
    /\ SameNominator(Events[h][i - 1], Events[h][i])

(***************************************************************************)
(* What the code takes for granted of the chain: an operator is registered *)
(* before anything else becomes of it, a share price included; after       *)
(* NominatorUnlocked "the nominator is unconditionally removed"; an epoch  *)
(* of a domain ends once.                                                  *)
(***************************************************************************)
ASSUME ChainAssumption ==
    /\ \A h \in Height, o \in Operators : Changes(o, h) # {} =>
          \E p \in Changes(o, h) : EventAt(p).kind = "registered"
    /\ \A h \in Height : \A i \in DOMAIN Events[h] : \A o \in Events[h][i].ops :
          Changes(o, h) # {}
    /\ \A h \in Height : \A i \in DOMAIN Events[h] :
          Events[h][i].kind = "nominatorUnlocked" =>
              NominatorAt(Events[h][i].op, Events[h][i].addr, h) = "withdrawn"
    /\ \A p, q \in Places(Top) :
          /\ EventAt(p).kind = "epoch" /\ EventAt(q).kind = "epoch"
          /\ EventAt(p).n = EventAt(q).n
          => p[1] = q[1]

-----------------------------------------------------------------------------
(***************************************************************************)
(* The statements of storage.rs.                                           *)
(***************************************************************************)
\* INSERT ... ON CONFLICT DO UPDATE: the row of a key, new or in place of the old.
Put(table, key, row) ==
    [k \in DOMAIN table \union {key} |-> IF k = key THEN row ELSE table[k]]

upsert_operator(d, o, h) ==
    [d EXCEPT !.operators =
        Put(@, o, [status |-> OperatorAt(o, h), stake |-> h,
                   nominator_count |-> IF o \in DOMAIN @ THEN @[o].nominator_count ELSE 0])]

\* Mutant: `AND status = 'registered'` in the WHERE clause.
update_operator_status_of_registered(d, o, s) ==
    IF o \in DOMAIN d.operators /\ d.operators[o].status = "registered"
    THEN [d EXCEPT !.operators[o].status = s] ELSE d

update_operator_status(d, o, s) ==
    IF o \in DOMAIN d.operators
    THEN [d EXCEPT !.operators[o].status = s] ELSE d

update_operator_stats(d, o, h) ==
    IF o \in DOMAIN d.operators
    THEN [d EXCEPT !.operators[o].status = OperatorAt(o, h),
                   !.operators[o].stake = h]
    ELSE d

upsert_epoch_share_price(d, o, epoch, h) ==
    [d EXCEPT !.prices = Put(@, <<o, epoch>>, h)]

\* Mutant: without the guard on the height.
upsert_nominator_unguarded(d, o, a, s, h) ==
    [d EXCEPT !.nominators = Put(@, <<o, a>>, [status |-> s, height |-> h])]

\* The first statement of `upsert_nominator`, guarded by the height.
upsert_nominator(d, o, a, s, h) ==
    IF <<o, a>> \in DOMAIN d.nominators /\ d.nominators[<<o, a>>].height > h
    THEN d
    ELSE [d EXCEPT !.nominators = Put(@, <<o, a>>, [status |-> s, height |-> h])]

Active(d, o) ==
    {k \in DOMAIN d.nominators : k[1] = o /\ d.nominators[k].status = "active"}

\* The write of its second statement, n being what the sub-select counted.
count_nominators(d, o, n) ==
    IF o \in DOMAIN d.operators
    THEN [d EXCEPT !.operators[o].nominator_count = n]
    ELSE d

delete_deposits_for_block_none(d, h) == d   \* mutant

delete_deposits_for_block(d, h) == [d EXCEPT !.deposits[h] = <<>>]
delete_withdrawals_for_block(d, h) == [d EXCEPT !.withdrawals[h] = <<>>]

insert_deposit(d, o, a, fee, h) ==
    [d EXCEPT !.deposits[h] = Append(@, [op |-> o, addr |-> a, fee |-> fee])]

insert_withdrawal(d, o, a, known, h) ==
    [d EXCEPT !.withdrawals[h] = Append(@, [op |-> o, addr |-> a, known |-> known])]

Apply(d, h, st) ==
    CASE st.do = "delete deposits"    -> delete_deposits_for_block(d, h)
      [] st.do = "delete withdrawals" -> delete_withdrawals_for_block(d, h)
      [] st.do = "operator"           -> upsert_operator(d, st.op, h)
      [] st.do = "status"             -> update_operator_status(d, st.op, st.status)
      [] st.do = "nominator"          -> upsert_nominator(d, st.op, st.addr, st.status, h)
      [] st.do = "count"              -> count_nominators(d, st.op, counted[h])
      [] st.do = "deposit"            -> insert_deposit(d, st.op, st.addr, st.fee, h)
      [] st.do = "withdrawal"         -> insert_withdrawal(d, st.op, st.addr, st.known, h)
      [] st.do = "price"              -> upsert_epoch_share_price(d, st.op, st.epoch, h)
      [] st.do = "stats"              -> update_operator_stats(d, st.op, h)
-----------------------------------------------------------------------------
(***************************************************************************)
(* `index_staking_for_block`: the statements of a block, one kind of event *)
(* after the other.  A read of the chain's state is a step; `failed` is    *)
(* what the code goes on with when that read fails.                        *)
(***************************************************************************)
Read(ok, failed) == [do |-> "read", ok |-> ok, failed |-> failed]

\* Mutant: the count is taken before the row is written.
NominatorCountFirst(o, a, s) ==
    <<[do |-> "count", op |-> o],
      [do |-> "nominator", op |-> o, addr |-> a, status |-> s]>>

\* `Db::upsert_nominator`, two statements.
Nominator(o, a, s) ==
    <<[do |-> "nominator", op |-> o, addr |-> a, status |-> s],
      [do |-> "count", op |-> o]>>

Register(e) ==
    <<Read(<<[do |-> "operator", op |-> e.op]>> \o Nominator(e.op, e.addr, "active"),
           <<>>)>>

SetStatus(e) == <<[do |-> "status", op |-> e.op, status |-> StatusOf(e.kind)]>>

Withdraw(e) ==
    LET Row(known) == [do |-> "withdrawal", op |-> e.op, addr |-> e.addr,
                       known |-> known]
    IN  <<Read(<<Row(TRUE)>>, <<Row(FALSE)>>)>>

\* The storage fees of a block wait in one queue per operator and nominator.
FeesOf(h, e) ==
    {i \in DOMAIN Events[h] : Events[h][i].kind = "fee" /\ SameNominator(Events[h][i], e)}

\* The fee of a nomination: each takes the first one left, if any is.
FeeOf(h, i) ==
    LET earlier == {j \in 1 .. i : Nomination(h, j) /\ SameNominator(Events[h][j], Events[h][i])}
        fees == FeesOf(h, Events[h][i])
        mine == {k \in fees : Cardinality({j \in fees : j <= k}) = Cardinality(earlier)}
    IN  IF mine = {} THEN 0 ELSE Events[h][CHOOSE k \in mine : TRUE].n

Nominate(h, i) ==
    LET e == Events[h][i] IN
    Append(Nominator(e.op, e.addr, "active"),
           [do |-> "deposit", op |-> e.op, addr |-> e.addr, fee |-> FeeOf(h, i)])

Unlock(h, e) ==
    <<Read(Nominator(e.op, e.addr, NominatorAt(e.op, e.addr, h)),
           Nominator(e.op, e.addr, "active"))>>

\* `index_epoch_share_prices`; an operator without a price is passed over.
EpochPrices(e) ==
    LET current == SetToSeq(e.ops)
    IN  [i \in 1 .. Len(current) |->
            Read(<<[do |-> "price", op |-> current[i], epoch |-> e.n],
                   [do |-> "stats", op |-> current[i]]>>, <<>>)]

\* The kinds of events in the order the code takes them up.
Order ==
    <<"registered", "deregistered", "slashed", "deactivated", "reactivated",
      "nominated", "withdrew", "nominatorUnlocked", "stakedUnlocked", "epoch">>

ForEvent(h, i) ==
    LET e == Events[h][i] IN
    CASE e.kind = "registered"                   -> Register(e)
      [] e.kind \in StatusKinds \ {"registered"} -> SetStatus(e)
      [] e.kind = "nominated"                    -> Nominate(h, i)
      [] e.kind = "withdrew"                     -> Withdraw(e)
      [] e.kind = "nominatorUnlocked"            -> Nominator(e.op, e.addr, "withdrawn")
      [] e.kind = "stakedUnlocked"               -> Unlock(h, e)
      [] e.kind = "epoch"                        -> EpochPrices(e)
      [] e.kind \in {"fee"} \union SilentKinds    -> <<>>

OfKind(h, kind) ==
    Flat([i \in DOMAIN Events[h] |->
            IF Events[h][i].kind = kind THEN ForEvent(h, i) ELSE <<>>])

Script ==
    [h \in Height |->
        <<[do |-> "delete deposits"], [do |-> "delete withdrawals"]>>
        \o Flat([k \in DOMAIN Order |-> OfKind(h, Order[k])])]
-----------------------------------------------------------------------------
Empty == [x \in {} |-> 0]

Init ==
    /\ pc = "idle" /\ next = 1 /\ to = 0 /\ todo = Empty
    /\ counted = Empty /\ overtaken = {}
    /\ db = [operators |-> Empty, nominators |-> Empty, prices |-> Empty,
             deposits |-> [h \in Height |-> <<>>],
             withdrawals |-> [h \in Height |-> <<>>]]
    /\ checkpoint = 0
    /\ top = 0 /\ torn = {} /\ owed = {} /\ degraded = FALSE /\ failures = 0 /\ rewinds = 0

\* A batch of `run_processor`: on from the checkpoint, or from below it after
\* a message of several blocks or a checkpoint that could not be read.
StartBatch(from, until) ==
    /\ pc = "idle"
    /\ from <= until /\ top <= until
    /\ \/ from = checkpoint + 1 /\ UNCHANGED rewinds
       \/ from \in 1 .. checkpoint /\ rewinds < MaxRewinds /\ rewinds' = rewinds + 1
    /\ pc' = "work"
    /\ next' = from
    /\ to' = until
    /\ top' = until
    /\ todo' = Empty
    /\ UNCHANGED <<counting, db, checkpoint, torn, owed, degraded, failures>>

\* Mutant: every block of the batch at once.
StartBlockUnbuffered(h) ==
    /\ pc = "work"
    /\ h \in next .. to
    /\ h \notin DOMAIN todo
    /\ todo' = Put(todo, h, Script[h])
    /\ UNCHANGED <<pc, next, to, counting, db, checkpoint, history>>

\* `buffered`: no more than Parallel blocks from the one awaited on.
StartBlock(h) ==
    /\ pc = "work"
    /\ h \in next .. to /\ h < next + Parallel
    /\ h \notin DOMAIN todo
    /\ todo' = Put(todo, h, Script[h])
    /\ UNCHANGED <<pc, next, to, counting, db, checkpoint, history>>

\* The heights that have counted the nominators of o and not yet written it.
Counting(o) == {h \in DOMAIN counted : Head(todo[h]).op = o}

\* The count's sub-select, in the snapshot of the statement's start.  Once no
\* other count of the operator is under way, an older one no longer matters.
SelectCount(h) ==
    /\ h \in DOMAIN todo
    /\ todo[h] # <<>>
    /\ Head(todo[h]).do = "count"
    /\ h \notin DOMAIN counted
    /\ LET o == Head(todo[h]).op IN
       /\ o \in DOMAIN db.operators
       /\ counted' = Put(counted, h, Cardinality(Active(db, o)))
       /\ overtaken' = IF Counting(o) = {} THEN overtaken \ {o} ELSE overtaken
    /\ UNCHANGED <<batchVars, db, checkpoint, history>>

\* A count whose snapshot has no row of the operator updates nothing.
Statement(h) ==
    /\ h \in DOMAIN todo
    /\ todo[h] # <<>>
    /\ Head(todo[h]).do # "read"
    /\ Head(todo[h]).do = "count" =>
          h \in DOMAIN counted \/ Head(todo[h]).op \notin DOMAIN db.operators
    /\ db' = Apply(db, h, Head(todo[h]))
    /\ todo' = [todo EXCEPT ![h] = Tail(@)]
    /\ counted' = [g \in DOMAIN counted \ {h} |-> counted[g]]
    /\ overtaken' = overtaken \union
          {o \in Operators : Counting(o) # {} /\ Active(db', o) # Active(db, o)}
    /\ UNCHANGED <<pc, next, to, checkpoint, history>>

ReadStorage(h) ==
    /\ h \in DOMAIN todo
    /\ todo[h] # <<>>
    /\ Head(todo[h]).do = "read"
    /\ \/ /\ todo' = [todo EXCEPT ![h] = Head(@).ok \o Tail(@)]
          /\ UNCHANGED <<degraded, failures>>
       \/ /\ failures < MaxFailures
          /\ failures' = failures + 1
          /\ degraded' = TRUE
          /\ todo' = [todo EXCEPT ![h] = Head(@).failed \o Tail(@)]
    /\ UNCHANGED <<pc, next, to, counting, db, checkpoint, top, torn, owed, rewinds>>

YieldBlock ==
    /\ pc = "work"
    /\ next \in DOMAIN todo
    /\ todo[next] = <<>>
    /\ next' = next + 1
    /\ checkpoint' = IF next % CheckpointEvery = 0 THEN next ELSE checkpoint
    /\ todo' = [h \in DOMAIN todo \ {next} |-> todo[h]]
    /\ torn' = torn \ {next} /\ owed' = owed \ {next}
    /\ UNCHANGED <<pc, to, counting, db, top, degraded, failures, rewinds>>

FinishBatch ==
    /\ pc = "work"
    /\ next > to
    /\ checkpoint' = to
    /\ pc' = "idle"
    /\ todo' = Empty
    /\ UNCHANGED <<next, to, counting, db, history>>

\* The process ends at any await and is started again; what it had written
\* stays, what it had in hand is gone.
Crash ==
    /\ failures < MaxFailures
    /\ failures' = failures + 1
    /\ pc = "work"
    /\ pc' = "idle"
    /\ todo' = Empty /\ counted' = Empty
    /\ torn' = torn \union {h \in DOMAIN todo : /\ h <= checkpoint
                                              /\ todo[h] \notin {<<>>, Script[h]}}
    /\ owed' = owed \union (next .. to \intersect 1 .. checkpoint)
    /\ UNCHANGED <<next, to, overtaken, db, checkpoint, top, degraded, rewinds>>

Next ==
    \/ \E from, until \in Height : StartBatch(from, until)
    \/ \E h \in Height :
          StartBlock(h) \/ SelectCount(h) \/ Statement(h) \/ ReadStorage(h)
    \/ YieldBlock
    \/ FinishBatch
    \/ Crash

Spec == Init /\ [][Next]_vars
-----------------------------------------------------------------------------
Settled == pc = "idle" /\ checkpoint = top

Status == {"registered", "deregistered", "slashed", "deactivated"} \union SilentKinds

TypeOK ==
    /\ pc \in {"idle", "work"}
    /\ next \in 1 .. Top + 1 /\ to \in 0 .. Top
    /\ DOMAIN todo \subseteq next .. to /\ Cardinality(DOMAIN todo) <= Parallel
    /\ DOMAIN counted \subseteq DOMAIN todo
    /\ \A h \in DOMAIN counted : counted[h] \in 0 .. Cardinality(Addresses)
    /\ overtaken \subseteq Operators
    /\ checkpoint \in 0 .. Top /\ top \in 0 .. Top
    /\ torn \subseteq Height /\ owed \subseteq Height
    /\ DOMAIN db.operators \subseteq Operators
    /\ \A o \in DOMAIN db.operators :
          db.operators[o] \in [status : Status, stake : Height,
                              nominator_count : 0 .. Cardinality(Addresses)]
    /\ DOMAIN db.nominators \subseteq Operators \X Addresses
    /\ \A k \in DOMAIN db.nominators :
          db.nominators[k] \in [status : {"active", "withdrawn"}, height : Height]
    /\ \A k \in DOMAIN db.prices : db.prices[k] \in Height
    /\ degraded \in BOOLEAN
    /\ failures \in 0 .. MaxFailures /\ rewinds \in 0 .. MaxRewinds

(***************************************************************************)
(* NominatorsExact: once the processor has caught up, every nominator has  *)
(* the status the chain gives it, although blocks were written in any      *)
(* order and more than once.  Exempt are failed reads and nominators last  *)
(* touched in a block whose rewrite was cut short.                         *)
(***************************************************************************)
NominatorsExact ==
    Settled /\ ~degraded =>
        \A o \in Operators, a \in Addresses :
            LET S == Touches(o, a, checkpoint) IN
            IF S = {} THEN <<o, a>> \notin DOMAIN db.nominators
            ELSE Latest(S)[1] \notin torn =>
                    /\ <<o, a>> \in DOMAIN db.nominators
                    /\ db.nominators[<<o, a>>].status =
                          NominatorAt(o, a, checkpoint)

(***************************************************************************)
(* LedgerExact: the deposits, withdrawals and share prices of a processed  *)
(* block are those of its events: none twice, none lost, whatever was      *)
(* processed again.  A deposit has its own storage fee, the one right      *)
(* before its nomination, if the fees of its nominator in that block pair  *)
(* up in order.  The code asks for no such thing: after a fee that is for  *)
(* no nomination (a registration's, say) or a nomination that has none,    *)
(* every later one gets a wrong fee, and the property asks for the row and *)
(* takes the fee the code gave it.                                         *)
(***************************************************************************)
FeesPaired(h, e) ==
    \A i \in DOMAIN Events[h] : SameNominator(Events[h][i], e) =>
        /\ Events[h][i].kind = "fee" =>
              i + 1 \in DOMAIN Events[h] /\ Nomination(h, i + 1) /\ FeeInFront(h, i + 1)
        /\ Nomination(h, i) /\ FeeInFront(h, i) =>
              \A j \in 1 .. i : Nomination(h, j) /\ SameNominator(Events[h][j], e) =>
                  FeeInFront(h, j)

FeeDue(h, i) ==
    IF ~FeesPaired(h, Events[h][i]) THEN FeeOf(h, i)
    ELSE IF FeeInFront(h, i) THEN Events[h][i - 1].n ELSE 0

DepositsOf(h) ==
    Flat([i \in DOMAIN Events[h] |->
            LET e == Events[h][i] IN
            IF Nomination(h, i)
            THEN <<[op |-> e.op, addr |-> e.addr, fee |-> FeeDue(h, i)]>>
            ELSE <<>>])

WithdrawalsOf(h) ==
    Flat([i \in DOMAIN Events[h] |->
            LET e == Events[h][i] IN
            IF e.kind = "withdrew" THEN <<[op |-> e.op, addr |-> e.addr]>> ELSE <<>>])

Owners(rows) == [i \in DOMAIN rows |-> [op |-> rows[i].op, addr |-> rows[i].addr]]

LedgerExact ==
    Settled => \A h \in 1 .. checkpoint \ torn :
        /\ db.deposits[h] = DepositsOf(h)
        /\ Owners(db.withdrawals[h]) = WithdrawalsOf(h)
        /\ ~degraded => \A i \in DOMAIN Events[h] : \A o \in Events[h][i].ops :
              Events[h][i].kind = "epoch" =>
                  /\ <<o, Events[h][i].n>> \in DOMAIN db.prices
                  /\ db.prices[<<o, Events[h][i].n>>] = h

(***************************************************************************)
(* CountsExact: an operator's materialized nominator count is the number   *)
(* of its active nominators, whichever of the two was written first and    *)
(* although a nominator may be indexed before its operator.  Exempt are    *)
(* failed reads: a crash between row and count, and then a registration    *)
(* that is passed over, leave the old count; and an operator whose         *)
(* nominators changed while a count of them was under way, whose old       *)
(* number may be written last, until they are counted with no other count  *)
(* under way.                                                              *)
(***************************************************************************)
CountsExact ==
    Settled /\ ~degraded => \A o \in DOMAIN db.operators \ overtaken :
        (\A h \in torn : \A i \in DOMAIN Events[h] : Events[h][i].op # o)
            => db.operators[o].nominator_count = Cardinality(Active(db, o))

(***************************************************************************)
(* OperatorsExact: an operator has the status the chain gives it if the    *)
(* blocks that write its status are Parallel or more apart, so that no two *)
(* of them are processed at once; also after a crash and after old blocks  *)
(* were processed again, unless that was cut short: a rewind first brings  *)
(* the old statuses back, and only its end restores the new ones.  A       *)
(* status that comes without an event must come as an epoch ends, when the *)
(* code reads it; otherwise the tables have the old one until then.        *)
(***************************************************************************)
AtEpoch(o, h) ==
    \E i \in DOMAIN Events[h] : Events[h][i].kind = "epoch" /\ o \in Events[h][i].ops

WritesStatus(o, h) ==
    \/ \E i \in DOMAIN Events[h] : Events[h][i].op = o /\ Events[h][i].kind \in StatusKinds
    \/ AtEpoch(o, h)

Apart(o) ==
    \A g, h \in Height : WritesStatus(o, g) /\ WritesStatus(o, h) /\ g < h =>
        g + Parallel <= h

Announced(o) ==
    \A h \in Height : \A i \in DOMAIN Events[h] :
        Events[h][i].op = o /\ Events[h][i].kind \in SilentKinds => AtEpoch(o, h)

Rank(kind) == CHOOSE k \in DOMAIN Order : Order[k] = kind

InTurn(o) ==
    \A h \in Height : \A i, j \in DOMAIN Events[h] :
        /\ i < j
        /\ Events[h][i].op = o /\ Events[h][i].kind \in StatusKinds
        /\ Events[h][j].op = o /\ Events[h][j].kind \in StatusKinds
        => Rank(Events[h][i].kind) <= Rank(Events[h][j].kind)

OperatorsExact ==
    Settled /\ ~degraded /\ owed = {} =>
        \A o \in Operators : Apart(o) /\ Announced(o) /\ InTurn(o) =>
            IF OperatorAt(o, checkpoint) = "none" THEN o \notin DOMAIN db.operators
            ELSE /\ o \in DOMAIN db.operators
                 /\ db.operators[o].status = OperatorAt(o, checkpoint)

(***************************************************************************)
(* NewestStatusWins: "older block should not overwrite newer status", the  *)
(* rule of the nominators, asked of the operators.                         *)
(***************************************************************************)
NewestStatusWins ==
    Settled => \A o \in DOMAIN db.operators :
                  db.operators[o].status = OperatorAt(o, checkpoint)
=============================================================================
