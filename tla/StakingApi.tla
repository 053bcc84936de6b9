----------------------------- MODULE StakingApi -----------------------------
(***************************************************************************)
(* The indexer's staking endpoints (indexer/src/api.rs) and a client that  *)
(* reads a list page by page while StakingStore's processor writes.  An    *)
(* endpoint is one query, so it sees one state of the tables; a list takes *)
(* the client several.  Where an ORDER BY leaves the order of rows open    *)
(* the operator gives every answer the database may return.                *)
(*                                                                         *)
(* A block's time is its height.  The client asks about one operator and   *)
(* one address; it goes on by as many rows as it was given, and a query of *)
(* the list of prices starts where the one before it ended.                *)
(***************************************************************************)
EXTENDS StakingStore, Integers

CONSTANTS
    Operator, Address,  \* whom the client asks about
    Limit,              \* Limit[l]: the `limit` parameter it gives for the list l
    MaxLimit            \* MAX_TX_HISTORY_LIMIT, MAX_SHARE_PRICE_LIMIT

Tx == {"deposits", "withdrawals"}
PriceLists == {"prices since", "prices until"}

ASSUME StakingApiAssumption ==
    /\ Operator \in Operators /\ Address \in Addresses
    /\ Limit \in [Tx \union PriceLists -> Int]
    /\ MaxLimit \in Nat \ {0}

VARIABLES
    list,       \* the list the client reads, "none" when it reads none
    cursor,     \* its `offset`, or the time it goes on from
    got,        \* the rows it was given
    start,      \* the rows there were when it began
    disturbed,  \* a row was deleted since it began
    health      \* the checkpoint it was told by the health endpoint, 0 for none

reading == <<list, cursor, got, start, disturbed>>
apiVars == <<vars, reading, health>>
-----------------------------------------------------------------------------
(***************************************************************************)
(* The queries.                                                            *)
(***************************************************************************)
Clamp(n) == Max({1, Min({n, MaxLimit})})

\* Some rows as the database may order them, the latest first.
Descending(rows) ==
    {s \in SetToSeqs(rows) : \A i, j \in DOMAIN s : i < j => s[i].height >= s[j].height}

Ascending(rows) == {Reverse(s) : s \in Descending(rows)}

Limited(s, n, offset) == SubSeq(s, offset + 1, Min({offset + n, Len(s)}))

\* The rows of a table of transactions, each known by its place.
TxRows(table, o, a) ==
    LET Of(h) == {i \in DOMAIN table[h] : table[h][i].op = o /\ table[h][i].addr = a}
    IN  UNION {{[height |-> h, place |-> i] : i \in Of(h)} : h \in Height}

\* Mutant: without ORDER BY.
get_deposits_unordered(a, o, n, offset) ==
    {Limited(s, n, offset) : s \in SetToSeqs(TxRows(db.deposits, o, a))}

get_deposits(a, o, n, offset) ==
    {Limited(s, n, offset) : s \in Descending(TxRows(db.deposits, o, a))}

get_withdrawals(a, o, n, offset) ==
    {Limited(s, n, offset) : s \in Descending(TxRows(db.withdrawals, o, a))}

operator_deposits(o, a, n, offset) == get_deposits(a, o, Clamp(n), Max({offset, 0}))

operator_withdrawals(o, a, n, offset) ==
    get_withdrawals(a, o, Clamp(n), Max({offset, 0}))

Prices(o) ==
    {[height |-> db.prices[k], epoch |-> k[2]] : k \in {k \in DOMAIN db.prices : k[1] = o}}

get_share_prices_latest(o, n) == {Limited(s, n, 0) : s \in Descending(Prices(o))}

\* Mutant: ORDER BY block_time DESC.
get_share_prices_since_descending(o, since, n) ==
    {Limited(s, n, 0) : s \in Descending({r \in Prices(o) : r.height >= since})}

get_share_prices_since(o, since, n) ==
    {Limited(s, n, 0) : s \in Ascending({r \in Prices(o) : r.height >= since})}

get_share_prices_until(o, until, n) ==
    {Limited(s, n, 0) : s \in Descending({r \in Prices(o) : r.height <= until})}

\* A time is a set of at most one; `since` goes before `until`.
operator_share_prices(o, n, since, until) ==
    CASE since # {} -> get_share_prices_since(o, CHOOSE t \in since : TRUE, Clamp(n))
      [] since = {} /\ until # {} ->
            get_share_prices_until(o, CHOOSE t \in until : TRUE, Clamp(n))
      [] since = {} /\ until = {} -> get_share_prices_latest(o, Clamp(n))

get_operator(o) == IF o \in DOMAIN db.operators THEN <<db.operators[o]>> ELSE <<>>

get_all_operators == {[id |-> o, row |-> db.operators[o]] : o \in DOMAIN db.operators}

operator_nominator_count(o) == Cardinality(Active(db, o))

\* Also the operators the nominator has left.
nominator_operator_ids(a) == {k[1] : k \in {k \in DOMAIN db.nominators : k[2] = a}}
-----------------------------------------------------------------------------
(***************************************************************************)
(* The client.                                                             *)
(***************************************************************************)
Rows(d, what) ==
    CASE what = "deposits"    -> TxRows(d.deposits, Operator, Address)
      [] what = "withdrawals" -> TxRows(d.withdrawals, Operator, Address)
      [] what \notin Tx       -> {}

ApiInit ==
    /\ Init
    /\ list = "none" /\ cursor = 0
    /\ got = {} /\ start = {} /\ disturbed = FALSE
    /\ health = 0

\* Mutant: the highest block of the batch.
health_check_batch ==
    /\ list = "none"
    /\ checkpoint # 0
    /\ health' = top
    /\ UNCHANGED <<vars, reading>>

\* The health endpoint fails until there is a checkpoint.
health_check ==
    /\ list = "none"
    /\ checkpoint # 0
    /\ health' = checkpoint
    /\ UNCHANGED <<vars, reading>>

Begin(what) ==
    /\ list = "none"
    /\ what \in PriceLists => health # 0
    /\ list' = what
    /\ start' = Rows(db, what)
    /\ UNCHANGED <<vars, cursor, got, disturbed, health>>

Finish ==
    /\ list' = "none" /\ cursor' = 0
    /\ got' = {} /\ start' = {} /\ disturbed' = FALSE
    /\ UNCHANGED <<vars, health>>

GoOn(page, at) ==
    /\ got' = got \union ToSet(page)
    /\ cursor' = at
    /\ UNCHANGED <<vars, list, start, disturbed, health>>

\* The next page of transactions; an empty one is the end.
TxPage(page) == IF page = <<>> THEN Finish ELSE GoOn(page, cursor + Len(page))

DepositsPage ==
    /\ list = "deposits"
    /\ \E page \in operator_deposits(Operator, Address, Limit[list], cursor) : TxPage(page)

WithdrawalsPage ==
    /\ list = "withdrawals"
    /\ \E page \in operator_withdrawals(Operator, Address, Limit[list], cursor) : TxPage(page)

\* The next prices up from the first one, to the block the client was told.
PricesSince ==
    /\ list = "prices since"
    /\ \E page \in operator_share_prices(Operator, Limit[list], {cursor}, {}) :
          IF \E r \in ToSet(page) : r.height <= health
          THEN GoOn(page, Last(page).height + 1) ELSE Finish

\* The next prices down from the latest one.
PricesUntil ==
    /\ list = "prices until"
    /\ \E page \in operator_share_prices(Operator, Limit[list], {},
                                         IF got = {} THEN {} ELSE {cursor}) :
          IF page # <<>> THEN GoOn(page, Last(page).height - 1) ELSE Finish

Index ==
    /\ Next
    /\ disturbed' = (disturbed \/ ~(Rows(db, list) \subseteq Rows(db', list)))
    /\ UNCHANGED <<list, cursor, got, start, health>>

ApiNext ==
    \/ Index
    \/ health_check
    \/ \E what \in Tx \union PriceLists : Begin(what)
    \/ DepositsPage \/ WithdrawalsPage
    \/ PricesSince \/ PricesUntil

ApiSpec == ApiInit /\ [][ApiNext]_apiVars
-----------------------------------------------------------------------------
(***************************************************************************)
(* NoneMissed: a client that pages through the deposits or withdrawals to  *)
(* the end has been given every row there was when it began, although the  *)
(* offset counts from the newest row and rows are inserted meanwhile,      *)
(* above and below it.  Exempt are rows that share their block with        *)
(* another one, whose order is open, and a block that is processed again   *)
(* meanwhile, whose rows are deleted first.                                *)
(***************************************************************************)
NoneMissed ==
    [][(list \in Tx /\ Finish /\ ~disturbed) =>
        \A r \in start :
            (\A s \in Rows(db, list) : s.height = r.height => s = r) => r \in got]_apiVars

(***************************************************************************)
(* PricesComplete: a client that was told the processed block and then     *)
(* reads the share prices from either end has the price of every epoch up  *)
(* to that block its operator has one of, however few a page holds; prices *)
(* of blocks above it may be written out of order and be missed.           *)
(***************************************************************************)
PricesComplete ==
    [][(list \in PriceLists /\ Finish /\ ~degraded) =>
        \A h \in 1 .. health : \A i \in DOMAIN Events[h] :
            Events[h][i].kind = "epoch" /\ Operator \in Events[h][i].ops =>
                [height |-> h, epoch |-> Events[h][i].n] \in got]_apiVars

(***************************************************************************)
(* ToldIsFound: up to the block the health endpoint told, an operator that *)
(* registered is found, on its own and among all, and a nominator's list   *)
(* names every operator it ever nominated; also while blocks are processed *)
(* again and after the checkpoint was set back.                            *)
(***************************************************************************)
ToldIsFound ==
    ~degraded => \A h \in 1 .. health : \A i \in DOMAIN Events[h] :
        LET e == Events[h][i] IN
        /\ e.kind = "registered" =>
              /\ get_operator(e.op) # <<>>
              /\ \E row \in get_all_operators : row.id = e.op
        /\ e.kind \in {"registered", "nominated"} =>
              e.op \in nominator_operator_ids(e.addr)

(***************************************************************************)
(* CountsAgree: the nominator count of an operator's own endpoint and the  *)
(* one counted for the other endpoint are the same whenever no block in    *)
(* flight has still to count: row and count are two statements, and those  *)
(* of parallel blocks fall between them.  Exempt are crashes and failed    *)
(* reads, and an operator whose nominators changed while a count of them   *)
(* was under way, until they are counted alone.                            *)
(***************************************************************************)
CountsAgree ==
    failures = 0 => \A o \in DOMAIN db.operators \ overtaken :
        \/ \E h \in DOMAIN todo : \E i \in DOMAIN todo[h] :
              todo[h][i].do = "count" /\ todo[h][i].op = o
        \/ get_operator(o)[1].nominator_count = operator_nominator_count(o)
=============================================================================
