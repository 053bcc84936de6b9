---------------------------- MODULE EventWatcher ----------------------------
(***************************************************************************)
(* What the event watcher (alerter/src/events.rs and event_types.rs) makes *)
(* of a block: the alerts for its events, in the order they are sent.      *)
(*                                                                         *)
(* An event is a record [kind, who, to] of the fields its type decodes     *)
(* that the watcher looks at; amounts, identifiers and wording are left    *)
(* out, and so are events of kinds it does not look for.  An alert names   *)
(* the event it comes from by its place in the block.                      *)
(***************************************************************************)
EXTENDS BlockTree, SeqOps, SequencesExt

CONSTANTS
    Account,
    Events,             \* Events[b]: the events of block b in chain order
    Balance,            \* Balance[b][a]: `System.Account` at b, in Shannons
    NoAccount,          \* ... of an account that does not exist at b
    Accounts,           \* `accounts` of the network's configuration
    AccountBalanceAlerts,   \* `account_balance_alerts`, thresholds in AI3
    TokenDecimals

TransferKinds == {"Transfer", "Deposit", "Withdraw"}

\* The kinds that are alerted whatever they say.
NotableKinds ==
    {"DomainRuntimeUpgraded", "DomainInstantiated", "FraudProofProcessed",
     "OperatorSlashed", "OperatorOffline", "Sudo", "CodeUpdated"}

Kinds == TransferKinds \union NotableKinds

Event == [kind : Kinds, who : Account, to : Account]

ASSUME WatcherAssumption ==
    /\ Events \in [Block -> Seq(Event)]
    /\ NoAccount \notin Nat
    /\ Balance \in [Block -> [Account -> Nat \union {NoAccount}]]
    /\ Accounts \in Seq([name : STRING, address : Account])
    /\ AccountBalanceAlerts \in
          Seq([name : STRING, address : Account, threshold_ai3 : Nat])
    /\ TokenDecimals \in Nat
-----------------------------------------------------------------------------
\* A list of the configuration as a map by address: the last entry wins.
Mapped(list, a) ==
    LET at == {i \in DOMAIN list : list[i].address = a} IN list[Max(at)]

Addresses(list) == {list[i].address : i \in DOMAIN list}

account_mapped_name == [a \in Addresses(Accounts) |-> Mapped(Accounts, a).name]

build_balance_alert_map ==
    [a \in Addresses(AccountBalanceAlerts) |->
        LET alert == Mapped(AccountBalanceAlerts, a) IN
        [name |-> alert.name,
         threshold |-> alert.threshold_ai3 * 10 ^ TokenDecimals]]

\* `TransferEvent::from` and `to`: an account, or none.
from(e) == IF e.kind = "Deposit" THEN {} ELSE {e.who}
to(e) ==
    CASE e.kind = "Transfer" -> {e.to}
      [] e.kind = "Deposit"  -> {e.who}
      [] e.kind = "Withdraw" -> {}

\* `block_events.find::<E>()`: the places of the events of a kind; what is
\* made of them keeps the order of the block.
find(b, kind) == {i \in DOMAIN Events[b] : Events[b][i].kind = kind}

InOrder(b, places) == Among([i \in DOMAIN Events[b] |-> i], places)

as_events(b, kind) ==
    LET at == InOrder(b, find(b, kind)) IN
    [j \in DOMAIN at |-> [kind |-> kind, event |-> at[j], name |-> "", direction |-> ""]]

\* The known accounts among some, and the alert for one of them.
Known(accounts) == accounts \intersect DOMAIN account_mapped_name

KnownAccountEvent(kind, i, accounts, direction) ==
    [kind |-> kind, event |-> i, direction |-> direction,
     name |-> account_mapped_name[CHOOSE a \in Known(accounts) : TRUE]]

\* A transfer between two known accounts is told once, for its sender.
filter_known_account_transfers(b, kind) ==
    LET e(i) == Events[b][i]
        at == InOrder(b, {i \in find(b, kind) :
                 Known(from(e(i))) # {} \/ Known(to(e(i))) # {}})
    IN  [j \in DOMAIN at |->
            IF Known(from(e(at[j]))) # {}
            THEN KnownAccountEvent(kind, at[j], from(e(at[j])), "Sender")
            ELSE KnownAccountEvent(kind, at[j], to(e(at[j])), "Receiver")]

LowInclusive(b, a) ==   \* mutant
    /\ Balance[b][a] # NoAccount
    /\ Balance[b][a] <= build_balance_alert_map[a].threshold

\* `free_balance` of an account that exists is below its threshold.
Low(b, a) ==
    /\ Balance[b][a] # NoAccount
    /\ Balance[b][a] < build_balance_alert_map[a].threshold

LowBalanceEvents(b, at) ==
    [j \in DOMAIN at |->
        [kind |-> "LowBalance", event |-> at[j], direction |-> "",
         name |-> build_balance_alert_map[Events[b][at[j]].who].name]]

\* The withdrawals of a block that an account of the balance alerts pays for.
Charges(b) ==
    {i \in find(b, "Withdraw") : Events[b][i].who \in DOMAIN build_balance_alert_map}

\* Each account is checked once, at its first withdrawal.  An account that
\* does not exist, or whose balance cannot be read, is passed over.
check_low_balances(b, failed) ==
    LET First(i) == \A k \in Charges(b) : Events[b][k].who = Events[b][i].who => i <= k
    IN  LowBalanceEvents(b, InOrder(b, {i \in Charges(b) :
            First(i) /\ Events[b][i].who \notin failed /\ Low(b, Events[b][i].who)}))

\* The `events` the watcher collects of a block, where the balances of the
\* accounts in failed could not be read.
AlertsOf(b, failed) ==
    filter_known_account_transfers(b, "Transfer")
    \o filter_known_account_transfers(b, "Deposit")
    \o filter_known_account_transfers(b, "Withdraw")
    \o check_low_balances(b, failed)
    \o as_events(b, "DomainRuntimeUpgraded")
    \o as_events(b, "DomainInstantiated")
    \o as_events(b, "FraudProofProcessed")
    \o as_events(b, "OperatorSlashed")
    \o as_events(b, "OperatorOffline")
    \o as_events(b, "Sudo")
    \o as_events(b, "CodeUpdated")
=============================================================================
