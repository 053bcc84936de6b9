--------------------------- MODULE AlertPipeline ---------------------------
(***************************************************************************)
(* The way of an alert through the alerter: the tracker's feed, the event  *)
(* watcher (`watch_events`), the unbounded channel every monitor sends on, *)
(* and the Slack alerter (`SlackAlerter::run`), in a process that ends     *)
(* with any of its tasks and is started again.                             *)
(*                                                                         *)
(* A message of the feed is its number among the published ones; an alert  *)
(* carries the number of the message its block came in, so that a block    *)
(* that is enacted again is told apart from the first time.                *)
(***************************************************************************)
EXTENDS EventWatcher

CONSTANTS
    NoBlock,        \* no block yet
    Capacity,       \* messages the broadcast channel retains
    MaxPublished,   \* bound: messages of the tracker
    MaxOthers,      \* bound: alerts of the other monitors
    MaxFaults,      \* bound: failed posts and balance reads
    MaxExits        \* bound: exits other than those of a lagging watcher

ASSUME PipelineAssumption ==
    /\ NoBlock \notin Block
    /\ Capacity \in Nat \ {0}
    /\ MaxPublished \in Nat /\ MaxOthers \in Nat
    /\ MaxFaults \in Nat /\ MaxExits \in Nat

VARIABLES
    up,         \* the process runs
    tip,        \* `current_best_block` of the tracker
    feed,       \* channel of the tracker: messages the watcher has not received
    lagged,     \* ... one of them was overwritten
    pending,    \* the watcher: blocks of the message in hand still to read
    outbox,     \* the watcher: alerts of the block in hand still to send
    queue,      \* channel of the alerts
    slack,      \* the Slack task: "auth", "recv" or "post"
    hand,       \* the alert it posts, as a sequence of at most one
    published,  \* history: the blocks of every message
    posted,     \* history: the alerts that reached the Slack channel
    dropped,    \* history: alerts whose post failed, or gone with the process
    unread,     \* history: blocks gone with the process before they were read
    skipped,    \* history: balance checks passed over after a failed read
    others, faults, exits

feedState == <<tip, feed, lagged, published>>
watcher == <<pending, outbox>>
slackState == <<slack, hand>>
bounds == <<others, faults, exits>>
told == <<posted, dropped, unread, skipped>>
vars == <<up, feedState, watcher, queue, slackState, told, bounds>>

Init ==
    /\ up = TRUE
    /\ tip = NoBlock
    /\ feed = <<>> /\ lagged = FALSE /\ published = <<>>
    /\ pending = <<>> /\ outbox = <<>>
    /\ queue = <<>>
    /\ slack = "auth" /\ hand = <<>>
    /\ posted = <<>> /\ dropped = {} /\ unread = {} /\ skipped = {}
    /\ others = 0 /\ faults = 0 /\ exits = 0

Fault(n) == faults' = faults + n /\ faults' <= MaxFaults
-----------------------------------------------------------------------------
(***************************************************************************)
(* The tracker, as its consumers see it.                                   *)
(***************************************************************************)
\* It loads its cache.  To load it again later only passes over blocks, which
\* an exit does as well.
Load(b) ==
    /\ up
    /\ tip = NoBlock
    /\ tip' = b
    /\ UNCHANGED <<up, feed, lagged, published, watcher, queue, slackState, told,
                   bounds>>

\* The enacted blocks from the lowest to the highest.
EnactedInOrder(a, b) ==
    LET low == Number[CHOOSE c \in Meeting(a, b) : TRUE] IN
    [i \in 1 .. Number[b] - low |-> CHOOSE c \in AtHeight(b, low + i) : TRUE]

PublishBlocks(b) ==
    /\ up
    /\ Len(published) < MaxPublished
    /\ tip # NoBlock /\ Enacted(tip, b) # {}
    /\ tip' = b
    /\ published' = Append(published, EnactedInOrder(tip, b))
    /\ IF Len(feed) = Capacity
       THEN feed' = Append(Tail(feed), Len(published')) /\ lagged' = TRUE
       ELSE feed' = Append(feed, Len(published')) /\ UNCHANGED lagged
    /\ unread' = IF Len(feed) = Capacity
                 THEN unread \union {<<Head(feed), c>> : c \in ToSet(published[Head(feed)])}
                 ELSE unread
    /\ UNCHANGED <<up, watcher, queue, slackState, posted, dropped, skipped,
                   bounds>>
-----------------------------------------------------------------------------
(***************************************************************************)
(* `watch_events`.                                                         *)
(***************************************************************************)
\* Mutant: the blocks of a message from its tip down.
RecvReversed ==
    /\ up
    /\ ~lagged
    /\ feed # <<>> /\ pending = <<>> /\ outbox = <<>>
    /\ LET n == Head(feed) IN
       pending' = Reverse([i \in DOMAIN published[n] |-> <<n, published[n][i]>>])
    /\ feed' = Tail(feed)
    /\ UNCHANGED <<up, tip, lagged, published, outbox, queue, slackState, told,
                   bounds>>

Recv ==
    /\ up
    /\ ~lagged
    /\ feed # <<>> /\ pending = <<>> /\ outbox = <<>>
    /\ LET n == Head(feed) IN
       pending' = [i \in DOMAIN published[n] |-> <<n, published[n][i]>>]
    /\ feed' = Tail(feed)
    /\ UNCHANGED <<up, tip, lagged, published, outbox, queue, slackState, told,
                   bounds>>

\* An alert on its way, with the message and the block it comes from.
Alert(n, b, x) ==
    [message |-> n, block |-> b, kind |-> x.kind, event |-> x.event, name |-> x.name,
     direction |-> x.direction]

\* A block's events and balances are read and its alerts collected.
ReadBlock(unreadable) ==
    /\ up
    /\ pending # <<>> /\ outbox = <<>>
    /\ LET n == Head(pending)[1]
           b == Head(pending)[2]
       IN  /\ unreadable \subseteq {Events[b][i].who : i \in Charges(b)}
           /\ \E alerts \in {AlertsOf(b, unreadable)} :
                 outbox' = [i \in DOMAIN alerts |-> Alert(n, b, alerts[i])]
           /\ skipped' = skipped \union {<<n, b, a>> : a \in unreadable}
    /\ pending' = Tail(pending)
    /\ Fault(Cardinality(unreadable))
    /\ UNCHANGED <<up, feedState, queue, slackState, posted, dropped, unread, others, exits>>

\* The channel is unbounded, so a send does not wait.
SendAlert ==
    /\ up
    /\ outbox # <<>>
    /\ queue' = Append(queue, Head(outbox))
    /\ outbox' = Tail(outbox)
    /\ UNCHANGED <<up, feedState, pending, slackState, told, bounds>>

\* The stall, reorg and slot monitors send on the same channel.
OtherAlert ==
    /\ up
    /\ others < MaxOthers
    /\ others' = others + 1
    /\ queue' = Append(queue, Alert(0, NoBlock, [kind |-> "other", event |-> others',
                                                 name |-> "", direction |-> ""]))
    /\ UNCHANGED <<up, feedState, watcher, slackState, told, faults, exits>>
-----------------------------------------------------------------------------
(***************************************************************************)
(* `SlackAlerter::run`.                                                    *)
(***************************************************************************)
AuthTest ==
    /\ up
    /\ slack = "auth"
    /\ slack' = "recv"
    /\ UNCHANGED <<up, feedState, watcher, queue, hand, told, bounds>>

Take ==
    /\ up
    /\ slack = "recv"
    /\ queue # <<>>
    /\ slack' = "post"
    /\ hand' = <<Head(queue)>>
    /\ queue' = Tail(queue)
    /\ UNCHANGED <<up, feedState, watcher, told, bounds>>

Post ==
    /\ up
    /\ slack = "post"
    /\ posted' = posted \o hand
    /\ slack' = "recv"
    /\ hand' = <<>>
    /\ UNCHANGED <<up, feedState, watcher, queue, dropped, unread, skipped,
                   bounds>>

\* Mutant: the failed alert goes back to the end of the channel.
PostFailsAgain ==
    /\ up
    /\ slack = "post"
    /\ posted' \in {posted, posted \o hand}
    /\ queue' = queue \o hand
    /\ slack' = "recv"
    /\ hand' = <<>>
    /\ Fault(1)
    /\ UNCHANGED <<up, feedState, watcher, dropped, unread, skipped, others, exits>>

\* Mutant: the task ends with the error and nobody sees it.
PostFailsEnded ==
    /\ up
    /\ slack = "post"
    /\ posted' \in {posted, posted \o hand}
    /\ dropped' = dropped \union ToSet(hand)
    /\ slack' = "ended"
    /\ hand' = <<>>
    /\ Fault(1)
    /\ UNCHANGED <<up, feedState, watcher, queue, unread, skipped, others, exits>>

\* The error is logged and the alert dropped; where only Slack's answer was
\* lost the alert is in the channel all the same.
PostFails ==
    /\ up
    /\ slack = "post"
    /\ posted' \in {posted, posted \o hand}
    /\ dropped' = dropped \union ToSet(hand)
    /\ slack' = "recv"
    /\ hand' = <<>>
    /\ Fault(1)
    /\ UNCHANGED <<up, feedState, watcher, queue, unread, skipped, others, exits>>
-----------------------------------------------------------------------------
\* `main` returns with the first task that ends; what was in memory is gone,
\* but for a post that reached Slack already.
Down ==
    /\ up
    /\ up' = FALSE
    /\ posted' \in {posted, posted \o hand}
    /\ dropped' = dropped \union ToSet(outbox \o queue \o hand)
    /\ unread' = unread \union ToSet(pending)
                 \union UNION {{<<n, b>> : b \in ToSet(published[n])} : n \in ToSet(feed)}
    /\ tip' = NoBlock
    /\ feed' = <<>> /\ lagged' = FALSE
    /\ pending' = <<>> /\ outbox' = <<>> /\ queue' = <<>>
    /\ slack' = "auth" /\ hand' = <<>>
    /\ UNCHANGED <<published, skipped, others, faults>>

\* Mutant: nobody waits for the task that ended.
RecvLaggedUnnoticed ==
    /\ lagged /\ pending = <<>> /\ outbox = <<>>
    /\ UNCHANGED vars

\* `recv()` returns `Lagged`, which ends the watcher.
RecvLagged ==
    /\ lagged /\ pending = <<>> /\ outbox = <<>>
    /\ Down
    /\ UNCHANGED exits

\* A task ends for another reason: `auth_test` or the events of a block
\* could not be had, or one of the other tasks failed.
Exit == Down /\ exits < MaxExits /\ exits' = exits + 1

\* The process is started again.
Restart ==
    /\ ~up
    /\ up' = TRUE
    /\ UNCHANGED <<feedState, watcher, queue, slackState, told, bounds>>

Watch ==
    Recv \/ RecvLagged \/ SendAlert \/ \E s \in SUBSET Addresses(AccountBalanceAlerts) : ReadBlock(s)

Slack == AuthTest \/ Take \/ Post \/ PostFails

Next ==
    \/ \E b \in Block : Load(b) \/ PublishBlocks(b)
    \/ Watch
    \/ OtherAlert
    \/ Slack
    \/ Exit \/ Restart

(***************************************************************************)
(* The requests the two tasks await return, with an answer or an error.    *)
(***************************************************************************)
Spec == Init /\ [][Next]_vars /\ WF_vars(Watch) /\ WF_vars(Slack)
-----------------------------------------------------------------------------
Alerts ==
    {outbox[i] : i \in DOMAIN outbox} \union ToSet(queue) \union ToSet(hand)

TypeOK ==
    /\ up \in BOOLEAN /\ lagged \in BOOLEAN
    /\ tip \in Block \union {NoBlock}
    /\ Len(feed) <= Capacity
    /\ \A n \in ToSet(feed) : n \in DOMAIN published
    /\ \A p \in ToSet(pending) : p[1] \in DOMAIN published /\ p[2] \in Block
    /\ slack \in {"auth", "recv", "post"}
    /\ slack = "post" <=> hand # <<>>
    /\ \A x \in Alerts \union ToSet(posted) \union dropped :
          /\ x.message \in 0 .. Len(published)
          /\ x.kind \in Kinds \union {"LowBalance", "other"}
    /\ others \in 0 .. MaxOthers /\ faults \in 0 .. MaxFaults
    /\ exits \in 0 .. MaxExits

\* The blocks of the feed the watcher has still to read.
Awaiting ==
    ToSet(pending) \union UNION {{<<n, b>> : b \in ToSet(published[n])} : n \in ToSet(feed)}

Published == UNION {{<<n, b>> : b \in ToSet(published[n])} : n \in DOMAIN published}

Of(p, x) == x.message = p[1] /\ x.block = p[2]

\* The alerts on the way, each as often as it is.
OnTheWay == outbox \o queue \o hand

Names ==
    {""} \union {Accounts[i].name : i \in DOMAIN Accounts}
    \union {AccountBalanceAlerts[i].name : i \in DOMAIN AccountBalanceAlerts}

\* An alert as it is sent.
AnyAlert ==
    [message : Nat, block : Block \union {NoBlock}, event : Nat, name : Names,
     kind : Kinds \union {"LowBalance", "other"}, direction : {"", "Sender", "Receiver"}]

Times(s, S) == Len(Among(s, S))

\* What a published block p has to be told of: event i by an alert of its own,
\* or that account a is low.
EventAlerts(p, i) ==
    {x \in AnyAlert : x.message # 0 /\ Of(p, x) /\ x.event = i /\ x.kind # "LowBalance"}

LowAlerts(p, a) ==
    {x \in AnyAlert : /\ x.message # 0 /\ Of(p, x) /\ x.kind = "LowBalance"
                      /\ Events[p[2]][x.event].who = a}

Worthy(e) ==
    \/ e.kind \notin TransferKinds
    \/ e.kind \in {"Transfer", "Withdraw"} /\ e.who \in Addresses(Accounts)
    \/ e.kind = "Transfer" /\ e.to \in Addresses(Accounts)
    \/ e.kind = "Deposit" /\ e.who \in Addresses(Accounts)

LowIn(b, a) ==
    /\ \E i \in DOMAIN Events[b] : Events[b][i].kind = "Withdraw" /\ Events[b][i].who = a
    /\ Balance[b][a] # NoAccount
    /\ \E i \in DOMAIN AccountBalanceAlerts :
          /\ AccountBalanceAlerts[i].address = a
          /\ \A j \in DOMAIN AccountBalanceAlerts :
                j > i => AccountBalanceAlerts[j].address # a
          /\ Balance[b][a] < AccountBalanceAlerts[i].threshold_ai3 * 10 ^ TokenDecimals

\* An alert due is on the way, once, or accounted for; and in Slack only once.
Accounted(S) ==
    /\ Times(posted, S) <= 1
    /\ Times(OnTheWay, S) <= 1
    /\ Times(OnTheWay, S) = 0 => Times(posted, S) = 1 \/ dropped \intersect S # {}
    /\ Times(OnTheWay, S) = 1 => Times(posted, S) = 0 /\ dropped \intersect S = {}

(***************************************************************************)
(* ToldOnce: every event worth an alert, of every block each time the      *)
(* tracker publishes it, is told exactly once: it is on the way, or in     *)
(* Slack, unless its post failed or the process ended with it; an account  *)
(* that is low after a withdrawal is told once per block unless its        *)
(* balance could not be read.  An account that no longer exists is not     *)
(* checked.  This is the code of `watch_events` and `run` across restarts, *)
(* reorgs and a channel shared with the other monitors.                    *)
(***************************************************************************)
ToldOnce ==
    \A p \in Published \ (Awaiting \union unread) :
        /\ \A i \in DOMAIN Events[p[2]] :
              Worthy(Events[p[2]][i]) => Accounted(EventAlerts(p, i))
        /\ \A a \in Account :
              LowIn(p[2], a) => \/ Accounted(LowAlerts(p, a))
                                \/ <<p[1], p[2], a>> \in skipped

(***************************************************************************)
(* ToldTrue: Slack is told of nothing else: an alert in the channel is     *)
(* about a block that was published and read, and about an event that is   *)
(* worth it or an account that was low.                                    *)
(***************************************************************************)
ToldTrue ==
    \A x \in ToSet(posted) : x.message # 0 =>
        LET b == x.block IN
        /\ <<x.message, b>> \in Published \ (Awaiting \union unread)
        /\ IF x.kind = "LowBalance" THEN LowIn(b, Events[b][x.event].who)
           ELSE Worthy(Events[b][x.event]) /\ x.kind = Events[b][x.event].kind

\* Of the watcher's own alerts x comes before y.
Before(x, y) ==
    x.message # 0 /\ y.message # 0 =>
        \/ x.message < y.message
        \/ x.message = y.message /\ Number[x.block] <= Number[y.block]

(***************************************************************************)
(* ToldInOrder: the channel shows the blocks in the order they were        *)
(* published in, from the lower to the higher one, also after failed posts *)
(* and restarts.                                                           *)
(***************************************************************************)
ToldInOrder ==
    \A i, j \in DOMAIN posted : i < j => Before(posted[i], posted[j])

(***************************************************************************)
(* EverythingTold: once the tracker is silent, all it published is worked  *)
(* off, by the watcher and by Slack: no failed post or read, no slow start *)
(* of the Slack session and no exit holds anything up for good.            *)
(***************************************************************************)
EverythingTold == []<>(Awaiting = {} /\ OnTheWay = <<>>)
=============================================================================
