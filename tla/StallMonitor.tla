---------------------------- MODULE StallMonitor ----------------------------
(***************************************************************************)
(* The stall and reorg monitor: `watch_chain_stall_and_reorg`              *)
(* (alerter/src/stall_and_reorg.rs) at its end of the tracker's channel.   *)
(* Time passes in ticks; a task that is ready may be polled late.          *)
(*                                                                         *)
(* A message is abstracted to the number of blocks it retracts (0 for no   *)
(* `ReorgData`) and to how long the channel had been silent before it.     *)
(***************************************************************************)
EXTENDS SeqOps

CONSTANTS
    StallThreshold,     \* non_block_import_threshold, in ticks
    ReorgThreshold,     \* reorg_depth_threshold
    Depths,             \* retracted blocks per message
    Capacity,           \* messages the broadcast channel retains
    MaxQuiet,           \* bound: ticks without a message
    MaxSent,            \* bound: messages per process
    MaxExits            \* bound: exits of the process for other reasons

ASSUME StallAssumption ==
    /\ StallThreshold \in Nat \ {0}
    /\ ReorgThreshold \in Nat
    /\ Depths \subseteq Nat
    /\ Capacity \in Nat \ {0}
    /\ MaxQuiet \in Nat /\ MaxSent \in Nat /\ MaxExits \in Nat

VARIABLES
    running,        \* the process is up
    queue,          \* channel: messages not yet received
    lagged,         \* channel: a message was overwritten
    elapsed,        \* ticks since the loop began to wait
    timeout_fired,  \* `timeout_fired`, 0 for `None`
    known,          \* `maybe_last_best_block` is `Some`
    last,           \* the last stall or recovery alert of this process
    reported,       \* depths of the reorg alerts of this process
    quiet,          \* history: ticks since the last message was sent
    sent,           \* history: depths of the messages of this process
    exits           \* history: exits for other reasons so far

channelVars == <<queue, lagged, quiet, sent>>
taskVars == <<elapsed, timeout_fired, known, last, reported>>
vars == <<running, channelVars, taskVars, exits>>

NoAlert == [kind |-> "none", duration |-> 0]

\* What the function starts with.
Fresh ==
    /\ elapsed' = 0
    /\ timeout_fired' = 0
    /\ known' = FALSE
    /\ last' = NoAlert
    /\ reported' = <<>>

Init ==
    /\ running = TRUE
    /\ queue = <<>> /\ lagged = FALSE
    /\ elapsed = 0 /\ timeout_fired = 0 /\ known = FALSE
    /\ last = NoAlert /\ reported = <<>>
    /\ quiet = 0 /\ sent = <<>> /\ exits = 0
-----------------------------------------------------------------------------
Tick ==
    /\ quiet < MaxQuiet
    /\ quiet' = quiet + 1
    /\ elapsed' = IF running THEN elapsed + 1 ELSE elapsed
    /\ UNCHANGED <<running, queue, lagged, timeout_fired, known, last, reported,
                   sent, exits>>

\* Mutant: the channel has no limit.
SendUnbounded(d) ==
    /\ running
    /\ Len(sent) < MaxSent
    /\ queue' = Append(queue, [depth |-> d, silence |-> quiet])
    /\ sent' = Append(sent, d)
    /\ quiet' = 0
    /\ UNCHANGED <<running, lagged, taskVars, exits>>

\* The tracker broadcasts a message that retracts d blocks.
Send(d) ==
    /\ running
    /\ Len(sent) < MaxSent
    /\ LET m == [depth |-> d, silence |-> quiet] IN
       IF Len(queue) = Capacity
       THEN queue' = Append(Tail(queue), m) /\ lagged' = TRUE
       ELSE queue' = Append(queue, m) /\ UNCHANGED lagged
    /\ sent' = Append(sent, d)
    /\ quiet' = 0
    /\ UNCHANGED <<running, taskVars, exits>>

\* Mutant: the task goes on with the messages that are left.
RecvLaggedGoesOn ==
    /\ running
    /\ lagged
    /\ lagged' = FALSE
    /\ UNCHANGED <<running, queue, quiet, sent, taskVars, exits>>

\* `recv()` returns `Lagged`, an error the task ends with, and the process.
RecvLagged ==
    /\ running
    /\ lagged
    /\ running' = FALSE
    /\ UNCHANGED <<channelVars, taskVars, exits>>

\* `retracted.len() >= reorg_depth_threshold`; there is a `ReorgData` only
\* if blocks were retracted.
Reports(d) == d > 0 /\ d >= ReorgThreshold

\* Mutant: `timeout_fired` is read and not taken.
RecvUntaken ==
    /\ running
    /\ ~lagged
    /\ queue # <<>>
    /\ queue' = Tail(queue)
    /\ known' = TRUE
    /\ timeout_fired' = timeout_fired
    /\ last' = IF timeout_fired = 0 THEN last
               ELSE [kind |-> "recovery", duration |-> timeout_fired]
    /\ reported' = IF Reports(Head(queue).depth)
                   THEN Append(reported, Head(queue).depth) ELSE reported
    /\ elapsed' = 0
    /\ UNCHANGED <<running, lagged, quiet, sent, exits>>

\* A message: it ends a stall, and a deep reorg is reported.
Recv ==
    /\ running
    /\ ~lagged
    /\ queue # <<>>
    /\ queue' = Tail(queue)
    /\ known' = TRUE
    /\ timeout_fired' = 0
    /\ last' = IF timeout_fired = 0 THEN last
               ELSE [kind |-> "recovery", duration |-> timeout_fired]
    /\ reported' = IF Reports(Head(queue).depth)
                   THEN Append(reported, Head(queue).depth) ELSE reported
    /\ elapsed' = 0
    /\ UNCHANGED <<running, lagged, quiet, sent, exits>>

\* Mutant: every alert gives the threshold as the length of the stall.
TimeoutUnaccumulated ==
    /\ running
    /\ elapsed >= StallThreshold
    /\ queue = <<>> /\ ~lagged
    /\ last' = IF known THEN [kind |-> "stall", duration |-> StallThreshold]
               ELSE last
    /\ timeout_fired' = timeout_fired + StallThreshold
    /\ elapsed' = 0
    /\ UNCHANGED <<running, channelVars, known, reported, exits>>

\* Mutant: only the first stall of a process is reported.
TimeoutOnce ==
    /\ running
    /\ elapsed >= StallThreshold
    /\ queue = <<>> /\ ~lagged
    /\ timeout_fired' = timeout_fired + StallThreshold
    /\ last' = IF known /\ last = NoAlert
               THEN [kind |-> "stall", duration |-> timeout_fired'] ELSE last
    /\ elapsed' = 0
    /\ UNCHANGED <<running, channelVars, known, reported, exits>>

\* The timeout, which only wins when there is nothing to receive; an alert
\* needs a block to name.
Timeout ==
    /\ running
    /\ elapsed >= StallThreshold
    /\ queue = <<>> /\ ~lagged
    /\ timeout_fired' = timeout_fired + StallThreshold
    /\ last' = IF known THEN [kind |-> "stall", duration |-> timeout_fired']
               ELSE last
    /\ elapsed' = 0
    /\ UNCHANGED <<running, channelVars, known, reported, exits>>

\* Another task of the alerter ends, and the process with it.
Exit ==
    /\ running
    /\ exits < MaxExits
    /\ exits' = exits + 1
    /\ running' = FALSE
    /\ UNCHANGED <<channelVars, taskVars>>

\* The container is restarted, with a new channel.
Restart ==
    /\ ~running
    /\ running' = TRUE
    /\ Fresh
    /\ queue' = <<>>
    /\ lagged' = FALSE
    /\ sent' = <<>>
    /\ UNCHANGED <<quiet, exits>>

MonitorStep == RecvLagged \/ Recv \/ Timeout \/ Restart

Next == Tick \/ (\E d \in Depths : Send(d)) \/ MonitorStep \/ Exit

Spec == Init /\ [][Next]_vars

\* Time passes and the monitor's task is polled; nothing sends a message.
FairSpec == Spec /\ WF_vars(Tick) /\ WF_vars(MonitorStep)
-----------------------------------------------------------------------------
TypeOK ==
    /\ running \in BOOLEAN /\ lagged \in BOOLEAN /\ known \in BOOLEAN
    /\ queue \in Seq([depth : Depths, silence : Nat])
    /\ Len(queue) <= Capacity
    /\ elapsed \in Nat /\ timeout_fired \in Nat /\ quiet \in Nat
    /\ last \in [kind : {"none", "stall", "recovery"}, duration : Nat]
    /\ reported \in Seq(Depths) /\ sent \in Seq(Depths)
    /\ exits \in 0 .. MaxExits

(***************************************************************************)
(* NotOverstated: the duration a stall alert gives is never longer than    *)
(* the time without a message, that of a recovery alert never longer than  *)
(* the silence the message ended, however late the task is polled and      *)
(* however many stalls came before.                                        *)
(***************************************************************************)
NotOverstated ==
    [][last' # last =>
          /\ last'.kind = "stall" => last'.duration <= quiet
          /\ last'.kind = "recovery" => last'.duration <= Head(queue).silence]_vars

(***************************************************************************)
(* RecoveryOfStall: a recovery alert reports the length of the stall alert *)
(* before it, unless the process had seen no block when the stall began.   *)
(***************************************************************************)
RecoveryOfStall ==
    [][known /\ last' # last /\ last'.kind = "recovery" =>
          last.kind = "stall" /\ last.duration = last'.duration]_vars

(***************************************************************************)
(* DeepReorgsReported: the reorg alerts of a process are the reorgs of at  *)
(* least the threshold's depth (`>=`; the readme says "exceeding") among   *)
(* the messages sent up to the last it received, each once and in order: a *)
(* process that lost a message to a full channel ends, and never goes on   *)
(* as if it had seen every reorg.                                          *)
(***************************************************************************)
DeepReorgsReported ==
    running /\ ~lagged =>
        reported = Among(SubSeq(sent, 1, Len(sent) - Len(queue)),
                         {d \in Depths : d > 0 /\ d >= ReorgThreshold})

(***************************************************************************)
(* StallNoticed: a silence of StallThreshold after a block was seen is     *)
(* followed by a stall alert, unless a message or an exit comes first.     *)
(***************************************************************************)
StallNoticed ==
    running /\ known /\ queue = <<>> /\ elapsed >= StallThreshold
        ~> last.kind = "stall" \/ queue # <<>> \/ ~running
=============================================================================
