---------------------------- MODULE SlotMonitor -----------------------------
(***************************************************************************)
(* The slot monitor: `monitor_slots` (alerter/src/slots.rs) at its end of  *)
(* the channel into which the P2P network puts the slots peers gossip      *)
(* (alerter/src/p2p_network.rs).  Time passes in ticks; a task that is     *)
(* ready may be polled late.                                               *)
(*                                                                         *)
(* Gossip may deliver a slot late, more than once, out of order or not at  *)
(* all.                                                                    *)
(***************************************************************************)
EXTENDS Integers, Sequences

CONSTANTS
    SlotTimeout,        \* slot_timeout, in ticks
    PerSlot,            \* per_slot_threshold
    AvgSlot,            \* avg_slot_threshold
    Window,             \* bound of the vector of slots, 600
    Capacity,           \* messages the broadcast channel retains
    MaxTime,            \* bound: ticks
    MaxSlot,            \* bound: slots
    MaxSent,            \* bound: slots the network delivers
    MaxExits            \* bound: exits of the process for other reasons

ASSUME SlotAssumption ==
    /\ SlotTimeout \in Nat \ {0}
    /\ PerSlot \in Nat /\ AvgSlot \in Nat
    /\ Window \in Nat \ {0} /\ Capacity \in Nat \ {0}
    /\ MaxTime \in Nat /\ MaxSlot \in Nat /\ MaxSent \in Nat /\ MaxExits \in Nat

VARIABLES
    now,            \* the clock
    running,        \* the process is up
    queue,          \* channel: messages not yet received
    lagged,         \* channel: a message was overwritten
    elapsed,        \* ticks since the loop began to wait
    timeout_fired,  \* `timeout_fired`, 0 for `None`
    last_instant,   \* arrival of the last accepted slot
    slots,          \* the vector of accepted slots
    last,           \* the last stall or recovery alert
    slow,           \* the last slow-slot alert
    average,        \* the slot of the last average alert, 0 for none
    started,        \* history: when the process started
    early,          \* history: timeouts before the first slot, until taken
    sent, exits     \* history: deliveries and exits so far

channelVars == <<queue, lagged, sent>>
taskVars == <<elapsed, timeout_fired, last_instant, slots, last, slow, average>>
vars == <<now, running, channelVars, taskVars, started, early, exits>>

NoAlert == [kind |-> "none", slot |-> 0, duration |-> 0]
NotSlow == [slot |-> 0, slot_time |-> 0]

Init ==
    /\ now = 0 /\ running = TRUE
    /\ queue = <<>> /\ lagged = FALSE
    /\ elapsed = 0 /\ timeout_fired = 0 /\ last_instant = 0
    /\ slots = <<>> /\ last = NoAlert /\ slow = NotSlow /\ average = 0
    /\ started = 0 /\ early = 0 /\ sent = 0 /\ exits = 0
-----------------------------------------------------------------------------
Tick ==
    /\ now < MaxTime
    /\ now' = now + 1
    /\ elapsed' = IF running THEN elapsed + 1 ELSE elapsed
    /\ UNCHANGED <<running, channelVars, timeout_fired, last_instant, slots,
                   last, slow, average, started, early, exits>>

\* The network hands on a slot it was gossiped, with its time of arrival.
Gossip(s) ==
    /\ running
    /\ sent < MaxSent
    /\ sent' = sent + 1
    /\ LET m == [slot |-> s, at |-> now] IN
       IF Len(queue) = Capacity
       THEN queue' = Append(Tail(queue), m) /\ lagged' = TRUE
       ELSE queue' = Append(queue, m) /\ UNCHANGED lagged
    /\ UNCHANGED <<now, running, taskVars, started, early, exits>>

\* `recv()` returns `Lagged`, an error the task ends with, and the process.
RecvLagged ==
    /\ running
    /\ lagged
    /\ running' = FALSE
    /\ UNCHANGED <<now, channelVars, taskVars, started, early, exits>>

LastSlot == IF slots = <<>> THEN 0 ELSE slots[Len(slots)].slot

ExtendsBeyond(m) == m.slot > LastSlot + 1   \* mutant

Extends(m) == m.slot = LastSlot + 1

\* Mutant: the start of the process is taken for the previous slot's arrival.
SlotTimeSinceStart(m) == m.at - started

SlotTime(m) == m.at - last_instant

Pushed(vec, x) == Append(vec, x)    \* mutant: the vector has no bound

\* `BoundedVec::force_push`: a full vector loses its last element first.
ForcePush(vec, x) ==
    Append(IF Len(vec) = Window THEN SubSeq(vec, 1, Window - 1) ELSE vec, x)

\* The fold over the vector.
Total(vec) ==
    LET acc[i \in 0 .. Len(vec)] ==
            IF i = 0 THEN 0 ELSE acc[i - 1] + vec[i].duration
    IN  acc[Len(vec)]

TimeoutKept == timeout_fired' = timeout_fired   \* mutant

TimeoutTaken == timeout_fired' = 0

Received ==
    /\ running
    /\ ~lagged
    /\ queue # <<>>
    /\ queue' = Tail(queue)
    /\ elapsed' = 0
    /\ UNCHANGED <<now, running, lagged, sent, started, exits>>

\* The first slot of a process.
RecvFirst ==
    /\ Received
    /\ slots = <<>>
    /\ slots' = ForcePush(slots, [slot |-> Head(queue).slot,
                                  duration |-> SlotTime(Head(queue))])
    /\ last_instant' = Head(queue).at
    /\ UNCHANGED <<timeout_fired, last, slow, average, early>>

\* Mutant: a slot that is passed over counts as an arrival.
RecvOtherCounted ==
    /\ Received
    /\ slots # <<>>
    /\ ~Extends(Head(queue))
    /\ last_instant' = Head(queue).at
    /\ UNCHANGED <<timeout_fired, slots, last, slow, average, early>>

\* A slot that does not follow the last one is passed over.
RecvOther ==
    /\ Received
    /\ slots # <<>>
    /\ ~Extends(Head(queue))
    /\ UNCHANGED <<timeout_fired, last_instant, slots, last, slow, average, early>>

RecvNext ==
    /\ Received
    /\ slots # <<>>
    /\ Extends(Head(queue))
    /\ TimeoutTaken /\ early' = 0
    /\ LET m == Head(queue)
           duration == SlotTime(m)
       IN  /\ last' = IF timeout_fired = 0 THEN last
                      ELSE [kind |-> "recovery", slot |-> m.slot,
                            duration |-> timeout_fired]
           /\ slow' = IF duration > PerSlot
                      THEN [slot |-> m.slot, slot_time |-> duration] ELSE slow
           /\ slots' = ForcePush(slots, [slot |-> m.slot, duration |-> duration])
           /\ average' = IF /\ Len(slots') = Window
                            /\ Total(slots') > AvgSlot * Window
                         THEN m.slot ELSE average
           /\ last_instant' = m.at

\* The timeout, which only wins when there is nothing to receive.
Timeout ==
    /\ running
    /\ elapsed >= SlotTimeout
    /\ queue = <<>> /\ ~lagged
    /\ timeout_fired' = timeout_fired + SlotTimeout
    /\ last' = IF slots = <<>> THEN last
               ELSE [kind |-> "stall", slot |-> LastSlot, duration |-> timeout_fired']
    /\ early' = IF slots = <<>> THEN timeout_fired' ELSE early
    /\ elapsed' = 0
    /\ UNCHANGED <<now, running, channelVars, last_instant, slots, slow,
                   average, started, exits>>

\* Another task of the alerter ends, and the process with it.
Exit ==
    /\ running
    /\ exits < MaxExits
    /\ exits' = exits + 1
    /\ running' = FALSE
    /\ UNCHANGED <<now, channelVars, taskVars, started, early>>

Restart ==
    /\ ~running
    /\ running' = TRUE
    /\ started' = now /\ early' = 0
    /\ queue' = <<>> /\ lagged' = FALSE
    /\ elapsed' = 0 /\ timeout_fired' = 0 /\ last_instant' = now
    /\ slots' = <<>> /\ last' = NoAlert /\ slow' = NotSlow /\ average' = 0
    /\ UNCHANGED <<now, sent, exits>>

MonitorStep ==
    RecvLagged \/ RecvFirst \/ RecvOther \/ RecvNext \/ Timeout \/ Restart

Next ==
    \/ Tick \/ Exit
    \/ \E s \in 1 .. MaxSlot : Gossip(s)
    \/ MonitorStep

Spec == Init /\ [][Next]_vars

\* The monitor's task is polled; nothing else is promised.
FairSpec == Spec /\ WF_vars(MonitorStep)
-----------------------------------------------------------------------------
TypeOK ==
    /\ now \in Nat
    /\ running \in BOOLEAN /\ lagged \in BOOLEAN
    /\ queue \in Seq([slot : Nat, at : Nat]) /\ Len(queue) <= Capacity
    /\ elapsed \in Nat /\ timeout_fired \in Nat
    /\ last_instant \in Nat /\ started \in Nat /\ early \in Nat
    /\ slots \in Seq([slot : Nat, duration : Nat]) /\ Len(slots) <= Window
    /\ last \in [kind : {"none", "stall", "recovery"}, slot : Nat, duration : Nat]
    /\ slow \in [slot : Nat, slot_time : Nat]
    /\ average \in Nat
    /\ sent \in Nat /\ exits \in 0 .. MaxExits

(***************************************************************************)
(* StallSinceLastSlot: the duration of a stall alert, added up over        *)
(* timeouts with passed-over slots in between, exceeds the time since the  *)
(* slot it names arrived by no more than the timeouts before the first     *)
(* slot, which that slot does not clear.                                   *)
(***************************************************************************)
StallSinceLastSlot ==
    [][last' # last /\ last'.kind = "stall" =>
          last'.duration <= now - last_instant + early]_vars

(***************************************************************************)
(* RecoveryIsSlow: the time a recovery alert gives, a sum of timeouts, is  *)
(* no longer than the time between the arrivals of its slot and the one    *)
(* before, but for timeouts before the first slot; if it exceeds           *)
(* per_slot_threshold a slow-slot alert for the same slot comes with it,   *)
(* which gives at least that time.  A threshold of 30s or more, which the  *)
(* command line accepts, may see a recovery without one.                   *)
(***************************************************************************)
RecoveryIsSlow ==
    [][last' # last /\ last'.kind = "recovery" /\ early = 0 =>
          /\ last'.duration <= last_instant' - last_instant
          /\ last'.duration > PerSlot =>
                slow'.slot = last'.slot /\ slow'.slot_time >= last'.duration]_vars

(***************************************************************************)
(* TimeCountedOnce: the slot times the average is taken over add up to no  *)
(* more than the process has run, whatever was passed over in between.     *)
(***************************************************************************)
TimeCountedOnce == Total(slots) <= now - started

(***************************************************************************)
(* NextSlotTaken: when the slot after the last one is waiting in the       *)
(* channel, the monitor moves on, unless the process ends.                 *)
(***************************************************************************)
NextSlotTaken ==
    \A s \in 1 .. MaxSlot :
        /\ running /\ slots # <<>> /\ LastSlot = s
        /\ \E i \in DOMAIN queue : queue[i].slot = s + 1
        ~> ~running \/ LastSlot > s

(***************************************************************************)
(* SlotsMonitored: the alerter "monitors per-slot and average slot         *)
(* duration": it does not stop at some slot while newer ones keep coming.  *)
(***************************************************************************)
SlotsMonitored ==
    \A s \in 1 .. MaxSlot :
        /\ running /\ slots # <<>> /\ LastSlot < s
        /\ \E i \in DOMAIN queue : queue[i].slot = s
        ~> ~running \/ LastSlot >= s
=============================================================================
