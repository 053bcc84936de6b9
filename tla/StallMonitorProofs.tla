------------------------ MODULE StallMonitorProofs -------------------------
(***************************************************************************)
(* The durations and the reorgs the stall monitor reports, for every       *)
(* threshold, channel capacity and schedule.                               *)
(***************************************************************************)
EXTENDS StallMonitor, Lemmas

\* The time the monitor has counted has really passed without a message.
Counted ==
    running /\ ~lagged =>
        /\ queue = <<>> => timeout_fired + elapsed <= quiet
        /\ queue # <<>> => timeout_fired <= Head(queue).silence

\* A monitor that knows a block has reported the timeouts that fired.
Reported ==
    known /\ timeout_fired > 0 =>
        last = [kind |-> "stall", duration |-> timeout_fired]

IInv == TypeOK /\ Counted /\ Reported

LEMMA InitIInv == Init => IInv
<1> SUFFICES ASSUME Init PROVE IInv
    OBVIOUS
<1> USE StallAssumption DEF Init
<1>1. running \in BOOLEAN /\ lagged \in BOOLEAN /\ known \in BOOLEAN
    OBVIOUS
<1>2. TypeOK
    BY <1>1 DEF TypeOK, NoAlert
<1>3. Counted /\ Reported
    BY DEF Counted, Reported
<1> QED
    BY <1>2, <1>3 DEF IInv

\* Sending to a channel keeps its oldest message unless it was full.
LEMMA SendQueue ==
    ASSUME IInv, NEW d \in Depths, Send(d)
    PROVE  /\ queue' \in Seq([depth : Depths, silence : Nat])
           /\ Len(queue') <= Capacity
           /\ queue' # <<>>
           /\ sent' \in Seq(Depths)
           /\ lagged' \in BOOLEAN
           /\ ~lagged' => /\ ~lagged
                          /\ queue = <<>> => Head(queue').silence = quiet
                          /\ queue # <<>> => Head(queue') = Head(queue)
<1> USE StallAssumption DEF IInv, TypeOK
<1> DEFINE m == [depth |-> d, silence |-> quiet]
<1>1. m \in [depth : Depths, silence : Nat] /\ m.silence = quiet
    OBVIOUS
<1>2. sent' \in Seq(Depths)
    BY DEF Send
<1>3. CASE Len(queue) = Capacity
    <2>1. queue' = Append(Tail(queue), m) /\ lagged' = TRUE
        BY <1>3 DEF Send
    <2>2. lagged' \in BOOLEAN
        BY <2>1
    <2> HIDE DEF m
    <2>3. /\ Tail(queue) \in Seq([depth : Depths, silence : Nat])
          /\ Len(Tail(queue)) = Capacity - 1
        BY <1>3
    <2>4. queue' \in Seq([depth : Depths, silence : Nat]) /\ Len(queue') = Capacity
        BY <2>1, <2>3, <1>1
    <2> QED
        BY <2>1, <2>2, <2>4, <1>2
<1>4. CASE Len(queue) # Capacity
    <2>1. queue' = Append(queue, m) /\ lagged' = lagged
        BY <1>4 DEF Send
    <2> HIDE DEF m
    <2>2. /\ queue' \in Seq([depth : Depths, silence : Nat])
          /\ Len(queue') = Len(queue) + 1
        BY <2>1, <1>1
    <2>3. queue = <<>> => Head(queue') = m
        BY <2>1, <1>1
    <2>4. queue # <<>> => Head(queue') = Head(queue)
        BY <2>1, <1>1
    <2> QED
        BY <2>1, <2>2, <2>3, <2>4, <1>1, <1>2, <1>4
<1> QED
    BY <1>3, <1>4

\* Receiving takes the oldest message.
LEMMA RecvQueue ==
    ASSUME NEW M, NEW q \in Seq(M), q # <<>>
    PROVE  /\ Head(q) \in M
           /\ Tail(q) \in Seq(M)
           /\ Len(Tail(q)) = Len(q) - 1
           /\ Tail(q) # <<>> => Head(Tail(q)) \in M
OBVIOUS

LEMMA StepIInv ==
    ASSUME IInv, [Next]_vars
    PROVE  IInv'
<1> USE StallAssumption DEF IInv
<1>1. CASE UNCHANGED vars
    BY <1>1 DEF TypeOK, Counted, Reported, vars, channelVars, taskVars
<1>2. CASE Tick
    <2>1. TypeOK'
        BY <1>2 DEF Tick, TypeOK
    <2>2. Counted' /\ Reported'
        BY <1>2 DEF Tick, TypeOK, Counted, Reported
    <2> QED
        BY <2>1, <2>2
<1>3. ASSUME NEW d \in Depths, Send(d) PROVE IInv'
    <2>1. /\ running' = running /\ quiet' = 0 /\ exits' = exits
          /\ elapsed' = elapsed /\ timeout_fired' = timeout_fired
          /\ known' = known /\ last' = last /\ reported' = reported
        BY <1>3 DEF Send, taskVars
    <2>2. TypeOK'
        BY <1>3, <2>1, SendQueue DEF TypeOK
    <2>3. Counted'
        <3> SUFFICES ASSUME running', ~lagged'
                     PROVE  queue' # <<>> /\ timeout_fired' <= Head(queue').silence
            BY DEF Counted
        <3>1. /\ queue' # <<>> /\ ~lagged /\ running
              /\ queue = <<>> => Head(queue').silence = quiet
              /\ queue # <<>> => Head(queue') = Head(queue)
            BY <1>3, <2>1, SendQueue
        <3>2. CASE queue = <<>>
            <4>1. timeout_fired + elapsed <= quiet
                BY <3>1, <3>2 DEF Counted
            <4> QED
                BY <2>1, <3>1, <3>2, <4>1 DEF TypeOK
        <3>3. CASE queue # <<>>
            BY <2>1, <3>1, <3>3 DEF Counted
        <3> QED
            BY <3>2, <3>3
    <2>4. Reported'
        BY <2>1 DEF Reported
    <2> QED
        BY <2>2, <2>3, <2>4
<1>4. CASE RecvLagged
    <2>1. running' = FALSE
        BY <1>4 DEF RecvLagged
    <2>2. running' \in BOOLEAN
        BY <2>1
    <2> QED
        BY <1>4, <2>1, <2>2 DEF RecvLagged, TypeOK, Counted, Reported, channelVars,
                                taskVars
<1>5. CASE Recv
    <2>1. /\ known' = TRUE /\ timeout_fired' = 0 /\ elapsed' = 0
          /\ running' = running /\ lagged' = lagged /\ quiet' = quiet
          /\ sent' = sent /\ exits' = exits /\ queue' = Tail(queue)
        BY <1>5 DEF Recv
    <2>2. known' \in BOOLEAN
        BY <2>1
    <2> DEFINE M == [depth : Depths, silence : Nat]
    <2>3. queue \in Seq(M) /\ queue # <<>> /\ Len(queue) \in Nat
        BY <1>5 DEF Recv, TypeOK
    <2>4. \A x \in M : x.depth \in Depths /\ x.silence \in Nat
        OBVIOUS
    <2> HIDE DEF M
    <2>5. /\ Head(queue) \in M /\ Tail(queue) \in Seq(M)
          /\ Len(Tail(queue)) = Len(queue) - 1
          /\ Tail(queue) # <<>> => Head(Tail(queue)) \in M
        BY <2>3, RecvQueue
    <2>6. /\ queue' \in Seq(M)
          /\ Len(queue') <= Capacity
          /\ Head(queue).depth \in Depths
          /\ queue' # <<>> => Head(queue').silence \in Nat
        BY <2>1, <2>3, <2>4, <2>5 DEF TypeOK
    <2>7. reported' \in Seq(Depths)
        BY <1>5, <2>6 DEF Recv, TypeOK
    <2>8. last' \in [kind : {"none", "stall", "recovery"}, duration : Nat]
        <3>1. last' = last
              \/ last' = [kind |-> "recovery", duration |-> timeout_fired]
            BY <1>5 DEF Recv
        <3> QED
            BY <3>1 DEF TypeOK
    <2>9. TypeOK'
        BY <2>1, <2>2, <2>6, <2>7, <2>8 DEF TypeOK, M
    <2>10. Counted'
        <3>1. quiet \in Nat
            BY DEF TypeOK
        <3>2. timeout_fired' + elapsed' <= quiet'
            BY <2>1, <3>1
        <3>3. queue' # <<>> => timeout_fired' <= Head(queue').silence
            BY <2>1, <2>6
        <3> QED
            BY <3>2, <3>3, Zenon DEF Counted
    <2>11. Reported'
        BY <2>1 DEF Reported
    <2> QED
        BY <2>9, <2>10, <2>11
<1>6. CASE Timeout
    <2>1. /\ timeout_fired' = timeout_fired + StallThreshold
          /\ elapsed' = 0 /\ running' = running /\ known' = known
          /\ queue' = queue /\ lagged' = lagged /\ quiet' = quiet
          /\ sent' = sent /\ exits' = exits /\ reported' = reported
          /\ elapsed >= StallThreshold /\ queue = <<>>
        BY <1>6 DEF Timeout, channelVars
    <2>2. last' = IF known THEN [kind |-> "stall", duration |-> timeout_fired']
                  ELSE last
        BY <1>6 DEF Timeout
    <2>3. TypeOK'
        BY <2>1, <2>2 DEF TypeOK
    <2>4. Counted' /\ Reported'
        BY <2>1, <2>2 DEF TypeOK, Counted, Reported
    <2> QED
        BY <2>3, <2>4
<1>7. CASE Exit
    <2>1. running' = FALSE
        BY <1>7 DEF Exit
    <2>2. running' \in BOOLEAN
        BY <2>1
    <2> QED
        BY <1>7, <2>1, <2>2 DEF Exit, TypeOK, Counted, Reported, channelVars, taskVars
<1>8. CASE Restart
    <2>1. running' = TRUE /\ lagged' = FALSE /\ known' = FALSE
        BY <1>8 DEF Restart, Fresh
    <2>2. running' \in BOOLEAN /\ lagged' \in BOOLEAN /\ known' \in BOOLEAN
        BY <2>1
    <2>3. TypeOK'
        BY <1>8, <2>2 DEF Restart, Fresh, NoAlert, TypeOK
    <2>4. Counted' /\ Reported'
        BY <1>8 DEF Restart, Fresh, TypeOK, Counted, Reported
    <2> QED
        BY <2>3, <2>4
<1> QED
    BY <1>1, <1>2, <1>3, <1>4, <1>5, <1>6, <1>7, <1>8 DEF Next, MonitorStep

(***************************************************************************)
(* Every variable of the monitor keeps its type.                           *)
(***************************************************************************)
THEOREM TypeCorrect == Spec => []TypeOK
BY InitIInv, StepIInv, PTL DEF Spec, IInv

\* Only a message or a timeout changes the last alert to one of the two kinds.
LEMMA AlertStep ==
    ASSUME IInv, [Next]_vars, last' # last, last'.kind \in {"stall", "recovery"}
    PROVE  \/ Recv /\ timeout_fired > 0
              /\ last' = [kind |-> "recovery", duration |-> timeout_fired]
           \/ Timeout /\ known
              /\ last' = [kind |-> "stall", duration |-> timeout_fired']
<1>1. CASE Recv
    BY <1>1 DEF Recv, IInv, TypeOK
<1>2. CASE Timeout
    BY <1>2 DEF Timeout
<1>3. CASE Restart
    BY <1>3 DEF Restart, Fresh, NoAlert
<1>4. CASE UNCHANGED vars \/ Tick \/ RecvLagged \/ Exit
    BY <1>4 DEF vars, Tick, RecvLagged, Exit, taskVars
<1>5. ASSUME NEW d \in Depths, Send(d) PROVE FALSE
    BY <1>5 DEF Send, taskVars
<1> QED
    BY <1>1, <1>2, <1>3, <1>4, <1>5 DEF Next, MonitorStep

(***************************************************************************)
(* No alert of the monitor claims a longer silence than there was.         *)
(***************************************************************************)
THEOREM NeverOverstated == Spec => NotOverstated
<1> DEFINE A == last' # last =>
                  /\ last'.kind = "stall" => last'.duration <= quiet
                  /\ last'.kind = "recovery" =>
                        last'.duration <= Head(queue).silence
<1>1. ASSUME IInv, [Next]_vars PROVE A
    <2> SUFFICES ASSUME last' # last, last'.kind \in {"stall", "recovery"}
                 PROVE  /\ last'.kind = "stall" => last'.duration <= quiet
                        /\ last'.kind = "recovery" =>
                              last'.duration <= Head(queue).silence
        OBVIOUS
    <2>1. CASE Recv /\ last' = [kind |-> "recovery", duration |-> timeout_fired]
        BY <1>1, <2>1 DEF Recv, IInv, Counted
    <2>2. CASE Timeout /\ last' = [kind |-> "stall", duration |-> timeout_fired']
        BY <1>1, <2>2, StallAssumption DEF Timeout, IInv, TypeOK, Counted
    <2> QED
        BY <1>1, <2>1, <2>2, AlertStep
<1>2. ASSUME IInv, [Next]_vars PROVE [A]_vars
    BY <1>1, <1>2
<1> QED
    BY InitIInv, StepIInv, <1>2, PTL DEF Spec, NotOverstated

(***************************************************************************)
(* A recovery alert is about the stall that was reported before it, except *)
(* for one that began before the process had seen a block.                 *)
(***************************************************************************)
THEOREM RecoveryFollowsStall == Spec => RecoveryOfStall
<1> DEFINE A == known /\ last' # last /\ last'.kind = "recovery" =>
                  last.kind = "stall" /\ last.duration = last'.duration
<1>1. ASSUME IInv, [Next]_vars PROVE A
    <2> SUFFICES ASSUME known, last' # last, last'.kind = "recovery"
                 PROVE  last.kind = "stall" /\ last.duration = last'.duration
        OBVIOUS
    <2>1. /\ timeout_fired > 0
          /\ last' = [kind |-> "recovery", duration |-> timeout_fired]
        BY <1>1, AlertStep
    <2> QED
        BY <1>1, <2>1 DEF IInv, Reported
<1>2. ASSUME IInv, [Next]_vars PROVE [A]_vars
    BY <1>1, <1>2
<1> QED
    BY InitIInv, StepIInv, <1>2, PTL DEF Spec, RecoveryOfStall
-----------------------------------------------------------------------------
Deep == {d \in Depths : d > 0 /\ d >= ReorgThreshold}

\* The channel holds the last messages that were sent.
Queued ==
    running /\ ~lagged =>
        /\ Len(queue) <= Len(sent)
        /\ \A i \in 1 .. Len(queue) :
              queue[i].depth = sent[Len(sent) - Len(queue) + i]

RInv == Queued /\ DeepReorgsReported

LEMMA InitRInv == Init => RInv
<1> SUFFICES ASSUME Init PROVE RInv
    OBVIOUS
<1>1. queue = <<>> /\ sent = <<>> /\ reported = <<>>
    BY DEF Init
<1>2. SubSeq(sent, 1, Len(sent) - Len(queue)) = <<>>
    BY <1>1
<1>3. DeepReorgsReported
    BY <1>1, <1>2, AmongEmpty DEF DeepReorgsReported
<1>4. Queued
    BY <1>1 DEF Queued
<1> QED
    BY <1>3, <1>4 DEF RInv

\* A prefix does not change when the sequence grows, and a longer prefix is
\* the shorter one with the element after it.
LEMMA PrefixGrows ==
    ASSUME NEW X, NEW s \in Seq(X), NEW x \in X, NEW n \in Nat, n <= Len(s)
    PROVE  /\ SubSeq(Append(s, x), 1, n) = SubSeq(s, 1, n)
           /\ n < Len(s) => SubSeq(s, 1, n + 1) = Append(SubSeq(s, 1, n), s[n + 1])
<1>1. SubSeq(Append(s, x), 1, n) = SubSeq(s, 1, n)
    OBVIOUS
<1>2. n < Len(s) => SubSeq(s, 1, n + 1) = Append(SubSeq(s, 1, n), s[n + 1])
    OBVIOUS
<1> QED
    BY <1>1, <1>2

LEMMA StepRInv ==
    ASSUME IInv, RInv, [Next]_vars
    PROVE  RInv'
<1>1. CASE UNCHANGED <<running, lagged, queue, sent, reported>>
    BY <1>1 DEF RInv, Queued, DeepReorgsReported
<1>2. CASE ~running'
    BY <1>2 DEF RInv, Queued, DeepReorgsReported
<1>3. ASSUME NEW d \in Depths, Send(d) PROVE RInv'
    <2> DEFINE m == [depth |-> d, silence |-> quiet]
               M == [depth : Depths, silence : Nat]
    <2>1. /\ running' = running /\ running /\ reported' = reported
          /\ sent' = Append(sent, d)
          /\ IF Len(queue) = Capacity
             THEN queue' = Append(Tail(queue), m) /\ lagged' = TRUE
             ELSE queue' = Append(queue, m) /\ lagged' = lagged
        BY <1>3 DEF Send, taskVars
    <2>2. m \in M /\ m.depth = d /\ queue \in Seq(M) /\ sent \in Seq(Depths)
        BY DEF IInv, TypeOK
    <2> HIDE DEF m, M
    <2>3. CASE lagged'
        BY <2>3 DEF RInv, Queued, DeepReorgsReported
    <2>4. CASE ~lagged'
        <3>1. /\ queue' = Append(queue, m) /\ ~lagged
            BY <2>1, <2>4
        <3>2. /\ Len(queue') = Len(queue) + 1 /\ Len(queue) \in Nat
              /\ \A i \in 1 .. Len(queue') :
                    queue'[i] = IF i = Len(queue) + 1 THEN m ELSE queue[i]
            BY <2>2, <3>1
        <3>3. /\ Len(sent') = Len(sent) + 1 /\ Len(sent) \in Nat
              /\ \A i \in 1 .. Len(sent') :
                    sent'[i] = IF i = Len(sent) + 1 THEN d ELSE sent[i]
            BY <2>1, <2>2
        <3>4. /\ Len(queue) <= Len(sent)
              /\ \A i \in 1 .. Len(queue) :
                    queue[i].depth = sent[Len(sent) - Len(queue) + i]
              /\ reported = Among(SubSeq(sent, 1, Len(sent) - Len(queue)), Deep)
            BY <2>1, <3>1 DEF RInv, Queued, DeepReorgsReported, Deep
        <3>5. Len(sent') - Len(queue') = Len(sent) - Len(queue)
            BY <3>2, <3>3
        <3>6. Queued'
            <4>1. ASSUME NEW i \in 1 .. Len(queue')
                  PROVE  queue'[i].depth = sent'[Len(sent) - Len(queue) + i]
                <5>1. CASE i = Len(queue) + 1
                    <6>1. Len(sent) - Len(queue) + i = Len(sent) + 1
                        BY <3>2, <3>3, <5>1
                    <6>2. sent'[Len(sent) + 1] = d /\ queue'[i] = m
                        BY <3>2, <3>3, <5>1
                    <6> QED
                        BY <2>2, <6>1, <6>2
                <5>2. CASE i # Len(queue) + 1
                    <6>1. /\ i \in 1 .. Len(queue)
                          /\ Len(sent) - Len(queue) + i \in 1 .. Len(sent)
                        BY <3>2, <3>3, <3>4, <5>2
                    <6>2. /\ queue'[i] = queue[i]
                          /\ sent'[Len(sent) - Len(queue) + i]
                                = sent[Len(sent) - Len(queue) + i]
                        BY <3>2, <3>3, <5>2, <6>1
                    <6> QED
                        BY <3>4, <6>1, <6>2
                <5> QED
                    BY <5>1, <5>2
            <4> QED
                BY <3>2, <3>3, <3>4, <3>5, <4>1 DEF Queued
        <3>7. DeepReorgsReported'
            <4>1. SubSeq(sent', 1, Len(sent) - Len(queue))
                     = SubSeq(sent, 1, Len(sent) - Len(queue))
                <5>1. /\ Len(sent) - Len(queue) \in Nat
                      /\ Len(sent) - Len(queue) <= Len(sent)
                    BY <3>2, <3>3, <3>4
                <5> QED
                    BY <2>1, <2>2, <5>1, PrefixGrows
            <4> QED
                BY <2>1, <3>4, <3>5, <4>1 DEF DeepReorgsReported, Deep
        <3> QED
            BY <3>6, <3>7 DEF RInv
    <2> QED
        BY <2>3, <2>4
<1>4. CASE Recv
    <2> DEFINE M == [depth : Depths, silence : Nat]
               n == Len(sent) - Len(queue)
    <2>1. /\ running' = running /\ lagged' = lagged /\ running /\ ~lagged
          /\ sent' = sent /\ queue' = Tail(queue) /\ queue # <<>>
          /\ reported' = IF Reports(Head(queue).depth)
                         THEN Append(reported, Head(queue).depth) ELSE reported
        BY <1>4 DEF Recv
    <2>2. queue \in Seq(M) /\ sent \in Seq(Depths)
        BY DEF IInv, TypeOK
    <2> HIDE DEF M
    <2>3. /\ Len(queue') = Len(queue) - 1 /\ Len(queue) \in Nat \ {0}
          /\ Len(sent) \in Nat /\ Head(queue) = queue[1]
          /\ \A i \in 1 .. Len(queue') : queue'[i] = queue[i + 1]
        BY <2>1, <2>2
    <2>4. /\ Len(queue) <= Len(sent)
          /\ \A i \in 1 .. Len(queue) : queue[i].depth = sent[n + i]
          /\ reported = Among(SubSeq(sent, 1, n), Deep)
        BY <2>1 DEF RInv, Queued, DeepReorgsReported, Deep
    <2>5. n \in Nat /\ n < Len(sent) /\ Len(sent') - Len(queue') = n + 1
        BY <2>1, <2>3, <2>4
    <2> HIDE DEF n
    <2>6. Queued'
        <3>1. \A i \in 1 .. Len(queue') : queue'[i].depth = sent[(n + 1) + i]
            <4> SUFFICES ASSUME NEW i \in 1 .. Len(queue')
                         PROVE  queue'[i].depth = sent[(n + 1) + i]
                OBVIOUS
            <4>1. i + 1 \in 1 .. Len(queue) /\ n + (i + 1) = (n + 1) + i
                BY <2>3, <2>5
            <4>2. queue[i + 1].depth = sent[n + (i + 1)]
                BY <2>4, <4>1
            <4> QED
                BY <2>3, <4>1, <4>2
        <3>2. Len(queue') <= Len(sent')
            BY <2>1, <2>3, <2>4
        <3>3. \A i \in 1 .. Len(queue') :
                 queue'[i].depth = sent'[Len(sent') - Len(queue') + i]
            BY <2>1, <2>5, <3>1, Zenon
        <3> QED
            BY <3>2, <3>3, Zenon DEF Queued
    <2>7. DeepReorgsReported'
        <3>1. Head(queue).depth = sent[n + 1] /\ sent[n + 1] \in Depths
            <4>1. 1 \in 1 .. Len(queue) /\ n + 1 \in 1 .. Len(sent)
                BY <2>3, <2>5
            <4> QED
                BY <2>2, <2>3, <2>4, <4>1
        <3>2. SubSeq(sent, 1, n + 1) = Append(SubSeq(sent, 1, n), sent[n + 1])
            BY <2>2, <2>5, <3>1, PrefixGrows
        <3>3. SubSeq(sent, 1, n) \in Seq(Depths)
            BY <2>2, <2>5, PrefixIs
        <3>4. /\ sent[n + 1] \in Deep =>
                    Among(SubSeq(sent, 1, n + 1), Deep) =
                        Append(Among(SubSeq(sent, 1, n), Deep), sent[n + 1])
              /\ sent[n + 1] \notin Deep =>
                    Among(SubSeq(sent, 1, n + 1), Deep) =
                        Among(SubSeq(sent, 1, n), Deep)
            <4> DEFINE p == SubSeq(sent, 1, n)
                       y == sent[n + 1]
            <4>1. p \in Seq(Depths) /\ y \in Depths
                BY <3>1, <3>3
            <4>2. SubSeq(sent, 1, n + 1) = Append(p, y)
                BY <3>2
            <4> HIDE DEF p, y
            <4>3. /\ y \in Deep => Among(Append(p, y), Deep) = Append(Among(p, Deep), y)
                  /\ y \notin Deep => Among(Append(p, y), Deep) = Among(p, Deep)
                BY <4>1, AmongTakes, AmongSkips
            <4> QED
                BY <4>2, <4>3, Zenon DEF p, y
        <3>5. Reports(sent[n + 1]) <=> sent[n + 1] \in Deep
            BY <3>1 DEF Reports, Deep
        <3>6. reported' = Among(SubSeq(sent, 1, n + 1), Deep)
            <4>1. CASE sent[n + 1] \in Deep
                BY <2>1, <2>4, <3>1, <3>4, <3>5, <4>1, Zenon
            <4>2. CASE sent[n + 1] \notin Deep
                BY <2>1, <2>4, <3>1, <3>4, <3>5, <4>2, Zenon
            <4> QED
                BY <4>1, <4>2
        <3> QED
            BY <2>1, <2>5, <3>6 DEF DeepReorgsReported, Deep
    <2> QED
        BY <2>6, <2>7 DEF RInv
<1>5. CASE Restart
    <2>1. queue' = <<>> /\ sent' = <<>> /\ reported' = <<>>
        BY <1>5 DEF Restart, Fresh
    <2>2. SubSeq(sent', 1, Len(sent') - Len(queue')) = <<>>
        BY <2>1
    <2>3. DeepReorgsReported'
        BY <2>1, <2>2, AmongEmpty DEF DeepReorgsReported
    <2>4. Queued'
        BY <2>1 DEF Queued
    <2> QED
        BY <2>3, <2>4 DEF RInv
<1>6. CASE UNCHANGED vars \/ Tick \/ Timeout
    BY <1>1, <1>6 DEF vars, Tick, Timeout, channelVars, taskVars
<1>7. CASE RecvLagged \/ Exit
    BY <1>2, <1>7 DEF RecvLagged, Exit
<1> QED
    BY <1>3, <1>4, <1>5, <1>6, <1>7 DEF Next, MonitorStep

(***************************************************************************)
(* The reorg alerts of a process are the reorgs of at least the threshold  *)
(* (`retracted.len() >= reorg_depth_threshold`) among the messages it has  *)
(* received, each once and in order, and it receives none past a lost one  *)
(* (DeepReorgsReported).                                                   *)
(***************************************************************************)
THEOREM ReorgsReportedOnce == Spec => []DeepReorgsReported
<1>1. Init => IInv /\ RInv
    BY InitIInv, InitRInv
<1>2. IInv /\ RInv /\ [Next]_vars => IInv' /\ RInv'
    BY StepIInv, StepRInv
<1>3. RInv => DeepReorgsReported
    BY DEF RInv
<1> QED
    BY <1>1, <1>2, <1>3, PTL DEF Spec
=============================================================================
