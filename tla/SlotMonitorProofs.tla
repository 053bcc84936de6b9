------------------------ MODULE SlotMonitorProofs --------------------------
(***************************************************************************)
(* The durations the slot monitor reports, for every timeout, threshold,   *)
(* window, channel capacity and schedule.                                  *)
(***************************************************************************)
EXTENDS SlotMonitor, Lemmas

Details == [slot : Nat, duration : Nat]

\* f[i] is the sum of the first i durations of vec.
Sums(f, vec) ==
    f = [i \in 0 .. Len(vec) |-> IF i = 0 THEN 0 ELSE f[i - 1] + vec[i].duration]

LEMMA SumsAre ==
    ASSUME NEW vec \in Seq(Details), NEW f, Sums(f, vec)
    PROVE  /\ f[0] = 0
           /\ \A i \in 1 .. Len(vec) : f[i] = f[i - 1] + vec[i].duration
           /\ \A i \in 0 .. Len(vec) : f[i] \in Nat
<1>1. f[0] = 0 /\ \A i \in 1 .. Len(vec) : f[i] = f[i - 1] + vec[i].duration
    BY DEF Sums
<1>2. \A i \in 1 .. Len(vec) : vec[i].duration \in Nat
    <2>1. \A i \in 1 .. Len(vec) : vec[i] \in Details
        OBVIOUS
    <2> QED
        BY <2>1 DEF Details
<1> DEFINE T == {n \in Nat : n <= Len(vec) => f[n] \in Nat}
<1>3. 0 \in T
    BY <1>1
<1>4. ASSUME NEW n \in Nat, n \in T PROVE n + 1 \in T
    <2>1. SUFFICES ASSUME n + 1 <= Len(vec) PROVE f[n + 1] \in Nat
        OBVIOUS
    <2>2. n <= Len(vec) /\ n + 1 \in 1 .. Len(vec) /\ (n + 1) - 1 = n
        BY <2>1
    <2>3. f[n] \in Nat /\ vec[n + 1].duration \in Nat
        BY <1>2, <1>4, <2>2
    <2>4. f[n + 1] = f[n] + vec[n + 1].duration
        <3>1. f[n + 1] = f[(n + 1) - 1] + vec[n + 1].duration
            BY <1>1, <2>2, Zenon
        <3> QED
            BY <2>2, <3>1, Zenon
    <2>5. PICK a \in Nat, b \in Nat : a = f[n] /\ b = vec[n + 1].duration
        BY <2>3, Zenon
    <2>6. a + b \in Nat
        OBVIOUS
    <2> QED
        BY <2>4, <2>5, <2>6, Zenon
<1>5. Nat \subseteq T
    <2> HIDE DEF T
    <2> QED
        BY <1>3, <1>4, NatClosed
<1> QED
    BY <1>1, <1>5

LEMMA SumsExist ==
    ASSUME NEW vec \in Seq(Details)
    PROVE  \E f : Sums(f, vec)
<1> DEFINE G(f, n) ==
        f = [i \in 0 .. n |-> IF i = 0 THEN 0 ELSE f[i - 1] + vec[i].duration]
<1> DEFINE T == {n \in Nat : \E f : G(f, n)}
<1>1. 0 \in T
    <2>1. G([i \in 0 .. 0 |-> 0], 0)
        OBVIOUS
    <2> QED
        BY <2>1
<1>2. ASSUME NEW n \in Nat, n \in T PROVE n + 1 \in T
    <2>1. PICK f : G(f, n)
        BY <1>2
    <2> DEFINE e == [i \in 0 .. n + 1 |->
                        IF i = n + 1 THEN f[n] + vec[i].duration ELSE f[i]]
    <2>2. ASSUME NEW i \in 0 .. n + 1
          PROVE  e[i] = IF i = 0 THEN 0 ELSE e[i - 1] + vec[i].duration
        <3>1. \A j \in 0 .. n :
                f[j] = IF j = 0 THEN 0 ELSE f[j - 1] + vec[j].duration
            BY <2>1
        <3>2. CASE i = n + 1
            <4>1. e[i] = f[n] + vec[i].duration /\ e[i - 1] = f[n] /\ i # 0
                BY <3>2
            <4> QED
                BY <4>1
        <3>3. CASE i # n + 1
            <4>1. e[i] = f[i] /\ i \in 0 .. n /\ (i # 0 => e[i - 1] = f[i - 1])
                BY <3>3
            <4> QED
                BY <3>1, <4>1
        <3> QED
            BY <3>2, <3>3
    <2>3. G(e, n + 1)
        BY <2>2
    <2>4. \E x : G(x, n + 1)
        <3> HIDE DEF e, G
        <3> QED
            BY <2>3
    <2> HIDE DEF G
    <2> QED
        BY <2>4
<1>3. Nat \subseteq T
    <2> HIDE DEF T
    <2> QED
        BY <1>1, <1>2, NatClosed
<1> QED
    BY <1>3 DEF Sums

LEMMA TotalIsSum ==
    ASSUME NEW vec \in Seq(Details)
    PROVE  \E f : Sums(f, vec) /\ Total(vec) = f[Len(vec)]
<1> DEFINE f == CHOOSE f : Sums(f, vec)
<1>1. Sums(f, vec)
    BY SumsExist
<1>2. Total(vec) = f[Len(vec)]
    BY DEF Total, Sums
<1> QED
    BY <1>1, <1>2

\* Vectors that agree on their first k slots agree on the sum of these.
LEMMA SumsAgree ==
    ASSUME NEW v \in Seq(Details), NEW w \in Seq(Details), NEW f, NEW g,
           Sums(f, v), Sums(g, w), NEW k \in Nat, k <= Len(v), k <= Len(w),
           \A i \in 1 .. k : v[i] = w[i]
    PROVE  f[k] = g[k]
<1> DEFINE T == {n \in Nat : n <= k => f[n] = g[n]}
<1>1. f[0] = 0 /\ g[0] = 0
    BY SumsAre
<1>2. ASSUME NEW n \in Nat, n \in T PROVE n + 1 \in T
    <2>1. SUFFICES ASSUME n + 1 <= k PROVE f[n + 1] = g[n + 1]
        OBVIOUS
    <2>2. /\ n + 1 \in 1 .. Len(v) /\ n + 1 \in 1 .. Len(w) /\ n + 1 \in 1 .. k
          /\ (n + 1) - 1 = n /\ n <= k
        BY <2>1
    <2>3. f[n + 1] = f[n] + v[n + 1].duration /\ g[n + 1] = g[n] + w[n + 1].duration
        BY <2>2, SumsAre
    <2> QED
        BY <1>2, <2>2, <2>3
<1>3. 0 \in T
    BY <1>1
<1>4. Nat \subseteq T
    <2> HIDE DEF T
    <2> QED
        BY <1>2, <1>3, NatClosed
<1> QED
    BY <1>4

\* The total of a vector that a slot is pushed on grows by its duration.
LEMMA TotalAppend ==
    ASSUME NEW v \in Seq(Details), NEW x \in Details
    PROVE  /\ Total(v) \in Nat
           /\ Total(Append(v, x)) = Total(v) + x.duration
<1> DEFINE w == Append(v, x)
<1>1. /\ w \in Seq(Details) /\ Len(w) = Len(v) + 1 /\ Len(v) \in Nat
      /\ w[Len(w)] = x /\ \A i \in 1 .. Len(v) : v[i] = w[i]
    OBVIOUS
<1> HIDE DEF w
<1>2. PICK f : Sums(f, v) /\ Total(v) = f[Len(v)]
    BY TotalIsSum
<1>3. PICK g : Sums(g, w) /\ Total(w) = g[Len(w)]
    BY <1>1, TotalIsSum
<1>4. f[Len(v)] = g[Len(v)]
    BY <1>1, <1>2, <1>3, SumsAgree
<1>5. g[Len(w)] = g[Len(w) - 1] + w[Len(w)].duration
    BY <1>1, <1>3, SumsAre
<1>6. f[Len(v)] \in Nat
    BY <1>1, <1>2, SumsAre
<1>7. Len(w) - 1 = Len(v)
    BY <1>1
<1> QED
    BY <1>1, <1>2, <1>3, <1>4, <1>5, <1>6, <1>7 DEF w

\* The total of a vector is no less than that of its first slots.
LEMMA TotalPrefix ==
    ASSUME NEW v \in Seq(Details), v # <<>>
    PROVE  /\ SubSeq(v, 1, Len(v) - 1) \in Seq(Details)
           /\ Len(SubSeq(v, 1, Len(v) - 1)) = Len(v) - 1
           /\ Total(SubSeq(v, 1, Len(v) - 1)) <= Total(v)
<1> DEFINE w == SubSeq(v, 1, Len(v) - 1)
<1>1. Len(v) \in Nat /\ Len(v) # 0 /\ Len(v) - 1 \in Nat
    OBVIOUS
<1>2. /\ w \in Seq(Details) /\ Len(w) = Len(v) - 1
      /\ \A i \in 1 .. Len(w) : w[i] = v[i]
    <2>1. Len(v) - 1 <= Len(v)
        BY <1>1
    <2> QED
        BY <1>1, <2>1, PrefixIs
<1> HIDE DEF w
<1>3. PICK f : Sums(f, v) /\ Total(v) = f[Len(v)]
    BY TotalIsSum
<1>4. PICK g : Sums(g, w) /\ Total(w) = g[Len(w)]
    BY <1>2, TotalIsSum
<1>5. g[Len(w)] = f[Len(v) - 1]
    BY <1>1, <1>2, <1>3, <1>4, SumsAgree
<1>6. f[Len(v)] = f[Len(v) - 1] + v[Len(v)].duration
    BY <1>1, <1>3, SumsAre
<1>7. v[Len(v)] \in Details
    <2>1. Len(v) \in 1 .. Len(v)
        BY <1>1
    <2> QED
        BY <2>1, <1>1
<1>8. v[Len(v)].duration \in Nat
    BY <1>7 DEF Details
<1>9. f[Len(v) - 1] \in Nat
    BY <1>1, <1>3, SumsAre
<1>10. Total(w) <= Total(v)
    BY <1>3, <1>4, <1>5, <1>6, <1>8, <1>9
<1> QED
    BY <1>2, <1>10 DEF w

\* Pushing a slot adds at most its duration.
LEMMA TotalForcePush ==
    ASSUME NEW v \in Seq(Details), Len(v) <= Window, NEW x \in Details
    PROVE  /\ ForcePush(v, x) \in Seq(Details)
           /\ ForcePush(v, x) # <<>>
           /\ Len(ForcePush(v, x)) <= Window
           /\ Total(ForcePush(v, x)) <= Total(v) + x.duration
<1>1. /\ Len(v) \in Nat /\ Window \in Nat \ {0} /\ x.duration \in Nat
      /\ Total(v) \in Nat
    BY SlotAssumption, TotalAppend DEF Details
<1>2. CASE Len(v) = Window
    <2> DEFINE w == SubSeq(v, 1, Len(v) - 1)
    <2>1. v # <<>> /\ ForcePush(v, x) = Append(w, x)
        BY <1>1, <1>2 DEF ForcePush
    <2>2. /\ w \in Seq(Details) /\ Len(w) = Len(v) - 1
          /\ Total(w) <= Total(v)
        BY <2>1, TotalPrefix
    <2> HIDE DEF w
    <2>3. Total(w) \in Nat /\ Total(Append(w, x)) = Total(w) + x.duration
        BY <2>2, TotalAppend
    <2>4. /\ Append(w, x) \in Seq(Details) /\ Append(w, x) # <<>>
          /\ Len(Append(w, x)) = Len(w) + 1
        BY <2>2
    <2>5. Total(Append(w, x)) <= Total(v) + x.duration
        BY <1>1, <2>2, <2>3
    <2> QED
        BY <1>1, <1>2, <2>1, <2>2, <2>4, <2>5
<1>3. CASE Len(v) # Window
    <2>1. ForcePush(v, x) = Append(v, x)
        BY <1>3 DEF ForcePush
    <2>2. Total(Append(v, x)) = Total(v) + x.duration
        BY TotalAppend
    <2>3. /\ Append(v, x) \in Seq(Details) /\ Append(v, x) # <<>>
          /\ Len(Append(v, x)) = Len(v) + 1
        OBVIOUS
    <2> QED
        BY <1>1, <1>3, <2>1, <2>2, <2>3
<1> QED
    BY <1>2, <1>3
-----------------------------------------------------------------------------
\* Slots arrive in the order of the channel, after the last accepted one.
Arrivals ==
    /\ started <= last_instant /\ last_instant <= now
    /\ \A i \in 1 .. Len(queue) :
          /\ last_instant <= queue[i].at /\ queue[i].at <= now
          /\ \A j \in i .. Len(queue) : queue[i].at <= queue[j].at

\* The timeouts before the first slot are the ones counted so far.
EarlyCounted == slots = <<>> => early = timeout_fired

\* The time counted since the last accepted slot has passed since it arrived.
Counted ==
    running /\ ~lagged /\ slots # <<>> =>
        /\ queue = <<>> => timeout_fired + elapsed <= now - last_instant + early
        /\ queue # <<>> => timeout_fired <= queue[1].at - last_instant + early

\* The slot times add up to the time between the start and the last arrival.
Summed == Total(slots) <= last_instant - started

IInv ==
    TypeOK /\ Arrivals /\ EarlyCounted /\ Counted /\ Summed

LEMMA TotalEmpty == Total(<<>>) = 0
<1>1. <<>> \in Seq(Details) /\ Len(<<>>) = 0
    OBVIOUS
<1>2. PICK f : Sums(f, <<>>) /\ Total(<<>>) = f[0]
    BY <1>1, TotalIsSum
<1> QED
    BY <1>1, <1>2, SumsAre

LEMMA InitIInv == Init => IInv
<1> SUFFICES ASSUME Init PROVE IInv
    OBVIOUS
<1> USE SlotAssumption DEF Init
<1>1. running \in BOOLEAN /\ lagged \in BOOLEAN
    OBVIOUS
<1>2. TypeOK
    BY <1>1 DEF TypeOK, NoAlert, NotSlow
<1>3. Arrivals /\ EarlyCounted /\ Counted
    BY DEF Arrivals, EarlyCounted, Counted
<1>4. Summed
    BY TotalEmpty DEF Summed
<1> QED
    BY <1>2, <1>3, <1>4 DEF IInv

Entry == [slot : Nat, at : Nat]

LEMMA QueueEntries ==
    ASSUME TypeOK
    PROVE  \A i \in 1 .. Len(queue) :
              queue[i] \in Entry /\ queue[i].at \in Nat /\ queue[i].slot \in Nat
<1>1. queue \in Seq(Entry)
    BY DEF TypeOK, Entry
<1>2. \A i \in 1 .. Len(queue) : queue[i] \in Entry
    BY <1>1
<1> QED
    BY <1>2 DEF Entry

\* A new slot goes to the end of the channel, which keeps its bound and loses
\* its first entry only when it lags.
LEMMA StepGossip ==
    ASSUME IInv, NEW s \in 1 .. MaxSlot, Gossip(s)
    PROVE  IInv'
<1> DEFINE m == [slot |-> s, at |-> now]
<1>1. /\ m \in Entry /\ m.at = now /\ now \in Nat
      /\ queue \in Seq(Entry) /\ Len(queue) \in Nat /\ Len(queue) <= Capacity
      /\ Capacity \in Nat \ {0}
    BY SlotAssumption DEF IInv, TypeOK, Entry
<1>2. /\ UNCHANGED <<now, running, elapsed, timeout_fired, last_instant, slots,
                     last, slow, average, started, early, exits>>
      /\ sent' = sent + 1 /\ running
      /\ IF Len(queue) = Capacity
         THEN queue' = Append(Tail(queue), m) /\ lagged' = TRUE
         ELSE queue' = Append(queue, m) /\ lagged' = lagged
    BY DEF Gossip, taskVars
<1> HIDE DEF m
<1>3. /\ queue' \in Seq(Entry) /\ Len(queue') <= Capacity /\ queue' # <<>>
      /\ lagged' \in BOOLEAN /\ Arrivals'
      /\ ~lagged' => ~lagged /\ queue'[1] = IF queue = <<>> THEN m ELSE queue[1]
    <2>1. CASE Len(queue) = Capacity
        <3> DEFINE t == Tail(queue)
        <3>1. /\ t \in Seq(Entry) /\ Len(t) = Len(queue) - 1
              /\ \A i \in 1 .. Len(t) : t[i] = queue[i + 1]
            BY <1>1, <2>1
        <3>2. queue' = Append(t, m) /\ lagged' = TRUE
            BY <1>2, <2>1
        <3> HIDE DEF t
        <3>3. /\ queue' \in Seq(Entry) /\ Len(queue') = Len(queue)
              /\ \A i \in 1 .. Len(queue') :
                    queue'[i] = IF i = Len(queue) THEN m ELSE queue[i + 1]
              /\ queue' # <<>>
            BY <1>1, <2>1, <3>1, <3>2
        <3>4. lagged' \in BOOLEAN
            BY <3>2
        <3>5. Arrivals'
            <4>1. \A i \in 1 .. Len(queue) :
                    /\ queue[i].at \in Nat
                    /\ last_instant <= queue[i].at /\ queue[i].at <= now
                    /\ \A j \in i .. Len(queue) : queue[i].at <= queue[j].at
                BY <1>1, QueueEntries DEF IInv, Arrivals
            <4>2. ASSUME NEW i \in 1 .. Len(queue')
                  PROVE  /\ last_instant <= queue'[i].at /\ queue'[i].at <= now
                         /\ \A j \in i .. Len(queue') : queue'[i].at <= queue'[j].at
                <5>1. last_instant <= now /\ last_instant \in Nat
                    BY DEF IInv, TypeOK, Arrivals
                <5>2. /\ i \in 1 .. Len(queue) /\ i <= Len(queue)
                      /\ i # Len(queue) => i + 1 \in 1 .. Len(queue)
                    BY <1>1, <3>3
                <5>3. ASSUME NEW j \in i .. Len(queue')
                      PROVE  queue'[i].at <= queue'[j].at
                    <6>1. /\ j \in 1 .. Len(queue)
                          /\ j # Len(queue) => /\ j + 1 \in i + 1 .. Len(queue)
                                               /\ i + 1 \in 1 .. Len(queue)
                          /\ j = Len(queue) => queue'[j] = m
                          /\ j # Len(queue) => queue'[j] = queue[j + 1]
                        BY <1>1, <3>3, <5>2
                    <6>2. CASE j = Len(queue)
                        BY <1>1, <3>3, <4>1, <5>2, <6>1, <6>2
                    <6>3. CASE j # Len(queue)
                        <7>1. i # Len(queue)
                            BY <1>1, <5>2, <6>1, <6>3
                        <7> QED
                            BY <3>3, <4>1, <5>2, <6>1, <6>3, <7>1
                    <6> QED
                        BY <6>2, <6>3
                <5> QED
                    BY <1>1, <3>3, <4>1, <5>1, <5>2, <5>3
            <4> QED
                BY <1>2, <4>2 DEF IInv, Arrivals
        <3> QED
            BY <2>1, <3>2, <3>3, <3>4, <3>5
    <2>2. CASE Len(queue) # Capacity
        <3>1. queue' = Append(queue, m) /\ lagged' = lagged
            BY <1>2, <2>2
        <3>2. /\ queue' \in Seq(Entry) /\ Len(queue') = Len(queue) + 1
              /\ \A i \in 1 .. Len(queue') :
                    queue'[i] = IF i = Len(queue) + 1 THEN m ELSE queue[i]
              /\ queue' # <<>>
            BY <1>1, <3>1
        <3>3. Arrivals'
            <4>1. \A i \in 1 .. Len(queue) :
                    /\ queue[i].at \in Nat
                    /\ last_instant <= queue[i].at /\ queue[i].at <= now
                    /\ \A j \in i .. Len(queue) : queue[i].at <= queue[j].at
                BY <1>1, QueueEntries DEF IInv, Arrivals
            <4>2. ASSUME NEW i \in 1 .. Len(queue')
                  PROVE  /\ last_instant <= queue'[i].at /\ queue'[i].at <= now
                         /\ \A j \in i .. Len(queue') : queue'[i].at <= queue'[j].at
                <5>1. last_instant <= now /\ last_instant \in Nat
                    BY DEF IInv, TypeOK, Arrivals
                <5>2. i # Len(queue) + 1 => i \in 1 .. Len(queue)
                    BY <1>1, <3>2
                <5>3. ASSUME NEW j \in i .. Len(queue')
                      PROVE  queue'[i].at <= queue'[j].at
                    <6>1. /\ j \in 1 .. Len(queue')
                          /\ j # Len(queue) + 1 =>
                                j \in i .. Len(queue) /\ i # Len(queue) + 1
                        BY <1>1, <3>2
                    <6>2. CASE j = Len(queue) + 1
                        BY <1>1, <3>2, <4>1, <5>2, <6>1, <6>2
                    <6>3. CASE j # Len(queue) + 1
                        BY <3>2, <4>1, <5>2, <6>1, <6>3
                    <6> QED
                        BY <6>2, <6>3
                <5> QED
                    BY <1>1, <3>2, <4>1, <5>1, <5>2, <5>3
            <4> QED
                BY <1>2, <4>2 DEF IInv, Arrivals
        <3>4. queue'[1] = IF queue = <<>> THEN m ELSE queue[1]
            BY <1>1, <3>2
        <3>5. lagged' \in BOOLEAN
            BY <3>1 DEF IInv, TypeOK
        <3> QED
            BY <1>1, <2>2, <3>1, <3>2, <3>3, <3>4, <3>5
    <2> QED
        BY <2>1, <2>2
<1>4. TypeOK'
    BY <1>2, <1>3 DEF IInv, TypeOK, Entry
<1>5. Counted'
    <2> SUFFICES ASSUME ~lagged', slots # <<>>
                 PROVE  timeout_fired <= queue'[1].at - last_instant + early
        BY <1>2, <1>3 DEF Counted
    <2>1. ~lagged /\ queue'[1] = IF queue = <<>> THEN m ELSE queue[1]
        BY <1>3
    <2>2. CASE queue = <<>>
        <3>1. timeout_fired + elapsed <= now - last_instant + early
            BY <1>2, <2>1, <2>2 DEF IInv, Counted
        <3>2. /\ timeout_fired \in Nat /\ elapsed \in Nat /\ now \in Nat
              /\ last_instant \in Nat /\ early \in Nat
            BY DEF IInv, TypeOK
        <3>3. queue'[1].at = now
            BY <1>1, <2>1, <2>2
        <3> QED
            BY <3>1, <3>2, <3>3
    <2>3. CASE queue # <<>>
        BY <1>2, <2>1, <2>3 DEF IInv, Counted
    <2> QED
        BY <2>2, <2>3
<1> QED
    BY <1>2, <1>3, <1>4, <1>5 DEF IInv, EarlyCounted, Summed

LEMMA NumberTypes ==
    ASSUME IInv
    PROVE  /\ now \in Nat /\ elapsed \in Nat /\ timeout_fired \in Nat
           /\ last_instant \in Nat /\ started \in Nat /\ early \in Nat
           /\ last \in [kind : {"none", "stall", "recovery"}, slot : Nat,
                        duration : Nat]
           /\ slow \in [slot : Nat, slot_time : Nat] /\ average \in Nat
           /\ SlotTimeout \in Nat \ {0} /\ PerSlot \in Nat
BY SlotAssumption DEF IInv, TypeOK

\* Receiving takes the oldest entry; the others came no earlier.
LEMMA ReceivedQueue ==
    ASSUME IInv, Received, last_instant' \in {last_instant, Head(queue).at}
    PROVE  /\ queue' \in Seq(Entry) /\ Len(queue') <= Capacity
           /\ Head(queue) = queue[1] /\ 1 \in 1 .. Len(queue)
           /\ Head(queue).slot \in Nat /\ Head(queue).at \in Nat
           /\ last_instant <= Head(queue).at /\ Head(queue).at <= now
           /\ queue' # <<>> => /\ queue'[1].at \in Nat
                               /\ Head(queue).at <= queue'[1].at
           /\ Arrivals'
<1>1. /\ queue \in Seq(Entry) /\ queue # <<>> /\ Len(queue) \in Nat
      /\ queue' = Tail(queue) /\ now' = now /\ started' = started
      /\ Len(queue) <= Capacity /\ Capacity \in Nat
      /\ now \in Nat /\ started \in Nat /\ last_instant \in Nat
    BY SlotAssumption DEF IInv, TypeOK, Entry, Received
<1>2. /\ Head(queue) = queue[1] /\ 1 \in 1 .. Len(queue)
      /\ Tail(queue) \in Seq(Entry) /\ Len(Tail(queue)) = Len(queue) - 1
    BY <1>1
<1>3. \A k \in 1 .. Len(Tail(queue)) :
        Tail(queue)[k] = queue[k + 1] /\ k + 1 \in 1 .. Len(queue)
    BY <1>1
<1>4. \A k \in 1 .. Len(queue) :
        /\ queue[k].at \in Nat /\ queue[k].slot \in Nat
        /\ last_instant <= queue[k].at /\ queue[k].at <= now
        /\ \A j \in k .. Len(queue) : queue[k].at <= queue[j].at
    BY QueueEntries DEF IInv, Arrivals
<1>5. \A k \in 1 .. Len(queue) : queue[1].at <= queue[k].at
    BY <1>1, <1>2, <1>4
<1>6. Arrivals'
    <2>1. started <= last_instant' /\ last_instant' <= now /\ last_instant' \in Nat
        BY <1>1, <1>2, <1>4 DEF IInv, Arrivals
    <2>2. ASSUME NEW k \in 1 .. Len(queue')
          PROVE  /\ last_instant' <= queue'[k].at /\ queue'[k].at <= now
                 /\ \A j \in k .. Len(queue') : queue'[k].at <= queue'[j].at
        <3>1. queue'[k] = queue[k + 1] /\ k + 1 \in 1 .. Len(queue)
            BY <1>1, <1>3
        <3>2. last_instant' <= queue'[k].at /\ queue'[k].at <= now
            BY <1>1, <1>2, <1>4, <1>5, <3>1
        <3>3. ASSUME NEW j \in k .. Len(queue') PROVE queue'[k].at <= queue'[j].at
            <4>1. /\ j \in 1 .. Len(queue') /\ j + 1 \in k + 1 .. Len(queue)
                BY <1>1, <1>2
            <4>2. queue'[j] = queue[j + 1]
                BY <1>1, <1>3, <4>1
            <4> QED
                BY <1>4, <3>1, <4>1, <4>2
        <3> QED
            BY <3>2, <3>3
    <2> QED
        BY <1>1, <2>1, <2>2 DEF Arrivals
<1>7. queue' # <<>> => queue'[1].at \in Nat /\ Head(queue).at <= queue'[1].at
    <2> SUFFICES ASSUME queue' # <<>>
                 PROVE  queue'[1].at \in Nat /\ Head(queue).at <= queue'[1].at
        OBVIOUS
    <2>1. 1 \in 1 .. Len(Tail(queue))
        BY <1>1, <1>2
    <2>2. queue'[1] = queue[1 + 1] /\ 1 + 1 \in 1 .. Len(queue)
        BY <1>1, <1>3, <2>1
    <2> QED
        BY <1>2, <1>4, <1>5, <2>2
<1> QED
    BY <1>1, <1>2, <1>4, <1>6, <1>7

\* What Received leaves alone.
LEMMA ReceivedKeeps ==
    ASSUME IInv, Received
    PROVE  /\ running /\ ~lagged /\ elapsed' = 0
           /\ UNCHANGED <<now, running, lagged, sent, started, exits>>
BY DEF Received

LEMMA StepRecvFirst ==
    ASSUME IInv, RecvFirst
    PROVE  IInv'
<1> DEFINE m == Head(queue)
           x == [slot |-> m.slot, duration |-> SlotTime(m)]
<1>1. /\ Received /\ slots = <<>> /\ last_instant' = m.at
      /\ slots' = ForcePush(slots, x)
      /\ UNCHANGED <<timeout_fired, last, slow, average, early>>
    BY DEF RecvFirst
<1>2. /\ queue' \in Seq(Entry) /\ Len(queue') <= Capacity
      /\ m.slot \in Nat /\ m.at \in Nat
      /\ last_instant <= m.at /\ m.at <= now
      /\ queue' # <<>> => queue'[1].at \in Nat /\ m.at <= queue'[1].at
      /\ Arrivals'
    BY <1>1, ReceivedQueue
<1>3. /\ running /\ ~lagged /\ elapsed' = 0
      /\ UNCHANGED <<now, running, lagged, sent, started, exits>>
    BY <1>1, ReceivedKeeps
<1>4. x \in Details /\ x.duration = m.at - last_instant
    <2>0. last_instant \in Nat
        BY NumberTypes, Zenon
    <2>1. SlotTime(m) \in Nat /\ SlotTime(m) = m.at - last_instant
        <3> HIDE DEF m
        <3> QED
            BY <1>2, <2>0 DEF SlotTime
    <2> HIDE DEF m
    <2> QED
        BY <1>2, <2>1 DEF Details
<1>5. slots \in Seq(Details) /\ Len(slots) <= Window
    BY DEF IInv, TypeOK, Details
<1> HIDE DEF x, m
<1>6. /\ slots' \in Seq(Details) /\ slots' # <<>> /\ Len(slots') <= Window
      /\ Total(slots') <= Total(slots) + x.duration
    BY <1>1, <1>4, <1>5, TotalForcePush
<1>7. Total(slots) \in Nat /\ Total(slots') \in Nat
    BY <1>4, <1>5, <1>6, TotalAppend
<1>8. TypeOK'
    BY <1>1, <1>2, <1>3, <1>6 DEF IInv, TypeOK, Entry, Details
<1>9. Counted'
    <2>1. early = timeout_fired /\ timeout_fired \in Nat /\ now \in Nat
        BY <1>1 DEF IInv, TypeOK, EarlyCounted
    <2>2. timeout_fired' = timeout_fired /\ early' = early /\ now' = now /\ last_instant' = m.at
        BY <1>1, <1>3
    <2>3. timeout_fired + 0 <= now - m.at + early
        BY <1>2, <2>1
    <2>4. queue' # <<>> => timeout_fired <= queue'[1].at - m.at + early
        BY <1>2, <2>1
    <2> QED
        BY <1>3, <2>2, <2>3, <2>4 DEF Counted
<1>10. Summed'
    <2>1. Total(slots) <= last_instant - started
        BY DEF IInv, Summed
    <2>2. last_instant \in Nat /\ started \in Nat /\ m.at \in Nat
        BY <1>2, NumberTypes
    <2>3. Total(slots') <= m.at - started
        BY <1>4, <1>6, <1>7, <2>1, <2>2
    <2>4. last_instant' = m.at /\ started' = started
        BY <1>1, <1>3
    <2> QED
        BY <2>3, <2>4 DEF Summed
<1> QED
    BY <1>1, <1>2, <1>6, <1>8, <1>9, <1>10 DEF IInv, EarlyCounted

LEMMA StepRecvOther ==
    ASSUME IInv, RecvOther
    PROVE  IInv'
<1> DEFINE m == Head(queue)
<1>1. /\ Received /\ slots # <<>>
      /\ UNCHANGED <<timeout_fired, last_instant, slots, last, slow, average, early>>
    BY DEF RecvOther
<1>2. /\ queue' \in Seq(Entry) /\ Len(queue') <= Capacity
      /\ m = queue[1] /\ 1 \in 1 .. Len(queue)
      /\ m.slot \in Nat /\ m.at \in Nat
      /\ last_instant <= m.at /\ m.at <= now
      /\ queue' # <<>> => queue'[1].at \in Nat /\ m.at <= queue'[1].at
      /\ Arrivals'
    BY <1>1, ReceivedQueue
<1>3. /\ running /\ ~lagged /\ elapsed' = 0 /\ queue # <<>>
      /\ UNCHANGED <<now, running, lagged, sent, started, exits>>
    BY <1>1, ReceivedKeeps DEF Received
<1> HIDE DEF m
<1>4. TypeOK'
    BY <1>1, <1>2, <1>3 DEF IInv, TypeOK, Entry
<1>5. timeout_fired <= m.at - last_instant + early
    BY <1>1, <1>2, <1>3 DEF IInv, Counted
<1>6. Counted'
    <2>1. /\ timeout_fired \in Nat /\ last_instant \in Nat /\ early \in Nat
          /\ now \in Nat
        BY NumberTypes
    <2>2. timeout_fired + 0 <= now - last_instant + early
        BY <1>2, <1>5, <2>1
    <2>3. queue' # <<>> => timeout_fired <= queue'[1].at - last_instant + early
        BY <1>2, <1>5, <2>1
    <2>4. /\ timeout_fired' = timeout_fired /\ elapsed' = 0 /\ now' = now
          /\ last_instant' = last_instant /\ early' = early
        BY <1>1, <1>3
    <2> QED
        BY <2>2, <2>3, <2>4 DEF Counted
<1> QED
    BY <1>1, <1>2, <1>3, <1>4, <1>6 DEF IInv, EarlyCounted, Summed

LEMMA StepRecvNext ==
    ASSUME IInv, RecvNext
    PROVE  IInv'
<1> DEFINE m == Head(queue)
           x == [slot |-> m.slot, duration |-> SlotTime(m)]
<1>1. /\ Received /\ slots # <<>> /\ last_instant' = m.at
      /\ slots' = ForcePush(slots, x)
      /\ timeout_fired' = 0 /\ early' = 0
      /\ last' \in {last, [kind |-> "recovery", slot |-> m.slot,
                           duration |-> timeout_fired]}
      /\ slow' \in {slow, [slot |-> m.slot, slot_time |-> SlotTime(m)]}
      /\ average' \in {m.slot, average}
    BY DEF RecvNext, TimeoutTaken
<1>2. /\ queue' \in Seq(Entry) /\ Len(queue') <= Capacity
      /\ m.slot \in Nat /\ m.at \in Nat
      /\ last_instant <= m.at /\ m.at <= now
      /\ queue' # <<>> => queue'[1].at \in Nat /\ m.at <= queue'[1].at
      /\ Arrivals'
    BY <1>1, ReceivedQueue
<1>3. /\ running /\ ~lagged /\ elapsed' = 0
      /\ UNCHANGED <<now, running, lagged, sent, started, exits>>
    BY <1>1, ReceivedKeeps
<1>4. x \in Details /\ x.duration = m.at - last_instant /\ SlotTime(m) \in Nat
    <2>0. last_instant \in Nat
        BY NumberTypes, Zenon
    <2>1. SlotTime(m) \in Nat /\ SlotTime(m) = m.at - last_instant
        <3> HIDE DEF m
        <3> QED
            BY <1>2, <2>0 DEF SlotTime
    <2> HIDE DEF m
    <2> QED
        BY <1>2, <2>1 DEF Details
<1>5. slots \in Seq(Details) /\ Len(slots) <= Window
    BY DEF IInv, TypeOK, Details
<1> HIDE DEF x, m
<1>6. /\ slots' \in Seq(Details) /\ slots' # <<>> /\ Len(slots') <= Window
      /\ Total(slots') <= Total(slots) + x.duration
    BY <1>1, <1>4, <1>5, TotalForcePush
<1>7. Total(slots) \in Nat /\ Total(slots') \in Nat
    BY <1>4, <1>5, <1>6, TotalAppend
<1>8. TypeOK'
    <2>1. last' \in [kind : {"none", "stall", "recovery"}, slot : Nat, duration : Nat]
        <3> DEFINE L == [kind : {"none", "stall", "recovery"}, slot : Nat, duration : Nat]
                   r == [kind |-> "recovery", slot |-> m.slot, duration |-> timeout_fired]
        <3>1. last \in L /\ timeout_fired \in Nat /\ m.slot \in Nat
            BY <1>2, NumberTypes, Zenon
        <3>2. r \in L
            BY <3>1
        <3>3. last' = last \/ last' = r
            BY <1>1, Zenon
        <3> HIDE DEF L, r
        <3>4. last' \in L
            BY <3>1, <3>2, <3>3, Zenon
        <3> QED
            BY <3>4, Zenon DEF L
    <2>2. slow' \in [slot : Nat, slot_time : Nat]
        <3>1. slow \in [slot : Nat, slot_time : Nat]
            BY DEF IInv, TypeOK
        <3>2. PICK a \in Nat, d \in Nat : a = m.slot /\ d = SlotTime(m)
            BY <1>2, <1>4
        <3>3. slow' = slow \/ slow' = [slot |-> a, slot_time |-> d]
            BY <1>1, <3>2
        <3> QED
            BY <3>1, <3>3
    <2>3. average' \in Nat
        BY <1>1, <1>2, NumberTypes
    <2> QED
        BY <1>1, <1>2, <1>3, <1>6, <2>1, <2>2, <2>3 DEF IInv, TypeOK, Entry, Details
<1>9. Counted'
    <2>1. 0 + 0 <= now - m.at + 0
        <3>1. PICK t \in Nat, a \in Nat : t = now /\ a = m.at /\ a <= t
            <4>1. now \in Nat
                BY NumberTypes, Zenon
            <4> QED
                BY <1>2, <4>1, Zenon
        <3>2. 0 + 0 <= t - a + 0
            BY <3>1
        <3> QED
            BY <3>1, <3>2, Zenon
    <2>2. queue' # <<>> => 0 <= queue'[1].at - m.at + 0
        BY <1>2
    <2>3. /\ timeout_fired' = 0 /\ elapsed' = 0 /\ now' = now
          /\ last_instant' = m.at /\ early' = 0
        BY <1>1, <1>3
    <2> QED
        BY <2>1, <2>2, <2>3 DEF Counted
<1>10. Summed'
    <2>1. Total(slots) <= last_instant - started
        BY DEF IInv, Summed
    <2>2. last_instant \in Nat /\ started \in Nat /\ m.at \in Nat
        BY <1>2, NumberTypes
    <2>3. Total(slots') <= m.at - started
        BY <1>4, <1>6, <1>7, <2>1, <2>2
    <2>4. last_instant' = m.at /\ started' = started
        BY <1>1, <1>3
    <2> QED
        BY <2>3, <2>4 DEF Summed
<1> QED
    BY <1>1, <1>2, <1>6, <1>8, <1>9, <1>10 DEF IInv, EarlyCounted

LEMMA StepTimeout ==
    ASSUME IInv, Timeout
    PROVE  IInv'
<1>1. /\ elapsed >= SlotTimeout /\ queue = <<>> /\ running /\ ~lagged
      /\ timeout_fired' = timeout_fired + SlotTimeout /\ elapsed' = 0
      /\ UNCHANGED <<now, running, queue, lagged, sent, last_instant, slots, slow,
                     average, started, exits>>
    BY DEF Timeout, channelVars
<1>2. /\ slots = <<>> => early' = timeout_fired' /\ last' = last
      /\ slots # <<>> => /\ early' = early
                         /\ last' = [kind |-> "stall", slot |-> LastSlot,
                                     duration |-> timeout_fired']
    BY DEF Timeout
<1>3. timeout_fired' \in Nat /\ timeout_fired' >= SlotTimeout /\ early' \in Nat
    BY <1>1, <1>2, NumberTypes
<1>4. LastSlot \in Nat
    <2>1. CASE slots = <<>>
        BY <2>1 DEF LastSlot
    <2>2. CASE slots # <<>>
        <3>1. slots \in Seq(Details)
            BY DEF IInv, TypeOK, Details
        <3>2. slots[Len(slots)] \in Details
            BY <3>1, <2>2
        <3> QED
            BY <2>2, <3>2 DEF LastSlot, Details
    <2> QED
        BY <2>1, <2>2
<1>5. last' \in [kind : {"none", "stall", "recovery"}, slot : Nat, duration : Nat]
    <2> DEFINE L == [kind : {"none", "stall", "recovery"}, slot : Nat, duration : Nat]
    <2>1. last \in L
        BY NumberTypes, Zenon
    <2>2. [kind |-> "stall", slot |-> LastSlot, duration |-> timeout_fired'] \in L
        BY <1>3, <1>4
    <2> HIDE DEF L
    <2>3. last' \in L
        BY <1>2, <2>1, <2>2, Zenon
    <2> QED
        BY <2>3, Zenon DEF L
<1>6. TypeOK'
    BY <1>1, <1>3, <1>5 DEF IInv, TypeOK
<1>7. Counted'
    <2> SUFFICES ASSUME slots # <<>>
                 PROVE  timeout_fired' + 0 <= now - last_instant + early
        BY <1>1, <1>2 DEF Counted
    <2>1. timeout_fired + elapsed <= now - last_instant + early
        BY <1>1 DEF IInv, Counted
    <2>2. /\ timeout_fired \in Nat /\ elapsed \in Nat /\ now \in Nat
          /\ last_instant \in Nat /\ early \in Nat /\ SlotTimeout \in Nat
        BY NumberTypes
    <2>3. timeout_fired' = timeout_fired + SlotTimeout /\ elapsed >= SlotTimeout
        BY <1>1, Zenon
    <2> QED
        BY <2>1, <2>2, <2>3
<1>8. Arrivals' /\ Summed'
    BY <1>1 DEF IInv, Arrivals, Summed
<1>9. EarlyCounted'
    BY <1>1, <1>2, <1>3 DEF EarlyCounted
<1> QED
    BY <1>6, <1>7, <1>8, <1>9 DEF IInv

LEMMA StepIInv ==
    ASSUME IInv, [Next]_vars
    PROVE  IInv'
<1> USE DEF IInv
<1>1. CASE UNCHANGED vars
    BY <1>1 DEF TypeOK, Arrivals, EarlyCounted, Counted, Summed,
                vars, channelVars, taskVars
<1>2. CASE Tick
    <2>1. /\ now' = now + 1 /\ elapsed' = IF running THEN elapsed + 1 ELSE elapsed
          /\ UNCHANGED <<running, queue, lagged, sent, timeout_fired, last_instant,
                         slots, last, slow, average, started, early, exits>>
        BY <1>2 DEF Tick, channelVars
    <2>2. TypeOK'
        BY <2>1 DEF TypeOK
    <2>3. Arrivals'
        <3>1. last_instant <= now' /\ \A i \in 1 .. Len(queue) : queue[i].at <= now'
            <4>1. \A i \in 1 .. Len(queue) : queue[i].at \in Nat /\ queue[i].at <= now
                BY QueueEntries DEF Arrivals
            <4>2. /\ now \in Nat /\ last_instant \in Nat /\ last_instant <= now
                  /\ now' = now + 1
                BY <2>1, NumberTypes DEF Arrivals
            <4> QED
                BY <4>1, <4>2
        <3> QED
            BY <2>1, <3>1 DEF Arrivals
    <2>4. Counted'
        <3> SUFFICES ASSUME running, ~lagged, slots # <<>>
                     PROVE  /\ queue = <<>> => timeout_fired + elapsed'
                                                  <= now' - last_instant + early
                            /\ queue # <<>> => timeout_fired
                                                  <= queue[1].at - last_instant + early
            BY <2>1 DEF Counted
        <3>1. CASE queue = <<>>
            <4>1. timeout_fired + elapsed <= now - last_instant + early
                BY <3>1 DEF Counted
            <4>2. now' = now + 1 /\ elapsed' = elapsed + 1
                BY <2>1
            <4>3. /\ now \in Nat /\ last_instant \in Nat /\ early \in Nat
                  /\ elapsed \in Nat /\ timeout_fired \in Nat
                BY NumberTypes
            <4>4. timeout_fired + elapsed' <= now' - last_instant + early
                BY <4>1, <4>2, <4>3
            <4> QED
                BY <3>1, <4>4
        <3>2. CASE queue # <<>>
            BY <3>2 DEF Counted
        <3> QED
            BY <3>1, <3>2
    <2> QED
        BY <2>1, <2>2, <2>3, <2>4 DEF EarlyCounted, Summed
<1>3. CASE Exit \/ RecvLagged
    <2>1. running' = FALSE /\ exits' \in {exits, exits + 1}
          /\ (exits' = exits \/ exits < MaxExits)
          /\ UNCHANGED <<now, queue, lagged, sent, elapsed, timeout_fired,
                         last_instant, slots, last, slow, average, started, early>>
        BY <1>3 DEF Exit, RecvLagged, channelVars, taskVars
    <2>2. running' \in BOOLEAN
        BY <2>1
    <2>3. exits' \in 0 .. MaxExits
        BY <2>1, SlotAssumption DEF TypeOK
    <2> QED
        BY <2>1, <2>2, <2>3 DEF TypeOK, Arrivals, EarlyCounted, Counted,
                                Summed
<1>4. ASSUME NEW s \in 1 .. MaxSlot, Gossip(s) PROVE IInv'
    BY <1>4, StepGossip
<1>5. CASE RecvFirst
    BY <1>5, StepRecvFirst
<1>6. CASE RecvOther
    BY <1>6, StepRecvOther
<1>7. CASE RecvNext
    BY <1>7, StepRecvNext
<1>8. CASE Timeout
    BY <1>8, StepTimeout
<1>9. CASE Restart
    <2>1. /\ running' = TRUE /\ lagged' = FALSE /\ queue' = <<>> /\ slots' = <<>>
          /\ elapsed' = 0 /\ timeout_fired' = 0 /\ early' = 0 /\ average' = 0
          /\ last_instant' = now /\ started' = now /\ last' = NoAlert
          /\ slow' = NotSlow /\ UNCHANGED <<now, sent, exits>>
        BY <1>9 DEF Restart
    <2>2. running' \in BOOLEAN /\ lagged' \in BOOLEAN
        BY <2>1
    <2>3. TypeOK'
        BY <2>1, <2>2, SlotAssumption DEF TypeOK, NoAlert, NotSlow
    <2>4. Arrivals' /\ EarlyCounted' /\ Counted'
        BY <2>1, NumberTypes DEF Arrivals, EarlyCounted, Counted
    <2>5. Summed'
        BY <2>1, TotalEmpty, NumberTypes DEF Summed
    <2> QED
        BY <2>3, <2>4, <2>5
<1> QED
    BY <1>1, <1>2, <1>3, <1>4, <1>5, <1>6, <1>7, <1>8, <1>9 DEF Next, MonitorStep
-----------------------------------------------------------------------------
(***************************************************************************)
(* Every variable of the slot monitor keeps its type: the channel and the  *)
(* vector keep their bounds, and no duration is negative.                  *)
(***************************************************************************)
THEOREM TypeCorrect == Spec => []TypeOK
BY InitIInv, StepIInv, PTL DEF Spec, IInv

(***************************************************************************)
(* The slot times the average is taken over never add up to more than the  *)
(* process has run (TimeCountedOnce), whatever the window.                 *)
(***************************************************************************)
THEOREM NoTimeCountedTwice == Spec => []TimeCountedOnce
<1>1. IInv => TimeCountedOnce
    <2> SUFFICES ASSUME IInv PROVE Total(slots) <= now - started
        BY DEF TimeCountedOnce
    <2>1. slots \in Seq(Details) /\ [slot |-> 0, duration |-> 0] \in Details
        BY DEF IInv, TypeOK, Details
    <2>2. Total(slots) \in Nat
        BY <2>1, TotalAppend
    <2>3. Total(slots) <= last_instant - started /\ last_instant <= now
        BY DEF IInv, Summed, Arrivals
    <2> QED
        BY <2>2, <2>3, NumberTypes
<1> QED
    BY <1>1, InitIInv, StepIInv, PTL DEF Spec

\* Only the next slot or a timeout changes the last alert to one of the kinds.
LEMMA AlertStep ==
    ASSUME IInv, [Next]_vars, last' # last, last'.kind \in {"stall", "recovery"}
    PROVE  \/ /\ RecvNext /\ timeout_fired # 0
              /\ last' = [kind |-> "recovery", slot |-> Head(queue).slot,
                          duration |-> timeout_fired]
           \/ /\ Timeout /\ slots # <<>>
              /\ last' = [kind |-> "stall", slot |-> LastSlot,
                          duration |-> timeout_fired']
<1>1. CASE RecvNext
    BY <1>1 DEF RecvNext
<1>2. CASE Timeout
    BY <1>2 DEF Timeout
<1>3. CASE Restart
    BY <1>3 DEF Restart, NoAlert
<1>4. CASE UNCHANGED vars \/ Tick \/ RecvLagged \/ Exit \/ RecvFirst \/ RecvOther
    BY <1>4 DEF vars, Tick, RecvLagged, Exit, RecvFirst, RecvOther, taskVars
<1>5. ASSUME NEW s \in 1 .. MaxSlot, Gossip(s) PROVE FALSE
    BY <1>5 DEF Gossip, taskVars
<1> QED
    BY <1>1, <1>2, <1>3, <1>4, <1>5 DEF Next, MonitorStep

(***************************************************************************)
(* No stall alert claims more time than has passed since the slot it names *)
(* arrived, but for the timeouts before the first slot                     *)
(* (StallSinceLastSlot).                                                   *)
(***************************************************************************)
THEOREM StallNotOverstated == Spec => StallSinceLastSlot
<1> DEFINE A == last' # last /\ last'.kind = "stall" =>
                  last'.duration <= now - last_instant + early
<1>1. ASSUME IInv, [Next]_vars PROVE A
    <2> SUFFICES ASSUME last' # last, last'.kind = "stall"
                 PROVE  last'.duration <= now - last_instant + early
        OBVIOUS
    <2>1. /\ Timeout /\ slots # <<>>
          /\ last' = [kind |-> "stall", slot |-> LastSlot,
                      duration |-> timeout_fired']
        BY <1>1, AlertStep
    <2>2. /\ running /\ ~lagged /\ queue = <<>> /\ elapsed >= SlotTimeout
          /\ timeout_fired' = timeout_fired + SlotTimeout
        BY <2>1 DEF Timeout
    <2>3. timeout_fired + elapsed <= now - last_instant + early
        BY <1>1, <2>1, <2>2 DEF IInv, Counted
    <2>4. timeout_fired' <= now - last_instant + early
        <3>1. /\ timeout_fired \in Nat /\ elapsed \in Nat /\ now \in Nat
              /\ last_instant \in Nat /\ early \in Nat /\ SlotTimeout \in Nat
            BY <1>1, NumberTypes
        <3>2. timeout_fired' = timeout_fired + SlotTimeout /\ elapsed >= SlotTimeout
            BY <2>2, Zenon
        <3> QED
            BY <2>3, <3>1, <3>2
    <2> QED
        BY <2>1, <2>4
<1>2. ASSUME IInv, [Next]_vars PROVE [A]_vars
    BY <1>1, <1>2
<1> QED
    BY InitIInv, StepIInv, <1>2, PTL DEF Spec, StallSinceLastSlot

(***************************************************************************)
(* The time a recovery alert gives is no longer than the time between the  *)
(* arrivals of the two slots, and if it exceeds per_slot_threshold it      *)
(* comes with a slow-slot alert for the same slot that gives at least as   *)
(* long a time (RecoveryIsSlow): the two ways of measuring agree, whatever *)
(* the thresholds are.                                                     *)
(***************************************************************************)
THEOREM RecoveryNamesSlowSlot == Spec => RecoveryIsSlow
<1> DEFINE A == last' # last /\ last'.kind = "recovery" /\ early = 0 =>
                  /\ last'.duration <= last_instant' - last_instant
                  /\ last'.duration > PerSlot =>
                        slow'.slot = last'.slot /\ slow'.slot_time >= last'.duration
<1>1. ASSUME IInv, [Next]_vars PROVE A
    <2> SUFFICES ASSUME last' # last, last'.kind = "recovery", early = 0
                 PROVE  /\ last'.duration <= last_instant' - last_instant
                        /\ last'.duration > PerSlot =>
                              slow'.slot = last'.slot /\ slow'.slot_time >= last'.duration
        OBVIOUS
    <2> DEFINE m == Head(queue)
    <2>1. /\ RecvNext /\ timeout_fired # 0
          /\ last' = [kind |-> "recovery", slot |-> m.slot,
                      duration |-> timeout_fired]
        BY <1>1, AlertStep
    <2>2. /\ Received /\ last_instant' = m.at /\ slots # <<>>
          /\ slow' = IF SlotTime(m) > PerSlot
                     THEN [slot |-> m.slot, slot_time |-> SlotTime(m)] ELSE slow
        BY <2>1 DEF RecvNext
    <2>3. running /\ ~lagged /\ queue # <<>>
        BY <2>2 DEF Received
    <2>4. m = queue[1] /\ m.at \in Nat
        BY <1>1, <2>2, ReceivedQueue
    <2>5. timeout_fired <= queue[1].at - last_instant + early
        BY <1>1, <2>2, <2>3 DEF IInv, Counted
    <2> HIDE DEF m
    <2>6. PICK t \in Nat, d \in Int, p \in Nat :
             t = timeout_fired /\ d = SlotTime(m) /\ p = PerSlot /\ t <= d
        BY <1>1, <2>4, <2>5, NumberTypes DEF SlotTime
    <2>7. last'.duration = t /\ last'.slot = m.slot /\ last_instant' - last_instant = d
        BY <2>1, <2>2, <2>6 DEF SlotTime
    <2>8. t > p => d > p
        BY <2>6
    <2>9. d > p => slow'.slot = m.slot /\ slow'.slot_time = d
        BY <2>2, <2>6
    <2> QED
        BY <2>6, <2>7, <2>8, <2>9
<1>2. ASSUME IInv, [Next]_vars PROVE [A]_vars
    BY <1>1, <1>2
<1> QED
    BY InitIInv, StepIInv, <1>2, PTL DEF Spec, RecoveryIsSlow
=============================================================================
