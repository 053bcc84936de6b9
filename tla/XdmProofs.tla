----------------------------- MODULE XdmProofs -----------------------------
(***************************************************************************)
(* Proofs about the transfers' table and the health endpoint that reads    *)
(* how far it is filled, for every set of chains, every events of theirs   *)
(* that the messages between them allow, every segment size, parallelism   *)
(* and number of failures.                                                 *)
(***************************************************************************)
EXTENDS XdmApi, Lemmas, FiniteSetTheorems

\* The events of block h of chain c that are stored.
Wanted(c, h) ==
    {Events[c][h][i] : i \in {j \in DOMAIN Events[c][h] : Events[c][h][j].kind # "other"}}

Covered(c, h) == \A e \in Wanted(c, h) : Stored(c, h, e)

Types ==
    /\ TypeOK
    /\ DOMAIN todo = Chains
    /\ \A c \in Chains : next[c] <= Top(c) + 1

\* An idle processor has no block in hand.
IdleIsEmpty == \A c \in Chains : ~working[c] => DOMAIN todo[c] = {}

Has(s, x) == \E j \in DOMAIN s : s[j] = x

\* What a block in hand has still to store are events of it, and all that are
\* not stored yet.
InHand ==
    \A c \in Chains : \A h \in DOMAIN todo[c] :
        /\ todo[c][h] \in Seq(Wanted(c, h))
        /\ \A e \in Wanted(c, h) :
              Stored(c, h, e) \/ Has(todo[c][h], e)

\* Everything up to the checkpoint is stored, and in a batch everything below
\* the block the loop awaits.
CoveredBelow ==
    \A c \in Chains :
        /\ \A h \in 1 .. checkpoint[c] : Covered(c, h)
        /\ working[c] => \A h \in 1 .. next[c] - 1 : Covered(c, h)

\* A row is told by events: each of its columns by one that the row stores.
ToldBy(k, c, h, kinds) ==
    /\ h \in 1 .. Top(c)
    /\ \E e \in Wanted(c, h) : e.kind \in kinds /\ Key(c, e) = k /\ Stored(c, h, e)

RowToldBy(k) ==
    LET row == rows[k] IN
    /\ row.initiated # 0 => ToldBy(k, k[1], row.initiated, {"initiated"})
    /\ row.executed # 0 => ToldBy(k, k[2], row.executed, {"incoming"})
    /\ row.acknowledged # 0 => ToldBy(k, k[1], row.acknowledged, {"successful", "failed"})
    /\ row.initiated = 0 => row.parties = {}
    /\ row.initiated = 0 /\ row.executed = 0 => row.amount = 0
    /\ row.executed = 0 /\ row.acknowledged = 0 => row.transfer_successful = "null"

RowsTold == \A k \in DOMAIN rows : RowToldBy(k)

IInv == Types /\ IdleIsEmpty /\ InHand /\ CoveredBelow /\ RowsTold
-----------------------------------------------------------------------------
(***************************************************************************)
(* What is read from the segments of a domain's storage.                   *)
(***************************************************************************)
LEMMA EventsType ==
    ASSUME NEW c \in Chains
    PROVE  /\ Top(c) \in Nat
           /\ \A h \in 1 .. Top(c) : Events[c][h] \in Seq(Event)
<1>1. Events[c] \in Seq(Seq(Event))
    BY XdmAssumption
<1> QED
    BY <1>1 DEF Top

LEMMA MaxIs ==
    ASSUME NEW n \in Nat, NEW S \in SUBSET (1 .. n), S # {}
    PROVE  Max(S) \in S /\ \A y \in S : Max(S) >= y
<1> DEFINE D == {d \in Nat : \E x \in S : d = n - x}
<1>0. \A x \in S : x \in Nat /\ x <= n /\ n - x \in Nat
    OBVIOUS
<1>1. D \in SUBSET Nat /\ D # {}
    BY <1>0
<1>2. PICK m \in D : \A y \in D : m <= y
    <2> HIDE DEF D
    <2> QED
        BY <1>1, LeastNat
<1>3. PICK x \in S : m = n - x
    BY <1>2
<1>4. \A y \in S : x >= y
    <2>1. TAKE y \in S
    <2>2. n - y \in D
        BY <1>0
    <2>3. m <= n - y
        BY <1>2, <2>2
    <2> QED
        BY <1>0, <1>3, <2>3
<1>5. \E z \in S : \A y \in S : z >= y
    BY <1>4
<1> QED
    BY <1>5 DEF Max

LEMMA UpToIs ==
    ASSUME NEW X, NEW s \in Seq(X), NEW n \in Nat
    PROVE  /\ UpTo(s, n) \in Seq(X)
           /\ n <= Len(s) => Len(UpTo(s, n)) = n
           /\ n >= Len(s) => Len(UpTo(s, n)) = Len(s)
           /\ \A i \in 1 .. Len(UpTo(s, n)) : UpTo(s, n)[i] = s[i]
<1> DEFINE m == IF n < Len(s) THEN n ELSE Len(s)
<1>1. /\ m \in Nat /\ m <= Len(s)
      /\ n <= Len(s) => m = n
      /\ n >= Len(s) => m = Len(s)
    OBVIOUS
<1>2. UpTo(s, n) = SubSeq(s, 1, m)
    BY DEF UpTo
<1> HIDE DEF m
<1>3. /\ SubSeq(s, 1, m) \in Seq(X)
      /\ Len(SubSeq(s, 1, m)) = m
      /\ \A i \in 1 .. m : SubSeq(s, 1, m)[i] = s[i]
    BY <1>1, PrefixIs
<1> QED
    BY <1>1, <1>2, <1>3

LEMMA RestIs ==
    ASSUME NEW X, NEW s \in Seq(X), NEW n \in Nat, n <= Len(s)
    PROVE  /\ SubSeq(s, n + 1, Len(s)) \in Seq(X)
           /\ Len(SubSeq(s, n + 1, Len(s))) = Len(s) - n
           /\ \A i \in 1 .. Len(s) - n : SubSeq(s, n + 1, Len(s))[i] = s[n + i]
<1>1. SubSeq(s, n + 1, Len(s)) \in Seq(X)
    OBVIOUS
<1>2. Len(SubSeq(s, n + 1, Len(s))) = Len(s) - n
    OBVIOUS
<1>3. \A i \in 1 .. Len(s) - n : SubSeq(s, n + 1, Len(s))[i] = s[n + i]
    OBVIOUS
<1> QED
    BY <1>1, <1>2, <1>3

\* A segment holds events, of an older block perhaps.
LEMMA SegmentType ==
    ASSUME NEW c \in Chains, NEW h \in 1 .. Top(c), NEW i \in Nat
    PROVE  Segment(c, h, i) \in Seq(Event)
<1> DEFINE first == i * SegmentSize
           writers == {g \in 1 .. h : Len(Events[c][g]) > first}
           es == Events[c][Max(writers)]
<1>0. first \in Nat /\ SegmentSize \in Nat
    BY XdmAssumption
<1>1. Segment(c, h, i) = IF writers = {} THEN <<>>
                         ELSE UpTo(SubSeq(es, first + 1, Len(es)), SegmentSize)
    BY DEF Segment
<1>2. CASE writers = {}
    BY <1>1, <1>2
<1>3. CASE writers # {}
    <2>0. h \in Nat /\ h <= Top(c) /\ Top(c) \in Nat
        BY EventsType
    <2>1. writers \in SUBSET (1 .. h)
        OBVIOUS
    <2>2. Max(writers) \in writers
        <3> HIDE DEF writers
        <3> QED
            BY <1>3, <2>0, <2>1, MaxIs
    <2>3. Max(writers) \in 1 .. Top(c) /\ Len(es) > first
        <3>1. Max(writers) \in 1 .. h /\ Len(es) > first
            BY <2>2
        <3> HIDE DEF es, writers
        <3> QED
            BY <2>0, <3>1
    <2>4. es \in Seq(Event)
        BY <2>3, EventsType
    <2> HIDE DEF es, first, writers
    <2>5. first <= Len(es)
        BY <1>0, <2>3, <2>4
    <2>6. SubSeq(es, first + 1, Len(es)) \in Seq(Event)
        BY <1>0, <2>4, <2>5, RestIs
    <2> QED
        BY <1>0, <1>1, <1>3, <2>6, UpToIs
<1> QED
    BY <1>2, <1>3

\* A segment the block itself has reached holds the block's events.
LEMMA SegmentOwn ==
    ASSUME NEW c \in Chains, NEW h \in 1 .. Top(c), NEW i \in Nat,
           Len(Events[c][h]) > i * SegmentSize
    PROVE  LET first == i * SegmentSize
               rest == Len(Events[c][h]) - first
           IN  /\ rest >= SegmentSize => Len(Segment(c, h, i)) = SegmentSize
               /\ rest <= SegmentSize => Len(Segment(c, h, i)) = rest
               /\ \A j \in 1 .. Len(Segment(c, h, i)) :
                     Segment(c, h, i)[j] = Events[c][h][first + j]
<1> DEFINE first == i * SegmentSize
           writers == {g \in 1 .. h : Len(Events[c][g]) > first}
           es == Events[c][h]
           r == SubSeq(es, first + 1, Len(es))
<1>0. first \in Nat /\ SegmentSize \in Nat /\ h \in Nat /\ h \in 1 .. h
    BY XdmAssumption
<1>1. es \in Seq(Event) /\ Len(es) > first
    BY EventsType
<1>2. h \in writers /\ writers \in SUBSET (1 .. h)
    BY <1>0
<1>3. Max(writers) = h
    <2>1. Max(writers) \in writers /\ \A y \in writers : Max(writers) >= y
        <3> HIDE DEF writers
        <3> QED
            BY <1>0, <1>2, MaxIs
    <2>2. Max(writers) \in 1 .. h /\ Max(writers) >= h
        <3> HIDE DEF writers
        <3> QED
            BY <1>2, <2>1
    <2> HIDE DEF writers
    <2> QED
        BY <1>0, <2>2
<1>4. Segment(c, h, i) = UpTo(r, SegmentSize)
    BY <1>2, <1>3 DEF Segment
<1> HIDE DEF first, writers, es
<1>5. first <= Len(es) /\ Len(es) \in Nat
    BY <1>0, <1>1
<1>6. /\ r \in Seq(Event) /\ Len(r) = Len(es) - first
      /\ \A j \in 1 .. Len(es) - first : r[j] = es[first + j]
    BY <1>0, <1>1, <1>5, RestIs
<1> HIDE DEF r
<1>7. /\ SegmentSize <= Len(r) => Len(UpTo(r, SegmentSize)) = SegmentSize
      /\ SegmentSize >= Len(r) => Len(UpTo(r, SegmentSize)) = Len(r)
      /\ \A j \in 1 .. Len(UpTo(r, SegmentSize)) : UpTo(r, SegmentSize)[j] = r[j]
    BY <1>0, <1>6, UpToIs
<1>8. /\ Len(es) - first >= SegmentSize => Len(Segment(c, h, i)) = SegmentSize
      /\ Len(es) - first <= SegmentSize => Len(Segment(c, h, i)) = Len(es) - first
      /\ \A j \in 1 .. Len(Segment(c, h, i)) : Segment(c, h, i)[j] = es[first + j]
    BY <1>0, <1>4, <1>5, <1>6, <1>7
<1> QED
    BY <1>8 DEF first, es

\* f[n] holds what was read from the first n segments.
Totals(f, c, h, last) ==
    f = [n \in 0 .. last + 1 |->
            IF n = 0 THEN <<>> ELSE f[n - 1] \o Segment(c, h, n - 1)]

LEMMA TotalsExist ==
    ASSUME NEW c, NEW h, NEW last \in Nat
    PROVE  \E f : Totals(f, c, h, last)
<1> DEFINE G(f, m) ==
        f = [n \in 0 .. m |-> IF n = 0 THEN <<>> ELSE f[n - 1] \o Segment(c, h, n - 1)]
<1> DEFINE T == {m \in Nat : \E f : G(f, m)}
<1>1. 0 \in T
    <2>1. G([n \in 0 .. 0 |-> <<>>], 0)
        OBVIOUS
    <2> QED
        BY <2>1
<1>2. ASSUME NEW m \in Nat, m \in T PROVE m + 1 \in T
    <2>1. PICK f : G(f, m)
        BY <1>2
    <2> DEFINE e == [n \in 0 .. m + 1 |->
                        IF n = m + 1 THEN f[m] \o Segment(c, h, m) ELSE f[n]]
    <2>2. ASSUME NEW n \in 0 .. m + 1
          PROVE  e[n] = IF n = 0 THEN <<>> ELSE e[n - 1] \o Segment(c, h, n - 1)
        <3>1. \A j \in 0 .. m :
                f[j] = IF j = 0 THEN <<>> ELSE f[j - 1] \o Segment(c, h, j - 1)
            BY <2>1
        <3>2. CASE n = m + 1
            <4>1. e[n] = f[m] \o Segment(c, h, m) /\ e[n - 1] = f[m] /\ n # 0 /\ n - 1 = m
                BY <3>2
            <4> HIDE DEF e
            <4> QED
                BY <4>1
        <3>3. CASE n # m + 1
            <4>1. e[n] = f[n] /\ n \in 0 .. m /\ (n # 0 => e[n - 1] = f[n - 1])
                BY <3>3
            <4> HIDE DEF e
            <4> QED
                BY <3>1, <4>1
        <3> QED
            BY <3>2, <3>3
    <2>3. G(e, m + 1)
        BY <2>2
    <2>4. \E x : G(x, m + 1)
        <3> HIDE DEF e, G
        <3> QED
            BY <2>3
    <2>5. m + 1 \in Nat
        OBVIOUS
    <2> QED
        <3> HIDE DEF G
        <3> QED
            BY <2>4, <2>5
<1>3. Nat \subseteq T
    <2> HIDE DEF T
    <2> QED
        BY <1>1, <1>2, NatClosed
<1>4. last + 1 \in T
    <2> HIDE DEF T
    <2> QED
        BY <1>3
<1> QED
    BY <1>4 DEF Totals

LEMMA SegmentsIs ==
    ASSUME NEW c, NEW h, NEW last \in Nat
    PROVE  \E f : Totals(f, c, h, last) /\ Segments(c, h, last) = f[last + 1]
<1> DEFINE f == CHOOSE f : Totals(f, c, h, last)
<1>1. Totals(f, c, h, last)
    BY TotalsExist
<1>2. Segments(c, h, last) = f[last + 1]
    BY DEF Segments, Totals
<1> QED
    BY <1>1, <1>2

LEMMA TotalsStep ==
    ASSUME NEW f, NEW c, NEW h, NEW last \in Nat, Totals(f, c, h, last)
    PROVE  /\ f[0] = <<>>
           /\ \A n \in 0 .. last : f[n + 1] = f[n] \o Segment(c, h, n)
<1>1. f[0] = <<>>
    BY DEF Totals
<1>2. ASSUME NEW n \in 0 .. last
      PROVE  f[n + 1] = f[n] \o Segment(c, h, n)
    <2>1. n + 1 \in 0 .. last + 1 /\ n + 1 # 0 /\ (n + 1) - 1 = n
        OBVIOUS
    <2>2. f[n + 1] = f[(n + 1) - 1] \o Segment(c, h, (n + 1) - 1)
        BY <2>1 DEF Totals
    <2> QED
        BY <2>1, <2>2
<1> QED
    BY <1>1, <1>2

LEMMA Quotient ==
    ASSUME NEW n \in Nat, NEW d \in Nat \ {0}
    PROVE  /\ n \div d \in Nat
           /\ (n \div d) * d <= n
           /\ n < (n \div d) * d + d
OBVIOUS

LEMMA Multiples ==
    ASSUME NEW n \in Nat, NEW q \in Nat, NEW d \in Nat, n + 1 <= q
    PROVE  /\ n * d \in Nat /\ q * d \in Nat
           /\ (n + 1) * d = n * d + d
           /\ n * d + d <= q * d
<1>1. n * d \in Nat /\ q * d \in Nat
    OBVIOUS
<1>2. (n + 1) * d = n * d + d
    OBVIOUS
<1> DEFINE k == q - (n + 1)
<1>3. k \in Nat /\ q = (n + 1) + k
    OBVIOUS
<1>4. q * d = (n + 1) * d + k * d /\ k * d \in Nat
    BY <1>3
<1> QED
    BY <1>1, <1>2, <1>4

LEMMA SameSeq ==
    ASSUME NEW X, NEW s \in Seq(X), NEW t \in Seq(X), Len(s) = Len(t),
           \A i \in 1 .. Len(s) : s[i] = t[i]
    PROVE  s = t
OBVIOUS

\* Whatever older blocks left in the segments, a block's own events are read.
LEMMA SegmentsExact ==
    ASSUME NEW c \in Chains, NEW h \in 1 .. Top(c)
    PROVE  events_from_segments(c, h) = Events[c][h]
<1> DEFINE es == Events[c][h]
           q == Len(es) \div SegmentSize
<1>0. es \in Seq(Event) /\ Len(es) \in Nat
    BY EventsType
<1>1. SegmentSize \in Nat \ {0} /\ SegmentSize \in Nat
    BY XdmAssumption
<1>2. q \in Nat /\ q * SegmentSize <= Len(es) /\ Len(es) < q * SegmentSize + SegmentSize
    <2> HIDE DEF es
    <2> QED
        BY <1>0, <1>1, Quotient
<1>3. PICK f : Totals(f, c, h, q) /\ Segments(c, h, q) = f[q + 1]
    <2> HIDE DEF q
    <2> QED
        BY <1>2, SegmentsIs
<1>4. events_from_segments(c, h) = UpTo(f[q + 1], Len(es))
    BY <1>3 DEF events_from_segments
<1>5. \A i \in Nat : Segment(c, h, i) \in Seq(Event)
    BY SegmentType
<1>6. /\ f[0] = <<>>
      /\ \A n \in 0 .. q : f[n + 1] = f[n] \o Segment(c, h, n)
    <2> HIDE DEF q
    <2> QED
        BY <1>2, <1>3, TotalsStep
<1>7. \A i \in Nat : Len(es) > i * SegmentSize =>
          /\ Len(es) - i * SegmentSize >= SegmentSize => Len(Segment(c, h, i)) = SegmentSize
          /\ Len(es) - i * SegmentSize <= SegmentSize =>
                Len(Segment(c, h, i)) = Len(es) - i * SegmentSize
          /\ \A j \in 1 .. Len(Segment(c, h, i)) :
                Segment(c, h, i)[j] = es[i * SegmentSize + j]
    BY SegmentOwn
<1> HIDE DEF es, q
<1> DEFINE Whole(n) == /\ f[n] \in Seq(Event)
                       /\ Len(f[n]) = n * SegmentSize
                       /\ \A j \in 1 .. n * SegmentSize : f[n][j] = es[j]
           T == {n \in Nat : n <= q => Whole(n)}
<1>8. 0 \in T
    <2>1. <<>> \in Seq(Event) /\ Len(<<>>) = 0 /\ 0 * SegmentSize = 0
        BY <1>1
    <2>2. Whole(0)
        BY <1>6, <2>1
    <2> QED
        BY <2>2
<1>9. ASSUME NEW n \in Nat, n \in T PROVE n + 1 \in T
    <2>1. SUFFICES ASSUME n + 1 <= q PROVE Whole(n + 1)
        OBVIOUS
    <2> DEFINE m == n * SegmentSize
    <2>2. /\ m \in Nat /\ q * SegmentSize \in Nat
          /\ (n + 1) * SegmentSize = m + SegmentSize
          /\ m + SegmentSize <= q * SegmentSize
        BY <1>1, <1>2, <2>1, Multiples
    <2>3. f[n] \in Seq(Event) /\ Len(f[n]) = m /\ \A j \in 1 .. m : f[n][j] = es[j]
        BY <1>2, <1>9, <2>1
    <2>4. Len(es) > m /\ Len(es) - m >= SegmentSize
        <3> HIDE DEF m
        <3> QED
            BY <1>0, <1>1, <1>2, <2>2
    <2>5. /\ Len(Segment(c, h, n)) = SegmentSize
          /\ \A j \in 1 .. Len(Segment(c, h, n)) : Segment(c, h, n)[j] = es[m + j]
        BY <1>7, <2>4
    <2>6. f[n + 1] = f[n] \o Segment(c, h, n)
        BY <1>2, <1>6, <2>1
    <2> HIDE DEF m
    <2> DEFINE a == f[n]
               b == Segment(c, h, n)
    <2>a. a \in Seq(Event) /\ b \in Seq(Event)
        BY <1>5, <2>3
    <2>7. /\ a \o b \in Seq(Event)
          /\ Len(a \o b) = Len(a) + Len(b)
          /\ \A i \in 1 .. Len(a) : (a \o b)[i] = a[i]
          /\ \A i \in 1 .. Len(b) : (a \o b)[Len(a) + i] = b[i]
        <3> HIDE DEF a, b
        <3> QED
            BY <2>a, ConcatIs
    <2>8. ASSUME NEW j \in 1 .. m + SegmentSize PROVE (a \o b)[j] = es[j]
        <3>1. CASE j <= m
            BY <2>2, <2>3, <2>7, <3>1
        <3>2. CASE j > m
            <4>1. j - m \in 1 .. Len(b) /\ j = m + (j - m)
                BY <1>1, <2>2, <2>5, <3>2
            <4>2. (a \o b)[m + (j - m)] = b[j - m] /\ b[j - m] = es[m + (j - m)]
                BY <2>3, <2>5, <2>7, <4>1
            <4> QED
                BY <4>1, <4>2
        <3>3. j <= m \/ j > m
            BY <1>1, <2>2
        <3> QED
            BY <3>1, <3>2, <3>3
    <2> QED
        BY <2>2, <2>3, <2>5, <2>6, <2>7, <2>8
<1>10. Nat \subseteq T
    <2> HIDE DEF T
    <2> QED
        BY <1>8, <1>9, NatClosed
<1> DEFINE m == q * SegmentSize
           a == f[q]
           b == Segment(c, h, q)
<1>11. a \in Seq(Event) /\ Len(a) = m /\ \A j \in 1 .. m : a[j] = es[j]
    BY <1>2, <1>10
<1>12. f[q + 1] = a \o b /\ b \in Seq(Event)
    <2>1. q \in 0 .. q
        BY <1>2
    <2> QED
        BY <1>2, <1>5, <1>6, <2>1
<1>13. m \in Nat /\ m <= Len(es) /\ Len(es) < m + SegmentSize
    BY <1>1, <1>2
<1>14. Len(es) > m => /\ Len(b) = Len(es) - m
                      /\ \A j \in 1 .. Len(b) : b[j] = es[m + j]
    <2>1. SUFFICES ASSUME Len(es) > m
                   PROVE  /\ Len(b) = Len(es) - m
                          /\ \A j \in 1 .. Len(b) : b[j] = es[m + j]
        OBVIOUS
    <2>2. Len(es) - m <= SegmentSize
        <3> HIDE DEF m
        <3> QED
            BY <1>0, <1>1, <1>13
    <2> QED
        BY <1>2, <1>7, <2>1, <2>2
<1> HIDE DEF m, a, b
<1>15. /\ a \o b \in Seq(Event)
       /\ Len(a \o b) = Len(a) + Len(b)
       /\ \A i \in 1 .. Len(a) : (a \o b)[i] = a[i]
       /\ \A i \in 1 .. Len(b) : (a \o b)[Len(a) + i] = b[i]
    BY <1>11, <1>12, ConcatIs
<1>16. Len(b) \in Nat /\ Len(a \o b) >= Len(es)
    BY <1>0, <1>11, <1>12, <1>13, <1>14, <1>15
<1>17. ASSUME NEW j \in 1 .. Len(es) PROVE (a \o b)[j] = es[j]
    <2>1. CASE j <= m
        BY <1>11, <1>13, <1>15, <2>1
    <2>2. CASE j > m
        <3>1. Len(es) > m
            BY <1>0, <1>13, <2>2
        <3>2. j - m \in 1 .. Len(b) /\ j = m + (j - m)
            BY <1>0, <1>13, <1>14, <2>2, <3>1
        <3>3. (a \o b)[m + (j - m)] = b[j - m] /\ b[j - m] = es[m + (j - m)]
            BY <1>11, <1>14, <1>15, <3>1, <3>2
        <3> QED
            BY <3>2, <3>3
    <2>3. j <= m \/ j > m
        BY <1>0, <1>13
    <2> QED
        BY <2>1, <2>2, <2>3
<1> DEFINE u == UpTo(a \o b, Len(es))
<1>18. /\ u \in Seq(Event)
       /\ Len(es) <= Len(a \o b) => Len(u) = Len(es)
       /\ \A i \in 1 .. Len(u) : u[i] = (a \o b)[i]
    BY <1>0, <1>15, UpToIs
<1> HIDE DEF u
<1>19. Len(u) = Len(es) /\ \A i \in 1 .. Len(u) : u[i] = es[i]
    BY <1>0, <1>15, <1>16, <1>17, <1>18
<1>20. u = es
    BY <1>0, <1>18, <1>19, SameSeq
<1> QED
    BY <1>4, <1>12, <1>20 DEF u, es
-----------------------------------------------------------------------------
(***************************************************************************)
(* The events of a block, extracted and stored.                            *)
(***************************************************************************)
LEMMA WantedIs ==
    ASSUME NEW c \in Chains, NEW h \in 1 .. Top(c), NEW e \in Wanted(c, h)
    PROVE  /\ e \in Event /\ e.kind # "other"
           /\ \E i \in DOMAIN Events[c][h] : e = Events[c][h][i]
<1>1. Events[c][h] \in Seq(Event)
    BY EventsType
<1>2. PICK i \in DOMAIN Events[c][h] : e = Events[c][h][i] /\ e.kind # "other"
    BY DEF Wanted
<1>3. e \in Event
    <2> DEFINE es == Events[c][h]
    <2>1. es \in Seq(Event) /\ i \in DOMAIN es /\ e = es[i]
        BY <1>1, <1>2
    <2> HIDE DEF es
    <2> QED
        BY <2>1
<1> QED
    BY <1>2, <1>3

\* An element of one of two sequences is one of them put together.
LEMMA ConcatHas ==
    ASSUME NEW X, NEW s \in Seq(X), NEW t \in Seq(X), NEW x, Has(s, x) \/ Has(t, x)
    PROVE  Has(s \o t, x)
<1>1. /\ s \o t \in Seq(X)
      /\ Len(s \o t) = Len(s) + Len(t)
      /\ \A i \in 1 .. Len(s) : (s \o t)[i] = s[i]
      /\ \A i \in 1 .. Len(t) : (s \o t)[Len(s) + i] = t[i]
    BY ConcatIs
<1>2. /\ DOMAIN s = 1 .. Len(s) /\ DOMAIN t = 1 .. Len(t)
      /\ Len(s) \in Nat /\ Len(t) \in Nat
    OBVIOUS
<1>3. DOMAIN (s \o t) = 1 .. Len(s) + Len(t)
    BY <1>1
<1>4. CASE Has(s, x)
    <2>1. PICK j \in 1 .. Len(s) : s[j] = x
        BY <1>2, <1>4 DEF Has
    <2>2. (s \o t)[j] = x /\ j \in 1 .. Len(s) + Len(t)
        BY <1>1, <1>2, <2>1
    <2> QED
        BY <1>3, <2>2 DEF Has
<1>5. CASE Has(t, x)
    <2>1. PICK j \in 1 .. Len(t) : t[j] = x
        BY <1>2, <1>5 DEF Has
    <2>2. (s \o t)[Len(s) + j] = x /\ Len(s) + j \in 1 .. Len(s) + Len(t)
        BY <1>1, <1>2, <2>1
    <2> QED
        BY <1>3, <2>2 DEF Has
<1> QED
    BY <1>4, <1>5

LEMMA ExtractedIs ==
    ASSUME NEW c \in Chains, NEW h \in 1 .. Top(c)
    PROVE  /\ Extracted(c, h) \in Seq(Wanted(c, h))
           /\ \A e \in Wanted(c, h) : Has(Extracted(c, h), e)
<1> DEFINE es == Events[c][h]
           W == Wanted(c, h)
           R == {es[i] : i \in DOMAIN es}
           Of(kind) == Among(es, {e \in Event : e.kind = kind})
<1>1. Extracted(c, h) = Of("failed") \o Of("successful") \o Of("incoming") \o Of("initiated")
    <2>1. events_from_segments(c, h) = es
        BY SegmentsExact
    <2>2. (IF c \in Segmented THEN events_from_segments(c, h) ELSE Events[c][h]) = es
        BY <2>1
    <2> QED
        BY <2>2 DEF Extracted
<1>2. es \in Seq(Event)
    BY EventsType
<1>3. es \in Seq(R) /\ R \subseteq Event
    <2> HIDE DEF es
    <2> QED
        BY <1>2
<1>4. \A e : e \in R /\ e.kind # "other" <=> e \in W
    BY DEF Wanted
<1>5. ASSUME NEW kind \in Kinds \ {"other"}
      PROVE  /\ Of(kind) \in Seq(W)
             /\ \A e \in W : e.kind = kind => Has(Of(kind), e)
    <2> DEFINE K == {e \in Event : e.kind = kind}
    <2>1. Of(kind) \in Seq(R \cap K)
        <3> HIDE DEF es, R, K
        <3>1. Among(es, K) \in Seq(R \cap K)
            BY <1>3, AmongType
        <3> QED
            BY <3>1 DEF K
    <2>2. R \cap K \subseteq W
        <3> HIDE DEF R, W
        <3> QED
            BY <1>4
    <2>3. Of(kind) \in Seq(W)
        <3> HIDE DEF R, K, W
        <3> QED
            BY <2>1, <2>2
    <2>4. ASSUME NEW e \in W, e.kind = kind PROVE Has(Of(kind), e)
        <3>1. e \in R
            <4> HIDE DEF R, W
            <4> QED
                BY <1>4, <2>4
        <3>2. PICK i \in DOMAIN es : es[i] = e
            BY <3>1
        <3>3. i \in 1 .. Len(es) /\ es[i] \in K
            <4> HIDE DEF es, R
            <4> QED
                BY <1>2, <1>3, <2>4, <3>1, <3>2
        <3>4. \E j \in 1 .. Len(Among(es, K)) : Among(es, K)[j] = es[i]
            <4> HIDE DEF es, K
            <4> QED
                BY <1>2, <3>3, AmongHas
        <3>5. DOMAIN Of(kind) = 1 .. Len(Of(kind))
            <4> DEFINE o == Of(kind)
            <4>1. o \in Seq(W)
                BY <2>3
            <4> HIDE DEF o, W
            <4>2. DOMAIN o = 1 .. Len(o)
                BY <4>1
            <4> QED
                BY <4>2 DEF o
        <3> QED
            BY <3>2, <3>4, <3>5 DEF Has
    <2> QED
        BY <2>3, <2>4
<1>6. \A e \in W : e.kind \in Kinds \ {"other"}
    BY WantedIs DEF Event
<1> DEFINE a == Of("failed")
           b == Of("successful")
           i == Of("incoming")
           o == Of("initiated")
<1>7. /\ a \in Seq(W) /\ b \in Seq(W) /\ i \in Seq(W) /\ o \in Seq(W)
      /\ \A e \in W : Has(a, e) \/ Has(b, e) \/ Has(i, e) \/ Has(o, e)
    <2> HIDE DEF W, Of
    <2>1. {"failed", "successful", "incoming", "initiated"} = Kinds \ {"other"}
        BY DEF Kinds
    <2>2. a \in Seq(W) /\ b \in Seq(W) /\ i \in Seq(W) /\ o \in Seq(W)
        BY <1>5, <2>1
    <2> QED
        BY <1>5, <1>6, <2>1, <2>2
<1>8. Extracted(c, h) = a \o b \o i \o o
    BY <1>1
<1> HIDE DEF a, b, i, o, W
<1>9. a \o b \in Seq(W) /\ (a \o b) \o i \in Seq(W) /\ ((a \o b) \o i) \o o \in Seq(W)
    BY <1>7
<1>10. ASSUME NEW e \in W PROVE Has(((a \o b) \o i) \o o, e)
    <2>1. Has(a, e) \/ Has(b, e) => Has(a \o b, e)
        BY <1>7, ConcatHas
    <2>2. Has(a \o b, e) \/ Has(i, e) => Has((a \o b) \o i, e)
        BY <1>7, <1>9, ConcatHas
    <2>3. Has((a \o b) \o i, e) \/ Has(o, e) => Has(((a \o b) \o i) \o o, e)
        BY <1>7, <1>9, ConcatHas
    <2> QED
        BY <1>7, <2>1, <2>2, <2>3
<1> QED
    BY <1>8, <1>9, <1>10 DEF W
-----------------------------------------------------------------------------
(***************************************************************************)
(* A statement and the rows.                                               *)
(***************************************************************************)
Row == [initiated : Nat, executed : Nat, acknowledged : Nat,
        amount : Nat, parties : SUBSET Parties,
        transfer_successful : {"null", "true", "false"}]

RowsOK ==
    /\ DOMAIN rows \subseteq Chains \X Chains \X Nat
    /\ \A k \in DOMAIN rows : rows[k] \in Row

Outcome(e) == IF e.kind = "successful" THEN "true" ELSE "false"

Acks == {"successful", "failed"}

LEMMA MergeInitiated ==
    ASSUME NEW row \in Row, NEW h \in Nat, NEW e \in Event, e.kind = "initiated"
    PROVE  LET m == Merge(row, h, e) IN
           /\ m \in Row
           /\ m.initiated = h /\ m.amount = e.amount /\ m.parties = e.parties
           /\ m.executed = row.executed /\ m.acknowledged = row.acknowledged
           /\ m.transfer_successful = row.transfer_successful
BY DEF Merge, Row, Event, store_outgoing_transfer_initiated

LEMMA MergeIncoming ==
    ASSUME NEW row \in Row, NEW h \in Nat, NEW e \in Event, e.kind = "incoming"
    PROVE  LET m == Merge(row, h, e) IN
           /\ m \in Row
           /\ m.executed = h /\ m.amount = e.amount /\ m.transfer_successful = "true"
           /\ m.initiated = row.initiated /\ m.acknowledged = row.acknowledged
           /\ m.parties = row.parties
BY DEF Merge, Row, Event, store_incoming_transfer_execution

LEMMA MergeAcknowledged ==
    ASSUME NEW row \in Row, NEW h \in Nat, NEW e \in Event, e.kind \in Acks
    PROVE  LET m == Merge(row, h, e) IN
           /\ m \in Row
           /\ m.acknowledged = h /\ m.transfer_successful = Outcome(e)
           /\ m.initiated = row.initiated /\ m.executed = row.executed
           /\ m.amount = row.amount /\ m.parties = row.parties
BY DEF Merge, Row, Event, Acks, Outcome, store_outgoing_transfer_acknowledgement

LEMMA KindsOfWanted ==
    ASSUME NEW c \in Chains, NEW h \in 1 .. Top(c), NEW e \in Wanted(c, h)
    PROVE  /\ e \in Event
           /\ e.kind = "initiated" \/ e.kind = "incoming" \/ e.kind \in Acks
           /\ Key(c, e) \in Chains \X Chains \X Nat
<1>1. e \in Event /\ e.kind # "other"
    BY WantedIs
<1>2. e.kind \in Kinds /\ e.chain \in Chains /\ e.nonce \in Nat
    BY <1>1 DEF Event
<1> QED
    BY <1>1, <1>2 DEF Kinds, Acks, Key

LEMMA Consistent ==
    ASSUME NEW c \in Chains, NEW g \in 1 .. Top(c), NEW e \in Wanted(c, g),
           NEW d \in Chains, NEW h \in 1 .. Top(d), NEW f \in Wanted(d, h),
           Key(c, e) = Key(d, f)
    PROVE  /\ Phase(e) = Phase(f) => e = f /\ g = h
           /\ e.kind = "initiated" /\ f.kind = "incoming" => e.amount = f.amount
           /\ e.kind = "incoming" => f.kind # "failed"
<1>1. PICK i \in DOMAIN Events[c][g] : e = Events[c][g][i] /\ e.kind # "other"
    BY DEF Wanted
<1>2. PICK j \in DOMAIN Events[d][h] : f = Events[d][h][j] /\ f.kind # "other"
    BY DEF Wanted
<1> QED
    BY <1>1, <1>2, MessageAssumption

\* What a stored event shows in a row, by its kind.
Shows(row, h, e) ==
    /\ e.kind = "initiated" => /\ row.initiated = h /\ row.amount = e.amount
                               /\ row.parties = e.parties
    /\ e.kind = "incoming" => /\ row.executed = h /\ row.amount = e.amount
                              /\ row.transfer_successful = "true"
    /\ e.kind \in Acks => /\ row.acknowledged = h
                          /\ row.transfer_successful = Outcome(e)

LEMMA StoredIs ==
    ASSUME NEW c \in Chains, NEW h \in 1 .. Top(c), NEW e \in Wanted(c, h)
    PROVE  Stored(c, h, e) <=> /\ Key(c, e) \in DOMAIN rows
                               /\ Shows(rows[Key(c, e)], h, e)
<1>1. e.kind = "initiated" \/ e.kind = "incoming" \/ e.kind \in Acks
    BY KindsOfWanted
<1>2. CASE e.kind = "initiated"
    BY <1>2 DEF Stored, Shows, Acks
<1>3. CASE e.kind = "incoming"
    BY <1>3 DEF Stored, Shows, Acks
<1>4. CASE e.kind = "successful"
    BY <1>4 DEF Stored, Shows, Acks, Outcome
<1>5. CASE e.kind = "failed"
    BY <1>5 DEF Stored, Shows, Acks, Outcome
<1> QED
    BY <1>1, <1>2, <1>3, <1>4, <1>5 DEF Acks

LEMMA StoredIsPrimed ==
    ASSUME NEW c \in Chains, NEW h \in 1 .. Top(c), NEW e \in Wanted(c, h)
    PROVE  Stored(c, h, e)' <=> /\ Key(c, e) \in DOMAIN rows'
                                /\ Shows(rows'[Key(c, e)], h, e)
<1>1. e.kind = "initiated" \/ e.kind = "incoming" \/ e.kind \in Acks
    BY KindsOfWanted
<1>2. CASE e.kind = "initiated"
    BY <1>2 DEF Stored, Shows, Acks
<1>3. CASE e.kind = "incoming"
    BY <1>3 DEF Stored, Shows, Acks
<1>4. CASE e.kind = "successful"
    BY <1>4 DEF Stored, Shows, Acks, Outcome
<1>5. CASE e.kind = "failed"
    BY <1>5 DEF Stored, Shows, Acks, Outcome
<1> QED
    BY <1>1, <1>2, <1>3, <1>4, <1>5 DEF Acks

\* The new event is shown, and so is any that was.
LEMMA MergeShows ==
    ASSUME NEW row \in Row, NEW c \in Chains, NEW h \in 1 .. Top(c), NEW e \in Wanted(c, h)
    PROVE  Merge(row, h, e) \in Row /\ Shows(Merge(row, h, e), h, e)
<1>1. /\ e \in Event /\ h \in Nat
      /\ e.kind = "initiated" \/ e.kind = "incoming" \/ e.kind \in Acks
    BY KindsOfWanted, EventsType
<1>2. CASE e.kind = "initiated"
    BY <1>1, <1>2, MergeInitiated DEF Shows, Acks
<1>3. CASE e.kind = "incoming"
    BY <1>1, <1>3, MergeIncoming DEF Shows, Acks
<1>4. CASE e.kind \in Acks
    BY <1>1, <1>4, MergeAcknowledged DEF Shows, Acks
<1> QED
    BY <1>1, <1>2, <1>3, <1>4

LEMMA MergeKeeps ==
    ASSUME NEW row \in Row, NEW c \in Chains, NEW h \in 1 .. Top(c), NEW e \in Wanted(c, h),
           NEW d \in Chains, NEW g \in 1 .. Top(d), NEW f \in Wanted(d, g),
           Key(c, e) = Key(d, f), Shows(row, g, f)
    PROVE  Shows(Merge(row, h, e), g, f)
<1>1. /\ e \in Event /\ h \in Nat
      /\ e.kind = "initiated" \/ e.kind = "incoming" \/ e.kind \in Acks
    BY KindsOfWanted, EventsType
<1>2. f.kind = "initiated" \/ f.kind = "incoming" \/ f.kind \in Acks
    BY KindsOfWanted
<1>3. CASE Phase(e) = Phase(f)
    <2>1. e = f /\ h = g
        BY <1>3, Consistent
    <2> QED
        BY <2>1, MergeShows
<1>4. CASE Phase(e) # Phase(f)
    <2>1. /\ e.kind = "initiated" /\ f.kind = "incoming" => e.amount = f.amount
          /\ e.kind = "incoming" => f.kind # "failed"
        BY Consistent
    <2>2. /\ f.kind = "initiated" /\ e.kind = "incoming" => f.amount = e.amount
          /\ f.kind = "incoming" => e.kind # "failed"
        BY Consistent
    <2>3. CASE e.kind = "initiated"
        <3>1. f.kind = "incoming" \/ f.kind \in Acks
            BY <1>2, <1>4, <2>3 DEF Phase, Acks
        <3> QED
            BY <1>1, <2>1, <2>3, <3>1, MergeInitiated DEF Shows, Acks
    <2>4. CASE e.kind = "incoming"
        <3>1. f.kind = "initiated" \/ f.kind = "successful"
            BY <1>2, <1>4, <2>1, <2>4 DEF Phase, Acks
        <3> QED
            BY <1>1, <2>2, <2>4, <3>1, MergeIncoming DEF Shows, Acks, Outcome
    <2>5. CASE e.kind \in Acks
        <3>1. f.kind = "initiated" \/ f.kind = "incoming"
            BY <1>2, <1>4, <2>5 DEF Phase, Acks
        <3>2. f.kind = "incoming" => Outcome(e) = "true"
            BY <2>2, <2>5 DEF Acks, Outcome
        <3> QED
            BY <1>1, <2>5, <3>1, <3>2, MergeAcknowledged DEF Shows, Acks
    <2> QED
        BY <1>1, <2>3, <2>4, <2>5
<1> QED
    BY <1>3, <1>4

LEMMA NullRowOK == NullRow \in Row
BY DEF NullRow, Row

LEMMA UpsertIs ==
    ASSUME RowsOK, NEW c \in Chains, NEW h \in 1 .. Top(c), NEW e \in Wanted(c, h),
           rows' = Upsert(c, h, e)
    PROVE  LET k == Key(c, e)
               old == IF k \in DOMAIN rows THEN rows[k] ELSE NullRow
           IN  /\ DOMAIN rows' = DOMAIN rows \union {k}
               /\ old \in Row
               /\ rows'[k] = Merge(old, h, e)
               /\ \A x \in DOMAIN rows : x # k => rows'[x] = rows[x]
BY NullRowOK DEF Upsert, RowsOK

LEMMA UpsertRows ==
    ASSUME RowsOK, NEW c \in Chains, NEW h \in 1 .. Top(c), NEW e \in Wanted(c, h),
           rows' = Upsert(c, h, e)
    PROVE  RowsOK'
<1> DEFINE k == Key(c, e)
           old == IF k \in DOMAIN rows THEN rows[k] ELSE NullRow
<1>1. /\ DOMAIN rows' = DOMAIN rows \union {k}
      /\ old \in Row
      /\ rows'[k] = Merge(old, h, e)
      /\ \A x \in DOMAIN rows : x # k => rows'[x] = rows[x]
    BY UpsertIs
<1>2. k \in Chains \X Chains \X Nat
    BY KindsOfWanted
<1> HIDE DEF k, old
<1>3. Merge(old, h, e) \in Row
    BY <1>1, MergeShows
<1> QED
    BY <1>1, <1>2, <1>3 DEF RowsOK

LEMMA UpsertStores ==
    ASSUME RowsOK, NEW c \in Chains, NEW h \in 1 .. Top(c), NEW e \in Wanted(c, h),
           rows' = Upsert(c, h, e)
    PROVE  Stored(c, h, e)'
<1> DEFINE k == Key(c, e)
           old == IF k \in DOMAIN rows THEN rows[k] ELSE NullRow
<1>1. /\ DOMAIN rows' = DOMAIN rows \union {k}
      /\ old \in Row
      /\ rows'[k] = Merge(old, h, e)
    BY UpsertIs
<1> HIDE DEF old
<1>2. Shows(rows'[k], h, e)
    BY <1>1, MergeShows
<1> QED
    BY <1>1, <1>2, StoredIsPrimed

LEMMA UpsertKeeps ==
    ASSUME RowsOK, NEW c \in Chains, NEW h \in 1 .. Top(c), NEW e \in Wanted(c, h),
           rows' = Upsert(c, h, e),
           NEW d \in Chains, NEW g \in 1 .. Top(d), NEW f \in Wanted(d, g), Stored(d, g, f)
    PROVE  Stored(d, g, f)'
<1> DEFINE k == Key(c, e)
           x == Key(d, f)
           old == IF k \in DOMAIN rows THEN rows[k] ELSE NullRow
<1>1. /\ DOMAIN rows' = DOMAIN rows \union {k}
      /\ old \in Row
      /\ rows'[k] = Merge(old, h, e)
      /\ \A y \in DOMAIN rows : y # k => rows'[y] = rows[y]
    BY UpsertIs
<1>2. x \in DOMAIN rows /\ Shows(rows[x], g, f)
    BY StoredIs
<1>3. Shows(rows'[x], g, f)
    <2>1. CASE x = k
        <3>1. old = rows[x]
            BY <1>2, <2>1
        <3> HIDE DEF old
        <3>2. Shows(Merge(old, h, e), g, f)
            BY <1>1, <1>2, <2>1, <3>1, MergeKeeps
        <3> QED
            BY <1>1, <2>1, <3>2
    <2>2. CASE x # k
        BY <1>1, <1>2, <2>2
    <2> QED
        BY <2>1, <2>2
<1> QED
    BY <1>1, <1>2, <1>3, StoredIsPrimed

LEMMA ToldByKept ==
    ASSUME RowsOK, NEW c \in Chains, NEW h \in 1 .. Top(c), NEW e \in Wanted(c, h),
           rows' = Upsert(c, h, e),
           NEW k, NEW d \in Chains, NEW g, NEW kinds, ToldBy(k, d, g, kinds)
    PROVE  ToldBy(k, d, g, kinds)'
<1>1. g \in 1 .. Top(d)
    BY DEF ToldBy
<1>2. PICK f \in Wanted(d, g) : f.kind \in kinds /\ Key(d, f) = k /\ Stored(d, g, f)
    BY DEF ToldBy
<1>3. Stored(d, g, f)'
    BY <1>1, <1>2, UpsertKeeps
<1> QED
    BY <1>1, <1>2, <1>3 DEF ToldBy

\* The columns of a row before and after an event's statement.
LEMMA UpsertTold ==
    ASSUME RowsOK, RowsTold, NEW c \in Chains, NEW h \in 1 .. Top(c), NEW e \in Wanted(c, h),
           rows' = Upsert(c, h, e)
    PROVE  RowsTold'
<1> DEFINE k == Key(c, e)
           old == IF k \in DOMAIN rows THEN rows[k] ELSE NullRow
<1>1. /\ DOMAIN rows' = DOMAIN rows \union {k}
      /\ old \in Row
      /\ rows'[k] = Merge(old, h, e)
      /\ \A x \in DOMAIN rows : x # k => rows'[x] = rows[x]
    BY UpsertIs
<1>2. /\ e \in Event /\ h \in Nat /\ h # 0
      /\ e.kind = "initiated" \/ e.kind = "incoming" \/ e.kind \in Acks
      /\ k \in Chains \X Chains \X Nat
    BY KindsOfWanted, EventsType
<1>3. Stored(c, h, e)'
    BY UpsertStores
<1>4. \A x \in DOMAIN rows : x \in Chains \X Chains \X Nat
    BY DEF RowsOK
<1>5. ASSUME NEW x \in DOMAIN rows, x # k PROVE RowToldBy(x)'
    <2>1. rows'[x] = rows[x] /\ x[1] \in Chains /\ x[2] \in Chains
        BY <1>1, <1>4, <1>5
    <2>2. RowToldBy(x)
        BY DEF RowsTold
    <2>3. /\ rows[x].initiated # 0 => ToldBy(x, x[1], rows[x].initiated, {"initiated"})'
          /\ rows[x].executed # 0 => ToldBy(x, x[2], rows[x].executed, {"incoming"})'
          /\ rows[x].acknowledged # 0 => ToldBy(x, x[1], rows[x].acknowledged, Acks)'
        <3>1. rows[x].initiated # 0 => ToldBy(x, x[1], rows[x].initiated, {"initiated"})
            BY <2>2 DEF RowToldBy
        <3>2. rows[x].executed # 0 => ToldBy(x, x[2], rows[x].executed, {"incoming"})
            BY <2>2 DEF RowToldBy
        <3>3. rows[x].acknowledged # 0 => ToldBy(x, x[1], rows[x].acknowledged, Acks)
            BY <2>2 DEF RowToldBy, Acks
        <3> QED
            BY <2>1, <3>1, <3>2, <3>3, ToldByKept
    <2> QED
        BY <2>1, <2>2, <2>3 DEF RowToldBy, Acks
<1>6. RowToldBy(k)'
    <2>0. PICK o \in Row : o = (IF k \in DOMAIN rows THEN rows[k] ELSE NullRow)
        BY <1>1
    <2> DEFINE new == Merge(o, h, e)
    <2>a. rows'[k] = new
        BY <1>1, <2>0
    <2>1. /\ o.initiated # 0 => ToldBy(k, k[1], o.initiated, {"initiated"})
          /\ o.executed # 0 => ToldBy(k, k[2], o.executed, {"incoming"})
          /\ o.acknowledged # 0 => ToldBy(k, k[1], o.acknowledged, Acks)
          /\ o.initiated = 0 => o.parties = {}
          /\ o.initiated = 0 /\ o.executed = 0 => o.amount = 0
          /\ o.executed = 0 /\ o.acknowledged = 0 => o.transfer_successful = "null"
        <3>1. CASE k \in DOMAIN rows
            <4>1. RowToldBy(k) /\ o = rows[k]
                BY <2>0, <3>1 DEF RowsTold
            <4> HIDE DEF k
            <4> QED
                BY <4>1 DEF RowToldBy, Acks
        <3>2. CASE k \notin DOMAIN rows
            <4>1. o = NullRow
                BY <2>0, <3>2
            <4> HIDE DEF k
            <4> QED
                BY <4>1 DEF NullRow
        <3> QED
            BY <3>1, <3>2
    <2>2. k[1] \in Chains /\ k[2] \in Chains
        BY <1>2
    <2>3. /\ e.kind = "incoming" => k[2] = c
          /\ e.kind \in {"initiated"} \union Acks => k[1] = c
        BY DEF Key, Acks
    <2>4. /\ o.initiated # 0 => ToldBy(k, k[1], o.initiated, {"initiated"})'
          /\ o.executed # 0 => ToldBy(k, k[2], o.executed, {"incoming"})'
          /\ o.acknowledged # 0 => ToldBy(k, k[1], o.acknowledged, Acks)'
        <3> HIDE DEF k
        <3> QED
            BY <2>1, <2>2, ToldByKept
    <2>5. /\ e.kind = "initiated" => ToldBy(k, k[1], h, {"initiated"})'
          /\ e.kind = "incoming" => ToldBy(k, k[2], h, {"incoming"})'
          /\ e.kind \in Acks => ToldBy(k, k[1], h, Acks)'
        BY <1>3, <2>3 DEF ToldBy
    <2> HIDE DEF k
    <2>6. CASE e.kind = "initiated"
        <3>1. /\ new.initiated = h
              /\ new.executed = o.executed /\ new.acknowledged = o.acknowledged
              /\ new.transfer_successful = o.transfer_successful
            BY <1>2, <2>6, MergeInitiated
        <3> HIDE DEF new
        <3>2. /\ new.initiated # 0 => ToldBy(k, k[1], new.initiated, {"initiated"})'
              /\ new.executed # 0 => ToldBy(k, k[2], new.executed, {"incoming"})'
              /\ new.acknowledged # 0 => ToldBy(k, k[1], new.acknowledged, Acks)'
            BY <1>2, <2>4, <2>5, <2>6, <3>1
        <3>3. /\ new.initiated = 0 => new.parties = {}
              /\ new.initiated = 0 /\ new.executed = 0 => new.amount = 0
              /\ new.executed = 0 /\ new.acknowledged = 0 => new.transfer_successful = "null"
            BY <1>2, <2>1, <2>6, <3>1
        <3> QED
            BY <2>a, <3>2, <3>3, Zenon DEF RowToldBy, Acks
    <2>7. CASE e.kind = "incoming"
        <3>1. /\ new.executed = h
              /\ new.initiated = o.initiated /\ new.acknowledged = o.acknowledged
              /\ new.parties = o.parties
            BY <1>2, <2>7, MergeIncoming
        <3> HIDE DEF new
        <3>2. /\ new.initiated # 0 => ToldBy(k, k[1], new.initiated, {"initiated"})'
              /\ new.executed # 0 => ToldBy(k, k[2], new.executed, {"incoming"})'
              /\ new.acknowledged # 0 => ToldBy(k, k[1], new.acknowledged, Acks)'
            BY <1>2, <2>4, <2>5, <2>7, <3>1
        <3>3. /\ new.initiated = 0 => new.parties = {}
              /\ new.initiated = 0 /\ new.executed = 0 => new.amount = 0
              /\ new.executed = 0 /\ new.acknowledged = 0 => new.transfer_successful = "null"
            BY <1>2, <2>1, <2>7, <3>1
        <3> QED
            BY <2>a, <3>2, <3>3, Zenon DEF RowToldBy, Acks
    <2>8. CASE e.kind \in Acks
        <3>1. /\ new.acknowledged = h
              /\ new.initiated = o.initiated /\ new.executed = o.executed
              /\ new.amount = o.amount /\ new.parties = o.parties
            BY <1>2, <2>8, MergeAcknowledged
        <3> HIDE DEF new
        <3>2. /\ new.initiated # 0 => ToldBy(k, k[1], new.initiated, {"initiated"})'
              /\ new.executed # 0 => ToldBy(k, k[2], new.executed, {"incoming"})'
              /\ new.acknowledged # 0 => ToldBy(k, k[1], new.acknowledged, Acks)'
            BY <1>2, <2>4, <2>5, <2>8, <3>1
        <3>3. /\ new.initiated = 0 => new.parties = {}
              /\ new.initiated = 0 /\ new.executed = 0 => new.amount = 0
              /\ new.executed = 0 /\ new.acknowledged = 0 => new.transfer_successful = "null"
            BY <1>2, <2>1, <2>8, <3>1
        <3> QED
            BY <2>a, <3>2, <3>3, Zenon DEF RowToldBy, Acks
    <2> QED
        BY <1>2, <2>6, <2>7, <2>8
<1> QED
    BY <1>1, <1>5, <1>6 DEF RowsTold
-----------------------------------------------------------------------------
(***************************************************************************)
(* The invariant, action by action.                                        *)
(***************************************************************************)
LEMMA Numbers ==
    ASSUME TypeOK, NEW c \in Chains
    PROVE  /\ next[c] \in Nat /\ next[c] # 0 /\ to[c] \in Nat /\ checkpoint[c] \in Nat
           /\ Top(c) \in Nat /\ to[c] <= Top(c) /\ checkpoint[c] <= Top(c)
           /\ Parallel \in Nat /\ Parallel # 0
           /\ DOMAIN todo[c] \subseteq next[c] .. to[c]
           /\ \A h \in DOMAIN todo[c] : h < next[c] + Parallel /\ h \in 1 .. Top(c)
<1>1. /\ next[c] \in Nat /\ next[c] # 0 /\ to[c] \in Nat /\ checkpoint[c] \in Nat
      /\ to[c] <= Top(c) /\ checkpoint[c] <= Top(c)
      /\ DOMAIN todo[c] \subseteq next[c] .. to[c]
      /\ \A h \in DOMAIN todo[c] : h < next[c] + Parallel
    BY DEF TypeOK
<1>2. Top(c) \in Nat
    BY EventsType
<1>3. Parallel \in Nat /\ Parallel # 0
    BY XdmAssumption
<1> QED
    BY <1>1, <1>2, <1>3

\* A step that leaves the rows alone leaves alone what they tell.
LEMMA RowsKept ==
    ASSUME rows' = rows
    PROVE  /\ \A c, h, e : Stored(c, h, e)' <=> Stored(c, h, e)
           /\ \A c, h : Covered(c, h)' <=> Covered(c, h)
           /\ RowsOK' <=> RowsOK
           /\ RowsTold' <=> RowsTold
<1>1. \A c, h, e : Stored(c, h, e)' <=> Stored(c, h, e)
    BY DEF Stored
<1>2. \A c, h : Covered(c, h)' <=> Covered(c, h)
    BY <1>1 DEF Covered
<1>3. RowsOK' <=> RowsOK
    BY DEF RowsOK
<1>4. RowsTold' <=> RowsTold
    <2>1. \A k, c, h, kinds : ToldBy(k, c, h, kinds)' <=> ToldBy(k, c, h, kinds)
        BY <1>1 DEF ToldBy
    <2>2. \A k : RowToldBy(k)' <=> RowToldBy(k)
        BY <2>1 DEF RowToldBy
    <2> QED
        BY <2>2 DEF RowsTold
<1> QED
    BY <1>1, <1>2, <1>3, <1>4

\* The conjuncts of TypeOK that are about processors, and those about rows.
ProcsOK ==
    /\ working \in [Chains -> BOOLEAN]
    /\ next \in [Chains -> Nat \ {0}] /\ to \in [Chains -> Nat]
    /\ \A c \in Chains :
          /\ to[c] <= Top(c) /\ checkpoint[c] <= Top(c)
          /\ DOMAIN todo[c] \subseteq next[c] .. to[c]
          /\ \A h \in DOMAIN todo[c] : h < next[c] + Parallel
    /\ checkpoint \in [Chains -> Nat]
    /\ failures \in 0 .. MaxFailures /\ rewinds \in 0 .. MaxRewinds

LEMMA ElementOf ==
    ASSUME NEW T, NEW q \in Seq(T), NEW j \in 1 .. Len(q)
    PROVE  q[j] \in T
OBVIOUS

LEMMA TypeParts == TypeOK <=> ProcsOK /\ RowsOK
BY DEF TypeOK, ProcsOK, RowsOK, Row

LEMMA InitIInv == Init => IInv
<1> SUFFICES ASSUME Init PROVE IInv
    OBVIOUS
<1> USE DEF Init, Nothing
<1>1. \A c \in Chains : DOMAIN todo[c] = {} /\ checkpoint[c] = 0 /\ ~working[c]
    OBVIOUS
<1>2. DOMAIN rows = {}
    OBVIOUS
<1>3. TypeOK
    <2>1. RowsOK
        BY <1>2 DEF RowsOK
    <2>2. ProcsOK
        BY <1>1, EventsType, XdmAssumption DEF ProcsOK
    <2> QED
        BY <2>1, <2>2, TypeParts
<1>4. InHand /\ IdleIsEmpty /\ CoveredBelow /\ RowsTold
    BY <1>1, <1>2 DEF InHand, IdleIsEmpty, CoveredBelow, RowsTold
<1>5. \A c \in Chains : next[c] <= Top(c) + 1
    BY EventsType
<1> QED
    BY <1>3, <1>4, <1>5 DEF IInv, Types

LEMMA StartBatchIInv ==
    ASSUME IInv, NEW c \in Chains, NEW from \in 1 .. Top(c), NEW until \in 1 .. Top(c),
           StartBatch(c, from, until)
    PROVE  IInv'
<1> USE DEF StartBatch
<1>0. TypeOK /\ DOMAIN todo = Chains
    BY DEF IInv, Types
<1>1. rows' = rows /\ todo' = todo /\ checkpoint' = checkpoint
    OBVIOUS
<1>2. DOMAIN todo[c] = {}
    BY DEF IInv, IdleIsEmpty
<1>3. from \in Nat /\ from # 0 /\ until \in Nat /\ until <= Top(c) /\ from <= checkpoint[c] + 1
    BY <1>0, Numbers
<1>4. TypeOK'
    <2>1. RowsOK' /\ ProcsOK
        BY <1>0, <1>1, TypeParts, RowsKept
    <2>2. /\ working' = [working EXCEPT ![c] = TRUE]
          /\ next' = [next EXCEPT ![c] = from] /\ to' = [to EXCEPT ![c] = until]
        OBVIOUS
    <2>3. /\ working' \in [Chains -> BOOLEAN]
          /\ next' \in [Chains -> Nat \ {0}] /\ to' \in [Chains -> Nat]
        BY <1>3, <2>1, <2>2 DEF ProcsOK
    <2>4. ASSUME NEW d \in Chains
          PROVE  /\ to'[d] <= Top(d)
                 /\ DOMAIN todo[d] \subseteq next'[d] .. to'[d]
                 /\ \A h \in DOMAIN todo[d] : h < next'[d] + Parallel
        <3>1. CASE d = c
            BY <1>2, <1>3, <2>1, <2>2, <3>1 DEF ProcsOK
        <3>2. CASE d # c
            <4>1. to'[d] = to[d] /\ next'[d] = next[d]
                BY <2>1, <2>2, <3>2 DEF ProcsOK
            <4> QED
                BY <2>1, <4>1 DEF ProcsOK
        <3> QED
            BY <3>1, <3>2
    <2>5. failures' \in 0 .. MaxFailures /\ rewinds' \in 0 .. MaxRewinds
        BY <2>1, XdmAssumption DEF ProcsOK
    <2>6. ProcsOK'
        BY <1>1, <2>1, <2>3, <2>4, <2>5 DEF ProcsOK
    <2> QED
        BY <2>1, <2>6, TypeParts DEF TypeOK, ProcsOK, RowsOK, Row
<1>5. InHand' /\ RowsTold'
    BY <1>1, RowsKept DEF IInv, InHand
<1>6. IdleIsEmpty'
    BY <1>0, <1>1 DEF IInv, IdleIsEmpty, TypeOK
<1>7. CoveredBelow'
    <2>1. SUFFICES ASSUME NEW d \in Chains
                   PROVE  /\ \A h \in 1 .. checkpoint[d] : Covered(d, h)
                          /\ working'[d] => \A h \in 1 .. next'[d] - 1 : Covered(d, h)
        BY <1>1, RowsKept DEF CoveredBelow
    <2>2. /\ \A h \in 1 .. checkpoint[d] : Covered(d, h)
          /\ working[d] => \A h \in 1 .. next[d] - 1 : Covered(d, h)
        BY DEF IInv, CoveredBelow
    <2>3. CASE d = c
        <3>1. next'[d] = from
            BY <1>0, <2>3 DEF TypeOK
        <3>2. \A h \in 1 .. from - 1 : h \in 1 .. checkpoint[d]
            BY <1>0, <1>3, <2>3, Numbers
        <3> QED
            BY <2>2, <3>1, <3>2
    <2>4. CASE d # c
        <3>1. next'[d] = next[d] /\ working'[d] = working[d]
            BY <1>0, <2>4 DEF TypeOK
        <3> QED
            BY <2>2, <3>1
    <2> QED
        BY <2>3, <2>4
<1>8. \A d \in Chains : next'[d] <= Top(d) + 1
    <2>1. \A d \in Chains : next'[d] = IF d = c THEN from ELSE next[d]
        <3>1. next \in [Chains -> Nat \ {0}] /\ next' = [next EXCEPT ![c] = from]
            BY <1>0 DEF TypeOK
        <3> HIDE DEF StartBatch
        <3> QED
            BY <3>1
    <2>2. from <= Top(c) + 1
        BY <1>3, EventsType
    <2> QED
        <3>1. \A d \in Chains : next[d] <= Top(d) + 1
            BY DEF IInv, Types
        <3> HIDE DEF StartBatch
        <3> QED
            BY <2>1, <2>2, <3>1
<1> QED
    BY <1>0, <1>1, <1>4, <1>5, <1>6, <1>7, <1>8 DEF IInv, Types

LEMMA StartBlockIInv ==
    ASSUME IInv, NEW c \in Chains, NEW h \in 1 .. Top(c), StartBlock(c, h)
    PROVE  IInv'
<1> USE DEF StartBlock
<1>0. TypeOK /\ DOMAIN todo = Chains
    BY DEF IInv, Types
<1>1. /\ rows' = rows /\ checkpoint' = checkpoint /\ next' = next /\ to' = to
      /\ working' = working /\ failures' = failures /\ rewinds' = rewinds
    OBVIOUS
<1>2. /\ DOMAIN todo' = Chains
      /\ \A d \in Chains \ {c} : todo'[d] = todo[d]
      /\ DOMAIN todo'[c] = DOMAIN todo[c] \union {h}
      /\ todo'[c][h] = Extracted(c, h)
      /\ \A g \in DOMAIN todo[c] : todo'[c][g] = todo[c][g]
    BY <1>0
<1>3. TypeOK'
    <2>1. RowsOK' /\ ProcsOK
        BY <1>0, <1>1, TypeParts, RowsKept
    <2>2. ProcsOK'
        BY <1>1, <1>2, <2>1 DEF ProcsOK
    <2> QED
        BY <2>1, <2>2 DEF TypeOK, ProcsOK, RowsOK, Row
<1>4. RowsTold' /\ CoveredBelow'
    BY <1>1, RowsKept DEF IInv, CoveredBelow
<1>5. IdleIsEmpty'
    <2>1. working[c]
        OBVIOUS
    <2> QED
        BY <1>1, <1>2, <2>1 DEF IInv, IdleIsEmpty
<1>6. InHand'
    <2>1. SUFFICES ASSUME NEW d \in Chains, NEW g \in DOMAIN todo'[d]
                   PROVE  /\ todo'[d][g] \in Seq(Wanted(d, g))
                          /\ \A e \in Wanted(d, g) : Stored(d, g, e) \/ Has(todo'[d][g], e)
        BY <1>1, RowsKept DEF InHand
    <2>2. CASE d = c /\ g = h
        BY <1>2, <2>2, ExtractedIs
    <2>3. CASE ~(d = c /\ g = h)
        <3>1. g \in DOMAIN todo[d] /\ todo'[d][g] = todo[d][g]
            BY <1>2, <2>1, <2>3
        <3> QED
            BY <3>1 DEF IInv, InHand
    <2> QED
        BY <2>2, <2>3
<1> QED
    BY <1>1, <1>2, <1>3, <1>4, <1>5, <1>6 DEF IInv, Types

LEMMA StoreEventIInv ==
    ASSUME IInv, NEW c \in Chains, NEW h \in 1 .. Top(c), StoreEvent(c, h)
    PROVE  IInv'
<1> USE DEF StoreEvent
<1>0. TypeOK /\ DOMAIN todo = Chains /\ RowsOK /\ RowsTold
    BY TypeParts DEF IInv, Types
<1>1. /\ checkpoint' = checkpoint /\ next' = next /\ to' = to
      /\ working' = working /\ failures' = failures /\ rewinds' = rewinds
    OBVIOUS
<1>2. /\ DOMAIN todo' = Chains
      /\ \A d \in Chains \ {c} : todo'[d] = todo[d]
      /\ DOMAIN todo'[c] = DOMAIN todo[c]
      /\ todo'[c][h] = Tail(todo[c][h])
      /\ \A g \in DOMAIN todo[c] \ {h} : todo'[c][g] = todo[c][g]
    BY <1>0
<1> DEFINE s == todo[c][h]
           e == Head(s)
<1>3. /\ s \in Seq(Wanted(c, h)) /\ s # <<>>
      /\ \A f \in Wanted(c, h) : Stored(c, h, f) \/ Has(s, f)
    BY DEF IInv, InHand
<1>4. /\ e \in Wanted(c, h) /\ Tail(s) \in Seq(Wanted(c, h))
      /\ \A f : Has(s, f) => f = e \/ Has(Tail(s), f)
    <2> DEFINE W == Wanted(c, h)
    <2> HIDE DEF s, W
    <2>1. s \in Seq(W) /\ s # <<>>
        BY <1>3 DEF W
    <2>2. e \in W /\ Tail(s) \in Seq(W) /\ Len(Tail(s)) = Len(s) - 1
        BY <2>1
    <2>3. \A j \in DOMAIN s : j # 1 => j - 1 \in DOMAIN Tail(s) /\ Tail(s)[j - 1] = s[j]
        BY <2>1
    <2>4. s[1] = e
        BY <2>1
    <2> QED
        BY <2>2, <2>3, <2>4 DEF Has, W
<1>5. PICK x \in Wanted(c, h) : x = e
    BY <1>4
<1>6. rows' = Upsert(c, h, x)
    BY <1>5
<1>7. RowsOK' /\ RowsTold' /\ Stored(c, h, x)'
    BY <1>0, <1>6, UpsertRows, UpsertTold, UpsertStores
<1>8. \A d \in Chains : \A g \in 1 .. Top(d) : \A f \in Wanted(d, g) :
          Stored(d, g, f) => Stored(d, g, f)'
    BY <1>0, <1>6, UpsertKeeps
<1>9. \A d \in Chains : \A g \in 1 .. Top(d) : Covered(d, g) => Covered(d, g)'
    BY <1>8 DEF Covered
<1>10. TypeOK'
    <2>1. ProcsOK
        BY <1>0, TypeParts
    <2>2. ProcsOK'
        BY <1>1, <1>2, <2>1 DEF ProcsOK
    <2> QED
        BY <1>7, <2>2 DEF TypeOK, ProcsOK, RowsOK, Row
<1>11. CoveredBelow'
    <2>1. SUFFICES ASSUME NEW d \in Chains
                   PROVE  /\ \A g \in 1 .. checkpoint[d] : Covered(d, g)'
                          /\ working[d] => \A g \in 1 .. next[d] - 1 : Covered(d, g)'
        BY <1>1 DEF CoveredBelow
    <2>2. /\ \A g \in 1 .. checkpoint[d] : Covered(d, g)
          /\ working[d] => \A g \in 1 .. next[d] - 1 : Covered(d, g)
        BY DEF IInv, CoveredBelow
    <2>3. \A g \in 1 .. checkpoint[d] : g \in 1 .. Top(d)
        BY <1>0, Numbers
    <2>4. \A g \in 1 .. next[d] - 1 : g \in 1 .. Top(d)
        <3>1. next[d] <= Top(d) + 1
            BY DEF IInv, Types
        <3> QED
            BY <1>0, <3>1, Numbers
    <2> QED
        BY <1>9, <2>2, <2>3, <2>4
<1>12. IdleIsEmpty'
    BY <1>1, <1>2 DEF IInv, IdleIsEmpty
<1>13. InHand'
    <2>1. SUFFICES ASSUME NEW d \in Chains, NEW g \in DOMAIN todo'[d]
                   PROVE  /\ todo'[d][g] \in Seq(Wanted(d, g))
                          /\ \A f \in Wanted(d, g) : Stored(d, g, f)' \/ Has(todo'[d][g], f)
        BY DEF InHand
    <2>2. CASE d = c /\ g = h
        <3>1. todo'[d][g] = Tail(s)
            BY <1>2, <2>2
        <3>2. ASSUME NEW f \in Wanted(c, h) PROVE Stored(c, h, f)' \/ Has(Tail(s), f)
            <4>1. CASE Stored(c, h, f)
                BY <1>8, <4>1
            <4>2. CASE Has(s, f)
                <5>1. f = x \/ Has(Tail(s), f)
                    BY <1>4, <1>5, <4>2
                <5> QED
                    BY <1>7, <5>1
            <4> QED
                BY <1>3, <4>1, <4>2
        <3> HIDE DEF s
        <3> QED
            BY <1>4, <2>2, <3>1, <3>2
    <2>3. CASE ~(d = c /\ g = h)
        <3>1. g \in DOMAIN todo[d] /\ todo'[d][g] = todo[d][g]
            BY <1>2, <2>1, <2>3
        <3>2. g \in 1 .. Top(d)
            BY <1>0, <3>1, Numbers
        <3> QED
            BY <1>8, <3>1, <3>2 DEF IInv, InHand
    <2> QED
        BY <2>2, <2>3
<1> QED
    BY <1>1, <1>2, <1>7, <1>10, <1>11, <1>12, <1>13 DEF IInv, Types

LEMMA YieldBlockIInv ==
    ASSUME IInv, NEW c \in Chains, YieldBlock(c)
    PROVE  IInv'
<1> USE DEF YieldBlock
<1>0. TypeOK /\ DOMAIN todo = Chains
    BY DEF IInv, Types
<1>1. /\ rows' = rows /\ to' = to /\ working' = working
      /\ failures' = failures /\ rewinds' = rewinds
    OBVIOUS
<1>2. /\ next[c] \in DOMAIN todo[c] /\ next[c] \in 1 .. Top(c)
      /\ next[c] \in Nat /\ next[c] <= Top(c)
    BY <1>0, Numbers
<1>3. /\ DOMAIN todo' = Chains
      /\ \A d \in Chains \ {c} : todo'[d] = todo[d] /\ next'[d] = next[d]
      /\ DOMAIN todo'[c] = DOMAIN todo[c] \ {next[c]}
      /\ \A g \in DOMAIN todo'[c] : todo'[c][g] = todo[c][g]
      /\ next'[c] = next[c] + 1
    BY <1>0 DEF TypeOK
<1>4. /\ checkpoint' \in [Chains -> Nat]
      /\ \A d \in Chains \ {c} : checkpoint'[d] = checkpoint[d]
      /\ checkpoint'[c] = checkpoint[c] \/ checkpoint'[c] = next[c]
    <2>1. checkpoint \in [Chains -> Nat]
        BY <1>0 DEF TypeOK
    <2>2. checkpoint' = checkpoint \/ checkpoint' = [checkpoint EXCEPT ![c] = next[c]]
        OBVIOUS
    <2> QED
        BY <1>2, <2>1, <2>2
<1>5. Covered(c, next[c])
    <2>1. todo[c][next[c]] = <<>>
        OBVIOUS
    <2>2. \A e \in Wanted(c, next[c]) : ~Has(todo[c][next[c]], e)
        BY <2>1 DEF Has
    <2> QED
        BY <1>2, <2>2 DEF IInv, InHand, Covered
<1>6. \A h \in 1 .. next[c] : Covered(c, h)
    <2>1. \A h \in 1 .. next[c] - 1 : Covered(c, h)
        BY DEF IInv, CoveredBelow
    <2>2. \A h \in 1 .. next[c] : h = next[c] \/ h \in 1 .. next[c] - 1
        BY <1>2
    <2> QED
        BY <1>5, <2>1, <2>2
<1>7. TypeOK'
    <2>1. RowsOK' /\ ProcsOK
        BY <1>0, <1>1, TypeParts, RowsKept
    <2>2. ASSUME NEW d \in Chains
          PROVE  /\ to'[d] <= Top(d) /\ checkpoint'[d] <= Top(d)
                 /\ DOMAIN todo'[d] \subseteq next'[d] .. to'[d]
                 /\ \A h \in DOMAIN todo'[d] : h < next'[d] + Parallel
        <3>1. CASE d = c
            <4>1. checkpoint'[d] <= Top(d) /\ to'[d] <= Top(d)
                BY <1>0, <1>1, <1>2, <1>4, <3>1, Numbers
            <4>2. DOMAIN todo'[d] \subseteq next'[d] .. to'[d]
                BY <1>0, <1>1, <1>3, <3>1, Numbers
            <4>3. \A h \in DOMAIN todo'[d] : h < next'[d] + Parallel
                BY <1>0, <1>1, <1>3, <3>1, Numbers
            <4> QED
                BY <4>1, <4>2, <4>3
        <3>2. CASE d # c
            BY <1>1, <1>3, <1>4, <2>1, <3>2 DEF ProcsOK
        <3> QED
            BY <3>1, <3>2
    <2>3. next' \in [Chains -> Nat \ {0}]
        <3>1. next \in [Chains -> Nat \ {0}] /\ next[c] + 1 \in Nat \ {0}
            BY <1>0, <1>2 DEF TypeOK
        <3> QED
            BY <3>1
    <2>4. ProcsOK'
        BY <1>1, <1>4, <2>1, <2>2, <2>3 DEF ProcsOK
    <2> QED
        BY <2>1, <2>4 DEF TypeOK, ProcsOK, RowsOK, Row
<1>8. RowsTold'
    BY <1>1, RowsKept DEF IInv
<1>9. IdleIsEmpty'
    BY <1>1, <1>3 DEF IInv, IdleIsEmpty
<1>10. InHand'
    <2>1. SUFFICES ASSUME NEW d \in Chains, NEW g \in DOMAIN todo'[d]
                   PROVE  /\ todo'[d][g] \in Seq(Wanted(d, g))
                          /\ \A e \in Wanted(d, g) : Stored(d, g, e) \/ Has(todo'[d][g], e)
        BY <1>1, RowsKept DEF InHand
    <2>2. g \in DOMAIN todo[d] /\ todo'[d][g] = todo[d][g]
        BY <1>3, <2>1
    <2> QED
        BY <2>2 DEF IInv, InHand
<1>11. CoveredBelow'
    <2>1. SUFFICES ASSUME NEW d \in Chains
                   PROVE  /\ \A h \in 1 .. checkpoint'[d] : Covered(d, h)
                          /\ working'[d] => \A h \in 1 .. next'[d] - 1 : Covered(d, h)
        BY <1>1, RowsKept DEF CoveredBelow
    <2>2. /\ \A h \in 1 .. checkpoint[d] : Covered(d, h)
          /\ working[d] => \A h \in 1 .. next[d] - 1 : Covered(d, h)
        BY DEF IInv, CoveredBelow
    <2>3. CASE d = c
        <3>1. next'[d] - 1 = next[c]
            BY <1>2, <1>3, <2>3
        <3> QED
            BY <1>4, <1>6, <2>2, <2>3, <3>1
    <2>4. CASE d # c
        BY <1>1, <1>3, <1>4, <2>2, <2>4
    <2> QED
        BY <2>3, <2>4
<1>12. \A d \in Chains : next'[d] <= Top(d) + 1
    <2>1. next'[c] <= Top(c) + 1
        BY <1>2, <1>3, EventsType
    <2> QED
        BY <1>3, <2>1 DEF IInv, Types
<1> QED
    BY <1>3, <1>7, <1>8, <1>9, <1>10, <1>11, <1>12 DEF IInv, Types

LEMMA FinishBatchIInv ==
    ASSUME IInv, NEW c \in Chains, FinishBatch(c)
    PROVE  IInv'
<1> USE DEF FinishBatch
<1>0. TypeOK /\ DOMAIN todo = Chains
    BY DEF IInv, Types
<1>1. /\ rows' = rows /\ to' = to /\ next' = next /\ todo' = todo
      /\ failures' = failures /\ rewinds' = rewinds
    OBVIOUS
<1>2. /\ next[c] > to[c] /\ to[c] \in Nat /\ to[c] <= Top(c) /\ next[c] \in Nat
      /\ working[c] /\ DOMAIN todo[c] = {}
    BY <1>0, Numbers
<1>3. /\ checkpoint' \in [Chains -> Nat]
      /\ \A d \in Chains \ {c} : checkpoint'[d] = checkpoint[d] /\ working'[d] = working[d]
      /\ checkpoint'[c] = to[c]
      /\ ~working'[c]
      /\ working' \in [Chains -> BOOLEAN]
    BY <1>0, <1>2 DEF TypeOK
<1>4. TypeOK'
    <2>1. RowsOK' /\ ProcsOK
        BY <1>0, <1>1, TypeParts, RowsKept
    <2>2. ProcsOK'
        BY <1>1, <1>2, <1>3, <2>1 DEF ProcsOK
    <2> QED
        BY <2>1, <2>2 DEF TypeOK, ProcsOK, RowsOK, Row
<1>5. InHand' /\ RowsTold'
    BY <1>1, RowsKept DEF IInv, InHand
<1>6. IdleIsEmpty'
    BY <1>1, <1>2, <1>3 DEF IInv, IdleIsEmpty
<1>7. CoveredBelow'
    <2>1. SUFFICES ASSUME NEW d \in Chains
                   PROVE  /\ \A h \in 1 .. checkpoint'[d] : Covered(d, h)
                          /\ working'[d] => \A h \in 1 .. next[d] - 1 : Covered(d, h)
        BY <1>1, RowsKept DEF CoveredBelow
    <2>2. /\ \A h \in 1 .. checkpoint[d] : Covered(d, h)
          /\ working[d] => \A h \in 1 .. next[d] - 1 : Covered(d, h)
        BY DEF IInv, CoveredBelow
    <2>3. CASE d = c
        <3>1. \A h \in 1 .. to[c] : h \in 1 .. next[c] - 1
            BY <1>2
        <3> QED
            BY <1>2, <1>3, <2>2, <2>3, <3>1
    <2>4. CASE d # c
        BY <1>3, <2>2, <2>4
    <2> QED
        BY <2>3, <2>4
<1> QED
    BY <1>0, <1>1, <1>4, <1>5, <1>6, <1>7 DEF IInv, Types

LEMMA CrashIInv ==
    ASSUME IInv, Crash
    PROVE  IInv'
<1> USE DEF Crash, Nothing
<1>0. TypeOK
    BY DEF IInv, Types
<1>1. /\ rows' = rows /\ to' = to /\ next' = next /\ checkpoint' = checkpoint
      /\ rewinds' = rewinds /\ failures' \in 0 .. MaxFailures
    BY <1>0, XdmAssumption DEF TypeOK
<1>2. /\ DOMAIN todo' = Chains
      /\ \A c \in Chains : DOMAIN todo'[c] = {} /\ ~working'[c]
      /\ working' \in [Chains -> BOOLEAN]
    OBVIOUS
<1>3. TypeOK'
    <2>1. RowsOK' /\ ProcsOK
        BY <1>0, <1>1, TypeParts, RowsKept
    <2>2. ProcsOK'
        BY <1>1, <1>2, <2>1 DEF ProcsOK
    <2> QED
        BY <2>1, <2>2 DEF TypeOK, ProcsOK, RowsOK, Row
<1>4. InHand' /\ IdleIsEmpty'
    BY <1>2 DEF InHand, IdleIsEmpty
<1>5. RowsTold' /\ CoveredBelow'
    BY <1>1, <1>2, RowsKept DEF IInv, CoveredBelow
<1> QED
    BY <1>1, <1>2, <1>3, <1>4, <1>5 DEF IInv, Types

LEMMA StepIInv == IInv /\ [Next]_vars => IInv'
<1> SUFFICES ASSUME IInv, [Next]_vars PROVE IInv'
    OBVIOUS
<1>1. CASE Next
    <2>1. ASSUME NEW c \in Chains, NEW from \in 1 .. Top(c), NEW until \in 1 .. Top(c),
                 StartBatch(c, from, until)
          PROVE  IInv'
        BY <2>1, StartBatchIInv
    <2>2. ASSUME NEW c \in Chains, NEW h \in 1 .. Top(c), StartBlock(c, h)
          PROVE  IInv'
        BY <2>2, StartBlockIInv
    <2>3. ASSUME NEW c \in Chains, NEW h \in 1 .. Top(c), StoreEvent(c, h)
          PROVE  IInv'
        BY <2>3, StoreEventIInv
    <2>4. ASSUME NEW c \in Chains, YieldBlock(c)
          PROVE  IInv'
        BY <2>4, YieldBlockIInv
    <2>5. ASSUME NEW c \in Chains, FinishBatch(c)
          PROVE  IInv'
        BY <2>5, FinishBatchIInv
    <2>6. CASE Crash
        BY <2>6, CrashIInv
    <2> QED
        BY <1>1, <2>1, <2>2, <2>3, <2>4, <2>5, <2>6 DEF Next
<1>2. CASE UNCHANGED vars
    <2>1. /\ working' = working /\ next' = next /\ to' = to /\ todo' = todo
          /\ checkpoint' = checkpoint /\ rows' = rows
          /\ failures' = failures /\ rewinds' = rewinds
        BY <1>2 DEF vars, procVars
    <2>2. TypeOK' /\ RowsTold'
        BY <2>1, RowsKept DEF IInv, Types, TypeOK
    <2>3. InHand' /\ CoveredBelow'
        BY <2>1, RowsKept DEF IInv, InHand, CoveredBelow
    <2> QED
        BY <2>1, <2>2, <2>3 DEF IInv, Types, IdleIsEmpty
<1> QED
    BY <1>1, <1>2

(***************************************************************************)
(* TypeCorrect: every variable keeps its type, no batch reaches above the  *)
(* chain, and no more blocks are in flight than the buffer of              *)
(* `process_blocks_in_parallel` holds.                                     *)
(***************************************************************************)
THEOREM TypeCorrect == Spec => []TypeOK
<1>1. IInv => TypeOK
    BY DEF IInv, Types
<1> QED
    BY InitIInv, StepIInv, <1>1, PTL DEF Spec

LEMMA CoveredIs ==
    ASSUME NEW c \in Chains, NEW h \in 1 .. Top(c), Covered(c, h),
           NEW i \in DOMAIN Events[c][h], Events[c][h][i].kind # "other"
    PROVE  Events[c][h][i] \in Wanted(c, h) /\ Stored(c, h, Events[c][h][i])
<1>1. Events[c][h][i] \in Wanted(c, h)
    BY DEF Wanted
<1> QED
    BY <1>1 DEF Covered

(***************************************************************************)
(* CheckpointIsCovered: `store_events` has stored every event up to the    *)
(* checkpoint `run_processor` saved for a chain, read from segments or     *)
(* not, and the other chain's statements on the same row have left it so.  *)
(***************************************************************************)
THEOREM CheckpointIsCovered == Spec => []CheckpointCovers
<1>1. IInv => CheckpointCovers
    <2>1. SUFFICES ASSUME IInv, NEW c \in Chains, NEW h \in 1 .. checkpoint[c],
                          NEW i \in DOMAIN Events[c][h], Events[c][h][i].kind # "other"
                   PROVE  Stored(c, h, Events[c][h][i])
        BY DEF CheckpointCovers
    <2>2. TypeOK /\ Covered(c, h)
        BY <2>1 DEF IInv, Types, CoveredBelow
    <2>3. h \in 1 .. Top(c)
        BY <2>2, Numbers
    <2> QED
        BY <2>1, <2>2, <2>3, CoveredIs
<1> QED
    BY InitIInv, StepIInv, <1>1, PTL DEF Spec

LEMMA ToldByShows ==
    ASSUME NEW k, NEW c \in Chains, NEW h, NEW kinds, ToldBy(k, c, h, kinds)
    PROVE  /\ k \in DOMAIN rows
           /\ \E e \in Wanted(c, h) : e.kind \in kinds /\ Key(c, e) = k /\ Shows(rows[k], h, e)
<1>1. h \in 1 .. Top(c)
    BY DEF ToldBy
<1>2. PICK e \in Wanted(c, h) : e.kind \in kinds /\ Key(c, e) = k /\ Stored(c, h, e)
    BY DEF ToldBy
<1>3. k \in DOMAIN rows /\ Shows(rows[k], h, e)
    BY <1>1, <1>2, StoredIs
<1> QED
    BY <1>2, <1>3

LEMMA WantedFrom ==
    ASSUME NEW k, NEW c, NEW h, NEW kinds,
           NEW e \in Wanted(c, h), e.kind \in kinds, Key(c, e) = k
    PROVE  From(k, c, h, kinds)
BY DEF Wanted, From

(***************************************************************************)
(* NothingIsInvented: each column the three `store_...` statements fill    *)
(* comes from an event of that transfer on the right chain.                *)
(***************************************************************************)
THEOREM NothingIsInvented == Spec => []NothingInvented
<1>1. IInv => NothingInvented
    <2>1. SUFFICES ASSUME IInv, NEW k \in DOMAIN rows
                   PROVE  /\ rows[k].initiated # 0 =>
                                From(k, k[1], rows[k].initiated, {"initiated"})
                          /\ rows[k].executed # 0 =>
                                From(k, k[2], rows[k].executed, {"incoming"})
                          /\ rows[k].acknowledged # 0 =>
                                From(k, k[1], rows[k].acknowledged,
                                     IF rows[k].transfer_successful = "true"
                                     THEN {"successful"} ELSE {"failed"})
                          /\ rows[k].transfer_successful # "null" =>
                                rows[k].executed # 0 \/ rows[k].acknowledged # 0
        BY DEF NothingInvented
    <2>2. RowToldBy(k) /\ k[1] \in Chains /\ k[2] \in Chains
        BY <2>1, TypeParts DEF IInv, Types, RowsTold, RowsOK
    <2>4. ASSUME rows[k].initiated # 0
          PROVE  From(k, k[1], rows[k].initiated, {"initiated"})
        <3>1. PICK e \in Wanted(k[1], rows[k].initiated) :
                  e.kind \in {"initiated"} /\ Key(k[1], e) = k
            BY <2>2, <2>4 DEF RowToldBy, ToldBy
        <3> QED
            BY <2>2, <3>1, WantedFrom
    <2>5. ASSUME rows[k].executed # 0
          PROVE  From(k, k[2], rows[k].executed, {"incoming"})
        <3>1. PICK e \in Wanted(k[2], rows[k].executed) :
                  e.kind \in {"incoming"} /\ Key(k[2], e) = k
            BY <2>2, <2>5 DEF RowToldBy, ToldBy
        <3> QED
            BY <2>2, <3>1, WantedFrom
    <2>6. ASSUME rows[k].acknowledged # 0
          PROVE  From(k, k[1], rows[k].acknowledged,
                      IF rows[k].transfer_successful = "true"
                      THEN {"successful"} ELSE {"failed"})
        <3>1. ToldBy(k, k[1], rows[k].acknowledged, Acks)
            BY <2>2, <2>6 DEF RowToldBy, Acks
        <3>2. PICK e \in Wanted(k[1], rows[k].acknowledged) :
                  e.kind \in Acks /\ Key(k[1], e) = k /\ Shows(rows[k], rows[k].acknowledged, e)
            BY <2>2, <3>1, ToldByShows
        <3>3. rows[k].transfer_successful = Outcome(e)
            BY <3>2 DEF Shows
        <3>4. e.kind \in IF rows[k].transfer_successful = "true"
                         THEN {"successful"} ELSE {"failed"}
            BY <3>2, <3>3 DEF Outcome, Acks
        <3> QED
            BY <2>2, <3>2, <3>4, WantedFrom
    <2>7. rows[k].transfer_successful # "null" =>
              rows[k].executed # 0 \/ rows[k].acknowledged # 0
        BY <2>2 DEF RowToldBy
    <2> QED
        BY <2>4, <2>5, <2>6, <2>7
<1> QED
    BY InitIInv, StepIInv, <1>1, PTL DEF Spec

\* A step leaves the rows alone or stores one event.
LEMMA RowsStep ==
    ASSUME IInv, [Next]_vars
    PROVE  \/ rows' = rows
           \/ \E c \in Chains : \E h \in 1 .. Top(c) : \E e \in Wanted(c, h) :
                 rows' = Upsert(c, h, e)
<1>1. ASSUME NEW c \in Chains, NEW h \in 1 .. Top(c), StoreEvent(c, h)
      PROVE  \E e \in Wanted(c, h) : rows' = Upsert(c, h, e)
    <2> DEFINE s == todo[c][h]
               W == Wanted(c, h)
    <2>1. s \in Seq(W) /\ s # <<>>
        BY <1>1 DEF IInv, InHand, StoreEvent
    <2>2. Head(s) \in W
        <3> HIDE DEF s, W
        <3> QED
            BY <2>1
    <2>3. rows' = Upsert(c, h, Head(s))
        BY <1>1 DEF StoreEvent
    <2> QED
        BY <2>2, <2>3
<1>2. CASE Next
    <2>1. ASSUME NEW c \in Chains, NEW from \in 1 .. Top(c), NEW until \in 1 .. Top(c),
                 StartBatch(c, from, until)
          PROVE  rows' = rows
        BY <2>1 DEF StartBatch
    <2>2. ASSUME NEW c \in Chains, NEW h \in 1 .. Top(c), StartBlock(c, h)
          PROVE  rows' = rows
        BY <2>2 DEF StartBlock
    <2>3. ASSUME NEW c \in Chains, YieldBlock(c) \/ FinishBatch(c)
          PROVE  rows' = rows
        BY <2>3 DEF YieldBlock, FinishBatch
    <2>4. CASE Crash
        BY <2>4 DEF Crash
    <2> QED
        BY <1>1, <1>2, <2>1, <2>2, <2>3, <2>4 DEF Next
<1>3. CASE UNCHANGED vars
    BY <1>3 DEF vars
<1> QED
    BY <1>2, <1>3

\* What is covered stays so, whoever writes the rows.
LEMMA CoveredStep ==
    ASSUME IInv, [Next]_vars, NEW d \in Chains, NEW g \in 1 .. Top(d), Covered(d, g)
    PROVE  Covered(d, g)'
<1>1. CASE rows' = rows
    BY <1>1, RowsKept
<1>2. CASE \E c \in Chains : \E h \in 1 .. Top(c) : \E e \in Wanted(c, h) :
              rows' = Upsert(c, h, e)
    <2>1. PICK c \in Chains : \E h \in 1 .. Top(c) : \E e \in Wanted(c, h) :
              rows' = Upsert(c, h, e)
        BY <1>2
    <2>a. PICK h \in 1 .. Top(c) : \E e \in Wanted(c, h) : rows' = Upsert(c, h, e)
        BY <2>1
    <2>2. PICK e \in Wanted(c, h) : rows' = Upsert(c, h, e)
        BY <2>a
    <2>3. RowsOK
        BY TypeParts DEF IInv, Types
    <2>4. \A f \in Wanted(d, g) : Stored(d, g, f)'
        BY <2>2, <2>3, UpsertKeeps DEF Covered
    <2> QED
        BY <2>4 DEF Covered
<1> QED
    BY <1>1, <1>2, RowsStep

Columns == {"initiated", "executed", "acknowledged", "amount", "parties",
            "transfer_successful"}

\* A column of row k that is set keeps its value.
KeepsColumns(old, new) ==
    \A column \in Columns : old[column] = NullRow[column] \/ new[column] = old[column]

LEMMA UpsertUnsays ==
    ASSUME RowsOK, RowsTold, NEW c \in Chains, NEW h \in 1 .. Top(c), NEW e \in Wanted(c, h),
           rows' = Upsert(c, h, e), NEW k \in DOMAIN rows
    PROVE  KeepsColumns(rows[k], rows'[k])
<1>1. /\ rows[k] \in Row /\ k[1] \in Chains /\ k[2] \in Chains
      /\ RowToldBy(k)
    BY DEF RowsOK, RowsTold
<1> DEFINE old == rows[k]
           new == rows'[k]
<1>2. ASSUME NEW d \in Chains, NEW g, NEW kinds, ToldBy(k, d, g, kinds)
      PROVE  \E f \in Wanted(d, g) :
                f.kind \in kinds /\ Shows(old, g, f) /\ Shows(new, g, f)
    <2>1. g \in 1 .. Top(d)
        BY <1>2 DEF ToldBy
    <2>2. PICK f \in Wanted(d, g) : f.kind \in kinds /\ Key(d, f) = k /\ Stored(d, g, f)
        BY <1>2 DEF ToldBy
    <2>3. Stored(d, g, f)'
        BY <2>1, <2>2, UpsertKeeps
    <2> QED
        BY <2>1, <2>2, <2>3, StoredIs, StoredIsPrimed
<1>3. ASSUME old.initiated # 0
      PROVE  /\ new.initiated = old.initiated /\ new.amount = old.amount
             /\ new.parties = old.parties
    <2>1. ToldBy(k, k[1], old.initiated, {"initiated"})
        BY <1>1, <1>3 DEF RowToldBy
    <2>2. PICK f \in Wanted(k[1], old.initiated) :
              /\ f.kind \in {"initiated"}
              /\ Shows(old, old.initiated, f) /\ Shows(new, old.initiated, f)
        BY <1>1, <1>2, <2>1
    <2> QED
        BY <2>2 DEF Shows
<1>4. ASSUME old.executed # 0
      PROVE  /\ new.executed = old.executed /\ new.amount = old.amount
             /\ new.transfer_successful = old.transfer_successful
    <2>1. ToldBy(k, k[2], old.executed, {"incoming"})
        BY <1>1, <1>4 DEF RowToldBy
    <2>2. PICK f \in Wanted(k[2], old.executed) :
              /\ f.kind \in {"incoming"}
              /\ Shows(old, old.executed, f) /\ Shows(new, old.executed, f)
        BY <1>1, <1>2, <2>1
    <2> QED
        BY <2>2 DEF Shows
<1>5. ASSUME old.acknowledged # 0
      PROVE  /\ new.acknowledged = old.acknowledged
             /\ new.transfer_successful = old.transfer_successful
    <2>1. ToldBy(k, k[1], old.acknowledged, Acks)
        BY <1>1, <1>5 DEF RowToldBy, Acks
    <2>2. PICK f \in Wanted(k[1], old.acknowledged) :
              /\ f.kind \in Acks
              /\ Shows(old, old.acknowledged, f) /\ Shows(new, old.acknowledged, f)
        BY <1>1, <1>2, <2>1
    <2> QED
        BY <2>2 DEF Shows
<1>6. /\ old.initiated = 0 => old.parties = {}
      /\ old.initiated = 0 /\ old.executed = 0 => old.amount = 0
      /\ old.executed = 0 /\ old.acknowledged = 0 => old.transfer_successful = "null"
    BY <1>1 DEF RowToldBy
<1> HIDE DEF old, new
<1>7. /\ old.initiated = NullRow.initiated \/ new.initiated = old.initiated
      /\ old.executed = NullRow.executed \/ new.executed = old.executed
      /\ old.acknowledged = NullRow.acknowledged \/ new.acknowledged = old.acknowledged
      /\ old.amount = NullRow.amount \/ new.amount = old.amount
      /\ old.parties = NullRow.parties \/ new.parties = old.parties
      /\ \/ old.transfer_successful = NullRow.transfer_successful
         \/ new.transfer_successful = old.transfer_successful
    BY <1>3, <1>4, <1>5, <1>6 DEF NullRow
<1> QED
    BY <1>7 DEF KeepsColumns, Columns, old, new

(***************************************************************************)
(* NothingIsUnsaid: the `on conflict do update` of a statement takes back  *)
(* no column another one has filled, in whatever order the processors run  *)
(* and however often a block is processed again.                           *)
(***************************************************************************)
THEOREM NothingIsUnsaid == Spec => NothingUnsaid
<1> DEFINE A == \A k \in DOMAIN rows :
                    /\ k \in DOMAIN rows'
                    /\ \A column \in DOMAIN rows[k] :
                          \/ rows[k][column] = NullRow[column]
                          \/ rows'[k][column] = rows[k][column]
<1>1. ASSUME IInv, [Next]_vars PROVE A
    <2>0. RowsOK /\ RowsTold
        BY <1>1, TypeParts DEF IInv, Types
    <2>1. CASE rows' = rows
        BY <2>1
    <2>2. ASSUME NEW c \in Chains, NEW h \in 1 .. Top(c), NEW e \in Wanted(c, h),
                 rows' = Upsert(c, h, e)
          PROVE  A
        <3>1. SUFFICES ASSUME NEW k \in DOMAIN rows
                       PROVE  /\ k \in DOMAIN rows'
                              /\ \A column \in DOMAIN rows[k] :
                                    \/ rows[k][column] = NullRow[column]
                                    \/ rows'[k][column] = rows[k][column]
            OBVIOUS
        <3>2. DOMAIN rows[k] = Columns
            BY <2>0 DEF RowsOK, Row, Columns
        <3>3. k \in DOMAIN rows'
            BY <2>2 DEF Upsert
        <3>4. KeepsColumns(rows[k], rows'[k])
            BY <2>0, <2>2, UpsertUnsays
        <3> QED
            BY <3>2, <3>3, <3>4 DEF KeepsColumns
    <2> HIDE DEF A
    <2> QED
        BY <1>1, <2>1, <2>2, RowsStep
<1>2. ASSUME IInv, [Next]_vars PROVE [A]_vars
    BY <1>1, <1>2
<1> QED
    BY InitIInv, StepIInv, <1>2, PTL DEF Spec, NothingUnsaid
-----------------------------------------------------------------------------
(***************************************************************************)
(* The endpoints.  What a health request has read stays covered.           *)
(***************************************************************************)
HealthTold ==
    /\ health \in [Chains -> Nat]
    /\ \A c \in Chains : health[c] <= Top(c) /\ \A h \in 1 .. health[c] : Covered(c, h)

AInv == IInv /\ IsFiniteSet(DOMAIN rows) /\ HealthTold

LEMMA ApiStep == [ApiNext]_apiVars => [Next]_vars
BY DEF ApiNext, apiVars, HealthRead, HealthFails, HealthAgain

\* A request changes nothing of the store.
LEMMA ApiImplementsStore == ApiSpec => Spec
<1>1. ApiInit => Init
    BY DEF ApiInit
<1> QED
    BY <1>1, ApiStep, PTL DEF ApiSpec, Spec

LEMMA InitAInv == ApiInit => AInv
<1> SUFFICES ASSUME ApiInit PROVE AInv
    OBVIOUS
<1>1. Init /\ health = Unread
    BY DEF ApiInit
<1>2. DOMAIN rows = {}
    BY <1>1 DEF Init
<1>3. IsFiniteSet(DOMAIN rows)
    BY <1>2, FS_EmptySet
<1>4. HealthTold
    BY <1>1, EventsType DEF HealthTold, Unread
<1> QED
    BY <1>1, <1>3, <1>4, InitIInv DEF AInv

LEMMA RowsFinite ==
    ASSUME IInv, [Next]_vars, IsFiniteSet(DOMAIN rows)
    PROVE  IsFiniteSet(DOMAIN rows')
<1>1. ASSUME NEW c \in Chains, NEW h \in 1 .. Top(c), NEW e \in Wanted(c, h),
             rows' = Upsert(c, h, e)
      PROVE  IsFiniteSet(DOMAIN rows')
    <2>1. DOMAIN rows' = DOMAIN rows \union {Key(c, e)}
        BY <1>1 DEF Upsert
    <2> QED
        BY <2>1, FS_AddElement
<1> QED
    BY <1>1, RowsStep

LEMMA StepAInv == AInv /\ [ApiNext]_apiVars => AInv'
<1> SUFFICES ASSUME AInv, [ApiNext]_apiVars PROVE AInv'
    OBVIOUS
<1>1. IInv /\ [Next]_vars /\ TypeOK /\ HealthTold
    BY ApiStep DEF AInv, IInv, Types
<1>2. IInv' /\ IsFiniteSet(DOMAIN rows')
    BY <1>1, StepIInv, RowsFinite DEF AInv
<1>3. \A c \in Chains : \A h \in 1 .. Top(c) : Covered(c, h) => Covered(c, h)'
    BY <1>1, CoveredStep
<1>4. health' \in [Chains -> Nat] /\ \A c \in Chains :
          health'[c] = health[c] \/ health'[c] = 0 \/ health'[c] = checkpoint[c]
    <2>1. health \in [Chains -> Nat]
        BY <1>1 DEF HealthTold
    <2>2. CASE health' = health
        BY <2>1, <2>2
    <2>3. CASE health' = Unread
        BY <2>3 DEF Unread
    <2>4. ASSUME NEW c \in Chains, HealthRead(c)
          PROVE  health' \in [Chains -> Nat] /\ \A d \in Chains :
                    health'[d] = health[d] \/ health'[d] = 0 \/ health'[d] = checkpoint[d]
        <3>1. health' = [health EXCEPT ![c] = checkpoint[c]] /\ checkpoint[c] \in Nat
            BY <1>1, <2>4, Numbers DEF HealthRead
        <3> QED
            BY <2>1, <3>1
    <2> QED
        BY <2>2, <2>3, <2>4 DEF ApiNext, apiVars, HealthFails, HealthAgain
<1>5. HealthTold'
    <2>1. SUFFICES ASSUME NEW c \in Chains
                   PROVE  health'[c] <= Top(c) /\ \A h \in 1 .. health'[c] : Covered(c, h)'
        BY <1>4 DEF HealthTold
    <2>2. /\ health[c] <= Top(c) /\ \A h \in 1 .. health[c] : Covered(c, h)
          /\ health[c] \in Nat
        BY <1>1 DEF HealthTold
    <2>3. checkpoint[c] <= Top(c) /\ \A h \in 1 .. checkpoint[c] : Covered(c, h)
        BY <1>1, Numbers DEF IInv, CoveredBelow
    <2>4. Top(c) \in Nat /\ checkpoint[c] \in Nat
        BY <1>1, Numbers
    <2>5. health'[c] <= Top(c) /\ \A h \in 1 .. health'[c] : Covered(c, h)
        BY <1>4, <2>2, <2>3, <2>4
    <2>6. \A h \in 1 .. health'[c] : h \in 1 .. Top(c)
        BY <1>4, <2>4, <2>5
    <2> QED
        BY <1>3, <2>5, <2>6
<1> QED
    BY <1>2, <1>5 DEF AInv

\* Every answer the database may order so holds every key.
LEMMA OrderedHas ==
    ASSUME NEW keys, IsFiniteSet(keys), NEW s \in Ordered(keys)
    PROVE  /\ s \in Seq(keys)
           /\ \A k \in keys : \E j \in 1 .. Len(s) : s[j] = k
           /\ \A i, j \in 1 .. Len(s) : i < j => InitiatedAt(s[i]) >= InitiatedAt(s[j])
<1> DEFINE D == 1 .. Cardinality(keys)
<1>1. Cardinality(keys) \in Nat
    BY FS_CardinalityType
<1>2. /\ s \in [D -> keys]
      /\ \A i, j \in D : i # j => s[i] # s[j]
      /\ \A i, j \in DOMAIN s : i < j => InitiatedAt(s[i]) >= InitiatedAt(s[j])
    BY DEF Ordered, SetToSeqs
<1>3. s \in Seq(keys) /\ Len(s) = Cardinality(keys) /\ DOMAIN s = 1 .. Len(s)
    BY <1>1, <1>2
<1>4. s \in Injection(D, keys)
    BY <1>2 DEF Injection, IsInjective
<1>5. Cardinality(D) = Cardinality(keys)
    <2>1. 1 \in Int /\ Cardinality(keys) \in Int
        BY <1>1
    <2>2. Cardinality(D) = IF 1 > Cardinality(keys) THEN 0 ELSE Cardinality(keys) - 1 + 1
        BY <2>1, FS_Interval
    <2> QED
        BY <1>1, <2>2
<1>6. s \in Surjection(D, keys)
    BY <1>4, <1>5, FS_Injection
<1>7. \A k \in keys : \E j \in D : s[j] = k
    BY <1>6 DEF Surjection
<1> QED
    BY <1>2, <1>3, <1>7

\* A response gives the block that a covered event is in.
LEMMA TellsIs ==
    ASSUME NEW d, NEW n \in Nat, NEW k, NEW kinds, NEW v,
           \A g \in 1 .. n : From(k, d, g, kinds) => v = g
    PROVE  Tells(MaybeBlockDetails(d, v), d, n, k, kinds)
<1> DEFINE at == {h \in 1 .. n : From(k, d, h, kinds)}
<1>1. Told(k, d, n, kinds) = MaybeBlockDetails(d, IF at = {} THEN 0 ELSE Max(at))
    BY DEF Told
<1>2. CASE at = {}
    <2>1. Told(k, d, n, kinds) = <<>>
        BY <1>1, <1>2 DEF MaybeBlockDetails
    <2> QED
        BY <2>1 DEF Tells
<1>3. CASE at # {}
    <2>1. at \in SUBSET (1 .. n)
        OBVIOUS
    <2>2. Max(at) \in at
        <3> HIDE DEF at
        <3> QED
            BY <1>3, <2>1, MaxIs
    <2>3. v = Max(at)
        BY <2>2
    <2>4. Told(k, d, n, kinds) = MaybeBlockDetails(d, v)
        BY <1>1, <1>3, <2>3
    <2> QED
        BY <2>4 DEF Tells
<1> QED
    BY <1>2, <1>3

LEMMA FromShown ==
    ASSUME NEW c \in Chains, NEW h \in 1 .. Top(c), Covered(c, h),
           NEW k, NEW kinds, "other" \notin kinds, From(k, c, h, kinds)
    PROVE  /\ k \in DOMAIN rows
           /\ \E e \in Wanted(c, h) : e.kind \in kinds /\ Shows(rows[k], h, e)
<1>1. PICK i \in DOMAIN Events[c][h] :
          Events[c][h][i].kind \in kinds /\ Key(c, Events[c][h][i]) = k
    BY DEF From
<1>2. Events[c][h][i] \in Wanted(c, h) /\ Stored(c, h, Events[c][h][i])
    BY <1>1, CoveredIs
<1>3. k \in DOMAIN rows /\ Shows(rows[k], h, Events[c][h][i])
    BY <1>1, <1>2, StoredIs
<1> QED
    BY <1>1, <1>2, <1>3

\* The initiation of a transfer on chain c up to what was told of it is
\* stored, and so is what was told of its other events.
LEMMA InitiationTold ==
    ASSUME AInv, NEW c \in Chains, NEW h \in 1 .. health[c],
           NEW i \in DOMAIN Events[c][h], Events[c][h][i].kind = "initiated"
    PROVE  LET e == Events[c][h][i]
               k == Key(c, e)
           IN  /\ h \in 1 .. Top(c)
               /\ k \in DOMAIN rows /\ k[1] = c /\ k[2] \in Chains
               /\ rows[k].initiated = h /\ rows[k].parties = e.parties
<1> DEFINE e == Events[c][h][i]
           k == Key(c, e)
<1>1. health[c] \in Nat /\ health[c] <= Top(c) /\ Covered(c, h) /\ Top(c) \in Nat
    BY EventsType DEF AInv, HealthTold
<1>2. h \in 1 .. Top(c)
    BY <1>1
<1>3. e \in Wanted(c, h) /\ Stored(c, h, e)
    BY <1>1, <1>2, CoveredIs
<1>4. k \in DOMAIN rows /\ Shows(rows[k], h, e)
    BY <1>2, <1>3, StoredIs
<1>5. rows[k].initiated = h /\ rows[k].parties = e.parties
    BY <1>4 DEF Shows
<1>6. k \in Chains \X Chains \X Nat /\ k[1] = c
    BY <1>2, <1>3, KindsOfWanted DEF Key
<1> QED
    BY <1>2, <1>4, <1>5, <1>6

LEMMA RespondIs ==
    ASSUME NEW X, NEW s \in Seq(X)
    PROVE  /\ Respond(s) \in Seq({XdmTransfer(s[j]) : j \in DOMAIN s})
           /\ Len(Respond(s)) = Len(s) /\ DOMAIN Respond(s) = 1 .. Len(s)
           /\ \A j \in 1 .. Len(s) : Respond(s)[j] = XdmTransfer(s[j])
<1>1. DOMAIN s = 1 .. Len(s) /\ Len(s) \in Nat
    OBVIOUS
<1>2. Respond(s) = [j \in 1 .. Len(s) |-> XdmTransfer(s[j])]
    BY <1>1 DEF Respond
<1> QED
    BY <1>1, <1>2

(***************************************************************************)
(* HealthIsCovered: whoever asked `health_check` and then                  *)
(* `xdm_address_transfers` finds every transfer initiated up to the blocks *)
(* it was told of, with all its blocks up to there, for every interleaving *)
(* of the queries with the processors and their crashes.                   *)
(***************************************************************************)
THEOREM HealthIsCovered == ApiSpec => []HealthCovers
<1>1. AInv => HealthCovers
    <2>1. SUFFICES ASSUME AInv, NEW c \in Chains, NEW h \in 1 .. health[c],
                          NEW i \in DOMAIN Events[c][h],
                          Events[c][h][i].kind = "initiated",
                          NEW a \in Events[c][h][i].parties,
                          NEW answer \in xdm_address_transfers(a)
                   PROVE  LET k == Key(c, Events[c][h][i]) IN
                          \E j \in DOMAIN answer :
                            LET t == answer[j] IN
                            /\ t.key = k
                            /\ Tells(t.initiated_src_block, c, health[c], k, {"initiated"})
                            /\ Tells(t.executed_dst_block, k[2], health[k[2]], k, {"incoming"})
                            /\ Tells(t.acknowledged_src_block, c, health[c], k,
                                     {"successful", "failed"})
        BY DEF HealthCovers
    <2> DEFINE e == Events[c][h][i]
               k == Key(c, e)
               keys == {x \in DOMAIN rows : a \in rows[x].parties}
    <2>2. /\ k \in DOMAIN rows /\ k[1] = c /\ k[2] \in Chains
          /\ rows[k].parties = e.parties
        BY <2>1, InitiationTold
    <2>3. k \in keys
        BY <2>2
    <2>4. IsFiniteSet(keys)
        <3>1. IsFiniteSet(DOMAIN rows) /\ keys \in SUBSET DOMAIN rows
            BY <2>1 DEF AInv
        <3> QED
            BY <3>1, FS_Subset
    <2>5. PICK s \in Ordered(keys) : answer = Respond(s)
        BY <2>1 DEF xdm_address_transfers, get_xdm_transfer_for_address
    <2>6. s \in Seq(keys) /\ \E j \in 1 .. Len(s) : s[j] = k
        <3> HIDE DEF keys, k
        <3> QED
            BY <2>3, <2>4, <2>5, OrderedHas
    <2>7. PICK j \in 1 .. Len(s) : s[j] = k
        BY <2>6
    <2>8. j \in DOMAIN answer /\ answer[j] = XdmTransfer(k)
        <3> HIDE DEF keys, k
        <3> QED
            BY <2>5, <2>6, <2>7, RespondIs
    <2> DEFINE t == XdmTransfer(k)
    <2>9. /\ t.key = k
          /\ t.initiated_src_block = MaybeBlockDetails(c, rows[k].initiated)
          /\ t.executed_dst_block = MaybeBlockDetails(k[2], rows[k].executed)
          /\ t.acknowledged_src_block = MaybeBlockDetails(c, rows[k].acknowledged)
        <3> HIDE DEF k
        <3> QED
            BY <2>2 DEF XdmTransfer
    <2>10. \A d \in Chains : health[d] \in Nat /\ \A g \in 1 .. health[d] :
              g \in 1 .. Top(d) /\ Covered(d, g)
        BY <2>1, EventsType DEF AInv, HealthTold
    <2> HIDE DEF k, e
    <2>11. \A g \in 1 .. health[c] : From(k, c, g, {"initiated"}) => rows[k].initiated = g
        <3>1. SUFFICES ASSUME NEW g \in 1 .. health[c], From(k, c, g, {"initiated"})
                       PROVE  rows[k].initiated = g
            OBVIOUS
        <3>2. \E f \in Wanted(c, g) : f.kind \in {"initiated"} /\ Shows(rows[k], g, f)
            BY <2>10, <3>1, FromShown
        <3> QED
            BY <3>2 DEF Shows
    <2>12. \A g \in 1 .. health[k[2]] :
              From(k, k[2], g, {"incoming"}) => rows[k].executed = g
        <3>1. SUFFICES ASSUME NEW g \in 1 .. health[k[2]], From(k, k[2], g, {"incoming"})
                       PROVE  rows[k].executed = g
            OBVIOUS
        <3>2. \E f \in Wanted(k[2], g) : f.kind \in {"incoming"} /\ Shows(rows[k], g, f)
            BY <2>2, <2>10, <3>1, FromShown
        <3> QED
            BY <3>2 DEF Shows
    <2>13. \A g \in 1 .. health[c] : From(k, c, g, Acks) => rows[k].acknowledged = g
        <3>1. SUFFICES ASSUME NEW g \in 1 .. health[c], From(k, c, g, Acks)
                       PROVE  rows[k].acknowledged = g
            OBVIOUS
        <3>2. "other" \notin Acks
            BY DEF Acks
        <3>3. \E f \in Wanted(c, g) : f.kind \in Acks /\ Shows(rows[k], g, f)
            BY <2>10, <3>1, <3>2, FromShown
        <3> QED
            BY <3>3 DEF Shows
    <2>14. /\ Tells(t.initiated_src_block, c, health[c], k, {"initiated"})
           /\ Tells(t.executed_dst_block, k[2], health[k[2]], k, {"incoming"})
           /\ Tells(t.acknowledged_src_block, c, health[c], k, Acks)
        <3> HIDE DEF t
        <3> QED
            BY <2>2, <2>9, <2>10, <2>11, <2>12, <2>13, TellsIs
    <2> HIDE DEF t
    <2> QED
        BY <2>8, <2>9, <2>14 DEF Acks, t, k, e
<1> QED
    BY InitAInv, StepAInv, <1>1, PTL DEF ApiSpec

(***************************************************************************)
(* RecentIsNewest: `recent_xdm_transfers` leaves out a transfer initiated  *)
(* up to the blocks a client was told of only for newer ones, or for as    *)
(* new ones, and only when the answer is full.                             *)
(***************************************************************************)
THEOREM RecentIsNewest == ApiSpec => []RecentAreNewest
<1>1. AInv => RecentAreNewest
    <2>1. SUFFICES ASSUME AInv, NEW limit \in 0 .. MaxRecent + 1,
                          NEW answer \in recent_xdm_transfers(limit)
                   PROVE  /\ Len(answer) <= MaxRecent
                          /\ \A c \in Chains : \A h \in 1 .. health[c] :
                             \A i \in DOMAIN Events[c][h] :
                               Events[c][h][i].kind = "initiated" =>
                                 \/ \E j \in DOMAIN answer :
                                       answer[j].key = Key(c, Events[c][h][i])
                                 \/ /\ Len(answer) = Limited(limit)
                                    /\ \A j \in DOMAIN answer :
                                          answer[j].initiated_src_block[1].block_time
                                              >= Time[c][h]
        BY DEF RecentAreNewest
    <2> DEFINE keys == {k \in DOMAIN rows : rows[k].initiated # 0}
               n == Limited(limit)
    <2>2. n \in Nat /\ n <= MaxRecent /\ MaxRecent \in Nat
        BY ApiAssumption DEF Limited
    <2>3. PICK s \in Ordered(keys) : answer = Respond(UpTo(s, n))
        BY <2>1 DEF recent_xdm_transfers, get_recent_xdm_transfers
    <2>4. IsFiniteSet(keys)
        <3>1. IsFiniteSet(DOMAIN rows) /\ keys \in SUBSET DOMAIN rows
            BY <2>1 DEF AInv
        <3> QED
            BY <3>1, FS_Subset
    <2> DEFINE u == UpTo(s, n)
    <2>5. /\ s \in Seq(keys)
          /\ \A k \in keys : \E j \in 1 .. Len(s) : s[j] = k
          /\ \A i, j \in 1 .. Len(s) : i < j => InitiatedAt(s[i]) >= InitiatedAt(s[j])
        <3> HIDE DEF keys
        <3> QED
            BY <2>3, <2>4, OrderedHas
    <2>6. /\ u \in Seq(keys)
          /\ n <= Len(s) => Len(u) = n
          /\ n >= Len(s) => Len(u) = Len(s)
          /\ \A j \in 1 .. Len(u) : u[j] = s[j]
        <3> HIDE DEF keys, n
        <3> QED
            BY <2>2, <2>5, UpToIs
    <2>7. /\ Len(answer) = Len(u) /\ DOMAIN answer = 1 .. Len(u)
          /\ \A j \in 1 .. Len(u) : answer[j] = XdmTransfer(u[j])
        <3> HIDE DEF keys, u
        <3> QED
            BY <2>3, <2>6, RespondIs DEF u
    <2>8. Len(s) \in Nat /\ Len(u) \in Nat /\ Len(u) <= Len(s) /\ Len(u) <= n
        <3> HIDE DEF keys, u, n
        <3> QED
            BY <2>2, <2>5, <2>6
    <2>9. ASSUME NEW c \in Chains, NEW h \in 1 .. health[c], NEW i \in DOMAIN Events[c][h],
                 Events[c][h][i].kind = "initiated"
          PROVE  \/ \E j \in DOMAIN answer : answer[j].key = Key(c, Events[c][h][i])
                 \/ /\ Len(answer) = n
                    /\ \A j \in DOMAIN answer :
                          answer[j].initiated_src_block[1].block_time >= Time[c][h]
        <3> DEFINE k == Key(c, Events[c][h][i])
        <3>1. /\ h \in 1 .. Top(c) /\ k \in DOMAIN rows /\ k[1] = c
              /\ rows[k].initiated = h /\ h # 0
            BY <2>1, <2>9, InitiationTold
        <3>2. k \in keys /\ InitiatedAt(k) = Time[c][h]
            BY <3>1 DEF InitiatedAt
        <3>3. PICK p \in 1 .. Len(s) : s[p] = k
            <4> HIDE DEF keys, k
            <4> QED
                BY <2>5, <3>2
        <3>4. CASE p <= Len(u)
            <4>1. p \in 1 .. Len(u)
                BY <2>8, <3>4
            <4>2. p \in DOMAIN answer /\ answer[p] = XdmTransfer(k)
                <5> HIDE DEF u, k
                <5> QED
                    BY <2>6, <2>7, <3>3, <4>1
            <4>3. answer[p].key = k
                BY <4>2 DEF XdmTransfer
            <4> QED
                BY <4>2, <4>3
        <3>5. CASE p > Len(u)
            <4>1. Len(u) = n
                <5> HIDE DEF u, n
                <5> QED
                    BY <2>2, <2>6, <2>8, <3>5
            <4>2. ASSUME NEW j \in 1 .. Len(u)
                  PROVE  answer[j].initiated_src_block[1].block_time >= Time[c][h]
                <5>1. j \in 1 .. Len(s) /\ j < p /\ s[j] = u[j]
                    <6> HIDE DEF u
                    <6> QED
                        BY <2>6, <2>8, <3>5
                <5>2. InitiatedAt(s[j]) >= Time[c][h]
                    <6> HIDE DEF k
                    <6> QED
                        BY <2>5, <3>2, <3>3, <5>1
                <5>3. s[j] \in keys
                    <6> HIDE DEF keys, u, n, k
                    <6>1. s \in Seq(keys) /\ j \in 1 .. Len(s)
                        BY <2>5, <5>1, Zenon
                    <6> QED
                        BY <6>1, ElementOf, Zenon
                <5> DEFINE x == s[j]
                <5>4. rows[x].initiated # 0
                    BY <5>3
                <5>5. answer[j] = XdmTransfer(x)
                    <6> HIDE DEF u
                    <6> QED
                        BY <2>7, <5>1
                <5> HIDE DEF x
                <5>6. XdmTransfer(x).initiated_src_block =
                          <<[block_number |-> rows[x].initiated,
                             block_time |-> Time[x[1]][rows[x].initiated]]>>
                    BY <5>4 DEF XdmTransfer, MaybeBlockDetails
                <5>7. answer[j].initiated_src_block[1].block_time = InitiatedAt(x)
                    BY <5>5, <5>6 DEF InitiatedAt
                <5> QED
                    BY <5>2, <5>7 DEF x
            <4> QED
                BY <2>7, <4>1, <4>2
        <3>6. p <= Len(u) \/ p > Len(u)
            BY <2>8
        <3> QED
            BY <3>4, <3>5, <3>6
    <2>10. Len(answer) <= MaxRecent
        BY <2>2, <2>7, <2>8
    <2> QED
        BY <2>9, <2>10
<1> QED
    BY InitAInv, StepAInv, <1>1, PTL DEF ApiSpec
=============================================================================
