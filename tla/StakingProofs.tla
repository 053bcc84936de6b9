--------------------------- MODULE StakingProofs ---------------------------
(***************************************************************************)
(* Proofs about the staking processor and its API, for every chain that    *)
(* satisfies the assumptions of StakingStore.                              *)
(*                                                                         *)
(* Every invariant relates what is left of a block's script to the tables: *)
(* a row a block should leave is there, or a statement that leaves it is   *)
(* still to come.  The module first says what the scripts contain and what *)
(* each statement does to the tables, then takes the tables one by one,    *)
(* and last the clients of the API.                                        *)
(***************************************************************************)
EXTENDS StakingApi, Lemmas, FiniteSetTheorems
-----------------------------------------------------------------------------
(***************************************************************************)
(* What the statements of a block are about.                               *)
(***************************************************************************)
InBlock(h, P) == \E i \in DOMAIN Events[h] : Events[h][i] \in P

Registering(o) == {e \in ChainEvent : e.kind = "registered" /\ e.op = o}
Touching(o, a) == {e \in ChainEvent : e.kind \in TouchKinds /\ e.op = o /\ e.addr = a}
OfEpoch(n) == {e \in ChainEvent : e.kind = "epoch" /\ e.n = n}
Pricing(o, n) == {e \in ChainEvent : e.kind = "epoch" /\ e.n = n /\ o \in e.ops}
About(o) == {e \in ChainEvent : e.op = o}

OperatorSteps(h) == [do : {"operator"}, op : {o \in Operators : InBlock(h, Registering(o))}]
StatusSteps(h) ==
    [do : {"status"}, op : {o \in Operators : WritesStatus(o, h)}, status : Status]
NominatorSteps(h) ==
    {st \in [do : {"nominator"}, op : Operators, addr : Addresses,
             status : {"active", "withdrawn"}] : InBlock(h, Touching(st.op, st.addr))}
CountSteps(h) == [do : {"count"}, op : {o \in Operators : InBlock(h, About(o))}]
DepositSteps == [do : {"deposit"}, op : Operators, addr : Addresses, fee : Nat]
WithdrawalSteps == [do : {"withdrawal"}, op : Operators, addr : Addresses, known : BOOLEAN]
PriceSteps(h) ==
    {st \in [do : {"price"}, op : Operators, epoch : Nat] : InBlock(h, Pricing(st.op, st.epoch))}
StatsSteps(h) == [do : {"stats"}, op : {o \in Operators : AtEpoch(o, h)}]

Plain(h) ==
    OperatorSteps(h) \union StatusSteps(h) \union NominatorSteps(h) \union CountSteps(h) \union
    DepositSteps \union WithdrawalSteps \union PriceSteps(h) \union StatsSteps(h)
Deletes == [do : {"delete deposits", "delete withdrawals"}]

\* Every row that bears on the count of o is followed by a count.
Closed(s) ==
    \A i \in DOMAIN s : s[i].do \in {"operator", "nominator"} =>
        \E j \in DOMAIN s : j > i /\ s[j].do = "count" /\ s[j].op = s[i].op

Reads(h) ==
    [do : {"read"}, ok : {s \in Seq(Plain(h)) : Closed(s)},
     failed : {s \in Seq(Plain(h)) : Closed(s)}]
Body(h) == Plain(h) \union Reads(h)

\* What may be left of a script, before the first step and later.
Todos(h) == {s \in Seq(Body(h)) : Closed(s)}
Forms(h) == {Script[h], Tail(Script[h])} \union Todos(h)

\* The tables; PF are the functions from some elements of D.
OpRow == [status : Status, stake : Height, nominator_count : 0 .. Cardinality(Addresses)]
NomRow == [status : {"active", "withdrawn"}, height : Height]
PF(D, R) == UNION {[E -> R] : E \in SUBSET D}
Tables ==
    [operators : PF(Operators, OpRow),
     nominators : PF(Operators \X Addresses, NomRow),
     prices : PF(Operators \X Nat, Height),
     deposits : [Height -> Seq([op : Operators, addr : Addresses, fee : Nat])],
     withdrawals : [Height -> Seq([op : Operators, addr : Addresses, known : BOOLEAN])]]

\* The result of block h is in, in this batch or an earlier one.
Processed(h) == h <= checkpoint \/ (pc = "work" /\ h < next)

Shape ==
    /\ pc \in {"idle", "work"}
    /\ next \in 1 .. Top + 1 /\ to \in 0 .. Top
    /\ checkpoint \in 0 .. Top /\ top \in 0 .. Top /\ checkpoint <= top
    /\ torn \subseteq Height /\ owed \subseteq Height
    /\ degraded \in BOOLEAN
    /\ failures \in 0 .. MaxFailures /\ rewinds \in 0 .. MaxRewinds
    /\ pc = "idle" => DOMAIN todo = {}
    /\ pc = "work" => to = top /\ next <= to + 1
    /\ todo = [h \in DOMAIN todo |-> todo[h]]
    /\ \A h \in DOMAIN todo :
          /\ h \in next .. to /\ h < next + Parallel
          /\ todo[h] \in Forms(h)
-----------------------------------------------------------------------------
\* The statements a step stands for, and whether a script has one of S, ends
\* with one of G after all those of B, and has one of F before those of A.
Parts(st) == IF st.do = "read" THEN {st.ok[i] : i \in DOMAIN st.ok} ELSE {st}
Meets(st, S) == \E x \in Parts(st) : x \in S
Has(s, S) == \E i \in DOMAIN s : Meets(s[i], S)
Ends(s, G, B) ==
    \E i \in DOMAIN s : Meets(s[i], G) /\ \A j \in DOMAIN s : j >= i => ~Meets(s[j], B)
After(s, A, F) ==
    \A i \in DOMAIN s : Meets(s[i], A) => \E j \in DOMAIN s : j < i /\ Meets(s[j], F)

\* Nominators.  The row of a block is there, or its last write is to come and
\* is the right one; a row of a higher block is as good, by the height guard.
NomWrites(o, a, S) == [do : {"nominator"}, op : {o}, addr : {a}, status : S]
NomGood(o, a, h) == NomWrites(o, a, {NominatorAt(o, a, h)})
NomBad(o, a, h) == NomWrites(o, a, {"active", "withdrawn"} \ {NominatorAt(o, a, h)})
RowIn(d, o, a, h) ==
    /\ <<o, a>> \in DOMAIN d.nominators
    /\ d.nominators[<<o, a>>].height >= h
    /\ d.nominators[<<o, a>>].height = h =>
          d.nominators[<<o, a>>].status = NominatorAt(o, a, h)
RowsInv ==
    \A k \in DOMAIN db.nominators :
        /\ db.nominators[k].height <= top
        /\ InBlock(db.nominators[k].height, Touching(k[1], k[2]))
NomUnderWay(o, a, h) ==
    h \in DOMAIN todo /\ todo[h] # Script[h] =>
        \/ Ends(todo[h], NomGood(o, a, h), NomBad(o, a, h))
        \/ ~Has(todo[h], NomBad(o, a, h)) /\ RowIn(db, o, a, h)
NomDone(o, a, h) ==
    Processed(h) /\ h \notin torn /\ (h \in DOMAIN todo => todo[h] = Script[h])
        => RowIn(db, o, a, h)
NomInv ==
    ~degraded => \A o \in Operators, a \in Addresses, h \in Height :
        InBlock(h, Touching(o, a)) => NomUnderWay(o, a, h) /\ NomDone(o, a, h)

\* Counts.  A count is right, or a block that will count again is under way,
\* was cut short or is still to come, or a count was overtaken.
Counts(o) == [do : {"count"}, op : {o}]
CountOk(o) ==
    o \in DOMAIN db.operators =>
        db.operators[o].nominator_count = Cardinality(Active(db, o))
Dirty(h, o) ==
    /\ Has(Script[h], Counts(o))
    /\ h \in DOMAIN todo => Has(todo[h], Counts(o))
    /\ \/ h \in torn
       \/ ~Processed(h) /\ h <= top
       \/ h \in DOMAIN todo /\ todo[h] # Script[h]
CountInv ==
    ~degraded =>
        /\ \A h \in DOMAIN todo, o \in Operators :
              Has(todo[h], Counts(o)) => Has(Script[h], Counts(o))
        /\ \A o \in Operators \ overtaken : CountOk(o) \/ \E h \in Height : Dirty(h, o)
\* The same for the counts that need no read first, without failures.
Raw(s, o) == \E i \in DOMAIN s : s[i].do = "count" /\ s[i].op = o
RawInv ==
    failures = 0 => \A o \in Operators \ overtaken :
        CountOk(o) \/ \E h \in DOMAIN todo : Raw(todo[h], o)
\* A count under way has found the number it will write, unless it was overtaken.
FreshInv ==
    \A o \in Operators \ overtaken : \A g \in DOMAIN counted :
        Head(todo[g]).op = o => counted[g] = Cardinality(Active(db, o))

\* Rows.  A statement of a processed block has left a row with its key.
Sat(d, x) ==
    CASE x.do = "operator" -> x.op \in DOMAIN d.operators
      [] x.do = "nominator" -> <<x.op, x.addr>> \in DOMAIN d.nominators
      [] x.do = "price" -> <<x.op, x.epoch>> \in DOMAIN d.prices
      [] OTHER -> TRUE
FoundInv ==
    ~degraded => \A h \in Height : \A x \in Plain(h) : Has(Script[h], {x}) =>
        /\ Processed(h) => Sat(db, x)
        /\ h \in DOMAIN todo => Has(todo[h], {x}) \/ Sat(db, x)

\* The statements that make the row of o, the ones that only change it, and
\* of all these the ones that leave the status o has after block h, or another.
OpSteps(o) == [do : {"operator"}, op : {o}]
StatsOf(o) == [do : {"stats"}, op : {o}]
StatusTo(o, T) == [do : {"status"}, op : {o}, status : T]
OpAfter(o) == StatsOf(o) \union StatusTo(o, Status)
OpGood(o, h) == OpSteps(o) \union StatsOf(o) \union StatusTo(o, {OperatorAt(o, h)})
OpBad(o, h) == StatusTo(o, Status \ {OperatorAt(o, h)})

\* The last block of which everything was written, this batch or before.
Frontier == IF pc = "work" THEN next - 1 ELSE checkpoint

\* The tables have o with status s, or not at all for "none".
StatusIs(d, o, s) ==
    IF s = "none" THEN o \notin DOMAIN d.operators
    ELSE o \in DOMAIN d.operators /\ d.operators[o].status = s

\* A block that writes the status of o is still to come, or to come again.
Ahead(o, n, t, w) ==
    \E r \in Height : ((r > n /\ r <= t) \/ r \in w) /\ WritesStatus(o, r)
OpDone(o) == Ahead(o, Frontier, top, owed) \/ StatusIs(db, o, OperatorAt(o, Frontier))
OpUnderWay(o, h) ==
    h \in DOMAIN todo =>
        /\ \/ Ends(todo[h], OpGood(o, h), OpBad(o, h))
           \/ ~Has(todo[h], OpBad(o, h)) /\ StatusIs(db, o, OperatorAt(o, h))
        /\ o \in DOMAIN db.operators \/ After(todo[h], OpAfter(o), OpSteps(o))
OpInv ==
    ~degraded => \A o \in Operators : Apart(o) /\ Announced(o) /\ InTurn(o) =>
        /\ OpDone(o)
        /\ \A h \in Height : WritesStatus(o, h) => OpUnderWay(o, h)

-----------------------------------------------------------------------------
\* A statement that is no read is its only part.
LEMMA MeetsPlain ==
    ASSUME NEW st, st.do # "read", NEW S
    PROVE  Meets(st, S) <=> st \in S
BY DEF Meets, Parts

LEMMA MeetsRead ==
    ASSUME NEW st, st.do = "read", NEW S
    PROVE  Meets(st, S) <=> \E i \in DOMAIN st.ok : st.ok[i] \in S
BY DEF Meets, Parts

LEMMA HasConcat ==
    ASSUME NEW X, NEW s \in Seq(X), NEW t \in Seq(X), NEW S
    PROVE  Has(s \o t, S) <=> Has(s, S) \/ Has(t, S)
<1>1. PICK r \in Seq(X) : Joins(r, s, t)
    BY JoinsExist
<1>2. r = s \o t
    BY <1>1 DEF Joins
<1>4. ASSUME Has(r, S) PROVE Has(s, S) \/ Has(t, S)
    <2>1. PICK i \in DOMAIN r : Meets(r[i], S)
        BY <1>4 DEF Has
    <2>2. \/ i \in DOMAIN s /\ r[i] = s[i]
          \/ \E j \in DOMAIN t : i = Len(s) + j /\ r[i] = t[j]
        BY <1>1, JoinsPlace
    <2> QED
        BY <2>1, <2>2 DEF Has
<1>5. ASSUME Has(s, S) PROVE Has(r, S)
    <2>1. PICK i \in DOMAIN s : Meets(s[i], S)
        BY <1>5 DEF Has
    <2>2. i \in DOMAIN r /\ r[i] = s[i]
        BY <1>1, JoinsLeft
    <2> QED
        BY <2>1, <2>2 DEF Has
<1>6. ASSUME Has(t, S) PROVE Has(r, S)
    <2>1. PICK i \in DOMAIN t : Meets(t[i], S)
        BY <1>6 DEF Has
    <2>2. Len(s) + i \in DOMAIN r /\ r[Len(s) + i] = t[i]
        BY <1>1, JoinsRight
    <2> QED
        BY <2>1, <2>2 DEF Has
<1> QED
    BY <1>2, <1>4, <1>5, <1>6, Zenon

LEMMA EndsConcat ==
    ASSUME NEW X, NEW s \in Seq(X), NEW t \in Seq(X), NEW G, NEW B,
           Ends(t, G, B) \/ (Ends(s, G, B) /\ ~Has(t, B))
    PROVE  Ends(s \o t, G, B)
<1>1. PICK r \in Seq(X) : Joins(r, s, t)
    BY JoinsExist
<1>2. r = s \o t
    BY <1>1 DEF Joins
<1>3. Len(s) \in Nat /\ Len(t) \in Nat /\ DOMAIN s = 1 .. Len(s) /\ DOMAIN t = 1 .. Len(t)
      /\ DOMAIN r \subseteq Nat
    OBVIOUS
<1>4. ASSUME Ends(t, G, B) PROVE Ends(r, G, B)
    <2>1. PICK i \in DOMAIN t : Meets(t[i], G) /\ \A j \in DOMAIN t : j >= i => ~Meets(t[j], B)
        BY <1>4 DEF Ends
    <2>2. Len(s) + i \in DOMAIN r /\ r[Len(s) + i] = t[i]
        BY <1>1, JoinsRight
    <2>3. ASSUME NEW j \in DOMAIN r, j >= Len(s) + i PROVE ~Meets(r[j], B)
        <3>1. \/ j \in DOMAIN s /\ r[j] = s[j]
              \/ \E k \in DOMAIN t : j = Len(s) + k /\ r[j] = t[k]
            BY <1>1, JoinsPlace
        <3>2. j \notin DOMAIN s
            BY <1>3, <2>3
        <3>3. PICK k \in DOMAIN t : j = Len(s) + k /\ r[j] = t[k]
            BY <3>1, <3>2
        <3>4. k >= i
            BY <1>3, <2>3, <3>3
        <3> QED
            BY <2>1, <3>3, <3>4
    <2> QED
        BY <2>1, <2>2, <2>3 DEF Ends
<1>5. ASSUME Ends(s, G, B), ~Has(t, B) PROVE Ends(r, G, B)
    <2>1. PICK i \in DOMAIN s : Meets(s[i], G) /\ \A j \in DOMAIN s : j >= i => ~Meets(s[j], B)
        BY <1>5 DEF Ends
    <2>2. i \in DOMAIN r /\ r[i] = s[i]
        BY <1>1, JoinsLeft
    <2>3. ASSUME NEW j \in DOMAIN r, j >= i PROVE ~Meets(r[j], B)
        <3>1. \/ j \in DOMAIN s /\ r[j] = s[j]
              \/ \E k \in DOMAIN t : j = Len(s) + k /\ r[j] = t[k]
            BY <1>1, JoinsPlace
        <3> QED
            BY <1>5, <2>1, <2>3, <3>1 DEF Has
    <2> QED
        BY <2>1, <2>2, <2>3 DEF Ends
<1> QED
    BY <1>2, <1>4, <1>5, Zenon

\* A step less.
LEMMA TailPlaces ==
    ASSUME NEW X, NEW s \in Seq(X), s # <<>>
    PROVE  /\ Head(s) = s[1] /\ 1 \in DOMAIN s /\ Tail(s) \in Seq(X)
           /\ DOMAIN Tail(s) = 1 .. Len(s) - 1 /\ DOMAIN s = 1 .. Len(s) /\ Len(s) \in Nat
           /\ \A i \in DOMAIN Tail(s) : i + 1 \in DOMAIN s /\ Tail(s)[i] = s[i + 1]
           /\ \A i \in DOMAIN s : i = 1 \/ i - 1 \in DOMAIN Tail(s)
<1>1. Head(s) = s[1] /\ 1 \in DOMAIN s /\ Tail(s) \in Seq(X) /\ Len(s) \in Nat /\ DOMAIN s = 1 .. Len(s)
    OBVIOUS
<1>2. DOMAIN Tail(s) = 1 .. Len(s) - 1
    OBVIOUS
<1>3. \A i \in DOMAIN Tail(s) : i + 1 \in DOMAIN s /\ Tail(s)[i] = s[i + 1]
    OBVIOUS
<1>4. \A i \in DOMAIN s : i = 1 \/ i - 1 \in DOMAIN Tail(s)
    BY <1>1, <1>2
<1> QED
    BY <1>1, <1>2, <1>3, <1>4

LEMMA HasTail ==
    ASSUME NEW X, NEW s \in Seq(X), s # <<>>, NEW S
    PROVE  Has(s, S) <=> Meets(Head(s), S) \/ Has(Tail(s), S)
<1>1. /\ Head(s) = s[1] /\ 1 \in DOMAIN s /\ DOMAIN s = 1 .. Len(s) /\ Len(s) \in Nat
      /\ \A i \in DOMAIN Tail(s) : i + 1 \in DOMAIN s /\ Tail(s)[i] = s[i + 1]
      /\ \A i \in DOMAIN s : i = 1 \/ i - 1 \in DOMAIN Tail(s)
    BY TailPlaces
<1>2. ASSUME Has(s, S) PROVE Meets(Head(s), S) \/ Has(Tail(s), S)
    <2>1. PICK i \in DOMAIN s : Meets(s[i], S)
        BY <1>2 DEF Has
    <2>2. CASE i = 1
        BY <1>1, <2>1, <2>2
    <2>3. CASE i - 1 \in DOMAIN Tail(s)
        <3>1. Tail(s)[i - 1] = s[(i - 1) + 1] /\ (i - 1) + 1 = i
            BY <1>1, <2>3
        <3> QED
            BY <2>1, <2>3, <3>1 DEF Has
    <2> QED
        BY <1>1, <2>2, <2>3
<1> QED
    BY <1>1, <1>2 DEF Has

LEMMA EndsTail ==
    ASSUME NEW X, NEW s \in Seq(X), s # <<>>, NEW G, NEW B, Ends(s, G, B)
    PROVE  \/ Ends(Tail(s), G, B)
           \/ Meets(Head(s), G) /\ ~Meets(Head(s), B) /\ ~Has(Tail(s), B)
<1>1. /\ Head(s) = s[1] /\ 1 \in DOMAIN s /\ DOMAIN s = 1 .. Len(s) /\ Len(s) \in Nat
      /\ DOMAIN Tail(s) = 1 .. Len(s) - 1
      /\ \A i \in DOMAIN Tail(s) : i + 1 \in DOMAIN s /\ Tail(s)[i] = s[i + 1]
    BY TailPlaces
<1>2. PICK i \in DOMAIN s : Meets(s[i], G) /\ \A j \in DOMAIN s : j >= i => ~Meets(s[j], B)
    BY DEF Ends
<1>3. CASE i = 1
    <2>1. \A j \in DOMAIN Tail(s) : ~Meets(Tail(s)[j], B)
        BY <1>1, <1>2, <1>3
    <2> QED
        BY <1>1, <1>2, <1>3, <2>1 DEF Has
<1>4. CASE i # 1
    <2>1. i - 1 \in DOMAIN Tail(s) /\ Tail(s)[i - 1] = s[i]
        <3>1. i - 1 \in DOMAIN Tail(s) /\ (i - 1) + 1 = i
            BY <1>1, <1>4
        <3> QED
            BY <1>1, <3>1
    <2>2. ASSUME NEW j \in DOMAIN Tail(s), j >= i - 1 PROVE ~Meets(Tail(s)[j], B)
        <3>1. j + 1 \in DOMAIN s /\ j + 1 >= i /\ Tail(s)[j] = s[j + 1]
            BY <1>1, <2>2
        <3> QED
            BY <1>2, <3>1
    <2> QED
        BY <1>2, <2>1, <2>2 DEF Ends
<1> QED
    BY <1>3, <1>4

\* What a read is about is what it makes statements of.
LEMMA HasOk ==
    ASSUME NEW st, st.do = "read", \A i \in DOMAIN st.ok : st.ok[i].do # "read", NEW S
    PROVE  Has(st.ok, S) <=> Meets(st, S)
<1>1. \A i \in DOMAIN st.ok : Meets(st.ok[i], S) <=> st.ok[i] \in S
    BY MeetsPlain
<1> QED
    BY <1>1, MeetsRead DEF Has

LEMMA HasRead ==
    ASSUME NEW X, NEW s \in Seq(X), s # <<>>, NEW S, NEW ok \in Seq(X),
           Has(ok, S) <=> Meets(Head(s), S)
    PROVE  Has(ok \o Tail(s), S) <=> Has(s, S)
<1>1. Tail(s) \in Seq(X)
    OBVIOUS
<1>2. Has(s, S) <=> Meets(Head(s), S) \/ Has(Tail(s), S)
    BY HasTail
<1>3. Has(ok \o Tail(s), S) <=> Has(ok, S) \/ Has(Tail(s), S)
    BY <1>1, HasConcat
<1> QED
    BY <1>2, <1>3, Zenon

LEMMA EndsRead ==
    ASSUME NEW X, NEW s \in Seq(X), s # <<>>, NEW G, NEW B, Ends(s, G, B),
           NEW ok \in Seq(X),
           Has(ok, G) <=> Meets(Head(s), G),
           Has(ok, B) <=> Meets(Head(s), B)
    PROVE  Ends(ok \o Tail(s), G, B)
<1>1. Tail(s) \in Seq(X)
    OBVIOUS
<1>2. \/ Ends(Tail(s), G, B)
      \/ Meets(Head(s), G) /\ ~Meets(Head(s), B) /\ ~Has(Tail(s), B)
    BY EndsTail
<1>3. ASSUME Has(ok, G), ~Has(ok, B) PROVE Ends(ok, G, B)
    BY <1>3 DEF Has, Ends
<1>4. PICK t \in Seq(X) : t = Tail(s)
    BY <1>1
<1>5. Ends(t, G, B) \/ (Ends(ok, G, B) /\ ~Has(t, B))
    BY <1>2, <1>3, <1>4
<1>6. Ends(ok \o t, G, B)
    BY <1>5, EndsConcat
<1> QED
    BY <1>4, <1>6

LEMMA AfterTail ==
    ASSUME NEW X, NEW s \in Seq(X), s # <<>>, NEW A, NEW F, After(s, A, F)
    PROVE  ~Meets(Head(s), A) /\ (Meets(Head(s), F) \/ After(Tail(s), A, F))
<1>1. /\ Head(s) = s[1] /\ 1 \in DOMAIN s /\ DOMAIN s = 1 .. Len(s) /\ Len(s) \in Nat
      /\ DOMAIN Tail(s) = 1 .. Len(s) - 1
      /\ \A i \in DOMAIN Tail(s) : i + 1 \in DOMAIN s /\ Tail(s)[i] = s[i + 1]
    BY TailPlaces
<1>2. ~Meets(Head(s), A)
    BY <1>1 DEF After
<1>3. SUFFICES ASSUME ~Meets(Head(s), F), NEW i \in DOMAIN Tail(s), Meets(Tail(s)[i], A)
               PROVE  \E j \in DOMAIN Tail(s) : j < i /\ Meets(Tail(s)[j], F)
    BY <1>2 DEF After
<1>4. i + 1 \in DOMAIN s /\ Meets(s[i + 1], A)
    BY <1>1, <1>3
<1>5. PICK j \in DOMAIN s : j < i + 1 /\ Meets(s[j], F)
    BY <1>4 DEF After
<1>6. j # 1
    BY <1>1, <1>3, <1>5
<1>7. j - 1 \in DOMAIN Tail(s) /\ (j - 1) + 1 = j /\ j - 1 < i
    BY <1>1, <1>5, <1>6
<1>8. Tail(s)[j - 1] = s[j]
    BY <1>1, <1>7
<1> QED
    BY <1>5, <1>7, <1>8

LEMMA AfterConcat ==
    ASSUME NEW X, NEW s \in Seq(X), NEW t \in Seq(X), NEW A, NEW F,
           After(s, A, F), Has(s, F) \/ After(t, A, F)
    PROVE  After(s \o t, A, F)
<1>1. PICK r \in Seq(X) : Joins(r, s, t)
    BY JoinsExist
<1>2. r = s \o t
    BY <1>1 DEF Joins
<1>3. Len(s) \in Nat /\ DOMAIN s = 1 .. Len(s) /\ DOMAIN t \subseteq Nat \ {0}
    OBVIOUS
<1>4. ASSUME NEW i \in DOMAIN r, Meets(r[i], A)
      PROVE  \E j \in DOMAIN r : j < i /\ Meets(r[j], F)
    <2>1. \/ i \in DOMAIN s /\ r[i] = s[i]
          \/ \E j \in DOMAIN t : i = Len(s) + j /\ r[i] = t[j]
        BY <1>1, JoinsPlace
    <2>2. CASE i \in DOMAIN s /\ r[i] = s[i]
        <3>1. PICK j \in DOMAIN s : j < i /\ Meets(s[j], F)
            BY <1>4, <2>2 DEF After
        <3>2. j \in DOMAIN r /\ r[j] = s[j]
            BY <1>1, JoinsLeft
        <3> QED
            BY <3>1, <3>2
    <2>3. CASE \E j \in DOMAIN t : i = Len(s) + j /\ r[i] = t[j]
        <3>1. PICK k \in DOMAIN t : i = Len(s) + k /\ r[i] = t[k]
            BY <2>3
        <3>2. CASE Has(s, F)
            <4>1. PICK j \in DOMAIN s : Meets(s[j], F)
                BY <3>2 DEF Has
            <4>2. j \in DOMAIN r /\ r[j] = s[j]
                BY <1>1, JoinsLeft
            <4>3. j < i
                BY <1>3, <3>1
            <4> QED
                BY <4>1, <4>2, <4>3
        <3>3. CASE After(t, A, F)
            <4>1. PICK j \in DOMAIN t : j < k /\ Meets(t[j], F)
                BY <1>4, <3>1, <3>3 DEF After
            <4>2. Len(s) + j \in DOMAIN r /\ r[Len(s) + j] = t[j]
                BY <1>1, JoinsRight
            <4>3. Len(s) + j < i
                BY <1>3, <3>1, <4>1
            <4> QED
                BY <4>1, <4>2, <4>3
        <3> QED
            BY <3>2, <3>3
    <2> QED
        BY <2>1, <2>2, <2>3
<1> QED
    BY <1>2, <1>4, Zenon DEF After

LEMMA AfterRead ==
    ASSUME NEW X, NEW s \in Seq(X), s # <<>>, NEW A, NEW F, After(s, A, F),
           NEW ok \in Seq(X),
           Has(ok, A) <=> Meets(Head(s), A),
           Has(ok, F) <=> Meets(Head(s), F)
    PROVE  After(ok \o Tail(s), A, F)
<1>0. Tail(s) \in Seq(X)
    OBVIOUS
<1>1. PICK t \in Seq(X) : t = Tail(s)
    BY <1>0
<1>2. ~Meets(Head(s), A) /\ (Meets(Head(s), F) \/ After(t, A, F))
    BY <1>1, AfterTail
<1>3. After(ok, A, F)
    BY <1>2 DEF After, Has
<1>4. Has(ok, F) \/ After(t, A, F)
    BY <1>2
<1>5. After(ok \o t, A, F)
    BY <1>3, <1>4, AfterConcat
<1> QED
    BY <1>1, <1>5

LEMMA ClosedTail ==
    ASSUME NEW X, NEW s \in Seq(X), s # <<>>, Closed(s)
    PROVE  Closed(Tail(s))
<1>1. /\ Head(s) = s[1] /\ 1 \in DOMAIN s /\ DOMAIN s = 1 .. Len(s) /\ Len(s) \in Nat
      /\ DOMAIN Tail(s) = 1 .. Len(s) - 1
      /\ \A i \in DOMAIN Tail(s) : i + 1 \in DOMAIN s /\ Tail(s)[i] = s[i + 1]
    BY TailPlaces
<1>2. SUFFICES ASSUME NEW i \in DOMAIN Tail(s), Tail(s)[i].do \in {"operator", "nominator"}
               PROVE  \E j \in DOMAIN Tail(s) :
                         j > i /\ Tail(s)[j].do = "count" /\ Tail(s)[j].op = Tail(s)[i].op
    BY DEF Closed
<1>3. i + 1 \in DOMAIN s /\ s[i + 1] = Tail(s)[i]
    BY <1>1
<1>4. PICK j \in DOMAIN s : j > i + 1 /\ s[j].do = "count" /\ s[j].op = Tail(s)[i].op
    BY <1>2, <1>3 DEF Closed
<1>7. j - 1 \in DOMAIN Tail(s) /\ (j - 1) + 1 = j /\ j - 1 > i
    BY <1>1, <1>4
<1>8. Tail(s)[j - 1] = s[j]
    BY <1>1, <1>7
<1> QED
    BY <1>4, <1>7, <1>8

LEMMA ClosedConcat ==
    ASSUME NEW X, NEW s \in Seq(X), NEW t \in Seq(X), Closed(s), Closed(t)
    PROVE  Closed(s \o t)
<1>1. PICK r \in Seq(X) : Joins(r, s, t)
    BY JoinsExist
<1>2. r = s \o t
    BY <1>1 DEF Joins
<1>3. Len(s) \in Nat /\ DOMAIN s = 1 .. Len(s) /\ DOMAIN t \subseteq Nat \ {0}
    OBVIOUS
<1>4. ASSUME NEW i \in DOMAIN r, r[i].do \in {"operator", "nominator"}
      PROVE  \E j \in DOMAIN r : j > i /\ r[j].do = "count" /\ r[j].op = r[i].op
    <2>1. \/ i \in DOMAIN s /\ r[i] = s[i]
          \/ \E j \in DOMAIN t : i = Len(s) + j /\ r[i] = t[j]
        BY <1>1, JoinsPlace
    <2>2. CASE i \in DOMAIN s /\ r[i] = s[i]
        <3>1. PICK j \in DOMAIN s : j > i /\ s[j].do = "count" /\ s[j].op = s[i].op
            BY <1>4, <2>2 DEF Closed
        <3>2. j \in DOMAIN r /\ r[j] = s[j]
            BY <1>1, JoinsLeft
        <3> QED
            BY <2>2, <3>1, <3>2
    <2>3. CASE \E j \in DOMAIN t : i = Len(s) + j /\ r[i] = t[j]
        <3>1. PICK k \in DOMAIN t : i = Len(s) + k /\ r[i] = t[k]
            BY <2>3
        <3>2. t[k].do \in {"operator", "nominator"}
            BY <1>4, <3>1
        <3>3. PICK j \in DOMAIN t : j > k /\ t[j].do = "count" /\ t[j].op = t[k].op
            BY <3>2 DEF Closed
        <3>4. Len(s) + j \in DOMAIN r /\ r[Len(s) + j] = t[j]
            BY <1>1, JoinsRight
        <3>5. Len(s) + j > i
            BY <1>3, <3>1, <3>3
        <3> QED
            BY <3>1, <3>3, <3>4, <3>5
    <2> QED
        BY <2>1, <2>2, <2>3
<1> QED
    BY <1>2, <1>4, Zenon DEF Closed
-----------------------------------------------------------------------------
LEMMA HasFlat ==
    ASSUME NEW X, NEW ss \in Seq(Seq(X)), NEW S, NEW k \in DOMAIN ss, Has(ss[k], S)
    PROVE  Has(Flat(ss), S)
<1> DEFINE P == [i \in Nat |-> {q \in Seq(X) : i >= k => Has(q, S)}]
<1>0. k \in 1 .. Len(ss) /\ Len(ss) \in Nat /\ \A i \in 1 .. Len(ss) : ss[i] \in Seq(X)
    OBVIOUS
<1>1. <<>> \in P[0]
    BY <1>0
<1>2. ASSUME NEW i \in 1 .. Len(ss), NEW q \in P[i - 1] PROVE q \o ss[i] \in P[i]
    <2>1. PICK r \in Seq(X) : r = ss[i]
        BY <1>0
    <2>2. q \in Seq(X) /\ (i - 1 >= k => Has(q, S)) /\ i \in Nat
        BY <1>0, <1>2
    <2>3. q \o r \in Seq(X)
        BY <2>2, ConcatType
    <2>4. Has(q \o r, S) <=> Has(q, S) \/ Has(r, S)
        BY <2>2, HasConcat
    <2>5. i >= k => i - 1 >= k \/ i = k
        BY <1>0
    <2>6. i >= k => Has(q \o r, S)
        BY <2>1, <2>2, <2>4, <2>5
    <2>7. q \o r \in P[i]
        BY <2>2, <2>3, <2>6, Zenon
    <2> QED
        BY <2>1, <2>7, Zenon
<1>3. Flat(ss) \in P[Len(ss)]
    <2> HIDE DEF P
    <2> QED
        BY <1>1, <1>2, FlatInduction
<1> QED
    BY <1>0, <1>3

LEMMA HasFlatOnly ==
    ASSUME NEW X, NEW ss \in Seq(Seq(X)), NEW S, \A k \in DOMAIN ss : ~Has(ss[k], S)
    PROVE  ~Has(Flat(ss), S)
<1> DEFINE P == [i \in Nat |-> {q \in Seq(X) : ~Has(q, S)}]
<1>0. Len(ss) \in Nat /\ DOMAIN ss = 1 .. Len(ss) /\ \A i \in 1 .. Len(ss) : ss[i] \in Seq(X)
    OBVIOUS
<1>1. <<>> \in P[0]
    BY DEF Has
<1>2. ASSUME NEW i \in 1 .. Len(ss), NEW q \in P[i - 1] PROVE q \o ss[i] \in P[i]
    <2>1. PICK r \in Seq(X) : r = ss[i]
        BY <1>0
    <2>2. q \in Seq(X) /\ ~Has(q, S) /\ i \in Nat /\ ~Has(r, S)
        BY <1>0, <1>2, <2>1
    <2>3. q \o r \in Seq(X)
        BY <2>2, ConcatType
    <2>4. Has(q \o r, S) <=> Has(q, S) \/ Has(r, S)
        BY <2>2, HasConcat
    <2>7. q \o r \in P[i]
        BY <2>2, <2>3, <2>4, Zenon
    <2> QED
        BY <2>1, <2>7, Zenon
<1>3. Flat(ss) \in P[Len(ss)]
    <2> HIDE DEF P
    <2> QED
        BY <1>1, <1>2, FlatInduction
<1> QED
    BY <1>0, <1>3

LEMMA EndsFlat ==
    ASSUME NEW X, NEW ss \in Seq(Seq(X)), NEW G, NEW B, NEW k \in DOMAIN ss,
           Ends(ss[k], G, B), \A j \in DOMAIN ss : j > k => ~Has(ss[j], B)
    PROVE  Ends(Flat(ss), G, B)
<1> DEFINE P == [i \in Nat |-> {q \in Seq(X) : i >= k => Ends(q, G, B)}]
<1>0. /\ k \in 1 .. Len(ss) /\ Len(ss) \in Nat /\ DOMAIN ss = 1 .. Len(ss)
      /\ \A i \in 1 .. Len(ss) : ss[i] \in Seq(X)
    OBVIOUS
<1>1. <<>> \in P[0]
    BY <1>0
<1>2. ASSUME NEW i \in 1 .. Len(ss), NEW q \in P[i - 1] PROVE q \o ss[i] \in P[i]
    <2>1. PICK r \in Seq(X) : r = ss[i]
        BY <1>0
    <2>2. q \in Seq(X) /\ (i - 1 >= k => Ends(q, G, B)) /\ i \in Nat
        BY <1>0, <1>2
    <2>3. q \o r \in Seq(X)
        BY <2>2, ConcatType
    <2>4. ASSUME i >= k PROVE Ends(r, G, B) \/ (Ends(q, G, B) /\ ~Has(r, B))
        <3>1. CASE i = k
            BY <2>1, <3>1
        <3>2. CASE i > k
            <4>1. i - 1 >= k /\ i \in DOMAIN ss
                BY <1>0, <3>2
            <4>2. ~Has(ss[i], B)
                BY <3>2, <4>1
            <4> QED
                BY <2>1, <2>2, <4>1, <4>2
        <3> QED
            BY <1>0, <2>4, <3>1, <3>2
    <2>5. ASSUME i >= k PROVE Ends(q \o r, G, B)
        BY <2>2, <2>4, <2>5, EndsConcat
    <2>7. q \o r \in P[i]
        BY <2>2, <2>3, <2>5, Zenon
    <2> QED
        BY <2>1, <2>7, Zenon
<1>3. Flat(ss) \in P[Len(ss)]
    <2> HIDE DEF P
    <2> QED
        BY <1>1, <1>2, FlatInduction
<1> QED
    BY <1>0, <1>3

\* The first of the parts has what has to come first.
LEMMA AfterFlat ==
    ASSUME NEW X, NEW ss \in Seq(Seq(X)), NEW A, NEW F, 1 \in DOMAIN ss,
           Has(ss[1], F), ~Has(ss[1], A)
    PROVE  After(Flat(ss), A, F)
<1> DEFINE P == [i \in Nat |-> {q \in Seq(X) : After(q, A, F) /\ (i >= 1 => Has(q, F))}]
<1>0. Len(ss) \in Nat /\ DOMAIN ss = 1 .. Len(ss) /\ \A i \in 1 .. Len(ss) : ss[i] \in Seq(X)
    OBVIOUS
<1>1. <<>> \in P[0]
    BY <1>0 DEF After
<1>2. ASSUME NEW i \in 1 .. Len(ss), NEW q \in P[i - 1] PROVE q \o ss[i] \in P[i]
    <2>1. PICK r \in Seq(X) : r = ss[i]
        BY <1>0
    <2>2. q \in Seq(X) /\ After(q, A, F) /\ (i - 1 >= 1 => Has(q, F)) /\ i \in Nat
        BY <1>0, <1>2
    <2>3. q \o r \in Seq(X)
        BY <2>2, ConcatType
    <2>4. i = 1 => After(r, A, F) /\ Has(r, F)
        BY <2>1 DEF After, Has
    <2>5. i # 1 => i - 1 >= 1
        OBVIOUS
    <2>6. Has(q, F) \/ (After(r, A, F) /\ Has(r, F))
        BY <2>2, <2>4, <2>5
    <2>8. After(q \o r, A, F)
        BY <2>2, <2>6, AfterConcat
    <2>9. Has(q \o r, F) <=> Has(q, F) \/ Has(r, F)
        BY <2>2, HasConcat
    <2>7. q \o r \in P[i]
        BY <2>2, <2>3, <2>6, <2>8, <2>9, Zenon
    <2> QED
        BY <2>1, <2>7, Zenon
<1>3. Flat(ss) \in P[Len(ss)]
    <2> HIDE DEF P
    <2> QED
        BY <1>1, <1>2, FlatInduction
<1> QED
    BY <1>0, <1>3

LEMMA ClosedFlat ==
    ASSUME NEW X, NEW ss \in Seq(Seq(X)), \A k \in DOMAIN ss : Closed(ss[k])
    PROVE  Closed(Flat(ss))
<1> DEFINE P == [i \in Nat |-> {q \in Seq(X) : Closed(q)}]
<1>0. Len(ss) \in Nat /\ DOMAIN ss = 1 .. Len(ss) /\ \A i \in 1 .. Len(ss) : ss[i] \in Seq(X)
    OBVIOUS
<1>1. <<>> \in P[0]
    BY DEF Closed
<1>2. ASSUME NEW i \in 1 .. Len(ss), NEW q \in P[i - 1] PROVE q \o ss[i] \in P[i]
    <2>1. PICK r \in Seq(X) : r = ss[i]
        BY <1>0
    <2>2. q \in Seq(X) /\ Closed(q) /\ i \in Nat /\ Closed(r)
        BY <1>0, <1>2, <2>1
    <2>3. q \o r \in Seq(X)
        BY <2>2, ConcatType
    <2>4. Closed(q \o r)
        BY <2>2, ClosedConcat
    <2>7. q \o r \in P[i]
        BY <2>2, <2>3, <2>4, Zenon
    <2> QED
        BY <2>1, <2>7, Zenon
<1>3. Flat(ss) \in P[Len(ss)]
    <2> HIDE DEF P
    <2> QED
        BY <1>1, <1>2, FlatInduction
<1> QED
    BY <1>0, <1>3

-----------------------------------------------------------------------------
(***************************************************************************)
(* The chain.                                                              *)
(***************************************************************************)
LEMMA EventsType ==
    /\ Top \in Nat /\ Height \subseteq Nat
    /\ \A h \in Height : Events[h] \in Seq(ChainEvent)
    /\ \A h \in Height : \A i \in DOMAIN Events[h] : Events[h][i] \in ChainEvent /\ i \in Nat
<1>1. Events \in Seq(Seq(ChainEvent))
    BY StakingAssumption
<1>2. PICK T : T = Seq(ChainEvent)
    OBVIOUS
<1>3. Events \in Seq(T)
    BY <1>1, <1>2
<1>4. Top \in Nat /\ Height \subseteq Nat /\ \A h \in Height : Events[h] \in T
    BY <1>3 DEF Top, Height
<1>5. \A h \in Height : Events[h] \in Seq(ChainEvent)
    BY <1>2, <1>4
<1>6. ASSUME NEW h \in Height, NEW i \in DOMAIN Events[h]
      PROVE  Events[h][i] \in ChainEvent /\ i \in Nat
    <2>1. PICK s \in Seq(ChainEvent) : s = Events[h]
        BY <1>5
    <2>2. s[i] \in ChainEvent /\ i \in Nat
        BY <2>1
    <2> QED
        BY <2>1, <2>2
<1> QED
    BY <1>4, <1>5, <1>6

LEMMA EventFields ==
    ASSUME NEW h \in Height, NEW i \in DOMAIN Events[h]
    PROVE  /\ Events[h][i].kind \in StatusKinds \union SilentKinds \union TouchKinds
                                        \union {"fee", "withdrew", "epoch"}
           /\ Events[h][i].op \in Operators /\ Events[h][i].addr \in Addresses
           /\ Events[h][i].n \in Nat /\ Events[h][i].ops \in SUBSET Operators
BY EventsType DEF ChainEvent

LEMMA GreatestNat ==
    ASSUME NEW n \in Nat, NEW T \in SUBSET (0 .. n), T # {}
    PROVE  \E m \in T : \A y \in T : y <= m
<1> DEFINE U == {n - y : y \in T}
<1>0. \A y \in T : n - y \in Nat
    OBVIOUS
<1>1. U \in SUBSET Nat /\ U # {}
    BY <1>0
<1>2. PICK u \in U : \A y \in U : u <= y
    <2> HIDE DEF U
    <2> QED
        BY <1>1, LeastNat
<1>3. PICK m \in T : u = n - m
    OBVIOUS
<1>4. ASSUME NEW y \in T PROVE y <= m
    <2>1. n - m <= n - y
        BY <1>2, <1>3
    <2> QED
        BY <2>1
<1> QED
    BY <1>4

LEMMA PlaceIs ==
    ASSUME NEW h \in 0 .. Top, NEW p \in Places(h)
    PROVE  /\ p[1] \in 1 .. h /\ p[1] \in Height /\ p[2] \in DOMAIN Events[p[1]]
           /\ p[2] \in Nat /\ p = <<p[1], p[2]>>
<1>1. PICK g \in 1 .. h : p \in {g} \X DOMAIN Events[g]
    BY DEF Places
<1>2. p[1] = g /\ p[2] \in DOMAIN Events[g] /\ p = <<p[1], p[2]>>
    BY <1>1
<1>3. g \in Height
    BY EventsType DEF Height
<1> QED
    BY <1>2, <1>3, EventsType

LEMMA PlaceOf ==
    ASSUME NEW h \in 0 .. Top, NEW g \in 1 .. h, NEW i \in DOMAIN Events[g]
    PROVE  <<g, i>> \in Places(h)
BY DEF Places

LEMMA LatestIs ==
    ASSUME NEW h \in 0 .. Top, NEW S \in SUBSET Places(h), S # {}
    PROVE  Latest(S) \in S /\ \A q \in S : NotBefore(Latest(S), q)
<1>0. /\ \A p \in S : p[1] \in 1 .. h /\ p[1] \in Height /\ p[2] \in DOMAIN Events[p[1]] /\ p[2] \in Nat
      /\ h \in Nat
    BY PlaceIs, EventsType
<1>1. PICK g \in {p[1] : p \in S} : \A y \in {p[1] : p \in S} : y <= g
    <2>1. {p[1] : p \in S} \in SUBSET (0 .. h) /\ {p[1] : p \in S} # {}
        BY <1>0
    <2> QED
        BY <1>0, <2>1, GreatestNat
<1> DEFINE R == {p \in S : p[1] = g}
<1>2. g \in Height
    BY <1>0
<1>3. PICK m \in Nat : \A i \in DOMAIN Events[g] : i <= m
    <2>1. PICK s \in Seq(ChainEvent) : s = Events[g]
        BY <1>2, EventsType
    <2>2. Len(s) \in Nat /\ \A i \in DOMAIN s : i <= Len(s)
        OBVIOUS
    <2> QED
        BY <2>1, <2>2
<1>4. PICK j \in {p[2] : p \in R} : \A y \in {p[2] : p \in R} : y <= j
    <2>1. {p[2] : p \in R} \in SUBSET (0 .. m) /\ {p[2] : p \in R} # {}
        BY <1>0, <1>1, <1>3
    <2> QED
        BY <2>1, GreatestNat
<1>5. PICK p \in R : p[2] = j
    OBVIOUS
<1>6. ASSUME NEW q \in S PROVE NotBefore(p, q)
    <2>1. q[1] <= g /\ p[1] = g
        BY <1>1
    <2>2. q[1] = g => q[2] <= p[2]
        BY <1>4, <1>5
    <2> QED
        BY <1>0, <1>5, <2>1, <2>2 DEF NotBefore
<1> QED
    BY <1>6 DEF Latest

LEMMA ChangesIs ==
    ASSUME NEW h \in 0 .. Top, NEW o
    PROVE  /\ Changes(o, h) \in SUBSET Places(h)
           /\ \A p \in Changes(o, h) :
                 p[1] \in 1 .. h /\ p[1] \in Height /\ p[2] \in DOMAIN Events[p[1]]
                 /\ Events[p[1]][p[2]].op = o
                 /\ Events[p[1]][p[2]].kind \in StatusKinds \union SilentKinds
           /\ \A g \in 1 .. h : \A i \in DOMAIN Events[g] :
                 Events[g][i].op = o /\ Events[g][i].kind \in StatusKinds \union SilentKinds
                    => <<g, i>> \in Changes(o, h)
BY PlaceIs, PlaceOf DEF Changes, EventAt

LEMMA OperatorAtIs ==
    ASSUME NEW h \in 0 .. Top, NEW o
    PROVE  /\ OperatorAt(o, h) \in Status \union {"none"}
           /\ OperatorAt(o, h) = "none" <=> Changes(o, h) = {}
           /\ Changes(o, h) # {} =>
                 \E p \in Changes(o, h) :
                     /\ OperatorAt(o, h) = StatusOf(Events[p[1]][p[2]].kind)
                     /\ \A q \in Changes(o, h) : NotBefore(p, q)
<1>1. CASE Changes(o, h) = {}
    BY <1>1 DEF OperatorAt
<1>2. CASE Changes(o, h) # {}
    <2>1. PICK p \in Changes(o, h) : p = Latest(Changes(o, h)) /\ \A q \in Changes(o, h) : NotBefore(p, q)
        BY <1>2, ChangesIs, LatestIs
    <2>2. OperatorAt(o, h) = StatusOf(Events[p[1]][p[2]].kind)
        BY <1>2, <2>1 DEF OperatorAt, EventAt
    <2>3. Events[p[1]][p[2]].kind \in StatusKinds \union SilentKinds
        BY ChangesIs
    <2>4. StatusOf(Events[p[1]][p[2]].kind) \in Status
        BY <2>3 DEF StatusKinds, SilentKinds, StatusOf, Status
    <2>5. OperatorAt(o, h) # "none"
        BY <2>2, <2>4 DEF Status, SilentKinds
    <2> QED
        BY <1>2, <2>1, <2>2, <2>4, <2>5
<1> QED
    BY <1>1, <1>2

LEMMA TouchesIs ==
    ASSUME NEW h \in 0 .. Top, NEW o, NEW a
    PROVE  /\ Touches(o, a, h) \in SUBSET Places(h)
           /\ \A p \in Touches(o, a, h) :
                 p[1] \in 1 .. h /\ p[1] \in Height /\ p[2] \in DOMAIN Events[p[1]]
                 /\ Events[p[1]][p[2]].op = o /\ Events[p[1]][p[2]].addr = a
                 /\ Events[p[1]][p[2]].kind \in TouchKinds
           /\ \A g \in 1 .. h : \A i \in DOMAIN Events[g] :
                 Events[g][i].op = o /\ Events[g][i].addr = a /\ Events[g][i].kind \in TouchKinds
                    => <<g, i>> \in Touches(o, a, h)
BY PlaceIs, PlaceOf DEF Touches, EventAt

LEMMA NominatorAtIs ==
    ASSUME NEW h \in 0 .. Top, NEW o, NEW a, Touches(o, a, h) # {}
    PROVE  /\ NominatorAt(o, a, h) \in {"active", "withdrawn"}
           /\ \E p \in Touches(o, a, h) :
                 /\ p = Latest(Touches(o, a, h))
                 /\ \A q \in Touches(o, a, h) : NotBefore(p, q)
                 /\ NominatorAt(o, a, h) = "withdrawn" <=> Leaves(Events[p[1]][p[2]])
<1>1. PICK p \in Touches(o, a, h) : /\ p = Latest(Touches(o, a, h))
                                   /\ \A q \in Touches(o, a, h) : NotBefore(p, q)
    BY TouchesIs, LatestIs
<1>2. NominatorAt(o, a, h) = IF Leaves(Events[p[1]][p[2]]) THEN "withdrawn" ELSE "active"
    BY <1>1 DEF NominatorAt, EventAt
<1> QED
    BY <1>1, <1>2

\* A nominator has the status of the last block it was touched in.
LEMMA SameNominatorAt ==
    ASSUME NEW h \in 0 .. Top, NEW g \in 1 .. h, NEW o, NEW a,
           Touches(o, a, h) # {}, Latest(Touches(o, a, h))[1] = g
    PROVE  NominatorAt(o, a, g) = NominatorAt(o, a, h)
<1>0. g \in 0 .. Top /\ h \in Nat /\ g \in Nat
    BY EventsType
<1>1. PICK p \in Touches(o, a, h) : /\ p = Latest(Touches(o, a, h))
                                   /\ \A q \in Touches(o, a, h) : NotBefore(p, q)
    BY TouchesIs, LatestIs
<1>2. ASSUME NEW q \in Touches(o, a, h) PROVE q \in Touches(o, a, g)
    <2>1. q \in Places(h) /\ q[1] \in 1 .. h /\ q = <<q[1], q[2]>> /\ q[2] \in DOMAIN Events[q[1]]
        BY TouchesIs, PlaceIs
    <2>2. p[1] \in 1 .. h
        BY TouchesIs
    <2>3. q[1] <= g
        BY <1>0, <1>1, <2>1, <2>2 DEF NotBefore
    <2>4. q[1] \in 1 .. g
        BY <1>0, <2>1, <2>3
    <2>5. q \in Places(g)
        BY <1>0, <2>1, <2>4, PlaceOf
    <2> QED
        BY <2>5 DEF Touches
<1>3. ASSUME NEW q \in Touches(o, a, g) PROVE q \in Touches(o, a, h)
    <2>1. q \in Places(g) /\ q[1] \in 1 .. g /\ q = <<q[1], q[2]>> /\ q[2] \in DOMAIN Events[q[1]]
        BY <1>0, TouchesIs, PlaceIs
    <2>4. q[1] \in 1 .. h
        BY <1>0, <2>1
    <2>5. q \in Places(h)
        BY <1>0, <2>1, <2>4, PlaceOf
    <2> QED
        BY <2>5 DEF Touches
<1>4. Touches(o, a, g) = Touches(o, a, h)
    BY <1>2, <1>3
<1> QED
    BY <1>4 DEF NominatorAt

\* An operator has the status of a later block if nothing changed it between.
LEMMA SameOperatorAt ==
    ASSUME NEW h \in 0 .. Top, NEW g \in 0 .. h, NEW o,
           \A r \in Height : r > g /\ r <= h => \A i \in DOMAIN Events[r] :
              ~(Events[r][i].op = o /\ Events[r][i].kind \in StatusKinds \union SilentKinds)
    PROVE  OperatorAt(o, g) = OperatorAt(o, h)
<1>0. g \in 0 .. Top /\ h \in Nat /\ g \in Nat
    BY EventsType
<1>2. ASSUME NEW q \in Changes(o, h) PROVE q \in Changes(o, g)
    <2>1. /\ q \in Places(h) /\ q[1] \in 1 .. h /\ q = <<q[1], q[2]>> /\ q[2] \in DOMAIN Events[q[1]]
          /\ q[1] \in Height /\ Events[q[1]][q[2]].op = o
          /\ Events[q[1]][q[2]].kind \in StatusKinds \union SilentKinds
        BY ChangesIs, PlaceIs
    <2>3. q[1] <= g
        BY <1>0, <2>1
    <2>4. q[1] \in 1 .. g
        BY <1>0, <2>1, <2>3
    <2>5. q \in Places(g)
        BY <1>0, <2>1, <2>4, PlaceOf
    <2> QED
        BY <2>5 DEF Changes
<1>3. ASSUME NEW q \in Changes(o, g) PROVE q \in Changes(o, h)
    <2>1. q \in Places(g) /\ q[1] \in 1 .. g /\ q = <<q[1], q[2]>> /\ q[2] \in DOMAIN Events[q[1]]
        BY <1>0, ChangesIs, PlaceIs
    <2>4. q[1] \in 1 .. h
        BY <1>0, <2>1
    <2>5. q \in Places(h)
        BY <1>0, <2>1, <2>4, PlaceOf
    <2> QED
        BY <2>5 DEF Changes
<1>4. Changes(o, g) = Changes(o, h)
    BY <1>2, <1>3
<1> QED
    BY <1>4 DEF OperatorAt

-----------------------------------------------------------------------------
(***************************************************************************)
(* The script of a block.                                                  *)
(***************************************************************************)
OperatorSt(o) == [do |-> "operator", op |-> o]
StatusSt(o, s) == [do |-> "status", op |-> o, status |-> s]
NominatorSt(o, a, s) == [do |-> "nominator", op |-> o, addr |-> a, status |-> s]
CountSt(o) == [do |-> "count", op |-> o]
DepositSt(o, a, fee) == [do |-> "deposit", op |-> o, addr |-> a, fee |-> fee]
FoundSt(o, a) == [do |-> "withdrawal", op |-> o, addr |-> a, known |-> TRUE]
LostSt(o, a) == [do |-> "withdrawal", op |-> o, addr |-> a, known |-> FALSE]
PriceSt(o, n) == [do |-> "price", op |-> o, epoch |-> n]
StatsSt(o) == [do |-> "stats", op |-> o]

LEMMA OperatorFields == \A o : OperatorSt(o).do = "operator" /\ OperatorSt(o).op = o
BY DEF OperatorSt

LEMMA StatusFields ==
    \A o, s : StatusSt(o, s).do = "status" /\ StatusSt(o, s).op = o /\ StatusSt(o, s).status = s
BY DEF StatusSt

LEMMA NominatorFields ==
    \A o, a, s : /\ NominatorSt(o, a, s).do = "nominator" /\ NominatorSt(o, a, s).op = o
                 /\ NominatorSt(o, a, s).addr = a /\ NominatorSt(o, a, s).status = s
BY DEF NominatorSt

LEMMA CountFields == \A o : CountSt(o).do = "count" /\ CountSt(o).op = o
BY DEF CountSt

LEMMA DepositFields ==
    \A o, a, f : /\ DepositSt(o, a, f).do = "deposit" /\ DepositSt(o, a, f).op = o
                 /\ DepositSt(o, a, f).addr = a /\ DepositSt(o, a, f).fee = f
BY DEF DepositSt

LEMMA WithdrawalFields ==
    \A o, a : /\ FoundSt(o, a).do = "withdrawal" /\ FoundSt(o, a).op = o /\ FoundSt(o, a).addr = a
              /\ LostSt(o, a).do = "withdrawal" /\ LostSt(o, a).op = o /\ LostSt(o, a).addr = a
BY DEF FoundSt, LostSt

LEMMA PriceFields ==
    \A o, n : PriceSt(o, n).do = "price" /\ PriceSt(o, n).op = o /\ PriceSt(o, n).epoch = n
BY DEF PriceSt

LEMMA StatsFields == \A o : StatsSt(o).do = "stats" /\ StatsSt(o).op = o
BY DEF StatsSt

LEMMA PlainKinds ==
    ASSUME NEW h, NEW st \in Plain(h)
    PROVE  st.do \in {"operator", "status", "nominator", "count", "deposit",
                      "withdrawal", "price", "stats"}
BY DEF Plain, OperatorSteps, StatusSteps, NominatorSteps, CountSteps, DepositSteps,
       WithdrawalSteps, PriceSteps, StatsSteps

LEMMA InBlockOf ==
    ASSUME NEW h \in Height, NEW i \in DOMAIN Events[h]
    PROVE  LET e == Events[h][i] IN
           /\ InBlock(h, About(e.op))
           /\ e.kind = "registered" => InBlock(h, Registering(e.op))
           /\ e.kind \in TouchKinds => InBlock(h, Touching(e.op, e.addr))
           /\ e.kind = "epoch" => \A o \in e.ops : InBlock(h, Pricing(o, e.n))
           /\ e.kind \in StatusKinds => WritesStatus(e.op, h)
BY EventsType DEF InBlock, About, Registering, Touching, Pricing, WritesStatus

LEMMA NominatorType ==
    ASSUME NEW h \in Height, NEW o \in Operators, NEW a \in Addresses,
           NEW s \in {"active", "withdrawn"}, InBlock(h, Touching(o, a))
    PROVE  NominatorSt(o, a, s) \in Plain(h) /\ CountSt(o) \in Plain(h)
<1>1. InBlock(h, About(o))
    BY DEF InBlock, Touching, About
<1>2. NominatorSt(o, a, s) \in NominatorSteps(h)
    BY DEF NominatorSt, NominatorSteps
<1>3. CountSt(o) \in CountSteps(h)
    BY <1>1 DEF CountSt, CountSteps
<1> QED
    BY <1>2, <1>3 DEF Plain

LEMMA ClosedNominator ==
    ASSUME NEW o, NEW a, NEW s
    PROVE  Nominator(o, a, s) = <<NominatorSt(o, a, s), CountSt(o)>> /\ Closed(Nominator(o, a, s))
<1>1. Nominator(o, a, s) = <<NominatorSt(o, a, s), CountSt(o)>>
    BY DEF Nominator, NominatorSt, CountSt
<1>2. PICK x, y : /\ x = NominatorSt(o, a, s) /\ y = CountSt(o)
                  /\ x.op = o /\ y.op = o /\ y.do = "count"
    BY NominatorFields, CountFields
<1>3. Closed(<<x, y>>)
    BY <1>2 DEF Closed
<1> QED
    BY <1>1, <1>2, <1>3

LEMMA ReadType ==
    ASSUME NEW h, NEW ok \in Seq(Plain(h)), NEW failed \in Seq(Plain(h)), Closed(ok), Closed(failed)
    PROVE  /\ Read(ok, failed) \in Body(h) /\ Read(ok, failed).do = "read"
           /\ Read(ok, failed).ok = ok /\ Read(ok, failed).failed = failed
BY DEF Read, Body, Reads

\* A read alone.
LEMMA OneRead ==
    ASSUME NEW h, NEW ok \in Seq(Plain(h)), NEW failed \in Seq(Plain(h)), Closed(ok), Closed(failed)
    PROVE  /\ <<Read(ok, failed)>> \in Seq(Body(h)) /\ Closed(<<Read(ok, failed)>>)
           /\ \A S : Has(<<Read(ok, failed)>>, S) <=> Has(ok, S)
<1>1. PICK r \in Body(h) : r = Read(ok, failed) /\ r.do = "read" /\ r.ok = ok
    BY ReadType
<1>2. <<r>> \in Seq(Body(h)) /\ DOMAIN <<r>> = {1} /\ <<r>>[1] = r
    OBVIOUS
<1>3. Closed(<<r>>)
    BY <1>1, <1>2 DEF Closed
<1>4. ASSUME NEW S PROVE Has(<<r>>, S) <=> Has(ok, S)
    <2>1. \A i \in DOMAIN ok : ok[i] \in Plain(h)
        OBVIOUS
    <2>2. \A i \in DOMAIN r.ok : r.ok[i].do # "read"
        BY <1>1, <2>1, PlainKinds
    <2>3. Has(r.ok, S) <=> Meets(r, S)
        BY <1>1, <2>2, HasOk
    <2> QED
        BY <1>1, <1>2, <2>3 DEF Has
<1> QED
    BY <1>1, <1>2, <1>3, <1>4

\* Two or three statements.
LEMMA HasTwo ==
    ASSUME NEW x, NEW y, x.do # "read", y.do # "read", NEW S
    PROVE  Has(<<x, y>>, S) <=> x \in S \/ y \in S
<1>1. DOMAIN <<x, y>> = {1, 2} /\ <<x, y>>[1] = x /\ <<x, y>>[2] = y
    OBVIOUS
<1>2. (Meets(x, S) <=> x \in S) /\ (Meets(y, S) <=> y \in S)
    BY MeetsPlain
<1> QED
    BY <1>1, <1>2 DEF Has

LEMMA HasOne ==
    ASSUME NEW x, x.do # "read", NEW S
    PROVE  Has(<<x>>, S) <=> x \in S
<1>1. DOMAIN <<x>> = {1} /\ <<x>>[1] = x
    OBVIOUS
<1>2. Meets(x, S) <=> x \in S
    BY MeetsPlain
<1> QED
    BY <1>1, <1>2 DEF Has

LEMMA HasThree ==
    ASSUME NEW x, NEW y, NEW z, x.do # "read", y.do # "read", z.do # "read", NEW S
    PROVE  Has(<<x, y, z>>, S) <=> x \in S \/ y \in S \/ z \in S
<1>1. /\ DOMAIN <<x, y, z>> = {1, 2, 3}
      /\ <<x, y, z>>[1] = x /\ <<x, y, z>>[2] = y /\ <<x, y, z>>[3] = z
    OBVIOUS
<1>2. (Meets(x, S) <=> x \in S) /\ (Meets(y, S) <=> y \in S) /\ (Meets(z, S) <=> z \in S)
    BY MeetsPlain
<1> QED
    BY <1>1, <1>2 DEF Has

LEMMA OneThenTwo ==
    ASSUME NEW x, NEW y, NEW z
    PROVE  <<x>> \o <<y, z>> = <<x, y, z>>
<1>1. PICK X : x \in X /\ y \in X /\ z \in X
    <2>1. x \in {x, y, z} /\ y \in {x, y, z} /\ z \in {x, y, z}
        OBVIOUS
    <2> QED
        BY <2>1, Zenon
<1>2. <<x>> \in Seq(X) /\ <<y, z>> \in Seq(X) /\ <<x, y, z>> \in Seq(X)
    BY <1>1
<1>3. PICK a \in Seq(X), b \in Seq(X), c \in Seq(X) : /\ a = <<x>> /\ b = <<y, z>> /\ c = <<x, y, z>>
                                                  /\ Len(a) = 1 /\ a[1] = x
                                                  /\ Len(b) = 2 /\ b[1] = y /\ b[2] = z
                                                  /\ Len(c) = 3 /\ c[1] = x /\ c[2] = y /\ c[3] = z
    BY <1>2
<1>4. PICK r \in Seq(X) : Joins(r, a, b)
    BY JoinsExist
<1>5. Len(r) = 3 /\ r[1] = x /\ r[2] = y /\ r[3] = z
    <2>1. /\ Len(r) = Len(a) + Len(b) /\ \A i \in 1 .. Len(a) : r[i] = a[i]
          /\ \A i \in 1 .. Len(b) : r[Len(a) + i] = b[i]
        BY <1>4 DEF Joins
    <2>2. Len(r) = 3 /\ r[1] = a[1] /\ r[1 + 1] = b[1] /\ r[1 + 2] = b[2]
        BY <1>3, <2>1
    <2> QED
        BY <1>3, <2>2
<1>6. r = c
    BY <1>3, <1>5
<1> QED
    BY <1>3, <1>4, <1>6, Zenon DEF Joins

LEMMA AppendTwo ==
    ASSUME NEW x, NEW y, NEW z
    PROVE  Append(<<x, y>>, z) = <<x, y, z>>
<1>1. PICK X : x \in X /\ y \in X /\ z \in X
    <2>1. x \in {x, y, z} /\ y \in {x, y, z} /\ z \in {x, y, z}
        OBVIOUS
    <2> QED
        BY <2>1, Zenon
<1>2. <<x, y>> \in Seq(X) /\ <<x, y, z>> \in Seq(X) /\ Append(<<x, y>>, z) \in Seq(X)
    BY <1>1
<1>3. /\ Len(Append(<<x, y>>, z)) = 3
      /\ Append(<<x, y>>, z)[1] = x /\ Append(<<x, y>>, z)[2] = y /\ Append(<<x, y>>, z)[3] = z
    BY <1>1, <1>2
<1>4. PICK a \in Seq(X), b \in Seq(X) : /\ a = Append(<<x, y>>, z) /\ b = <<x, y, z>>
                                      /\ Len(a) = 3 /\ a[1] = x /\ a[2] = y /\ a[3] = z
                                      /\ Len(b) = 3 /\ b[1] = x /\ b[2] = y /\ b[3] = z
    BY <1>2, <1>3
<1>5. /\ Len(a) = 3 /\ a[1] = x /\ a[2] = y /\ a[3] = z
      /\ Len(b) = 3 /\ b[1] = x /\ b[2] = y /\ b[3] = z
    BY <1>4, Zenon
<1>6. a = b
    BY <1>5
<1> QED
    BY <1>4, <1>6, Zenon

\* The steps of one event, and what they hold.
Whole(h, s) == s \in Seq(Body(h)) /\ Closed(s)

LEMMA RegisterIs ==
    ASSUME NEW h \in Height, NEW i \in DOMAIN Events[h], Events[h][i].kind = "registered"
    PROVE  LET e == Events[h][i] IN
           /\ Whole(h, Register(e))
           /\ \A S : Has(Register(e), S) <=>
                 \/ OperatorSt(e.op) \in S
                 \/ NominatorSt(e.op, e.addr, "active") \in S
                 \/ CountSt(e.op) \in S
<1> DEFINE e == Events[h][i]
<1>1. e.op \in Operators /\ e.addr \in Addresses
    BY EventFields
<1>2. InBlock(h, Touching(e.op, e.addr)) /\ InBlock(h, Registering(e.op))
    BY InBlockOf DEF TouchKinds
<1>3. OperatorSt(e.op) \in Plain(h)
    <2>1. OperatorSt(e.op) \in OperatorSteps(h)
        BY <1>1, <1>2 DEF OperatorSt, OperatorSteps
    <2> QED
        BY <2>1 DEF Plain
<1>4. NominatorSt(e.op, e.addr, "active") \in Plain(h) /\ CountSt(e.op) \in Plain(h)
    BY <1>1, <1>2, NominatorType
<1>5. PICK x, y, z \in Plain(h) : x = OperatorSt(e.op) /\ y = NominatorSt(e.op, e.addr, "active")
                                /\ z = CountSt(e.op)
    BY <1>3, <1>4
<1>6. <<OperatorSt(e.op)>> \o Nominator(e.op, e.addr, "active") = <<x, y, z>>
    <2>1. Nominator(e.op, e.addr, "active") = <<y, z>>
        BY <1>5, ClosedNominator
    <2>2. <<x>> \o <<y, z>> = <<x, y, z>>
        BY OneThenTwo
    <2> QED
        BY <1>5, <2>1, <2>2, Zenon
<1>7. x.op = e.op /\ y.op = e.op /\ z.op = e.op /\ z.do = "count"
    BY <1>5, OperatorFields, NominatorFields, CountFields
<1>8. Closed(<<x, y, z>>) /\ <<x, y, z>> \in Seq(Plain(h)) /\ Closed(<<>>) /\ <<>> \in Seq(Plain(h))
    BY <1>7 DEF Closed
<1>9. Register(e) = <<Read(<<x, y, z>>, <<>>)>>
    BY <1>6 DEF Register, OperatorSt
<1>10. x.do # "read" /\ y.do # "read" /\ z.do # "read"
    BY PlainKinds
<1>11. PICK ok \in Seq(Plain(h)), failed \in Seq(Plain(h)) : ok = <<x, y, z>> /\ failed = <<>>
    BY <1>8
<1>12. /\ <<Read(ok, failed)>> \in Seq(Body(h)) /\ Closed(<<Read(ok, failed)>>)
       /\ \A S : Has(<<Read(ok, failed)>>, S) <=> Has(ok, S)
    BY <1>8, <1>11, OneRead
<1>13. \A S : Has(ok, S) <=> x \in S \/ y \in S \/ z \in S
    BY <1>10, <1>11, HasThree
<1> QED
    BY <1>5, <1>9, <1>11, <1>12, <1>13 DEF Whole

LEMMA SetStatusIs ==
    ASSUME NEW h \in Height, NEW i \in DOMAIN Events[h],
           Events[h][i].kind \in StatusKinds \ {"registered"}
    PROVE  LET e == Events[h][i] IN
           /\ Whole(h, SetStatus(e))
           /\ \A S : Has(SetStatus(e), S) <=> StatusSt(e.op, StatusOf(e.kind)) \in S
<1> DEFINE e == Events[h][i]
<1>1. e.op \in Operators /\ WritesStatus(e.op, h)
    BY EventFields, InBlockOf
<1>2. StatusOf(e.kind) \in Status
    BY DEF StatusOf, Status, StatusKinds
<1>3. StatusSt(e.op, StatusOf(e.kind)) \in Plain(h)
    <2>1. StatusSt(e.op, StatusOf(e.kind)) \in StatusSteps(h)
        BY <1>1, <1>2 DEF StatusSt, StatusSteps
    <2> QED
        BY <2>1 DEF Plain
<1>4. PICK x \in Plain(h) : x = StatusSt(e.op, StatusOf(e.kind)) /\ x.do = "status"
    BY <1>3, StatusFields
<1>5. SetStatus(e) = <<x>>
    BY <1>4 DEF SetStatus, StatusSt
<1>6. <<x>> \in Seq(Body(h)) /\ Closed(<<x>>)
    BY <1>4 DEF Closed, Body
<1>7. \A S : Has(<<x>>, S) <=> x \in S
    BY <1>4, HasOne
<1> QED
    BY <1>4, <1>5, <1>6, <1>7, Zenon DEF Whole

LEMMA FeeType ==
    ASSUME NEW h \in Height, NEW i \in DOMAIN Events[h]
    PROVE  FeeOf(h, i) \in Nat
<1> DEFINE earlier == {j \in 1 .. i : Nomination(h, j) /\ SameNominator(Events[h][j], Events[h][i])}
           fees == FeesOf(h, Events[h][i])
           mine == {k \in fees : Cardinality({j \in fees : j <= k}) = Cardinality(earlier)}
<1>1. FeeOf(h, i) = IF mine = {} THEN 0 ELSE Events[h][CHOOSE k \in mine : TRUE].n
    BY DEF FeeOf
<1>2. \A k \in mine : k \in DOMAIN Events[h]
    BY DEF FeesOf
<1>3. CASE mine = {}
    BY <1>1, <1>3
<1>4. CASE mine # {}
    <2>1. PICK k \in mine : k = CHOOSE kk \in mine : TRUE
        BY <1>4
    <2>2. Events[h][k].n \in Nat
        BY <1>2, EventFields
    <2> QED
        BY <1>1, <1>4, <2>1, <2>2
<1> QED
    BY <1>3, <1>4

LEMMA NominateIs ==
    ASSUME NEW h \in Height, NEW i \in DOMAIN Events[h], Events[h][i].kind = "nominated"
    PROVE  LET e == Events[h][i] IN
           /\ Nominate(h, i) = <<NominatorSt(e.op, e.addr, "active"), CountSt(e.op),
                                 DepositSt(e.op, e.addr, FeeOf(h, i))>>
           /\ Whole(h, Nominate(h, i))
           /\ \A S : Has(Nominate(h, i), S) <=>
                 \/ NominatorSt(e.op, e.addr, "active") \in S
                 \/ CountSt(e.op) \in S
                 \/ DepositSt(e.op, e.addr, FeeOf(h, i)) \in S
<1> DEFINE e == Events[h][i]
<1>1. e.op \in Operators /\ e.addr \in Addresses /\ FeeOf(h, i) \in Nat
    BY EventFields, FeeType
<1>2. InBlock(h, Touching(e.op, e.addr))
    BY InBlockOf DEF TouchKinds
<1>3. DepositSt(e.op, e.addr, FeeOf(h, i)) \in Plain(h)
    <2>1. DepositSt(e.op, e.addr, FeeOf(h, i)) \in DepositSteps
        BY <1>1 DEF DepositSt, DepositSteps
    <2> QED
        BY <2>1 DEF Plain
<1>4. NominatorSt(e.op, e.addr, "active") \in Plain(h) /\ CountSt(e.op) \in Plain(h)
    BY <1>1, <1>2, NominatorType
<1>5. PICK x, y, z \in Plain(h) : x = NominatorSt(e.op, e.addr, "active")
                                /\ y = CountSt(e.op) /\ z = DepositSt(e.op, e.addr, FeeOf(h, i))
    BY <1>3, <1>4
<1>6. Nominate(h, i) = <<x, y, z>>
    <2>1. Nominator(e.op, e.addr, "active") = <<x, y>>
        BY <1>5, ClosedNominator
    <2>2. Append(<<x, y>>, z) = <<x, y, z>>
        BY AppendTwo
    <2>3. Nominate(h, i) = Append(Nominator(e.op, e.addr, "active"), z)
        BY <1>5 DEF Nominate, DepositSt
    <2> QED
        BY <1>5, <2>1, <2>2, <2>3, Zenon
<1>7. x.op = e.op /\ y.op = e.op /\ y.do = "count" /\ z.do = "deposit"
    BY <1>5, NominatorFields, CountFields, DepositFields
<1>8. Closed(<<x, y, z>>) /\ <<x, y, z>> \in Seq(Body(h))
    BY <1>7 DEF Closed, Body
<1>10. x.do # "read" /\ y.do # "read" /\ z.do # "read"
    BY PlainKinds
<1>13. \A S : Has(<<x, y, z>>, S) <=> x \in S \/ y \in S \/ z \in S
    BY <1>10, HasThree
<1> QED
    BY <1>5, <1>6, <1>8, <1>13, Zenon DEF Whole

LEMMA WithdrawIs ==
    ASSUME NEW h \in Height, NEW i \in DOMAIN Events[h], Events[h][i].kind = "withdrew"
    PROVE  LET e == Events[h][i] IN
           /\ Withdraw(e) = <<Read(<<FoundSt(e.op, e.addr)>>,
                                   <<LostSt(e.op, e.addr)>>)>>
           /\ Whole(h, Withdraw(e))
           /\ \A S : Has(Withdraw(e), S) <=> FoundSt(e.op, e.addr) \in S
<1> DEFINE e == Events[h][i]
<1>1. e.op \in Operators /\ e.addr \in Addresses
    BY EventFields
<1>2. /\ FoundSt(e.op, e.addr) \in WithdrawalSteps
      /\ LostSt(e.op, e.addr) \in WithdrawalSteps
    BY <1>1 DEF FoundSt, LostSt, WithdrawalSteps
<1>2a. \A st \in WithdrawalSteps : st \in Plain(h)
    BY DEF Plain
<1>3. PICK x, y \in Plain(h) : x = FoundSt(e.op, e.addr) /\ y = LostSt(e.op, e.addr)
    BY <1>2, <1>2a, Zenon
<1>4. x.do = "withdrawal" /\ y.do = "withdrawal"
    BY <1>3, WithdrawalFields
<1>5a. <<x>> \in Seq(Plain(h)) /\ <<y>> \in Seq(Plain(h))
    OBVIOUS
<1>5. PICK ok \in Seq(Plain(h)), failed \in Seq(Plain(h)) : ok = <<x>> /\ failed = <<y>>
    BY <1>5a, Zenon
<1>6. Closed(ok) /\ Closed(failed)
    BY <1>4, <1>5 DEF Closed
<1>7. Withdraw(e) = <<Read(ok, failed)>>
    BY <1>3, <1>5 DEF Withdraw, FoundSt, LostSt
<1>12. /\ <<Read(ok, failed)>> \in Seq(Body(h)) /\ Closed(<<Read(ok, failed)>>)
       /\ \A S : Has(<<Read(ok, failed)>>, S) <=> Has(ok, S)
    BY <1>6, OneRead
<1>13. \A S : Has(ok, S) <=> x \in S
    BY <1>4, <1>5, HasOne
<1> QED
    BY <1>3, <1>5, <1>7, <1>12, <1>13, Zenon DEF Whole

LEMMA RemoveIs ==
    ASSUME NEW h \in Height, NEW i \in DOMAIN Events[h], Events[h][i].kind = "nominatorUnlocked"
    PROVE  LET e == Events[h][i] IN
           /\ Whole(h, Nominator(e.op, e.addr, "withdrawn"))
           /\ \A S : Has(Nominator(e.op, e.addr, "withdrawn"), S) <=>
                 NominatorSt(e.op, e.addr, "withdrawn") \in S \/ CountSt(e.op) \in S
<1> DEFINE e == Events[h][i]
<1>1. e.op \in Operators /\ e.addr \in Addresses
    BY EventFields
<1>2. InBlock(h, Touching(e.op, e.addr))
    BY InBlockOf DEF TouchKinds
<1>4. NominatorSt(e.op, e.addr, "withdrawn") \in Plain(h) /\ CountSt(e.op) \in Plain(h)
    BY <1>1, <1>2, NominatorType
<1>5. PICK x, y \in Plain(h) : x = NominatorSt(e.op, e.addr, "withdrawn") /\ y = CountSt(e.op)
    BY <1>4
<1>6. Nominator(e.op, e.addr, "withdrawn") = <<x, y>> /\ Closed(<<x, y>>)
    BY <1>5, ClosedNominator
<1>8. <<x, y>> \in Seq(Body(h))
    BY DEF Body
<1>10. x.do # "read" /\ y.do # "read"
    BY PlainKinds
<1>13. \A S : Has(<<x, y>>, S) <=> x \in S \/ y \in S
    BY <1>10, HasTwo
<1> QED
    BY <1>5, <1>6, <1>8, <1>13, Zenon DEF Whole

LEMMA UnlockIs ==
    ASSUME NEW h \in Height, NEW i \in DOMAIN Events[h], Events[h][i].kind = "stakedUnlocked"
    PROVE  LET e == Events[h][i] IN
           /\ Whole(h, Unlock(h, e))
           /\ \A S : Has(Unlock(h, e), S) <=>
                 NominatorSt(e.op, e.addr, NominatorAt(e.op, e.addr, h)) \in S \/ CountSt(e.op) \in S
<1> DEFINE e == Events[h][i]
           n == NominatorAt(e.op, e.addr, h)
<1>1. e.op \in Operators /\ e.addr \in Addresses
    BY EventFields
<1>2. InBlock(h, Touching(e.op, e.addr))
    BY InBlockOf DEF TouchKinds
<1>3. n \in {"active", "withdrawn"}
    <2>1. h \in 0 .. Top /\ h \in 1 .. h
        BY EventsType DEF Height
    <2>2. <<h, i>> \in Touches(e.op, e.addr, h)
        BY <2>1, TouchesIs DEF TouchKinds
    <2>3. Touches(e.op, e.addr, h) # {}
        BY <2>2
    <2> QED
        BY <2>1, <2>3, NominatorAtIs
<1> HIDE DEF n
<1>4. /\ NominatorSt(e.op, e.addr, n) \in Plain(h) /\ CountSt(e.op) \in Plain(h)
      /\ NominatorSt(e.op, e.addr, "active") \in Plain(h)
    BY <1>1, <1>2, <1>3, NominatorType
<1>5. PICK x, y, z \in Plain(h) : x = NominatorSt(e.op, e.addr, n) /\ y = CountSt(e.op)
                                /\ z = NominatorSt(e.op, e.addr, "active")
    BY <1>4
<1>6. Nominator(e.op, e.addr, n) = <<x, y>> /\ Closed(<<x, y>>)
    BY <1>5, ClosedNominator
<1>7. Nominator(e.op, e.addr, "active") = <<z, y>> /\ Closed(<<z, y>>)
    BY <1>5, ClosedNominator
<1>8a. <<x, y>> \in Seq(Plain(h)) /\ <<z, y>> \in Seq(Plain(h))
    OBVIOUS
<1>8. PICK ok \in Seq(Plain(h)), failed \in Seq(Plain(h)) : ok = <<x, y>> /\ failed = <<z, y>>
    BY <1>8a, Zenon
<1>9. Unlock(h, e) = <<Read(ok, failed)>>
    BY <1>6, <1>7, <1>8, Zenon DEF Unlock, n
<1>10. x.do # "read" /\ y.do # "read"
    BY PlainKinds
<1>12. /\ <<Read(ok, failed)>> \in Seq(Body(h)) /\ Closed(<<Read(ok, failed)>>)
       /\ \A S : Has(<<Read(ok, failed)>>, S) <=> Has(ok, S)
    BY <1>6, <1>7, <1>8, OneRead
<1>13. \A S : Has(ok, S) <=> x \in S \/ y \in S
    BY <1>8, <1>10, HasTwo
<1> QED
    BY <1>5, <1>8, <1>9, <1>12, <1>13, Zenon DEF Whole, n

LEMMA SetToSeqIs ==
    ASSUME NEW S, IsFiniteSet(S)
    PROVE  /\ SetToSeq(S) \in [1 .. Cardinality(S) -> S] /\ Cardinality(S) \in Nat
           /\ \A x \in S : \E i \in 1 .. Cardinality(S) : SetToSeq(S)[i] = x
<1>1. Cardinality(S) \in Nat /\ ExistsBijection(1 .. Cardinality(S), S)
    BY FS_CardinalityType
<1>2. PICK g \in [1 .. Cardinality(S) -> S] : IsInjective(g)
    BY <1>1 DEF ExistsBijection, Bijection, Injection
<1>3. SetToSeq(S) \in [1 .. Cardinality(S) -> S] /\ IsInjective(SetToSeq(S))
    BY <1>2 DEF SetToSeq
<1>4. SetToSeq(S) \in Injection(1 .. Cardinality(S), S)
    BY <1>3 DEF Injection
<1>5. Cardinality(1 .. Cardinality(S)) = Cardinality(S)
    BY <1>1, FS_Interval
<1>6. SetToSeq(S) \in Surjection(1 .. Cardinality(S), S)
    BY <1>4, <1>5, FS_Injection
<1> QED
    BY <1>1, <1>3, <1>6 DEF Surjection

LEMMA EpochPricesIs ==
    ASSUME NEW h \in Height, NEW i \in DOMAIN Events[h], Events[h][i].kind = "epoch"
    PROVE  LET e == Events[h][i] IN
           /\ Whole(h, EpochPrices(e))
           /\ \A S : Has(EpochPrices(e), S) <=>
                 \E o \in e.ops : PriceSt(o, e.n) \in S \/ StatsSt(o) \in S
<1> DEFINE e == Events[h][i]
           c == SetToSeq(e.ops)
           N == Cardinality(e.ops)
           P(o) == <<PriceSt(o, e.n), StatsSt(o)>>
           R(o) == Read(P(o), <<>>)
<1>1. IsFiniteSet(e.ops) /\ e.ops \in SUBSET Operators
    BY StakingAssumption, FS_Subset, EventFields
<1>2. c \in [1 .. N -> e.ops] /\ N \in Nat /\ \A x \in e.ops : \E k \in 1 .. N : c[k] = x
    BY <1>1, SetToSeqIs
<1>3. Len(c) = N
    <2> HIDE DEF c, N
    <2> QED
        BY <1>2
<1> HIDE DEF c, N
<1>4. EpochPrices(e) = [k \in 1 .. N |-> R(c[k])]
    BY <1>3 DEF EpochPrices, c, PriceSt, StatsSt
<1>5. e.n \in Nat /\ \A o \in e.ops : InBlock(h, Pricing(o, e.n))
    BY EventFields, InBlockOf
<1>6. ASSUME NEW o \in e.ops
      PROVE  /\ R(o) \in Body(h) /\ R(o).do = "read"
             /\ \A S : Meets(R(o), S) <=> PriceSt(o, e.n) \in S \/ StatsSt(o) \in S
    <2>1. o \in Operators /\ AtEpoch(o, h)
        BY <1>1 DEF AtEpoch
    <2>2. PriceSt(o, e.n) \in PriceSteps(h)
        <3>1. PriceSt(o, e.n) \in [do : {"price"}, op : Operators, epoch : Nat]
            BY <1>5, <2>1 DEF PriceSt
        <3>2. PriceSt(o, e.n).op = o /\ PriceSt(o, e.n).epoch = e.n
            BY PriceFields
        <3> QED
            BY <1>5, <3>1, <3>2 DEF PriceSteps
    <2>3. StatsSt(o) \in StatsSteps(h)
        BY <2>1 DEF StatsSt, StatsSteps
    <2>4. PICK x, y \in Plain(h) : x = PriceSt(o, e.n) /\ y = StatsSt(o)
        BY <2>2, <2>3 DEF Plain
    <2>5. x.do = "price" /\ y.do = "stats"
        BY <2>4, PriceFields, StatsFields
    <2>6. <<x, y>> \in Seq(Plain(h)) /\ <<>> \in Seq(Plain(h)) /\ Closed(<<>>) /\ Closed(<<x, y>>)
        BY <2>5 DEF Closed
    <2>7. PICK ok \in Seq(Plain(h)), failed \in Seq(Plain(h)) : ok = <<x, y>> /\ failed = <<>>
        BY <2>6, Zenon
    <2>7a. Closed(ok) /\ Closed(failed)
        BY <2>6, <2>7, Zenon
    <2>8. Read(ok, failed) \in Body(h) /\ Read(ok, failed).do = "read" /\ Read(ok, failed).ok = ok
        BY <2>7a, ReadType
    <2>9. \A S : Meets(Read(ok, failed), S) <=> Has(ok, S)
        <3>1. PICK r : r = Read(ok, failed) /\ r.do = "read" /\ r.ok = ok
            BY <2>8
        <3>2. \A k \in DOMAIN r.ok : r.ok[k].do # "read"
            BY <3>1, PlainKinds
        <3>3. \A S : Has(r.ok, S) <=> Meets(r, S)
            BY <3>1, <3>2, HasOk
        <3> QED
            BY <3>1, <3>3
    <2>10. \A S : Has(ok, S) <=> x \in S \/ y \in S
        BY <2>5, <2>7, HasTwo
    <2> QED
        BY <2>4, <2>7, <2>8, <2>9, <2>10, Zenon
<1> HIDE DEF R
<1>7. PICK s : s = EpochPrices(e)
    OBVIOUS
<1>8. s \in [1 .. N -> Body(h)] /\ \A k \in 1 .. N : s[k] = R(c[k]) /\ c[k] \in e.ops
    BY <1>2, <1>4, <1>6, <1>7
<1>9. s \in Seq(Body(h)) /\ DOMAIN s = 1 .. N
    BY <1>2, <1>8
<1>10. Closed(s)
    BY <1>6, <1>8, <1>9 DEF Closed
<1>11. ASSUME NEW S PROVE Has(s, S) <=> \E o \in e.ops : PriceSt(o, e.n) \in S \/ StatsSt(o) \in S
    <2>1. ASSUME Has(s, S) PROVE \E o \in e.ops : PriceSt(o, e.n) \in S \/ StatsSt(o) \in S
        <3>1. PICK k \in 1 .. N : Meets(s[k], S)
            BY <1>9, <2>1 DEF Has
        <3> QED
            BY <1>6, <1>8, <3>1
    <2>2. ASSUME NEW o \in e.ops, PriceSt(o, e.n) \in S \/ StatsSt(o) \in S PROVE Has(s, S)
        <3>1. PICK k \in 1 .. N : c[k] = o
            BY <1>2
        <3>2. Meets(s[k], S)
            BY <1>6, <1>8, <2>2, <3>1
        <3> QED
            BY <1>9, <3>2 DEF Has
    <2> QED
        BY <2>1, <2>2
<1> QED
    BY <1>7, <1>9, <1>10, <1>11 DEF Whole

\* What the steps of the i-th event of block h hold.
Holds(h, i, S) ==
    LET e == Events[h][i] IN
    \/ /\ e.kind = "registered"
       /\ \/ OperatorSt(e.op) \in S
          \/ NominatorSt(e.op, e.addr, "active") \in S
          \/ CountSt(e.op) \in S
    \/ /\ e.kind \in StatusKinds \ {"registered"}
       /\ StatusSt(e.op, StatusOf(e.kind)) \in S
    \/ /\ e.kind = "nominated"
       /\ \/ NominatorSt(e.op, e.addr, "active") \in S
          \/ CountSt(e.op) \in S
          \/ DepositSt(e.op, e.addr, FeeOf(h, i)) \in S
    \/ e.kind = "withdrew" /\ FoundSt(e.op, e.addr) \in S
    \/ /\ e.kind = "nominatorUnlocked"
       /\ NominatorSt(e.op, e.addr, "withdrawn") \in S \/ CountSt(e.op) \in S
    \/ /\ e.kind = "stakedUnlocked"
       /\ NominatorSt(e.op, e.addr, NominatorAt(e.op, e.addr, h)) \in S \/ CountSt(e.op) \in S
    \/ /\ e.kind = "epoch"
       /\ \E o \in e.ops : PriceSt(o, e.n) \in S \/ StatsSt(o) \in S

\* The events that lead to no statement of their own.
Ignored == {"fee"} \union SilentKinds

LEMMA ForEventIs ==
    ASSUME NEW h \in Height, NEW i \in DOMAIN Events[h]
    PROVE  LET e == Events[h][i] IN
           /\ e.kind = "registered" => ForEvent(h, i) = Register(e)
           /\ e.kind \in StatusKinds \ {"registered"} => ForEvent(h, i) = SetStatus(e)
           /\ e.kind = "nominated" => ForEvent(h, i) = Nominate(h, i)
           /\ e.kind = "withdrew" => ForEvent(h, i) = Withdraw(e)
           /\ e.kind = "nominatorUnlocked" => ForEvent(h, i) = Nominator(e.op, e.addr, "withdrawn")
           /\ e.kind = "stakedUnlocked" => ForEvent(h, i) = Unlock(h, e)
           /\ e.kind = "epoch" => ForEvent(h, i) = EpochPrices(e)
           /\ e.kind \in Ignored => ForEvent(h, i) = <<>>
BY EventFields DEF ForEvent, StatusKinds, SilentKinds, Ignored

LEMMA KindIs ==
    ASSUME NEW h \in Height, NEW i \in DOMAIN Events[h]
    PROVE  LET k == Events[h][i].kind IN
           \/ k = "registered" \/ k \in StatusKinds \ {"registered"} \/ k = "nominated"
           \/ k = "withdrew" \/ k = "nominatorUnlocked" \/ k = "stakedUnlocked"
           \/ k = "epoch" \/ k \in Ignored
BY EventFields DEF StatusKinds, SilentKinds, TouchKinds, Ignored

LEMMA ForEventHas ==
    ASSUME NEW h \in Height, NEW i \in DOMAIN Events[h]
    PROVE  Whole(h, ForEvent(h, i)) /\ \A S : Has(ForEvent(h, i), S) <=> Holds(h, i, S)
<1> DEFINE e == Events[h][i]
<1>1. CASE e.kind = "registered"
    <2>1. ForEvent(h, i) = Register(e)
        BY <1>1, ForEventIs
    <2>2. \A S : Holds(h, i, S) <=> \/ OperatorSt(e.op) \in S
                                    \/ NominatorSt(e.op, e.addr, "active") \in S
                                    \/ CountSt(e.op) \in S
        BY <1>1 DEF Holds
    <2> QED
        BY <1>1, <2>1, <2>2, RegisterIs
<1>2. CASE e.kind \in StatusKinds \ {"registered"}
    <2>1. ForEvent(h, i) = SetStatus(e)
        BY <1>2, ForEventIs
    <2>2. \A S : Holds(h, i, S) <=> StatusSt(e.op, StatusOf(e.kind)) \in S
        BY <1>2 DEF Holds, StatusKinds
    <2> QED
        BY <1>2, <2>1, <2>2, SetStatusIs
<1>3. CASE e.kind = "nominated"
    <2>1. ForEvent(h, i) = Nominate(h, i)
        BY <1>3, ForEventIs
    <2>2. \A S : Holds(h, i, S) <=> \/ NominatorSt(e.op, e.addr, "active") \in S
                                    \/ CountSt(e.op) \in S
                                    \/ DepositSt(e.op, e.addr, FeeOf(h, i)) \in S
        BY <1>3 DEF Holds, StatusKinds
    <2> QED
        BY <1>3, <2>1, <2>2, NominateIs
<1>4. CASE e.kind = "withdrew"
    <2>1. ForEvent(h, i) = Withdraw(e)
        BY <1>4, ForEventIs
    <2>2. \A S : Holds(h, i, S) <=> FoundSt(e.op, e.addr) \in S
        BY <1>4 DEF Holds, StatusKinds
    <2> QED
        <3>1. Whole(h, Withdraw(e)) /\ \A S : Has(Withdraw(e), S) <=> FoundSt(e.op, e.addr) \in S
            BY <1>4, WithdrawIs
        <3> QED
            BY <2>1, <2>2, <3>1, Zenon
<1>5. CASE e.kind = "nominatorUnlocked"
    <2>1. ForEvent(h, i) = Nominator(e.op, e.addr, "withdrawn")
        BY <1>5, ForEventIs
    <2>2. \A S : Holds(h, i, S) <=> NominatorSt(e.op, e.addr, "withdrawn") \in S \/ CountSt(e.op) \in S
        BY <1>5 DEF Holds, StatusKinds
    <2> QED
        BY <1>5, <2>1, <2>2, RemoveIs
<1>6. CASE e.kind = "stakedUnlocked"
    <2>1. ForEvent(h, i) = Unlock(h, e)
        BY <1>6, ForEventIs
    <2>2. \A S : Holds(h, i, S) <=>
            NominatorSt(e.op, e.addr, NominatorAt(e.op, e.addr, h)) \in S \/ CountSt(e.op) \in S
        BY <1>6 DEF Holds, StatusKinds
    <2> QED
        BY <1>6, <2>1, <2>2, UnlockIs
<1>7. CASE e.kind = "epoch"
    <2>1. ForEvent(h, i) = EpochPrices(e)
        BY <1>7, ForEventIs
    <2>2. \A S : Holds(h, i, S) <=> \E o \in e.ops : PriceSt(o, e.n) \in S \/ StatsSt(o) \in S
        BY <1>7 DEF Holds, StatusKinds
    <2> QED
        BY <1>7, <2>1, <2>2, EpochPricesIs
<1>8. CASE e.kind \in Ignored
    <2>1. ForEvent(h, i) = <<>>
        BY <1>8, ForEventIs
    <2>2. \A S : ~Holds(h, i, S)
        BY <1>8 DEF Holds, StatusKinds, SilentKinds, Ignored
    <2> QED
        BY <2>1, <2>2 DEF Has, Whole, Closed
<1> QED
    BY <1>1, <1>2, <1>3, <1>4, <1>5, <1>6, <1>7, <1>8, KindIs

Sections(h, kind) ==
    [i \in DOMAIN Events[h] |-> IF Events[h][i].kind = kind THEN ForEvent(h, i) ELSE <<>>]

LEMMA SectionsType ==
    ASSUME NEW h \in Height, NEW kind
    PROVE  /\ Sections(h, kind) \in Seq(Seq(Body(h))) /\ DOMAIN Sections(h, kind) = DOMAIN Events[h]
           /\ \A i \in DOMAIN Events[h] :
                 Sections(h, kind)[i] = IF Events[h][i].kind = kind THEN ForEvent(h, i) ELSE <<>>
<1>1. PICK n \in Nat : DOMAIN Events[h] = 1 .. n
    <2>1. PICK s \in Seq(ChainEvent) : s = Events[h]
        BY EventsType
    <2>2. Len(s) \in Nat /\ DOMAIN s = 1 .. Len(s)
        OBVIOUS
    <2> QED
        BY <2>1, <2>2
<1>2. PICK T : T = Seq(Body(h))
    OBVIOUS
<1>3. \A i \in DOMAIN Events[h] : ForEvent(h, i) \in T
    BY <1>2, ForEventHas DEF Whole
<1>4. <<>> \in T
    BY <1>2
<1>5. Sections(h, kind) \in [1 .. n -> T]
    BY <1>1, <1>3, <1>4 DEF Sections
<1>6. Sections(h, kind) \in Seq(T)
    BY <1>5
<1> QED
    BY <1>2, <1>6 DEF Sections

LEMMA OfKindHas ==
    ASSUME NEW h \in Height, NEW kind
    PROVE  /\ Whole(h, OfKind(h, kind))
           /\ \A S : Has(OfKind(h, kind), S) <=>
                 \E i \in DOMAIN Events[h] : Events[h][i].kind = kind /\ Holds(h, i, S)
<1>1. PICK ss \in Seq(Seq(Body(h))) :
         /\ ss = Sections(h, kind) /\ DOMAIN ss = DOMAIN Events[h]
         /\ \A i \in DOMAIN Events[h] :
               ss[i] = IF Events[h][i].kind = kind THEN ForEvent(h, i) ELSE <<>>
    BY SectionsType
<1>2. OfKind(h, kind) = Flat(ss)
    BY <1>1 DEF OfKind, Sections
<1>3. Flat(ss) \in Seq(Body(h))
    BY FlatType
<1>4. \A i \in DOMAIN ss : Closed(ss[i])
    <2>1. Closed(<<>>)
        BY DEF Closed
    <2>2. \A i \in DOMAIN Events[h] : Closed(ForEvent(h, i))
        BY ForEventHas DEF Whole
    <2> QED
        BY <1>1, <2>1, <2>2
<1>5. Closed(Flat(ss))
    BY <1>4, ClosedFlat
<1>6. ASSUME NEW S, NEW i \in DOMAIN Events[h], Events[h][i].kind = kind, Holds(h, i, S)
      PROVE  Has(Flat(ss), S)
    <2>1. Has(ss[i], S)
        BY <1>1, <1>6, ForEventHas
    <2>2. i \in DOMAIN ss
        BY <1>1
    <2> QED
        BY <2>1, <2>2, HasFlat
<1>7. ASSUME NEW S, \A i \in DOMAIN Events[h] : ~(Events[h][i].kind = kind /\ Holds(h, i, S))
      PROVE  ~Has(Flat(ss), S)
    <2>1. ASSUME NEW i \in DOMAIN ss PROVE ~Has(ss[i], S)
        <3>1. CASE Events[h][i].kind = kind
            BY <1>1, <1>7, <3>1, ForEventHas
        <3>2. CASE Events[h][i].kind # kind
            BY <1>1, <3>2 DEF Has
        <3> QED
            BY <3>1, <3>2
    <2> QED
        BY <2>1, HasFlatOnly
<1> QED
    BY <1>2, <1>3, <1>5, <1>6, <1>7, Zenon DEF Whole

LEMMA OrderIs ==
    /\ DOMAIN Order = 1 .. 10
    /\ \A h \in Height : \A i \in DOMAIN Events[h] :
          Events[h][i].kind \in Ignored \/ \E k \in 1 .. 10 : Order[k] = Events[h][i].kind
    /\ Order[1] = "registered" /\ Order[2] = "deregistered" /\ Order[3] = "slashed"
    /\ Order[4] = "deactivated" /\ Order[5] = "reactivated" /\ Order[6] = "nominated"
    /\ Order[7] = "withdrew" /\ Order[8] = "nominatorUnlocked" /\ Order[9] = "stakedUnlocked"
    /\ Order[10] = "epoch"
<1>1. DOMAIN Order = 1 .. 10
    BY DEF Order
<1>2. /\ Order[1] = "registered" /\ Order[2] = "deregistered" /\ Order[3] = "slashed"
      /\ Order[4] = "deactivated" /\ Order[5] = "reactivated" /\ Order[6] = "nominated"
      /\ Order[7] = "withdrew" /\ Order[8] = "nominatorUnlocked" /\ Order[9] = "stakedUnlocked"
      /\ Order[10] = "epoch"
    BY DEF Order
<1>3. ASSUME NEW h \in Height, NEW i \in DOMAIN Events[h]
      PROVE  Events[h][i].kind \in Ignored \/ \E k \in 1 .. 10 : Order[k] = Events[h][i].kind
    <2>1. Events[h][i].kind \in Ignored \union
             {"registered", "deregistered", "slashed", "deactivated", "reactivated",
              "nominated", "withdrew", "nominatorUnlocked", "stakedUnlocked", "epoch"}
        BY EventFields DEF StatusKinds, TouchKinds, Ignored
    <2> QED
        BY <1>2, <2>1
<1> QED
    BY <1>1, <1>2, <1>3

Parts10(h) == [k \in DOMAIN Order |-> OfKind(h, Order[k])]
Delete1 == [do |-> "delete deposits"]
Delete2 == [do |-> "delete withdrawals"]
Rest(h) == Flat(Parts10(h))
Steps(h) == Body(h) \union Deletes

LEMMA PartsType ==
    ASSUME NEW h \in Height
    PROVE  /\ Parts10(h) \in Seq(Seq(Body(h))) /\ DOMAIN Parts10(h) = 1 .. 10
           /\ \A k \in 1 .. 10 : Parts10(h)[k] = OfKind(h, Order[k])
<1>1. PICK T : T = Seq(Body(h))
    OBVIOUS
<1>2. \A k \in 1 .. 10 : OfKind(h, Order[k]) \in T
    BY <1>1, OfKindHas DEF Whole
<1>3. Parts10(h) \in [1 .. 10 -> T]
    BY <1>2, OrderIs DEF Parts10
<1>4. Parts10(h) \in Seq(T)
    <2>1. PICK n \in Nat : n = 10
        OBVIOUS
    <2>2. Parts10(h) \in [1 .. n -> T]
        BY <1>3, <2>1
    <2> QED
        BY <2>2
<1> QED
    BY <1>1, <1>3, <1>4, OrderIs DEF Parts10

LEMMA RestHas ==
    ASSUME NEW h \in Height
    PROVE  /\ Whole(h, Rest(h))
           /\ \A S : Has(Rest(h), S) <=> \E i \in DOMAIN Events[h] : Holds(h, i, S)
<1>1. PICK ss \in Seq(Seq(Body(h))) :
         ss = Parts10(h) /\ DOMAIN ss = 1 .. 10 /\ \A k \in 1 .. 10 : ss[k] = OfKind(h, Order[k])
    BY PartsType
<1>2. Rest(h) = Flat(ss)
    BY <1>1 DEF Rest
<1>3. Flat(ss) \in Seq(Body(h))
    BY FlatType
<1>0. ASSUME NEW k \in DOMAIN ss
      PROVE  k \in 1 .. 10 /\ ss[k] = OfKind(h, Order[k])
    BY <1>1, Zenon
<1>4. ASSUME NEW k \in DOMAIN ss
      PROVE  Closed(ss[k])
    <2>1. Closed(OfKind(h, Order[k]))
        BY <1>0, OfKindHas, Zenon DEF Whole
    <2> QED
        BY <1>0, <2>1, Zenon
<1>5. Closed(Flat(ss))
    BY <1>4, ClosedFlat
<1>6. ASSUME NEW S, NEW i \in DOMAIN Events[h], Holds(h, i, S)
      PROVE  Has(Flat(ss), S)
    <2>1. Events[h][i].kind \notin Ignored
        BY <1>6 DEF Holds, StatusKinds, SilentKinds, Ignored
    <2>2. PICK k \in 1 .. 10 : Order[k] = Events[h][i].kind
        BY <2>1, OrderIs
    <2>3. Has(ss[k], S) /\ k \in DOMAIN ss
        BY <1>1, <1>6, <2>2, OfKindHas
    <2> QED
        BY <2>3, HasFlat
<1>7. ASSUME NEW S, \A i \in DOMAIN Events[h] : ~Holds(h, i, S)
      PROVE  ~Has(Flat(ss), S)
    <2>1. ASSUME NEW k \in DOMAIN ss PROVE ~Has(ss[k], S)
        <3>1. ~Has(OfKind(h, Order[k]), S)
            BY <1>0, <1>7, OfKindHas, Zenon
        <3> QED
            BY <1>0, <3>1, Zenon
    <2> QED
        BY <2>1, HasFlatOnly
<1> QED
    BY <1>2, <1>3, <1>5, <1>6, <1>7, Zenon DEF Whole

LEMMA DeletesAre ==
    /\ Delete1 \in Deletes /\ Delete2 \in Deletes
    /\ Delete1.do = "delete deposits" /\ Delete2.do = "delete withdrawals"
BY DEF Delete1, Delete2, Deletes

LEMMA ScriptIs ==
    ASSUME NEW h \in Height
    PROVE  /\ Script[h] \in Seq(Steps(h)) /\ Script[h] # <<>> /\ Head(Script[h]) = Delete1
           /\ Tail(Script[h]) \in Seq(Steps(h)) /\ Tail(Script[h]) # <<>>
           /\ Head(Tail(Script[h])) = Delete2
           /\ Tail(Tail(Script[h])) = Rest(h)
<1>1. Script[h] = <<Delete1, Delete2>> \o Rest(h)
    BY DEF Script, Delete1, Delete2, Rest, Parts10
<1>0. PICK X : X = Steps(h)
    OBVIOUS
<1>2. PICK d \in X, e \in X, r \in Seq(X) : d = Delete1 /\ e = Delete2 /\ r = Rest(h)
    <2>1. Rest(h) \in Seq(Body(h))
        BY RestHas DEF Whole
    <2>2. Rest(h) \in Seq(Steps(h))
        BY <2>1 DEF Steps
    <2>3. Delete1 \in Steps(h) /\ Delete2 \in Steps(h)
        BY DeletesAre DEF Steps
    <2> QED
        BY <1>0, <2>2, <2>3, Zenon
<1>3. PICK a \in Seq(X) : a = <<d, e>> /\ Len(a) = 2 /\ a[1] = d /\ a[2] = e
    <2>1. <<d, e>> \in Seq(X)
        OBVIOUS
    <2> QED
        BY <2>1
<1>3a. PICK s \in Seq(X) : Joins(s, a, r)
    BY JoinsExist
<1>3b. s = <<d, e>> \o r
    BY <1>3, <1>3a DEF Joins
<1>3c. /\ Len(s) = Len(r) + 2 /\ Len(r) \in Nat /\ s[1] = d /\ s[2] = e
       /\ \A i \in 1 .. Len(r) : s[2 + i] = r[i]
    <2>1. Len(a) = 2 /\ a[1] = d /\ a[2] = e
        BY <1>3
    <2>2. /\ Len(s) = Len(a) + Len(r) /\ \A i \in 1 .. Len(a) : s[i] = a[i]
          /\ \A i \in 1 .. Len(r) : s[Len(a) + i] = r[i]
        BY <1>3a DEF Joins
    <2>3. Len(r) \in Nat
        OBVIOUS
    <2> QED
        BY <2>1, <2>2, <2>3
<1>4. s # <<>> /\ Head(s) = d
    BY <1>3c
<1>5. PICK u \in Seq(X) : /\ u = Tail(s) /\ Len(u) = Len(r) + 1
                          /\ \A i \in 1 .. Len(u) : u[i] = s[i + 1]
    <2>1. Tail(s) \in Seq(X) /\ Len(Tail(s)) = Len(s) - 1 /\ \A i \in 1 .. Len(s) - 1 : Tail(s)[i] = s[i + 1]
        BY <1>4
    <2>2. Len(Tail(s)) = Len(r) + 1 /\ \A i \in 1 .. Len(Tail(s)) : Tail(s)[i] = s[i + 1]
        BY <1>3c, <2>1
    <2> QED
        BY <2>1, <2>2, Zenon
<1>6. u # <<>> /\ u[1] = e /\ Head(u) = e /\ \A i \in 1 .. Len(r) : u[i + 1] = r[i]
    <2>1. Len(u) = Len(r) + 1 /\ \A i \in 1 .. Len(u) : u[i] = s[i + 1]
        BY <1>5, Zenon
    <2>2. u # <<>> /\ Head(u) = u[1] /\ u[1] = s[1 + 1]
        BY <1>3c, <2>1
    <2>3. ASSUME NEW i \in 1 .. Len(r) PROVE u[i + 1] = r[i]
        <3>1. i + 1 \in 1 .. Len(u) /\ (i + 1) + 1 = 2 + i
            BY <1>3c, <2>1
        <3> QED
            BY <1>3c, <2>1, <3>1
    <2> QED
        BY <1>3c, <2>2, <2>3
<1>7. /\ Tail(u) \in Seq(X) /\ Len(Tail(u)) = Len(r)
      /\ \A i \in 1 .. Len(r) : Tail(u)[i] = r[i]
    <2>1. Tail(u) \in Seq(X) /\ Len(Tail(u)) = Len(u) - 1 /\ \A i \in 1 .. Len(u) - 1 : Tail(u)[i] = u[i + 1]
        BY <1>6
    <2>2. Len(u) - 1 = Len(r)
        BY <1>3c, <1>5
    <2> QED
        BY <1>6, <2>1, <2>2
<1>8. PICK t \in Seq(X) : t = Tail(u) /\ Len(t) = Len(r) /\ \A i \in 1 .. Len(r) : t[i] = r[i]
    BY <1>7, Zenon
<1>9. Len(t) = Len(r) /\ \A i \in 1 .. Len(r) : t[i] = r[i]
    BY <1>8, Zenon
<1>10. t = r
    BY <1>9, SeqEqual, Zenon
<1> QED
    BY <1>0, <1>1, <1>2, <1>3b, <1>4, <1>5, <1>6, <1>8, <1>10, Zenon

-----------------------------------------------------------------------------
(***************************************************************************)
(* The tables.                                                             *)
(***************************************************************************)
LEMMA ApplyIs ==
    ASSUME NEW d, NEW h, NEW st
    PROVE  /\ st.do = "delete deposits" => Apply(d, h, st) = delete_deposits_for_block(d, h)
           /\ st.do = "delete withdrawals" => Apply(d, h, st) = delete_withdrawals_for_block(d, h)
           /\ st.do = "operator" => Apply(d, h, st) = upsert_operator(d, st.op, h)
           /\ st.do = "status" => Apply(d, h, st) = update_operator_status(d, st.op, st.status)
           /\ st.do = "nominator" => Apply(d, h, st) = upsert_nominator(d, st.op, st.addr, st.status, h)
           /\ st.do = "count" => Apply(d, h, st) = count_nominators(d, st.op, counted[h])
           /\ st.do = "deposit" => Apply(d, h, st) = insert_deposit(d, st.op, st.addr, st.fee, h)
           /\ st.do = "withdrawal" =>
                 Apply(d, h, st) = insert_withdrawal(d, st.op, st.addr, st.known, h)
           /\ st.do = "price" => Apply(d, h, st) = upsert_epoch_share_price(d, st.op, st.epoch, h)
           /\ st.do = "stats" => Apply(d, h, st) = update_operator_stats(d, st.op, h)
BY DEF Apply

LEMMA PFIs ==
    ASSUME NEW D, NEW R, NEW f
    PROVE  f \in PF(D, R) <=> /\ f = [x \in DOMAIN f |-> f[x]] /\ DOMAIN f \subseteq D
                              /\ \A x \in DOMAIN f : f[x] \in R
<1>1. ASSUME f \in PF(D, R)
      PROVE  f = [x \in DOMAIN f |-> f[x]] /\ DOMAIN f \subseteq D /\ \A x \in DOMAIN f : f[x] \in R
    <2>1. PICK E \in SUBSET D : f \in [E -> R]
        BY <1>1 DEF PF
    <2> QED
        BY <2>1
<1>2. ASSUME f = [x \in DOMAIN f |-> f[x]], DOMAIN f \subseteq D, \A x \in DOMAIN f : f[x] \in R
      PROVE  f \in PF(D, R)
    <2>1. PICK E \in SUBSET D : E = DOMAIN f
        BY <1>2
    <2>2. f \in [E -> R]
        BY <1>2, <2>1
    <2> QED
        BY <2>2 DEF PF
<1> QED
    BY <1>1, <1>2

LEMMA PutType ==
    ASSUME NEW D, NEW R, NEW f \in PF(D, R), NEW x \in D, NEW y \in R
    PROVE  Put(f, x, y) \in PF(D, R)
<1>1. DOMAIN f \subseteq D /\ \A z \in DOMAIN f : f[z] \in R
    BY PFIs
<1>2. PICK g : g = Put(f, x, y)
    OBVIOUS
<1>3. /\ DOMAIN g = DOMAIN f \union {x} /\ g[x] = y
      /\ \A z \in DOMAIN f : z # x => g[z] = f[z]
      /\ g = [z \in DOMAIN g |-> g[z]]
    BY <1>2 DEF Put
<1>4. DOMAIN g \subseteq D /\ \A z \in DOMAIN g : g[z] \in R
    BY <1>1, <1>3
<1>5. g \in PF(D, R)
    BY <1>3, <1>4, PFIs
<1> QED
    BY <1>2, <1>5

\* The fields of the tables.
LEMMA TablesIs ==
    ASSUME NEW d \in Tables
    PROVE  /\ d.operators \in PF(Operators, OpRow)
           /\ d.nominators \in PF(Operators \X Addresses, NomRow)
           /\ d.prices \in PF(Operators \X Nat, Height)
           /\ d.deposits \in [Height -> Seq([op : Operators, addr : Addresses, fee : Nat])]
           /\ d.withdrawals \in [Height -> Seq([op : Operators, addr : Addresses, known : BOOLEAN])]
BY DEF Tables

LEMMA SetOperators ==
    ASSUME NEW d \in Tables, NEW t
    PROVE  /\ [d EXCEPT !.operators = t].operators = t
           /\ [d EXCEPT !.operators = t].nominators = d.nominators
           /\ [d EXCEPT !.operators = t].prices = d.prices
           /\ [d EXCEPT !.operators = t].deposits = d.deposits
           /\ [d EXCEPT !.operators = t].withdrawals = d.withdrawals
           /\ t \in PF(Operators, OpRow) => [d EXCEPT !.operators = t] \in Tables
BY DEF Tables

LEMMA SetNominators ==
    ASSUME NEW d \in Tables, NEW t
    PROVE  /\ [d EXCEPT !.nominators = t].nominators = t
           /\ [d EXCEPT !.nominators = t].operators = d.operators
           /\ [d EXCEPT !.nominators = t].prices = d.prices
           /\ [d EXCEPT !.nominators = t].deposits = d.deposits
           /\ [d EXCEPT !.nominators = t].withdrawals = d.withdrawals
           /\ t \in PF(Operators \X Addresses, NomRow) => [d EXCEPT !.nominators = t] \in Tables
BY DEF Tables

LEMMA SetPrices ==
    ASSUME NEW d \in Tables, NEW t
    PROVE  /\ [d EXCEPT !.prices = t].prices = t
           /\ [d EXCEPT !.prices = t].operators = d.operators
           /\ [d EXCEPT !.prices = t].nominators = d.nominators
           /\ [d EXCEPT !.prices = t].deposits = d.deposits
           /\ [d EXCEPT !.prices = t].withdrawals = d.withdrawals
           /\ t \in PF(Operators \X Nat, Height) => [d EXCEPT !.prices = t] \in Tables
BY DEF Tables

LEMMA SetDeposits ==
    ASSUME NEW d \in Tables, NEW t
    PROVE  /\ [d EXCEPT !.deposits = t].deposits = t
           /\ [d EXCEPT !.deposits = t].operators = d.operators
           /\ [d EXCEPT !.deposits = t].nominators = d.nominators
           /\ [d EXCEPT !.deposits = t].prices = d.prices
           /\ [d EXCEPT !.deposits = t].withdrawals = d.withdrawals
           /\ t \in [Height -> Seq([op : Operators, addr : Addresses, fee : Nat])]
                 => [d EXCEPT !.deposits = t] \in Tables
BY DEF Tables

LEMMA SetWithdrawals ==
    ASSUME NEW d \in Tables, NEW t
    PROVE  /\ [d EXCEPT !.withdrawals = t].withdrawals = t
           /\ [d EXCEPT !.withdrawals = t].operators = d.operators
           /\ [d EXCEPT !.withdrawals = t].nominators = d.nominators
           /\ [d EXCEPT !.withdrawals = t].prices = d.prices
           /\ [d EXCEPT !.withdrawals = t].deposits = d.deposits
           /\ t \in [Height -> Seq([op : Operators, addr : Addresses, known : BOOLEAN])]
                 => [d EXCEPT !.withdrawals = t] \in Tables
BY DEF Tables

LEMMA ActiveIs ==
    ASSUME NEW d \in Tables, NEW o \in Operators
    PROVE  Cardinality(Active(d, o)) \in 0 .. Cardinality(Addresses)
<1> DEFINE f == [k \in Active(d, o) |-> k[2]]
<1>1. d.nominators \in PF(Operators \X Addresses, NomRow)
    BY TablesIs
<1>2. DOMAIN d.nominators \subseteq Operators \X Addresses
    BY <1>1, PFIs
<1>3. \A k \in Active(d, o) : k \in Operators \X Addresses /\ k[1] = o
    BY <1>2 DEF Active
<1>4. \A k \in Active(d, o) : k[2] \in Addresses /\ k = <<o, k[2]>>
    BY <1>3
<1>5. f \in [Active(d, o) -> Addresses]
    BY <1>4
<1>6. \A j, k \in Active(d, o) : j[2] = k[2] => j = k
    BY <1>4
<1>7. f \in Injection(Active(d, o), Addresses)
    BY <1>5, <1>6 DEF Injection, IsInjective
<1>8. IsFiniteSet(Active(d, o)) /\ Cardinality(Active(d, o)) <= Cardinality(Addresses)
    BY <1>7, StakingAssumption, FS_Injection
<1> QED
    BY <1>8, StakingAssumption, FS_CardinalityType

\* The tables but one are as they were.
OnlyOperators(d, d2) ==
    /\ d2.nominators = d.nominators /\ d2.prices = d.prices
    /\ d2.deposits = d.deposits /\ d2.withdrawals = d.withdrawals
OnlyNominators(d, d2) ==
    /\ d2.operators = d.operators /\ d2.prices = d.prices
    /\ d2.deposits = d.deposits /\ d2.withdrawals = d.withdrawals

LEMMA RowIs ==
    ASSUME NEW d \in Tables, NEW o \in DOMAIN d.operators
    PROVE  o \in Operators /\ d.operators[o] \in OpRow
<1>1. d.operators \in PF(Operators, OpRow)
    BY TablesIs
<1> QED
    BY <1>1, PFIs

OperatorPut(d, d2, o, h) ==
    /\ d2 \in Tables /\ OnlyOperators(d, d2)
    /\ DOMAIN d2.operators = DOMAIN d.operators \union {o}
    /\ \A p \in DOMAIN d.operators : p # o => d2.operators[p] = d.operators[p]
    /\ d2.operators[o].status = OperatorAt(o, h)
    /\ o \in DOMAIN d.operators =>
          d2.operators[o].nominator_count = d.operators[o].nominator_count

LEMMA UpsertOperator ==
    ASSUME NEW d \in Tables, NEW h \in Height, NEW o \in Operators, OperatorAt(o, h) \in Status
    PROVE  OperatorPut(d, upsert_operator(d, o, h), o, h)
<1> DEFINE row == [status |-> OperatorAt(o, h), stake |-> h,
                   nominator_count |-> IF o \in DOMAIN d.operators
                                       THEN d.operators[o].nominator_count ELSE 0]
           t == Put(d.operators, o, row)
<1>1. upsert_operator(d, o, h) = [d EXCEPT !.operators = t]
    BY DEF upsert_operator
<1>2. row \in OpRow
    <2>1. o \in DOMAIN d.operators => d.operators[o].nominator_count \in 0 .. Cardinality(Addresses)
        BY RowIs DEF OpRow
    <2>2. 0 \in 0 .. Cardinality(Addresses)
        BY StakingAssumption, FS_CardinalityType
    <2> QED
        BY <2>1, <2>2 DEF OpRow
<1>3. /\ row.status = OperatorAt(o, h)
      /\ o \in DOMAIN d.operators => row.nominator_count = d.operators[o].nominator_count
    OBVIOUS
<1> HIDE DEF row
<1>4. t \in PF(Operators, OpRow)
    BY <1>2, TablesIs, PutType
<1>5. /\ DOMAIN t = DOMAIN d.operators \union {o} /\ t[o] = row
      /\ \A p \in DOMAIN d.operators : p # o => t[p] = d.operators[p]
    BY DEF Put
<1> HIDE DEF t
<1>6. PICK d2 : d2 = [d EXCEPT !.operators = t]
    OBVIOUS
<1>7. d2 \in Tables /\ OnlyOperators(d, d2) /\ d2.operators = t
    BY <1>4, <1>6, SetOperators DEF OnlyOperators
<1> QED
    BY <1>1, <1>3, <1>5, <1>6, <1>7 DEF OperatorPut

\* One row of the operators changes.
RowSet(d, d2, o, row) ==
    /\ d2 \in Tables /\ OnlyOperators(d, d2)
    /\ DOMAIN d2.operators = DOMAIN d.operators
    /\ d2.operators[o] = row
    /\ \A p \in DOMAIN d.operators : p # o => d2.operators[p] = d.operators[p]

LEMMA SetRow ==
    ASSUME NEW d \in Tables, NEW o \in DOMAIN d.operators, NEW row \in OpRow
    PROVE  RowSet(d, [d EXCEPT !.operators = [@ EXCEPT ![o] = row]], o, row)
<1>1. d.operators \in PF(Operators, OpRow)
    BY TablesIs
<1>2. PICK t : t = [d.operators EXCEPT ![o] = row]
    OBVIOUS
<1>3. /\ DOMAIN t = DOMAIN d.operators /\ t[o] = row /\ t = [x \in DOMAIN t |-> t[x]]
      /\ \A p \in DOMAIN d.operators : p # o => t[p] = d.operators[p]
    BY <1>2
<1>4. DOMAIN t \subseteq Operators /\ \A x \in DOMAIN t : t[x] \in OpRow
    BY <1>1, <1>3, PFIs
<1>5. t \in PF(Operators, OpRow)
    BY <1>3, <1>4, PFIs
<1>6. PICK d2 : d2 = [d EXCEPT !.operators = t]
    OBVIOUS
<1>7. d2 \in Tables /\ OnlyOperators(d, d2) /\ d2.operators = t
    BY <1>5, <1>6, SetOperators DEF OnlyOperators
<1> QED
    BY <1>2, <1>3, <1>6, <1>7 DEF RowSet

StatusSet(d, d2, o, s) ==
    /\ d2 \in Tables /\ OnlyOperators(d, d2)
    /\ DOMAIN d2.operators = DOMAIN d.operators
    /\ o \in DOMAIN d.operators => d2.operators[o].status = s
    /\ \A p \in DOMAIN d.operators :
          /\ p # o => d2.operators[p] = d.operators[p]
          /\ d2.operators[p].nominator_count = d.operators[p].nominator_count

LEMMA UpdateStatus ==
    ASSUME NEW d \in Tables, NEW o \in Operators, NEW s \in Status
    PROVE  StatusSet(d, update_operator_status(d, o, s), o, s)
<1>1. CASE o \notin DOMAIN d.operators
    BY <1>1 DEF update_operator_status, OnlyOperators, StatusSet
<1>2. CASE o \in DOMAIN d.operators
    <2>1. PICK row : row = [d.operators[o] EXCEPT !.status = s]
        OBVIOUS
    <2>2. d.operators[o] \in OpRow
        BY <1>2, RowIs
    <2>3. row \in OpRow /\ row.status = s /\ row.nominator_count = d.operators[o].nominator_count
        BY <2>1, <2>2 DEF OpRow
    <2>4. update_operator_status(d, o, s) = [d EXCEPT !.operators = [@ EXCEPT ![o] = row]]
        BY <1>2, <2>1 DEF update_operator_status
    <2>5. RowSet(d, update_operator_status(d, o, s), o, row)
        BY <1>2, <2>3, <2>4, SetRow
    <2> QED
        BY <1>2, <2>3, <2>5 DEF RowSet, StatusSet
<1> QED
    BY <1>1, <1>2 DEF StatusSet

LEMMA UpdateStats ==
    ASSUME NEW d \in Tables, NEW h \in Height, NEW o \in Operators, OperatorAt(o, h) \in Status
    PROVE  StatusSet(d, update_operator_stats(d, o, h), o, OperatorAt(o, h))
<1>1. CASE o \notin DOMAIN d.operators
    BY <1>1 DEF update_operator_stats, OnlyOperators, StatusSet
<1>2. CASE o \in DOMAIN d.operators
    <2>1. PICK row : row = [[d.operators[o] EXCEPT !.status = OperatorAt(o, h)] EXCEPT !.stake = h]
        OBVIOUS
    <2>2. d.operators[o] \in OpRow
        BY <1>2, RowIs
    <2>3. /\ row \in OpRow /\ row.status = OperatorAt(o, h)
          /\ row.nominator_count = d.operators[o].nominator_count
        BY <2>1, <2>2 DEF OpRow
    <2>4. update_operator_stats(d, o, h) = [d EXCEPT !.operators = [@ EXCEPT ![o] = row]]
        BY <1>2, <2>1 DEF update_operator_stats, Tables
    <2>5. RowSet(d, update_operator_stats(d, o, h), o, row)
        BY <1>2, <2>3, <2>4, SetRow
    <2> QED
        BY <1>2, <2>3, <2>5 DEF RowSet, StatusSet
<1> QED
    BY <1>1, <1>2 DEF StatusSet

CountSet(d, d2, o, n) ==
    /\ d2 \in Tables /\ OnlyOperators(d, d2)
    /\ DOMAIN d2.operators = DOMAIN d.operators
    /\ o \in DOMAIN d.operators =>
          /\ d2.operators[o].nominator_count = n
          /\ d2.operators[o].status = d.operators[o].status
    /\ \A p \in DOMAIN d.operators : p # o => d2.operators[p] = d.operators[p]

LEMMA CountNominators ==
    ASSUME NEW d \in Tables, NEW o \in Operators, NEW n,
           o \in DOMAIN d.operators => n \in 0 .. Cardinality(Addresses)
    PROVE  CountSet(d, count_nominators(d, o, n), o, n)
<1>1. CASE o \notin DOMAIN d.operators
    BY <1>1 DEF count_nominators, OnlyOperators, CountSet
<1>2. CASE o \in DOMAIN d.operators
    <2>1. PICK row : row = [d.operators[o] EXCEPT !.nominator_count = n]
        OBVIOUS
    <2>2. d.operators[o] \in OpRow /\ n \in 0 .. Cardinality(Addresses)
        BY <1>2, RowIs
    <2>3. row \in OpRow /\ row.status = d.operators[o].status /\ row.nominator_count = n
        BY <2>1, <2>2 DEF OpRow
    <2>4. count_nominators(d, o, n) = [d EXCEPT !.operators = [@ EXCEPT ![o] = row]]
        BY <1>2, <2>1 DEF count_nominators
    <2>5. RowSet(d, count_nominators(d, o, n), o, row)
        BY <1>2, <2>3, <2>4, SetRow
    <2> QED
        BY <1>2, <2>3, <2>5 DEF RowSet, CountSet
<1> QED
    BY <1>1, <1>2 DEF CountSet

NominatorPut(d, d2, o, a, s, h) ==
    /\ d2 \in Tables /\ OnlyNominators(d, d2)
    /\ DOMAIN d2.nominators = DOMAIN d.nominators \union {<<o, a>>}
    /\ \A k \in DOMAIN d.nominators : k # <<o, a>> => d2.nominators[k] = d.nominators[k]
    /\ \/ /\ <<o, a>> \in DOMAIN d.nominators /\ d.nominators[<<o, a>>].height > h
          /\ d2.nominators[<<o, a>>] = d.nominators[<<o, a>>]
       \/ /\ <<o, a>> \in DOMAIN d.nominators => ~(d.nominators[<<o, a>>].height > h)
          /\ d2.nominators[<<o, a>>].status = s /\ d2.nominators[<<o, a>>].height = h

LEMMA UpsertNominator ==
    ASSUME NEW d \in Tables, NEW h \in Height, NEW o \in Operators, NEW a \in Addresses,
           NEW s \in {"active", "withdrawn"}
    PROVE  NominatorPut(d, upsert_nominator(d, o, a, s, h), o, a, s, h)
<1>1. CASE <<o, a>> \in DOMAIN d.nominators /\ d.nominators[<<o, a>>].height > h
    BY <1>1 DEF upsert_nominator, OnlyNominators, NominatorPut
<1>2. CASE ~(<<o, a>> \in DOMAIN d.nominators /\ d.nominators[<<o, a>>].height > h)
    <2>0. [status |-> s, height |-> h] \in NomRow
        BY DEF NomRow
    <2>1. PICK row \in NomRow : row = [status |-> s, height |-> h] /\ row.status = s /\ row.height = h
        BY <2>0
    <2>2. PICK k \in Operators \X Addresses : k = <<o, a>>
        OBVIOUS
    <2>3. PICK t : t = Put(d.nominators, k, row)
        OBVIOUS
    <2>4. t \in PF(Operators \X Addresses, NomRow)
        BY <2>3, TablesIs, PutType
    <2>5. /\ DOMAIN t = DOMAIN d.nominators \union {k} /\ t[k] = row
          /\ \A p \in DOMAIN d.nominators : p # k => t[p] = d.nominators[p]
        BY <2>3 DEF Put
    <2>6. PICK d2 : d2 = [d EXCEPT !.nominators = t]
        OBVIOUS
    <2>7. d2 \in Tables /\ OnlyNominators(d, d2) /\ d2.nominators = t
        BY <2>4, <2>6, SetNominators DEF OnlyNominators
    <2>8. upsert_nominator(d, o, a, s, h) = d2
        BY <1>2, <2>1, <2>2, <2>3, <2>6 DEF upsert_nominator
    <2> QED
        BY <1>2, <2>1, <2>2, <2>5, <2>7, <2>8 DEF NominatorPut
<1> QED
    BY <1>1, <1>2 DEF NominatorPut

PricePut(d, d2, o, n, h) ==
    /\ d2 \in Tables
    /\ d2.operators = d.operators /\ d2.nominators = d.nominators
    /\ d2.deposits = d.deposits /\ d2.withdrawals = d.withdrawals
    /\ DOMAIN d2.prices = DOMAIN d.prices \union {<<o, n>>}
    /\ \A k \in DOMAIN d.prices : k # <<o, n>> => d2.prices[k] = d.prices[k]
    /\ d2.prices[<<o, n>>] = h

LEMMA UpsertPrice ==
    ASSUME NEW d \in Tables, NEW h \in Height, NEW o \in Operators, NEW n \in Nat
    PROVE  PricePut(d, upsert_epoch_share_price(d, o, n, h), o, n, h)
<1>2. PICK k \in Operators \X Nat : k = <<o, n>>
    OBVIOUS
<1>3. PICK t : t = Put(d.prices, k, h)
    OBVIOUS
<1>4. t \in PF(Operators \X Nat, Height)
    BY <1>3, TablesIs, PutType
<1>5. /\ DOMAIN t = DOMAIN d.prices \union {k} /\ t[k] = h
      /\ \A p \in DOMAIN d.prices : p # k => t[p] = d.prices[p]
    BY <1>3 DEF Put
<1>6. PICK d2 : d2 = [d EXCEPT !.prices = t]
    OBVIOUS
<1>7. /\ d2 \in Tables /\ d2.prices = t
      /\ d2.operators = d.operators /\ d2.nominators = d.nominators
      /\ d2.deposits = d.deposits /\ d2.withdrawals = d.withdrawals
    BY <1>4, <1>6, SetPrices
<1>8. upsert_epoch_share_price(d, o, n, h) = d2
    BY <1>2, <1>3, <1>6 DEF upsert_epoch_share_price
<1> QED
    BY <1>2, <1>5, <1>7, <1>8 DEF PricePut

OnlyDeposits(d, d2) ==
    /\ d2.operators = d.operators /\ d2.nominators = d.nominators
    /\ d2.prices = d.prices /\ d2.withdrawals = d.withdrawals
OnlyWithdrawals(d, d2) ==
    /\ d2.operators = d.operators /\ d2.nominators = d.nominators
    /\ d2.prices = d.prices /\ d2.deposits = d.deposits
Deposit == [op : Operators, addr : Addresses, fee : Nat]
Withdrawal == [op : Operators, addr : Addresses, known : BOOLEAN]

DepositsAre(d, d2, h, rows) ==
    /\ d2 \in Tables /\ OnlyDeposits(d, d2)
    /\ d2.deposits[h] = rows
    /\ \A g \in Height : g # h => d2.deposits[g] = d.deposits[g]

LEMMA PutDeposits ==
    ASSUME NEW d \in Tables, NEW h \in Height, NEW rows \in Seq(Deposit)
    PROVE  DepositsAre(d, [d EXCEPT !.deposits = [@ EXCEPT ![h] = rows]], h, rows)
<1>1. PICK T : T = Seq(Deposit)
    OBVIOUS
<1>2. d.deposits \in [Height -> T]
    BY <1>1, TablesIs DEF Deposit
<1>3. PICK t : t = [d.deposits EXCEPT ![h] = rows]
    OBVIOUS
<1>4. rows \in T
    BY <1>1
<1>5. t \in [Height -> T] /\ t[h] = rows /\ \A g \in Height : g # h => t[g] = d.deposits[g]
    BY <1>2, <1>3, <1>4
<1>6. PICK d2 : d2 = [d EXCEPT !.deposits = t]
    OBVIOUS
<1>7. d2 \in Tables /\ OnlyDeposits(d, d2) /\ d2.deposits = t
    BY <1>1, <1>5, <1>6, SetDeposits DEF OnlyDeposits, Deposit
<1> QED
    BY <1>3, <1>5, <1>6, <1>7 DEF DepositsAre

WithdrawalsAre(d, d2, h, rows) ==
    /\ d2 \in Tables /\ OnlyWithdrawals(d, d2)
    /\ d2.withdrawals[h] = rows
    /\ \A g \in Height : g # h => d2.withdrawals[g] = d.withdrawals[g]

LEMMA PutWithdrawals ==
    ASSUME NEW d \in Tables, NEW h \in Height, NEW rows \in Seq(Withdrawal)
    PROVE  WithdrawalsAre(d, [d EXCEPT !.withdrawals = [@ EXCEPT ![h] = rows]], h, rows)
<1>1. PICK T : T = Seq(Withdrawal)
    OBVIOUS
<1>2. d.withdrawals \in [Height -> T]
    BY <1>1, TablesIs DEF Withdrawal
<1>3. PICK t : t = [d.withdrawals EXCEPT ![h] = rows]
    OBVIOUS
<1>4. rows \in T
    BY <1>1
<1>5. t \in [Height -> T] /\ t[h] = rows /\ \A g \in Height : g # h => t[g] = d.withdrawals[g]
    BY <1>2, <1>3, <1>4
<1>6. PICK d2 : d2 = [d EXCEPT !.withdrawals = t]
    OBVIOUS
<1>7. d2 \in Tables /\ OnlyWithdrawals(d, d2) /\ d2.withdrawals = t
    BY <1>1, <1>5, <1>6, SetWithdrawals DEF OnlyWithdrawals, Withdrawal
<1> QED
    BY <1>3, <1>5, <1>6, <1>7 DEF WithdrawalsAre

LEMMA DeleteDeposits ==
    ASSUME NEW d \in Tables, NEW h \in Height
    PROVE  DepositsAre(d, delete_deposits_for_block(d, h), h, <<>>)
<1>0. <<>> \in Seq(Deposit)
    OBVIOUS
<1>1. PICK rows \in Seq(Deposit) : rows = <<>>
    BY <1>0, Zenon
<1>2. delete_deposits_for_block(d, h) = [d EXCEPT !.deposits = [@ EXCEPT ![h] = rows]]
    BY <1>1 DEF delete_deposits_for_block
<1> QED
    <2>1. DepositsAre(d, [d EXCEPT !.deposits = [@ EXCEPT ![h] = rows]], h, rows)
        BY PutDeposits
    <2> QED
        BY <1>1, <1>2, <2>1, Zenon DEF DepositsAre

LEMMA DeleteWithdrawals ==
    ASSUME NEW d \in Tables, NEW h \in Height
    PROVE  WithdrawalsAre(d, delete_withdrawals_for_block(d, h), h, <<>>)
<1>0. <<>> \in Seq(Withdrawal)
    OBVIOUS
<1>1. PICK rows \in Seq(Withdrawal) : rows = <<>>
    BY <1>0, Zenon
<1>2. delete_withdrawals_for_block(d, h) = [d EXCEPT !.withdrawals = [@ EXCEPT ![h] = rows]]
    BY <1>1 DEF delete_withdrawals_for_block
<1> QED
    <2>1. WithdrawalsAre(d, [d EXCEPT !.withdrawals = [@ EXCEPT ![h] = rows]], h, rows)
        BY PutWithdrawals
    <2> QED
        BY <1>1, <1>2, <2>1, Zenon DEF WithdrawalsAre

LEMMA InsertDeposit ==
    ASSUME NEW d \in Tables, NEW h \in Height, NEW st \in DepositSteps
    PROVE  DepositsAre(d, insert_deposit(d, st.op, st.addr, st.fee, h), h,
               Append(d.deposits[h], [op |-> st.op, addr |-> st.addr, fee |-> st.fee]))
<1>1. PICK row \in Deposit : row = [op |-> st.op, addr |-> st.addr, fee |-> st.fee]
    BY DEF Deposit, DepositSteps
<1>2. d.deposits[h] \in Seq(Deposit)
    <2>1. PICK T : T = Seq(Deposit)
        OBVIOUS
    <2>2. d.deposits \in [Height -> T]
        BY <2>1, TablesIs DEF Deposit
    <2> QED
        BY <2>1, <2>2
<1>3. Append(d.deposits[h], row) \in Seq(Deposit)
    BY <1>2
<1>4. PICK rows \in Seq(Deposit) : rows = Append(d.deposits[h], row)
    BY <1>3
<1>5. insert_deposit(d, st.op, st.addr, st.fee, h) = [d EXCEPT !.deposits = [@ EXCEPT ![h] = rows]]
    BY <1>1, <1>4 DEF insert_deposit
<1> QED
    <2>1. DepositsAre(d, [d EXCEPT !.deposits = [@ EXCEPT ![h] = rows]], h, rows)
        BY PutDeposits
    <2> QED
        BY <1>1, <1>4, <1>5, <2>1, Zenon DEF DepositsAre

LEMMA InsertWithdrawal ==
    ASSUME NEW d \in Tables, NEW h \in Height, NEW st \in WithdrawalSteps
    PROVE  WithdrawalsAre(d, insert_withdrawal(d, st.op, st.addr, st.known, h), h,
               Append(d.withdrawals[h], [op |-> st.op, addr |-> st.addr, known |-> st.known]))
<1>1. PICK row \in Withdrawal : row = [op |-> st.op, addr |-> st.addr, known |-> st.known]
    BY DEF Withdrawal, WithdrawalSteps
<1>2. d.withdrawals[h] \in Seq(Withdrawal)
    <2>1. PICK T : T = Seq(Withdrawal)
        OBVIOUS
    <2>2. d.withdrawals \in [Height -> T]
        BY <2>1, TablesIs DEF Withdrawal
    <2> QED
        BY <2>1, <2>2
<1>3. Append(d.withdrawals[h], row) \in Seq(Withdrawal)
    BY <1>2
<1>4. PICK rows \in Seq(Withdrawal) : rows = Append(d.withdrawals[h], row)
    BY <1>3
<1>5. insert_withdrawal(d, st.op, st.addr, st.known, h)
        = [d EXCEPT !.withdrawals = [@ EXCEPT ![h] = rows]]
    BY <1>1, <1>4 DEF insert_withdrawal
<1> QED
    <2>1. WithdrawalsAre(d, [d EXCEPT !.withdrawals = [@ EXCEPT ![h] = rows]], h, rows)
        BY PutWithdrawals
    <2> QED
        BY <1>1, <1>4, <1>5, <2>1, Zenon DEF WithdrawalsAre

-----------------------------------------------------------------------------
(***************************************************************************)
(* What is left of a script.                                               *)
(***************************************************************************)
LEMMA BodyIs ==
    ASSUME NEW h
    PROVE  /\ Plain(h) \subseteq Body(h) /\ Body(h) \subseteq Steps(h) /\ Deletes \subseteq Steps(h)
           /\ \A st \in Body(h) : st.do = "read" => st \in Reads(h)
           /\ \A st \in Body(h) : st.do # "read" => st \in Plain(h)
           /\ \A st \in Body(h) : st.do # "delete deposits" /\ st.do # "delete withdrawals"
           /\ \A st \in Deletes : st.do # "read"
<1>1. \A st \in Reads(h) : st.do = "read"
    BY DEF Reads
<1>2. \A st \in Plain(h) : st.do # "read" /\ st.do # "delete deposits" /\ st.do # "delete withdrawals"
    BY PlainKinds
<1>3. \A st \in Deletes : st.do # "read"
    BY DEF Deletes
<1> QED
    BY <1>1, <1>2, <1>3 DEF Body, Steps

LEMMA TodosIs ==
    ASSUME NEW h, NEW s
    PROVE  s \in Todos(h) <=> s \in Seq(Body(h)) /\ Closed(s)
BY DEF Todos

LEMMA FormType ==
    ASSUME NEW h \in Height, NEW s \in Forms(h)
    PROVE  s \in Seq(Steps(h))
<1>1. CASE s \in Todos(h)
    <2>1. s \in Seq(Body(h))
        BY <1>1, TodosIs
    <2> QED
        BY <2>1 DEF Steps
<1>2. CASE s \notin Todos(h)
    BY <1>2, ScriptIs DEF Forms
<1> QED
    BY <1>1, <1>2

LEMMA NotScript ==
    ASSUME NEW h \in Height
    PROVE  /\ Script[h] \notin Todos(h) /\ Tail(Script[h]) # Script[h]
           /\ \A s \in Todos(h) : s # Script[h]
<1>1. ASSUME Script[h] \in Seq(Body(h)) PROVE FALSE
    <2>1. PICK s \in Seq(Body(h)) : s = Script[h]
        BY <1>1
    <2>2. s # <<>> /\ Head(s) = Delete1
        BY <2>1, ScriptIs
    <2>3. Head(s) \in Body(h)
        BY <2>2
    <2> QED
        BY <2>2, <2>3, BodyIs, DeletesAre
<1>2. Tail(Script[h]) # Script[h]
    <2>1. Head(Script[h]) = Delete1 /\ Head(Tail(Script[h])) = Delete2
        BY ScriptIs
    <2>2. Delete1 # Delete2
        BY DeletesAre
    <2> QED
        BY <2>1, <2>2
<1> QED
    BY <1>1, <1>2, TodosIs

LEMMA FormTail ==
    ASSUME NEW h \in Height, NEW s \in Forms(h), s # <<>>
    PROVE  /\ Tail(s) \in Forms(h) /\ Tail(s) # Script[h]
           /\ Head(s) \in Steps(h)
           /\ Head(s).do # "read" => Head(s) \in Plain(h) \union Deletes
           /\ Head(s).do = "read" => s \in Todos(h) /\ Head(s) \in Reads(h)
<1>1. CASE s = Script[h]
    <2>1. Head(s) = Delete1 /\ Tail(s) = Tail(Script[h])
        BY <1>1, ScriptIs
    <2> QED
        BY <1>1, <2>1, NotScript, DeletesAre, BodyIs DEF Forms
<1>2. CASE s = Tail(Script[h])
    <2>1. Head(s) = Delete2 /\ Tail(s) = Rest(h)
        BY <1>2, ScriptIs
    <2>2. Rest(h) \in Todos(h)
        BY RestHas, TodosIs DEF Whole
    <2> QED
        BY <2>1, <2>2, NotScript, DeletesAre, BodyIs DEF Forms
<1>3. CASE s \in Todos(h)
    <2>1. s \in Seq(Body(h)) /\ Closed(s)
        BY <1>3, TodosIs
    <2>2. Closed(Tail(s))
        BY <2>1, ClosedTail
    <2>3. Head(s) \in Body(h) /\ Tail(s) \in Seq(Body(h))
        BY <2>1
    <2>4. Tail(s) \in Todos(h)
        BY <2>2, <2>3, TodosIs
    <2> QED
        BY <1>3, <2>3, <2>4, NotScript, BodyIs DEF Forms
<1> QED
    BY <1>1, <1>2, <1>3 DEF Forms

LEMMA FormRead ==
    ASSUME NEW h \in Height, NEW s \in Forms(h), s # <<>>, Head(s).do = "read",
           NEW t, t = Head(s).ok \/ t = Head(s).failed
    PROVE  /\ s \in Seq(Body(h)) /\ t \in Seq(Plain(h)) /\ t \in Seq(Body(h))
           /\ t \o Tail(s) \in Todos(h)
<1>1. s \in Todos(h) /\ Head(s) \in Reads(h)
    BY FormTail
<1>2. s \in Seq(Body(h)) /\ Closed(s)
    BY <1>1, TodosIs
<1>3. Closed(Tail(s))
    BY <1>2, ClosedTail
<1>4. t \in Seq(Plain(h)) /\ Closed(t)
    BY <1>1 DEF Reads
<1>5. t \in Seq(Body(h))
    BY <1>4 DEF Body
<1>6. PICK r \in Seq(Body(h)) : r = Tail(s)
    <2>1. Tail(s) \in Seq(Body(h))
        BY <1>2
    <2> QED
        BY <2>1
<1>7. t \o r \in Seq(Body(h))
    BY <1>5, ConcatType
<1>8. Closed(t \o r)
    BY <1>3, <1>4, <1>5, <1>6, ClosedConcat
<1>9. t \o r \in Todos(h)
    BY <1>7, <1>8, TodosIs
<1> QED
    BY <1>2, <1>4, <1>5, <1>6, <1>9

\* A read that succeeds holds what it did, as statements.
LEMMA OkHas ==
    ASSUME NEW h \in Height, NEW s \in Forms(h), s # <<>>, Head(s).do = "read", NEW S
    PROVE  Has(Head(s).ok, S) <=> Meets(Head(s), S)
<1>1. Head(s) \in Reads(h)
    BY FormTail
<1>2. \A i \in DOMAIN Head(s).ok : Head(s).ok[i] \in Plain(h)
    BY <1>1 DEF Reads
<1>3. \A i \in DOMAIN Head(s).ok : Head(s).ok[i].do # "read"
    BY <1>2, PlainKinds
<1>4. PICK st : st = Head(s)
    OBVIOUS
<1>5. Has(st.ok, S) <=> Meets(st, S)
    BY <1>3, <1>4, HasOk
<1> QED
    BY <1>4, <1>5

LEMMA ReadHas ==
    ASSUME NEW h \in Height, NEW s \in Forms(h), s # <<>>, Head(s).do = "read", NEW S
    PROVE  Has(Head(s).ok \o Tail(s), S) <=> Has(s, S)
<1>1. PICK ok \in Seq(Body(h)) : ok = Head(s).ok /\ s \in Seq(Body(h))
    BY FormRead
<1>2. Has(ok, S) <=> Meets(Head(s), S)
    BY <1>1, OkHas
<1>3. Has(ok \o Tail(s), S) <=> Has(s, S)
    BY <1>1, <1>2, HasRead
<1> QED
    BY <1>1, <1>3

LEMMA ReadEnds ==
    ASSUME NEW h \in Height, NEW s \in Forms(h), s # <<>>, Head(s).do = "read",
           NEW G, NEW B, Ends(s, G, B)
    PROVE  Ends(Head(s).ok \o Tail(s), G, B)
<1>1. PICK ok \in Seq(Body(h)) : ok = Head(s).ok /\ s \in Seq(Body(h))
    BY FormRead
<1>2. (Has(ok, G) <=> Meets(Head(s), G)) /\ (Has(ok, B) <=> Meets(Head(s), B))
    BY <1>1, OkHas
<1>3. Ends(ok \o Tail(s), G, B)
    BY <1>1, <1>2, EndsRead
<1> QED
    BY <1>1, <1>3

LEMMA ReadAfter ==
    ASSUME NEW h \in Height, NEW s \in Forms(h), s # <<>>, Head(s).do = "read",
           NEW A, NEW F, After(s, A, F)
    PROVE  After(Head(s).ok \o Tail(s), A, F)
<1>1. PICK ok \in Seq(Body(h)) : ok = Head(s).ok /\ s \in Seq(Body(h))
    BY FormRead
<1>2. (Has(ok, A) <=> Meets(Head(s), A)) /\ (Has(ok, F) <=> Meets(Head(s), F))
    BY <1>1, OkHas
<1>3. After(ok \o Tail(s), A, F)
    BY <1>1, <1>2, AfterRead
<1> QED
    BY <1>1, <1>3

LEMMA PlainOf ==
    ASSUME NEW h, NEW st \in Plain(h)
    PROVE  /\ st.do = "operator" => st \in OperatorSteps(h)
           /\ st.do = "status" => st \in StatusSteps(h)
           /\ st.do = "nominator" => st \in NominatorSteps(h)
           /\ st.do = "count" => st \in CountSteps(h)
           /\ st.do = "deposit" => st \in DepositSteps
           /\ st.do = "withdrawal" => st \in WithdrawalSteps
           /\ st.do = "price" => st \in PriceSteps(h)
           /\ st.do = "stats" => st \in StatsSteps(h)
<1>1. \A s \in OperatorSteps(h) : s.do = "operator"
    BY DEF OperatorSteps
<1>2. \A s \in StatusSteps(h) : s.do = "status"
    BY DEF StatusSteps
<1>3. \A s \in NominatorSteps(h) : s.do = "nominator"
    BY DEF NominatorSteps
<1>4. \A s \in CountSteps(h) : s.do = "count"
    BY DEF CountSteps
<1>5. \A s \in DepositSteps : s.do = "deposit"
    BY DEF DepositSteps
<1>6. \A s \in WithdrawalSteps : s.do = "withdrawal"
    BY DEF WithdrawalSteps
<1>7. \A s \in PriceSteps(h) : s.do = "price"
    BY DEF PriceSteps
<1>8. \A s \in StatsSteps(h) : s.do = "stats"
    BY DEF StatsSteps
<1> QED
    BY <1>1, <1>2, <1>3, <1>4, <1>5, <1>6, <1>7, <1>8 DEF Plain

\* What a statement of block h may name.
LEMMA OperatorStep ==
    ASSUME NEW h \in Height, NEW st \in OperatorSteps(h)
    PROVE  /\ st.do = "operator" /\ st.op \in Operators /\ InBlock(h, Registering(st.op))
           /\ OperatorAt(st.op, h) \in Status /\ WritesStatus(st.op, h)
<1>1. st.do = "operator" /\ st.op \in Operators /\ InBlock(h, Registering(st.op))
    BY DEF OperatorSteps
<1>2. PICK i \in DOMAIN Events[h] : Events[h][i].op = st.op /\ Events[h][i].kind \in StatusKinds
    BY <1>1 DEF InBlock, Registering, StatusKinds
<1>3. h \in 0 .. Top /\ h \in 1 .. h
    BY EventsType DEF Height
<1>4. <<h, i>> \in Changes(st.op, h)
    BY <1>2, <1>3, ChangesIs
<1>5. OperatorAt(st.op, h) # "none" /\ OperatorAt(st.op, h) \in Status \union {"none"}
    BY <1>3, <1>4, OperatorAtIs
<1> QED
    BY <1>1, <1>2, <1>5 DEF WritesStatus

LEMMA StatusStep ==
    ASSUME NEW h \in Height, NEW st \in StatusSteps(h)
    PROVE  /\ st.do = "status" /\ st.op \in Operators /\ st.status \in Status
           /\ WritesStatus(st.op, h)
BY DEF StatusSteps

LEMMA NominatorStep ==
    ASSUME NEW h \in Height, NEW st \in NominatorSteps(h)
    PROVE  /\ st.do = "nominator" /\ st.op \in Operators /\ st.addr \in Addresses
           /\ st.status \in {"active", "withdrawn"} /\ InBlock(h, Touching(st.op, st.addr))
BY DEF NominatorSteps

LEMMA CountStep ==
    ASSUME NEW h \in Height, NEW st \in CountSteps(h)
    PROVE  st.do = "count" /\ st.op \in Operators /\ InBlock(h, About(st.op))
BY DEF CountSteps

LEMMA PriceStep ==
    ASSUME NEW h \in Height, NEW st \in PriceSteps(h)
    PROVE  /\ st.do = "price" /\ st.op \in Operators /\ st.epoch \in Nat
           /\ InBlock(h, Pricing(st.op, st.epoch)) /\ InBlock(h, OfEpoch(st.epoch))
<1>1. st.do = "price" /\ st.op \in Operators /\ st.epoch \in Nat /\ InBlock(h, Pricing(st.op, st.epoch))
    BY DEF PriceSteps
<1> QED
    BY <1>1 DEF InBlock, Pricing, OfEpoch

LEMMA StatsStep ==
    ASSUME NEW h \in Height, NEW st \in StatsSteps(h)
    PROVE  /\ st.do = "stats" /\ st.op \in Operators /\ WritesStatus(st.op, h)
           /\ OperatorAt(st.op, h) \in Status
<1>1. st.do = "stats" /\ st.op \in Operators /\ AtEpoch(st.op, h)
    BY DEF StatsSteps
<1>2. Changes(st.op, h) # {}
    BY <1>1, ChainAssumption DEF AtEpoch
<1>3. h \in 0 .. Top
    BY EventsType DEF Height
<1>4. OperatorAt(st.op, h) # "none" /\ OperatorAt(st.op, h) \in Status \union {"none"}
    BY <1>1, <1>2, <1>3, OperatorAtIs
<1> QED
    BY <1>1, <1>4 DEF WritesStatus

(***************************************************************************)
(* What each statement makes of the tables.                                *)
(***************************************************************************)
Wrote(d, d2, h, st) ==
    /\ st.do = "delete deposits" => DepositsAre(d, d2, h, <<>>)
    /\ st.do = "delete withdrawals" => WithdrawalsAre(d, d2, h, <<>>)
    /\ st.do = "operator" => OperatorPut(d, d2, st.op, h)
    /\ st.do = "status" => StatusSet(d, d2, st.op, st.status)
    /\ st.do = "stats" => StatusSet(d, d2, st.op, OperatorAt(st.op, h))
    /\ st.do = "nominator" => NominatorPut(d, d2, st.op, st.addr, st.status, h)
    /\ st.do = "count" => CountSet(d, d2, st.op, counted[h])
    /\ st.do = "deposit" =>
          DepositsAre(d, d2, h, Append(d.deposits[h], [op |-> st.op, addr |-> st.addr, fee |-> st.fee]))
    /\ st.do = "withdrawal" =>
          WithdrawalsAre(d, d2, h,
              Append(d.withdrawals[h], [op |-> st.op, addr |-> st.addr, known |-> st.known]))
    /\ st.do = "price" => PricePut(d, d2, st.op, st.epoch, h)

\* A count of an operator that has a row writes the number it found.
Ready(d, h, st) ==
    st.do = "count" /\ st.op \in DOMAIN d.operators => counted[h] \in 0 .. Cardinality(Addresses)

LEMMA ApplyWrote ==
    ASSUME NEW d \in Tables, NEW h \in Height, NEW st \in Plain(h) \union Deletes, Ready(d, h, st)
    PROVE  Wrote(d, Apply(d, h, st), h, st)
<1>0. st \in Plain(h) \/ st.do \in {"delete deposits", "delete withdrawals"}
    BY DEF Deletes
<1>1. ASSUME st.do = "delete deposits" PROVE DepositsAre(d, Apply(d, h, st), h, <<>>)
    <2>1. Apply(d, h, st) = delete_deposits_for_block(d, h)
        BY <1>1, ApplyIs
    <2> QED
        BY <2>1, DeleteDeposits
<1>2. ASSUME st.do = "delete withdrawals" PROVE WithdrawalsAre(d, Apply(d, h, st), h, <<>>)
    <2>1. Apply(d, h, st) = delete_withdrawals_for_block(d, h)
        BY <1>2, ApplyIs
    <2> QED
        BY <2>1, DeleteWithdrawals
<1>3. ASSUME st.do = "operator" PROVE OperatorPut(d, Apply(d, h, st), st.op, h)
    <2>1. Apply(d, h, st) = upsert_operator(d, st.op, h)
        BY <1>3, ApplyIs
    <2>2. st.op \in Operators /\ OperatorAt(st.op, h) \in Status
        BY <1>0, <1>3, PlainOf, OperatorStep
    <2> QED
        BY <2>1, <2>2, UpsertOperator
<1>4. ASSUME st.do = "status" PROVE StatusSet(d, Apply(d, h, st), st.op, st.status)
    <2>1. Apply(d, h, st) = update_operator_status(d, st.op, st.status)
        BY <1>4, ApplyIs
    <2>2. st.op \in Operators /\ st.status \in Status
        BY <1>0, <1>4, PlainOf, StatusStep
    <2> QED
        BY <2>1, <2>2, UpdateStatus
<1>5. ASSUME st.do = "stats" PROVE StatusSet(d, Apply(d, h, st), st.op, OperatorAt(st.op, h))
    <2>1. Apply(d, h, st) = update_operator_stats(d, st.op, h)
        BY <1>5, ApplyIs
    <2>2. st.op \in Operators /\ OperatorAt(st.op, h) \in Status
        BY <1>0, <1>5, PlainOf, StatsStep
    <2> QED
        BY <2>1, <2>2, UpdateStats
<1>6. ASSUME st.do = "nominator"
      PROVE  NominatorPut(d, Apply(d, h, st), st.op, st.addr, st.status, h)
    <2>1. Apply(d, h, st) = upsert_nominator(d, st.op, st.addr, st.status, h)
        BY <1>6, ApplyIs
    <2>2. st.op \in Operators /\ st.addr \in Addresses /\ st.status \in {"active", "withdrawn"}
        BY <1>0, <1>6, PlainOf, NominatorStep
    <2>3. NominatorPut(d, upsert_nominator(d, st.op, st.addr, st.status, h),
                       st.op, st.addr, st.status, h)
        BY <2>2, UpsertNominator
    <2> QED
        BY <2>1, <2>3
<1>7. ASSUME st.do = "count" PROVE CountSet(d, Apply(d, h, st), st.op, counted[h])
    <2>1. Apply(d, h, st) = count_nominators(d, st.op, counted[h])
        BY <1>7 DEF Apply
    <2>2. st.op \in Operators
        BY <1>0, <1>7, PlainOf, CountStep
    <2>3. st.op \in DOMAIN d.operators => counted[h] \in 0 .. Cardinality(Addresses)
        BY <1>7 DEF Ready
    <2> QED
        BY <2>1, <2>2, <2>3, CountNominators
<1>8. ASSUME st.do = "deposit"
      PROVE  DepositsAre(d, Apply(d, h, st), h,
                 Append(d.deposits[h], [op |-> st.op, addr |-> st.addr, fee |-> st.fee]))
    <2>1. Apply(d, h, st) = insert_deposit(d, st.op, st.addr, st.fee, h)
        BY <1>8, ApplyIs
    <2>2. st \in DepositSteps
        BY <1>0, <1>8, PlainOf
    <2> QED
        BY <2>1, <2>2, InsertDeposit
<1>9. ASSUME st.do = "withdrawal"
      PROVE  WithdrawalsAre(d, Apply(d, h, st), h,
                 Append(d.withdrawals[h], [op |-> st.op, addr |-> st.addr, known |-> st.known]))
    <2>1. Apply(d, h, st) = insert_withdrawal(d, st.op, st.addr, st.known, h)
        BY <1>9, ApplyIs
    <2>2. st \in WithdrawalSteps
        BY <1>0, <1>9, PlainOf
    <2> QED
        BY <2>1, <2>2, InsertWithdrawal
<1>10. ASSUME st.do = "price" PROVE PricePut(d, Apply(d, h, st), st.op, st.epoch, h)
    <2>1. Apply(d, h, st) = upsert_epoch_share_price(d, st.op, st.epoch, h)
        BY <1>10, ApplyIs
    <2>2. st.op \in Operators /\ st.epoch \in Nat
        BY <1>0, <1>10, PlainOf, PriceStep
    <2> QED
        BY <2>1, <2>2, UpsertPrice
<1> QED
    BY <1>1, <1>2, <1>3, <1>4, <1>5, <1>6, <1>7, <1>8, <1>9, <1>10 DEF Wrote

LEMMA WroteType ==
    ASSUME NEW d \in Tables, NEW d2, NEW h \in Height, NEW st \in Plain(h) \union Deletes,
           Wrote(d, d2, h, st)
    PROVE  d2 \in Tables
<1>1. st.do \in {"delete deposits", "delete withdrawals", "operator", "status", "nominator",
                 "count", "deposit", "withdrawal", "price", "stats"}
    BY PlainKinds DEF Deletes
<1> QED
    BY <1>1 DEF Wrote, DepositsAre, WithdrawalsAre, OperatorPut, StatusSet, NominatorPut, CountSet,
                PricePut

\* Rows stay; a statement leaves the row it is about.
LEMMA WroteKeeps ==
    ASSUME NEW d \in Tables, NEW d2, NEW h \in Height, NEW st \in Plain(h) \union Deletes,
           Wrote(d, d2, h, st)
    PROVE  /\ DOMAIN d.operators \subseteq DOMAIN d2.operators
           /\ DOMAIN d.nominators \subseteq DOMAIN d2.nominators
           /\ DOMAIN d.prices \subseteq DOMAIN d2.prices
           /\ st.do = "operator" => st.op \in DOMAIN d2.operators
           /\ st.do = "nominator" => <<st.op, st.addr>> \in DOMAIN d2.nominators
           /\ st.do = "price" => <<st.op, st.epoch>> \in DOMAIN d2.prices
<1>1. st.do \in {"delete deposits", "delete withdrawals", "operator", "status", "nominator",
                 "count", "deposit", "withdrawal", "price", "stats"}
    BY PlainKinds DEF Deletes
<1>2. CASE st.do \in {"delete deposits", "delete withdrawals", "deposit", "withdrawal"}
    BY <1>2 DEF Wrote, DepositsAre, WithdrawalsAre, OnlyDeposits, OnlyWithdrawals
<1>3. CASE st.do \in {"operator", "status", "stats", "count"}
    BY <1>3 DEF Wrote, OperatorPut, StatusSet, CountSet, OnlyOperators
<1>4. CASE st.do = "nominator"
    BY <1>4 DEF Wrote, NominatorPut, OnlyNominators
<1>5. CASE st.do = "price"
    BY <1>5 DEF Wrote, PricePut
<1> QED
    BY <1>1, <1>2, <1>3, <1>4, <1>5

\* A table is written by its own statements only.
LEMMA WroteOther ==
    ASSUME NEW d \in Tables, NEW d2, NEW h \in Height, NEW st \in Plain(h) \union Deletes,
           Wrote(d, d2, h, st)
    PROVE  /\ st.do # "nominator" => d2.nominators = d.nominators
           /\ st.do \notin {"operator", "status", "stats", "count"} => d2.operators = d.operators
           /\ st.do # "price" => d2.prices = d.prices
           /\ st.do \notin {"deposit", "delete deposits"} => d2.deposits = d.deposits
           /\ st.do \notin {"withdrawal", "delete withdrawals"} => d2.withdrawals = d.withdrawals
<1>1. st.do \in {"delete deposits", "delete withdrawals", "operator", "status", "nominator",
                 "count", "deposit", "withdrawal", "price", "stats"}
    BY PlainKinds DEF Deletes
<1>2. CASE st.do \in {"delete deposits", "delete withdrawals", "deposit", "withdrawal"}
    BY <1>2 DEF Wrote, DepositsAre, WithdrawalsAre, OnlyDeposits, OnlyWithdrawals
<1>3. CASE st.do \in {"operator", "status", "stats", "count"}
    BY <1>3 DEF Wrote, OperatorPut, StatusSet, CountSet, OnlyOperators
<1>4. CASE st.do = "nominator"
    BY <1>4 DEF Wrote, NominatorPut, OnlyNominators
<1>5. CASE st.do = "price"
    BY <1>5 DEF Wrote, PricePut
<1> QED
    BY <1>1, <1>2, <1>3, <1>4, <1>5

\* What becomes of an operator's row.
LEMMA WroteOperators ==
    ASSUME NEW d \in Tables, NEW d2, NEW h \in Height, NEW st \in Plain(h) \union Deletes,
           Wrote(d, d2, h, st), NEW o \in Operators
    PROVE  /\ o \in DOMAIN d2.operators =>
                 o \in DOMAIN d.operators \/ (st.do = "operator" /\ st.op = o)
           /\ o \in DOMAIN d.operators /\ ~(st.do = "count" /\ st.op = o) =>
                 d2.operators[o].nominator_count = d.operators[o].nominator_count
           /\ o \in DOMAIN d.operators /\ ~(st.do \in {"operator", "status", "stats"} /\ st.op = o) =>
                 d2.operators[o].status = d.operators[o].status
           /\ o \in DOMAIN d.operators /\ st.do = "status" /\ st.op = o =>
                 d2.operators[o].status = st.status
           /\ o \in DOMAIN d.operators /\ st.do = "stats" /\ st.op = o =>
                 d2.operators[o].status = OperatorAt(o, h)
           /\ st.do = "operator" /\ st.op = o => d2.operators[o].status = OperatorAt(o, h)
           /\ o \in DOMAIN d.operators /\ st.do = "count" /\ st.op = o =>
                 d2.operators[o].nominator_count = counted[h]
<1>1. CASE st.do \notin {"operator", "status", "stats", "count"}
    <2>1. d2.operators = d.operators
        BY <1>1, WroteOther
    <2> QED
        BY <1>1, <2>1
<1>2. CASE st.do = "operator"
    BY <1>2 DEF Wrote, OperatorPut
<1>3. CASE st.do = "status"
    BY <1>3 DEF Wrote, StatusSet
<1>4. CASE st.do = "stats"
    BY <1>4 DEF Wrote, StatusSet
<1>5. CASE st.do = "count"
    BY <1>5 DEF Wrote, CountSet
<1> QED
    BY <1>1, <1>2, <1>3, <1>4, <1>5

\* The active nominators of o change with a row of o only.
LEMMA WroteActive ==
    ASSUME NEW d \in Tables, NEW d2, NEW h \in Height, NEW st \in Plain(h) \union Deletes,
           Wrote(d, d2, h, st), NEW o \in Operators, ~(st.do = "nominator" /\ st.op = o)
    PROVE  Active(d2, o) = Active(d, o)
<1>1. CASE st.do # "nominator"
    BY <1>1, WroteOther DEF Active
<1>2. CASE st.do = "nominator" /\ st.op # o
    <2>1. NominatorPut(d, d2, st.op, st.addr, st.status, h)
        BY <1>2 DEF Wrote
    <2>2. PICK k : k = <<st.op, st.addr>>
        OBVIOUS
    <2>4. k[1] # o
        BY <1>2, <2>2
    <2>3. /\ DOMAIN d2.nominators = DOMAIN d.nominators \union {k}
          /\ \A j \in DOMAIN d.nominators : j # k => d2.nominators[j] = d.nominators[j]
        BY <2>1, <2>2 DEF NominatorPut
    <2> QED
        BY <2>3, <2>4 DEF Active
<1> QED
    BY <1>1, <1>2

-----------------------------------------------------------------------------
(***************************************************************************)
(* Types.                                                                  *)
(***************************************************************************)
\* A count that has its snapshot is the next statement of its block.
CountDue(g) ==
    /\ g \in DOMAIN todo /\ todo[g] # <<>> /\ Head(todo[g]).do = "count"
    /\ Head(todo[g]).op \in DOMAIN db.operators
    /\ counted[g] \in 0 .. Cardinality(Addresses)
CountedInv == overtaken \subseteq Operators /\ \A g \in DOMAIN counted : CountDue(g)

TypeInv == Shape /\ db \in Tables /\ CountedInv

\* What a step leaves of the counts under way.
SameCounts ==
    /\ overtaken \subseteq overtaken' /\ overtaken' \subseteq Operators
    /\ \A g \in DOMAIN counted' :
          g \in DOMAIN counted /\ counted'[g] = counted[g] /\ g \in DOMAIN todo' /\ todo'[g] = todo[g]
    /\ DOMAIN db.operators \subseteq DOMAIN db'.operators

LEMMA CountedKept ==
    ASSUME CountedInv, SameCounts
    PROVE  CountedInv'
BY DEF CountedInv, CountDue, SameCounts

\* A snapshot changes no table and no block's place in its script.
others == <<batchVars, db, checkpoint, history>>

LEMMA OthersKept ==
    /\ UNCHANGED vars => UNCHANGED others
    /\ \A h : SelectCount(h) => UNCHANGED others
BY DEF vars, others, SelectCount

LEMMA OthersAre ==
    ASSUME UNCHANGED others
    PROVE  UNCHANGED <<pc, next, to, todo, db, checkpoint, top, torn, owed, degraded, failures, rewinds>>
BY DEF others, batchVars, history

LEMMA Bounds ==
    /\ Top \in Nat /\ Parallel \in Nat \ {0} /\ CheckpointEvery \in Nat \ {0}
    /\ MaxFailures \in Nat /\ MaxRewinds \in Nat
BY StakingAssumption, EventsType

LEMMA TypeInit == Init => TypeInv
<1> SUFFICES ASSUME Init PROVE TypeInv
    OBVIOUS
<1>1. Top \in Nat
    BY EventsType
<1>2. Shape
    <2>1. DOMAIN todo = {} /\ todo = [h \in DOMAIN todo |-> todo[h]]
        BY DEF Init, Empty
    <2>2. /\ pc = "idle" /\ next = 1 /\ to = 0 /\ checkpoint = 0 /\ top = 0
          /\ torn = {} /\ owed = {} /\ degraded = FALSE /\ failures = 0 /\ rewinds = 0
        BY DEF Init
    <2>3. /\ next \in 1 .. Top + 1 /\ to \in 0 .. Top
          /\ checkpoint \in 0 .. Top /\ top \in 0 .. Top /\ checkpoint <= top
          /\ failures \in 0 .. MaxFailures /\ rewinds \in 0 .. MaxRewinds
        BY <2>2, Bounds
    <2>4. degraded \in BOOLEAN /\ torn \subseteq Height /\ owed \subseteq Height
        BY <2>2
    <2>5. pc \in {"idle", "work"} /\ pc # "work"
        BY <2>2
    <2> QED
        BY <2>1, <2>3, <2>4, <2>5, Zenon DEF Shape
<1>3. \A D, R : Empty \in PF(D, R)
    <2> SUFFICES ASSUME NEW D, NEW R PROVE Empty \in PF(D, R)
        OBVIOUS
    <2>1. Empty = [x \in DOMAIN Empty |-> Empty[x]] /\ DOMAIN Empty = {}
        BY DEF Empty
    <2> QED
        BY <2>1, PFIs
<1>4. /\ <<>> \in Seq([op : Operators, addr : Addresses, fee : Nat])
      /\ <<>> \in Seq([op : Operators, addr : Addresses, known : BOOLEAN])
    OBVIOUS
<1>5. PICK T, U : /\ T = Seq([op : Operators, addr : Addresses, fee : Nat])
                  /\ U = Seq([op : Operators, addr : Addresses, known : BOOLEAN])
    OBVIOUS
<1>6. /\ [h \in Height |-> <<>>] \in [Height -> T]
      /\ [h \in Height |-> <<>>] \in [Height -> U]
    BY <1>4, <1>5
<1>7. db \in Tables
    BY <1>3, <1>5, <1>6, Zenon DEF Init, Tables
<1>8. CountedInv
    BY DEF Init, Empty, CountedInv
<1> QED
    BY <1>2, <1>7, <1>8 DEF TypeInv

\* What is known of a block in flight.
LEMMA InFlight ==
    ASSUME Shape, NEW h \in DOMAIN todo
    PROVE  /\ h \in Height /\ todo[h] \in Forms(h) /\ pc = "work"
           /\ h \in next .. to /\ to = top /\ h < next + Parallel
<1>1. h \in next .. to /\ next \in 1 .. Top + 1 /\ to \in 0 .. Top /\ pc = "work" /\ h < next + Parallel
    BY DEF Shape
<1>2. h \in Height
    BY <1>1, EventsType DEF Height
<1> QED
    BY <1>1, <1>2 DEF Shape

\* The statement a step issues.
LEMMA StatementIs ==
    ASSUME Shape, db \in Tables, CountedInv, NEW h, Statement(h)
    PROVE  /\ h \in DOMAIN todo /\ h \in Height /\ todo[h] \in Forms(h) /\ todo[h] # <<>>
           /\ Head(todo[h]) \in Plain(h) \union Deletes
           /\ Tail(todo[h]) \in Forms(h) /\ Tail(todo[h]) # Script[h]
           /\ Wrote(db, db', h, Head(todo[h])) /\ db' \in Tables
           /\ DOMAIN todo' = DOMAIN todo
           /\ todo'[h] = Tail(todo[h])
           /\ \A g \in DOMAIN todo : g # h => todo'[g] = todo[g]
           /\ todo' = [g \in DOMAIN todo' |-> todo'[g]]
<1>1. h \in DOMAIN todo /\ todo[h] # <<>> /\ Head(todo[h]).do # "read"
    BY DEF Statement
<1>2. h \in Height /\ todo[h] \in Forms(h)
    BY <1>1, InFlight
<1>3. /\ Head(todo[h]) \in Plain(h) \union Deletes
      /\ Tail(todo[h]) \in Forms(h) /\ Tail(todo[h]) # Script[h]
    BY <1>1, <1>2, FormTail
<1>4. db' = Apply(db, h, Head(todo[h]))
    BY DEF Statement
<1>4a. Ready(db, h, Head(todo[h]))
    BY DEF Statement, CountedInv, CountDue, Ready
<1>5. Wrote(db, Apply(db, h, Head(todo[h])), h, Head(todo[h]))
    BY <1>2, <1>3, <1>4a, ApplyWrote
<1>6. Wrote(db, db', h, Head(todo[h]))
    BY <1>4, <1>5
<1>7. db' \in Tables
    BY <1>2, <1>3, <1>6, WroteType
<1>8. todo' = [todo EXCEPT ![h] = Tail(todo[h])]
    BY DEF Statement
<1>9. /\ DOMAIN todo' = DOMAIN todo
      /\ todo'[h] = Tail(todo[h])
      /\ \A g \in DOMAIN todo : g # h => todo'[g] = todo[g]
      /\ todo' = [g \in DOMAIN todo' |-> todo'[g]]
    BY <1>1, <1>8
<1> QED
    BY <1>1, <1>2, <1>3, <1>6, <1>7, <1>9

LEMMA ReadIs ==
    ASSUME Shape, NEW h, ReadStorage(h)
    PROVE  /\ h \in DOMAIN todo /\ h \in Height /\ todo[h] \in Forms(h) /\ todo[h] # <<>>
           /\ Head(todo[h]).do = "read" /\ todo[h] # Script[h]
           /\ \/ /\ todo'[h] = Head(todo[h]).ok \o Tail(todo[h])
                 /\ degraded' = degraded /\ failures' = failures
              \/ /\ todo'[h] = Head(todo[h]).failed \o Tail(todo[h])
                 /\ degraded' = TRUE /\ failures < MaxFailures /\ failures' = failures + 1
           /\ todo'[h] \in Todos(h) /\ todo'[h] # Script[h]
           /\ DOMAIN todo' = DOMAIN todo
           /\ \A g \in DOMAIN todo : g # h => todo'[g] = todo[g]
           /\ todo' = [g \in DOMAIN todo' |-> todo'[g]]
           /\ UNCHANGED <<pc, next, to, counted, overtaken, db, checkpoint, top, torn, owed, rewinds>>
<1>1. h \in DOMAIN todo /\ todo[h] # <<>> /\ Head(todo[h]).do = "read"
    BY DEF ReadStorage
<1>2. h \in Height /\ todo[h] \in Forms(h)
    BY <1>1, InFlight
<1>3. todo[h] \in Todos(h)
    BY <1>1, <1>2, FormTail
<1>4. todo[h] # Script[h]
    BY <1>2, <1>3, NotScript
<1>5. /\ Head(todo[h]).ok \o Tail(todo[h]) \in Todos(h)
      /\ Head(todo[h]).failed \o Tail(todo[h]) \in Todos(h)
    <2>1. PICK t, u : t = Head(todo[h]).ok /\ u = Head(todo[h]).failed
        OBVIOUS
    <2>2. t \o Tail(todo[h]) \in Todos(h) /\ u \o Tail(todo[h]) \in Todos(h)
        BY <1>1, <1>2, <2>1, FormRead
    <2> QED
        BY <2>1, <2>2
<1>6. PICK x, y : x = Head(todo[h]).ok \o Tail(todo[h]) /\ y = Head(todo[h]).failed \o Tail(todo[h])
    OBVIOUS
<1>7. \/ todo' = [todo EXCEPT ![h] = x] /\ degraded' = degraded /\ failures' = failures
      \/ /\ todo' = [todo EXCEPT ![h] = y]
         /\ degraded' = TRUE /\ failures < MaxFailures /\ failures' = failures + 1
    BY <1>6 DEF ReadStorage
<1>8. /\ DOMAIN todo' = DOMAIN todo
      /\ \A g \in DOMAIN todo : g # h => todo'[g] = todo[g]
      /\ todo' = [g \in DOMAIN todo' |-> todo'[g]]
      /\ \/ todo'[h] = x /\ degraded' = degraded /\ failures' = failures
         \/ todo'[h] = y /\ degraded' = TRUE /\ failures < MaxFailures /\ failures' = failures + 1
    <2>1. PICK z \in {x, y} :
            /\ todo' = [todo EXCEPT ![h] = z]
            /\ \/ z = x /\ degraded' = degraded /\ failures' = failures
               \/ z = y /\ degraded' = TRUE /\ failures < MaxFailures /\ failures' = failures + 1
        BY <1>7
    <2>2. /\ DOMAIN todo' = DOMAIN todo /\ todo'[h] = z
          /\ \A g \in DOMAIN todo : g # h => todo'[g] = todo[g]
          /\ todo' = [g \in DOMAIN todo' |-> todo'[g]]
        BY <1>1, <2>1
    <2> QED
        BY <2>1, <2>2, Zenon
<1>9. todo'[h] \in Todos(h)
    BY <1>5, <1>6, <1>8
<1>10. todo'[h] # Script[h]
    BY <1>2, <1>9, NotScript
<1>11. UNCHANGED <<pc, next, to, counted, overtaken, db, checkpoint, top, torn, owed, rewinds>>
    BY DEF ReadStorage, counting
<1> QED
    BY <1>1, <1>2, <1>4, <1>6, <1>8, <1>9, <1>10, <1>11

\* The numbers of a state.
LEMMA ShapeNumbers ==
    ASSUME Shape
    PROVE  /\ next \in Nat \ {0} /\ to \in Nat /\ checkpoint \in Nat /\ top \in Nat
           /\ next <= Top + 1 /\ to <= Top /\ top <= Top /\ checkpoint <= top
           /\ Top \in Nat /\ Height = 1 .. Top
           /\ failures \in Nat /\ pc \in {"idle", "work"}
           /\ pc = "work" => to = top /\ next <= to + 1
BY Bounds DEF Shape, Height

LEMMA TypeStartBatch ==
    ASSUME TypeInv, NEW from \in Height, NEW until \in Height, StartBatch(from, until)
    PROVE  TypeInv' /\ SameCounts
<1>1. /\ pc' = "work" /\ next' = from /\ to' = until /\ top' = until /\ from <= until
      /\ checkpoint' = checkpoint /\ top <= until /\ db' = db
      /\ torn' = torn /\ owed' = owed /\ degraded' = degraded /\ failures' = failures
      /\ rewinds' = rewinds \/ (rewinds < MaxRewinds /\ rewinds' = rewinds + 1)
    BY DEF StartBatch
<1>2. DOMAIN todo' = {} /\ todo' = [h \in DOMAIN todo' |-> todo'[h]]
    BY DEF StartBatch, Empty
<1>3. /\ checkpoint \in 0 .. Top /\ top \in 0 .. Top /\ checkpoint <= top
      /\ torn \subseteq Height /\ owed \subseteq Height /\ degraded \in BOOLEAN
      /\ failures \in 0 .. MaxFailures /\ rewinds \in 0 .. MaxRewinds
    BY DEF TypeInv, Shape
<1>4. from \in 1 .. Top /\ until \in 1 .. Top
    BY DEF Height
<1>5. /\ next' \in 1 .. Top + 1 /\ to' \in 0 .. Top
      /\ checkpoint' \in 0 .. Top /\ top' \in 0 .. Top /\ checkpoint' <= top'
      /\ rewinds' \in 0 .. MaxRewinds /\ to' = top' /\ next' <= to' + 1
    BY <1>1, <1>3, <1>4, Bounds
<1>6. Shape'
    BY <1>1, <1>2, <1>3, <1>5, Zenon DEF Shape
<1>7. DOMAIN counted = {} /\ UNCHANGED <<counted, overtaken>>
    <2>1. DOMAIN todo = {}
        BY DEF StartBatch, TypeInv, Shape
    <2> QED
        BY <2>1 DEF StartBatch, counting, TypeInv, CountedInv, CountDue
<1>8. SameCounts
    BY <1>1, <1>7 DEF SameCounts, CountedInv, TypeInv
<1>9. CountedInv'
    BY <1>8, CountedKept DEF TypeInv
<1> QED
    BY <1>1, <1>6, <1>8, <1>9 DEF TypeInv

LEMMA TypeStartBlock ==
    ASSUME TypeInv, NEW h \in Height, StartBlock(h)
    PROVE  TypeInv' /\ SameCounts
<1>1. /\ pc = "work" /\ h \in next .. to /\ h < next + Parallel /\ h \notin DOMAIN todo
      /\ UNCHANGED <<pc, next, to, counted, overtaken, db, checkpoint, history>>
      /\ todo' = Put(todo, h, Script[h])
    BY DEF StartBlock, counting
<1>2. /\ DOMAIN todo' = DOMAIN todo \union {h}
      /\ todo'[h] = Script[h] /\ \A g \in DOMAIN todo : g # h => todo'[g] = todo[g]
      /\ todo' = [g \in DOMAIN todo' |-> todo'[g]]
    BY <1>1 DEF Put
<1>3. Script[h] \in Forms(h)
    BY DEF Forms
<1>4. ASSUME NEW g \in DOMAIN todo'
      PROVE  g \in next .. to /\ g < next + Parallel /\ todo'[g] \in Forms(g)
    <2>1. CASE g = h
        BY <1>1, <1>2, <1>3, <2>1
    <2>2. CASE g # h
        BY <1>2, <1>4, <2>2 DEF TypeInv, Shape
    <2> QED
        BY <2>1, <2>2
<1>5. Shape'
    <2>1. UNCHANGED <<pc, next, to, checkpoint, top, torn, owed, degraded, failures, rewinds>>
        BY <1>1 DEF history
    <2> QED
        BY <1>1, <1>2, <1>4, <2>1 DEF Shape, TypeInv
<1>6. SameCounts
    BY <1>1, <1>2 DEF SameCounts, TypeInv, CountedInv, CountDue
<1>7. CountedInv'
    BY <1>6, CountedKept DEF TypeInv
<1> QED
    BY <1>1, <1>5, <1>6, <1>7 DEF TypeInv

LEMMA TypeSelectCount ==
    ASSUME TypeInv, NEW h \in Height, SelectCount(h)
    PROVE  TypeInv'
<1>1. UNCHANGED <<pc, next, to, todo, db, checkpoint, top, torn, owed, degraded, failures, rewinds>>
    BY OthersKept, OthersAre
<1>2. Shape' /\ (db \in Tables)'
    BY <1>1 DEF TypeInv, Shape
<1>3. PICK o : o = Head(todo[h]).op
    OBVIOUS
<1>4. PICK n : n = Cardinality(Active(db, o))
    OBVIOUS
<1>5. /\ h \in DOMAIN todo /\ todo[h] # <<>> /\ Head(todo[h]).do = "count"
      /\ o \in DOMAIN db.operators
      /\ counted' = Put(counted, h, n)
      /\ overtaken' \subseteq overtaken
    BY <1>3, <1>4 DEF SelectCount
<1>6. n \in 0 .. Cardinality(Addresses)
    BY <1>4, <1>5, RowIs, ActiveIs DEF TypeInv
<1>7. ASSUME NEW g \in DOMAIN counted' PROVE CountDue(g)'
    <2>1. g = h \/ (g \in DOMAIN counted /\ g # h)
        BY <1>5, <1>7 DEF Put
    <2>2. CASE g = h
        <3>1. counted'[g] = n
            BY <1>5, <2>2 DEF Put
        <3> QED
            BY <1>1, <1>3, <1>5, <1>6, <2>2, <3>1 DEF CountDue
    <2>3. CASE g \in DOMAIN counted /\ g # h
        <3>1. counted'[g] = counted[g]
            BY <1>5, <2>3 DEF Put
        <3> QED
            BY <1>1, <2>3, <3>1 DEF CountDue, CountedInv, TypeInv
    <2> QED
        BY <2>1, <2>2, <2>3
<1>8. CountedInv'
    BY <1>5, <1>7 DEF CountedInv, TypeInv
<1> QED
    BY <1>2, <1>8 DEF TypeInv

LEMMA TypeStatement ==
    ASSUME TypeInv, NEW h \in Height, Statement(h)
    PROVE  TypeInv' /\ SameCounts
<1>1. /\ h \in DOMAIN todo /\ Tail(todo[h]) \in Forms(h) /\ db' \in Tables
      /\ DOMAIN todo' = DOMAIN todo /\ todo'[h] = Tail(todo[h])
      /\ \A g \in DOMAIN todo : g # h => todo'[g] = todo[g]
      /\ todo' = [g \in DOMAIN todo' |-> todo'[g]]
    BY StatementIs DEF TypeInv
<1>2. UNCHANGED <<pc, next, to, checkpoint, top, torn, owed, degraded, failures, rewinds>>
    BY DEF Statement, history
<1>3. ASSUME NEW g \in DOMAIN todo'
      PROVE  g \in next .. to /\ g < next + Parallel /\ todo'[g] \in Forms(g)
    BY <1>1, <1>3 DEF TypeInv, Shape
<1>4. Shape'
    BY <1>1, <1>2, <1>3 DEF Shape, TypeInv
<1>5. /\ DOMAIN counted' = DOMAIN counted \ {h} /\ \A g \in DOMAIN counted' : counted'[g] = counted[g]
      /\ overtaken \subseteq overtaken' /\ overtaken' \subseteq overtaken \union Operators
    BY DEF Statement
<1>6. DOMAIN db.operators \subseteq DOMAIN db'.operators
    <2>1. Head(todo[h]) \in Plain(h) \union Deletes /\ Wrote(db, db', h, Head(todo[h]))
        BY StatementIs DEF TypeInv
    <2> QED
        BY <2>1, WroteKeeps DEF TypeInv
<1>7. SameCounts
    BY <1>1, <1>5, <1>6 DEF SameCounts, TypeInv, CountedInv, CountDue
<1>8. CountedInv'
    BY <1>7, CountedKept DEF TypeInv
<1> QED
    BY <1>1, <1>4, <1>7, <1>8 DEF TypeInv

LEMMA TypeReadStorage ==
    ASSUME TypeInv, NEW h \in Height, ReadStorage(h)
    PROVE  TypeInv' /\ SameCounts
<1>1. /\ h \in DOMAIN todo /\ todo'[h] \in Todos(h)
      /\ DOMAIN todo' = DOMAIN todo
      /\ \A g \in DOMAIN todo : g # h => todo'[g] = todo[g]
      /\ todo' = [g \in DOMAIN todo' |-> todo'[g]]
      /\ UNCHANGED <<pc, next, to, db, checkpoint, top, torn, owed, rewinds>>
    BY ReadIs DEF TypeInv
<1>2. /\ degraded' \in BOOLEAN /\ failures' \in 0 .. MaxFailures
    <2>1. \/ degraded' = degraded /\ failures' = failures
          \/ degraded' = TRUE /\ failures < MaxFailures /\ failures' = failures + 1
        BY ReadIs DEF TypeInv
    <2>2. degraded \in BOOLEAN /\ failures \in 0 .. MaxFailures
        BY DEF TypeInv, Shape
    <2>3. degraded' \in BOOLEAN
        BY <2>1, <2>2, Zenon
    <2> QED
        BY <2>1, <2>2, <2>3, Bounds
<1>3. ASSUME NEW g \in DOMAIN todo'
      PROVE  g \in next .. to /\ g < next + Parallel /\ todo'[g] \in Forms(g)
    BY <1>1, <1>3 DEF TypeInv, Shape, Forms
<1>4. Shape'
    BY <1>1, <1>2, <1>3 DEF Shape, TypeInv
<1>5. Head(todo[h]).do = "read" /\ UNCHANGED <<counted, overtaken>>
    BY ReadIs DEF TypeInv
<1>6. SameCounts
    BY <1>1, <1>5 DEF SameCounts, TypeInv, CountedInv, CountDue
<1>7. CountedInv'
    BY <1>6, CountedKept DEF TypeInv
<1> QED
    BY <1>1, <1>4, <1>6, <1>7 DEF TypeInv

LEMMA TypeYieldBlock ==
    ASSUME TypeInv, YieldBlock
    PROVE  TypeInv' /\ SameCounts
<1>1. /\ pc = "work" /\ next \in DOMAIN todo /\ next' = next + 1
      /\ checkpoint' = checkpoint \/ checkpoint' = next
      /\ todo' = [h \in DOMAIN todo \ {next} |-> todo[h]]
      /\ torn' = torn \ {next} /\ owed' = owed \ {next}
      /\ UNCHANGED <<pc, to, db, top, degraded, failures, rewinds>>
    BY DEF YieldBlock
<1>2. next \in Height /\ next <= to /\ to = top
    BY <1>1, InFlight DEF TypeInv
<1>3. /\ DOMAIN todo' = DOMAIN todo \ {next} /\ todo' = [h \in DOMAIN todo' |-> todo'[h]]
      /\ \A h \in DOMAIN todo' : todo'[h] = todo[h]
    BY <1>1
<1>4. ASSUME NEW h \in DOMAIN todo'
      PROVE  h \in next' .. to /\ h < next' + Parallel /\ todo'[h] \in Forms(h)
    <2>1. h \in next .. to /\ h < next + Parallel /\ todo[h] \in Forms(h) /\ h # next
        BY <1>3, <1>4 DEF TypeInv, Shape
    <2>2. next \in Nat /\ to \in Nat /\ Parallel \in Nat
        BY ShapeNumbers, Bounds DEF TypeInv
    <2> QED
        BY <1>1, <1>3, <2>1, <2>2
<1>5. /\ next' \in 1 .. Top + 1 /\ checkpoint' \in 0 .. Top /\ checkpoint' <= top /\ next' <= to + 1
    BY <1>1, <1>2, ShapeNumbers DEF TypeInv
<1>6. torn' \subseteq Height /\ owed' \subseteq Height
    BY <1>1 DEF TypeInv, Shape
<1>7. Shape'
    BY <1>1, <1>3, <1>4, <1>5, <1>6 DEF Shape, TypeInv
<1>8. todo[next] = <<>> /\ UNCHANGED <<counted, overtaken>>
    BY DEF YieldBlock, counting
<1>9. SameCounts
    BY <1>1, <1>3, <1>8 DEF SameCounts, TypeInv, CountedInv, CountDue
<1>10. CountedInv'
    BY <1>9, CountedKept DEF TypeInv
<1> QED
    BY <1>1, <1>7, <1>9, <1>10 DEF TypeInv

LEMMA TypeFinishBatch ==
    ASSUME TypeInv, FinishBatch
    PROVE  TypeInv' /\ SameCounts
<1>1. /\ pc = "work" /\ checkpoint' = to /\ pc' = "idle" /\ UNCHANGED <<next, to, db, history>>
    BY DEF FinishBatch
<1>2. DOMAIN todo' = {} /\ todo' = [h \in DOMAIN todo' |-> todo'[h]]
    BY DEF FinishBatch, Empty
<1>3. UNCHANGED <<next, to, db, top, torn, owed, degraded, failures, rewinds>>
    BY <1>1 DEF history
<1>4. checkpoint' \in 0 .. Top /\ checkpoint' <= top
    BY <1>1, ShapeNumbers DEF TypeInv
<1>5. Shape'
    BY <1>1, <1>2, <1>3, <1>4 DEF Shape, TypeInv
<1>6. DOMAIN counted = {} /\ UNCHANGED <<counted, overtaken>>
    <2>1. DOMAIN todo = {}
        <3>1. ASSUME NEW h \in DOMAIN todo PROVE FALSE
            <4>1. h \in next .. to /\ next > to
                BY InFlight DEF FinishBatch, TypeInv
            <4>2. next \in Nat /\ to \in Nat
                BY ShapeNumbers DEF TypeInv
            <4> QED
                BY <4>1, <4>2
        <3> QED
            BY <3>1
    <2> QED
        BY <2>1 DEF FinishBatch, counting, TypeInv, CountedInv, CountDue
<1>7. SameCounts
    BY <1>3, <1>6 DEF SameCounts, CountedInv, TypeInv
<1>8. CountedInv'
    BY <1>7, CountedKept DEF TypeInv
<1> QED
    BY <1>3, <1>5, <1>7, <1>8 DEF TypeInv

LEMMA TypeCrash ==
    ASSUME TypeInv, Crash
    PROVE  TypeInv' /\ SameCounts
<1>1. /\ failures < MaxFailures /\ failures' = failures + 1 /\ pc' = "idle"
      /\ UNCHANGED <<next, to, db, checkpoint, top, degraded, rewinds>>
    BY DEF Crash
<1>2. DOMAIN todo' = {} /\ todo' = [h \in DOMAIN todo' |-> todo'[h]]
    BY DEF Crash, Empty
<1>3. torn' \subseteq Height
    <2>1. torn' \subseteq torn \union DOMAIN todo
        BY DEF Crash
    <2>2. DOMAIN todo \subseteq Height
        BY InFlight DEF TypeInv
    <2> QED
        BY <2>1, <2>2 DEF TypeInv, Shape
<1>4. owed' \subseteq Height
    <2>1. owed' = owed \union (next .. to \intersect 1 .. checkpoint)
        BY DEF Crash
    <2>2. 1 .. checkpoint \subseteq Height
        BY ShapeNumbers DEF TypeInv
    <2> QED
        BY <2>1, <2>2 DEF TypeInv, Shape
<1>5. failures' \in 0 .. MaxFailures
    BY <1>1, Bounds DEF TypeInv, Shape
<1>6. Shape'
    BY <1>1, <1>2, <1>3, <1>4, <1>5 DEF Shape, TypeInv
<1>7. SameCounts
    BY <1>1 DEF Crash, Empty, SameCounts, CountedInv, TypeInv
<1>8. CountedInv'
    BY <1>7, CountedKept DEF TypeInv
<1> QED
    BY <1>1, <1>6, <1>7, <1>8 DEF TypeInv

LEMMA TypeNext == TypeInv /\ [Next]_vars => TypeInv'
<1> SUFFICES ASSUME TypeInv, [Next]_vars PROVE TypeInv'
    OBVIOUS
<1>1. ASSUME NEW from \in Height, NEW until \in Height, StartBatch(from, until) PROVE TypeInv'
    BY <1>1, TypeStartBatch
<1>2. ASSUME NEW h \in Height, StartBlock(h) PROVE TypeInv'
    BY <1>2, TypeStartBlock
<1>3. ASSUME NEW h \in Height, Statement(h) PROVE TypeInv'
    BY <1>3, TypeStatement
<1>4. ASSUME NEW h \in Height, ReadStorage(h) PROVE TypeInv'
    BY <1>4, TypeReadStorage
<1>5. CASE YieldBlock
    BY <1>5, TypeYieldBlock
<1>6. CASE FinishBatch
    BY <1>6, TypeFinishBatch
<1>7. CASE Crash
    BY <1>7, TypeCrash
<1>8. CASE UNCHANGED vars
    <2>1. UNCHANGED <<pc, next, to, todo, db, checkpoint, top, torn, owed, degraded, failures, rewinds>>
        BY <1>8, OthersKept, OthersAre
    <2>2. Shape' /\ (db \in Tables)'
        BY <2>1 DEF TypeInv, Shape
    <2>3. CountedInv'
        BY <1>8, <2>1 DEF TypeInv, CountedInv, CountDue, vars, counting
    <2> QED
        BY <2>2, <2>3 DEF TypeInv
<1>9. ASSUME NEW h \in Height, SelectCount(h) PROVE TypeInv'
    BY <1>9, TypeSelectCount
<1> QED
    BY <1>1, <1>2, <1>3, <1>4, <1>5, <1>6, <1>7, <1>8, <1>9 DEF Next

\* Only a snapshot begins a count, and only one forgets an overtaken one.
LEMMA CountsStep ==
    ASSUME TypeInv, [Next]_vars
    PROVE  SameCounts \/ \E h \in Height : SelectCount(h)
<1>1. CASE UNCHANGED vars
    <2>1. UNCHANGED <<todo, db>>
        BY <1>1, OthersKept, OthersAre
    <2>2. UNCHANGED <<counted, overtaken>>
        BY <1>1 DEF vars, counting
    <2> QED
        BY <2>1, <2>2 DEF SameCounts, TypeInv, CountedInv, CountDue
<1> QED
    BY <1>1, TypeStartBatch, TypeStartBlock, TypeStatement, TypeReadStorage, TypeYieldBlock,
       TypeFinishBatch, TypeCrash DEF Next

LEMMA TypeAlways == Spec => []TypeInv
BY TypeInit, TypeNext, PTL DEF Spec

LEMMA TypeGives == TypeInv => TypeOK
<1> SUFFICES ASSUME TypeInv PROVE TypeOK
    OBVIOUS
<1>1. /\ DOMAIN db.operators \subseteq Operators
      /\ \A o \in DOMAIN db.operators : db.operators[o] \in OpRow
    <2>1. db.operators \in PF(Operators, OpRow)
        BY TablesIs DEF TypeInv
    <2> QED
        BY <2>1, PFIs
<1>2. /\ DOMAIN db.nominators \subseteq Operators \X Addresses
      /\ \A k \in DOMAIN db.nominators : db.nominators[k] \in NomRow
    <2>1. db.nominators \in PF(Operators \X Addresses, NomRow)
        BY TablesIs DEF TypeInv
    <2> QED
        BY <2>1, PFIs
<1>3. \A k \in DOMAIN db.prices : db.prices[k] \in Height
    <2>1. db.prices \in PF(Operators \X Nat, Height)
        BY TablesIs DEF TypeInv
    <2> QED
        BY <2>1, PFIs
<1>4. DOMAIN todo \subseteq next .. to
    BY DEF TypeInv, Shape
<1>5. Cardinality(DOMAIN todo) <= Parallel
    <2>1. next \in Int /\ next + Parallel - 1 \in Int /\ Parallel \in Nat \ {0}
        BY ShapeNumbers, Bounds DEF TypeInv
    <2>2. PICK S : S = next .. (next + Parallel - 1)
        OBVIOUS
    <2>3. IsFiniteSet(S) /\ Cardinality(S) = Parallel
        <3>1. next + Parallel - 1 >= next
            BY <2>1
        <3>2. /\ IsFiniteSet(next .. (next + Parallel - 1))
              /\ Cardinality(next .. (next + Parallel - 1)) =
                    IF next > next + Parallel - 1 THEN 0 ELSE (next + Parallel - 1) - next + 1
            BY <2>1, FS_Interval
        <3> QED
            BY <2>1, <2>2, <3>1, <3>2
    <2>4. DOMAIN todo \subseteq S
        <3>1. \A h \in DOMAIN todo : h \in next .. to /\ h < next + Parallel
            BY DEF TypeInv, Shape
        <3>2. to \in Nat
            BY ShapeNumbers DEF TypeInv
        <3> QED
            BY <2>1, <2>2, <3>1, <3>2
    <2> QED
        BY <2>3, <2>4, FS_Subset
<1>6. /\ DOMAIN counted \subseteq DOMAIN todo /\ overtaken \subseteq Operators
      /\ \A h \in DOMAIN counted : counted[h] \in 0 .. Cardinality(Addresses)
    BY DEF TypeInv, CountedInv, CountDue
<1> QED
    BY <1>1, <1>2, <1>3, <1>4, <1>5, <1>6 DEF TypeInv, Shape, TypeOK, OpRow, NomRow

(***************************************************************************)
(* The staking processor keeps its types; in particular no more than       *)
(* Parallel blocks are ever in flight, a row names operators and addresses *)
(* of the chain, and a nominator count is at most the number of addresses. *)
(***************************************************************************)
THEOREM StakingTypes == Spec => []TypeOK
BY TypeAlways, TypeGives, PTL

-----------------------------------------------------------------------------
(***************************************************************************)
(* Rows that are found: a statement leaves its row, and rows stay.         *)
(***************************************************************************)
LEMMA SatIs ==
    ASSUME NEW d, NEW x
    PROVE  /\ x.do = "operator" => (Sat(d, x) <=> x.op \in DOMAIN d.operators)
           /\ x.do = "nominator" => (Sat(d, x) <=> <<x.op, x.addr>> \in DOMAIN d.nominators)
           /\ x.do = "price" => (Sat(d, x) <=> <<x.op, x.epoch>> \in DOMAIN d.prices)
           /\ x.do \notin {"operator", "nominator", "price"} => Sat(d, x)
BY DEF Sat

LEMMA SatKept ==
    ASSUME NEW d \in Tables, NEW d2, NEW h \in Height, NEW st \in Plain(h) \union Deletes,
           Wrote(d, d2, h, st)
    PROVE  Sat(d2, st) /\ \A x : Sat(d, x) => Sat(d2, x)
<1>1. /\ DOMAIN d.operators \subseteq DOMAIN d2.operators
      /\ DOMAIN d.nominators \subseteq DOMAIN d2.nominators
      /\ DOMAIN d.prices \subseteq DOMAIN d2.prices
      /\ st.do = "operator" => st.op \in DOMAIN d2.operators
      /\ st.do = "nominator" => <<st.op, st.addr>> \in DOMAIN d2.nominators
      /\ st.do = "price" => <<st.op, st.epoch>> \in DOMAIN d2.prices
    BY WroteKeeps
<1>2. Sat(d2, st)
    BY <1>1, SatIs
<1>3. ASSUME NEW x, Sat(d, x) PROVE Sat(d2, x)
    BY <1>1, <1>3, SatIs
<1> QED
    BY <1>2, <1>3

\* What a script holds comes from the events of its block.
LEMMA ScriptHas ==
    ASSUME NEW h \in Height, NEW S, Delete1 \notin S, Delete2 \notin S
    PROVE  /\ Has(Script[h], S) <=> \E i \in DOMAIN Events[h] : Holds(h, i, S)
           /\ Has(Tail(Script[h]), S) <=> Has(Script[h], S)
           /\ Has(Rest(h), S) <=> Has(Script[h], S)
<1>1. PICK X : X = Steps(h)
    OBVIOUS
<1>2. PICK s \in Seq(X) : s = Script[h]
    BY <1>1, ScriptIs
<1>3. PICK t \in Seq(X) : t = Tail(s)
    BY <1>1, <1>2, ScriptIs
<1>4. s # <<>> /\ t # <<>> /\ Head(s) = Delete1 /\ Head(t) = Delete2 /\ Tail(t) = Rest(h)
    BY <1>2, <1>3, ScriptIs
<1>5. ~Meets(Delete1, S) /\ ~Meets(Delete2, S)
    BY DeletesAre, MeetsPlain
<1>6. Has(s, S) <=> Has(t, S)
    BY <1>3, <1>4, <1>5, HasTail
<1>7. Has(t, S) <=> Has(Rest(h), S)
    BY <1>4, <1>5, HasTail
<1>8. Has(Rest(h), S) <=> \E i \in DOMAIN Events[h] : Holds(h, i, S)
    BY RestHas
<1> QED
    BY <1>2, <1>3, <1>6, <1>7, <1>8, Zenon

LEMMA FoundInit == Init => FoundInv
<1> SUFFICES ASSUME Init, NEW h \in Height PROVE ~Processed(h) /\ h \notin DOMAIN todo
    BY DEF FoundInv
<1>1. pc = "idle" /\ checkpoint = 0 /\ DOMAIN todo = {}
    BY DEF Init, Empty
<1>2. h \in 1 .. Top
    BY DEF Height
<1> QED
    BY <1>1, <1>2, Bounds DEF Processed

\* The blocks that are processed: only the block awaited becomes one.
LEMMA ProcessedNext ==
    ASSUME TypeInv, [Next]_vars, NEW h \in Height, Processed(h)'
    PROVE  \/ Processed(h)
           \/ h = next /\ YieldBlock /\ next \in DOMAIN todo /\ todo[next] = <<>> /\ pc = "work"
<1> USE DEF Processed
<1>0. h \in Nat /\ next \in Nat /\ checkpoint \in Nat /\ to \in Nat
    BY ShapeNumbers DEF TypeInv
<1>1. ASSUME NEW from \in Height, NEW until \in Height, StartBatch(from, until) PROVE Processed(h)
    <2>1. checkpoint' = checkpoint /\ next' = from /\ (from = checkpoint + 1 \/ from \in 1 .. checkpoint)
        BY <1>1 DEF StartBatch
    <2> QED
        BY <1>0, <2>1
<1>2. ASSUME NEW g \in Height, StartBlock(g) PROVE Processed(h)
    BY <1>2 DEF StartBlock
<1>3. ASSUME NEW g \in Height, Statement(g) PROVE Processed(h)
    BY <1>3 DEF Statement
<1>4. ASSUME NEW g \in Height, ReadStorage(g) PROVE Processed(h)
    BY <1>4 DEF ReadStorage
<1>5. ASSUME YieldBlock
      PROVE  Processed(h) \/ (h = next /\ next \in DOMAIN todo /\ todo[next] = <<>> /\ pc = "work")
    <2>1. /\ pc = "work" /\ next' = next + 1 /\ next \in DOMAIN todo /\ todo[next] = <<>>
          /\ checkpoint' = checkpoint \/ checkpoint' = next
        BY <1>5 DEF YieldBlock
    <2> QED
        BY <1>0, <2>1
<1>6. ASSUME FinishBatch PROVE Processed(h)
    <2>1. pc = "work" /\ pc' = "idle" /\ checkpoint' = to /\ next > to
        BY <1>6 DEF FinishBatch
    <2> QED
        BY <1>0, <2>1
<1>7. ASSUME Crash PROVE Processed(h)
    BY <1>7 DEF Crash
<1>8. ASSUME UNCHANGED others PROVE Processed(h)
    BY <1>8 DEF others, batchVars
<1> QED
    BY <1>1, <1>2, <1>3, <1>4, <1>5, <1>6, <1>7, <1>8, OthersKept DEF Next

LEMMA DegradedNext ==
    ASSUME TypeInv, [Next]_vars, ~degraded'
    PROVE  ~degraded
<1>1. ASSUME NEW h \in Height, ReadStorage(h) PROVE ~degraded
    BY <1>1, ReadIs DEF TypeInv
<1> QED
    BY <1>1 DEF Next, StartBatch, StartBlock, SelectCount, Statement, YieldBlock, FinishBatch, Crash,
                vars, history

LEMMA DbNext ==
    ASSUME TypeInv, [Next]_vars
    PROVE  db' = db \/ \E h \in Height : Statement(h)
BY DEF Next, StartBatch, StartBlock, SelectCount, ReadStorage, YieldBlock, FinishBatch, Crash, vars

LEMMA SatNext ==
    ASSUME TypeInv, [Next]_vars, NEW x, Sat(db, x)
    PROVE  Sat(db', x)
<1>1. ASSUME NEW h \in Height, Statement(h) PROVE Sat(db', x)
    <2>1. Wrote(db, db', h, Head(todo[h])) /\ Head(todo[h]) \in Plain(h) \union Deletes
        BY <1>1, StatementIs DEF TypeInv
    <2> QED
        BY <2>1, SatKept DEF TypeInv
<1> QED
    BY <1>1, DbNext

LEMMA FoundNext == TypeInv /\ FoundInv /\ [Next]_vars => FoundInv'
<1> SUFFICES ASSUME TypeInv, FoundInv, [Next]_vars, ~degraded', NEW h \in Height, NEW x \in Plain(h),
                    Has(Script[h], {x})
             PROVE  /\ Processed(h)' => Sat(db', x)
                    /\ h \in DOMAIN todo' => Has(todo'[h], {x}) \/ Sat(db', x)
    BY DEF FoundInv
<1>1. /\ Processed(h) => Sat(db, x)
      /\ h \in DOMAIN todo => Has(todo[h], {x}) \/ Sat(db, x)
    BY DegradedNext DEF FoundInv
<1>2. Sat(db, x) => Sat(db', x)
    BY SatNext
<1>3. Processed(h)' => Sat(db', x)
    <2>1. ~Has(<<>>, {x})
        BY DEF Has
    <2> QED
        BY <1>1, <1>2, <2>1, ProcessedNext
<1>4. ASSUME h \in DOMAIN todo', ~Sat(db, x), ~Sat(db', x) PROVE Has(todo'[h], {x})
    <2>1. ASSUME NEW g \in Height, StartBlock(g) PROVE Has(todo'[h], {x})
        <3>1. /\ DOMAIN todo' = DOMAIN todo \union {g}
              /\ todo'[g] = Script[g] /\ \A f \in DOMAIN todo : f # g => todo'[f] = todo[f]
            BY <2>1 DEF StartBlock, Put
        <3> QED
            BY <1>1, <1>4, <3>1
    <2>2. ASSUME NEW g \in Height, Statement(g) PROVE Has(todo'[h], {x})
        <3>1. /\ g \in DOMAIN todo /\ todo[g] \in Forms(g) /\ todo[g] # <<>>
              /\ Head(todo[g]) \in Plain(g) \union Deletes
              /\ Wrote(db, db', g, Head(todo[g]))
              /\ DOMAIN todo' = DOMAIN todo /\ todo'[g] = Tail(todo[g])
              /\ \A f \in DOMAIN todo : f # g => todo'[f] = todo[f]
            BY <2>2, StatementIs DEF TypeInv
        <3>2. CASE g # h
            BY <1>1, <1>4, <3>1, <3>2
        <3>3. CASE g = h
            <4>1. Sat(db', Head(todo[h]))
                BY <3>1, <3>3, SatKept DEF TypeInv
            <4>2. Head(todo[h]) # x
                BY <1>4, <4>1
            <4>3. ~Meets(Head(todo[h]), {x})
                <5>1. Head(todo[h]).do # "read"
                    BY <2>2, <3>3 DEF Statement
                <5> QED
                    BY <4>2, <5>1, MeetsPlain
            <4>4. Has(todo[h], {x})
                BY <1>1, <1>4, <3>1, <3>3
            <4>5. todo[h] \in Seq(Steps(h)) /\ todo[h] # <<>>
                BY <3>1, <3>3, FormType
            <4>6. Has(Tail(todo[h]), {x})
                BY <4>3, <4>4, <4>5, HasTail
            <4> QED
                BY <3>1, <3>3, <4>6
        <3> QED
            BY <3>2, <3>3
    <2>3. ASSUME NEW g \in Height, ReadStorage(g) PROVE Has(todo'[h], {x})
        <3>1. /\ g \in DOMAIN todo /\ todo[g] \in Forms(g) /\ todo[g] # <<>> /\ Head(todo[g]).do = "read"
              /\ todo'[g] = Head(todo[g]).ok \o Tail(todo[g])
              /\ DOMAIN todo' = DOMAIN todo
              /\ \A f \in DOMAIN todo : f # g => todo'[f] = todo[f]
            BY <2>3, ReadIs DEF TypeInv
        <3>2. CASE g # h
            BY <1>1, <1>4, <3>1, <3>2
        <3>3. CASE g = h
            <4>1. Has(todo[h], {x})
                BY <1>1, <1>4, <3>1, <3>3
            <4>2. Has(Head(todo[h]).ok \o Tail(todo[h]), {x}) <=> Has(todo[h], {x})
                BY <3>1, <3>3, ReadHas
            <4> QED
                BY <3>1, <3>3, <4>1, <4>2, Zenon
        <3> QED
            BY <3>2, <3>3
    <2>4. ASSUME YieldBlock PROVE Has(todo'[h], {x})
        BY <1>1, <1>4, <2>4 DEF YieldBlock
    <2>5. ASSUME todo' = todo PROVE Has(todo'[h], {x})
        BY <1>1, <1>4, <2>5
    <2>6. todo' # Empty
        BY <1>4 DEF Empty
    <2> QED
        BY <2>1, <2>2, <2>3, <2>4, <2>5, <2>6 DEF Next, StartBatch, SelectCount, FinishBatch, Crash, vars,
            batchVars
<1> QED
    BY <1>2, <1>3, <1>4

LEMMA FoundAlways == Spec => [](TypeInv /\ FoundInv)
BY TypeInit, TypeNext, FoundInit, FoundNext, PTL DEF Spec

-----------------------------------------------------------------------------
(***************************************************************************)
(* What a client was told.                                                 *)
(***************************************************************************)
\* It has left one in every block up to the one a client was told, for good.
HealthInv ==
    /\ health \in 0 .. Top
    /\ ~degraded => \A h \in 1 .. health : \A x \in Plain(h) : Has(Script[h], {x}) => Sat(db, x)

LEMMA ApiStep ==
    ASSUME [ApiNext]_apiVars
    PROVE  [Next]_vars /\ (health' = health \/ (health' = checkpoint /\ UNCHANGED vars))
<1>1. ASSUME Finish PROVE UNCHANGED <<vars, health>>
    BY <1>1 DEF Finish
<1>2. ASSUME NEW page, NEW at, GoOn(page, at) PROVE UNCHANGED <<vars, health>>
    BY <1>2 DEF GoOn
<1>3. ASSUME NEW page, TxPage(page) PROVE UNCHANGED <<vars, health>>
    BY <1>1, <1>2, <1>3 DEF TxPage
<1>4. CASE DepositsPage \/ WithdrawalsPage
    BY <1>3, <1>4 DEF DepositsPage, WithdrawalsPage
<1>5. CASE PricesSince
    BY <1>1, <1>2, <1>5 DEF PricesSince
<1>6. CASE PricesUntil
    BY <1>1, <1>2, <1>6 DEF PricesUntil
<1>7. CASE Index
    BY <1>7 DEF Index
<1>8. CASE health_check
    BY <1>8 DEF health_check
<1>9. CASE \E what \in Tx \union PriceLists : Begin(what)
    BY <1>9 DEF Begin
<1>10. CASE UNCHANGED apiVars
    BY <1>10 DEF apiVars
<1> QED
    BY <1>4, <1>5, <1>6, <1>7, <1>8, <1>9, <1>10 DEF ApiNext

LEMMA HealthNext == TypeInv /\ FoundInv /\ HealthInv /\ [ApiNext]_apiVars => HealthInv'
<1> SUFFICES ASSUME TypeInv, FoundInv, HealthInv, [ApiNext]_apiVars PROVE HealthInv'
    OBVIOUS
<1>1. [Next]_vars /\ (health' = health \/ (health' = checkpoint /\ UNCHANGED vars))
    BY ApiStep
<1>2. health' \in 0 .. Top
    BY <1>1, ShapeNumbers DEF HealthInv, TypeInv
<1>3. SUFFICES ASSUME ~degraded', NEW h \in 1 .. health', NEW x \in Plain(h), Has(Script[h], {x})
               PROVE  Sat(db', x)
    BY <1>2 DEF HealthInv
<1>4. ~degraded
    BY <1>1, <1>3, DegradedNext
<1>5. Sat(db, x)
    <2>1. CASE health' = health
        BY <1>3, <1>4, <2>1 DEF HealthInv
    <2>2. CASE health' = checkpoint
        <3>1. h \in Height /\ Processed(h)
            BY <2>2, ShapeNumbers DEF Processed, TypeInv
        <3> QED
            BY <1>3, <1>4, <3>1 DEF FoundInv
    <2> QED
        BY <1>1, <2>1, <2>2
<1> QED
    BY <1>1, <1>5, SatNext

LEMMA HealthAlways == ApiSpec => [](TypeInv /\ FoundInv /\ HealthInv)
<1>1. ApiInit => TypeInv /\ FoundInv /\ HealthInv
    <2>1. ApiInit => Init /\ health = 0
        BY DEF ApiInit
    <2>2. health = 0 => HealthInv
        BY Bounds DEF HealthInv
    <2> QED
        BY <2>1, <2>2, TypeInit, FoundInit
<1>2. TypeInv /\ FoundInv /\ HealthInv /\ [ApiNext]_apiVars => (TypeInv /\ FoundInv /\ HealthInv)'
    BY ApiStep, TypeNext, FoundNext, HealthNext
<1> QED
    BY <1>1, <1>2, PTL DEF ApiSpec

LEMMA ToldGives == TypeInv /\ HealthInv => ToldIsFound
<1> SUFFICES ASSUME TypeInv, HealthInv, ~degraded, NEW h \in 1 .. health, NEW i \in DOMAIN Events[h]
             PROVE  LET e == Events[h][i] IN
                    /\ e.kind = "registered" =>
                          /\ get_operator(e.op) # <<>>
                          /\ \E row \in get_all_operators : row.id = e.op
                    /\ e.kind \in {"registered", "nominated"} =>
                          e.op \in nominator_operator_ids(e.addr)
    BY DEF ToldIsFound
<1> DEFINE e == Events[h][i]
<1>1. h \in Height
    BY Bounds DEF HealthInv, Height
<1>2. e.op \in Operators /\ e.addr \in Addresses
    BY <1>1, EventFields
<1>3. ASSUME NEW x \in Plain(h), x \notin Deletes, Holds(h, i, {x}) PROVE Sat(db, x)
    <2>1. Delete1 \notin {x} /\ Delete2 \notin {x}
        BY <1>3, DeletesAre
    <2>2. Has(Script[h], {x})
        BY <1>1, <1>3, <2>1, ScriptHas
    <2> QED
        BY <1>3, <2>2 DEF HealthInv
<1>4. ASSUME NEW x \in Plain(h) PROVE x \notin Deletes
    BY <1>4, PlainKinds DEF Deletes
<1>5. ASSUME e.kind = "registered" PROVE e.op \in DOMAIN db.operators
    <2>1. OperatorSt(e.op) \in Plain(h)
        <3>1. InBlock(h, Registering(e.op))
            BY <1>1, <1>5, InBlockOf
        <3>2. OperatorSt(e.op) \in OperatorSteps(h)
            BY <1>2, <3>1 DEF OperatorSt, OperatorSteps
        <3> QED
            BY <3>2 DEF Plain
    <2>2. Holds(h, i, {OperatorSt(e.op)})
        BY <1>5 DEF Holds
    <2>3. Sat(db, OperatorSt(e.op))
        BY <1>3, <1>4, <2>1, <2>2
    <2> QED
        BY <2>3, SatIs, OperatorFields
<1>6. ASSUME e.kind \in {"registered", "nominated"} PROVE <<e.op, e.addr>> \in DOMAIN db.nominators
    <2>1. NominatorSt(e.op, e.addr, "active") \in Plain(h)
        <3>1. InBlock(h, Touching(e.op, e.addr))
            BY <1>1, <1>6, InBlockOf DEF TouchKinds
        <3> QED
            BY <1>1, <1>2, <3>1, NominatorType
    <2>2. Holds(h, i, {NominatorSt(e.op, e.addr, "active")})
        BY <1>6 DEF Holds
    <2>3. Sat(db, NominatorSt(e.op, e.addr, "active"))
        BY <1>3, <1>4, <2>1, <2>2
    <2>4. PICK x : x = NominatorSt(e.op, e.addr, "active")
        OBVIOUS
    <2>5. x.do = "nominator" /\ x.op = e.op /\ x.addr = e.addr
        BY <2>4, NominatorFields
    <2>6. Sat(db, x) <=> <<x.op, x.addr>> \in DOMAIN db.nominators
        BY <2>5, SatIs
    <2> QED
        BY <2>3, <2>4, <2>5, <2>6, Zenon
<1>7. ASSUME e.kind = "registered"
      PROVE  get_operator(e.op) # <<>> /\ \E row \in get_all_operators : row.id = e.op
    <2>1. e.op \in DOMAIN db.operators
        BY <1>5, <1>7
    <2> HIDE DEF e
    <2>2. get_operator(e.op) = <<db.operators[e.op]>>
        BY <2>1 DEF get_operator
    <2>3. [id |-> e.op, row |-> db.operators[e.op]] \in get_all_operators
        BY <2>1 DEF get_all_operators
    <2>4. [id |-> e.op, row |-> db.operators[e.op]].id = e.op
        OBVIOUS
    <2>5. get_operator(e.op) # <<>>
        BY <2>2
    <2>6. \E row \in get_all_operators : row.id = e.op
        BY <2>3, <2>4, Zenon
    <2> QED
        BY <2>5, <2>6
<1>8. ASSUME e.kind \in {"registered", "nominated"} PROVE e.op \in nominator_operator_ids(e.addr)
    <2>1. <<e.op, e.addr>> \in DOMAIN db.nominators
        BY <1>6, <1>8
    <2> HIDE DEF e
    <2>2. PICK k : k = <<e.op, e.addr>>
        OBVIOUS
    <2>3. k \in DOMAIN db.nominators /\ k[2] = e.addr /\ k[1] = e.op
        BY <2>1, <2>2
    <2> QED
        BY <2>3 DEF nominator_operator_ids
<1> QED
    BY <1>7, <1>8

(***************************************************************************)
(* Up to the block the health endpoint told, the endpoints find every      *)
(* operator that registered and, for a nominator, every operator it ever   *)
(* nominated, whatever is processed again and although the checkpoint may  *)
(* be set back; only a storage read that failed may leave a gap.           *)
(***************************************************************************)
THEOREM ToldIsFoundAlways == ApiSpec => []ToldIsFound
BY HealthAlways, ToldGives, PTL

-----------------------------------------------------------------------------
(***************************************************************************)
(* Nominator counts.                                                       *)
(***************************************************************************)
LEMMA CountsIs ==
    ASSUME NEW o, NEW x
    PROVE  /\ x \in Counts(o) => x.do = "count" /\ x.op = o
           /\ CountSt(o) \in Counts(o)
           /\ Delete1 \notin Counts(o) /\ Delete2 \notin Counts(o)
<1>1. \A y \in Counts(o) : y.do = "count" /\ y.op = o
    BY DEF Counts
<1>2. CountSt(o) \in Counts(o)
    BY DEF Counts, CountSt
<1> QED
    BY <1>1, <1>2, DeletesAre

\* A statement that counts for o.
LEMMA CountingIs ==
    ASSUME NEW h \in Height, NEW st \in Plain(h) \union Deletes, NEW o
    PROVE  Meets(st, Counts(o)) <=> st.do = "count" /\ st.op = o
<1>1. st.do # "read"
    BY PlainKinds, BodyIs
<1>2. Meets(st, Counts(o)) <=> st \in Counts(o)
    BY <1>1, MeetsPlain
<1>3. ASSUME st.do = "count", st.op = o PROVE st \in Counts(o)
    <2>1. st \in Plain(h)
        BY <1>3 DEF Deletes
    <2>2. st \in CountSteps(h)
        BY <1>3, <2>1, PlainOf
    <2> QED
        BY <1>3, <2>2 DEF CountSteps, Counts
<1> QED
    BY <1>2, <1>3, CountsIs

\* Only a block with an event of o counts for o.
LEMMA CountsFrom ==
    ASSUME NEW h \in Height, NEW o, Has(Script[h], Counts(o))
    PROVE  \E i \in DOMAIN Events[h] : Events[h][i].op = o
<1>1. PICK i \in DOMAIN Events[h] : Holds(h, i, Counts(o))
    BY CountsIs, ScriptHas
<1>2. \A x \in Counts(o) : x.do = "count" /\ x.op = o
    BY CountsIs
<1>3. /\ \A p : OperatorSt(p) \notin Counts(o) /\ StatsSt(p) \notin Counts(o)
      /\ \A p, s : StatusSt(p, s) \notin Counts(o) /\ PriceSt(p, s) \notin Counts(o)
      /\ \A p, a : FoundSt(p, a) \notin Counts(o)
      /\ \A p, a, s : NominatorSt(p, a, s) \notin Counts(o) /\ DepositSt(p, a, s) \notin Counts(o)
    <2>1. \A p : OperatorSt(p) \notin Counts(o) /\ StatsSt(p) \notin Counts(o)
        BY <1>2, OperatorFields, StatsFields
    <2>2. \A p, s : StatusSt(p, s) \notin Counts(o) /\ PriceSt(p, s) \notin Counts(o)
        BY <1>2, StatusFields, PriceFields
    <2>3. \A p, a : FoundSt(p, a) \notin Counts(o)
        BY <1>2, WithdrawalFields
    <2>4. \A p, a, s : NominatorSt(p, a, s) \notin Counts(o)
        BY <1>2, NominatorFields
    <2>5. \A p, a, s : DepositSt(p, a, s) \notin Counts(o)
        BY <1>2, DepositFields
    <2> QED
        BY <2>1, <2>2, <2>3, <2>4, <2>5
<1>4. CountSt(Events[h][i].op) \in Counts(o)
    BY <1>1, <1>3, Zenon DEF Holds
<1>5. Events[h][i].op = o
    BY <1>2, <1>4, CountFields
<1> QED
    BY <1>5

\* After a row that bears on the count of o, the block has still to count.
LEMMA ClosedCounts ==
    ASSUME NEW h \in Height, NEW s \in Forms(h), s # <<>>,
           Head(s).do \in {"operator", "nominator"}
    PROVE  /\ Has(Tail(s), Counts(Head(s).op))
           /\ \E i \in DOMAIN Tail(s) : Tail(s)[i].do = "count" /\ Tail(s)[i].op = Head(s).op
<1>1. s \in Todos(h)
    <2>1. s # Script[h] /\ s # Tail(Script[h])
        BY ScriptIs, DeletesAre
    <2> QED
        BY <2>1 DEF Forms
<1>2. s \in Seq(Body(h)) /\ Closed(s)
    BY <1>1, TodosIs
<1>3. /\ Head(s) = s[1] /\ 1 \in DOMAIN s /\ DOMAIN s = 1 .. Len(s) /\ Len(s) \in Nat
      /\ DOMAIN Tail(s) = 1 .. Len(s) - 1
      /\ \A i \in DOMAIN Tail(s) : i + 1 \in DOMAIN s /\ Tail(s)[i] = s[i + 1]
      /\ Tail(s) \in Seq(Body(h))
    BY <1>2, TailPlaces
<1>4. PICK j \in DOMAIN s : j > 1 /\ s[j].do = "count" /\ s[j].op = s[1].op
    BY <1>2, <1>3 DEF Closed
<1>5. j - 1 \in DOMAIN Tail(s) /\ (j - 1) + 1 = j
    BY <1>3, <1>4
<1>6. Tail(s)[j - 1] = s[j]
    BY <1>3, <1>5
<1>7. Tail(s)[j - 1] \in Body(h)
    BY <1>3, <1>5
<1>8. Tail(s)[j - 1] \in Plain(h)
    BY <1>4, <1>6, <1>7, BodyIs
<1>9. Meets(Tail(s)[j - 1], Counts(Head(s).op))
    BY <1>3, <1>4, <1>6, <1>8, CountingIs
<1> QED
    BY <1>3, <1>4, <1>5, <1>6, <1>9 DEF Has

\* What a statement makes of the count of o: a count with the number it found is exact, and
\* a statement that is not about the rows of o leaves an exact count exact.
CountIs(d, o) ==
    o \in DOMAIN d.operators => d.operators[o].nominator_count = Cardinality(Active(d, o))

LEMMA CountMade ==
    ASSUME NEW d \in Tables, NEW d2, NEW h \in Height, NEW st \in Plain(h) \union Deletes,
           Wrote(d, d2, h, st), st.do = "count", st.op \in Operators,
           st.op \in DOMAIN d.operators => counted[h] = Cardinality(Active(d, st.op))
    PROVE  CountIs(d2, st.op)
<1>1. CountSet(d, d2, st.op, counted[h])
    BY DEF Wrote
<1>2. Active(d2, st.op) = Active(d, st.op)
    BY WroteActive
<1> QED
    BY <1>1, <1>2 DEF CountSet, CountIs

LEMMA CountKept ==
    ASSUME NEW d \in Tables, NEW d2, NEW h \in Height, NEW st \in Plain(h) \union Deletes,
           Wrote(d, d2, h, st), NEW o \in Operators,
           ~(st.do \in {"operator", "nominator", "count"} /\ st.op = o), CountIs(d, o)
    PROVE  CountIs(d2, o)
<1>1. /\ o \in DOMAIN d2.operators =>
            o \in DOMAIN d.operators \/ (st.do = "operator" /\ st.op = o)
      /\ o \in DOMAIN d.operators /\ ~(st.do = "count" /\ st.op = o) =>
            d2.operators[o].nominator_count = d.operators[o].nominator_count
      /\ o \in DOMAIN d.operators /\ st.do = "count" /\ st.op = o =>
            d2.operators[o].nominator_count = counted[h]
    BY WroteOperators
<1>2. ~(st.do = "nominator" /\ st.op = o) => Active(d2, o) = Active(d, o)
    BY WroteActive
<1>3. ASSUME o \in DOMAIN d2.operators
      PROVE  d2.operators[o].nominator_count = Cardinality(Active(d2, o))
    <2>1. o \in DOMAIN d.operators /\ Active(d2, o) = Active(d, o)
        BY <1>1, <1>2, <1>3
    <2> QED
        BY <1>1, <2>1 DEF CountIs
<1> QED
    BY <1>3 DEF CountIs

\* The statements left after a step that are about S were there before.
LEMMA LeftNext ==
    ASSUME TypeInv, [Next]_vars, ~degraded', NEW S, NEW h \in DOMAIN todo', Has(todo'[h], S)
    PROVE  \/ h \in DOMAIN todo /\ Has(todo[h], S)
           \/ h \notin DOMAIN todo /\ todo'[h] = Script[h]
<1>1. ASSUME NEW g \in Height, StartBlock(g) PROVE
           \/ h \in DOMAIN todo /\ Has(todo[h], S)
           \/ h \notin DOMAIN todo /\ todo'[h] = Script[h]
    <2>1. /\ DOMAIN todo' = DOMAIN todo \union {g} /\ g \notin DOMAIN todo
          /\ todo'[g] = Script[g] /\ \A f \in DOMAIN todo : f # g => todo'[f] = todo[f]
        BY <1>1 DEF StartBlock, Put
    <2> QED
        BY <2>1
<1>2. ASSUME NEW g \in Height, Statement(g) PROVE h \in DOMAIN todo /\ Has(todo[h], S)
    <2>1. /\ g \in DOMAIN todo /\ todo[g] \in Forms(g) /\ todo[g] # <<>>
          /\ DOMAIN todo' = DOMAIN todo /\ todo'[g] = Tail(todo[g])
          /\ \A f \in DOMAIN todo : f # g => todo'[f] = todo[f]
        BY <1>2, StatementIs DEF TypeInv
    <2>2. CASE h # g
        BY <2>1, <2>2
    <2>3. CASE h = g
        <3>1. todo[h] \in Seq(Steps(h))
            BY <1>2, <2>1, <2>3, FormType
        <3> QED
            BY <2>1, <2>3, <3>1, HasTail
    <2> QED
        BY <2>2, <2>3
<1>3. ASSUME NEW g \in Height, ReadStorage(g) PROVE h \in DOMAIN todo /\ Has(todo[h], S)
    <2>1. /\ g \in DOMAIN todo /\ todo[g] \in Forms(g) /\ todo[g] # <<>> /\ Head(todo[g]).do = "read"
          /\ todo'[g] = Head(todo[g]).ok \o Tail(todo[g])
          /\ DOMAIN todo' = DOMAIN todo
          /\ \A f \in DOMAIN todo : f # g => todo'[f] = todo[f]
        BY <1>3, ReadIs DEF TypeInv
    <2>2. CASE h # g
        BY <2>1, <2>2
    <2>3. CASE h = g
        <3>1. Has(Head(todo[g]).ok \o Tail(todo[g]), S) <=> Has(todo[g], S)
            BY <1>3, <2>1, ReadHas
        <3> QED
            BY <2>1, <2>3, <3>1, Zenon
    <2> QED
        BY <2>2, <2>3
<1>4. ASSUME YieldBlock PROVE h \in DOMAIN todo /\ Has(todo[h], S)
    BY <1>4 DEF YieldBlock
<1>5. ASSUME todo' = todo PROVE h \in DOMAIN todo /\ Has(todo[h], S)
    BY <1>5
<1>6. todo' # Empty
    BY DEF Empty
<1> QED
    BY <1>1, <1>2, <1>3, <1>4, <1>5, <1>6 DEF Next, StartBatch, SelectCount, FinishBatch, Crash, vars,
        batchVars

\* The count a statement writes.
LEMMA FreshCount ==
    ASSUME FreshInv, NEW g \in Height, Statement(g), NEW o \in Operators \ overtaken,
           Head(todo[g]).do = "count", Head(todo[g]).op = o, o \in DOMAIN db.operators
    PROVE  counted[g] = Cardinality(Active(db, o))
BY DEF Statement, FreshInv

LEMMA FreshNext ==
    ASSUME TypeInv, FreshInv, [Next]_vars
    PROVE  FreshInv'
<1> SUFFICES ASSUME NEW o \in Operators \ overtaken', NEW g \in DOMAIN counted', Head(todo'[g]).op = o
             PROVE  counted'[g] = Cardinality(Active(db', o))
    BY DEF FreshInv
<1>1. CASE SameCounts
    <2>1. /\ o \in Operators \ overtaken /\ g \in DOMAIN counted /\ counted'[g] = counted[g]
          /\ Head(todo[g]).op = o
        BY <1>1 DEF SameCounts
    <2>2. counted[g] = Cardinality(Active(db, o))
        BY <2>1 DEF FreshInv
    <2>3. ASSUME NEW h \in Height, Statement(h) PROVE Active(db', o) = Active(db, o)
        BY <2>1, <2>3 DEF Statement, Counting
    <2>4. Active(db', o) = Active(db, o)
        BY <2>3, DbNext
    <2> QED
        BY <2>1, <2>2, <2>4
<1>2. ASSUME NEW h \in Height, SelectCount(h) PROVE counted'[g] = Cardinality(Active(db', o))
    <2>1. UNCHANGED <<todo, db>>
        BY <1>2, OthersKept, OthersAre
    <2>2. PICK n : n = Cardinality(Active(db, Head(todo[h]).op))
        OBVIOUS
    <2>3. /\ counted' = Put(counted, h, n)
          /\ overtaken' = IF Counting(Head(todo[h]).op) = {} THEN overtaken \ {Head(todo[h]).op}
                          ELSE overtaken
        BY <1>2, <2>2 DEF SelectCount
    <2>4. CASE g = h
        <3>1. counted'[g] = n
            BY <2>3, <2>4 DEF Put
        <3> QED
            BY <2>1, <2>2, <2>4, <3>1
    <2>5. CASE g # h
        <3>1. g \in DOMAIN counted /\ counted'[g] = counted[g]
            BY <2>3, <2>5 DEF Put
        <3>2. g \in Counting(o)
            BY <2>1, <3>1 DEF Counting
        <3>3. o \notin overtaken
            BY <2>3, <3>2
        <3> QED
            BY <2>1, <3>1, <3>3 DEF FreshInv
    <2> QED
        BY <2>4, <2>5
<1> QED
    BY <1>1, <1>2, CountsStep

LEMMA FreshInit == Init => FreshInv
BY DEF Init, Empty, FreshInv

LEMMA CountInit == Init => CountInv
<1> SUFFICES ASSUME Init PROVE CountInv
    OBVIOUS
<1>1. DOMAIN todo = {}
    BY DEF Init, Empty
<1>2. DOMAIN db.operators = {}
    <2>1. db.operators = Empty
        BY DEF Init
    <2> QED
        BY <2>1 DEF Empty
<1> QED
    BY <1>1, <1>2 DEF CountInv, CountOk

LEMMA CountStatement ==
    ASSUME TypeInv, FreshInv, NEW g \in Height, Statement(g), NEW o \in Operators \ overtaken,
           \A h \in DOMAIN todo : Has(todo[h], Counts(o)) => Has(Script[h], Counts(o)),
           CountOk(o) \/ \E h \in Height : Dirty(h, o)
    PROVE  CountOk(o)' \/ \E h \in Height : Dirty(h, o)'
<1>1. /\ g \in DOMAIN todo /\ todo[g] \in Forms(g) /\ todo[g] # <<>>
      /\ Head(todo[g]) \in Plain(g) \union Deletes
      /\ Wrote(db, db', g, Head(todo[g])) /\ db' \in Tables
      /\ DOMAIN todo' = DOMAIN todo /\ todo'[g] = Tail(todo[g]) /\ Tail(todo[g]) # Script[g]
      /\ \A f \in DOMAIN todo : f # g => todo'[f] = todo[f]
    BY StatementIs DEF TypeInv
<1>2. PICK st \in Plain(g) \union Deletes : st = Head(todo[g])
    BY <1>1
<1>3. UNCHANGED <<pc, next, to, checkpoint, top, torn>>
    BY DEF Statement, history
<1>4. \A h : Processed(h)' <=> Processed(h)
    BY <1>3 DEF Processed
<1>5. todo[g] \in Seq(Steps(g))
    BY <1>1, FormType
<1>6. Meets(st, Counts(o)) <=> st.do = "count" /\ st.op = o
    BY CountingIs
<1>7. Has(todo[g], Counts(o)) <=> Meets(st, Counts(o)) \/ Has(todo'[g], Counts(o))
    BY <1>1, <1>2, <1>5, HasTail
<1>8. Wrote(db, db', g, st) /\ db \in Tables
    BY <1>1, <1>2 DEF TypeInv
<1>9. CASE st.do = "count" /\ st.op = o
    <2>1. o \in DOMAIN db.operators => counted[g] = Cardinality(Active(db, o))
        BY <1>2, <1>9, FreshCount
    <2>2. CountIs(db', o)
        BY <1>8, <1>9, <2>1, CountMade
    <2> QED
        BY <2>2 DEF CountOk, CountIs
<1>10. CASE st.do \in {"operator", "nominator"} /\ st.op = o
    <2>1. Has(todo'[g], Counts(o))
        BY <1>1, <1>2, <1>10, ClosedCounts
    <2>2. Has(Script[g], Counts(o))
        BY <1>1, <1>7, <2>1
    <2>3. Dirty(g, o)'
        BY <1>1, <2>1, <2>2 DEF Dirty
    <2> QED
        BY <2>3
<1>11. CASE ~(st.do \in {"operator", "nominator", "count"} /\ st.op = o)
    <2>1. ASSUME CountOk(o) PROVE CountOk(o)'
        BY <1>8, <1>11, <2>1, CountKept DEF CountOk, CountIs
    <2>2. ASSUME NEW h \in Height, Dirty(h, o) PROVE Dirty(h, o)'
        <3>1. CASE h # g
            BY <1>1, <1>3, <1>4, <2>2, <3>1 DEF Dirty
        <3>2. CASE h = g
            <4>1. Has(todo'[g], Counts(o))
                BY <1>1, <1>6, <1>7, <1>11, <2>2, <3>2 DEF Dirty
            <4> QED
                BY <1>1, <1>3, <2>2, <3>2, <4>1 DEF Dirty
        <3> QED
            BY <3>1, <3>2
    <2> QED
        BY <2>1, <2>2
<1> QED
    BY <1>9, <1>10, <1>11

LEMMA DirtyNext ==
    ASSUME TypeInv, [Next]_vars, ~degraded', db' = db, ~(\E g \in Height : Statement(g)),
           NEW o \in Operators, NEW h \in Height, Dirty(h, o)
    PROVE  Dirty(h, o)'
<1>1. ~Processed(h) /\ h # next => ~Processed(h)'
    BY ProcessedNext
<1>2. Has(Script[h], Counts(o)) /\ (h \in DOMAIN todo => Has(todo[h], Counts(o)))
    BY DEF Dirty
<1>3. h \in torn \/ (~Processed(h) /\ h <= top) \/ (h \in DOMAIN todo /\ todo[h] # Script[h])
    BY DEF Dirty
<1>4. ~Has(<<>>, Counts(o))
    BY DEF Has
<1>5. ASSUME NEW from \in Height, NEW until \in Height, StartBatch(from, until) PROVE Dirty(h, o)'
    <2>1. pc = "idle" /\ torn' = torn /\ top' = until /\ top <= until /\ DOMAIN todo' = {}
        BY <1>5 DEF StartBatch, Empty
    <2>2. DOMAIN todo = {}
        BY <2>1 DEF TypeInv, Shape
    <2>3. ~Processed(h) => ~Processed(h)'
        BY <2>1, ProcessedNext
    <2>4. h \in Nat /\ top \in Nat /\ until \in Nat
        BY ShapeNumbers DEF TypeInv
    <2>5. h <= top => h <= top'
        BY <2>1, <2>4
    <2> QED
        BY <1>2, <1>3, <2>1, <2>2, <2>3, <2>5 DEF Dirty
<1>6. ASSUME NEW g \in Height, StartBlock(g) PROVE Dirty(h, o)'
    <2>1. /\ DOMAIN todo' = DOMAIN todo \union {g} /\ g \notin DOMAIN todo
          /\ todo'[g] = Script[g] /\ \A f \in DOMAIN todo : f # g => todo'[f] = todo[f]
        BY <1>6 DEF StartBlock, Put
    <2>2. UNCHANGED <<pc, next, checkpoint, top, torn>>
        BY <1>6 DEF StartBlock, history
    <2>3. Processed(h)' <=> Processed(h)
        BY <2>2 DEF Processed
    <2> QED
        BY <1>2, <1>3, <2>1, <2>2, <2>3 DEF Dirty
<1>7. ASSUME NEW g \in Height, ReadStorage(g) PROVE Dirty(h, o)'
    <2>1. /\ g \in DOMAIN todo /\ todo[g] \in Forms(g) /\ todo[g] # <<>> /\ Head(todo[g]).do = "read"
          /\ todo'[g] = Head(todo[g]).ok \o Tail(todo[g]) /\ todo'[g] # Script[g]
          /\ DOMAIN todo' = DOMAIN todo
          /\ \A f \in DOMAIN todo : f # g => todo'[f] = todo[f]
          /\ UNCHANGED <<pc, next, checkpoint, top, torn>>
        BY <1>7, ReadIs DEF TypeInv
    <2>2. Has(Head(todo[g]).ok \o Tail(todo[g]), Counts(o)) <=> Has(todo[g], Counts(o))
        BY <1>7, <2>1, ReadHas
    <2>3. Has(todo'[g], Counts(o)) <=> Has(todo[g], Counts(o))
        BY <2>1, <2>2, Zenon
    <2>4. Processed(h)' <=> Processed(h)
        BY <2>1 DEF Processed
    <2> QED
        BY <1>2, <1>3, <2>1, <2>3, <2>4 DEF Dirty
<1>8. ASSUME YieldBlock PROVE Dirty(h, o)'
    <2>1. /\ next \in DOMAIN todo /\ todo[next] = <<>> /\ torn' = torn \ {next} /\ top' = top
          /\ DOMAIN todo' = DOMAIN todo \ {next} /\ \A f \in DOMAIN todo' : todo'[f] = todo[f]
        BY <1>8 DEF YieldBlock
    <2>2. h # next
        BY <1>2, <1>4, <2>1
    <2> QED
        BY <1>1, <1>2, <1>3, <2>1, <2>2 DEF Dirty
<1>9. ASSUME FinishBatch PROVE Dirty(h, o)'
    <2>1. next > to /\ torn' = torn /\ top' = top /\ DOMAIN todo' = {}
        BY <1>9 DEF FinishBatch, history, Empty
    <2>2. h \notin DOMAIN todo
        BY <2>1, InFlight, ShapeNumbers DEF TypeInv
    <2>3. ~Processed(h) => ~Processed(h)'
        <3>1. ~YieldBlock \/ h # next
            BY <2>1, <2>2, ProcessedNext DEF YieldBlock
        <3> QED
            BY <3>1, ProcessedNext
    <2> QED
        BY <1>2, <1>3, <2>1, <2>2, <2>3 DEF Dirty
<1>10. ASSUME Crash PROVE Dirty(h, o)'
    <2>1. /\ DOMAIN todo' = {} /\ top' = top /\ checkpoint' = checkpoint /\ pc' = "idle"
          /\ torn' = torn \union {g \in DOMAIN todo : /\ g <= checkpoint
                                                      /\ todo[g] \notin {<<>>, Script[g]}}
        BY <1>10 DEF Crash, Empty
    <2>2. Processed(h)' => h <= checkpoint
        BY <2>1 DEF Processed
    <2>3. CASE h \in torn
        BY <1>2, <2>1, <2>3 DEF Dirty
    <2>4. CASE ~Processed(h) /\ h <= top
        BY <1>2, <2>1, <2>2, <2>4 DEF Dirty, Processed
    <2>5. CASE h \in DOMAIN todo /\ todo[h] # Script[h]
        <3>1. todo[h] # <<>> /\ h <= top
            BY <1>2, <1>4, <2>5, InFlight, ShapeNumbers DEF TypeInv
        <3>2. h <= checkpoint => h \in torn'
            BY <2>1, <2>5, <3>1
        <3> QED
            BY <1>2, <2>1, <2>2, <3>1, <3>2 DEF Dirty
    <2> QED
        BY <1>3, <2>3, <2>4, <2>5
<1>11. ASSUME UNCHANGED others PROVE Dirty(h, o)'
    <2>1. UNCHANGED <<pc, next, to, todo, checkpoint, top, torn>>
        BY <1>11, OthersAre
    <2> QED
        BY <2>1 DEF Dirty, Processed
<1> QED
    BY <1>5, <1>6, <1>7, <1>8, <1>9, <1>10, <1>11, OthersKept DEF Next

\* A block whose next statement is a count has still to count.
LEMMA CountAhead ==
    ASSUME TypeInv, NEW h \in DOMAIN todo, todo[h] # <<>>, Head(todo[h]).do = "count",
           NEW o \in Operators, Head(todo[h]).op = o,
           \A g \in DOMAIN todo : Has(todo[g], Counts(o)) => Has(Script[g], Counts(o))
    PROVE  Dirty(h, o)
<1>1. h \in Height /\ todo[h] \in Forms(h)
    BY InFlight DEF TypeInv
<1>2. todo[h] \in Seq(Steps(h)) /\ Head(todo[h]) \in Plain(h) \union Deletes
    BY <1>1, FormType, FormTail
<1>3. Meets(Head(todo[h]), Counts(o))
    BY <1>1, <1>2, CountingIs
<1>4. Has(todo[h], Counts(o))
    BY <1>2, <1>3, HasTail
<1>5. todo[h] # Script[h]
    BY <1>1, ScriptIs, DeletesAre
<1> QED
    BY <1>4, <1>5 DEF Dirty

LEMMA CountNext == TypeInv /\ FreshInv /\ CountInv /\ [Next]_vars => CountInv'
<1> SUFFICES ASSUME TypeInv, FreshInv, CountInv, [Next]_vars, ~degraded' PROVE CountInv'
    BY DEF CountInv
<1>1. /\ \A h \in DOMAIN todo, o \in Operators :
            Has(todo[h], Counts(o)) => Has(Script[h], Counts(o))
      /\ \A o \in Operators \ overtaken : CountOk(o) \/ \E h \in Height : Dirty(h, o)
    BY DegradedNext DEF CountInv
<1>2. ASSUME NEW h \in DOMAIN todo', NEW o \in Operators, Has(todo'[h], Counts(o))
      PROVE  Has(Script[h], Counts(o))
    BY <1>1, <1>2, LeftNext
<1>3. ASSUME NEW o \in Operators \ overtaken' PROVE CountOk(o)' \/ \E h \in Height : Dirty(h, o)'
    <2>0. CASE o \in overtaken
        <3>1. PICK h \in Height : SelectCount(h)
            BY <1>3, <2>0, CountsStep DEF SameCounts
        <3>2. /\ h \in DOMAIN todo /\ todo[h] # <<>> /\ Head(todo[h]).do = "count"
              /\ Head(todo[h]).op = o
            BY <1>3, <2>0, <3>1 DEF SelectCount
        <3>3. UNCHANGED <<pc, next, to, todo, checkpoint, top, torn>>
            BY <3>1, OthersKept, OthersAre
        <3>4. Dirty(h, o)
            BY <1>1, <3>2, CountAhead
        <3>5. Dirty(h, o)'
            BY <3>3, <3>4 DEF Dirty, Processed
        <3> QED
            BY <3>5
    <2>1. CASE o \notin overtaken /\ \E g \in Height : Statement(g)
        BY <1>1, <1>3, <2>1, CountStatement
    <2>2. CASE o \notin overtaken /\ ~(\E g \in Height : Statement(g))
        <3>1. db' = db
            BY <2>2, DbNext
        <3>2. CountOk(o) => CountOk(o)'
            BY <3>1 DEF CountOk
        <3>3. ASSUME NEW h \in Height, Dirty(h, o) PROVE Dirty(h, o)'
            BY <2>2, <3>1, <3>3, DirtyNext
        <3> QED
            BY <1>1, <1>3, <2>2, <3>2, <3>3
    <2> QED
        BY <2>0, <2>1, <2>2
<1> QED
    BY <1>2, <1>3 DEF CountInv

LEMMA CountGives == TypeInv /\ CountInv => CountsExact
<1> SUFFICES ASSUME TypeInv, CountInv, pc = "idle", checkpoint = top, ~degraded,
                    NEW o \in DOMAIN db.operators \ overtaken,
                    \A h \in torn : \A i \in DOMAIN Events[h] : Events[h][i].op # o
             PROVE  db.operators[o].nominator_count = Cardinality(Active(db, o))
    BY DEF CountsExact, Settled
<1>1. o \in Operators
    BY RowIs DEF TypeInv
<1>2. ASSUME NEW h \in Height, Dirty(h, o) PROVE FALSE
    <2>1. DOMAIN todo = {}
        BY DEF TypeInv, Shape
    <2>2. h \notin torn
        BY <1>2, CountsFrom DEF Dirty
    <2>3. h <= top => Processed(h)
        BY DEF Processed
    <2> QED
        BY <1>2, <2>1, <2>2, <2>3 DEF Dirty
<1> QED
    BY <1>1, <1>2 DEF CountInv, CountOk

(***************************************************************************)
(* Once the processor has caught up, an operator's nominator count is the  *)
(* number of its active nominators, however the two statements of          *)
(* upsert_nominator and those of parallel blocks interleaved, and after    *)
(* any crashes, but for operators of a block whose rewrite was cut short   *)
(* and for those whose nominators changed while a count was under way: the *)
(* count's snapshot is older than its write, so an old number may be       *)
(* written last, and stays until no other count is under way.              *)
(***************************************************************************)
THEOREM CountsExactAlways == Spec => []CountsExact
<1>1. TypeInv /\ FreshInv /\ CountInv /\ [Next]_vars => (TypeInv /\ FreshInv /\ CountInv)'
    BY TypeNext, FreshNext, CountNext
<1> QED
    BY <1>1, TypeInit, FreshInit, CountInit, CountGives, PTL DEF Spec

-----------------------------------------------------------------------------
LEMMA RawTail ==
    ASSUME NEW X, NEW s \in Seq(X), s # <<>>, NEW o, Raw(s, o),
           ~(Head(s).do = "count" /\ Head(s).op = o)
    PROVE  Raw(Tail(s), o)
<1>1. /\ Head(s) = s[1] /\ DOMAIN s = 1 .. Len(s) /\ Len(s) \in Nat
      /\ \A i \in DOMAIN Tail(s) : i + 1 \in DOMAIN s /\ Tail(s)[i] = s[i + 1]
      /\ \A i \in DOMAIN s : i = 1 \/ i - 1 \in DOMAIN Tail(s)
    BY TailPlaces
<1>2. PICK i \in DOMAIN s : s[i].do = "count" /\ s[i].op = o
    BY DEF Raw
<1>3. i - 1 \in DOMAIN Tail(s) /\ (i - 1) + 1 = i
    BY <1>1, <1>2
<1>4. Tail(s)[i - 1] = s[i]
    BY <1>1, <1>3
<1> QED
    BY <1>2, <1>3, <1>4 DEF Raw

LEMMA RawConcat ==
    ASSUME NEW X, NEW s \in Seq(X), NEW t \in Seq(X), NEW o, Raw(t, o)
    PROVE  Raw(s \o t, o)
<1>1. PICK r \in Seq(X) : Joins(r, s, t)
    BY JoinsExist
<1>2. r = s \o t
    BY <1>1 DEF Joins
<1>3. PICK i \in DOMAIN t : t[i].do = "count" /\ t[i].op = o
    BY DEF Raw
<1>4. Len(s) + i \in DOMAIN r /\ r[Len(s) + i] = t[i]
    BY <1>1, JoinsRight
<1>5. Raw(r, o)
    BY <1>3, <1>4 DEF Raw
<1> QED
    BY <1>2, <1>5

LEMMA RawNext ==
    ASSUME TypeInv, FreshInv, [Next]_vars, failures' = 0, NEW o \in Operators \ overtaken',
           o \in overtaken \/ CountOk(o) \/ \E h \in DOMAIN todo : Raw(todo[h], o)
    PROVE  CountOk(o)' \/ \E h \in DOMAIN todo' : Raw(todo'[h], o)
<1>0. failures \in Nat
    BY ShapeNumbers DEF TypeInv
<1>1. ASSUME NEW g \in Height, Statement(g)
      PROVE  CountOk(o)' \/ \E h \in DOMAIN todo' : Raw(todo'[h], o)
    <2>0. o \in Operators \ overtaken
        BY <1>1 DEF Statement
    <2>1. /\ g \in DOMAIN todo /\ todo[g] \in Forms(g) /\ todo[g] # <<>>
          /\ Head(todo[g]) \in Plain(g) \union Deletes
          /\ Wrote(db, db', g, Head(todo[g])) /\ db' \in Tables /\ db \in Tables
          /\ DOMAIN todo' = DOMAIN todo /\ todo'[g] = Tail(todo[g])
          /\ \A f \in DOMAIN todo : f # g => todo'[f] = todo[f]
        BY <1>1, StatementIs DEF TypeInv
    <2>2. PICK st \in Plain(g) \union Deletes : st = Head(todo[g])
        BY <2>1
    <2>3. CASE st.do = "count" /\ st.op = o
        <3>1. o \in DOMAIN db.operators => counted[g] = Cardinality(Active(db, o))
            BY <1>1, <2>0, <2>2, <2>3, FreshCount
        <3>2. Wrote(db, db', g, st) /\ o \in Operators
            BY <2>0, <2>1, <2>2
        <3>3. CountIs(db', o)
            BY <1>1, <2>1, <2>3, <3>1, <3>2, CountMade
        <3> QED
            BY <3>3 DEF CountOk, CountIs
    <2>4. CASE st.do \in {"operator", "nominator"} /\ st.op = o
        <3>1. Raw(todo'[g], o)
            BY <1>1, <2>1, <2>2, <2>4, ClosedCounts DEF Raw
        <3> QED
            BY <2>1, <3>1
    <2>5. CASE ~(st.do \in {"operator", "nominator", "count"} /\ st.op = o)
        <3>1. ASSUME CountOk(o) PROVE CountOk(o)'
            BY <1>1, <2>0, <2>1, <2>2, <2>5, <3>1, CountKept DEF CountOk, CountIs
        <3>2. ASSUME NEW h \in DOMAIN todo, Raw(todo[h], o) PROVE Raw(todo'[h], o)
            <4>1. CASE h # g
                BY <2>1, <3>2, <4>1
            <4>2. CASE h = g
                <5>1. todo[g] \in Seq(Steps(g))
                    BY <1>1, <2>1, FormType
                <5>2. Raw(Tail(todo[g]), o)
                    BY <2>1, <2>2, <2>5, <3>2, <4>2, <5>1, RawTail
                <5> QED
                    BY <2>1, <4>2, <5>2
            <4> QED
                BY <4>1, <4>2
        <3> QED
            BY <2>0, <2>1, <3>1, <3>2
    <2> QED
        BY <2>3, <2>4, <2>5
<1>2. ASSUME NEW g \in Height, ReadStorage(g), NEW h \in DOMAIN todo, Raw(todo[h], o)
      PROVE  h \in DOMAIN todo' /\ Raw(todo'[h], o)
    <2>1. /\ g \in DOMAIN todo /\ todo[g] \in Forms(g) /\ todo[g] # <<>> /\ Head(todo[g]).do = "read"
          /\ DOMAIN todo' = DOMAIN todo
          /\ \A f \in DOMAIN todo : f # g => todo'[f] = todo[f]
          /\ \/ todo'[g] = Head(todo[g]).ok \o Tail(todo[g])
             \/ failures' = failures + 1
        BY <1>2, ReadIs DEF TypeInv
    <2>2. todo'[g] = Head(todo[g]).ok \o Tail(todo[g])
        BY <1>0, <2>1
    <2>3. CASE h # g
        BY <1>2, <2>1, <2>3
    <2>4. CASE h = g
        <3>1. PICK ok \in Seq(Body(g)) : ok = Head(todo[g]).ok /\ todo[g] \in Seq(Body(g))
            BY <1>2, <2>1, FormRead
        <3>2. Raw(Tail(todo[g]), o)
            BY <1>2, <2>1, <2>4, <3>1, RawTail
        <3>3. Tail(todo[g]) \in Seq(Body(g))
            BY <2>1, <3>1
        <3>4. PICK t \in Seq(Body(g)) : t = Tail(todo[g])
            BY <3>3
        <3>5. Raw(ok \o t, o)
            BY <3>2, <3>4, RawConcat
        <3>6. todo'[g] = ok \o t
            BY <2>2, <3>1, <3>4
        <3> QED
            BY <2>1, <2>4, <3>5, <3>6
    <2> QED
        BY <2>3, <2>4
<1>3. ASSUME NEW g \in Height, StartBlock(g), NEW h \in DOMAIN todo, Raw(todo[h], o)
      PROVE  h \in DOMAIN todo' /\ Raw(todo'[h], o)
    <2>1. /\ DOMAIN todo' = DOMAIN todo \union {g} /\ g \notin DOMAIN todo
          /\ \A f \in DOMAIN todo : f # g => todo'[f] = todo[f]
        BY <1>3 DEF StartBlock, Put
    <2> QED
        BY <1>3, <2>1
<1>4. ASSUME YieldBlock, NEW h \in DOMAIN todo, Raw(todo[h], o)
      PROVE  h \in DOMAIN todo' /\ Raw(todo'[h], o)
    <2>1. ~Raw(<<>>, o)
        BY DEF Raw
    <2> QED
        BY <1>4, <2>1 DEF YieldBlock
<1>5. ASSUME NEW from, NEW until, StartBatch(from, until) PROVE DOMAIN todo = {}
    BY <1>5 DEF StartBatch, TypeInv, Shape
<1>6. ASSUME FinishBatch PROVE DOMAIN todo = {}
    <2>1. ASSUME NEW h \in DOMAIN todo PROVE FALSE
        <3>1. h \in next .. to /\ next > to
            BY <1>6, <2>1, InFlight DEF FinishBatch, TypeInv
        <3>2. next \in Nat /\ to \in Nat
            BY ShapeNumbers DEF TypeInv
        <3> QED
            BY <3>1, <3>2
    <2> QED
        BY <2>1
<1>7. ~Crash
    BY <1>0 DEF Crash
<1>8. CASE \E g \in Height : Statement(g)
    BY <1>1, <1>8
<1>9. CASE ~(\E g \in Height : Statement(g))
    <2>1. db' = db
        BY <1>9, DbNext
    <2>2. CountOk(o) => CountOk(o)'
        BY <2>1 DEF CountOk
    <2>3. ASSUME NEW h \in DOMAIN todo, Raw(todo[h], o) PROVE h \in DOMAIN todo' /\ Raw(todo'[h], o)
        <3>1. ASSUME UNCHANGED others PROVE todo' = todo
            BY <3>1, OthersAre
        <3> QED
            BY <1>2, <1>3, <1>4, <1>5, <1>6, <1>7, <1>9, <2>3, <3>1, OthersKept DEF Next
    <2>4. CASE o \in overtaken
        <3>1. PICK h \in Height : SelectCount(h)
            BY <2>4, CountsStep DEF SameCounts
        <3>2. /\ h \in DOMAIN todo /\ todo[h] # <<>> /\ Head(todo[h]).do = "count"
              /\ Head(todo[h]).op = o
            BY <2>4, <3>1 DEF SelectCount
        <3>3. todo' = todo
            BY <3>1, OthersKept, OthersAre
        <3>4. todo[h] \in Seq(Steps(h))
            BY <3>2, InFlight, FormType DEF TypeInv
        <3>5. Raw(todo[h], o)
            <4>1. Head(todo[h]) = todo[h][1] /\ 1 \in DOMAIN todo[h]
                BY <3>2, <3>4, TailPlaces
            <4> QED
                BY <3>2, <4>1 DEF Raw
        <3> QED
            BY <3>2, <3>3, <3>5
    <2> QED
        BY <2>2, <2>3, <2>4
<1> QED
    BY <1>8, <1>9

LEMMA FailuresNext ==
    ASSUME TypeInv, [Next]_vars, failures' = 0
    PROVE  failures = 0
<1>0. failures \in Nat
    BY ShapeNumbers DEF TypeInv
<1>1. ASSUME NEW g \in Height, ReadStorage(g) PROVE failures' = failures \/ failures' = failures + 1
    BY <1>1, ReadIs DEF TypeInv
<1>2. failures' = failures \/ failures' = failures + 1
    BY <1>1 DEF Next, StartBatch, StartBlock, SelectCount, Statement, YieldBlock, FinishBatch, Crash,
                vars, history
<1> QED
    BY <1>0, <1>2

LEMMA RawAlways == ApiSpec => [](TypeInv /\ FreshInv /\ RawInv)
<1>1. Init => RawInv
    <2> SUFFICES ASSUME Init PROVE RawInv
        OBVIOUS
    <2>1. db.operators = Empty
        BY DEF Init
    <2> QED
        BY <2>1 DEF RawInv, CountOk, Empty
<1>2. TypeInv /\ FreshInv /\ RawInv /\ [Next]_vars => RawInv'
    BY RawNext, FailuresNext DEF RawInv
<1>3. ApiInit => TypeInv /\ FreshInv /\ RawInv
    BY <1>1, TypeInit, FreshInit DEF ApiInit
<1>4. TypeInv /\ FreshInv /\ RawInv /\ [ApiNext]_apiVars => (TypeInv /\ FreshInv /\ RawInv)'
    BY <1>2, ApiStep, TypeNext, FreshNext
<1> QED
    BY <1>3, <1>4, PTL DEF ApiSpec

(***************************************************************************)
(* Without failures, the nominator count in an operator's row and the one  *)
(* counted for the other endpoint are equal whenever no block in flight    *)
(* has still to count for it, unless the operator's nominators changed     *)
(* between the snapshot of a count and its write.                          *)
(***************************************************************************)
THEOREM CountsAgreeAlways == ApiSpec => []CountsAgree
<1>1. TypeInv /\ RawInv => CountsAgree
    <2> SUFFICES ASSUME TypeInv, RawInv, failures = 0, NEW o \in DOMAIN db.operators \ overtaken,
                        ~(\E h \in DOMAIN todo : Raw(todo[h], o))
                 PROVE  get_operator(o)[1].nominator_count = operator_nominator_count(o)
        BY DEF CountsAgree, Raw
    <2>1. o \in Operators
        BY RowIs DEF TypeInv
    <2>2. db.operators[o].nominator_count = Cardinality(Active(db, o))
        BY <2>1 DEF RawInv, CountOk
    <2>3. get_operator(o)[1] = db.operators[o]
        BY DEF get_operator
    <2> QED
        BY <2>2, <2>3 DEF operator_nominator_count
<1> QED
    BY <1>1, RawAlways, PTL

-----------------------------------------------------------------------------
(***************************************************************************)
(* Nominators.                                                             *)
(***************************************************************************)
LEMMA NomWritesIs ==
    ASSUME NEW o, NEW a, NEW T
    PROVE  /\ \A x \in NomWrites(o, a, T) :
                 x.do = "nominator" /\ x.op = o /\ x.addr = a /\ x.status \in T
           /\ \A p, b, s : NominatorSt(p, b, s) \in NomWrites(o, a, T) <=> p = o /\ b = a /\ s \in T
           /\ Delete1 \notin NomWrites(o, a, T) /\ Delete2 \notin NomWrites(o, a, T)
<1>1. \A x \in NomWrites(o, a, T) : x.do = "nominator" /\ x.op = o /\ x.addr = a /\ x.status \in T
    BY DEF NomWrites
<1>2. \A p, b, s : NominatorSt(p, b, s) \in NomWrites(o, a, T) => p = o /\ b = a /\ s \in T
    BY <1>1, NominatorFields
<1>3. \A p, b, s : p = o /\ b = a /\ s \in T => NominatorSt(p, b, s) \in NomWrites(o, a, T)
    BY DEF NominatorSt, NomWrites
<1> QED
    BY <1>1, <1>2, <1>3, DeletesAre

\* The events whose statements write the row of a nominator.
LEMMA HoldsNom ==
    ASSUME NEW h \in Height, NEW i \in DOMAIN Events[h], NEW o, NEW a, NEW T
    PROVE  Holds(h, i, NomWrites(o, a, T)) <=>
           LET e == Events[h][i] IN
           /\ e.op = o /\ e.addr = a
           /\ \/ e.kind \in {"registered", "nominated"} /\ "active" \in T
              \/ e.kind = "nominatorUnlocked" /\ "withdrawn" \in T
              \/ e.kind = "stakedUnlocked" /\ NominatorAt(o, a, h) \in T
<1>1. \A x \in NomWrites(o, a, T) : x.do = "nominator"
    BY NomWritesIs
<1>2. \A p : /\ OperatorSt(p) \notin NomWrites(o, a, T) /\ StatsSt(p) \notin NomWrites(o, a, T)
             /\ CountSt(p) \notin NomWrites(o, a, T)
    BY <1>1, OperatorFields, StatsFields, CountFields
<1>3. \A p, s : StatusSt(p, s) \notin NomWrites(o, a, T) /\ PriceSt(p, s) \notin NomWrites(o, a, T)
    BY <1>1, StatusFields, PriceFields
<1>4. \A p, b : FoundSt(p, b) \notin NomWrites(o, a, T)
    BY <1>1, WithdrawalFields
<1>5. \A p, b, s : DepositSt(p, b, s) \notin NomWrites(o, a, T)
    BY <1>1, DepositFields
<1>6. \A p, b, s : NominatorSt(p, b, s) \in NomWrites(o, a, T) <=> p = o /\ b = a /\ s \in T
    BY NomWritesIs
<1> QED
    BY <1>2, <1>3, <1>4, <1>5, <1>6 DEF Holds

LEMMA EndsHas ==
    ASSUME NEW s, NEW G, NEW B, Has(s, G), ~Has(s, B)
    PROVE  Ends(s, G, B)
BY DEF Has, Ends

LEMMA EndsMore ==
    ASSUME NEW X, NEW s \in Seq(X), s # <<>>, NEW G, NEW B, Ends(Tail(s), G, B)
    PROVE  Ends(s, G, B)
<1>1. /\ DOMAIN s = 1 .. Len(s) /\ Len(s) \in Nat /\ DOMAIN Tail(s) = 1 .. Len(s) - 1
      /\ \A i \in DOMAIN Tail(s) : i + 1 \in DOMAIN s /\ Tail(s)[i] = s[i + 1]
      /\ \A i \in DOMAIN s : i = 1 \/ i - 1 \in DOMAIN Tail(s)
    BY TailPlaces
<1>2. PICK i \in DOMAIN Tail(s) :
         Meets(Tail(s)[i], G) /\ \A j \in DOMAIN Tail(s) : j >= i => ~Meets(Tail(s)[j], B)
    BY DEF Ends
<1>3. i + 1 \in DOMAIN s /\ Meets(s[i + 1], G)
    BY <1>1, <1>2
<1>4. ASSUME NEW j \in DOMAIN s, j >= i + 1 PROVE ~Meets(s[j], B)
    <2>1. j - 1 \in DOMAIN Tail(s) /\ j - 1 >= i /\ (j - 1) + 1 = j
        BY <1>1, <1>4
    <2>2. Tail(s)[j - 1] = s[j]
        BY <1>1, <2>1
    <2> QED
        BY <1>2, <2>1, <2>2
<1> QED
    BY <1>3, <1>4 DEF Ends

LEMMA ScriptEnds ==
    ASSUME NEW h \in Height, NEW G, NEW B, Ends(Rest(h), G, B)
    PROVE  Ends(Script[h], G, B) /\ Ends(Tail(Script[h]), G, B)
<1>1. PICK X : X = Steps(h)
    OBVIOUS
<1>2. PICK s \in Seq(X) : s = Script[h]
    BY <1>1, ScriptIs
<1>3. PICK t \in Seq(X) : t = Tail(s)
    BY <1>1, <1>2, ScriptIs
<1>4. s # <<>> /\ t # <<>> /\ Tail(t) = Rest(h)
    BY <1>2, <1>3, ScriptIs
<1>5. Ends(t, G, B)
    BY <1>4, EndsMore
<1>6. Ends(s, G, B)
    BY <1>3, <1>4, <1>5, EndsMore
<1> QED
    BY <1>2, <1>3, <1>5, <1>6

\* The nominators a block touches.
UnlocksIn(h, o, a) ==
    \E i \in DOMAIN Events[h] :
        /\ Events[h][i].kind \in {"nominatorUnlocked", "stakedUnlocked"}
        /\ Events[h][i].op = o /\ Events[h][i].addr = a

LEMMA TouchedIs ==
    ASSUME NEW h \in Height, NEW o \in Operators, NEW a \in Addresses, InBlock(h, Touching(o, a))
    PROVE  /\ h \in 0 .. Top /\ h \in 1 .. h
           /\ NominatorAt(o, a, h) \in {"active", "withdrawn"}
           /\ \E i \in DOMAIN Events[h] :
                 Events[h][i].kind \in TouchKinds /\ Events[h][i].op = o /\ Events[h][i].addr = a
           /\ NominatorAt(o, a, h) = "withdrawn" => UnlocksIn(h, o, a)
<1>1. h \in 0 .. Top /\ h \in 1 .. h
    BY EventsType DEF Height
<1>2. PICK i \in DOMAIN Events[h] :
         Events[h][i].kind \in TouchKinds /\ Events[h][i].op = o /\ Events[h][i].addr = a
    BY DEF InBlock, Touching
<1>3. <<h, i>> \in Touches(o, a, h)
    BY <1>1, <1>2, TouchesIs
<1>4. NominatorAt(o, a, h) \in {"active", "withdrawn"}
    BY <1>1, <1>3, NominatorAtIs
<1>5. PICK p \in Touches(o, a, h) :
         /\ \A q \in Touches(o, a, h) : NotBefore(p, q)
         /\ NominatorAt(o, a, h) = "withdrawn" <=> Leaves(Events[p[1]][p[2]])
    BY <1>1, <1>3, NominatorAtIs
<1>6. /\ p[1] \in 1 .. h /\ p[2] \in DOMAIN Events[p[1]]
      /\ Events[p[1]][p[2]].op = o /\ Events[p[1]][p[2]].addr = a
    BY <1>1, TouchesIs
<1>7. p[1] = h
    <2>1. PICK q : q = <<h, i>>
        OBVIOUS
    <2>2. NotBefore(p, q)
        BY <1>3, <1>5, <2>1
    <2>4. q[1] = h
        BY <2>1
    <2>3. p[1] > h \/ p[1] = h
        BY <2>2, <2>4 DEF NotBefore
    <2> QED
        BY <1>1, <1>6, <2>3
<1>8. ASSUME NominatorAt(o, a, h) = "withdrawn"
      PROVE  Events[h][p[2]].kind \in {"nominatorUnlocked", "stakedUnlocked"}
    BY <1>5, <1>7, <1>8 DEF Leaves
<1> QED
    BY <1>1, <1>2, <1>4, <1>6, <1>7, <1>8 DEF UnlocksIn

\* A block writes the status a nominator has after it last.
LEMMA ScriptNom ==
    ASSUME NEW h \in Height, NEW o \in Operators, NEW a \in Addresses, InBlock(h, Touching(o, a))
    PROVE  /\ Ends(Script[h], NomGood(o, a, h), NomBad(o, a, h))
           /\ Ends(Tail(Script[h]), NomGood(o, a, h), NomBad(o, a, h))
<1>1. PICK n : n = NominatorAt(o, a, h)
    OBVIOUS
<1>2. PICK T : T = {"active", "withdrawn"} \ {n}
    OBVIOUS
<1>3. PICK G, B : /\ G = NomWrites(o, a, {n}) /\ B = NomWrites(o, a, T)
                  /\ G = NomGood(o, a, h) /\ B = NomBad(o, a, h)
    BY <1>1, <1>2 DEF NomGood, NomBad
<1>4. n \in {"active", "withdrawn"}
    BY <1>1, TouchedIs
<1>5. ASSUME NEW i \in DOMAIN Events[h]
      PROVE  Holds(h, i, B) <=> /\ Events[h][i].op = o /\ Events[h][i].addr = a
                                /\ n = "withdrawn" /\ Events[h][i].kind \in {"registered", "nominated"}
    <2>1. "active" \in T <=> n = "withdrawn"
        BY <1>2, <1>4
    <2>2. "withdrawn" \in T <=> n = "active"
        BY <1>2, <1>4
    <2>3. NominatorAt(o, a, h) \notin T
        BY <1>1, <1>2
    <2>4. Events[h][i].kind = "nominatorUnlocked" /\ Events[h][i].op = o /\ Events[h][i].addr = a
            => n = "withdrawn"
        BY <1>1, ChainAssumption
    <2>5. Holds(h, i, NomWrites(o, a, T)) <=>
             /\ Events[h][i].op = o /\ Events[h][i].addr = a
             /\ \/ Events[h][i].kind \in {"registered", "nominated"} /\ "active" \in T
                \/ Events[h][i].kind = "nominatorUnlocked" /\ "withdrawn" \in T
                \/ Events[h][i].kind = "stakedUnlocked" /\ NominatorAt(o, a, h) \in T
        BY HoldsNom
    <2>6. Holds(h, i, B) <=> Holds(h, i, NomWrites(o, a, T))
        BY <1>3, Zenon
    <2> QED
        BY <1>4, <2>1, <2>2, <2>3, <2>4, <2>5, <2>6
<1>6. ASSUME NEW i \in DOMAIN Events[h], Events[h][i].op = o, Events[h][i].addr = a,
             \/ Events[h][i].kind \in {"nominatorUnlocked", "stakedUnlocked"}
             \/ Events[h][i].kind \in {"registered", "nominated"} /\ n = "active"
      PROVE  Holds(h, i, G)
    <2>1. Events[h][i].kind = "nominatorUnlocked" => n = "withdrawn"
        BY <1>1, <1>6, ChainAssumption
    <2>5. Holds(h, i, NomWrites(o, a, {n})) <=>
             /\ Events[h][i].op = o /\ Events[h][i].addr = a
             /\ \/ Events[h][i].kind \in {"registered", "nominated"} /\ "active" \in {n}
                \/ Events[h][i].kind = "nominatorUnlocked" /\ "withdrawn" \in {n}
                \/ Events[h][i].kind = "stakedUnlocked" /\ NominatorAt(o, a, h) \in {n}
        BY HoldsNom
    <2>6. Holds(h, i, G) <=> Holds(h, i, NomWrites(o, a, {n}))
        BY <1>3, Zenon
    <2> QED
        BY <1>1, <1>6, <2>1, <2>5, <2>6
<1>7. Ends(Rest(h), G, B)
    <2>1. CASE n = "active"
        <3>1. PICK i \in DOMAIN Events[h] :
                 Events[h][i].kind \in TouchKinds /\ Events[h][i].op = o /\ Events[h][i].addr = a
            BY TouchedIs
        <3>2. Holds(h, i, G)
            BY <1>6, <2>1, <3>1 DEF TouchKinds
        <3>3. Has(Rest(h), G)
            BY <3>2, RestHas
        <3>4. ~Has(Rest(h), B)
            BY <1>5, <2>1, RestHas
        <3> QED
            BY <3>3, <3>4, EndsHas
    <2>2. CASE n = "withdrawn"
        <3>1. PICK i \in DOMAIN Events[h] : /\ Events[h][i].kind \in {"nominatorUnlocked", "stakedUnlocked"}
                                            /\ Events[h][i].op = o /\ Events[h][i].addr = a
            <4>1. NominatorAt(o, a, h) = "withdrawn"
                BY <1>1, <2>2
            <4> QED
                BY <4>1, TouchedIs DEF UnlocksIn
        <3>2. PICK k \in {8, 9} : Order[k] = Events[h][i].kind
            BY <3>1, OrderIs
        <3>3. PICK ss \in Seq(Seq(Body(h))) :
                 ss = Parts10(h) /\ DOMAIN ss = 1 .. 10 /\ \A j \in 1 .. 10 : ss[j] = OfKind(h, Order[j])
            BY PartsType
        <3>4. Has(ss[k], G) /\ k \in DOMAIN ss
            BY <1>6, <3>1, <3>2, <3>3, OfKindHas
        <3>5. ASSUME NEW j \in {8, 9, 10} PROVE ~Has(ss[j], B)
            <4>1. Order[j] \notin {"registered", "nominated"} /\ j \in 1 .. 10
                BY OrderIs
            <4>2. Has(OfKind(h, Order[j]), B) <=>
                     \E m \in DOMAIN Events[h] : Events[h][m].kind = Order[j] /\ Holds(h, m, B)
                BY OfKindHas
            <4> QED
                BY <1>5, <3>3, <4>1, <4>2
        <3>6. Ends(ss[k], G, B)
            BY <3>2, <3>4, <3>5, EndsHas
        <3>7. \A j \in DOMAIN ss : j > k => ~Has(ss[j], B)
            BY <3>2, <3>3, <3>5
        <3>8. Ends(Flat(ss), G, B)
            BY <3>4, <3>6, <3>7, EndsFlat
        <3> QED
            BY <3>3, <3>8 DEF Rest
    <2> QED
        BY <1>4, <2>1, <2>2
<1> QED
    BY <1>3, <1>7, ScriptEnds

\* What a statement of block g makes of the row that block h is about.
LEMMA RowKept ==
    ASSUME NEW d \in Tables, NEW d2, NEW g \in Height, NEW st \in Plain(g) \union Deletes,
           Wrote(d, d2, g, st), NEW o \in Operators, NEW a \in Addresses, NEW h \in Height,
           RowIn(d, o, a, h), g = h => ~Meets(st, NomBad(o, a, h)),
           NominatorAt(o, a, h) \in {"active", "withdrawn"}
    PROVE  RowIn(d2, o, a, h)
<1>1. CASE ~(st.do = "nominator" /\ st.op = o /\ st.addr = a)
    <2>1. PICK k : k = <<o, a>>
        OBVIOUS
    <2>2. k \in DOMAIN d.nominators
        BY <2>1 DEF RowIn
    <2>3. k \in DOMAIN d2.nominators /\ d2.nominators[k] = d.nominators[k]
        <3>1. CASE st.do # "nominator"
            BY <2>2, <3>1, WroteOther
        <3>2. CASE st.do = "nominator"
            <4>1. k # <<st.op, st.addr>>
                BY <1>1, <2>1, <3>2
            <4>2. NominatorPut(d, d2, st.op, st.addr, st.status, g)
                BY <3>2 DEF Wrote
            <4> QED
                BY <2>2, <4>1, <4>2 DEF NominatorPut
        <3> QED
            BY <3>1, <3>2
    <2> QED
        BY <2>1, <2>3 DEF RowIn
<1>2. CASE st.do = "nominator" /\ st.op = o /\ st.addr = a
    <2>1. st \in Plain(g)
        BY <1>2 DEF Deletes
    <2>2. st \in NominatorSteps(g)
        BY <1>2, <2>1, PlainOf
    <2>3. st.status \in {"active", "withdrawn"} /\ st \in NomWrites(o, a, {st.status})
        BY <1>2, <2>2 DEF NominatorSteps, NomWrites
    <2>4. g = h => st.status = NominatorAt(o, a, h)
        <3>1. Meets(st, NomBad(o, a, h)) <=> st \in NomBad(o, a, h)
            BY <1>2, MeetsPlain
        <3>2. st.status # NominatorAt(o, a, h) => st \in NomBad(o, a, h)
            BY <2>3 DEF NomBad, NomWrites
        <3> QED
            BY <3>1, <3>2
    <2>5. NominatorPut(d, d2, o, a, st.status, g)
        BY <1>2 DEF Wrote
    <2>6. PICK k : k = <<o, a>>
        OBVIOUS
    <2>7. /\ k \in DOMAIN d2.nominators
          /\ \/ d2.nominators[k] = d.nominators[k]
             \/ /\ ~(d.nominators[k].height > g)
                /\ d2.nominators[k].status = st.status /\ d2.nominators[k].height = g
        BY <2>5, <2>6 DEF NominatorPut, RowIn
    <2>8. /\ k \in DOMAIN d.nominators /\ d.nominators[k].height >= h
          /\ d.nominators[k].height = h => d.nominators[k].status = NominatorAt(o, a, h)
        BY <2>6 DEF RowIn
    <2>9. d.nominators[k].height \in Nat /\ g \in Nat /\ h \in Nat
        <3>1. d.nominators \in PF(Operators \X Addresses, NomRow)
            BY TablesIs
        <3>2. d.nominators[k] \in NomRow
            BY <2>8, <3>1, PFIs
        <3>3. d.nominators[k].height \in Height
            BY <3>2 DEF NomRow
        <3> QED
            BY <3>3, EventsType
    <2>10. /\ d2.nominators[k].height >= h
           /\ d2.nominators[k].height = h => d2.nominators[k].status = NominatorAt(o, a, h)
        BY <2>4, <2>7, <2>8, <2>9
    <2> QED
        BY <2>6, <2>7, <2>10 DEF RowIn
<1> QED
    BY <1>1, <1>2

LEMMA RowMade ==
    ASSUME NEW d \in Tables, NEW d2, NEW h \in Height, NEW st \in Plain(h) \union Deletes,
           Wrote(d, d2, h, st), NEW o \in Operators, NEW a \in Addresses,
           Meets(st, NomGood(o, a, h))
    PROVE  RowIn(d2, o, a, h)
<1>1. st.do # "read"
    BY PlainKinds, BodyIs
<1>2. st \in NomWrites(o, a, {NominatorAt(o, a, h)})
    BY <1>1, MeetsPlain DEF NomGood
<1>3. st.do = "nominator" /\ st.op = o /\ st.addr = a /\ st.status = NominatorAt(o, a, h)
    BY <1>2, NomWritesIs
<1>4. NominatorPut(d, d2, o, a, st.status, h)
    BY <1>3 DEF Wrote
<1>5. PICK k : k = <<o, a>>
    OBVIOUS
<1>6. /\ k \in DOMAIN d2.nominators
      /\ \/ /\ k \in DOMAIN d.nominators /\ d.nominators[k].height > h
            /\ d2.nominators[k] = d.nominators[k]
         \/ d2.nominators[k].status = st.status /\ d2.nominators[k].height = h
    BY <1>4, <1>5 DEF NominatorPut
<1>7. k \in DOMAIN d.nominators => d.nominators[k].height \in Nat
    <2>1. d.nominators \in PF(Operators \X Addresses, NomRow)
        BY TablesIs
    <2>2. k \in DOMAIN d.nominators => d.nominators[k] \in NomRow
        BY <2>1, PFIs
    <2>3. k \in DOMAIN d.nominators => d.nominators[k].height \in Height
        BY <2>2 DEF NomRow
    <2> QED
        BY <2>3, EventsType
<1>8. h \in Nat
    BY EventsType
<1>9. /\ d2.nominators[k].height >= h
      /\ d2.nominators[k].height = h => d2.nominators[k].status = NominatorAt(o, a, h)
    BY <1>3, <1>6, <1>7, <1>8
<1> QED
    BY <1>5, <1>6, <1>9 DEF RowIn

LEMMA RowsNext == TypeInv /\ RowsInv /\ [Next]_vars => RowsInv'
<1> SUFFICES ASSUME TypeInv, RowsInv, [Next]_vars PROVE RowsInv'
    OBVIOUS
<1>1. top \in Nat /\ top' \in Nat /\ top <= top'
    <2>1. top \in Nat
        BY ShapeNumbers DEF TypeInv
    <2>2. top' = top \/ \E until \in Height : top' = until /\ top <= until
        BY DEF Next, StartBatch, StartBlock, SelectCount, Statement, ReadStorage, YieldBlock, FinishBatch, Crash,
               vars, history
    <2> QED
        BY <2>1, <2>2, EventsType
<1>2. \A k \in DOMAIN db.nominators : db.nominators[k].height \in Nat
    <2>1. db.nominators \in PF(Operators \X Addresses, NomRow)
        BY TablesIs DEF TypeInv
    <2>2. \A k \in DOMAIN db.nominators : db.nominators[k] \in NomRow
        BY <2>1, PFIs
    <2> QED
        BY <2>2, EventsType DEF NomRow
<1>3. \A k \in DOMAIN db.nominators :
         db.nominators[k].height <= top' /\ InBlock(db.nominators[k].height, Touching(k[1], k[2]))
    BY <1>1, <1>2 DEF RowsInv
<1>4. CASE db' = db
    BY <1>3, <1>4 DEF RowsInv
<1>5. ASSUME NEW g \in Height, Statement(g), NEW k \in DOMAIN db'.nominators
      PROVE  /\ db'.nominators[k].height <= top'
             /\ InBlock(db'.nominators[k].height, Touching(k[1], k[2]))
    <2>1. /\ g \in DOMAIN todo /\ Head(todo[g]) \in Plain(g) \union Deletes
          /\ Wrote(db, db', g, Head(todo[g])) /\ db \in Tables
        BY <1>5, StatementIs DEF TypeInv
    <2>2. PICK st \in Plain(g) \union Deletes : st = Head(todo[g])
        BY <2>1
    <2>3. CASE st.do # "nominator"
        <3>1. db'.nominators = db.nominators
            BY <2>1, <2>2, <2>3, WroteOther
        <3> QED
            BY <1>3, <1>5, <3>1
    <2>4. CASE st.do = "nominator"
        <3>1. st \in Plain(g)
            BY <2>4 DEF Deletes
        <3>2. st \in NominatorSteps(g)
            BY <2>4, <3>1, PlainOf
        <3>3. InBlock(g, Touching(st.op, st.addr))
            BY <3>2, NominatorStep
        <3>4. NominatorPut(db, db', st.op, st.addr, st.status, g)
            BY <2>1, <2>2, <2>4 DEF Wrote
        <3>5. PICK j : j = <<st.op, st.addr>>
            OBVIOUS
        <3>6. j[1] = st.op /\ j[2] = st.addr
            BY <3>5
        <3>7. g <= top'
            <4>1. g \in next .. to /\ to = top /\ next \in Nat /\ to \in Nat
                BY <2>1, InFlight, ShapeNumbers DEF TypeInv
            <4> QED
                BY <1>1, <4>1
        <3>8. /\ DOMAIN db'.nominators = DOMAIN db.nominators \union {j}
              /\ \A p \in DOMAIN db.nominators : p # j => db'.nominators[p] = db.nominators[p]
              /\ \/ j \in DOMAIN db.nominators /\ db'.nominators[j] = db.nominators[j]
                 \/ db'.nominators[j].height = g
            BY <3>4, <3>5 DEF NominatorPut
        <3> QED
            BY <1>3, <1>5, <3>3, <3>6, <3>7, <3>8
    <2> QED
        BY <2>3, <2>4
<1> QED
    BY <1>4, <1>5, DbNext DEF RowsInv

\* The row of a nominator under a statement of another block.
LEMMA RowOther ==
    ASSUME TypeInv, [Next]_vars, NEW o \in Operators, NEW a \in Addresses, NEW h \in Height,
           InBlock(h, Touching(o, a)), RowIn(db, o, a, h), ~Statement(h)
    PROVE  RowIn(db', o, a, h)
<1>1. CASE db' = db
    BY <1>1
<1>2. ASSUME NEW g \in Height, Statement(g) PROVE RowIn(db', o, a, h)
    <2>1. /\ Head(todo[g]) \in Plain(g) \union Deletes
          /\ Wrote(db, db', g, Head(todo[g])) /\ db \in Tables /\ g # h
        BY <1>2, StatementIs DEF TypeInv
    <2>2. NominatorAt(o, a, h) \in {"active", "withdrawn"}
        BY TouchedIs
    <2> QED
        BY <1>2, <2>1, <2>2, RowKept
<1> QED
    BY <1>1, <1>2, DbNext

LEMMA NomStatement ==
    ASSUME TypeInv, NEW h \in Height, Statement(h), NEW o \in Operators, NEW a \in Addresses,
           InBlock(h, Touching(o, a)), NomUnderWay(o, a, h)
    PROVE  NomUnderWay(o, a, h)'
<1>1. /\ h \in DOMAIN todo /\ todo[h] \in Forms(h) /\ todo[h] # <<>>
      /\ Head(todo[h]) \in Plain(h) \union Deletes
      /\ Wrote(db, db', h, Head(todo[h])) /\ db \in Tables
      /\ DOMAIN todo' = DOMAIN todo /\ todo'[h] = Tail(todo[h])
    BY StatementIs DEF TypeInv
<1>2. PICK G, B : G = NomGood(o, a, h) /\ B = NomBad(o, a, h)
    OBVIOUS
<1>3. PICK s \in Seq(Steps(h)) : s = todo[h] /\ s # <<>>
    BY <1>1, FormType
<1>4. PICK st \in Plain(h) \union Deletes : st = Head(s)
    BY <1>1, <1>3
<1>5. Wrote(db, db', h, st)
    BY <1>1, <1>3, <1>4
<1>6. Ends(s, G, B) \/ (~Has(s, B) /\ RowIn(db, o, a, h))
    BY <1>1, <1>2, <1>3, ScriptNom DEF NomUnderWay
<1>7. NominatorAt(o, a, h) \in {"active", "withdrawn"}
    BY TouchedIs
<1>8. Has(s, B) <=> Meets(st, B) \/ Has(Tail(s), B)
    BY <1>3, <1>4, HasTail
<1>9. CASE ~Has(s, B) /\ RowIn(db, o, a, h)
    <2>1. ~Meets(st, NomBad(o, a, h))
        BY <1>2, <1>8, <1>9
    <2>2. RowIn(db', o, a, h)
        BY <1>1, <1>5, <1>7, <1>9, <2>1, RowKept
    <2> QED
        BY <1>1, <1>2, <1>3, <1>8, <1>9, <2>2 DEF NomUnderWay
<1>10. CASE Ends(s, G, B)
    <2>1. Ends(Tail(s), G, B) \/ (Meets(st, G) /\ ~Has(Tail(s), B))
        BY <1>3, <1>4, <1>10, EndsTail
    <2>2. Meets(st, G) => RowIn(db', o, a, h)
        BY <1>1, <1>2, <1>5, RowMade
    <2> QED
        BY <1>1, <1>2, <1>3, <2>1, <2>2 DEF NomUnderWay
<1> QED
    BY <1>6, <1>9, <1>10

LEMMA NomRead ==
    ASSUME TypeInv, NEW h \in Height, ReadStorage(h), ~degraded', NEW o \in Operators, NEW a \in Addresses,
           NomUnderWay(o, a, h)
    PROVE  NomUnderWay(o, a, h)'
<1>1. /\ h \in DOMAIN todo /\ todo[h] \in Forms(h) /\ todo[h] # <<>> /\ Head(todo[h]).do = "read"
      /\ todo[h] # Script[h] /\ db' = db
      /\ todo'[h] = Head(todo[h]).ok \o Tail(todo[h])
    BY ReadIs DEF TypeInv
<1>2. PICK G, B : G = NomGood(o, a, h) /\ B = NomBad(o, a, h)
    OBVIOUS
<1>3. Has(Head(todo[h]).ok \o Tail(todo[h]), B) <=> Has(todo[h], B)
    BY <1>1, ReadHas
<1>4. Ends(todo[h], G, B) => Ends(Head(todo[h]).ok \o Tail(todo[h]), G, B)
    BY <1>1, ReadEnds
<1>5. Ends(todo[h], G, B) \/ (~Has(todo[h], B) /\ RowIn(db, o, a, h))
    BY <1>1, <1>2 DEF NomUnderWay
<1>6. Ends(todo'[h], G, B) \/ (~Has(todo'[h], B) /\ RowIn(db', o, a, h))
    BY <1>1, <1>3, <1>4, <1>5, Zenon
<1> QED
    BY <1>2, <1>6 DEF NomUnderWay

\* A block that is not at its own statement or read: what it has in hand it
\* had before, and if it has been processed whole then either it was before,
\* or it had just nothing left to do.
LEMMA OtherStep ==
    ASSUME TypeInv, [Next]_vars, NEW h \in Height, ~Statement(h), ~ReadStorage(h)
    PROVE  /\ h \in DOMAIN todo' /\ todo'[h] # Script[h] => h \in DOMAIN todo /\ todo'[h] = todo[h]
           /\ Processed(h)' /\ h \notin torn' /\ (h \in DOMAIN todo' => todo'[h] = Script[h]) =>
                 \/ h \in DOMAIN todo /\ todo[h] = <<>> /\ todo[h] # Script[h]
                 \/ Processed(h) /\ h \notin torn /\ (h \in DOMAIN todo => todo[h] = Script[h])
<1>4. Script[h] # <<>>
    BY ScriptIs
<1>5. ASSUME NEW g \in Height, Statement(g) \/ ReadStorage(g) \/ StartBlock(g)
      PROVE  /\ Processed(h)' <=> Processed(h)
             /\ torn' = torn
             /\ h \in DOMAIN todo => h \in DOMAIN todo' /\ todo'[h] = todo[h]
             /\ h \in DOMAIN todo' => h \in DOMAIN todo \/ todo'[h] = Script[h]
    <2>1. UNCHANGED <<pc, next, checkpoint, torn>>
        BY <1>5 DEF Statement, ReadStorage, StartBlock, history
    <2>2. Processed(h)' <=> Processed(h)
        BY <2>1 DEF Processed
    <2>3. CASE StartBlock(g)
        <3>1. /\ DOMAIN todo' = DOMAIN todo \union {g} /\ g \notin DOMAIN todo
              /\ todo'[g] = Script[g] /\ \A f \in DOMAIN todo : f # g => todo'[f] = todo[f]
            BY <2>3 DEF StartBlock, Put
        <3> QED
            BY <2>1, <2>2, <3>1
    <2>4. CASE Statement(g)
        <3>1. g # h
            BY <2>4
        <3>2. DOMAIN todo' = DOMAIN todo /\ \A f \in DOMAIN todo : f # g => todo'[f] = todo[f]
            BY <2>4, StatementIs DEF TypeInv
        <3> QED
            BY <2>1, <2>2, <3>1, <3>2
    <2>5. CASE ReadStorage(g)
        <3>1. g # h
            BY <2>5
        <3>2. DOMAIN todo' = DOMAIN todo /\ \A f \in DOMAIN todo : f # g => todo'[f] = todo[f]
            BY <2>5, ReadIs DEF TypeInv
        <3> QED
            BY <2>1, <2>2, <3>1, <3>2
    <2> QED
        BY <1>5, <2>3, <2>4, <2>5
<1>6. CASE \E g \in Height : Statement(g) \/ ReadStorage(g) \/ StartBlock(g)
    <2>1. /\ Processed(h)' <=> Processed(h)
          /\ torn' = torn
          /\ h \in DOMAIN todo => h \in DOMAIN todo' /\ todo'[h] = todo[h]
          /\ h \in DOMAIN todo' => h \in DOMAIN todo \/ todo'[h] = Script[h]
        BY <1>5, <1>6
    <2> QED
        BY <2>1
<1>7. ASSUME NEW from \in Height, NEW until \in Height, StartBatch(from, until)
      PROVE  DOMAIN todo' = {} /\ DOMAIN todo = {} /\ torn' = torn /\ (Processed(h)' => Processed(h))
    <2>1. pc = "idle" /\ torn' = torn /\ DOMAIN todo' = {}
        BY <1>7 DEF StartBatch, Empty
    <2>2. DOMAIN todo = {}
        BY <2>1 DEF TypeInv, Shape
    <2> QED
        BY <2>1, <2>2, ProcessedNext
<1>8. CASE YieldBlock
    <2>1. /\ next \in DOMAIN todo /\ todo[next] = <<>> /\ torn' = torn \ {next}
          /\ DOMAIN todo' = DOMAIN todo \ {next} /\ \A f \in DOMAIN todo' : todo'[f] = todo[f]
        BY <1>8 DEF YieldBlock
    <2>3. h # next /\ Processed(h)' => Processed(h)
        BY ProcessedNext
    <2> QED
        BY <1>4, <2>1, <2>3
<1>9. ASSUME FinishBatch
      PROVE  DOMAIN todo' = {} /\ DOMAIN todo = {} /\ torn' = torn /\ (Processed(h)' => Processed(h))
    <2>1. next > to /\ torn' = torn /\ DOMAIN todo' = {}
        BY <1>9 DEF FinishBatch, history, Empty
    <2>2. ASSUME NEW f \in DOMAIN todo PROVE FALSE
        BY <2>1, <2>2, InFlight, ShapeNumbers DEF TypeInv
    <2> QED
        BY <2>1, <2>2, ProcessedNext
<1>10. CASE Crash
    <2>1. /\ DOMAIN todo' = {} /\ checkpoint' = checkpoint /\ pc' = "idle"
          /\ torn' = torn \union {g \in DOMAIN todo : /\ g <= checkpoint
                                                      /\ todo[g] \notin {<<>>, Script[g]}}
        BY <1>10 DEF Crash, Empty
    <2>2. Processed(h)' => h <= checkpoint /\ Processed(h)
        BY <2>1 DEF Processed
    <2>3. ASSUME Processed(h)', h \notin torn'
          PROVE  h \notin torn /\ (h \in DOMAIN todo => todo[h] \in {<<>>, Script[h]})
        BY <2>1, <2>2, <2>3
    <2> QED
        BY <1>4, <2>1, <2>2, <2>3
<1>11. CASE UNCHANGED others
    <2>1. UNCHANGED <<pc, next, to, todo, checkpoint, torn>>
        BY <1>11, OthersAre
    <2>2. Processed(h)' <=> Processed(h)
        BY <2>1 DEF Processed
    <2> QED
        BY <2>1, <2>2
<1>12. CASE \/ \E from, until \in Height : StartBatch(from, until)
            \/ FinishBatch
    <2>1. DOMAIN todo' = {} /\ DOMAIN todo = {} /\ torn' = torn /\ (Processed(h)' => Processed(h))
        BY <1>7, <1>9, <1>12
    <2> QED
        BY <2>1
<1> QED
    BY <1>6, <1>8, <1>10, <1>11, <1>12, OthersKept DEF Next

LEMMA NomOther ==
    ASSUME TypeInv, [Next]_vars, ~degraded', NEW h \in Height, ~Statement(h), ~ReadStorage(h),
           NEW o \in Operators, NEW a \in Addresses,
           InBlock(h, Touching(o, a)), NomUnderWay(o, a, h), NomDone(o, a, h)
    PROVE  NomUnderWay(o, a, h)' /\ NomDone(o, a, h)'
<1>1. RowIn(db, o, a, h) => RowIn(db', o, a, h)
    BY RowOther
<1>2. ~Ends(<<>>, NomGood(o, a, h), NomBad(o, a, h))
    BY DEF Ends
<1>3. h \in DOMAIN todo' /\ todo'[h] # Script[h] => h \in DOMAIN todo /\ todo'[h] = todo[h]
    BY OtherStep
<1>4. ASSUME Processed(h)', h \notin torn', h \in DOMAIN todo' => todo'[h] = Script[h]
      PROVE  RowIn(db, o, a, h)
    <2>1. \/ h \in DOMAIN todo /\ todo[h] = <<>> /\ todo[h] # Script[h]
          \/ Processed(h) /\ h \notin torn /\ (h \in DOMAIN todo => todo[h] = Script[h])
        BY <1>4, OtherStep
    <2> QED
        BY <1>2, <2>1 DEF NomUnderWay, NomDone
<1> QED
    BY <1>1, <1>3, <1>4 DEF NomUnderWay, NomDone

LEMMA NomNext == TypeInv /\ NomInv /\ [Next]_vars => NomInv'
<1> SUFFICES ASSUME TypeInv, NomInv, [Next]_vars, ~degraded', NEW o \in Operators, NEW a \in Addresses,
                    NEW h \in Height, InBlock(h, Touching(o, a))
             PROVE  NomUnderWay(o, a, h)' /\ NomDone(o, a, h)'
    BY DEF NomInv
<1>1. NomUnderWay(o, a, h) /\ NomDone(o, a, h)
    BY DegradedNext DEF NomInv
<1>2. CASE Statement(h)
    <2>1. NomUnderWay(o, a, h)'
        BY <1>1, <1>2, NomStatement
    <2>2. h \in DOMAIN todo' /\ todo'[h] # Script[h]
        BY <1>2, StatementIs DEF TypeInv
    <2> QED
        BY <2>1, <2>2 DEF NomDone
<1>3. CASE ReadStorage(h)
    <2>1. NomUnderWay(o, a, h)'
        BY <1>1, <1>3, NomRead
    <2>2. h \in DOMAIN todo' /\ todo'[h] # Script[h]
        BY <1>3, ReadIs DEF TypeInv
    <2> QED
        BY <2>1, <2>2 DEF NomDone
<1>4. CASE ~Statement(h) /\ ~ReadStorage(h)
    BY <1>1, <1>4, NomOther
<1> QED
    BY <1>2, <1>3, <1>4

LEMMA NomInit == Init => RowsInv /\ NomInv
<1> SUFFICES ASSUME Init PROVE RowsInv /\ NomInv
    OBVIOUS
<1>1. pc = "idle" /\ checkpoint = 0 /\ DOMAIN todo = {} /\ db.nominators = Empty
    BY DEF Init, Empty
<1>2. RowsInv
    BY <1>1 DEF RowsInv, Empty
<1>3. \A h \in Height : ~Processed(h)
    BY <1>1, Bounds DEF Processed, Height
<1>4. NomInv
    BY <1>1, <1>3 DEF NomInv, NomUnderWay, NomDone
<1> QED
    BY <1>2, <1>4

LEMMA NomGives == TypeInv /\ RowsInv /\ NomInv => NominatorsExact
<1> SUFFICES ASSUME TypeInv, RowsInv, NomInv, pc = "idle", checkpoint = top, ~degraded,
                    NEW o \in Operators, NEW a \in Addresses
             PROVE  LET S == Touches(o, a, checkpoint) IN
                    IF S = {} THEN <<o, a>> \notin DOMAIN db.nominators
                    ELSE Latest(S)[1] \notin torn =>
                            /\ <<o, a>> \in DOMAIN db.nominators
                            /\ db.nominators[<<o, a>>].status = NominatorAt(o, a, checkpoint)
    BY DEF NominatorsExact, Settled
<1> DEFINE S == Touches(o, a, checkpoint)
<1>1. checkpoint \in 0 .. Top /\ DOMAIN todo = {}
    BY DEF TypeInv, Shape
<1>2. PICK k : k = <<o, a>>
    OBVIOUS
<1>3. ASSUME k \in DOMAIN db.nominators
      PROVE  /\ db.nominators[k].height \in 1 .. checkpoint
             /\ \E j \in DOMAIN Events[db.nominators[k].height] : <<db.nominators[k].height, j>> \in S
    <2>1. db.nominators \in PF(Operators \X Addresses, NomRow)
        BY TablesIs DEF TypeInv
    <2>2. db.nominators[k] \in NomRow
        BY <1>3, <2>1, PFIs
    <2>3. PICK g \in Height : g = db.nominators[k].height
        BY <2>2 DEF NomRow
    <2>4. k[1] = o /\ k[2] = a
        BY <1>2
    <2>5. g <= top /\ InBlock(g, Touching(o, a))
        BY <1>3, <2>3, <2>4 DEF RowsInv
    <2>6. g \in 1 .. checkpoint
        BY <1>1, <2>5 DEF Height
    <2>7. PICK j \in DOMAIN Events[g] :
             Events[g][j].op = o /\ Events[g][j].addr = a /\ Events[g][j].kind \in TouchKinds
        BY <2>5 DEF InBlock, Touching
    <2>8. <<g, j>> \in S
        BY <1>1, <2>6, <2>7, TouchesIs
    <2> QED
        BY <2>3, <2>6, <2>8
<1>4. CASE S = {}
    BY <1>2, <1>3, <1>4
<1>5. ASSUME S # {}, Latest(S)[1] \notin torn
      PROVE  k \in DOMAIN db.nominators /\ db.nominators[k].status = NominatorAt(o, a, checkpoint)
    <2>1. PICK p \in S : p = Latest(S) /\ \A q \in S : NotBefore(p, q)
        BY <1>1, <1>5, NominatorAtIs
    <2>2. PICK g \in Height : g = p[1] /\ g \in 1 .. checkpoint
        BY <1>1, <2>1, TouchesIs
    <2>3. InBlock(g, Touching(o, a))
        <3>1. /\ p[2] \in DOMAIN Events[g] /\ Events[g][p[2]].op = o /\ Events[g][p[2]].addr = a
              /\ Events[g][p[2]].kind \in TouchKinds
            BY <1>1, <2>1, <2>2, TouchesIs
        <3> QED
            BY <3>1, EventsType DEF InBlock, Touching
    <2>4. NomDone(o, a, g)
        BY <2>3 DEF NomInv
    <2>5. RowIn(db, o, a, g)
        BY <1>1, <1>5, <2>1, <2>2, <2>4 DEF NomDone, Processed
    <2>6. /\ k \in DOMAIN db.nominators /\ db.nominators[k].height >= g
          /\ db.nominators[k].height = g => db.nominators[k].status = NominatorAt(o, a, g)
        BY <1>2, <2>5 DEF RowIn
    <2>7. PICK f : f = db.nominators[k].height
        OBVIOUS
    <2>8. f \in 1 .. checkpoint /\ \E j \in DOMAIN Events[f] : <<f, j>> \in S
        BY <1>3, <2>6, <2>7
    <2>9. PICK j : <<f, j>> \in S
        BY <2>8
    <2>10. PICK q : q = <<f, j>>
        OBVIOUS
    <2>11. q[1] = f /\ NotBefore(p, q)
        BY <2>1, <2>9, <2>10
    <2>12. p[1] > f \/ p[1] = f
        BY <2>11 DEF NotBefore
    <2>13. f = g
        BY <1>1, <2>2, <2>6, <2>7, <2>8, <2>12
    <2>14. NominatorAt(o, a, g) = NominatorAt(o, a, checkpoint)
        BY <1>1, <1>5, <2>1, <2>2, SameNominatorAt
    <2> QED
        BY <2>6, <2>7, <2>13, <2>14
<1> QED
    BY <1>2, <1>4, <1>5

(***************************************************************************)
(* Once the processor has caught up, every nominator has the status the    *)
(* chain gives it: the height guard of upsert_nominator makes the newest   *)
(* block win although parallel blocks write in any order, blocks are       *)
(* processed again and the process crashes between statements.             *)
(***************************************************************************)
THEOREM NominatorsExactAlways == Spec => []NominatorsExact
<1>1. TypeInv /\ RowsInv /\ NomInv /\ [Next]_vars => (TypeInv /\ RowsInv /\ NomInv)'
    BY TypeNext, RowsNext, NomNext
<1> QED
    BY <1>1, TypeInit, NomInit, NomGives, PTL DEF Spec

-----------------------------------------------------------------------------
(***************************************************************************)
(* Operators.                                                              *)
(***************************************************************************)
LEMMA RankIs ==
    \A k \in 1 .. 10 : Rank(Order[k]) = k
<1>1. ASSUME NEW j \in 1 .. 10, NEW k \in 1 .. 10, Order[j] = Order[k] PROVE j = k
    <2>1. k = 1 \/ k = 2 \/ k = 3 \/ k = 4 \/ k = 5 \/ k = 6 \/ k = 7 \/ k = 8 \/ k = 9 \/ k = 10
        OBVIOUS
    <2>2. j = 1 \/ j = 2 \/ j = 3 \/ j = 4 \/ j = 5 \/ j = 6 \/ j = 7 \/ j = 8 \/ j = 9 \/ j = 10
        OBVIOUS
    <2> QED
        BY <1>1, <2>1, <2>2, OrderIs
<1>2. ASSUME NEW k \in 1 .. 10 PROVE Rank(Order[k]) = k
    <2>1. Rank(Order[k]) \in 1 .. 10 /\ Order[Rank(Order[k])] = Order[k]
        BY OrderIs DEF Rank
    <2> QED
        BY <1>1, <2>1
<1> QED
    BY <1>2

LEMMA OpWritesAre ==
    ASSUME NEW o, NEW T
    PROVE  /\ \A x \in OpSteps(o) : x.do = "operator" /\ x.op = o
           /\ \A x \in StatsOf(o) : x.do = "stats" /\ x.op = o
           /\ \A x \in StatusTo(o, T) : x.do = "status" /\ x.op = o /\ x.status \in T
           /\ \A p : OperatorSt(p) \in OpSteps(o) <=> p = o
           /\ \A p : StatsSt(p) \in StatsOf(o) <=> p = o
           /\ \A p, s : StatusSt(p, s) \in StatusTo(o, T) <=> p = o /\ s \in T
<1>1. /\ \A x \in OpSteps(o) : x.do = "operator" /\ x.op = o
      /\ \A x \in StatsOf(o) : x.do = "stats" /\ x.op = o
      /\ \A x \in StatusTo(o, T) : x.do = "status" /\ x.op = o /\ x.status \in T
    BY DEF OpSteps, StatsOf, StatusTo
<1>2. \A p : OperatorSt(p) \in OpSteps(o) <=> p = o
    <2>1. OperatorSt(o) \in OpSteps(o)
        BY DEF OperatorSt, OpSteps
    <2> QED
        BY <1>1, <2>1, OperatorFields
<1>3. \A p : StatsSt(p) \in StatsOf(o) <=> p = o
    <2>1. StatsSt(o) \in StatsOf(o)
        BY DEF StatsSt, StatsOf
    <2> QED
        BY <1>1, <2>1, StatsFields
<1>4. \A p, s : StatusSt(p, s) \in StatusTo(o, T) <=> p = o /\ s \in T
    <2>1. \A s \in T : StatusSt(o, s) \in StatusTo(o, T)
        BY DEF StatusSt, StatusTo
    <2> QED
        BY <1>1, <2>1, StatusFields
<1> QED
    BY <1>1, <1>2, <1>3, <1>4

\* The events whose statements bear on the row of an operator.
LEMMA HoldsOp ==
    ASSUME NEW h \in Height, NEW i \in DOMAIN Events[h], NEW o \in Operators, NEW T
    PROVE  LET e == Events[h][i] IN
           /\ Holds(h, i, OpSteps(o)) <=> e.kind = "registered" /\ e.op = o
           /\ Holds(h, i, StatsOf(o)) <=> e.kind = "epoch" /\ o \in e.ops
           /\ Holds(h, i, StatusTo(o, T)) <=>
                 /\ e.kind \in StatusKinds \ {"registered"} /\ e.op = o
                 /\ StatusOf(e.kind) \in T
<1>1. /\ \A x \in OpSteps(o) : x.do = "operator" /\ x.op = o
      /\ \A x \in StatsOf(o) : x.do = "stats" /\ x.op = o
      /\ \A x \in StatusTo(o, T) : x.do = "status" /\ x.op = o /\ x.status \in T
      /\ \A p : OperatorSt(p) \in OpSteps(o) <=> p = o
      /\ \A p : StatsSt(p) \in StatsOf(o) <=> p = o
      /\ \A p, s : StatusSt(p, s) \in StatusTo(o, T) <=> p = o /\ s \in T
    BY OpWritesAre, Zenon
<1>2. PICK O, A, U : O = OpSteps(o) /\ A = StatsOf(o) /\ U = StatusTo(o, T)
    OBVIOUS
<1>3. ASSUME NEW S \in {O, A, U}
      PROVE  /\ \A p : CountSt(p) \notin S
             /\ \A p, s : PriceSt(p, s) \notin S
             /\ \A p, b : FoundSt(p, b) \notin S
             /\ \A p, b, s : DepositSt(p, b, s) \notin S /\ NominatorSt(p, b, s) \notin S
    BY <1>1, <1>2, CountFields, PriceFields, WithdrawalFields, DepositFields, NominatorFields
<1>4. /\ \A p : OperatorSt(p) \notin A /\ OperatorSt(p) \notin U
      /\ \A p : StatsSt(p) \notin O /\ StatsSt(p) \notin U
      /\ \A p, s : StatusSt(p, s) \notin O /\ StatusSt(p, s) \notin A
    BY <1>1, <1>2, OperatorFields, StatsFields, StatusFields
<1>5. Holds(h, i, O) <=> Events[h][i].kind = "registered" /\ Events[h][i].op = o
    BY <1>1, <1>2, <1>3, <1>4 DEF Holds
<1>6. Holds(h, i, A) <=> Events[h][i].kind = "epoch" /\ o \in Events[h][i].ops
    BY <1>1, <1>2, <1>3, <1>4 DEF Holds
<1>7. Holds(h, i, U) <=> /\ Events[h][i].kind \in StatusKinds \ {"registered"} /\ Events[h][i].op = o
                         /\ StatusOf(Events[h][i].kind) \in T
    BY <1>1, <1>2, <1>3, <1>4 DEF Holds
<1> QED
    BY <1>2, <1>5, <1>6, <1>7, Zenon

LEMMA HoldsUnion ==
    ASSUME NEW h, NEW i, NEW S, NEW T
    PROVE  Holds(h, i, S \union T) <=> Holds(h, i, S) \/ Holds(h, i, T)
BY DEF Holds

\* A block that writes the status of o.
LEMMA WritesIs ==
    ASSUME NEW h \in Height, NEW o \in Operators, WritesStatus(o, h)
    PROVE  OperatorAt(o, h) \in Status /\ Changes(o, h) # {} /\ h \in 0 .. Top /\ h \in 1 .. h
<1>1. h \in 0 .. Top /\ h \in 1 .. h
    BY EventsType DEF Height
<1>2. Changes(o, h) # {}
    <2>1. CASE AtEpoch(o, h)
        BY <2>1, ChainAssumption DEF AtEpoch
    <2>2. CASE ~AtEpoch(o, h)
        <3>1. PICK i \in DOMAIN Events[h] : Events[h][i].op = o /\ Events[h][i].kind \in StatusKinds
            BY <2>2 DEF WritesStatus
        <3>2. <<h, i>> \in Changes(o, h)
            BY <1>1, <3>1, ChangesIs
        <3> QED
            BY <3>2
    <2> QED
        BY <2>1, <2>2
<1> QED
    BY <1>1, <1>2, OperatorAtIs

\* No status of o comes without an event in block h.
NoSilent(o, h) ==
    \A i \in DOMAIN Events[h] : ~(Events[h][i].op = o /\ Events[h][i].kind \in SilentKinds)

\* The last change of o in a block, the one of the highest rank, gives its status.
LEMMA LastChange ==
    ASSUME NEW h \in Height, NEW o \in Operators, InTurn(o), NoSilent(o, h),
           NEW m \in DOMAIN Events[h], Events[h][m].op = o, Events[h][m].kind \in StatusKinds
    PROVE  \E i \in DOMAIN Events[h] :
              /\ Events[h][i].op = o /\ Events[h][i].kind \in StatusKinds
              /\ OperatorAt(o, h) = StatusOf(Events[h][i].kind)
              /\ \A j \in DOMAIN Events[h] :
                    Events[h][j].op = o /\ Events[h][j].kind \in StatusKinds =>
                        \/ Events[h][j].kind = Events[h][i].kind
                        \/ Rank(Events[h][j].kind) <= Rank(Events[h][i].kind)
<1>1. h \in 0 .. Top /\ h \in 1 .. h /\ h \in Nat
    BY EventsType DEF Height
<1>2. <<h, m>> \in Changes(o, h)
    BY <1>1, ChangesIs
<1>3. PICK p \in Changes(o, h) :
         /\ OperatorAt(o, h) = StatusOf(Events[p[1]][p[2]].kind)
         /\ \A q \in Changes(o, h) : NotBefore(p, q)
    BY <1>1, <1>2, OperatorAtIs
<1>4. /\ p[1] \in 1 .. h /\ p[2] \in DOMAIN Events[p[1]]
      /\ Events[p[1]][p[2]].op = o /\ Events[p[1]][p[2]].kind \in StatusKinds \union SilentKinds
    BY <1>1, ChangesIs
<1>5. ASSUME NEW j \in DOMAIN Events[h], Events[h][j].op = o, Events[h][j].kind \in StatusKinds
      PROVE  p[1] = h /\ p[2] >= j
    <2>1. <<h, j>> \in Changes(o, h)
        BY <1>1, <1>5, ChangesIs
    <2>2. PICK q : q = <<h, j>>
        OBVIOUS
    <2>3. q[1] = h /\ q[2] = j /\ NotBefore(p, q)
        BY <1>3, <2>1, <2>2
    <2>4. p[1] > h \/ (p[1] = h /\ p[2] >= j)
        BY <2>3 DEF NotBefore
    <2> QED
        BY <1>1, <1>4, <2>4
<1>6. PICK i \in DOMAIN Events[h] : p[1] = h /\ p[2] = i
    BY <1>4, <1>5
<1>6a. Events[h][i].op = o /\ Events[h][i].kind \in StatusKinds
    BY <1>4, <1>6 DEF NoSilent
<1>7. ASSUME NEW j \in DOMAIN Events[h], Events[h][j].op = o, Events[h][j].kind \in StatusKinds
      PROVE  \/ Events[h][j].kind = Events[h][i].kind
             \/ Rank(Events[h][j].kind) <= Rank(Events[h][i].kind)
    <2>1. i >= j /\ i \in Nat /\ j \in Nat
        BY <1>5, <1>6, <1>7, EventsType
    <2>2. CASE i = j
        BY <2>2
    <2>3. CASE j < i
        BY <1>6a, <1>7, <2>3 DEF InTurn
    <2> QED
        BY <2>1, <2>2, <2>3
<1> QED
    BY <1>3, <1>6, <1>6a, <1>7

\* A block that writes the status of an operator leaves the one it has after it.
LEMMA RestOp ==
    ASSUME NEW h \in Height, NEW o \in Operators, InTurn(o), Announced(o), WritesStatus(o, h)
    PROVE  Ends(Rest(h), OpGood(o, h), OpBad(o, h))
<1>0. PICK n \in Status : n = OperatorAt(o, h)
    BY WritesIs
<1>1. PICK G, B : G = OpGood(o, h) /\ B = OpBad(o, h)
    OBVIOUS
<1>2. ASSUME NEW i \in DOMAIN Events[h]
      PROVE  LET e == Events[h][i] IN
             /\ Holds(h, i, G) <=> \/ e.op = o /\ e.kind = "registered"
                                   \/ /\ e.op = o /\ e.kind \in StatusKinds \ {"registered"}
                                      /\ StatusOf(e.kind) = n
                                   \/ e.kind = "epoch" /\ o \in e.ops
             /\ Holds(h, i, B) <=> /\ e.op = o /\ e.kind \in StatusKinds \ {"registered"}
                                   /\ StatusOf(e.kind) \in Status \ {n}
    <2>1. G = OpSteps(o) \union StatsOf(o) \union StatusTo(o, {n}) /\ B = StatusTo(o, Status \ {n})
        BY <1>0, <1>1 DEF OpGood, OpBad
    <2>2. Holds(h, i, G) <=> Holds(h, i, OpSteps(o)) \/ Holds(h, i, StatsOf(o)) \/ Holds(h, i, StatusTo(o, {n}))
        BY <2>1, HoldsUnion
    <2>3. Holds(h, i, OpSteps(o)) <=> Events[h][i].kind = "registered" /\ Events[h][i].op = o
        BY HoldsOp
    <2>4. Holds(h, i, StatsOf(o)) <=> Events[h][i].kind = "epoch" /\ o \in Events[h][i].ops
        BY HoldsOp
    <2>5. \A T : Holds(h, i, StatusTo(o, T)) <=>
                 /\ Events[h][i].kind \in StatusKinds \ {"registered"} /\ Events[h][i].op = o
                 /\ StatusOf(Events[h][i].kind) \in T
        BY HoldsOp
    <2>6. Holds(h, i, B) <=> Holds(h, i, StatusTo(o, Status \ {n}))
        BY <2>1
    <2> QED
        BY <2>2, <2>3, <2>4, <2>5, <2>6
<1>3. CASE AtEpoch(o, h)
    <2>1. PICK i \in DOMAIN Events[h] : Events[h][i].kind = "epoch" /\ o \in Events[h][i].ops
        BY <1>3 DEF AtEpoch
    <2>2. PICK ss \in Seq(Seq(Body(h))) :
             ss = Parts10(h) /\ DOMAIN ss = 1 .. 10 /\ \A j \in 1 .. 10 : ss[j] = OfKind(h, Order[j])
        BY PartsType
    <2>3. PICK k \in 1 .. 10 : Order[k] = "epoch" /\ \A j \in 1 .. 10 : j >= k => j = k
        BY OrderIs
    <2>4. Holds(h, i, G)
        BY <1>2, <2>1
    <2>5. Has(ss[k], G) /\ k \in DOMAIN ss
        BY <2>1, <2>2, <2>3, <2>4, OfKindHas
    <2>6. ~Has(ss[k], B)
        <3>1. Has(OfKind(h, Order[k]), B) <=>
                 \E m \in DOMAIN Events[h] : Events[h][m].kind = Order[k] /\ Holds(h, m, B)
            BY OfKindHas
        <3>2. ASSUME NEW m \in DOMAIN Events[h], Events[h][m].kind = "epoch" PROVE ~Holds(h, m, B)
            BY <1>2, <3>2 DEF StatusKinds
        <3> QED
            BY <2>2, <2>3, <3>1, <3>2
    <2>7. Ends(ss[k], G, B)
        BY <2>5, <2>6, EndsHas
    <2>8. \A j \in DOMAIN ss : j > k => ~Has(ss[j], B)
        BY <2>2, <2>3
    <2>9. Ends(Flat(ss), G, B)
        BY <2>5, <2>7, <2>8, EndsFlat
    <2> QED
        BY <1>1, <2>2, <2>9 DEF Rest
<1>4. CASE ~AtEpoch(o, h)
    <2>0. NoSilent(o, h) /\ \E m \in DOMAIN Events[h] : Events[h][m].op = o /\ Events[h][m].kind \in StatusKinds
        BY <1>4 DEF Announced, NoSilent, WritesStatus
    <2>1. PICK i \in DOMAIN Events[h] :
              /\ Events[h][i].op = o /\ Events[h][i].kind \in StatusKinds
              /\ n = StatusOf(Events[h][i].kind)
              /\ \A j \in DOMAIN Events[h] :
                    Events[h][j].op = o /\ Events[h][j].kind \in StatusKinds =>
                        \/ Events[h][j].kind = Events[h][i].kind
                        \/ Rank(Events[h][j].kind) <= Rank(Events[h][i].kind)
        BY <1>0, <2>0, LastChange
    <2>2. PICK k \in 1 .. 10 : Order[k] = Events[h][i].kind
        <3>1. Events[h][i].kind \notin Ignored
            BY <2>1 DEF StatusKinds, SilentKinds, Ignored
        <3> QED
            BY <3>1, OrderIs
    <2>3. PICK ss \in Seq(Seq(Body(h))) :
             ss = Parts10(h) /\ DOMAIN ss = 1 .. 10 /\ \A j \in 1 .. 10 : ss[j] = OfKind(h, Order[j])
        BY PartsType
    <2>4. Holds(h, i, G)
        BY <1>2, <2>1
    <2>5. Has(ss[k], G) /\ k \in DOMAIN ss
        BY <2>2, <2>3, <2>4, OfKindHas
    <2>6. ASSUME NEW j \in 1 .. 10, j >= k PROVE ~Has(ss[j], B)
        <3>1. Has(OfKind(h, Order[j]), B) <=>
                 \E m \in DOMAIN Events[h] : Events[h][m].kind = Order[j] /\ Holds(h, m, B)
            BY OfKindHas
        <3>2. ASSUME NEW m \in DOMAIN Events[h], Events[h][m].kind = Order[j], Holds(h, m, B)
              PROVE  FALSE
            <4>1. /\ Events[h][m].op = o /\ Events[h][m].kind \in StatusKinds
                  /\ StatusOf(Events[h][m].kind) # n
                BY <1>2, <3>2
            <4>2. Events[h][m].kind # Events[h][i].kind
                BY <2>1, <4>1
            <4>3. Rank(Order[j]) <= Rank(Order[k]) /\ j # k
                BY <2>1, <2>2, <3>2, <4>1, <4>2
            <4>4. Rank(Order[j]) = j /\ Rank(Order[k]) = k
                BY RankIs
            <4>5. j <= k
                BY <4>3, <4>4, Zenon
            <4> QED
                BY <2>6, <4>3, <4>5
        <3> QED
            BY <2>3, <3>1, <3>2
    <2>7. Ends(ss[k], G, B)
        <3>0. k >= k
            OBVIOUS
        <3>1. ~Has(ss[k], B)
            BY <2>6, <3>0, Zenon
        <3> QED
            BY <2>5, <3>1, EndsHas, Zenon
    <2>8. \A j \in DOMAIN ss : j > k => ~Has(ss[j], B)
        BY <2>3, <2>6
    <2>9. Ends(Flat(ss), G, B)
        BY <2>5, <2>7, <2>8, EndsFlat
    <2> QED
        BY <1>1, <2>3, <2>9 DEF Rest
<1> QED
    BY <1>3, <1>4

LEMMA AfterMore ==
    ASSUME NEW X, NEW s \in Seq(X), s # <<>>, NEW A, NEW F, ~Meets(Head(s), A), After(Tail(s), A, F)
    PROVE  After(s, A, F)
<1>1. /\ Head(s) = s[1] /\ DOMAIN s = 1 .. Len(s) /\ Len(s) \in Nat
      /\ DOMAIN Tail(s) = 1 .. Len(s) - 1
      /\ \A i \in DOMAIN Tail(s) : i + 1 \in DOMAIN s /\ Tail(s)[i] = s[i + 1]
      /\ \A i \in DOMAIN s : i = 1 \/ i - 1 \in DOMAIN Tail(s)
    BY TailPlaces
<1>2. SUFFICES ASSUME NEW i \in DOMAIN s, Meets(s[i], A)
               PROVE  \E j \in DOMAIN s : j < i /\ Meets(s[j], F)
    BY DEF After
<1>3. i # 1
    BY <1>1, <1>2
<1>4. i - 1 \in DOMAIN Tail(s) /\ (i - 1) + 1 = i
    BY <1>1, <1>3
<1>5. Meets(Tail(s)[i - 1], A)
    BY <1>1, <1>2, <1>4
<1>6. PICK j \in DOMAIN Tail(s) : j < i - 1 /\ Meets(Tail(s)[j], F)
    BY <1>4, <1>5 DEF After
<1>7. j + 1 \in DOMAIN s /\ Tail(s)[j] = s[j + 1] /\ j + 1 < i
    BY <1>1, <1>6
<1> QED
    BY <1>6, <1>7

\* The row of an operator is made before a block changes it.
LEMMA ScriptAfter ==
    ASSUME NEW h \in Height, NEW o \in Operators, NEW m \in DOMAIN Events[h],
           Events[h][m].kind = "registered", Events[h][m].op = o
    PROVE  After(Script[h], OpAfter(o), OpSteps(o))
<1>1. PICK A, F : A = OpAfter(o) /\ F = OpSteps(o)
    OBVIOUS
<1>2. PICK ss \in Seq(Seq(Body(h))) :
         ss = Parts10(h) /\ DOMAIN ss = 1 .. 10 /\ \A j \in 1 .. 10 : ss[j] = OfKind(h, Order[j])
    BY PartsType
<1>3. 1 \in DOMAIN ss /\ ss[1] = OfKind(h, "registered")
    BY <1>2, OrderIs
<1>4. Has(ss[1], F)
    <2>1. Holds(h, m, F)
        BY <1>1, HoldsOp
    <2> QED
        BY <1>3, <2>1, OfKindHas
<1>5. ~Has(ss[1], A)
    <2>1. ASSUME NEW i \in DOMAIN Events[h], Events[h][i].kind = "registered" PROVE ~Holds(h, i, A)
        <3>1. Holds(h, i, A) <=> Holds(h, i, StatsOf(o)) \/ Holds(h, i, StatusTo(o, Status))
            BY <1>1, HoldsUnion DEF OpAfter
        <3>2. ~Holds(h, i, StatsOf(o)) /\ ~Holds(h, i, StatusTo(o, Status))
            BY <2>1, HoldsOp
        <3> QED
            BY <3>1, <3>2
    <2> QED
        BY <1>3, <2>1, OfKindHas
<1>6. After(Flat(ss), A, F)
    BY <1>3, <1>4, <1>5, AfterFlat
<1>7. After(Rest(h), A, F)
    BY <1>2, <1>6 DEF Rest
<1>8. PICK X : X = Steps(h)
    OBVIOUS
<1>9. PICK s \in Seq(X) : s = Script[h]
    BY <1>8, ScriptIs
<1>10. PICK t \in Seq(X) : t = Tail(s)
    BY <1>8, <1>9, ScriptIs
<1>11. s # <<>> /\ t # <<>> /\ Head(s) = Delete1 /\ Head(t) = Delete2 /\ Tail(t) = Rest(h)
    BY <1>9, <1>10, ScriptIs
<1>12. ~Meets(Delete1, A) /\ ~Meets(Delete2, A)
    <2>1. (\A x \in StatsOf(o) : x.do = "stats") /\ \A x \in StatusTo(o, Status) : x.do = "status"
        BY DEF StatsOf, StatusTo
    <2>2. Delete1 \notin A /\ Delete2 \notin A
        BY <1>1, <2>1, DeletesAre DEF OpAfter
    <2> QED
        BY <2>2, DeletesAre, MeetsPlain
<1>13. After(t, A, F)
    BY <1>7, <1>11, <1>12, AfterMore
<1>14. After(s, A, F)
    BY <1>10, <1>11, <1>12, <1>13, AfterMore
<1> QED
    BY <1>1, <1>9, <1>14

\* No two blocks that write the status of o are in flight, and every earlier
\* one is processed.
LEMMA OneAtATime ==
    ASSUME TypeInv, NEW o \in Operators, Apart(o), NEW g \in Height, NEW h \in Height,
           WritesStatus(o, g), WritesStatus(o, h), g < h, h < next + Parallel, pc = "work"
    PROVE  g < next /\ g \notin DOMAIN todo /\ Processed(g)
<1>1. g + Parallel <= h
    BY DEF Apart
<1>2. g \in Nat /\ h \in Nat /\ next \in Nat /\ Parallel \in Nat
    BY Bounds, EventsType, ShapeNumbers DEF TypeInv
<1>3. g < next
    BY <1>1, <1>2
<1>4. g \notin DOMAIN todo
    BY <1>2, <1>3, InFlight, ShapeNumbers DEF TypeInv
<1> QED
    BY <1>3, <1>4 DEF Processed

\* A statement that writes the row of o, and what it leaves there.
WritesOp(st, o) == st.do \in {"operator", "status", "stats"} /\ st.op = o

LEMMA WritesOpIs ==
    ASSUME NEW h \in Height, NEW st \in Plain(h) \union Deletes, NEW o \in Operators, WritesOp(st, o)
    PROVE  /\ WritesStatus(o, h)
           /\ Meets(st, OpGood(o, h)) \/ Meets(st, OpBad(o, h))
           /\ st.do # "operator" => Meets(st, OpAfter(o))
<1>1. st \in Plain(h) /\ st.op = o
    BY DEF WritesOp, Deletes
<1>2. \A S : Meets(st, S) <=> st \in S
    BY MeetsPlain DEF WritesOp
<1>3. CASE st.do = "operator"
    <2>1. st \in OperatorSteps(h)
        BY <1>1, <1>3, PlainOf
    <2>2. st \in OpSteps(o)
        BY <1>1, <2>1 DEF OperatorSteps, OpSteps
    <2> QED
        BY <1>1, <1>2, <1>3, <2>1, <2>2, OperatorStep DEF OpGood
<1>4. CASE st.do = "status"
    <2>1. st \in StatusSteps(h)
        BY <1>1, <1>4, PlainOf
    <2>2. st \in StatusTo(o, Status) /\ st \in StatusTo(o, {st.status}) /\ st.status \in Status
        BY <1>1, <2>1 DEF StatusSteps, StatusTo
    <2>3. st \in OpGood(o, h) \/ st \in OpBad(o, h)
        <3>1. CASE st.status = OperatorAt(o, h)
            BY <2>2, <3>1 DEF OpGood
        <3>2. CASE st.status # OperatorAt(o, h)
            BY <2>2, <3>2 DEF OpBad, StatusTo
        <3> QED
            BY <3>1, <3>2
    <2> QED
        BY <1>1, <1>2, <2>1, <2>2, <2>3, StatusStep DEF OpAfter
<1>5. CASE st.do = "stats"
    <2>1. st \in StatsSteps(h)
        BY <1>1, <1>5, PlainOf
    <2>2. st \in StatsOf(o)
        BY <1>1, <2>1 DEF StatsSteps, StatsOf
    <2> QED
        BY <1>1, <1>2, <2>1, <2>2, StatsStep DEF OpGood, OpAfter
<1> QED
    BY <1>3, <1>4, <1>5 DEF WritesOp

LEMMA StatusKept ==
    ASSUME NEW d \in Tables, NEW d2, NEW h \in Height, NEW st \in Plain(h) \union Deletes,
           Wrote(d, d2, h, st), NEW o \in Operators, ~WritesOp(st, o), NEW s
    PROVE  StatusIs(d2, o, s) <=> StatusIs(d, o, s)
<1>1. DOMAIN d.operators \subseteq DOMAIN d2.operators
    BY WroteKeeps
<1>2. o \in DOMAIN d2.operators => o \in DOMAIN d.operators
    BY WroteOperators DEF WritesOp
<1>3. o \in DOMAIN d.operators => d2.operators[o].status = d.operators[o].status
    <2>1. st.do \in {"operator", "status", "stats"} => st.op # o
        BY DEF WritesOp
    <2>2. CASE st.do \notin {"operator", "status", "stats", "count"}
        BY <2>2, WroteOther
    <2>3. CASE st.do = "operator"
        BY <2>1, <2>3 DEF Wrote, OperatorPut
    <2>4. CASE st.do = "status"
        BY <2>1, <2>4 DEF Wrote, StatusSet
    <2>5. CASE st.do = "stats"
        BY <2>1, <2>5 DEF Wrote, StatusSet
    <2>6. CASE st.do = "count"
        BY <2>6 DEF Wrote, CountSet
    <2> QED
        BY <2>2, <2>3, <2>4, <2>5, <2>6
<1> QED
    BY <1>1, <1>2, <1>3 DEF StatusIs

\* A good statement leaves the status o has after the block.
LEMMA StatusMade ==
    ASSUME NEW d \in Tables, NEW d2, NEW h \in Height, NEW st \in Plain(h) \union Deletes,
           Wrote(d, d2, h, st), NEW o \in Operators, OperatorAt(o, h) \in Status,
           Meets(st, OpGood(o, h)), o \in DOMAIN d.operators \/ ~Meets(st, OpAfter(o))
    PROVE  StatusIs(d2, o, OperatorAt(o, h))
<1>1. OperatorAt(o, h) # "none"
    BY DEF Status, SilentKinds
<1>2. st.do # "read"
    BY PlainKinds DEF Deletes
<1>3. st \in OpGood(o, h) /\ (st \in OpAfter(o) => o \in DOMAIN d.operators)
    BY <1>2, MeetsPlain
<1>4. CASE st \in OpSteps(o)
    <2>1. st.do = "operator" /\ st.op = o
        BY <1>4 DEF OpSteps
    <2>3. d2.operators[o].status = OperatorAt(o, h)
        BY <2>1 DEF Wrote, OperatorPut
    <2>2. o \in DOMAIN d2.operators /\ d2.operators[o].status = OperatorAt(o, h)
        BY <2>1, <2>3, WroteKeeps
    <2> QED
        BY <1>1, <2>2 DEF StatusIs
<1>5. CASE st \in StatsOf(o)
    <2>1. st.do = "stats" /\ st.op = o /\ o \in DOMAIN d.operators
        BY <1>3, <1>5 DEF StatsOf, OpAfter
    <2>3. d2.operators[o].status = OperatorAt(o, h)
        BY <2>1 DEF Wrote, StatusSet
    <2>2. o \in DOMAIN d2.operators /\ d2.operators[o].status = OperatorAt(o, h)
        BY <2>1, <2>3, WroteKeeps
    <2> QED
        BY <1>1, <2>2 DEF StatusIs
<1>6. CASE st \in StatusTo(o, {OperatorAt(o, h)})
    <2>1. st.do = "status" /\ st.op = o /\ st.status = OperatorAt(o, h) /\ st \in StatusTo(o, Status)
        BY <1>6 DEF StatusTo
    <2>3. o \in DOMAIN d.operators
        BY <1>3, <2>1 DEF OpAfter
    <2>4. o \in DOMAIN d.operators /\ st.do = "status" /\ st.op = o =>
             d2.operators[o].status = st.status
        BY WroteOperators
    <2>2. o \in DOMAIN d2.operators /\ d2.operators[o].status = OperatorAt(o, h)
        BY <2>1, <2>3, <2>4, WroteKeeps
    <2> QED
        BY <1>1, <2>2 DEF StatusIs
<1> QED
    BY <1>3, <1>4, <1>5, <1>6 DEF OpGood

LEMMA OpStatement ==
    ASSUME TypeInv, NEW h \in Height, Statement(h), NEW o \in Operators, WritesStatus(o, h),
           OpUnderWay(o, h)
    PROVE  OpUnderWay(o, h)'
<1>1. /\ h \in DOMAIN todo /\ todo[h] \in Forms(h) /\ todo[h] # <<>>
      /\ Head(todo[h]) \in Plain(h) \union Deletes
      /\ Wrote(db, db', h, Head(todo[h])) /\ db \in Tables
      /\ DOMAIN todo' = DOMAIN todo /\ todo'[h] = Tail(todo[h])
    BY StatementIs DEF TypeInv
<1>2. PICK G, B, A, F : G = OpGood(o, h) /\ B = OpBad(o, h) /\ A = OpAfter(o) /\ F = OpSteps(o)
    OBVIOUS
<1>3. PICK s \in Seq(Steps(h)) : s = todo[h] /\ s # <<>>
    BY <1>1, FormType
<1>4. PICK st \in Plain(h) \union Deletes : st = Head(s)
    BY <1>1, <1>3
<1>5. Wrote(db, db', h, st)
    BY <1>1, <1>3, <1>4
<1>6. PICK n \in Status : n = OperatorAt(o, h)
    BY WritesIs
<1>7. /\ Ends(s, G, B) \/ (~Has(s, B) /\ StatusIs(db, o, n))
      /\ o \in DOMAIN db.operators \/ After(s, A, F)
    BY <1>1, <1>2, <1>3, <1>6 DEF OpUnderWay
<1>8. Has(s, B) <=> Meets(st, B) \/ Has(Tail(s), B)
    BY <1>3, <1>4, HasTail
<1>9. o \in DOMAIN db.operators \/ (~Meets(st, A) /\ (Meets(st, F) \/ After(Tail(s), A, F)))
    BY <1>3, <1>4, <1>7, AfterTail
<1>10. Meets(st, F) => o \in DOMAIN db'.operators
    <2>1. st.do # "read"
        BY PlainKinds DEF Deletes
    <2>2. Meets(st, F) => st.do = "operator" /\ st.op = o
        BY <1>2, <2>1, MeetsPlain DEF OpSteps
    <2>3. st.do = "operator" => st.op \in DOMAIN db'.operators
        BY <1>1, <1>5, WroteKeeps
    <2> QED
        BY <2>2, <2>3
<1>11. o \in DOMAIN db'.operators \/ After(Tail(s), A, F)
    <2>1. DOMAIN db.operators \subseteq DOMAIN db'.operators
        BY <1>1, <1>5, WroteKeeps
    <2> QED
        BY <1>9, <1>10, <2>1
<1>12. Meets(st, G) => StatusIs(db', o, n)
    BY <1>1, <1>2, <1>5, <1>6, <1>9, StatusMade
<1>13. ASSUME ~Meets(st, B), StatusIs(db, o, n) PROVE StatusIs(db', o, n)
    <2>1. CASE WritesOp(st, o)
        BY <1>2, <1>12, <1>13, <2>1, WritesOpIs
    <2>2. CASE ~WritesOp(st, o)
        BY <1>1, <1>5, <1>13, <2>2, StatusKept
    <2> QED
        BY <2>1, <2>2
<1>14. Ends(s, G, B) => Ends(Tail(s), G, B) \/ (Meets(st, G) /\ ~Has(Tail(s), B))
    BY <1>3, <1>4, EndsTail
<1>15. Ends(Tail(s), G, B) \/ (~Has(Tail(s), B) /\ StatusIs(db', o, n))
    BY <1>7, <1>8, <1>12, <1>13, <1>14, Zenon
<1> QED
    BY <1>1, <1>2, <1>3, <1>6, <1>11, <1>15 DEF OpUnderWay

LEMMA OpRead ==
    ASSUME TypeInv, NEW h \in Height, ReadStorage(h), ~degraded', NEW o \in Operators, OpUnderWay(o, h)
    PROVE  OpUnderWay(o, h)'
<1>1. /\ h \in DOMAIN todo /\ todo[h] \in Forms(h) /\ todo[h] # <<>> /\ Head(todo[h]).do = "read"
      /\ db' = db /\ todo'[h] = Head(todo[h]).ok \o Tail(todo[h])
    BY ReadIs DEF TypeInv
<1>2. PICK G, B, A, F : G = OpGood(o, h) /\ B = OpBad(o, h) /\ A = OpAfter(o) /\ F = OpSteps(o)
    OBVIOUS
<1>3. Has(Head(todo[h]).ok \o Tail(todo[h]), B) <=> Has(todo[h], B)
    BY <1>1, ReadHas
<1>4. Ends(todo[h], G, B) => Ends(Head(todo[h]).ok \o Tail(todo[h]), G, B)
    BY <1>1, ReadEnds
<1>5. After(todo[h], A, F) => After(Head(todo[h]).ok \o Tail(todo[h]), A, F)
    BY <1>1, ReadAfter
<1>6. /\ Ends(todo[h], G, B) \/ (~Has(todo[h], B) /\ StatusIs(db, o, OperatorAt(o, h)))
      /\ o \in DOMAIN db.operators \/ After(todo[h], A, F)
    BY <1>1, <1>2 DEF OpUnderWay
<1>7. /\ Ends(todo'[h], G, B) \/ (~Has(todo'[h], B) /\ StatusIs(db', o, OperatorAt(o, h)))
      /\ o \in DOMAIN db'.operators \/ After(todo'[h], A, F)
    BY <1>1, <1>3, <1>4, <1>5, <1>6, Zenon
<1> QED
    BY <1>2, <1>7 DEF OpUnderWay

\* A block begins with everything to write, or with the row of o there.
LEMMA OpStart ==
    ASSUME TypeInv, FoundInv, ~degraded, NEW h \in Height, StartBlock(h),
           NEW o \in Operators, Apart(o), Announced(o), InTurn(o), WritesStatus(o, h)
    PROVE  OpUnderWay(o, h)'
<1>1. /\ todo'[h] = Script[h] /\ db' = db /\ pc = "work" /\ h < next + Parallel
    BY DEF StartBlock, Put
<1>2. Ends(Script[h], OpGood(o, h), OpBad(o, h))
    BY RestOp, ScriptEnds
<1>3. Changes(o, h) # {}
    BY WritesIs
<1>4. PICK p \in Changes(o, h) : EventAt(p).kind = "registered"
    BY <1>3, ChainAssumption
<1>5. PICK g \in Height : /\ g \in 1 .. h
                         /\ \E i \in DOMAIN Events[g] : Events[g][i].kind = "registered" /\ Events[g][i].op = o
    <2>1. h \in 0 .. Top
        BY WritesIs
    <2> QED
        BY <1>4, <2>1, ChangesIs DEF EventAt
<1>5a. PICK i \in DOMAIN Events[g] : Events[g][i].kind = "registered" /\ Events[g][i].op = o
    BY <1>5
<1>6. CASE g = h
    <2>1. After(Script[h], OpAfter(o), OpSteps(o))
        BY <1>5, <1>5a, <1>6, ScriptAfter
    <2> QED
        BY <1>1, <1>2, <2>1 DEF OpUnderWay
<1>7. CASE g # h
    <2>1. g < h /\ WritesStatus(o, g)
        BY <1>5, <1>5a, <1>7, EventsType DEF WritesStatus, StatusKinds
    <2>2. Processed(g)
        BY <1>1, <2>1, OneAtATime
    <2>3. PICK x : x = OperatorSt(o) /\ x.do = "operator" /\ x.op = o
        BY OperatorFields
    <2>4. InBlock(g, Registering(o))
        BY <1>5, <1>5a, EventsType DEF InBlock, Registering
    <2>5. x \in OperatorSteps(g)
        BY <2>3, <2>4 DEF OperatorSt, OperatorSteps
    <2>6. x \in Plain(g)
        BY <2>5 DEF Plain
    <2>7. Has(Script[g], {x})
        <3>1. Delete1 # x /\ Delete2 # x
            BY <2>3, DeletesAre
        <3>2. Holds(g, i, {x})
            BY <1>5, <1>5a, <2>3 DEF Holds
        <3> QED
            BY <3>1, <3>2, ScriptHas
    <2>8. Sat(db, x)
        BY <2>2, <2>6, <2>7 DEF FoundInv
    <2>9. o \in DOMAIN db.operators
        BY <2>3, <2>8, SatIs
    <2> QED
        BY <1>1, <1>2, <2>9 DEF OpUnderWay
<1> QED
    BY <1>6, <1>7

\* The status is the same on both sides of blocks that do not write it.
LEMMA SameAt ==
    ASSUME NEW o, Announced(o), NEW g \in 0 .. Top, NEW h \in 0 .. Top,
           \A r \in Height : WritesStatus(o, r) => ~(r > g /\ r <= h) /\ ~(r > h /\ r <= g)
    PROVE  OperatorAt(o, g) = OperatorAt(o, h)
<1>1. \A r \in Height : \A i \in DOMAIN Events[r] :
         Events[r][i].op = o /\ Events[r][i].kind \in StatusKinds \union SilentKinds => WritesStatus(o, r)
    BY DEF WritesStatus, Announced
<1>2. CASE g <= h
    <2>1. g \in 0 .. h
        BY <1>2, EventsType
    <2>2. \A r \in Height : r > g /\ r <= h =>
              \A i \in DOMAIN Events[r] :
                  ~(Events[r][i].op = o /\ Events[r][i].kind \in StatusKinds \union SilentKinds)
        BY <1>1
    <2> QED
        BY <2>1, <2>2, SameOperatorAt
<1>3. CASE h <= g
    <2>1. h \in 0 .. g
        BY <1>3, EventsType
    <2>2. \A r \in Height : r > h /\ r <= g =>
              \A i \in DOMAIN Events[r] :
                  ~(Events[r][i].op = o /\ Events[r][i].kind \in StatusKinds \union SilentKinds)
        BY <1>1
    <2>3. OperatorAt(o, h) = OperatorAt(o, g)
        BY <2>1, <2>2, SameOperatorAt
    <2> QED
        BY <2>3
<1> QED
    BY <1>2, <1>3, EventsType

LEMMA FrontIs ==
    ASSUME TypeInv
    PROVE  /\ Frontier \in 0 .. Top /\ Frontier <= top
           /\ pc = "work" => Frontier = next - 1 /\ to = top /\ next <= to + 1
           /\ pc = "idle" => Frontier = checkpoint
<1>1. /\ next \in Nat \ {0} /\ to \in Nat /\ checkpoint \in Nat /\ top \in Nat
      /\ to <= Top /\ top <= Top /\ checkpoint <= top
      /\ Top \in Nat /\ pc \in {"idle", "work"}
      /\ pc = "work" => to = top /\ next <= to + 1
    BY ShapeNumbers DEF TypeInv
<1>2. CASE pc = "work"
    BY <1>1, <1>2 DEF Frontier
<1>3. CASE pc = "idle"
    BY <1>1, <1>3 DEF Frontier
<1> QED
    BY <1>1, <1>2, <1>3

\* The front moves without a write: what is ahead stays ahead, or the status
\* there is the one the tables have.
MovesOver(o, g, t, v, h, u, w) ==
    /\ \A r \in Height : (r > g /\ r <= t) \/ r \in v =>
          ~WritesStatus(o, r) \/ (r > h /\ r <= u) \/ r \in w
    /\ \A r \in Height : (r > g /\ r <= h) \/ (r > h /\ r <= g) =>
          ~WritesStatus(o, r) \/ (r > h /\ r <= u) \/ r \in w

LEMMA Moved ==
    ASSUME NEW d, NEW o, Announced(o), NEW g \in 0 .. Top, NEW h \in 0 .. Top, NEW t, NEW u, NEW v, NEW w,
           Ahead(o, g, t, v) \/ StatusIs(d, o, OperatorAt(o, g)),
           MovesOver(o, g, t, v, h, u, w)
    PROVE  Ahead(o, h, u, w) \/ StatusIs(d, o, OperatorAt(o, h))
<1> USE DEF MovesOver
<1>1. CASE Ahead(o, g, t, v)
    BY <1>1 DEF Ahead
<1>2. CASE StatusIs(d, o, OperatorAt(o, g)) /\ ~Ahead(o, h, u, w)
    <2>1. \A r \in Height : WritesStatus(o, r) => ~(r > g /\ r <= h) /\ ~(r > h /\ r <= g)
        BY <1>2 DEF Ahead
    <2>2. OperatorAt(o, g) = OperatorAt(o, h)
        BY <2>1, SameAt
    <2> QED
        BY <1>2, <2>2
<1> QED
    BY <1>1, <1>2

LEMMA OpDoneNext ==
    ASSUME TypeInv, [Next]_vars, NEW o \in Operators, Announced(o), OpDone(o),
           \A h \in Height : WritesStatus(o, h) => OpUnderWay(o, h)
    PROVE  OpDone(o)'
<1>0. Ahead(o, Frontier, top, owed) \/ StatusIs(db, o, OperatorAt(o, Frontier))
    BY DEF OpDone
<1>1. SUFFICES Ahead(o, Frontier', top', owed') \/ StatusIs(db', o, OperatorAt(o, Frontier'))
    BY DEF OpDone, Ahead
<1>2. PICK f \in 0 .. Top : f = Frontier
    BY FrontIs
<1>3. PICK f2 \in 0 .. Top : f2 = Frontier'
    <2>1. TypeInv'
        BY TypeNext
    <2>2. /\ next' \in 1 .. Top + 1 /\ checkpoint' \in 0 .. Top
        BY <2>1 DEF TypeInv, Shape
    <2>4. next' - 1 \in 0 .. Top
        <3>1. PICK n \in 1 .. Top + 1 : n = next'
            BY <2>2
        <3>2. n - 1 \in 0 .. Top
            BY EventsType
        <3> QED
            BY <3>1, <3>2, Zenon
    <2>3. Frontier' \in 0 .. Top
        BY <2>2, <2>4, Zenon DEF Frontier
    <2> QED
        BY <2>3
<1>4. /\ f \in Nat /\ f2 \in Nat /\ next \in Nat \ {0} /\ to \in Nat /\ checkpoint \in Nat /\ top \in Nat
      /\ checkpoint <= top /\ Height \subseteq Nat /\ pc \in {"idle", "work"}
    BY ShapeNumbers, EventsType DEF TypeInv
<1>5. /\ f <= top /\ (pc = "work" => f = next - 1 /\ to = top /\ next <= to + 1)
      /\ pc = "idle" => f = checkpoint
    BY <1>2, FrontIs
<1>6. f2 = IF pc' = "work" THEN next' - 1 ELSE checkpoint'
    BY <1>3 DEF Frontier
<1>7. Ahead(o, f, top, owed) \/ StatusIs(db, o, OperatorAt(o, f))
    BY <1>0, <1>2
<1>8. SUFFICES Ahead(o, f2, top', owed') \/ StatusIs(db', o, OperatorAt(o, f2))
    BY <1>3
<1>9. ASSUME NEW h \in Height, Statement(h)
      PROVE  Ahead(o, f2, top', owed') \/ StatusIs(db', o, OperatorAt(o, f2))
    <2>1. UNCHANGED <<pc, next, to, checkpoint, top, owed>>
        BY <1>9 DEF Statement, history
    <2>2. f2 = f
        BY <1>2, <1>3, <2>1 DEF Frontier
    <2>3. /\ h \in DOMAIN todo /\ Head(todo[h]) \in Plain(h) \union Deletes
          /\ Wrote(db, db', h, Head(todo[h])) /\ db \in Tables
        BY <1>9, StatementIs DEF TypeInv
    <2>4. CASE WritesOp(Head(todo[h]), o)
        <3>1. WritesStatus(o, h)
            BY <2>3, <2>4, WritesOpIs
        <3>2. pc = "work" /\ h \in next .. to
            BY <2>3, InFlight DEF TypeInv
        <3>3. h > f /\ h <= top
            BY <1>4, <1>5, <3>2
        <3> QED
            BY <2>1, <2>2, <3>1, <3>3 DEF Ahead
    <2>5. CASE ~WritesOp(Head(todo[h]), o)
        <3>1. StatusIs(db', o, OperatorAt(o, f)) <=> StatusIs(db, o, OperatorAt(o, f))
            BY <2>3, <2>5, StatusKept
        <3> QED
            BY <1>7, <2>1, <2>2, <3>1
    <2> QED
        BY <2>4, <2>5
<1>10. ASSUME UNCHANGED <<pc, next, to, checkpoint, top, owed, db>>
       PROVE  Ahead(o, f2, top', owed') \/ StatusIs(db', o, OperatorAt(o, f2))
    <2>1. f2 = f
        BY <1>2, <1>3, <1>10 DEF Frontier
    <2> QED
        BY <1>7, <1>10, <2>1
<1>11. ASSUME NEW from \in Height, NEW until \in Height, StartBatch(from, until)
       PROVE  Ahead(o, f2, top', owed') \/ StatusIs(db', o, OperatorAt(o, f2))
    <2>1. /\ pc = "idle" /\ pc' = "work" /\ next' = from /\ top' = until /\ top <= until
          /\ owed' = owed /\ db' = db /\ (from = checkpoint + 1 \/ from \in 1 .. checkpoint)
        BY <1>11 DEF StartBatch
    <2>2. f = checkpoint /\ f2 = from - 1 /\ from \in Nat /\ until \in Nat
        BY <1>4, <1>5, <1>6, <2>1
    <2>3. \A r \in Height : (r > f /\ r <= top) \/ r \in owed => (r > f2 /\ r <= until) \/ r \in owed
        BY <1>4, <2>1, <2>2
    <2>4. \A r \in Height : (r > f /\ r <= f2) \/ (r > f2 /\ r <= f) => (r > f2 /\ r <= until) \/ r \in owed
        BY <1>4, <2>1, <2>2
    <2>5. Ahead(o, f2, until, owed) \/ StatusIs(db, o, OperatorAt(o, f2))
        <3>1. MovesOver(o, f, top, owed, f2, until, owed)
            BY <2>3, <2>4, Zenon DEF MovesOver
        <3> QED
            BY <1>7, <3>1, Moved, Zenon
    <2> QED
        BY <2>1, <2>5
<1>12. CASE YieldBlock
    <2>1. /\ pc = "work" /\ pc' = "work" /\ next' = next + 1 /\ top' = top /\ owed' = owed \ {next}
          /\ db' = db /\ next \in DOMAIN todo /\ todo[next] = <<>>
        BY <1>12 DEF YieldBlock
    <2>2. f = next - 1 /\ f2 = next
        BY <1>4, <1>5, <1>6, <2>1
    <2>3. next \in Height
        BY <2>1, InFlight DEF TypeInv
    <2>4. CASE WritesStatus(o, next)
        <3>1. OpUnderWay(o, next)
            BY <2>3, <2>4
        <3>2. ~Ends(<<>>, OpGood(o, next), OpBad(o, next))
            BY DEF Ends
        <3>3. StatusIs(db, o, OperatorAt(o, next))
            BY <2>1, <3>1, <3>2 DEF OpUnderWay
        <3> QED
            BY <2>1, <2>2, <3>3
    <2>5. CASE ~WritesStatus(o, next)
        <3>0. PICK w : w = owed \ {next}
            OBVIOUS
        <3>1. \A r \in Height : (r > f /\ r <= top) \/ r \in owed =>
                 ~WritesStatus(o, r) \/ (r > f2 /\ r <= top) \/ r \in w
            BY <1>4, <2>2, <2>5, <3>0
        <3>2. \A r \in Height : (r > f /\ r <= f2) \/ (r > f2 /\ r <= f) =>
                 ~WritesStatus(o, r) \/ (r > f2 /\ r <= top) \/ r \in w
            BY <1>4, <2>2, <2>5, <3>0
        <3>3. Ahead(o, f2, top, w) \/ StatusIs(db, o, OperatorAt(o, f2))
            <4>1. MovesOver(o, f, top, owed, f2, top, w)
                BY <3>1, <3>2, Zenon DEF MovesOver
            <4> QED
                BY <1>7, <4>1, Moved, Zenon
        <3> QED
            BY <2>1, <3>0, <3>3
    <2> QED
        BY <2>4, <2>5
<1>13. CASE FinishBatch
    <2>1. /\ pc = "work" /\ pc' = "idle" /\ next > to /\ checkpoint' = to /\ db' = db
          /\ top' = top /\ owed' = owed
        BY <1>13 DEF FinishBatch, history
    <2>2. f2 = f
        BY <1>4, <1>5, <1>6, <2>1
    <2> QED
        BY <1>7, <2>1, <2>2
<1>14. CASE Crash
    <2>1. /\ pc = "work" /\ pc' = "idle" /\ checkpoint' = checkpoint /\ db' = db /\ top' = top
          /\ owed' = owed \union (next .. to \intersect 1 .. checkpoint)
        BY <1>14 DEF Crash
    <2>2. f = next - 1 /\ f2 = checkpoint /\ to = top /\ next <= to + 1
        BY <1>5, <1>6, <2>1
    <2>3. \A r \in Height : r \in Nat \ {0}
        BY EventsType DEF Height
    <2>4. \A r \in Height : (r > f /\ r <= top) \/ r \in owed => (r > f2 /\ r <= top) \/ r \in owed'
        BY <1>4, <2>1, <2>2, <2>3
    <2>5. \A r \in Height : (r > f /\ r <= f2) \/ (r > f2 /\ r <= f) => (r > f2 /\ r <= top) \/ r \in owed'
        BY <1>4, <2>1, <2>2, <2>3
    <2>6. Ahead(o, f2, top, owed') \/ StatusIs(db, o, OperatorAt(o, f2))
        <3>1. MovesOver(o, f, top, owed, f2, top, owed')
            BY <2>4, <2>5, Zenon DEF MovesOver
        <3> QED
            BY <1>7, <3>1, Moved, Zenon
    <2> QED
        BY <2>1, <2>6
<1>15. ASSUME NEW h \in Height, StartBlock(h) \/ ReadStorage(h)
       PROVE  UNCHANGED <<pc, next, to, checkpoint, top, owed, db>>
    BY <1>15 DEF StartBlock, ReadStorage, history
<1>16. UNCHANGED others => UNCHANGED <<pc, next, to, checkpoint, top, owed, db>>
    BY OthersAre
<1> QED
    BY <1>9, <1>10, <1>11, <1>12, <1>13, <1>14, <1>15, <1>16, OthersKept DEF Next

LEMMA OpUnderWayNext ==
    ASSUME TypeInv, FoundInv, [Next]_vars, ~degraded', NEW o \in Operators,
           Apart(o), Announced(o), InTurn(o), NEW h \in Height, WritesStatus(o, h), OpUnderWay(o, h)
    PROVE  OpUnderWay(o, h)'
<1>1. CASE Statement(h)
    BY <1>1, OpStatement
<1>2. CASE ReadStorage(h)
    BY <1>2, OpRead
<1>3. CASE StartBlock(h)
    BY <1>3, DegradedNext, OpStart
<1>4. SUFFICES ASSUME ~Statement(h), ~ReadStorage(h), ~StartBlock(h), h \in DOMAIN todo'
               PROVE  OpUnderWay(o, h)'
    BY <1>1, <1>2, <1>3 DEF OpUnderWay
<1>5. h \in DOMAIN todo /\ todo'[h] = todo[h]
    <2>1. ASSUME NEW g \in Height, StartBlock(g) PROVE h \in DOMAIN todo /\ todo'[h] = todo[h]
        <3>1. /\ DOMAIN todo' = DOMAIN todo \union {g} /\ g # h
              /\ \A f \in DOMAIN todo : f # g => todo'[f] = todo[f]
            BY <1>4, <2>1 DEF StartBlock, Put
        <3> QED
            BY <1>4, <3>1
    <2>2. ASSUME NEW g \in Height, Statement(g) PROVE h \in DOMAIN todo /\ todo'[h] = todo[h]
        <3>1. /\ DOMAIN todo' = DOMAIN todo /\ g # h
              /\ \A f \in DOMAIN todo : f # g => todo'[f] = todo[f]
            BY <1>4, <2>2, StatementIs DEF TypeInv
        <3> QED
            BY <1>4, <3>1
    <2>3. ASSUME NEW g \in Height, ReadStorage(g) PROVE h \in DOMAIN todo /\ todo'[h] = todo[h]
        <3>1. /\ DOMAIN todo' = DOMAIN todo /\ g # h
              /\ \A f \in DOMAIN todo : f # g => todo'[f] = todo[f]
            BY <1>4, <2>3, ReadIs DEF TypeInv
        <3> QED
            BY <1>4, <3>1
    <2>4. CASE YieldBlock
        BY <1>4, <2>4 DEF YieldBlock
    <2>5. CASE todo' = todo
        BY <1>4, <2>5
    <2>6. todo' # Empty
        BY <1>4 DEF Empty
    <2> QED
        BY <2>1, <2>2, <2>3, <2>4, <2>5, <2>6 DEF Next, StartBatch, SelectCount, FinishBatch, Crash, vars,
            batchVars
<1>6. /\ o \in DOMAIN db.operators => o \in DOMAIN db'.operators
      /\ StatusIs(db, o, OperatorAt(o, h)) => StatusIs(db', o, OperatorAt(o, h))
    <2>1. ASSUME NEW g \in Height, Statement(g)
          PROVE  /\ o \in DOMAIN db.operators => o \in DOMAIN db'.operators
                 /\ StatusIs(db, o, OperatorAt(o, h)) => StatusIs(db', o, OperatorAt(o, h))
        <3>1. /\ g \in DOMAIN todo /\ Head(todo[g]) \in Plain(g) \union Deletes
              /\ Wrote(db, db', g, Head(todo[g])) /\ db \in Tables /\ g # h
            BY <1>4, <2>1, StatementIs DEF TypeInv
        <3>2. ~WritesOp(Head(todo[g]), o)
            <4>1. SUFFICES ASSUME WritesStatus(o, g) PROVE FALSE
                BY <3>1, WritesOpIs
            <4>2. /\ pc = "work" /\ g < next + Parallel /\ h < next + Parallel
                BY <1>5, <3>1, InFlight DEF TypeInv
            <4>3. g < h \/ h < g
                BY <3>1, EventsType
            <4> QED
                BY <1>5, <3>1, <4>1, <4>2, <4>3, OneAtATime
        <3>3. StatusIs(db', o, OperatorAt(o, h)) <=> StatusIs(db, o, OperatorAt(o, h))
            BY <3>1, <3>2, StatusKept
        <3>4. DOMAIN db.operators \subseteq DOMAIN db'.operators
            BY <3>1, WroteKeeps
        <3> QED
            BY <3>3, <3>4
    <2> QED
        BY <2>1, DbNext
<1> QED
    BY <1>5, <1>6 DEF OpUnderWay

LEMMA OpNext == TypeInv /\ FoundInv /\ OpInv /\ [Next]_vars => OpInv'
<1> SUFFICES ASSUME TypeInv, FoundInv, OpInv, [Next]_vars, ~degraded', NEW o \in Operators,
                    Apart(o), Announced(o), InTurn(o)
             PROVE  OpDone(o)' /\ \A h \in Height : WritesStatus(o, h) => OpUnderWay(o, h)'
    BY DEF OpInv, Apart, Announced, InTurn, WritesStatus, AtEpoch
<1>1. OpDone(o) /\ \A h \in Height : WritesStatus(o, h) => OpUnderWay(o, h)
    BY DegradedNext DEF OpInv
<1>2. OpDone(o)'
    BY <1>1, OpDoneNext
<1>3. ASSUME NEW h \in Height, WritesStatus(o, h) PROVE OpUnderWay(o, h)'
    BY <1>1, <1>3, OpUnderWayNext
<1> QED
    BY <1>2, <1>3

LEMMA OpInit == Init => OpInv
<1> SUFFICES ASSUME Init, NEW o \in Operators
             PROVE  OpDone(o) /\ \A h \in Height : OpUnderWay(o, h)
    BY DEF OpInv
<1>1. pc = "idle" /\ checkpoint = 0 /\ DOMAIN todo = {} /\ DOMAIN db.operators = {}
    BY DEF Init, Empty
<1>2. Places(0) = {}
    BY DEF Places
<1>3. OperatorAt(o, 0) = "none"
    BY <1>2 DEF OperatorAt, Changes
<1>4. Frontier = 0
    BY <1>1 DEF Frontier
<1> QED
    BY <1>1, <1>3, <1>4 DEF OpDone, StatusIs, OpUnderWay

LEMMA OpGives == TypeInv /\ OpInv => OperatorsExact
<1> SUFFICES ASSUME TypeInv, OpInv, pc = "idle", checkpoint = top, ~degraded, owed = {},
                    NEW o \in Operators, Apart(o), Announced(o), InTurn(o)
             PROVE  StatusIs(db, o, OperatorAt(o, checkpoint))
    BY DEF OperatorsExact, Settled, StatusIs
<1>1. OpDone(o) /\ Frontier = checkpoint
    BY DEF OpInv, Frontier
<1>2. checkpoint \in Nat /\ Height \subseteq Nat
    BY ShapeNumbers, EventsType DEF TypeInv
<1>3. ~Ahead(o, checkpoint, top, owed)
    BY <1>2 DEF Ahead
<1> QED
    BY <1>1, <1>3 DEF OpDone

(***************************************************************************)
(* Once the processor has caught up, every operator has the status the     *)
(* chain gives it, if the blocks that write its status are far enough      *)
(* apart that no two are processed at once: update_operator_status has no  *)
(* height guard, and the order of the blocks is all that protects it.  A   *)
(* status without an event (a pending slash, an invalid bundle) must come  *)
(* as an epoch ends, the only time index_epoch_share_prices reads it.      *)
(***************************************************************************)
THEOREM OperatorsExactAlways == Spec => []OperatorsExact
<1>1. TypeInv /\ FoundInv /\ OpInv /\ [Next]_vars => (TypeInv /\ FoundInv /\ OpInv)'
    BY TypeNext, FoundNext, OpNext
<1> QED
    BY <1>1, TypeInit, FoundInit, OpInit, OpGives, PTL DEF Spec

-----------------------------------------------------------------------------
(***************************************************************************)
(* The ledger.  Credits and Debits are what a step still adds to the       *)
(* deposits and to the owners of the withdrawals; an even step is one that *)
(* adds the same whether its read succeeds or not.                         *)
(***************************************************************************)
Owned == [op : Operators, addr : Addresses]
Owner(st) == [op |-> st.op, addr |-> st.addr]
Credit(st) == [op |-> st.op, addr |-> st.addr, fee |-> st.fee]
Pulls(st) == st.do = "read" /\ st.ok # <<>> /\ st.ok[1].do = "withdrawal"

Credits(h) == [st \in Steps(h) |-> IF st.do = "deposit" THEN <<Credit(st)>> ELSE <<>>]
Debits(h) ==
    [st \in Steps(h) |->
        IF st.do = "withdrawal" THEN <<Owner(st)>>
        ELSE IF Pulls(st) THEN <<Owner(st.ok[1])>> ELSE <<>>]

Same(st, f) == st.do = "read" => Gathered(st.ok, f) = f[st] /\ Gathered(st.failed, f) = f[st]
Even(h) == {st \in Steps(h) : Same(st, Credits(h)) /\ Same(st, Debits(h))}
Quiet(s) == \A i \in DOMAIN s : s[i].do \notin {"deposit", "withdrawal"}

LEMMA LedgerSteps ==
    ASSUME NEW h, NEW st \in Steps(h)
    PROVE  /\ st.do = "deposit" => st \in DepositSteps
           /\ st.do = "withdrawal" => st \in WithdrawalSteps
           /\ st.do = "read" => /\ st \in Reads(h)
                                /\ st.ok \in Seq(Plain(h)) /\ st.failed \in Seq(Plain(h))
           /\ Pulls(st) => st.ok[1] \in WithdrawalSteps
<1>1. st \in Deletes => st.do \notin {"deposit", "withdrawal", "read"}
    BY DEF Deletes
<1>2. st \in Body(h) \/ st \in Deletes
    BY DEF Steps
<1>3. st.do = "deposit" => st \in DepositSteps
    BY <1>1, <1>2, BodyIs, PlainOf
<1>4. st.do = "withdrawal" => st \in WithdrawalSteps
    BY <1>1, <1>2, BodyIs, PlainOf
<1>5. ASSUME st.do = "read"
      PROVE  st \in Reads(h) /\ st.ok \in Seq(Plain(h)) /\ st.failed \in Seq(Plain(h))
    <2>1. st \in Reads(h)
        BY <1>1, <1>2, <1>5, BodyIs
    <2> QED
        BY <2>1 DEF Reads
<1>6. ASSUME Pulls(st) PROVE st.ok[1] \in WithdrawalSteps
    <2>1. PICK s \in Seq(Plain(h)) : s = st.ok /\ s # <<>> /\ s[1].do = "withdrawal"
        BY <1>5, <1>6 DEF Pulls
    <2>2. s[1] \in Plain(h)
        BY <2>1
    <2> QED
        BY <2>1, <2>2, PlainOf
<1> QED
    BY <1>3, <1>4, <1>5, <1>6

LEMMA LedgerTypes ==
    ASSUME NEW h
    PROVE  Credits(h) \in [Steps(h) -> Seq(Deposit)] /\ Debits(h) \in [Steps(h) -> Seq(Owned)]
<1>1. ASSUME NEW st \in Steps(h), st.do = "deposit" PROVE <<Credit(st)>> \in Seq(Deposit)
    <2>1. Credit(st) \in Deposit
        BY <1>1, LedgerSteps DEF DepositSteps, Credit, Deposit
    <2> QED
        BY <2>1
<1>2. ASSUME NEW st \in WithdrawalSteps PROVE <<Owner(st)>> \in Seq(Owned)
    <2>1. Owner(st) \in Owned
        BY DEF WithdrawalSteps, Owner, Owned
    <2> QED
        BY <2>1
<1>3a. <<>> \in Seq(Deposit) /\ <<>> \in Seq(Owned)
    OBVIOUS
<1>3. PICK D, W : D = Seq(Deposit) /\ W = Seq(Owned) /\ <<>> \in D /\ <<>> \in W
    BY <1>3a, Zenon
<1>4. ASSUME NEW st \in Steps(h)
      PROVE  (IF st.do = "deposit" THEN <<Credit(st)>> ELSE <<>>) \in D
    BY <1>1, <1>3
<1>5. ASSUME NEW st \in Steps(h)
      PROVE  (IF st.do = "withdrawal" THEN <<Owner(st)>>
              ELSE IF Pulls(st) THEN <<Owner(st.ok[1])>> ELSE <<>>) \in W
    BY <1>2, <1>3, LedgerSteps
<1>6. Credits(h) \in [Steps(h) -> D]
    BY <1>4 DEF Credits
<1>7. Debits(h) \in [Steps(h) -> W]
    BY <1>5 DEF Debits
<1> QED
    BY <1>3, <1>6, <1>7

\* What a step adds.
LEMMA LedgerOf ==
    ASSUME NEW h, NEW st \in Steps(h)
    PROVE  /\ st.do = "deposit" => Credits(h)[st] = <<Credit(st)>>
           /\ st.do # "deposit" => Credits(h)[st] = <<>>
           /\ st.do = "withdrawal" => Debits(h)[st] = <<Owner(st)>>
           /\ Pulls(st) => Debits(h)[st] = <<Owner(st.ok[1])>>
           /\ st.do # "withdrawal" /\ ~Pulls(st) => Debits(h)[st] = <<>>
<1>1. st.do = "withdrawal" => ~Pulls(st)
    BY DEF Pulls
<1> QED
    BY <1>1 DEF Credits, Debits

LEMMA QuietAdds ==
    ASSUME NEW h, NEW s \in Seq(Plain(h)), Quiet(s)
    PROVE  Gathered(s, Credits(h)) = <<>> /\ Gathered(s, Debits(h)) = <<>>
<1>1. ASSUME NEW i \in 1 .. Len(s)
      PROVE  Credits(h)[s[i]] = <<>> /\ Debits(h)[s[i]] = <<>>
    <2>1. PICK x \in Plain(h) : x = s[i] /\ x.do \notin {"deposit", "withdrawal"}
        BY DEF Quiet
    <2>2. x \in Steps(h) /\ x.do # "read"
        BY BodyIs, PlainKinds
    <2> QED
        BY <2>1, <2>2, LedgerOf DEF Pulls
<1>2. s \in Seq(Steps(h))
    <2>1. Plain(h) \subseteq Steps(h)
        BY BodyIs
    <2> QED
        BY <2>1
<1>3. Credits(h) \in [Steps(h) -> Seq(Deposit)]
    BY LedgerTypes
<1>4. Debits(h) \in [Steps(h) -> Seq(Owned)]
    BY LedgerTypes
<1>5. \A i \in 1 .. Len(s) : Credits(h)[s[i]] = <<>>
    BY <1>1
<1>6. \A i \in 1 .. Len(s) : Debits(h)[s[i]] = <<>>
    BY <1>1
<1>7. Gathered(s, Credits(h)) = <<>>
    BY <1>2, <1>3, <1>5, GatheredNone
<1>8. Gathered(s, Debits(h)) = <<>>
    BY <1>2, <1>4, <1>6, GatheredNone
<1> QED
    BY <1>7, <1>8

LEMMA QuietSteps ==
    ASSUME NEW h, NEW st \in Body(h), st.do \notin {"deposit", "withdrawal"},
           st.do = "read" => Quiet(st.ok) /\ Quiet(st.failed)
    PROVE  st \in Even(h) /\ Credits(h)[st] = <<>> /\ Debits(h)[st] = <<>>
<1>1. st \in Steps(h)
    BY BodyIs
<1>2. ~Pulls(st)
    <2>1. SUFFICES ASSUME Pulls(st) PROVE FALSE
        OBVIOUS
    <2>2. PICK s \in Seq(Plain(h)) : s = st.ok /\ s # <<>> /\ s[1].do = "withdrawal" /\ Quiet(s)
        BY <1>1, <2>1, LedgerSteps DEF Pulls
    <2>3. 1 \in DOMAIN s
        BY <2>2
    <2> QED
        BY <2>2, <2>3 DEF Quiet
<1>3. Credits(h)[st] = <<>> /\ Debits(h)[st] = <<>>
    BY <1>1, <1>2, LedgerOf
<1>4. ASSUME st.do = "read"
      PROVE  /\ Gathered(st.ok, Credits(h)) = <<>> /\ Gathered(st.ok, Debits(h)) = <<>>
             /\ Gathered(st.failed, Credits(h)) = <<>> /\ Gathered(st.failed, Debits(h)) = <<>>
    BY <1>1, <1>4, LedgerSteps, QuietAdds
<1>5. Same(st, Credits(h)) /\ Same(st, Debits(h))
    BY <1>3, <1>4, Zenon DEF Same
<1> QED
    BY <1>1, <1>3, <1>5 DEF Even

\* The steps of an event: even, and what they add.
Adds(h, s, c, w) ==
    s \in Seq(Even(h)) /\ Gathered(s, Credits(h)) = c /\ Gathered(s, Debits(h)) = w

\* Most events add nothing: what their steps do if all reads succeed ...
LEMMA QuietOk ==
    ASSUME NEW h \in Height, NEW i \in DOMAIN Events[h],
           Events[h][i].kind \notin {"nominated", "withdrew"}
    PROVE  \A j \in DOMAIN ForEvent(h, i) :
              LET st == ForEvent(h, i)[j] IN
              /\ st \in Body(h) /\ st.do \notin {"deposit", "withdrawal"}
              /\ st.do = "read" => Quiet(st.ok)
<1> DEFINE S == {x \in Plain(h) : x.do \in {"deposit", "withdrawal"}}
<1>1. ~Holds(h, i, S)
    BY OperatorFields, NominatorFields, CountFields, StatusFields, PriceFields, StatsFields DEF Holds
<1>2. PICK s \in Seq(Body(h)) : s = ForEvent(h, i) /\ ~Has(s, S)
    BY <1>1, ForEventHas DEF Whole
<1>3. ASSUME NEW j \in DOMAIN s
      PROVE  /\ s[j] \in Body(h) /\ s[j].do \notin {"deposit", "withdrawal"}
             /\ s[j].do = "read" => Quiet(s[j].ok)
    <2>0. s[j] \in Body(h) /\ ~Meets(s[j], S)
        <3> HIDE DEF S
        <3>1. s[j] \in Body(h)
            OBVIOUS
        <3> QED
            BY <1>2, <3>1, Zenon DEF Has
    <2>1. PICK st \in Body(h) : st = s[j] /\ ~Meets(st, S)
        BY <2>0, Zenon
    <2>2. CASE st.do = "read"
        <3>1. st \in Steps(h)
            BY BodyIs
        <3>2. st.ok \in Seq(Plain(h))
            BY <2>2, <3>1, LedgerSteps
        <3>3. \A k \in DOMAIN st.ok : st.ok[k] \in Plain(h)
            BY <3>2
        <3>4. \A k \in DOMAIN st.ok : st.ok[k] \notin S
            BY <2>1, <2>2, MeetsRead
        <3>5. Quiet(st.ok)
            BY <3>3, <3>4 DEF Quiet
        <3> QED
            BY <2>1, <2>2, <3>5
    <2>3. CASE st.do # "read"
        <3>1. st \in Plain(h) /\ st \notin S
            BY <2>1, <2>3, MeetsPlain, BodyIs
        <3> QED
            BY <2>1, <2>3, <3>1
    <2> QED
        BY <2>2, <2>3
<1> QED
    BY <1>2, <1>3

\* ... and if they do not.
LEMMA QuietFailed ==
    ASSUME NEW h \in Height, NEW i \in DOMAIN Events[h],
           Events[h][i].kind \notin {"nominated", "withdrew"},
           NEW j \in DOMAIN ForEvent(h, i), ForEvent(h, i)[j].do = "read"
    PROVE  Quiet(ForEvent(h, i)[j].failed)
<1> DEFINE e == Events[h][i]
<1>q. Quiet(<<>>)
    BY DEF Quiet
<1>n. \A o, a, s : Quiet(Nominator(o, a, s)) /\ \A k \in DOMAIN Nominator(o, a, s) : Nominator(o, a, s)[k].do # "read"
    <2>1. SUFFICES ASSUME NEW o, NEW a, NEW s
                   PROVE  /\ Quiet(Nominator(o, a, s))
                          /\ \A k \in DOMAIN Nominator(o, a, s) : Nominator(o, a, s)[k].do # "read"
        OBVIOUS
    <2>2. Nominator(o, a, s) = <<NominatorSt(o, a, s), CountSt(o)>>
        BY ClosedNominator
    <2>3. PICK x, y : x = NominatorSt(o, a, s) /\ y = CountSt(o) /\ x.do = "nominator" /\ y.do = "count"
        BY NominatorFields, CountFields
    <2>4. DOMAIN <<x, y>> = {1, 2} /\ <<x, y>>[1] = x /\ <<x, y>>[2] = y
        OBVIOUS
    <2>5. Quiet(<<x, y>>) /\ \A k \in DOMAIN <<x, y>> : <<x, y>>[k].do # "read"
        BY <2>3, <2>4 DEF Quiet
    <2> QED
        BY <2>2, <2>3, <2>5
<1>1. CASE e.kind = "registered"
    <2>1. PICK ok : ForEvent(h, i) = <<Read(ok, <<>>)>>
        BY <1>1, ForEventIs DEF Register
    <2>2. ForEvent(h, i)[j] = Read(ok, <<>>)
        BY <2>1
    <2>3. Read(ok, <<>>).failed = <<>>
        BY DEF Read
    <2>4. ForEvent(h, i)[j].failed = <<>>
        BY <2>2, <2>3
    <2> QED
        BY <1>q, <2>4
<1>2. CASE e.kind \in StatusKinds \ {"registered"}
    <2>1. ForEvent(h, i) = <<StatusSt(e.op, StatusOf(e.kind))>>
        BY <1>2, ForEventIs DEF SetStatus, StatusSt
    <2>2. ForEvent(h, i)[j] = StatusSt(e.op, StatusOf(e.kind))
        BY <2>1
    <2> QED
        BY <2>2, StatusFields
<1>3. CASE e.kind = "nominatorUnlocked"
    <2>1. ForEvent(h, i) = Nominator(e.op, e.addr, "withdrawn")
        BY <1>3, ForEventIs
    <2> QED
        BY <1>n, <2>1
<1>4. CASE e.kind = "stakedUnlocked"
    <2>1. PICK ok : ForEvent(h, i) = <<Read(ok, Nominator(e.op, e.addr, "active"))>>
        BY <1>4, ForEventIs DEF Unlock
    <2>2. ForEvent(h, i)[j] = Read(ok, Nominator(e.op, e.addr, "active"))
        BY <2>1
    <2>3. Read(ok, Nominator(e.op, e.addr, "active")).failed = Nominator(e.op, e.addr, "active")
        BY DEF Read
    <2>4. ForEvent(h, i)[j].failed = Nominator(e.op, e.addr, "active")
        BY <2>2, <2>3
    <2> QED
        BY <1>n, <2>4
<1>5. CASE e.kind = "epoch"
    <2> DEFINE c == SetToSeq(e.ops)
               Ok(k) == <<[do |-> "price", op |-> c[k], epoch |-> e.n],
                          [do |-> "stats", op |-> c[k]]>>
    <2>1. ForEvent(h, i) = [k \in 1 .. Len(c) |-> Read(Ok(k), <<>>)]
        BY <1>5, ForEventIs DEF EpochPrices
    <2> HIDE DEF c, Ok
    <2>2. ForEvent(h, i)[j] = Read(Ok(j), <<>>)
        BY <2>1
    <2>3. Read(Ok(j), <<>>).failed = <<>>
        BY DEF Read
    <2>4. ForEvent(h, i)[j].failed = <<>>
        BY <2>2, <2>3
    <2> QED
        BY <1>q, <2>4
<1>6. CASE e.kind \in Ignored
    <2>1. ForEvent(h, i) = <<>>
        BY <1>6, ForEventIs
    <2> QED
        BY <2>1
<1> QED
    BY <1>1, <1>2, <1>3, <1>4, <1>5, <1>6, KindIs

LEMMA QuietEvent ==
    ASSUME NEW h \in Height, NEW i \in DOMAIN Events[h],
           Events[h][i].kind \notin {"nominated", "withdrew"}
    PROVE  Adds(h, ForEvent(h, i), <<>>, <<>>)
<1>1. PICK s \in Seq(Body(h)) : s = ForEvent(h, i)
    BY ForEventHas DEF Whole
<1>2. ASSUME NEW j \in 1 .. Len(s)
      PROVE  s[j] \in Even(h) /\ Credits(h)[s[j]] = <<>> /\ Debits(h)[s[j]] = <<>>
    <2>0. j \in DOMAIN s
        OBVIOUS
    <2>1. /\ s[j] \in Body(h) /\ s[j].do \notin {"deposit", "withdrawal"}
          /\ s[j].do = "read" => Quiet(s[j].ok)
        BY <1>1, <2>0, QuietOk
    <2>2. s[j].do = "read" => Quiet(s[j].failed)
        BY <1>1, <2>0, QuietFailed
    <2> QED
        BY <2>1, <2>2, QuietSteps
<1>3. s \in Seq(Even(h))
    BY <1>2
<1>4. s \in Seq(Steps(h))
    <2>1. Body(h) \subseteq Steps(h)
        BY BodyIs
    <2> QED
        BY <2>1
<1>5. Credits(h) \in [Steps(h) -> Seq(Deposit)]
    BY LedgerTypes
<1>6. Debits(h) \in [Steps(h) -> Seq(Owned)]
    BY LedgerTypes
<1>7. Gathered(s, Credits(h)) = <<>>
    <2>1. \A j \in 1 .. Len(s) : Credits(h)[s[j]] = <<>>
        BY <1>2
    <2> QED
        BY <1>4, <1>5, <2>1, GatheredNone
<1>8. Gathered(s, Debits(h)) = <<>>
    <2>1. \A j \in 1 .. Len(s) : Debits(h)[s[j]] = <<>>
        BY <1>2
    <2> QED
        BY <1>4, <1>6, <2>1, GatheredNone
<1> QED
    BY <1>1, <1>3, <1>7, <1>8 DEF Adds

(***************************************************************************)
(* The fees.  The code counts: the n-th nomination of a nominator in a     *)
(* block takes the n-th of its fees.  That is the one in front of it if    *)
(* every fee has its nomination and the ones without a fee come last.      *)
(***************************************************************************)
LEMMA ShiftedCardinality ==
    ASSUME NEW n \in Nat, NEW S \in SUBSET (1 .. n), NEW T \in SUBSET (1 .. n),
           \A j \in S : j + 1 \in T, \A j \in T : j - 1 \in S
    PROVE  Cardinality(S) = Cardinality(T)
<1>1. IsFiniteSet(1 .. n)
    BY FS_Interval
<1>2. IsFiniteSet(S)
    BY <1>1, FS_Subset
<1>3. PICK f \in [S -> T] : \A j \in S : f[j] = j + 1
    <2>1. [j \in S |-> j + 1] \in [S -> T]
        OBVIOUS
    <2> QED
        BY <2>1
<1>4. f \in Injection(S, T)
    BY <1>3 DEF Injection, IsInjective
<1>5. f \in Surjection(S, T)
    <2>1. ASSUME NEW t \in T PROVE \E j \in S : f[j] = t
        <3>1. t - 1 \in S /\ (t - 1) + 1 = t
            OBVIOUS
        <3> QED
            BY <1>3, <3>1
    <2> QED
        BY <1>3, <2>1 DEF Surjection
<1>6. ExistsBijection(S, T)
    BY <1>4, <1>5 DEF ExistsBijection, Bijection
<1> QED
    BY <1>2, <1>6, FS_Bijection

LEMMA FirstOnes ==
    ASSUME NEW n \in Nat, NEW S \in SUBSET (1 .. n), NEW k \in S, NEW l \in S,
           Cardinality({j \in S : j <= k}) = Cardinality({j \in S : j <= l}), k <= l
    PROVE  k = l
<1>1. IsFiniteSet(1 .. n)
    BY FS_Interval
<1>2. PICK A, B : A = {j \in S : j <= k} /\ B = {j \in S : j <= l}
    OBVIOUS
<1>3. A \in SUBSET B /\ B \in SUBSET (1 .. n) /\ l \in B
    <2>1. /\ \A j : j \in A <=> j \in S /\ j <= k
          /\ \A j : j \in B <=> j \in S /\ j <= l
        BY <1>2, Zenon
    <2>2. \A j \in S : j \in 1 .. n /\ j \in Int
        OBVIOUS
    <2>3. \A j \in S : j <= k => j <= l
        BY <2>2
    <2>4. l <= l
        BY <2>2
    <2> QED
        BY <2>1, <2>2, <2>3, <2>4, Zenon
<1>4. IsFiniteSet(B)
    BY <1>1, <1>3, FS_Subset
<1>5. Cardinality(B) = Cardinality(A)
    BY <1>2
<1>6. A = B
    BY <1>3, <1>4, <1>5, FS_Subset
<1>7. l <= k
    BY <1>2, <1>3, <1>6
<1> QED
    BY <1>7

LEMMA PairedFee ==
    ASSUME NEW h \in Height, NEW i \in DOMAIN Events[h], Nomination(h, i), FeesPaired(h, Events[h][i])
    PROVE  FeeOf(h, i) = IF FeeInFront(h, i) THEN Events[h][i - 1].n ELSE 0
<1> DEFINE e == Events[h][i]
           earlier == {j \in 1 .. i : Nomination(h, j) /\ SameNominator(Events[h][j], e)}
           fees == FeesOf(h, e)
           mine == {k \in fees : Cardinality({j \in fees : j <= k}) = Cardinality(earlier)}
<1>1. FeeOf(h, i) = IF mine = {} THEN 0 ELSE Events[h][CHOOSE k \in mine : TRUE].n
    BY DEF FeeOf
<1>2. PICK n \in Nat : DOMAIN Events[h] = 1 .. n
    <2>1. PICK s \in Seq(ChainEvent) : s = Events[h]
        BY EventsType
    <2>2. Len(s) \in Nat /\ DOMAIN s = 1 .. Len(s)
        OBVIOUS
    <2> QED
        BY <2>1, <2>2
<1>3. \A j : j \in fees <=> j \in 1 .. n /\ Events[h][j].kind = "fee" /\ SameNominator(Events[h][j], e)
    BY <1>2 DEF FeesOf
<1>4. \A j : j \in earlier <=> j \in 1 .. i /\ Nomination(h, j) /\ SameNominator(Events[h][j], e)
    OBVIOUS
<1>5. ASSUME NEW j \in fees
      PROVE  j + 1 \in 1 .. n /\ Nomination(h, j + 1) /\ FeeInFront(h, j + 1) /\ SameNominator(Events[h][j + 1], e)
    <2>1. j \in DOMAIN Events[h] /\ Events[h][j].kind = "fee" /\ SameNominator(Events[h][j], e)
        BY <1>2, <1>3
    <2>2. j + 1 \in DOMAIN Events[h] /\ Nomination(h, j + 1) /\ FeeInFront(h, j + 1)
        BY <2>1 DEF FeesPaired
    <2>3. (j + 1) - 1 = j
        BY <1>2, <2>1
    <2>4. SameNominator(Events[h][j], Events[h][j + 1])
        BY <2>2, <2>3 DEF FeeInFront
    <2> QED
        BY <1>2, <2>1, <2>2, <2>4 DEF SameNominator
<1>6. CASE ~FeeInFront(h, i)
    <2>1. ASSUME NEW j \in fees PROVE j + 1 \in earlier /\ j + 1 # i
        <3>1. j \in 1 .. n /\ i \in 1 .. n
            BY <1>2, <1>3
        <3>2. j + 1 # i
            BY <1>5, <1>6
        <3>3. ASSUME i < j + 1 PROVE FALSE
            <4>1. j + 1 \in DOMAIN Events[h] /\ i \in 1 .. j + 1
                BY <1>2, <1>5, <3>1, <3>3
            <4>2. FeeInFront(h, i)
                BY <1>5, <4>1 DEF FeesPaired, SameNominator
            <4> QED
                BY <1>6, <4>2
        <3>4. j + 1 \in 1 .. i
            BY <3>1, <3>2, <3>3
        <3> QED
            BY <1>4, <1>5, <3>2, <3>4
    <2>2. i \in 1 .. n /\ i \in 1 .. i
        BY <1>2
    <2>3. i \in earlier
        BY <1>4, <2>2 DEF SameNominator
    <2>4. earlier \in SUBSET (1 .. n)
        BY <2>2
    <2>5. ASSUME NEW k \in mine PROVE FALSE
        <3>1. PICK S : S = {j \in fees : j <= k}
            OBVIOUS
        <3>2. S \in SUBSET (1 .. n) /\ S \subseteq fees /\ Cardinality(S) = Cardinality(earlier)
            BY <1>3, <3>1
        <3>3. PICK T \in SUBSET (1 .. n) : \A j : j \in T <=> j \in earlier /\ j - 1 \in S
            <4>1. {j \in earlier : j - 1 \in S} \in SUBSET (1 .. n)
                BY <2>4
            <4> QED
                BY <4>1
        <3> HIDE DEF earlier, fees, mine
        <3>4. ASSUME NEW j \in S PROVE j + 1 \in T
            <4>1. j + 1 \in earlier /\ j \in 1 .. n /\ (j + 1) - 1 = j
                BY <2>1, <3>2
            <4> QED
                BY <3>3, <4>1
        <3>5. Cardinality(S) = Cardinality(T)
            BY <3>2, <3>3, <3>4, ShiftedCardinality
        <3>6. T \subseteq earlier /\ i \notin T
            <4>1. ASSUME i - 1 \in S PROVE FALSE
                <5>1. (i - 1) + 1 # i
                    BY <2>1, <3>2, <4>1
                <5> QED
                    BY <2>2, <5>1
            <4> QED
                BY <3>3, <4>1
        <3>7. IsFiniteSet(earlier)
            <4>1. IsFiniteSet(1 .. n)
                BY <1>2, FS_Interval
            <4> QED
                BY <2>4, <4>1, FS_Subset
        <3>8. T = earlier
            BY <3>2, <3>5, <3>6, <3>7, FS_Subset
        <3> QED
            BY <2>3, <3>6, <3>8
    <2>6. mine = {}
        <3> HIDE DEF mine
        <3> QED
            BY <2>5
    <2> QED
        BY <1>1, <1>6, <2>6
<1>7. CASE FeeInFront(h, i)
    <2>1. i > 1 /\ i \in 1 .. n /\ Events[h][i - 1].kind = "fee" /\ SameNominator(Events[h][i - 1], e)
        BY <1>2, <1>7 DEF FeeInFront
    <2>2. i - 1 \in fees
        BY <1>3, <2>1
    <2> DEFINE upto == {j \in fees : j <= i - 1}
    <2>3. upto \in SUBSET (1 .. n) /\ earlier \in SUBSET (1 .. n) /\ fees \in SUBSET (1 .. n)
        BY <1>3, <2>1
    <2>4. ASSUME NEW j \in upto PROVE j + 1 \in earlier
        <3>1. j \in fees /\ j <= i - 1 /\ j \in 1 .. n
            BY <2>3
        <3>2. j + 1 \in 1 .. i
            BY <2>1, <3>1
        <3> QED
            BY <1>4, <1>5, <3>1, <3>2
    <2>5. ASSUME NEW j \in earlier PROVE j - 1 \in upto
        <3>1. j \in 1 .. n /\ j <= i /\ Nomination(h, j) /\ SameNominator(Events[h][j], e)
            BY <2>3
        <3>2. FeeInFront(h, j)
            <4>1. i \in DOMAIN Events[h] /\ j \in 1 .. i
                BY <2>1, <3>1
            <4> QED
                BY <1>7, <3>1, <4>1 DEF FeesPaired, SameNominator
        <3>3. j > 1 /\ Events[h][j - 1].kind = "fee" /\ SameNominator(Events[h][j - 1], Events[h][j])
            BY <3>2 DEF FeeInFront
        <3>4. SameNominator(Events[h][j - 1], e)
            BY <3>1, <3>3 DEF SameNominator
        <3>5. j - 1 \in 1 .. n /\ j - 1 <= i - 1
            BY <2>1, <3>1, <3>3
        <3> QED
            BY <1>3, <3>3, <3>4, <3>5
    <2>6. Cardinality(upto) = Cardinality(earlier)
        <3> HIDE DEF upto, earlier
        <3> QED
            BY <2>3, <2>4, <2>5, ShiftedCardinality
    <2>7. i - 1 \in mine
        BY <2>2, <2>6
    <2>8. ASSUME NEW k \in mine PROVE k = i - 1
        <3>1. k \in fees /\ Cardinality({j \in fees : j <= k}) = Cardinality({j \in fees : j <= i - 1})
            BY <2>6
        <3>2. k \in 1 .. n /\ i - 1 \in 1 .. n
            BY <2>2, <2>3, <3>1
        <3>3. CASE k <= i - 1
            <4> HIDE DEF fees
            <4> QED
                BY <2>2, <2>3, <3>1, <3>3, FirstOnes
        <3>4. CASE i - 1 <= k
            <4> HIDE DEF fees
            <4>1. Cardinality({j \in fees : j <= i - 1}) = Cardinality({j \in fees : j <= k})
                BY <3>1
            <4>2. i - 1 = k
                BY <2>2, <2>3, <3>1, <3>4, <4>1, FirstOnes
            <4> QED
                BY <4>2
        <3> QED
            BY <3>2, <3>3, <3>4
    <2>9. mine # {} /\ (CHOOSE k \in mine : TRUE) = i - 1
        <3> HIDE DEF mine
        <3> QED
            BY <2>7, <2>8
    <2> QED
        BY <1>1, <1>7, <2>9
<1> QED
    BY <1>6, <1>7

LEMMA FeeIs ==
    ASSUME NEW h \in Height, NEW i \in DOMAIN Events[h], Nomination(h, i)
    PROVE  FeeOf(h, i) = FeeDue(h, i)
BY PairedFee DEF FeeDue

\* What the i-th event of block h adds.
DepositRow(o, a, f) == [op |-> o, addr |-> a, fee |-> f]
DepositPart(h, i) ==
    IF Nomination(h, i)
    THEN <<DepositRow(Events[h][i].op, Events[h][i].addr, FeeDue(h, i))>>
    ELSE <<>>
WithdrawalPart(h, i) ==
    IF Events[h][i].kind = "withdrew"
    THEN <<[op |-> Events[h][i].op, addr |-> Events[h][i].addr]>> ELSE <<>>

LEMMA PartTypes ==
    ASSUME NEW h \in Height, NEW i \in DOMAIN Events[h]
    PROVE  DepositPart(h, i) \in Seq(Deposit) /\ WithdrawalPart(h, i) \in Seq(Owned)
<1>1. Events[h][i].op \in Operators /\ Events[h][i].addr \in Addresses
    BY EventFields
<1>2. PICK o \in Operators, a \in Addresses : o = Events[h][i].op /\ a = Events[h][i].addr
    BY <1>1
<1>3. ASSUME Nomination(h, i) PROVE DepositPart(h, i) \in Seq(Deposit)
    <2>1. FeeOf(h, i) \in Nat
        BY FeeType
    <2>2. PICK f \in Nat : f = FeeDue(h, i)
        BY <1>3, <2>1, FeeIs, Zenon
    <2>3. DepositRow(o, a, f) \in Deposit
        BY DEF DepositRow, Deposit
    <2>4. <<DepositRow(o, a, f)>> \in Seq(Deposit)
        BY <2>3
    <2>5. DepositPart(h, i) = <<DepositRow(Events[h][i].op, Events[h][i].addr, f)>>
        BY <1>3, <2>2 DEF DepositPart
    <2>6. DepositPart(h, i) = <<DepositRow(o, a, f)>>
        BY <1>2, <2>5, Zenon
    <2> QED
        BY <2>4, <2>6, Zenon
<1>4. ASSUME ~Nomination(h, i) PROVE DepositPart(h, i) \in Seq(Deposit)
    <2>1. DepositPart(h, i) = <<>>
        BY <1>4 DEF DepositPart
    <2>2. <<>> \in Seq(Deposit)
        OBVIOUS
    <2> QED
        BY <2>1, <2>2, Zenon
<1>5. [op |-> o, addr |-> a] \in Owned
    BY DEF Owned
<1>6. <<[op |-> o, addr |-> a]>> \in Seq(Owned)
    BY <1>5
<1>7. WithdrawalPart(h, i) \in Seq(Owned)
    BY <1>2, <1>6 DEF WithdrawalPart
<1>8. DepositPart(h, i) \in Seq(Deposit)
    BY <1>3, <1>4
<1> QED
    BY <1>7, <1>8

LEMMA NominateAdds ==
    ASSUME NEW h \in Height, NEW i \in DOMAIN Events[h], Events[h][i].kind = "nominated"
    PROVE  Adds(h, ForEvent(h, i), DepositPart(h, i), <<>>)
<1> DEFINE e == Events[h][i]
<1>1. PICK s \in Seq(Body(h)) : s = ForEvent(h, i)
    BY ForEventHas DEF Whole
<1>2. s = <<NominatorSt(e.op, e.addr, "active"), CountSt(e.op), DepositSt(e.op, e.addr, FeeOf(h, i))>>
    BY <1>1, ForEventIs, NominateIs
<1>3. PICK x, y, z : /\ x = NominatorSt(e.op, e.addr, "active") /\ y = CountSt(e.op)
                     /\ z = DepositSt(e.op, e.addr, FeeOf(h, i))
                     /\ x.do = "nominator" /\ y.do = "count" /\ z.do = "deposit"
                     /\ z.op = e.op /\ z.addr = e.addr /\ z.fee = FeeOf(h, i)
    BY NominatorFields, CountFields, DepositFields
<1>4. s = <<x, y, z>>
    BY <1>2, <1>3, Zenon
<1>5. Len(s) = 3 /\ s[1] = x /\ s[2] = y /\ s[3] = z
    BY <1>4
<1>6. x \in Steps(h) /\ y \in Steps(h) /\ z \in Steps(h)
    <2>1. s[1] \in Body(h) /\ s[2] \in Body(h) /\ s[3] \in Body(h)
        BY <1>5
    <2> QED
        BY <1>5, <2>1, BodyIs
<1>7. ~Pulls(x) /\ ~Pulls(y) /\ ~Pulls(z)
    BY <1>3 DEF Pulls
<1>8. /\ Credits(h)[x] = <<>> /\ Credits(h)[y] = <<>> /\ Credits(h)[z] = <<Credit(z)>>
      /\ Debits(h)[x] = <<>> /\ Debits(h)[y] = <<>> /\ Debits(h)[z] = <<>>
    BY <1>3, <1>6, <1>7, LedgerOf
<1>9. x \in Even(h) /\ y \in Even(h) /\ z \in Even(h)
    BY <1>3, <1>6 DEF Even, Same
<1>10. s \in Seq(Even(h)) /\ s \in Seq(Steps(h))
    BY <1>4, <1>6, <1>9
<1>11. Gathered(s, Credits(h)) = Credits(h)[s[3]]
    <2>1. Credits(h) \in [Steps(h) -> Seq(Deposit)]
        BY LedgerTypes
    <2>2. 3 \in 1 .. Len(s) /\ \A j \in 1 .. Len(s) : j = 3 \/ Credits(h)[s[j]] = <<>>
        BY <1>5, <1>8
    <2>3. OnlyAt(s, Credits(h), 3)
        BY <2>2, Zenon DEF OnlyAt
    <2> QED
        BY <1>10, <2>1, <2>3, GatheredOnly
<1>12. Gathered(s, Debits(h)) = <<>>
    <2>1. Debits(h) \in [Steps(h) -> Seq(Owned)]
        BY LedgerTypes
    <2>2. \A j \in 1 .. Len(s) : Debits(h)[s[j]] = <<>>
        BY <1>5, <1>8
    <2> QED
        BY <1>10, <2>1, <2>2, GatheredNone
<1>13. <<Credit(z)>> = DepositPart(h, i)
    <2>1. Nomination(h, i)
        BY DEF Nomination
    <2>2. FeeOf(h, i) = FeeDue(h, i)
        BY <2>1, FeeIs
    <2> QED
        BY <1>3, <2>1, <2>2, Zenon DEF Credit, DepositRow, DepositPart
<1>14. Gathered(s, Credits(h)) = DepositPart(h, i)
    BY <1>5, <1>8, <1>11, <1>13, Zenon
<1> QED
    BY <1>1, <1>10, <1>12, <1>14, Zenon DEF Adds

LEMMA WithdrawAdds ==
    ASSUME NEW h \in Height, NEW i \in DOMAIN Events[h], Events[h][i].kind = "withdrew"
    PROVE  Adds(h, ForEvent(h, i), <<>>, WithdrawalPart(h, i))
<1> DEFINE e == Events[h][i]
<1>1. PICK s \in Seq(Body(h)) : s = ForEvent(h, i)
    BY ForEventHas DEF Whole
<1>2. s = <<Read(<<FoundSt(e.op, e.addr)>>, <<LostSt(e.op, e.addr)>>)>>
    BY <1>1, ForEventIs, WithdrawIs
<1>3. PICK x, y : /\ x = FoundSt(e.op, e.addr) /\ y = LostSt(e.op, e.addr)
                  /\ x.do = "withdrawal" /\ y.do = "withdrawal"
                  /\ x.op = e.op /\ y.op = e.op /\ x.addr = e.addr /\ y.addr = e.addr
    BY WithdrawalFields
<1>4. PICK r : r = Read(<<x>>, <<y>>)
    OBVIOUS
<1>5. s = <<r>> /\ r.do = "read" /\ r.ok = <<x>> /\ r.failed = <<y>>
    BY <1>2, <1>3, <1>4 DEF Read
<1>6. r \in Body(h) /\ r \in Steps(h)
    <2>1. r \in Body(h)
        BY <1>5
    <2> QED
        BY <2>1, BodyIs
<1>7. x \in Steps(h) /\ y \in Steps(h)
    <2>1. r.ok \in Seq(Plain(h)) /\ r.failed \in Seq(Plain(h))
        BY <1>5, <1>6, LedgerSteps
    <2>2. x \in Plain(h) /\ y \in Plain(h)
        BY <1>5, <2>1
    <2> QED
        BY <2>2, BodyIs
<1>8. Pulls(r) /\ r.ok[1] = x
    BY <1>3, <1>5 DEF Pulls
<1>9. /\ Credits(h)[x] = <<>> /\ Credits(h)[y] = <<>> /\ Credits(h)[r] = <<>>
      /\ Debits(h)[x] = <<Owner(x)>> /\ Debits(h)[y] = <<Owner(y)>> /\ Debits(h)[r] = <<Owner(x)>>
    <2>1. x.do = "withdrawal" /\ y.do = "withdrawal"
        BY <1>3
    <2>2. Credits(h)[x] = <<>> /\ Debits(h)[x] = <<Owner(x)>>
        BY <1>7, <2>1, LedgerOf
    <2>3. Credits(h)[y] = <<>> /\ Debits(h)[y] = <<Owner(y)>>
        BY <1>7, <2>1, LedgerOf
    <2>4. Credits(h)[r] = <<>> /\ Debits(h)[r] = <<Owner(x)>>
        BY <1>5, <1>6, <1>8, LedgerOf
    <2> QED
        BY <2>2, <2>3, <2>4, Zenon
<1>10. Owner(x) = Owner(y) /\ <<Owner(x)>> = WithdrawalPart(h, i)
    BY <1>3 DEF Owner, WithdrawalPart
<1>11. ASSUME NEW st \in Steps(h)
       PROVE  Gathered(<<st>>, Credits(h)) = Credits(h)[st] /\ Gathered(<<st>>, Debits(h)) = Debits(h)[st]
    <2>1. Credits(h) \in [Steps(h) -> Seq(Deposit)]
        BY LedgerTypes
    <2>2. Debits(h) \in [Steps(h) -> Seq(Owned)]
        BY LedgerTypes
    <2>3. Gathered(<<st>>, Credits(h)) = Credits(h)[st]
        BY <2>1, GatheredOne
    <2>4. Gathered(<<st>>, Debits(h)) = Debits(h)[st]
        BY <2>2, GatheredOne
    <2> QED
        BY <2>3, <2>4
<1>12. /\ Gathered(<<x>>, Credits(h)) = <<>> /\ Gathered(<<y>>, Credits(h)) = <<>>
       /\ Gathered(<<x>>, Debits(h)) = <<Owner(x)>> /\ Gathered(<<y>>, Debits(h)) = <<Owner(x)>>
       /\ Gathered(<<r>>, Credits(h)) = <<>> /\ Gathered(<<r>>, Debits(h)) = <<Owner(x)>>
    BY <1>6, <1>7, <1>9, <1>10, <1>11, Zenon
<1>13. r \in Even(h)
    <2>1. Same(r, Credits(h)) /\ Same(r, Debits(h))
        BY <1>5, <1>9, <1>12, Zenon DEF Same
    <2> QED
        BY <1>6, <2>1 DEF Even
<1>14. <<r>> \in Seq(Even(h))
    BY <1>13
<1> QED
    BY <1>1, <1>5, <1>10, <1>12, <1>14, Zenon DEF Adds

LEMMA EventAdds ==
    ASSUME NEW h \in Height, NEW i \in DOMAIN Events[h]
    PROVE  Adds(h, ForEvent(h, i), DepositPart(h, i), WithdrawalPart(h, i))
<1>1. CASE Events[h][i].kind = "nominated"
    BY <1>1, NominateAdds DEF WithdrawalPart
<1>2. CASE Events[h][i].kind = "withdrew"
    BY <1>2, WithdrawAdds DEF DepositPart, Nomination
<1>3. CASE Events[h][i].kind \notin {"nominated", "withdrew"}
    BY <1>3, QuietEvent DEF DepositPart, WithdrawalPart, Nomination
<1> QED
    BY <1>1, <1>2, <1>3

\* The parts of a block, event by event.
DepositParts(h) == [i \in DOMAIN Events[h] |-> DepositPart(h, i)]
WithdrawalParts(h) == [i \in DOMAIN Events[h] |-> WithdrawalPart(h, i)]

LEMMA LedgersAre ==
    ASSUME NEW h \in Height
    PROVE  /\ DepositsOf(h) = Flat(DepositParts(h)) /\ WithdrawalsOf(h) = Flat(WithdrawalParts(h))
           /\ DepositParts(h) \in Seq(Seq(Deposit)) /\ WithdrawalParts(h) \in Seq(Seq(Owned))
           /\ DepositsOf(h) \in Seq(Deposit) /\ WithdrawalsOf(h) \in Seq(Owned)
<1>1. PICK n \in Nat : DOMAIN Events[h] = 1 .. n
    <2>1. PICK s \in Seq(ChainEvent) : s = Events[h]
        BY EventsType
    <2>2. Len(s) \in Nat /\ DOMAIN s = 1 .. Len(s)
        OBVIOUS
    <2> QED
        BY <2>1, <2>2
<1>2. DepositsOf(h) = Flat(DepositParts(h)) /\ WithdrawalsOf(h) = Flat(WithdrawalParts(h))
    BY Zenon DEF DepositsOf, DepositParts, DepositPart, DepositRow,
                 WithdrawalsOf, WithdrawalParts, WithdrawalPart
<1>3. PICK D, W : D = Seq(Deposit) /\ W = Seq(Owned)
    OBVIOUS
<1>4. \A i \in 1 .. n : DepositPart(h, i) \in D /\ WithdrawalPart(h, i) \in W
    BY <1>1, <1>3, PartTypes
<1>5. DepositParts(h) \in [1 .. n -> D] /\ WithdrawalParts(h) \in [1 .. n -> W]
    BY <1>1, <1>4 DEF DepositParts, WithdrawalParts
<1>6. DepositParts(h) \in Seq(D) /\ WithdrawalParts(h) \in Seq(W)
    BY <1>5
<1>7. DepositParts(h) \in Seq(Seq(Deposit)) /\ WithdrawalParts(h) \in Seq(Seq(Owned))
    BY <1>3, <1>6
<1>8. Flat(DepositParts(h)) \in Seq(Deposit)
    BY <1>7, FlatType
<1>9. Flat(WithdrawalParts(h)) \in Seq(Owned)
    BY <1>7, FlatType
<1> QED
    BY <1>2, <1>7, <1>8, <1>9, Zenon

\* A kind of events, one part for each event: this adds to the deposits, or
\* to the withdrawals, or to neither.
LEMMA KindAdds ==
    ASSUME NEW h \in Height, NEW kind, NEW Y, NEW f \in [Steps(h) -> Seq(Y)],
           NEW gg \in Seq(Seq(Y)), DOMAIN gg = DOMAIN Events[h],
           \A i \in DOMAIN Events[h] :
              gg[i] = IF Events[h][i].kind = kind THEN Gathered(ForEvent(h, i), f) ELSE <<>>
    PROVE  Gathered(OfKind(h, kind), f) = Flat(gg)
<1>1. PICK ss \in Seq(Seq(Body(h))) :
         /\ ss = Sections(h, kind) /\ DOMAIN ss = DOMAIN Events[h]
         /\ \A i \in DOMAIN Events[h] :
               ss[i] = IF Events[h][i].kind = kind THEN ForEvent(h, i) ELSE <<>>
    BY SectionsType
<1>2. OfKind(h, kind) = Flat(ss)
    BY <1>1 DEF OfKind, Sections
<1>3. ss \in Seq(Seq(Steps(h)))
    <2>1. Body(h) \subseteq Steps(h)
        BY BodyIs
    <2>2. Seq(Body(h)) \subseteq Seq(Steps(h))
        BY <2>1
    <2>3. PICK A, B : A = Seq(Body(h)) /\ B = Seq(Steps(h)) /\ A \subseteq B /\ ss \in Seq(A)
        BY <2>2, Zenon
    <2>4. ss \in Seq(B)
        BY <2>3
    <2> QED
        BY <2>3, <2>4
<1>4. Len(gg) = Len(ss) /\ 1 .. Len(ss) = DOMAIN Events[h]
    <2>1. DOMAIN gg = DOMAIN ss
        BY <1>1
    <2>2. Len(gg) \in Nat /\ Len(ss) \in Nat /\ DOMAIN gg = 1 .. Len(gg) /\ DOMAIN ss = 1 .. Len(ss)
        OBVIOUS
    <2> QED
        BY <1>1, <2>1, <2>2
<1>5. ASSUME NEW i \in 1 .. Len(ss) PROVE gg[i] = Gathered(ss[i], f)
    <2>1. i \in DOMAIN Events[h]
        BY <1>4
    <2>2. CASE Events[h][i].kind = kind
        <3>1. ss[i] = ForEvent(h, i) /\ gg[i] = Gathered(ForEvent(h, i), f)
            BY <1>1, <2>1, <2>2
        <3> QED
            BY <3>1
    <2>3. CASE Events[h][i].kind # kind
        <3>1. ss[i] = <<>> /\ gg[i] = <<>>
            BY <1>1, <2>1, <2>3
        <3>2. Gathered(<<>>, f) = <<>>
            BY GatheredEmpty
        <3> QED
            BY <3>1, <3>2, Zenon
    <2> QED
        BY <2>2, <2>3
<1>6. Gathers(gg, ss, f, Steps(h), Y)
    BY <1>3, <1>4, <1>5 DEF Gathers
<1>7. Gathered(Flat(ss), f) = Flat(gg)
    BY <1>6, GatheredFlat
<1> QED
    BY <1>2, <1>7

LEMMA OfKindAdds ==
    ASSUME NEW h \in Height, NEW kind
    PROVE  /\ Gathered(OfKind(h, kind), Credits(h)) =
                 IF kind = "nominated" THEN DepositsOf(h) ELSE <<>>
           /\ Gathered(OfKind(h, kind), Debits(h)) =
                 IF kind = "withdrew" THEN WithdrawalsOf(h) ELSE <<>>
           /\ OfKind(h, kind) \in Seq(Even(h))
<1> DEFINE E == DOMAIN Events[h]
<1>1. PICK n \in Nat : E = 1 .. n
    <2>1. PICK s \in Seq(ChainEvent) : s = Events[h]
        BY EventsType
    <2>2. Len(s) \in Nat /\ DOMAIN s = 1 .. Len(s)
        OBVIOUS
    <2> QED
        BY <2>1, <2>2
<1>2. ASSUME NEW i \in E
      PROVE  /\ Gathered(ForEvent(h, i), Credits(h)) = DepositPart(h, i)
             /\ Gathered(ForEvent(h, i), Debits(h)) = WithdrawalPart(h, i)
             /\ ForEvent(h, i) \in Seq(Even(h))
    BY EventAdds DEF Adds
<1>3. Credits(h) \in [Steps(h) -> Seq(Deposit)]
    BY LedgerTypes
<1>4. Debits(h) \in [Steps(h) -> Seq(Owned)]
    BY LedgerTypes
<1>5. PICK none : none = [i \in E |-> <<>>]
    OBVIOUS
<1>6. ASSUME NEW Y PROVE none \in Seq(Seq(Y)) /\ Flat(none) = <<>>
    <2>0. <<>> \in Seq(Y)
        OBVIOUS
    <2>1. PICK T : T = Seq(Y) /\ <<>> \in T
        BY <2>0, Zenon
    <2>2. none \in [1 .. n -> T]
        BY <1>1, <1>5, <2>1
    <2>3. none \in Seq(T) /\ Len(none) = n /\ \A i \in 1 .. n : none[i] = <<>>
        BY <1>1, <1>5, <2>2
    <2>4. none \in Seq(Seq(Y))
        BY <2>1, <2>3
    <2>5. Flat(none) = <<>>
        BY <2>3, <2>4, FlatNone
    <2> QED
        BY <2>4, <2>5
<1>7. DOMAIN none = E /\ \A i \in E : none[i] = <<>>
    BY <1>5
<1>8. ASSUME kind = "nominated" PROVE Gathered(OfKind(h, kind), Credits(h)) = DepositsOf(h)
    <2>1. PICK gg \in Seq(Seq(Deposit)) : gg = DepositParts(h)
        BY LedgersAre
    <2>2. DOMAIN gg = E /\ \A i \in E : gg[i] = DepositPart(h, i)
        BY <2>1 DEF DepositParts
    <2>3. \A i \in E : gg[i] = IF Events[h][i].kind = kind THEN Gathered(ForEvent(h, i), Credits(h)) ELSE <<>>
        BY <1>2, <1>8, <2>2 DEF DepositPart, Nomination
    <2>4. Gathered(OfKind(h, kind), Credits(h)) = Flat(gg)
        BY <1>3, <2>2, <2>3, KindAdds
    <2> QED
        BY <2>1, <2>4, LedgersAre, Zenon
<1>9. ASSUME kind = "withdrew" PROVE Gathered(OfKind(h, kind), Debits(h)) = WithdrawalsOf(h)
    <2>1. PICK gg \in Seq(Seq(Owned)) : gg = WithdrawalParts(h)
        BY LedgersAre
    <2>2. DOMAIN gg = E /\ \A i \in E : gg[i] = WithdrawalPart(h, i)
        BY <2>1 DEF WithdrawalParts
    <2>3. \A i \in E : gg[i] = IF Events[h][i].kind = kind THEN Gathered(ForEvent(h, i), Debits(h)) ELSE <<>>
        BY <1>2, <1>9, <2>2 DEF WithdrawalPart
    <2>4. Gathered(OfKind(h, kind), Debits(h)) = Flat(gg)
        BY <1>4, <2>2, <2>3, KindAdds
    <2> QED
        BY <2>1, <2>4, LedgersAre, Zenon
<1>10. ASSUME kind # "nominated" PROVE Gathered(OfKind(h, kind), Credits(h)) = <<>>
    <2>1. none \in Seq(Seq(Deposit)) /\ Flat(none) = <<>>
        BY <1>6
    <2>2. \A i \in E : none[i] = IF Events[h][i].kind = kind THEN Gathered(ForEvent(h, i), Credits(h)) ELSE <<>>
        BY <1>2, <1>7, <1>10 DEF DepositPart, Nomination
    <2>3. Gathered(OfKind(h, kind), Credits(h)) = Flat(none)
        BY <1>3, <1>7, <2>1, <2>2, KindAdds
    <2> QED
        BY <2>1, <2>3, Zenon
<1>11. ASSUME kind # "withdrew" PROVE Gathered(OfKind(h, kind), Debits(h)) = <<>>
    <2>1. none \in Seq(Seq(Owned)) /\ Flat(none) = <<>>
        BY <1>6
    <2>2. \A i \in E : none[i] = IF Events[h][i].kind = kind THEN Gathered(ForEvent(h, i), Debits(h)) ELSE <<>>
        BY <1>2, <1>7, <1>11 DEF WithdrawalPart
    <2>3. Gathered(OfKind(h, kind), Debits(h)) = Flat(none)
        BY <1>4, <1>7, <2>1, <2>2, KindAdds
    <2> QED
        BY <2>1, <2>3, Zenon
<1>12. OfKind(h, kind) \in Seq(Even(h))
    <2>0. <<>> \in Seq(Even(h))
        OBVIOUS
    <2>1. PICK T : T = Seq(Even(h)) /\ <<>> \in T
        BY <2>0, Zenon
    <2>2. \A i \in E : Sections(h, kind)[i] \in T
        BY <1>2, <2>1 DEF Sections
    <2>3. DOMAIN Sections(h, kind) = 1 .. n /\ Sections(h, kind) = [i \in 1 .. n |-> Sections(h, kind)[i]]
        BY <1>1 DEF Sections
    <2>4. Sections(h, kind) \in [1 .. n -> T]
        BY <1>1, <2>2, <2>3
    <2>5. Sections(h, kind) \in Seq(T)
        BY <2>4
    <2>6. Sections(h, kind) \in Seq(Seq(Even(h)))
        BY <2>1, <2>5
    <2>7. Flat(Sections(h, kind)) \in Seq(Even(h))
        BY <2>6, FlatType
    <2> QED
        BY <2>7 DEF OfKind, Sections
<1> QED
    BY <1>8, <1>9, <1>10, <1>11, <1>12, Zenon

\* Of all kinds of events only the k-th in order adds anything, namely d.
OnlyKind(h, f, k, d) ==
    /\ k \in 1 .. 10 /\ Gathered(OfKind(h, Order[k]), f) = d
    /\ \A j \in 1 .. 10 : j = k \/ Gathered(OfKind(h, Order[j]), f) = <<>>

LEMMA RestOf ==
    ASSUME NEW h \in Height, NEW Y, NEW f \in [Steps(h) -> Seq(Y)], NEW d \in Seq(Y),
           NEW k, OnlyKind(h, f, k, d)
    PROVE  Gathered(Rest(h), f) = d
<1>1. PICK n \in Nat : n = 10
    OBVIOUS
<1>2. PICK ss : ss = Parts10(h) /\ DOMAIN ss = 1 .. n /\ \A j \in 1 .. n : ss[j] = OfKind(h, Order[j])
    BY <1>1, PartsType
<1>3. /\ k \in 1 .. n /\ Gathered(OfKind(h, Order[k]), f) = d
      /\ \A j \in 1 .. n : j = k \/ Gathered(OfKind(h, Order[j]), f) = <<>>
    BY <1>1 DEF OnlyKind
<1>4. ss \in Seq(Seq(Body(h)))
    BY <1>2, PartsType
<1>5. Len(ss) = n
    BY <1>2, <1>4
<1>6. ss \in Seq(Seq(Steps(h)))
    <2>1. Body(h) \subseteq Steps(h)
        BY BodyIs
    <2>2. Seq(Body(h)) \subseteq Seq(Steps(h))
        BY <2>1
    <2>3. PICK A, B : A = Seq(Body(h)) /\ B = Seq(Steps(h)) /\ A \subseteq B /\ ss \in Seq(A)
        BY <1>4, <2>2, Zenon
    <2>4. ss \in Seq(B)
        BY <2>3
    <2> QED
        BY <2>3, <2>4
<1>7. OnlyPart(ss, f, k, d)
    BY <1>2, <1>3, <1>5 DEF OnlyPart
<1>8. Gathered(Flat(ss), f) = d
    BY <1>6, <1>7, GatheredFlatOnly
<1> QED
    BY <1>2, <1>8, Zenon DEF Rest

LEMMA RestAdds ==
    ASSUME NEW h \in Height
    PROVE  Adds(h, Rest(h), DepositsOf(h), WithdrawalsOf(h))
<1>1. \A k \in 1 .. 10 : (Order[k] = "nominated" <=> k = 6) /\ (Order[k] = "withdrew" <=> k = 7)
    BY OrderIs
<1>2. Gathered(Rest(h), Credits(h)) = DepositsOf(h)
    <2>1. Credits(h) \in [Steps(h) -> Seq(Deposit)] /\ DepositsOf(h) \in Seq(Deposit)
        BY LedgerTypes, LedgersAre
    <2>2. PICK k \in 1 .. 10 : k = 6
        OBVIOUS
    <2>3. /\ Gathered(OfKind(h, Order[k]), Credits(h)) = DepositsOf(h)
          /\ \A j \in 1 .. 10 : j = k \/ Gathered(OfKind(h, Order[j]), Credits(h)) = <<>>
        BY <1>1, <2>2, OfKindAdds
    <2>4. OnlyKind(h, Credits(h), k, DepositsOf(h))
        BY <2>3, Zenon DEF OnlyKind
    <2> QED
        BY <2>1, <2>4, RestOf
<1>3. Gathered(Rest(h), Debits(h)) = WithdrawalsOf(h)
    <2>1. Debits(h) \in [Steps(h) -> Seq(Owned)] /\ WithdrawalsOf(h) \in Seq(Owned)
        BY LedgerTypes, LedgersAre
    <2>2. PICK k \in 1 .. 10 : k = 7
        OBVIOUS
    <2>3. /\ Gathered(OfKind(h, Order[k]), Debits(h)) = WithdrawalsOf(h)
          /\ \A j \in 1 .. 10 : j = k \/ Gathered(OfKind(h, Order[j]), Debits(h)) = <<>>
        BY <1>1, <2>2, OfKindAdds
    <2>4. OnlyKind(h, Debits(h), k, WithdrawalsOf(h))
        BY <2>3, Zenon DEF OnlyKind
    <2> QED
        BY <2>1, <2>4, RestOf
<1>4. Rest(h) \in Seq(Even(h))
    <2>1. PICK n \in Nat : n = 10
        OBVIOUS
    <2>2. PICK ss : ss = Parts10(h) /\ DOMAIN ss = 1 .. n /\ \A j \in 1 .. n : ss[j] = OfKind(h, Order[j])
        BY <2>1, PartsType
    <2>3. ss \in Seq(Seq(Body(h)))
        BY <2>2, PartsType
    <2>4. PICK T, B : T = Seq(Even(h)) /\ B = Seq(Body(h)) /\ ss \in Seq(B)
        BY <2>3
    <2>5. \A k \in 1 .. n : ss[k] \in T
        BY <2>2, <2>4, OfKindAdds
    <2>6. ss \in Seq(T)
        BY <2>2, <2>4, <2>5
    <2>7. ss \in Seq(Seq(Even(h)))
        BY <2>4, <2>6
    <2>8. Flat(ss) \in Seq(Even(h))
        BY <2>7, FlatType
    <2> QED
        BY <2>2, <2>8 DEF Rest
<1> QED
    BY <1>2, <1>3, <1>4 DEF Adds

-----------------------------------------------------------------------------
\* The rows of block h with what is still to come are the block's ledger; the
\* withdrawals are so once the old ones are deleted.
Balanced(d, h, s) ==
    /\ d.deposits[h] \o Gathered(s, Credits(h)) = DepositsOf(h)
    /\ s # Tail(Script[h]) => Owners(d.withdrawals[h]) \o Gathered(s, Debits(h)) = WithdrawalsOf(h)
LedgerIs(d, h) == d.deposits[h] = DepositsOf(h) /\ Owners(d.withdrawals[h]) = WithdrawalsOf(h)

EvenInv == \A h \in DOMAIN todo : todo[h] \in Seq(Even(h))
LedgerUnderWay(h) == h \in DOMAIN todo /\ todo[h] # Script[h] => Balanced(db, h, todo[h])
LedgerDone(h) ==
    Processed(h) /\ h \notin torn /\ (h \in DOMAIN todo => todo[h] = Script[h])
        => LedgerIs(db, h)
LedgerInv == EvenInv /\ \A h \in Height : LedgerUnderWay(h) /\ LedgerDone(h)

LEMMA EvenIs ==
    ASSUME NEW h
    PROVE  /\ Even(h) \subseteq Steps(h) /\ Deletes \subseteq Even(h)
           /\ Seq(Even(h)) \subseteq Seq(Steps(h))
<1>1. Even(h) \subseteq Steps(h)
    BY DEF Even
<1>2. \A st \in Deletes : st.do # "read" /\ st \in Steps(h)
    BY DEF Deletes, Steps
<1>3. Deletes \subseteq Even(h)
    BY <1>2 DEF Even, Same
<1>4. Seq(Even(h)) \subseteq Seq(Steps(h))
    BY <1>1
<1> QED
    BY <1>1, <1>3, <1>4

LEMMA DeletesAdd ==
    ASSUME NEW h, NEW st \in Deletes
    PROVE  Credits(h)[st] = <<>> /\ Debits(h)[st] = <<>>
<1>1. st \in Steps(h) /\ st.do \notin {"deposit", "withdrawal", "read"}
    BY DEF Deletes, Steps
<1>2. ~Pulls(st)
    BY <1>1 DEF Pulls
<1> QED
    BY <1>1, <1>2, LedgerOf

LEMMA ScriptAdds ==
    ASSUME NEW h \in Height
    PROVE  /\ Script[h] \in Seq(Even(h)) /\ Tail(Script[h]) \in Seq(Even(h)) /\ Rest(h) \in Seq(Even(h))
           /\ Gathered(Tail(Script[h]), Credits(h)) = DepositsOf(h)
           /\ Gathered(Rest(h), Credits(h)) = DepositsOf(h)
           /\ Gathered(Rest(h), Debits(h)) = WithdrawalsOf(h)
<1>1. /\ Rest(h) \in Seq(Even(h)) /\ Gathered(Rest(h), Credits(h)) = DepositsOf(h)
      /\ Gathered(Rest(h), Debits(h)) = WithdrawalsOf(h)
    BY RestAdds DEF Adds
<1>2. PICK s \in Seq(Steps(h)) : s = Script[h] /\ s # <<>> /\ Head(s) = Delete1
    BY ScriptIs
<1>3. PICK t \in Seq(Steps(h)) : t = Tail(s) /\ t # <<>> /\ Head(t) = Delete2 /\ Tail(t) = Rest(h)
    BY <1>2, ScriptIs
<1>4. Delete1 \in Even(h) /\ Delete2 \in Even(h)
    BY EvenIs, DeletesAre
<1>5. t \in Seq(Even(h))
    <2>1. PICK r \in Seq(Even(h)) : r = Tail(t)
        BY <1>1, <1>3
    <2>2. \A i \in 1 .. Len(t) : t[i] \in Even(h)
        <3>1. SUFFICES ASSUME NEW i \in 1 .. Len(t) PROVE t[i] \in Even(h)
            OBVIOUS
        <3>2. CASE i = 1
            BY <1>3, <1>4, <3>2
        <3>3. CASE i # 1
            <4>1. i - 1 \in 1 .. Len(r) /\ t[i] = r[i - 1]
                BY <1>3, <2>1, <3>3
            <4> QED
                BY <4>1
        <3> QED
            BY <3>2, <3>3
    <2> QED
        BY <2>2
<1>6. s \in Seq(Even(h))
    <2>1. PICK r \in Seq(Even(h)) : r = Tail(s)
        BY <1>3, <1>5
    <2>2. \A i \in 1 .. Len(s) : s[i] \in Even(h)
        <3>1. SUFFICES ASSUME NEW i \in 1 .. Len(s) PROVE s[i] \in Even(h)
            OBVIOUS
        <3>2. CASE i = 1
            BY <1>2, <1>4, <3>2
        <3>3. CASE i # 1
            <4>1. i - 1 \in 1 .. Len(r) /\ s[i] = r[i - 1]
                BY <1>2, <2>1, <3>3
            <4> QED
                BY <4>1
        <3> QED
            BY <3>2, <3>3
    <2> QED
        BY <2>2
<1>7. Credits(h) \in [Steps(h) -> Seq(Deposit)] /\ DepositsOf(h) \in Seq(Deposit)
    BY LedgerTypes, LedgersAre
<1>8. Gathered(t, Credits(h)) = Credits(h)[Head(t)] \o Gathered(Tail(t), Credits(h))
    BY <1>3, <1>7, GatheredTail
<1>9. Gathered(t, Credits(h)) = <<>> \o DepositsOf(h)
    BY <1>1, <1>3, <1>8, DeletesAre, DeletesAdd, Zenon
<1>10. <<>> \o DepositsOf(h) = DepositsOf(h)
    BY <1>7, ConcatEmpty
<1> QED
    BY <1>1, <1>2, <1>3, <1>5, <1>6, <1>9, <1>10, Zenon

LEMMA OwnersType ==
    ASSUME NEW rows \in Seq(Withdrawal)
    PROVE  Owners(rows) \in Seq(Owned) /\ Owners(<<>>) = <<>>
<1>1. ASSUME NEW i \in DOMAIN rows PROVE [op |-> rows[i].op, addr |-> rows[i].addr] \in Owned
    <2>1. rows[i] \in Withdrawal
        OBVIOUS
    <2> QED
        BY <2>1 DEF Withdrawal, Owned
<1>2. DOMAIN rows = 1 .. Len(rows) /\ Len(rows) \in Nat
    OBVIOUS
<1>3. Owners(rows) \in [1 .. Len(rows) -> Owned]
    BY <1>1, <1>2 DEF Owners
<1>4. Owners(<<>>) = <<>>
    BY DEF Owners
<1> QED
    BY <1>2, <1>3, <1>4

LEMMA OwnersAppend ==
    ASSUME NEW rows \in Seq(Withdrawal), NEW row \in Withdrawal
    PROVE  Owners(Append(rows, row)) = Owners(rows) \o <<Owner(row)>>
<1>0. Append(rows, row) \in Seq(Withdrawal)
    OBVIOUS
<1>1. PICK r \in Seq(Withdrawal) : r = Append(rows, row)
    BY <1>0
<1>2. /\ Len(r) = Len(rows) + 1 /\ r[Len(rows) + 1] = row
      /\ \A i \in 1 .. Len(rows) : r[i] = rows[i]
    BY <1>1
<1>3. PICK a \in Seq(Owned) : a = Owners(rows)
    BY OwnersType
<1>3l. Len(a) = Len(rows)
    <2>1. DOMAIN a = DOMAIN rows
        BY <1>3 DEF Owners
    <2> QED
        BY <2>1
<1>4. PICK b \in Seq(Owned) : b = Owners(r)
    BY OwnersType
<1>4l. Len(b) = Len(r)
    <2>1. DOMAIN b = DOMAIN r
        BY <1>4 DEF Owners
    <2> QED
        BY <2>1
<1>5. PICK w \in Owned : w = Owner(row)
    BY DEF Owner, Owned, Withdrawal
<1>6. \A i \in 1 .. Len(rows) : a[i] = Owner(rows[i])
    BY <1>3, <1>3l DEF Owners, Owner
<1>7. \A i \in 1 .. Len(r) : b[i] = Owner(r[i])
    BY <1>4, <1>4l DEF Owners, Owner
<1>8. b = Append(a, w)
    <2>1. \A i \in 1 .. Len(rows) : b[i] = a[i]
        BY <1>2, <1>6, <1>7
    <2>2. b[Len(rows) + 1] = w
        BY <1>2, <1>5, <1>7
    <2> QED
        BY <1>2, <1>3l, <1>4l, <2>1, <2>2
<1>9. Append(a, w) = a \o <<w>>
    OBVIOUS
<1> QED
    BY <1>1, <1>3, <1>4, <1>5, <1>8, <1>9

\* A statement moves what it adds from what is to come to the tables.
LEMMA DepositMoved ==
    ASSUME NEW d \in Tables, NEW d2, NEW h \in Height, NEW st \in Plain(h), Wrote(d, d2, h, st)
    PROVE  d2.deposits[h] = d.deposits[h] \o Credits(h)[st]
<1>1. PICK rows \in Seq(Deposit) : rows = d.deposits[h]
    BY TablesIs DEF Deposit
<1>2. st \in Steps(h)
    BY BodyIs
<1>3. CASE st.do = "deposit"
    <2>0. Credit(st) \in Deposit
        BY <1>2, <1>3, LedgerSteps DEF DepositSteps, Credit, Deposit
    <2>1. PICK row \in Deposit : row = Credit(st)
        BY <2>0
    <2>2. d2.deposits[h] = Append(rows, row)
        BY <1>1, <1>3, <2>1 DEF Wrote, DepositsAre, Credit
    <2>3. Append(rows, row) = rows \o <<row>>
        OBVIOUS
    <2>4. Credits(h)[st] = <<row>>
        BY <1>2, <1>3, <2>1, LedgerOf
    <2> QED
        BY <1>1, <2>2, <2>3, <2>4
<1>4. CASE st.do # "deposit"
    <2>1. st.do # "delete deposits"
        BY PlainKinds
    <2>2. d2.deposits = d.deposits
        BY <1>4, <2>1, WroteOther
    <2>3. Credits(h)[st] = <<>>
        BY <1>2, <1>4, LedgerOf
    <2>4. rows \o <<>> = rows
        BY ConcatEmpty
    <2> QED
        BY <1>1, <2>2, <2>3, <2>4
<1> QED
    BY <1>3, <1>4

LEMMA WithdrawalMoved ==
    ASSUME NEW d \in Tables, NEW d2, NEW h \in Height, NEW st \in Plain(h), Wrote(d, d2, h, st)
    PROVE  Owners(d2.withdrawals[h]) = Owners(d.withdrawals[h]) \o Debits(h)[st]
<1>1. PICK rows \in Seq(Withdrawal) : rows = d.withdrawals[h]
    BY TablesIs DEF Withdrawal
<1>2. st \in Steps(h) /\ st.do # "read"
    BY BodyIs, PlainKinds
<1>3. CASE st.do = "withdrawal"
    <2>0. st \in WithdrawalSteps
        BY <1>2, <1>3, LedgerSteps
    <2>1. PICK row : row = [op |-> st.op, addr |-> st.addr, known |-> st.known]
        OBVIOUS
    <2>2. row \in Withdrawal /\ Owner(row) = Owner(st)
        BY <2>0, <2>1 DEF WithdrawalSteps, Owner, Withdrawal
    <2>3. d2.withdrawals[h] = Append(rows, row)
        BY <1>1, <1>3, <2>1 DEF Wrote, WithdrawalsAre
    <2>4. Owners(Append(rows, row)) = Owners(rows) \o <<Owner(row)>>
        BY <2>2, OwnersAppend
    <2>5. Debits(h)[st] = <<Owner(st)>>
        BY <1>2, <1>3, LedgerOf
    <2> QED
        BY <1>1, <2>2, <2>3, <2>4, <2>5, Zenon
<1>4. CASE st.do # "withdrawal"
    <2>1. st.do # "delete withdrawals"
        BY PlainKinds
    <2>2. d2.withdrawals = d.withdrawals
        BY <1>4, <2>1, WroteOther
    <2>3. Debits(h)[st] = <<>>
        BY <1>2, <1>4, LedgerOf DEF Pulls
    <2>4. PICK own \in Seq(Owned) : own = Owners(rows)
        BY OwnersType
    <2>5. own \o <<>> = own
        BY ConcatEmpty
    <2> QED
        BY <1>1, <2>2, <2>3, <2>4, <2>5, Zenon
<1> QED
    BY <1>3, <1>4

LEMMA BalanceKept ==
    ASSUME NEW d \in Tables, NEW d2, NEW h \in Height, NEW s \in Forms(h), s # <<>>,
           NEW st \in Plain(h) \union Deletes, st = Head(s), Wrote(d, d2, h, st),
           s # Script[h] => Balanced(d, h, s)
    PROVE  Balanced(d2, h, Tail(s))
<1>0. DepositsOf(h) \in Seq(Deposit) /\ WithdrawalsOf(h) \in Seq(Owned)
    BY LedgersAre
<1>1. CASE s = Script[h]
    <2>1. st.do = "delete deposits"
        BY <1>1, ScriptIs, DeletesAre
    <2>2. d2.deposits[h] = <<>>
        BY <2>1 DEF Wrote, DepositsAre
    <2>3. <<>> \o DepositsOf(h) = DepositsOf(h)
        BY <1>0, ConcatEmpty
    <2> QED
        BY <1>1, <2>2, <2>3, ScriptAdds, Zenon DEF Balanced
<1>2. CASE s = Tail(Script[h])
    <2>1. st.do = "delete withdrawals" /\ Tail(s) = Rest(h)
        BY <1>2, ScriptIs, DeletesAre
    <2>2. d2.withdrawals[h] = <<>>
        BY <2>1 DEF Wrote, WithdrawalsAre
    <2>3. d2.deposits = d.deposits
        BY <2>1, WroteOther
    <2>4. s # Script[h]
        BY <1>2, NotScript
    <2>5. d.deposits[h] \o Gathered(s, Credits(h)) = DepositsOf(h)
        BY <2>4 DEF Balanced
    <2>6. Gathered(s, Credits(h)) = Gathered(Tail(s), Credits(h))
        BY <1>2, <2>1, ScriptAdds, Zenon
    <2>7. Owners(<<>>) = <<>>
        BY DEF Owners
    <2>8. <<>> \o WithdrawalsOf(h) = WithdrawalsOf(h)
        BY <1>0, ConcatEmpty
    <2>9. Owners(d2.withdrawals[h]) \o Gathered(Tail(s), Debits(h)) = WithdrawalsOf(h)
        BY <2>1, <2>2, <2>7, <2>8, ScriptAdds, Zenon
    <2> QED
        BY <2>3, <2>5, <2>6, <2>9, Zenon DEF Balanced
<1>3. CASE s \in Todos(h)
    <2>1. s \in Seq(Body(h))
        BY <1>3, TodosIs
    <2>2. Head(s) \in Body(h)
        BY <2>1
    <2>3. st \in Plain(h)
        BY <2>2, BodyIs
    <2>4. s # Script[h] /\ s # Tail(Script[h])
        BY <2>2, ScriptIs, DeletesAre, BodyIs
    <2>5. s \in Seq(Steps(h)) /\ Tail(s) \in Seq(Steps(h))
        <3>1. PICK z \in Seq(Steps(h)) : z = s
            BY FormType
        <3>2. Tail(z) \in Seq(Steps(h))
            BY <3>1
        <3> QED
            BY <3>1, <3>2
    <2>6. Credits(h) \in [Steps(h) -> Seq(Deposit)]
        BY LedgerTypes
    <2>7. Debits(h) \in [Steps(h) -> Seq(Owned)]
        BY LedgerTypes
    <2>8. st \in Steps(h)
        BY <2>3, BodyIs
    <2>9. PICK c \in Seq(Deposit), cs \in Seq(Deposit), rows \in Seq(Deposit) :
             c = Credits(h)[st] /\ cs = Gathered(Tail(s), Credits(h)) /\ rows = d.deposits[h]
        <3>1. Gathered(Tail(s), Credits(h)) \in Seq(Deposit)
            BY <2>5, <2>6, GatheredType
        <3>2. d.deposits[h] \in Seq(Deposit)
            BY TablesIs DEF Deposit
        <3> QED
            BY <2>6, <2>8, <3>1, <3>2
    <2>10. PICK w \in Seq(Owned), ws \in Seq(Owned), own \in Seq(Owned) :
             w = Debits(h)[st] /\ ws = Gathered(Tail(s), Debits(h)) /\ own = Owners(d.withdrawals[h])
        <3>1. Gathered(Tail(s), Debits(h)) \in Seq(Owned)
            BY <2>5, <2>7, GatheredType
        <3>2. d.withdrawals[h] \in Seq(Withdrawal)
            BY TablesIs DEF Withdrawal
        <3>3. Owners(d.withdrawals[h]) \in Seq(Owned)
            BY <3>2, OwnersType
        <3> QED
            BY <2>7, <2>8, <3>1, <3>3
    <2>11. Gathered(s, Credits(h)) = c \o cs
        BY <2>5, <2>6, <2>9, GatheredTail
    <2>12. Gathered(s, Debits(h)) = w \o ws
        BY <2>5, <2>7, <2>10, GatheredTail
    <2>13. rows \o (c \o cs) = DepositsOf(h)
        BY <2>4, <2>9, <2>11 DEF Balanced
    <2>14. own \o (w \o ws) = WithdrawalsOf(h)
        BY <2>4, <2>10, <2>12 DEF Balanced
    <2>15. d2.deposits[h] = rows \o c
        BY <2>3, <2>9, DepositMoved
    <2>16. Owners(d2.withdrawals[h]) = own \o w
        BY <2>3, <2>10, WithdrawalMoved
    <2>17. (rows \o c) \o cs = rows \o (c \o cs)
        <3>1. Regroups(rows, c, cs)
            BY Regrouped
        <3> QED
            BY <3>1, Zenon DEF Regroups
    <2>18. (own \o w) \o ws = own \o (w \o ws)
        <3>1. Regroups(own, w, ws)
            BY Regrouped
        <3> QED
            BY <3>1, Zenon DEF Regroups
    <2> QED
        BY <2>9, <2>10, <2>13, <2>14, <2>15, <2>16, <2>17, <2>18, Zenon DEF Balanced
<1> QED
    BY <1>1, <1>2, <1>3 DEF Forms

\* A read adds the same, whatever comes of it.
LEMMA BalanceRead ==
    ASSUME NEW d, NEW h \in Height, NEW s \in Forms(h), s # <<>>, s \in Seq(Even(h)),
           Head(s).do = "read", NEW t, t = Head(s).ok \/ t = Head(s).failed, Balanced(d, h, s)
    PROVE  Balanced(d, h, t \o Tail(s)) /\ t \o Tail(s) \in Seq(Even(h))
<1>1. s \in Seq(Body(h)) /\ t \in Seq(Plain(h)) /\ t \o Tail(s) \in Todos(h)
    BY FormRead
<1>2. Plain(h) \subseteq Even(h)
    <2>1. \A x \in Plain(h) : x \in Steps(h) /\ x.do # "read"
        BY BodyIs, PlainKinds
    <2> QED
        BY <2>1 DEF Even, Same
<1>3. t \in Seq(Even(h))
    BY <1>1, <1>2
<1>4. Head(s) \in Even(h) /\ Tail(s) \in Seq(Even(h))
    OBVIOUS
<1>5. t \o Tail(s) \in Seq(Even(h))
    BY <1>3, <1>4, ConcatType
<1>6. s \in Seq(Steps(h)) /\ t \in Seq(Steps(h)) /\ Tail(s) \in Seq(Steps(h))
    BY <1>3, <1>4, EvenIs
<1>7. Credits(h) \in [Steps(h) -> Seq(Deposit)]
    BY LedgerTypes
<1>8. Debits(h) \in [Steps(h) -> Seq(Owned)]
    BY LedgerTypes
<1>9. Same(Head(s), Credits(h)) /\ Same(Head(s), Debits(h))
    BY <1>4 DEF Even
<1>10. Gathered(t, Credits(h)) = Credits(h)[Head(s)] /\ Gathered(t, Debits(h)) = Debits(h)[Head(s)]
    BY <1>9, Zenon DEF Same
<1>11. Gathered(t \o Tail(s), Credits(h)) = Gathered(t, Credits(h)) \o Gathered(Tail(s), Credits(h))
    <2>1. Splits(Credits(h), t, Tail(s))
        BY <1>6, <1>7, GatheredSplits
    <2> QED
        BY <2>1, Zenon DEF Splits
<1>12. Gathered(t \o Tail(s), Debits(h)) = Gathered(t, Debits(h)) \o Gathered(Tail(s), Debits(h))
    <2>1. Splits(Debits(h), t, Tail(s))
        BY <1>6, <1>8, GatheredSplits
    <2> QED
        BY <2>1, Zenon DEF Splits
<1>13. Gathered(s, Credits(h)) = Credits(h)[Head(s)] \o Gathered(Tail(s), Credits(h))
    BY <1>6, <1>7, GatheredTail
<1>14. Gathered(s, Debits(h)) = Debits(h)[Head(s)] \o Gathered(Tail(s), Debits(h))
    BY <1>6, <1>8, GatheredTail
<1>15. /\ Gathered(t \o Tail(s), Credits(h)) = Gathered(s, Credits(h))
       /\ Gathered(t \o Tail(s), Debits(h)) = Gathered(s, Debits(h))
    BY <1>10, <1>11, <1>12, <1>13, <1>14, Zenon
<1>16. s # Tail(Script[h])
    BY ScriptIs, DeletesAre
<1>17. Balanced(d, h, t \o Tail(s))
    BY <1>15, <1>16, Zenon DEF Balanced
<1> QED
    BY <1>5, <1>17

LEMMA BalanceDone ==
    ASSUME NEW d \in Tables, NEW h \in Height, Balanced(d, h, <<>>)
    PROVE  LedgerIs(d, h)
<1>1. Tail(Script[h]) # <<>>
    BY ScriptIs
<1>2. PICK rows \in Seq(Deposit) : rows = d.deposits[h]
    BY TablesIs DEF Deposit
<1>3. d.withdrawals[h] \in Seq(Withdrawal)
    BY TablesIs DEF Withdrawal
<1>4. PICK own \in Seq(Owned) : own = Owners(d.withdrawals[h])
    BY <1>3, OwnersType
<1>5. Gathered(<<>>, Credits(h)) = <<>> /\ Gathered(<<>>, Debits(h)) = <<>>
    BY GatheredEmpty
<1>6. rows \o <<>> = rows
    BY ConcatEmpty
<1>7. own \o <<>> = own
    BY ConcatEmpty
<1> QED
    BY <1>1, <1>2, <1>4, <1>5, <1>6, <1>7, Zenon DEF Balanced, LedgerIs

LEMMA EvenNext ==
    ASSUME TypeInv, LedgerInv, [Next]_vars
    PROVE  EvenInv'
<1>1. SUFFICES ASSUME NEW h \in DOMAIN todo' PROVE todo'[h] \in Seq(Even(h))
    BY DEF EvenInv
<1>2. CASE Statement(h)
    <2>1. h \in DOMAIN todo /\ todo[h] # <<>> /\ todo'[h] = Tail(todo[h])
        BY <1>2, StatementIs DEF TypeInv
    <2>2. PICK s \in Seq(Even(h)) : s = todo[h] /\ s # <<>>
        BY <2>1 DEF LedgerInv, EvenInv
    <2>3. Tail(s) \in Seq(Even(h))
        BY <2>2
    <2> QED
        BY <2>1, <2>2, <2>3
<1>3. CASE ReadStorage(h)
    <2>1. /\ h \in DOMAIN todo /\ h \in Height /\ todo[h] \in Forms(h) /\ todo[h] # <<>>
          /\ Head(todo[h]).do = "read" /\ todo[h] # Script[h]
          /\ \/ todo'[h] = Head(todo[h]).ok \o Tail(todo[h])
             \/ todo'[h] = Head(todo[h]).failed \o Tail(todo[h])
        BY <1>3, ReadIs DEF TypeInv
    <2>2. PICK t : (t = Head(todo[h]).ok \/ t = Head(todo[h]).failed) /\ todo'[h] = t \o Tail(todo[h])
        BY <2>1
    <2>3. todo[h] \in Seq(Even(h)) /\ Balanced(db, h, todo[h])
        BY <2>1 DEF LedgerInv, EvenInv, LedgerUnderWay
    <2>4. t \o Tail(todo[h]) \in Seq(Even(h))
        BY <2>1, <2>2, <2>3, BalanceRead
    <2> QED
        BY <2>2, <2>4
<1>4. CASE ~Statement(h) /\ ~ReadStorage(h)
    <2>0. Shape'
        BY TypeNext DEF TypeInv
    <2>1. h \in Height
        <3>1. PICK n, m : n = next' /\ m = to'
            OBVIOUS
        <3>2. h \in n .. m /\ n \in 1 .. Top + 1 /\ m \in 0 .. Top
            BY <1>1, <2>0, <3>1 DEF Shape
        <3> QED
            BY <3>2, Bounds DEF Height
    <2>2. (h \in DOMAIN todo /\ todo'[h] = todo[h]) \/ todo'[h] = Script[h]
        BY <1>1, <1>4, <2>1, OtherStep
    <2> QED
        BY <2>1, <2>2, ScriptAdds DEF LedgerInv, EvenInv
<1> QED
    BY <1>2, <1>3, <1>4

LEMMA LedgerOther ==
    ASSUME TypeInv, [Next]_vars, NEW h \in Height, ~Statement(h)
    PROVE  db'.deposits[h] = db.deposits[h] /\ db'.withdrawals[h] = db.withdrawals[h]
<1>1. CASE db' = db
    BY <1>1
<1>2. ASSUME NEW g \in Height, Statement(g)
      PROVE  db'.deposits[h] = db.deposits[h] /\ db'.withdrawals[h] = db.withdrawals[h]
    <2>1. PICK st \in Plain(g) \union Deletes :
             Wrote(db, db', g, st) /\ db \in Tables /\ g # h
        BY <1>2, StatementIs DEF TypeInv
    <2>2. CASE st.do \in {"deposit", "delete deposits"}
        BY <2>1, <2>2 DEF Wrote, DepositsAre, OnlyDeposits
    <2>3. CASE st.do \in {"withdrawal", "delete withdrawals"}
        BY <2>1, <2>3 DEF Wrote, WithdrawalsAre, OnlyWithdrawals
    <2>4. CASE st.do \notin {"deposit", "delete deposits", "withdrawal", "delete withdrawals"}
        <3>1. db'.deposits = db.deposits /\ db'.withdrawals = db.withdrawals
            BY <1>2, <2>1, <2>4, WroteOther
        <3> QED
            BY <3>1
    <2> QED
        BY <2>2, <2>3, <2>4
<1> QED
    BY <1>1, <1>2, DbNext

LEMMA LedgerNext == TypeInv /\ LedgerInv /\ [Next]_vars => LedgerInv'
<1> SUFFICES ASSUME TypeInv, LedgerInv, [Next]_vars, NEW h \in Height
             PROVE  LedgerUnderWay(h)' /\ LedgerDone(h)'
    BY EvenNext DEF LedgerInv
<1>0. db \in Tables /\ Shape /\ CountedInv
    BY DEF TypeInv
<1>1. LedgerUnderWay(h) /\ LedgerDone(h) /\ (h \in DOMAIN todo => todo[h] \in Seq(Even(h)))
    BY DEF LedgerInv, EvenInv
<1>2. CASE Statement(h)
    <2>1. /\ h \in DOMAIN todo /\ todo[h] \in Forms(h) /\ todo[h] # <<>>
          /\ Head(todo[h]) \in Plain(h) \union Deletes
          /\ Wrote(db, db', h, Head(todo[h]))
          /\ DOMAIN todo' = DOMAIN todo /\ todo'[h] = Tail(todo[h]) /\ Tail(todo[h]) # Script[h]
        BY <1>0, <1>2, StatementIs
    <2>2. todo[h] # Script[h] => Balanced(db, h, todo[h])
        BY <1>1, <2>1 DEF LedgerUnderWay
    <2>3. PICK s, st : s = todo[h] /\ st = Head(s)
        OBVIOUS
    <2>4. Balanced(db', h, Tail(s))
        BY <1>0, <2>1, <2>2, <2>3, BalanceKept
    <2> QED
        BY <2>1, <2>3, <2>4 DEF LedgerUnderWay, LedgerDone
<1>3. CASE ReadStorage(h)
    <2>1. /\ h \in DOMAIN todo /\ todo[h] \in Forms(h) /\ todo[h] # <<>>
          /\ Head(todo[h]).do = "read" /\ todo[h] # Script[h] /\ db' = db
          /\ DOMAIN todo' = DOMAIN todo /\ todo'[h] # Script[h]
          /\ \/ todo'[h] = Head(todo[h]).ok \o Tail(todo[h])
             \/ todo'[h] = Head(todo[h]).failed \o Tail(todo[h])
        BY <1>0, <1>3, ReadIs
    <2>2. PICK t : (t = Head(todo[h]).ok \/ t = Head(todo[h]).failed) /\ todo'[h] = t \o Tail(todo[h])
        BY <2>1
    <2>3. todo[h] \in Seq(Even(h)) /\ Balanced(db, h, todo[h])
        BY <1>1, <2>1 DEF LedgerUnderWay
    <2>4. Balanced(db, h, t \o Tail(todo[h]))
        BY <2>1, <2>2, <2>3, BalanceRead
    <2> QED
        BY <2>1, <2>2, <2>4 DEF LedgerUnderWay, LedgerDone
<1>4. CASE ~Statement(h) /\ ~ReadStorage(h)
    <2>1. db'.deposits[h] = db.deposits[h] /\ db'.withdrawals[h] = db.withdrawals[h]
        BY <1>4, LedgerOther
    <2>2. LedgerIs(db, h) => LedgerIs(db', h)
        BY <2>1, Zenon DEF LedgerIs
    <2>3. \A s : Balanced(db, h, s) => Balanced(db', h, s)
        BY <2>1, Zenon DEF Balanced
    <2>4. h \in DOMAIN todo' /\ todo'[h] # Script[h] => h \in DOMAIN todo /\ todo'[h] = todo[h]
        BY <1>4, OtherStep
    <2>5. ASSUME Processed(h)', h \notin torn', h \in DOMAIN todo' => todo'[h] = Script[h]
          PROVE  LedgerIs(db, h)
        <3>1. \/ h \in DOMAIN todo /\ todo[h] = <<>> /\ todo[h] # Script[h]
              \/ Processed(h) /\ h \notin torn /\ (h \in DOMAIN todo => todo[h] = Script[h])
            BY <1>4, <2>5, OtherStep
        <3>2. CASE h \in DOMAIN todo /\ todo[h] = <<>> /\ todo[h] # Script[h]
            <4>1. Balanced(db, h, <<>>)
                BY <1>1, <3>2 DEF LedgerUnderWay
            <4> QED
                BY <1>0, <4>1, BalanceDone
        <3>3. CASE Processed(h) /\ h \notin torn /\ (h \in DOMAIN todo => todo[h] = Script[h])
            BY <1>1, <3>3 DEF LedgerDone
        <3> QED
            BY <3>1, <3>2, <3>3
    <2>6. LedgerUnderWay(h)'
        BY <1>1, <2>3, <2>4 DEF LedgerUnderWay
    <2>7. LedgerDone(h)'
        BY <2>2, <2>5 DEF LedgerDone
    <2> QED
        BY <2>6, <2>7
<1> QED
    BY <1>2, <1>3, <1>4

LEMMA LedgerInit == Init => LedgerInv
<1> SUFFICES ASSUME Init PROVE LedgerInv
    OBVIOUS
<1>1. pc = "idle" /\ checkpoint = 0 /\ DOMAIN todo = {}
    BY DEF Init, Empty
<1>2. \A h \in Height : ~Processed(h)
    BY <1>1, Bounds DEF Processed, Height
<1> QED
    BY <1>1, <1>2 DEF LedgerInv, EvenInv, LedgerUnderWay, LedgerDone

\* A share price is the one of a block in which its epoch ended.
PriceInv == \A k \in DOMAIN db.prices : InBlock(db.prices[k], OfEpoch(k[2]))

LEMMA PriceNext == TypeInv /\ PriceInv /\ [Next]_vars => PriceInv'
<1> SUFFICES ASSUME TypeInv, PriceInv, [Next]_vars PROVE PriceInv'
    OBVIOUS
<1>1. CASE db' = db
    BY <1>1 DEF PriceInv
<1>2. ASSUME NEW g \in Height, Statement(g) PROVE PriceInv'
    <2>1. PICK st \in Plain(g) \union Deletes : Wrote(db, db', g, st) /\ db \in Tables
        BY <1>2, StatementIs DEF TypeInv
    <2>2. CASE st.do # "price"
        <3>1. db'.prices = db.prices
            BY <1>2, <2>1, <2>2, WroteOther
        <3> QED
            BY <3>1 DEF PriceInv
    <2>3. CASE st.do = "price"
        <3>0. st \in PriceSteps(g)
            BY <2>3, PlainOf DEF Deletes
        <3>1. InBlock(g, OfEpoch(st.epoch))
            BY <3>0, PriceStep
        <3>2. PricePut(db, db', st.op, st.epoch, g)
            BY <2>1, <2>3 DEF Wrote
        <3>3. PICK q : q = <<st.op, st.epoch>>
            OBVIOUS
        <3>4. q[2] = st.epoch
            BY <3>3
        <3>5. /\ DOMAIN db'.prices = DOMAIN db.prices \union {q} /\ db'.prices[q] = g
              /\ \A k \in DOMAIN db.prices : k # q => db'.prices[k] = db.prices[k]
            BY <3>2, <3>3 DEF PricePut
        <3> QED
            BY <3>1, <3>4, <3>5 DEF PriceInv
    <2> QED
        BY <2>2, <2>3
<1> QED
    BY <1>1, <1>2, DbNext

LEMMA PriceInit == Init => PriceInv
<1> SUFFICES ASSUME Init PROVE PriceInv
    OBVIOUS
<1>1. db.prices = Empty
    BY DEF Init
<1> QED
    BY <1>1 DEF PriceInv, Empty

\* The statements of block h that no delete can undo have all left their rows.
AllLeft(h) == \A x \in Plain(h) : Has(Script[h], {x}) => Sat(db, x)

\* A block whose statements have all left their rows has its share prices.
LEMMA PriceTold ==
    ASSUME TypeInv, PriceInv, NEW h \in Height,
           AllLeft(h),
           NEW i \in DOMAIN Events[h], Events[h][i].kind = "epoch", NEW o \in Events[h][i].ops
    PROVE  <<o, Events[h][i].n>> \in DOMAIN db.prices /\ db.prices[<<o, Events[h][i].n>>] = h
<1> DEFINE e == Events[h][i]
<1>1. PICK n \in Nat : n = e.n
    BY EventFields
<1>2. o \in Operators /\ InBlock(h, Pricing(o, n))
    BY <1>1, EventFields, EventsType DEF InBlock, Pricing
<1>3. PICK x : x = PriceSt(o, n)
    OBVIOUS
<1>4. x \in PriceSteps(h)
    BY <1>2, <1>3 DEF PriceSt, PriceSteps
<1>5. x \in Plain(h) /\ x.do = "price" /\ x.op = o /\ x.epoch = n
    BY <1>3, <1>4, PriceFields DEF Plain
<1>6. Delete1 \notin {x} /\ Delete2 \notin {x}
    BY <1>5, DeletesAre
<1>7. Holds(h, i, {x})
    BY <1>1, <1>3 DEF Holds
<1>8. Has(Script[h], {x})
    BY <1>6, <1>7, ScriptHas
<1>9. Sat(db, x)
    BY <1>5, <1>8, Zenon DEF AllLeft
<1>10. PICK k : k = <<o, n>>
    OBVIOUS
<1>11. k \in DOMAIN db.prices /\ k[2] = n
    <2>1. Sat(db, x) <=> <<x.op, x.epoch>> \in DOMAIN db.prices
        BY <1>5, SatIs
    <2> QED
        BY <1>5, <1>9, <1>10, <2>1, Zenon
<1>12. PICK g \in Height : g = db.prices[k]
    <2>1. db.prices \in PF(Operators \X Nat, Height)
        BY TablesIs DEF TypeInv
    <2> QED
        BY <1>11, <2>1, PFIs
<1>13. InBlock(g, OfEpoch(n))
    BY <1>11, <1>12 DEF PriceInv
<1>14. PICK j \in DOMAIN Events[g] : Events[g][j].kind = "epoch" /\ Events[g][j].n = n
    BY <1>13 DEF InBlock, OfEpoch
<1>15. g = h
    <2>1. PICK p, q : p = <<h, i>> /\ q = <<g, j>>
        OBVIOUS
    <2>2. p[1] = h /\ p[2] = i /\ q[1] = g /\ q[2] = j
        BY <2>1
    <2>3. p \in Places(Top) /\ q \in Places(Top)
        BY <2>1, PlaceOf, Bounds DEF Height
    <2>4. EventAt(p) = Events[h][i] /\ EventAt(q) = Events[g][j]
        BY <2>2 DEF EventAt
    <2> QED
        BY <1>1, <1>14, <2>2, <2>3, <2>4, ChainAssumption
<1> QED
    BY <1>1, <1>10, <1>11, <1>12, <1>15

LEMMA LedgerGives == TypeInv /\ FoundInv /\ LedgerInv /\ PriceInv => LedgerExact
<1> SUFFICES ASSUME TypeInv, FoundInv, LedgerInv, PriceInv, pc = "idle", checkpoint = top,
                    NEW h \in 1 .. checkpoint \ torn
             PROVE  /\ db.deposits[h] = DepositsOf(h)
                    /\ Owners(db.withdrawals[h]) = WithdrawalsOf(h)
                    /\ ~degraded => \A i \in DOMAIN Events[h] : \A o \in Events[h][i].ops :
                          Events[h][i].kind = "epoch" =>
                              /\ <<o, Events[h][i].n>> \in DOMAIN db.prices
                              /\ db.prices[<<o, Events[h][i].n>>] = h
    BY DEF LedgerExact, Settled
<1>1. checkpoint \in 0 .. Top /\ DOMAIN todo = {}
    BY DEF TypeInv, Shape
<1>2. h \in Height /\ Processed(h) /\ h \notin torn
    BY <1>1, Bounds DEF Height, Processed
<1>3. LedgerIs(db, h)
    BY <1>1, <1>2 DEF LedgerInv, LedgerDone
<1>4. ASSUME ~degraded, NEW i \in DOMAIN Events[h], NEW o \in Events[h][i].ops,
             Events[h][i].kind = "epoch"
      PROVE  /\ <<o, Events[h][i].n>> \in DOMAIN db.prices
             /\ db.prices[<<o, Events[h][i].n>>] = h
    <2>1. AllLeft(h)
        BY <1>2, <1>4 DEF FoundInv, AllLeft
    <2> QED
        BY <1>2, <1>4, <2>1, PriceTold
<1> QED
    BY <1>3, <1>4 DEF LedgerIs

(***************************************************************************)
(* Once the processor has caught up, the deposits of a processed block are *)
(* those of its nominations, each with the storage fee that came in front  *)
(* of it where the fees of its nominator pair up in order (where they do   *)
(* not, the code gives it another's fee), and its withdrawals are those of *)
(* its events: the deletes in front of the inserts let no row stand twice  *)
(* and none be lost, although blocks are processed again, the process      *)
(* crashes and storage reads fail.  And each epoch has the share prices    *)
(* read at the block that ended it.                                        *)
(***************************************************************************)
THEOREM LedgerExactAlways == Spec => []LedgerExact
<1> DEFINE I == TypeInv /\ FoundInv /\ LedgerInv /\ PriceInv
<1>1. Init => I
    BY TypeInit, FoundInit, LedgerInit, PriceInit
<1>2. I /\ [Next]_vars => I'
    BY TypeNext, FoundNext, LedgerNext, PriceNext
<1>3. I => LedgerExact
    BY LedgerGives
<1> HIDE DEF I
<1> QED
    BY <1>1, <1>2, <1>3, PTL DEF Spec

-----------------------------------------------------------------------------
(***************************************************************************)
(* A client that pages through a list.  In a list ordered by descending    *)
(* height a row that is alone at its height comes right after the rows     *)
(* above it, so that its place can only move on as rows are inserted: the  *)
(* offset never passes it without its having been given.                   *)
(***************************************************************************)
Above(rows, r) == {x \in rows : x.height > r.height}
Alone(rows, r) == \A x \in rows : x.height = r.height => x = r
Heights(rows) == IsFiniteSet(rows) /\ \A r \in rows : r.height \in Nat

LEMMA MinOf ==
    ASSUME NEW m \in Int, NEW n \in Int
    PROVE  Min({m, n}) = IF m <= n THEN m ELSE n
BY DEF Min

LEMMA MaxOf ==
    ASSUME NEW m \in Int, NEW n \in Int
    PROVE  Max({m, n}) = IF m >= n THEN m ELSE n
BY DEF Max

LEMMA ClampIs ==
    ASSUME NEW n \in Int
    PROVE  Clamp(n) \in Nat /\ Clamp(n) >= 1
<1>1. MaxLimit \in Nat /\ MaxLimit >= 1
    BY StakingApiAssumption
<1>2. PICK m \in Int : m = Min({n, MaxLimit})
    BY <1>1, MinOf
<1>3. Max({1, m}) = IF 1 >= m THEN 1 ELSE m
    BY MaxOf
<1> QED
    BY <1>2, <1>3 DEF Clamp

LEMMA ImageFinite ==
    ASSUME NEW S, IsFiniteSet(S), NEW f, DOMAIN f = S, f = [x \in S |-> f[x]]
    PROVE  IsFiniteSet({f[x] : x \in S})
<1> DEFINE T == {f[x] : x \in S}
<1>1. f \in Surjection(S, T)
    BY DEF Surjection
<1> HIDE DEF T
<1>2. IsFiniteSet(T)
    BY <1>1, FS_Surjection
<1> QED
    BY <1>2 DEF T

\* The rows as the database may order them: all of them, each once.
LEMMA DescendingIs ==
    ASSUME NEW rows, Heights(rows), NEW s \in Descending(rows)
    PROVE  /\ s \in Seq(rows) /\ Len(s) = Cardinality(rows) /\ Len(s) \in Nat
           /\ DOMAIN s = 1 .. Len(s)
           /\ \A i, j \in 1 .. Len(s) : i # j => s[i] # s[j]
           /\ \A i, j \in 1 .. Len(s) : i < j => s[i].height >= s[j].height
           /\ \A x \in rows : \E i \in 1 .. Len(s) : s[i] = x
<1>0. IsFiniteSet(rows)
    BY DEF Heights
<1>1. PICK n \in Nat : n = Cardinality(rows)
    BY <1>0, FS_CardinalityType
<1>2. /\ s \in [1 .. n -> rows] /\ \A i, j \in 1 .. n : i # j => s[i] # s[j]
      /\ \A i, j \in DOMAIN s : i < j => s[i].height >= s[j].height
    BY <1>1 DEF Descending, SetToSeqs
<1>3. s \in Seq(rows) /\ Len(s) = n /\ DOMAIN s = 1 .. n
    BY <1>2
<1>4. \A x \in rows : \E i \in 1 .. n : s[i] = x
    <2>1. s \in Injection(1 .. n, rows)
        BY <1>2 DEF Injection, IsInjective
    <2>2. Cardinality(1 .. n) = n
        BY FS_Interval
    <2>3. s \in Surjection(1 .. n, rows)
        BY <1>0, <1>1, <2>1, <2>2, FS_Injection
    <2> QED
        BY <2>3 DEF Surjection
<1> QED
    BY <1>1, <1>2, <1>3, <1>4

\* The place of a row that is alone at its height.
LEMMA PlaceInOrder ==
    ASSUME NEW rows, Heights(rows), NEW s \in Descending(rows)
    PROVE  /\ s \in Seq(rows) /\ Len(s) = Cardinality(rows) /\ Cardinality(rows) \in Nat
           /\ \A r \in rows : Alone(rows, r) =>
                 /\ Cardinality(Above(rows, r)) \in Nat
                 /\ Cardinality(Above(rows, r)) + 1 \in 1 .. Len(s)
                 /\ s[Cardinality(Above(rows, r)) + 1] = r
<1>0. \A r \in rows : r.height \in Nat
    BY DEF Heights
<1>1. PICK n \in Nat : n = Len(s) /\ n = Cardinality(rows)
    BY DescendingIs
<1>2. /\ \A i \in 1 .. n : s[i] \in rows
      /\ \A i, j \in 1 .. n : i # j => s[i] # s[j]
      /\ \A i, j \in 1 .. n : i < j => s[i].height >= s[j].height
    BY <1>1, DescendingIs
<1>3. s \in Seq(rows) /\ Len(s) = n
    BY <1>1, DescendingIs
<1>4. \A x \in rows : \E i \in 1 .. n : s[i] = x
    BY <1>1, DescendingIs
<1>5. ASSUME NEW r \in rows, Alone(rows, r)
      PROVE  /\ Cardinality(Above(rows, r)) \in Nat
             /\ Cardinality(Above(rows, r)) + 1 \in 1 .. n
             /\ s[Cardinality(Above(rows, r)) + 1] = r
    <2>1. PICK k \in 1 .. n : s[k] = r
        BY <1>4
    <2>2. PICK A : A = Above(rows, r)
        OBVIOUS
    <2>3. PICK D : D = 1 .. k - 1
        OBVIOUS
    <2>4. PICK f : f = [i \in D |-> s[i]]
        OBVIOUS
    <2>5. \A i \in D : i \in 1 .. n /\ f[i] = s[i] /\ i < k
        BY <2>3, <2>4
    <2>6. \A i \in D : f[i] \in A
        <3>1. SUFFICES ASSUME NEW i \in D PROVE s[i] \in A
            BY <2>5
        <3>2. s[i] \in rows /\ s[i].height >= r.height /\ s[i] # r
            BY <1>2, <1>3, <2>1, <2>5
        <3>3. s[i].height # r.height
            BY <1>5, <3>2 DEF Alone
        <3>4. s[i].height > r.height
            BY <1>0, <3>2, <3>3
        <3> QED
            BY <2>2, <3>2, <3>4 DEF Above
    <2>7. f \in [D -> A]
        BY <2>4, <2>5, <2>6
    <2>8. \A i, j \in D : i # j => f[i] # f[j]
        BY <1>2, <2>5
    <2>9. \A x \in A : \E i \in D : f[i] = x
        <3>1. SUFFICES ASSUME NEW x \in A PROVE \E i \in D : s[i] = x
            BY <2>5
        <3>2. x \in rows /\ x.height > r.height
            BY <2>2 DEF Above
        <3>3. PICK i \in 1 .. n : s[i] = x
            BY <1>4, <3>2
        <3>4. i < k
            <4>1. SUFFICES ASSUME k < i \/ k = i PROVE FALSE
                OBVIOUS
            <4>2. CASE k = i
                BY <1>0, <2>1, <3>2, <3>3, <4>2
            <4>3. CASE k < i
                <5>1. s[k].height >= s[i].height
                    BY <1>2, <1>3, <4>3
                <5> QED
                    BY <1>0, <2>1, <3>2, <3>3, <5>1
            <4> QED
                BY <4>1, <4>2, <4>3
        <3> QED
            BY <2>3, <3>3, <3>4
    <2>10. f \in Bijection(D, A)
        BY <2>7, <2>8, <2>9 DEF Bijection, Injection, Surjection, IsInjective
    <2>11. IsFiniteSet(D) /\ Cardinality(D) = k - 1
        BY <2>3, FS_Interval
    <2>12. Cardinality(A) = k - 1
        BY <2>10, <2>11, FS_Bijection DEF ExistsBijection
    <2> QED
        BY <2>1, <2>2, <2>12
<1> QED
    BY <1>1, <1>3, <1>5

LEMMA TxRowsHeights ==
    ASSUME NEW X, NEW table \in [Height -> Seq(X)], NEW o, NEW a
    PROVE  Heights(TxRows(table, o, a))
<1> DEFINE Of(h) == {i \in DOMAIN table[h] : table[h][i].op = o /\ table[h][i].addr = a}
           At(h) == {[height |-> h, place |-> i] : i \in Of(h)}
           f == [h \in Height |-> At(h)]
<1>1. TxRows(table, o, a) = UNION {f[h] : h \in Height}
    BY DEF TxRows
<1>2. ASSUME NEW h \in Height PROVE IsFiniteSet(At(h))
    <2>1. PICK s \in Seq(X) : s = table[h]
        OBVIOUS
    <2>2. PICK n \in Nat : DOMAIN s = 1 .. n
        BY <2>1
    <2>3. PICK S : S = Of(h)
        OBVIOUS
    <2>4. S \subseteq 1 .. n /\ IsFiniteSet(1 .. n)
        BY <2>1, <2>2, <2>3, FS_Interval
    <2>5. IsFiniteSet(S)
        BY <2>4, FS_Subset
    <2>6. PICK g : g = [i \in S |-> [height |-> h, place |-> i]]
        OBVIOUS
    <2>7. IsFiniteSet({g[i] : i \in S})
        BY <2>5, <2>6, ImageFinite
    <2>8. {g[i] : i \in S} = At(h)
        BY <2>3, <2>6
    <2> QED
        BY <2>7, <2>8
<1>3. IsFiniteSet(Height)
    BY Bounds, FS_Interval DEF Height
<1>4. PICK F : F = {f[h] : h \in Height}
    OBVIOUS
<1>5. IsFiniteSet(F)
    <2>1. PICK g : g = f
        OBVIOUS
    <2>2. DOMAIN g = Height /\ g = [h \in Height |-> g[h]]
        BY <2>1
    <2>3. IsFiniteSet({g[h] : h \in Height})
        BY <1>3, <2>2, ImageFinite
    <2> QED
        BY <1>4, <2>1, <2>3
<1>6. \A T \in F : IsFiniteSet(T)
    BY <1>2, <1>4
<1>7. IsFiniteSet(UNION F)
    BY <1>5, <1>6, FS_UNION
<1>8. ASSUME NEW r \in TxRows(table, o, a) PROVE r.height \in Nat
    <2>1. PICK h \in Height : r \in At(h)
        BY <1>1
    <2>2. PICK i \in Of(h) : r = [height |-> h, place |-> i]
        BY <2>1
    <2> QED
        BY <2>2, Bounds DEF Height
<1> QED
    BY <1>1, <1>4, <1>7, <1>8 DEF Heights

LEMMA RowsIs ==
    ASSUME NEW d \in Tables, NEW what
    PROVE  /\ what = "deposits" => Rows(d, what) = TxRows(d.deposits, Operator, Address)
           /\ what = "withdrawals" => Rows(d, what) = TxRows(d.withdrawals, Operator, Address)
           /\ what \notin Tx => Rows(d, what) = {}
           /\ what \in Tx => Heights(Rows(d, what))
<1>1. what \in Tx <=> what \in {"deposits", "withdrawals"}
    BY DEF Tx
<1>2. what = "deposits" => Rows(d, what) = TxRows(d.deposits, Operator, Address)
    BY <1>1 DEF Rows
<1>3. what = "withdrawals" => Rows(d, what) = TxRows(d.withdrawals, Operator, Address)
    BY <1>1 DEF Rows
<1>4. what \notin Tx => Rows(d, what) = {}
    BY <1>1 DEF Rows
<1>5. Heights(TxRows(d.deposits, Operator, Address))
    <2>1. d.deposits \in [Height -> Seq(Deposit)]
        BY TablesIs DEF Deposit
    <2> QED
        BY <2>1, TxRowsHeights
<1>6. Heights(TxRows(d.withdrawals, Operator, Address))
    <2>1. d.withdrawals \in [Height -> Seq(Withdrawal)]
        BY TablesIs DEF Withdrawal
    <2> QED
        BY <2>1, TxRowsHeights
<1> QED
    BY <1>1, <1>2, <1>3, <1>4, <1>5, <1>6

\* A page: the rows from the offset on, as many as there are up to the limit.
IsPage(page, rows, at) ==
    \E s \in Descending(rows), n \in Nat : n >= 1 /\ page = Limited(s, n, at)

LEMMA PageIs ==
    ASSUME NEW rows, Heights(rows), NEW at \in Nat, NEW page, IsPage(page, rows, at)
    PROVE  /\ page = <<>> => at >= Cardinality(rows)
           /\ Len(page) \in Nat
           /\ \A r \in rows : Alone(rows, r) /\ Cardinality(Above(rows, r)) >= at =>
                 r \in ToSet(page) \/ Cardinality(Above(rows, r)) >= at + Len(page)
<1>1. PICK s \in Descending(rows), n \in Nat : n >= 1 /\ page = Limited(s, n, at)
    BY DEF IsPage
<1>2. s \in Seq(rows) /\ Len(s) = Cardinality(rows) /\ Len(s) \in Nat
    BY <1>1, PlaceInOrder
<1>3. PICK e \in Nat : e = Min({at + n, Len(s)}) /\ e = IF at + n <= Len(s) THEN at + n ELSE Len(s)
    BY <1>1, <1>2, MinOf
<1>4. page = SubSeq(s, at + 1, e)
    BY <1>1, <1>3 DEF Limited
<1>5. Len(page) = (IF at + 1 <= e THEN e - at ELSE 0) /\ page \in Seq(rows)
    BY <1>2, <1>3, <1>4
<1>6. CASE e <= at
    <2>1. page = <<>>
        BY <1>3, <1>5, <1>6
    <2>2. at >= Len(s) /\ Len(page) = 0
        BY <1>1, <1>2, <1>3, <1>6, <2>1
    <2> QED
        BY <1>2, <2>1, <2>2, PlaceInOrder
<1>7. CASE e > at
    <2>1. page \in Seq(rows) /\ Len(page) = e - at /\ DOMAIN page = 1 .. (e - at) /\ page # <<>>
        BY <1>3, <1>5, <1>7
    <2>0. \A i \in 1 .. (e - at) : page[i] = s[at + i]
        BY <1>2, <1>3, <1>4, <1>7
    <2>2. ASSUME NEW r \in rows, Alone(rows, r), Cardinality(Above(rows, r)) >= at,
                 Cardinality(Above(rows, r)) < e
          PROVE  r \in ToSet(page)
        <3>1. PICK k \in Nat : k = Cardinality(Above(rows, r)) /\ s[k + 1] = r
            BY <1>1, <2>2, PlaceInOrder
        <3>2. (k + 1) - at \in 1 .. (e - at) /\ at + ((k + 1) - at) = k + 1
            BY <1>3, <2>2, <3>1
        <3>3. page[(k + 1) - at] = r
            BY <2>0, <3>1, <3>2
        <3> QED
            BY <2>1, <3>2, <3>3 DEF ToSet
    <2>3. ASSUME NEW r \in rows, Alone(rows, r) PROVE Cardinality(Above(rows, r)) \in Nat
        BY <1>1, <2>3, PlaceInOrder
    <2>4. ASSUME NEW r \in rows, Alone(rows, r), Cardinality(Above(rows, r)) >= at
          PROVE  r \in ToSet(page) \/ Cardinality(Above(rows, r)) >= at + Len(page)
        <3>1. PICK k \in Nat : k = Cardinality(Above(rows, r))
            BY <2>3, <2>4
        <3>2. k < e \/ k >= at + Len(page)
            BY <1>3, <2>1, <3>1
        <3> QED
            BY <2>2, <2>4, <3>1, <3>2
    <2> QED
        BY <1>3, <1>7, <2>1, <2>4
<1> QED
    BY <1>3, <1>6, <1>7

\* What a client at an offset has: the rows there were are still there, and
\* of those alone at their height it has each one the offset has passed.
PageOk(rows, first, given, at) ==
    /\ first \subseteq rows
    /\ \A r \in first : Alone(rows, r) => r \in given \/ Cardinality(Above(rows, r)) >= at

PageInv ==
    /\ list = "none" => cursor = 0 /\ got = {} /\ start = {} /\ ~disturbed
    /\ list \in Tx => cursor \in Nat /\ (~disturbed => PageOk(Rows(db, list), start, got, cursor))

LEMMA PageBegins ==
    ASSUME NEW rows, Heights(rows)
    PROVE  PageOk(rows, rows, {}, 0)
<1>1. ASSUME NEW r \in rows PROVE Cardinality(Above(rows, r)) >= 0
    <2>1. Above(rows, r) \subseteq rows /\ IsFiniteSet(rows)
        BY DEF Above, Heights
    <2>2. IsFiniteSet(Above(rows, r))
        BY <2>1, FS_Subset
    <2>3. Cardinality(Above(rows, r)) \in Nat
        BY <2>2, FS_CardinalityType
    <2> QED
        BY <2>3
<1> QED
    BY <1>1 DEF PageOk

LEMMA PageGrows ==
    ASSUME NEW rows, NEW more, Heights(rows), Heights(more), rows \subseteq more,
           NEW first, NEW given, NEW at \in Nat, PageOk(rows, first, given, at)
    PROVE  PageOk(more, first, given, at)
<1>1. ASSUME NEW r \in first, Alone(more, r), r \notin given
      PROVE  Cardinality(Above(more, r)) >= at
    <2>1. Alone(rows, r)
        BY <1>1 DEF Alone
    <2>2. Cardinality(Above(rows, r)) >= at
        BY <1>1, <2>1 DEF PageOk
    <2>3. PICK A, M : A = Above(rows, r) /\ M = Above(more, r)
        OBVIOUS
    <2>4. A \subseteq M /\ M \subseteq more /\ IsFiniteSet(more)
        BY <2>3 DEF Above, Heights
    <2>5. IsFiniteSet(M)
        BY <2>4, FS_Subset
    <2>6. IsFiniteSet(A) /\ Cardinality(A) <= Cardinality(M)
        BY <2>4, <2>5, FS_Subset
    <2>7. Cardinality(A) \in Nat
        BY <2>6, FS_CardinalityType
    <2>8. Cardinality(M) \in Nat
        BY <2>5, FS_CardinalityType
    <2> QED
        BY <2>2, <2>3, <2>6, <2>7, <2>8
<1> QED
    BY <1>1 DEF PageOk

LEMMA PageGoesOn ==
    ASSUME NEW rows, Heights(rows), NEW at \in Nat, NEW page, IsPage(page, rows, at),
           NEW first, NEW given, PageOk(rows, first, given, at)
    PROVE  at + Len(page) \in Nat /\ PageOk(rows, first, given \union ToSet(page), at + Len(page))
<1>1. Len(page) \in Nat
    BY PageIs
<1>2. ASSUME NEW r \in first, Alone(rows, r), r \notin given, r \notin ToSet(page)
      PROVE  Cardinality(Above(rows, r)) >= at + Len(page)
    <2>1. r \in rows /\ Cardinality(Above(rows, r)) >= at
        BY <1>2 DEF PageOk
    <2> QED
        BY <1>2, <2>1, PageIs
<1> QED
    BY <1>1, <1>2 DEF PageOk

LEMMA PageEnds ==
    ASSUME NEW rows, Heights(rows), NEW at \in Nat, IsPage(<<>>, rows, at),
           NEW first, NEW given, PageOk(rows, first, given, at)
    PROVE  \A r \in first : Alone(rows, r) => r \in given
<1>1. SUFFICES ASSUME NEW r \in first, Alone(rows, r), r \notin given PROVE FALSE
    OBVIOUS
<1>2. r \in rows /\ Cardinality(Above(rows, r)) >= at
    BY <1>1 DEF PageOk
<1>3. PICK page : page = <<>>
    OBVIOUS
<1>4. at >= Cardinality(rows)
    BY <1>3, PageIs
<1>5. PICK A : A = Above(rows, r)
    OBVIOUS
<1>6. A \subseteq rows /\ r \notin A /\ IsFiniteSet(rows)
    BY <1>2, <1>5 DEF Above, Heights
<1>7. IsFiniteSet(A) /\ Cardinality(A) <= Cardinality(rows) /\ (Cardinality(rows) = Cardinality(A) => rows = A)
    BY <1>6, FS_Subset
<1>8. Cardinality(A) \in Nat
    BY <1>7, FS_CardinalityType
<1>9. Cardinality(rows) \in Nat
    BY <1>6, FS_CardinalityType
<1>10. Cardinality(A) = Cardinality(rows)
    BY <1>2, <1>4, <1>5, <1>7, <1>8, <1>9
<1> QED
    BY <1>2, <1>6, <1>7, <1>10

\* While a list of transactions is read.
LEMMA TxStep ==
    ASSUME TypeInv, PageInv, [ApiNext]_apiVars, list \in Tx
    PROVE  \/ Index
           \/ UNCHANGED apiVars
           \/ \E page : IsPage(page, Rows(db, list), cursor) /\ TxPage(page)
<1>0. db \in Tables /\ cursor \in Nat /\ Max({cursor, 0}) = cursor
    BY MaxOf DEF TypeInv, PageInv
<1>1. list # "none" /\ list \notin PriceLists
    BY DEF Tx, PriceLists
<1>2. PICK n \in Nat : n = Clamp(Limit[list]) /\ n >= 1
    <2>1. Limit[list] \in Int
        BY StakingApiAssumption
    <2> QED
        BY <2>1, ClampIs
<1>3. ASSUME DepositsPage PROVE \E page : IsPage(page, Rows(db, list), cursor) /\ TxPage(page)
    <2>1. list = "deposits"
        BY <1>3 DEF DepositsPage
    <2>2. PICK page \in operator_deposits(Operator, Address, Limit[list], cursor) : TxPage(page)
        BY <1>3 DEF DepositsPage
    <2>3. page \in get_deposits(Address, Operator, n, cursor)
        BY <1>0, <1>2, <2>2 DEF operator_deposits
    <2>4. PICK s \in Descending(TxRows(db.deposits, Operator, Address)) : page = Limited(s, n, cursor)
        BY <2>3 DEF get_deposits
    <2>5. Rows(db, list) = TxRows(db.deposits, Operator, Address)
        BY <1>0, <2>1, RowsIs
    <2>6. IsPage(page, Rows(db, list), cursor)
        BY <1>2, <2>4, <2>5 DEF IsPage
    <2> QED
        BY <2>2, <2>6
<1>4. ASSUME WithdrawalsPage PROVE \E page : IsPage(page, Rows(db, list), cursor) /\ TxPage(page)
    <2>1. list = "withdrawals"
        BY <1>4 DEF WithdrawalsPage
    <2>2. PICK page \in operator_withdrawals(Operator, Address, Limit[list], cursor) : TxPage(page)
        BY <1>4 DEF WithdrawalsPage
    <2>3. page \in get_withdrawals(Address, Operator, n, cursor)
        BY <1>0, <1>2, <2>2 DEF operator_withdrawals
    <2>4. PICK s \in Descending(TxRows(db.withdrawals, Operator, Address)) : page = Limited(s, n, cursor)
        BY <2>3 DEF get_withdrawals
    <2>5. Rows(db, list) = TxRows(db.withdrawals, Operator, Address)
        BY <1>0, <2>1, RowsIs
    <2>6. IsPage(page, Rows(db, list), cursor)
        BY <1>2, <2>4, <2>5 DEF IsPage
    <2> QED
        BY <2>2, <2>6
<1>5. ~health_check /\ ~PricesSince /\ ~PricesUntil
    BY <1>1 DEF health_check, PricesSince, PricesUntil, PriceLists
<1>6. \A what : ~Begin(what)
    BY <1>1 DEF Begin
<1> QED
    BY <1>3, <1>4, <1>5, <1>6 DEF ApiNext

\* The processor's steps.
LEMMA PageIndex ==
    ASSUME TypeInv, TypeInv', PageInv, Index
    PROVE  PageInv'
<1>1. UNCHANGED <<list, cursor, got, start>> /\ db \in Tables /\ db' \in Tables
    BY DEF Index, TypeInv
<1>2. disturbed' = (disturbed \/ ~(Rows(db, list) \subseteq Rows(db', list)))
    BY DEF Index
<1>3. ~disturbed' => ~disturbed /\ Rows(db, list) \subseteq Rows(db', list)
    BY <1>2, Zenon
<1>4. CASE list = "none"
    <2>1. list \notin Tx
        BY <1>4 DEF Tx
    <2>2. Rows(db, list) = {} /\ Rows(db', list) = {}
        BY <1>1, <2>1, RowsIs
    <2>3. ~disturbed /\ Rows(db, list) \subseteq Rows(db', list)
        BY <1>4, <2>2 DEF PageInv
    <2>4. ~disturbed'
        BY <1>2, <2>3, Zenon
    <2> QED
        BY <1>1, <1>4, <2>1, <2>4 DEF PageInv
<1>5. CASE list \in Tx
    <2>1. list # "none"
        BY <1>5 DEF Tx
    <2>2. cursor \in Nat /\ (~disturbed => PageOk(Rows(db, list), start, got, cursor))
        BY <1>5 DEF PageInv
    <2>3. Heights(Rows(db, list)) /\ Heights(Rows(db', list))
        BY <1>1, <1>5, RowsIs
    <2>4. ~disturbed' => PageOk(Rows(db', list), start, got, cursor)
        BY <1>3, <2>2, <2>3, PageGrows
    <2> QED
        BY <1>1, <2>1, <2>2, <2>4 DEF PageInv
<1>6. CASE list # "none" /\ list \notin Tx
    BY <1>1, <1>6 DEF PageInv
<1> QED
    BY <1>4, <1>5, <1>6

LEMMA PageNext == TypeInv /\ PageInv /\ [ApiNext]_apiVars => PageInv'
<1> SUFFICES ASSUME TypeInv, PageInv, [ApiNext]_apiVars PROVE PageInv'
    OBVIOUS
<1>0. TypeInv' /\ db \in Tables
    BY ApiStep, TypeNext DEF TypeInv
<1>n. "none" \notin Tx
    BY DEF Tx
<1>1. CASE Index
    BY <1>0, <1>1, PageIndex
<1>2. ASSUME Finish PROVE PageInv'
    BY <1>2, <1>n DEF Finish, PageInv
<1>3. CASE UNCHANGED <<vars, reading>>
    BY <1>3 DEF vars, reading, PageInv
<1>4. ASSUME NEW page, IsPage(page, Rows(db, list), cursor), TxPage(page), list \in Tx PROVE PageInv'
    <2>1. CASE Finish
        BY <1>2, <2>1
    <2>2. CASE GoOn(page, cursor + Len(page))
        <3>1. /\ got' = got \union ToSet(page) /\ cursor' = cursor + Len(page)
              /\ list' = list /\ start' = start /\ disturbed' = disturbed /\ db' = db
            BY <2>2 DEF GoOn, vars
        <3>2. cursor \in Nat /\ (~disturbed => PageOk(Rows(db, list), start, got, cursor))
            BY <1>4 DEF PageInv
        <3>3. Heights(Rows(db, list))
            BY <1>0, <1>4, RowsIs
        <3>4. cursor + Len(page) \in Nat
            BY <1>4, <3>2, <3>3, PageIs
        <3>5. ~disturbed => PageOk(Rows(db, list), start, got \union ToSet(page), cursor + Len(page))
            BY <1>4, <3>2, <3>3, PageGoesOn
        <3>6. list' # "none"
            BY <1>4, <1>n, <3>1
        <3> QED
            BY <3>1, <3>4, <3>5, <3>6 DEF PageInv
    <2> QED
        BY <1>4, <2>1, <2>2 DEF TxPage
<1>5. CASE list \in Tx
    BY <1>1, <1>3, <1>4, <1>5, TxStep DEF apiVars
<1>6. ASSUME NEW page, NEW at, GoOn(page, at), list \in PriceLists PROVE PageInv'
    <2>1. list' = list /\ list \notin Tx /\ list # "none"
        BY <1>6 DEF GoOn, PriceLists, Tx
    <2> QED
        BY <2>1 DEF PageInv
<1>7. CASE PricesSince
    BY <1>2, <1>6, <1>7 DEF PricesSince, PriceLists
<1>8. CASE PricesUntil
    BY <1>2, <1>6, <1>8 DEF PricesUntil, PriceLists
<1>9. ASSUME NEW what \in Tx \union PriceLists, Begin(what) PROVE PageInv'
    <2>1. /\ list = "none" /\ list' = what /\ start' = Rows(db, what) /\ db' = db
          /\ cursor' = cursor /\ got' = got /\ disturbed' = disturbed
        BY <1>9 DEF Begin, vars
    <2>2. cursor = 0 /\ got = {}
        BY <2>1 DEF PageInv
    <2>3. what # "none"
        BY DEF Tx, PriceLists
    <2>4. what \in Tx => PageOk(Rows(db, what), Rows(db, what), {}, 0)
        BY <1>0, RowsIs, PageBegins
    <2> QED
        BY <2>1, <2>2, <2>3, <2>4 DEF PageInv
<1>10. CASE list \notin Tx
    <2>1. ~DepositsPage /\ ~WithdrawalsPage
        BY <1>10 DEF DepositsPage, WithdrawalsPage, Tx
    <2>2. health_check => UNCHANGED <<vars, reading>>
        BY DEF health_check
    <2> QED
        BY <1>1, <1>3, <1>7, <1>8, <1>9, <2>1, <2>2 DEF ApiNext, apiVars
<1> QED
    BY <1>5, <1>10

\* The step that ends the reading.
LEMMA NoneMissedStep ==
    ASSUME TypeInv, PageInv, [ApiNext]_apiVars, list \in Tx, Finish, ~disturbed
    PROVE  \A r \in start : (\A s \in Rows(db, list) : s.height = r.height => s = r) => r \in got
<1>1. list' = "none" /\ list # "none"
    BY DEF Finish, Tx
<1>2. PICK page : IsPage(page, Rows(db, list), cursor) /\ TxPage(page)
    BY <1>1, TxStep DEF Index, apiVars, reading
<1>3. page = <<>>
    BY <1>1, <1>2 DEF TxPage, GoOn
<1>4. cursor \in Nat /\ PageOk(Rows(db, list), start, got, cursor)
    BY DEF PageInv
<1>5. Heights(Rows(db, list))
    BY RowsIs DEF TypeInv
<1>6. \A r \in start : Alone(Rows(db, list), r) => r \in got
    BY <1>2, <1>3, <1>4, <1>5, PageEnds
<1> QED
    BY <1>6 DEF Alone

LEMMA PageAlways == ApiSpec => [](TypeInv /\ PageInv)
<1>1. ApiInit => TypeInv /\ PageInv
    <2>1. ASSUME ApiInit PROVE PageInv
        BY <2>1 DEF ApiInit, PageInv, Tx
    <2> QED
        BY <2>1, TypeInit DEF ApiInit
<1>2. TypeInv /\ PageInv /\ [ApiNext]_apiVars => (TypeInv /\ PageInv)'
    BY ApiStep, TypeNext, PageNext
<1> QED
    BY <1>1, <1>2, PTL DEF ApiSpec

(***************************************************************************)
(* A client that pages through the deposits or the withdrawals to the end  *)
(* has been given every row there was when it began and that is alone at   *)
(* its block: rows inserted meanwhile, above or below, move no such row to *)
(* before the offset.  Only a block processed again meanwhile, whose rows  *)
(* are deleted first, may cost one.                                        *)
(***************************************************************************)
THEOREM NoneMissedAlways == ApiSpec => NoneMissed
<1>1. TypeInv /\ PageInv /\ [ApiNext]_apiVars =>
        [(list \in Tx /\ Finish /\ ~disturbed) =>
            \A r \in start :
                (\A s \in Rows(db, list) : s.height = r.height => s = r) => r \in got]_apiVars
    BY NoneMissedStep
<1> QED
    BY <1>1, PageAlways, PTL DEF ApiSpec, NoneMissed

-----------------------------------------------------------------------------
(***************************************************************************)
(* A client that reads the share prices from either end.  It goes on by    *)
(* the height of the last row it was given, so the rows must differ in     *)
(* height: a block ends no two epochs.                                     *)
(***************************************************************************)
EpochsApart ==
    \A h \in Height : \A i, j \in DOMAIN Events[h] :
        Events[h][i].kind = "epoch" /\ Events[h][j].kind = "epoch" => Events[h][i].n = Events[h][j].n

FiniteInv == IsFiniteSet(DOMAIN db.prices)

\* The prices a client may count on, from the block it was told.
Price(h, n) == [height |-> h, epoch |-> n]
Due ==
    {r \in [height : 1 .. health, epoch : Nat] : InBlock(r.height, Pricing(Operator, r.epoch))}

\* The client has those below c, going up, and those above c, going down.
Reached(given, c) == \A r \in Due : r \in given \/ r.height >= c
Lowered(given, c) == \A r \in Due : r \in given \/ r.height <= c

DueInv ==
    ~degraded =>
        /\ list = "prices since" => cursor \in Int /\ Reached(got, cursor)
        /\ list = "prices until" /\ got # {} => cursor \in Int /\ Lowered(got, cursor)

LEMMA FiniteNext == TypeInv /\ FiniteInv /\ [Next]_vars => FiniteInv'
<1> SUFFICES ASSUME TypeInv, FiniteInv, [Next]_vars PROVE FiniteInv'
    OBVIOUS
<1>1. CASE db' = db
    BY <1>1 DEF FiniteInv
<1>2. ASSUME NEW g \in Height, Statement(g) PROVE FiniteInv'
    <2>1. PICK st \in Plain(g) \union Deletes : Wrote(db, db', g, st) /\ db \in Tables
        BY <1>2, StatementIs DEF TypeInv
    <2>2. CASE st.do # "price"
        <3>1. db'.prices = db.prices
            BY <1>2, <2>1, <2>2, WroteOther
        <3> QED
            BY <3>1 DEF FiniteInv
    <2>3. CASE st.do = "price"
        <3>1. PricePut(db, db', st.op, st.epoch, g)
            BY <2>1, <2>3 DEF Wrote
        <3>2. PICK k : DOMAIN db'.prices = DOMAIN db.prices \union {k}
            BY <3>1 DEF PricePut
        <3> QED
            BY <3>2, FS_AddElement DEF FiniteInv
    <2> QED
        BY <2>2, <2>3
<1> QED
    BY <1>1, <1>2, DbNext

\* A row of an operator's prices.
LEMMA PricesIs ==
    ASSUME TypeInv, NEW r \in Prices(Operator)
    PROVE  \E k \in DOMAIN db.prices : /\ k[1] = Operator /\ r = Price(db.prices[k], k[2])
                                       /\ db.prices[k] \in Height
<1>1. PICK k \in DOMAIN db.prices : k[1] = Operator /\ r = Price(db.prices[k], k[2])
    BY DEF Prices, Price
<1>2. db.prices \in PF(Operators \X Nat, Height)
    BY TablesIs DEF TypeInv
<1>3. db.prices[k] \in Height
    BY <1>1, <1>2, PFIs
<1> QED
    BY <1>1, <1>3

LEMMA PriceRow ==
    \A h, n : Price(h, n).height = h /\ Price(h, n).epoch = n
BY DEF Price

LEMMA PricesHeights ==
    ASSUME TypeInv, FiniteInv, NEW S \in SUBSET Prices(Operator)
    PROVE  Heights(S)
<1>1. PICK K : K = {k \in DOMAIN db.prices : k[1] = Operator}
    OBVIOUS
<1>2. IsFiniteSet(K)
    BY <1>1, FS_Subset DEF FiniteInv
<1>3. PICK f : f = [k \in K |-> Price(db.prices[k], k[2])]
    OBVIOUS
<1>4. IsFiniteSet({f[k] : k \in K})
    BY <1>2, <1>3, ImageFinite
<1>5. {f[k] : k \in K} = Prices(Operator)
    BY <1>1, <1>3 DEF Prices, Price
<1>6. IsFiniteSet(Prices(Operator))
    BY <1>4, <1>5
<1>7. IsFiniteSet(S)
    BY <1>6, FS_Subset
<1>8. ASSUME NEW r \in S PROVE r.height \in Nat
    <2>1. PICK k \in DOMAIN db.prices : r = Price(db.prices[k], k[2]) /\ db.prices[k] \in Height
        BY PricesIs
    <2>2. r.height \in Height
        BY <2>1, PriceRow
    <2> QED
        BY <2>2, Bounds DEF Height
<1> QED
    BY <1>7, <1>8 DEF Heights

\* No two rows have the same height.
LEMMA PricesApart ==
    ASSUME TypeInv, PriceInv, EpochsApart, NEW r \in Prices(Operator), NEW x \in Prices(Operator),
           r.height = x.height
    PROVE  r = x
<1>1. PICK k \in DOMAIN db.prices : r = Price(db.prices[k], k[2]) /\ db.prices[k] \in Height
    BY PricesIs
<1>2. PICK l \in DOMAIN db.prices : x = Price(db.prices[l], l[2]) /\ db.prices[l] \in Height
    BY PricesIs
<1>3. PICK h \in Height : h = db.prices[k] /\ h = db.prices[l]
    BY <1>1, <1>2, PriceRow
<1>4. InBlock(h, OfEpoch(k[2])) /\ InBlock(h, OfEpoch(l[2]))
    BY <1>3 DEF PriceInv
<1>5. PICK i \in DOMAIN Events[h] : Events[h][i].kind = "epoch" /\ Events[h][i].n = k[2]
    BY <1>4 DEF InBlock, OfEpoch
<1>6. PICK j \in DOMAIN Events[h] : Events[h][j].kind = "epoch" /\ Events[h][j].n = l[2]
    BY <1>4 DEF InBlock, OfEpoch
<1>7. k[2] = l[2]
    BY <1>5, <1>6 DEF EpochsApart
<1> QED
    BY <1>1, <1>2, <1>3, <1>7

\* What a client may count on is there.
LEMMA DueFound ==
    ASSUME TypeInv, HealthInv, PriceInv, ~degraded, NEW r \in Due
    PROVE  r \in Prices(Operator) /\ r.height \in Height
<1>1. PICK h \in Height, n \in Nat :
         r = Price(h, n) /\ h \in 1 .. health /\ InBlock(h, Pricing(Operator, n))
    <2>1. /\ r = Price(r.height, r.epoch) /\ r.height \in 1 .. health /\ r.epoch \in Nat
          /\ InBlock(r.height, Pricing(Operator, r.epoch))
        BY DEF Due, Price
    <2>2. r.height \in Height
        BY <2>1, Bounds DEF HealthInv, Height
    <2> QED
        BY <2>1, <2>2
<1>2. PICK i \in DOMAIN Events[h] :
         Events[h][i].kind = "epoch" /\ Events[h][i].n = n /\ Operator \in Events[h][i].ops
    BY <1>1 DEF InBlock, Pricing
<1>3. PICK o \in Operators : o = Operator
    BY StakingApiAssumption
<1>t. AllLeft(h)
    BY <1>1 DEF HealthInv, AllLeft
<1>4. <<o, n>> \in DOMAIN db.prices /\ db.prices[<<o, n>>] = h
    BY <1>1, <1>2, <1>3, <1>t, PriceTold
<1>5. PICK k : k = <<o, n>>
    OBVIOUS
<1>6. k[1] = o /\ k[2] = n
    BY <1>5
<1>7. r = [height |-> db.prices[k], epoch |-> k[2]]
    BY <1>1, <1>4, <1>5, <1>6 DEF Price
<1> QED
    BY <1>1, <1>3, <1>4, <1>5, <1>6, <1>7, PriceRow DEF Prices

\* The first rows in an order: the last of them is in front of those left out.
Covers(s, rows) == \A x \in rows : \E i \in 1 .. Len(s) : s[i] = x
Behind(s, x, r) == \E i, j \in 1 .. Len(s) : i < j /\ s[i] = x /\ s[j] = r

LEMMA FirstRows ==
    ASSUME NEW rows, NEW s \in Seq(rows), Covers(s, rows),
           NEW n \in Nat, n >= 1, NEW page, page = Limited(s, n, 0)
    PROVE  /\ page = <<>> => rows = {}
           /\ page # <<>> => Last(page) \in rows /\ Last(page) \in ToSet(page)
           /\ page # <<>> => \A r \in rows : r \in ToSet(page) \/ Behind(s, Last(page), r)
<1>1. PICK l \in Nat : l = Len(s)
    OBVIOUS
<1>2. PICK m \in Nat : m = Min({n, l}) /\ m = IF n <= l THEN n ELSE l
    BY <1>1, MinOf
<1>3. page = SubSeq(s, 1, m)
    <2>1. 0 + 1 = 1 /\ 0 + n = n
        OBVIOUS
    <2> QED
        BY <1>1, <1>2, <2>1, Zenon DEF Limited
<1>4. page \in Seq(rows) /\ Len(page) = m /\ \A i \in 1 .. m : page[i] = s[i]
    <2>1. m \in 0 .. Len(s)
        BY <1>1, <1>2
    <2>2. /\ SubSeq(s, 1, m) \in Seq(rows) /\ Len(SubSeq(s, 1, m)) = m
          /\ \A i \in 1 .. m : SubSeq(s, 1, m)[i] = s[i]
        BY <2>1, PrefixIs
    <2> QED
        BY <1>3, <2>2, Zenon
<1>5. ASSUME page = <<>> PROVE rows = {}
    <2>1. m = 0
        BY <1>4, <1>5
    <2>2. l = 0
        BY <1>2, <2>1
    <2> QED
        BY <1>1, <2>2 DEF Covers
<1>6. ASSUME page # <<>>
      PROVE  /\ Last(page) \in rows /\ Last(page) \in ToSet(page)
             /\ \A r \in rows : r \in ToSet(page) \/ Behind(s, Last(page), r)
    <2>1. m \in 1 .. l /\ DOMAIN page = 1 .. m
        BY <1>2, <1>4, <1>6
    <2>2. Last(page) = page[m] /\ Last(page) = s[m]
        BY <1>4, <2>1 DEF Last
    <2>3. Last(page) \in rows /\ Last(page) \in ToSet(page)
        BY <1>1, <2>1, <2>2 DEF ToSet
    <2>4. ASSUME NEW r \in rows PROVE r \in ToSet(page) \/ Behind(s, Last(page), r)
        <3>1. PICK j \in 1 .. l : s[j] = r
            BY <1>1 DEF Covers
        <3>2. CASE j <= m
            <4>1. j \in 1 .. m
                BY <3>2
            <4>2. page[j] = s[j] /\ j \in DOMAIN page
                BY <1>4, <2>1, <4>1, Zenon
            <4> QED
                BY <3>1, <4>2 DEF ToSet
        <3>3. CASE m < j
            BY <1>1, <2>1, <2>2, <3>1, <3>3 DEF Behind
        <3> QED
            BY <2>1, <3>2, <3>3
    <2> QED
        BY <2>3, <2>4
<1> QED
    BY <1>5, <1>6

PageUp(page, rows) ==
    /\ page = <<>> => rows = {}
    /\ page # <<>> => Last(page) \in rows /\ Last(page) \in ToSet(page)
    /\ page # <<>> => \A r \in rows : r \in ToSet(page) \/ Last(page).height <= r.height

PageDown(page, rows) ==
    /\ page = <<>> => rows = {}
    /\ page # <<>> => Last(page) \in rows /\ Last(page) \in ToSet(page)
    /\ page # <<>> => \A r \in rows : r \in ToSet(page) \/ Last(page).height >= r.height

LEMMA DownPage ==
    ASSUME NEW rows, Heights(rows), NEW s \in Descending(rows), NEW n \in Nat, n >= 1
    PROVE  PageDown(Limited(s, n, 0), rows)
<1>1. s \in Seq(rows) /\ Covers(s, rows)
    BY DescendingIs DEF Covers
<1>2. \A i, j \in 1 .. Len(s) : i < j => s[i].height >= s[j].height
    BY DescendingIs
<1>3. PICK page : page = Limited(s, n, 0)
    OBVIOUS
<1>4. /\ page = <<>> => rows = {}
      /\ page # <<>> => Last(page) \in rows /\ Last(page) \in ToSet(page)
      /\ page # <<>> => \A r \in rows : r \in ToSet(page) \/ Behind(s, Last(page), r)
    BY <1>1, <1>3, FirstRows
<1>5. ASSUME NEW r, Behind(s, Last(page), r) PROVE Last(page).height >= r.height
    BY <1>2, <1>5 DEF Behind
<1>6. PageDown(page, rows)
    BY <1>4, <1>5 DEF PageDown
<1> QED
    BY <1>3, <1>6

LEMMA UpPage ==
    ASSUME NEW rows, Heights(rows), NEW s \in Ascending(rows), NEW n \in Nat, n >= 1
    PROVE  PageUp(Limited(s, n, 0), rows)
<1>1. PICK t \in Descending(rows) : s = Reverse(t)
    BY DEF Ascending
<1>2. t \in Seq(rows) /\ \A x \in rows : \E i \in 1 .. Len(t) : t[i] = x
    BY DescendingIs
<1>3. \A i, j \in 1 .. Len(t) : i < j => t[i].height >= t[j].height
    BY DescendingIs
<1>4. PICK l \in Nat : l = Len(t)
    BY <1>2
<1>5. s = [i \in 1 .. l |-> t[(l - i) + 1]]
    BY <1>1, <1>4 DEF Reverse
<1>6. \A i \in 1 .. l : (l - i) + 1 \in 1 .. l /\ (l - ((l - i) + 1)) + 1 = i
    OBVIOUS
<1>7. s \in Seq(rows) /\ Len(s) = l /\ \A i \in 1 .. l : s[i] = t[(l - i) + 1]
    <2>1. \A i \in 1 .. l : t[(l - i) + 1] \in rows
        BY <1>2, <1>4, <1>6
    <2> QED
        BY <1>5, <2>1
<1>8. Covers(s, rows)
    <2>1. SUFFICES ASSUME NEW x \in rows PROVE \E i \in 1 .. l : s[i] = x
        BY <1>7 DEF Covers
    <2>2. PICK j \in 1 .. l : t[j] = x
        BY <1>2, <1>4
    <2>3. PICK i \in 1 .. l : i = (l - j) + 1 /\ (l - i) + 1 = j
        BY <1>6
    <2> QED
        BY <1>7, <2>2, <2>3
<1>9. ASSUME NEW i \in 1 .. l, NEW j \in 1 .. l, i < j PROVE s[i].height <= s[j].height
    <2>1. PICK a \in 1 .. l, b \in 1 .. l : a = (l - i) + 1 /\ b = (l - j) + 1
        BY <1>6
    <2>2. b < a /\ s[i] = t[a] /\ s[j] = t[b]
        BY <1>7, <1>9, <2>1
    <2>3. t[b].height >= t[a].height
        BY <1>3, <1>4, <2>2
    <2>4. t[a] \in rows /\ t[b] \in rows
        BY <1>2, <1>4
    <2>5. t[a].height \in Nat /\ t[b].height \in Nat
        BY <2>4 DEF Heights
    <2> QED
        BY <2>2, <2>3, <2>5
<1>10. PICK page : page = Limited(s, n, 0)
    OBVIOUS
<1>11. /\ page = <<>> => rows = {}
       /\ page # <<>> => Last(page) \in rows /\ Last(page) \in ToSet(page)
       /\ page # <<>> => \A r \in rows : r \in ToSet(page) \/ Behind(s, Last(page), r)
    BY <1>7, <1>8, <1>10, FirstRows
<1>12. ASSUME NEW r, Behind(s, Last(page), r) PROVE Last(page).height <= r.height
    BY <1>7, <1>9, <1>12 DEF Behind
<1>13. PageUp(page, rows)
    BY <1>11, <1>12 DEF PageUp
<1> QED
    BY <1>10, <1>13

LEMMA SincePage ==
    ASSUME TypeInv, FiniteInv, list \in PriceLists, NEW c, NEW u,
           NEW page \in operator_share_prices(Operator, Limit[list], {c}, u)
    PROVE  PageUp(page, {r \in Prices(Operator) : r.height >= c})
<1>1. PICK n \in Nat : n = Clamp(Limit[list]) /\ n >= 1
    <2>1. Limit[list] \in Int
        BY StakingApiAssumption
    <2> QED
        BY <2>1, ClampIs
<1>2. PICK rows : rows = {r \in Prices(Operator) : r.height >= c}
    OBVIOUS
<1>3. Heights(rows)
    BY <1>2, PricesHeights
<1>4. (CHOOSE t \in {c} : TRUE) = c
    OBVIOUS
<1>5. page \in get_share_prices_since(Operator, c, n)
    <2>1. {c} # {}
        OBVIOUS
    <2> QED
        BY <1>1, <1>4, <2>1 DEF operator_share_prices
<1>6. PICK s \in Ascending(rows) : page = Limited(s, n, 0)
    BY <1>2, <1>5 DEF get_share_prices_since
<1>7. PageUp(page, rows)
    BY <1>1, <1>3, <1>6, UpPage
<1> QED
    BY <1>2, <1>7

LEMMA UntilPage ==
    ASSUME TypeInv, FiniteInv, list \in PriceLists,
           NEW page \in operator_share_prices(Operator, Limit[list], {},
                                              IF got = {} THEN {} ELSE {cursor})
    PROVE  /\ got = {} => PageDown(page, Prices(Operator))
           /\ got # {} => PageDown(page, {r \in Prices(Operator) : r.height <= cursor})
<1>1. PICK n \in Nat : n = Clamp(Limit[list]) /\ n >= 1
    <2>1. Limit[list] \in Int
        BY StakingApiAssumption
    <2> QED
        BY <2>1, ClampIs
<1>2. ASSUME got = {} PROVE PageDown(page, Prices(Operator))
    <2>1. page \in get_share_prices_latest(Operator, n)
        BY <1>1, <1>2 DEF operator_share_prices
    <2>2. PICK rows : rows = Prices(Operator)
        OBVIOUS
    <2>3. PICK s \in Descending(rows) : page = Limited(s, n, 0)
        BY <2>1, <2>2 DEF get_share_prices_latest
    <2>4. Heights(rows)
        BY <2>2, PricesHeights
    <2>5. PageDown(page, rows)
        BY <1>1, <2>3, <2>4, DownPage
    <2> QED
        BY <2>2, <2>5
<1>3. ASSUME got # {} PROVE PageDown(page, {r \in Prices(Operator) : r.height <= cursor})
    <2>1. (CHOOSE t \in {cursor} : TRUE) = cursor /\ {cursor} # {}
        OBVIOUS
    <2>2. page \in get_share_prices_until(Operator, cursor, n)
        BY <1>1, <1>3, <2>1 DEF operator_share_prices
    <2>3. PICK rows : rows = {r \in Prices(Operator) : r.height <= cursor}
        OBVIOUS
    <2>4. PICK s \in Descending(rows) : page = Limited(s, n, 0)
        BY <2>2, <2>3 DEF get_share_prices_until
    <2>5. Heights(rows)
        BY <2>3, PricesHeights
    <2>6. PageDown(page, rows)
        BY <1>1, <2>4, <2>5, DownPage
    <2> QED
        BY <2>3, <2>6
<1> QED
    BY <1>2, <1>3

LEMMA DueUp ==
    ASSUME TypeInv, HealthInv, PriceInv, FiniteInv, EpochsApart, ~degraded,
           NEW c \in Int, NEW given, Reached(given, c),
           NEW page, PageUp(page, {r \in Prices(Operator) : r.height >= c})
    PROVE  /\ page # <<>> => /\ Last(page).height + 1 \in Int
                             /\ Reached(given \union ToSet(page), Last(page).height + 1)
           /\ (\A r \in ToSet(page) : ~(r.height <= health)) => Due \subseteq given
<1>1. PICK rows : rows = {r \in Prices(Operator) : r.height >= c}
    OBVIOUS
<1>2. PageUp(page, rows)
    BY <1>1
<1>3. Heights(rows)
    BY <1>1, PricesHeights
<1>4. ASSUME NEW r \in Due, r \notin given PROVE r \in rows
    BY <1>1, <1>4, DueFound DEF Reached
<1>5. ASSUME page # <<>>
      PROVE  /\ Last(page).height + 1 \in Int
             /\ Reached(given \union ToSet(page), Last(page).height + 1)
    <2>1. PICK z \in rows : z = Last(page) /\ z \in ToSet(page)
        BY <1>2, <1>5 DEF PageUp
    <2>2. z.height \in Nat
        BY <1>3 DEF Heights
    <2>3. ASSUME NEW r \in Due, r \notin given, r \notin ToSet(page) PROVE r.height >= z.height + 1
        <3>1. r \in rows
            BY <1>4, <2>3
        <3>2. z.height <= r.height
            BY <1>2, <1>5, <2>1, <2>3, <3>1 DEF PageUp
        <3>3. r # z
            BY <2>1, <2>3
        <3>4. r.height # z.height
            BY <1>1, <3>1, <3>3, PricesApart
        <3>5. r.height \in Nat
            BY <1>3, <3>1 DEF Heights
        <3> QED
            BY <2>2, <3>2, <3>4, <3>5
    <2>4. Reached(given \union ToSet(page), z.height + 1)
        BY <2>3 DEF Reached
    <2> QED
        BY <2>1, <2>2, <2>4
<1>6. ASSUME \A r \in ToSet(page) : ~(r.height <= health) PROVE Due \subseteq given
    <2>1. SUFFICES ASSUME NEW r \in Due, r \notin given PROVE FALSE
        OBVIOUS
    <2>2. r \in rows
        BY <1>4, <2>1
    <2>3. r.height \in 1 .. health /\ health \in Int
        BY DEF Due, HealthInv
    <2>4. r \notin ToSet(page)
        BY <1>6, <2>3
    <2>5. page # <<>>
        BY <1>2, <2>2 DEF PageUp
    <2>6. PICK z \in rows : z = Last(page) /\ z \in ToSet(page)
        BY <1>2, <2>5 DEF PageUp
    <2>7. z.height <= r.height /\ z.height \in Nat
        BY <1>2, <1>3, <2>2, <2>4, <2>5, <2>6 DEF PageUp, Heights
    <2>8. z.height <= health
        BY <2>3, <2>7
    <2> QED
        BY <1>6, <2>6, <2>8
<1> QED
    BY <1>5, <1>6

LEMMA DueDown ==
    ASSUME TypeInv, HealthInv, PriceInv, FiniteInv, EpochsApart, ~degraded,
           NEW given, NEW rows \in SUBSET Prices(Operator),
           \A r \in Due : r \in given \/ r \in rows,
           NEW page, PageDown(page, rows)
    PROVE  /\ page # <<>> => /\ Last(page).height - 1 \in Int
                             /\ ToSet(page) # {}
                             /\ Lowered(given \union ToSet(page), Last(page).height - 1)
           /\ page = <<>> => Due \subseteq given
<1>1. Heights(rows)
    BY PricesHeights
<1>2. ASSUME page # <<>>
      PROVE  /\ Last(page).height - 1 \in Int
             /\ ToSet(page) # {}
             /\ Lowered(given \union ToSet(page), Last(page).height - 1)
    <2>1. PICK z \in rows : z = Last(page) /\ z \in ToSet(page)
        BY <1>2 DEF PageDown
    <2>2. z.height \in Nat
        BY <1>1 DEF Heights
    <2>3. ASSUME NEW r \in Due, r \notin given, r \notin ToSet(page) PROVE r.height <= z.height - 1
        <3>1. r \in rows
            BY <2>3
        <3>2. z.height >= r.height
            BY <1>2, <2>1, <2>3, <3>1 DEF PageDown
        <3>3. r # z
            BY <2>1, <2>3
        <3>4. r.height # z.height
            BY <3>1, <3>3, PricesApart
        <3>5. r.height \in Nat
            BY <1>1, <3>1 DEF Heights
        <3> QED
            BY <2>2, <3>2, <3>4, <3>5
    <2>4. Lowered(given \union ToSet(page), z.height - 1)
        BY <2>3 DEF Lowered
    <2> QED
        BY <2>1, <2>2, <2>4
<1>3. ASSUME page = <<>> PROVE Due \subseteq given
    BY <1>3 DEF PageDown
<1> QED
    BY <1>2, <1>3

\* A page of the prices from the latest one down.
LEMMA DueUntil ==
    ASSUME TypeInv, HealthInv, PriceInv, FiniteInv, DueInv, EpochsApart, ~degraded,
           list = "prices until",
           NEW page \in operator_share_prices(Operator, Limit[list], {},
                                              IF got = {} THEN {} ELSE {cursor})
    PROVE  /\ page # <<>> => /\ Last(page).height - 1 \in Int
                             /\ ToSet(page) # {}
                             /\ Lowered(got \union ToSet(page), Last(page).height - 1)
           /\ page = <<>> => Due \subseteq got
<1>1. list \in PriceLists
    BY DEF PriceLists
<1>2. CASE got = {}
    <2>1. PageDown(page, Prices(Operator))
        BY <1>1, <1>2, UntilPage
    <2>2. \A r \in Due : r \in got \/ r \in Prices(Operator)
        BY DueFound
    <2>3. Prices(Operator) \in SUBSET Prices(Operator)
        OBVIOUS
    <2> QED
        BY <2>1, <2>2, <2>3, DueDown
<1>3. CASE got # {}
    <2>1. PICK rows : rows = {r \in Prices(Operator) : r.height <= cursor}
        OBVIOUS
    <2>2. PageDown(page, rows)
        BY <1>1, <1>3, <2>1, UntilPage
    <2>3. rows \in SUBSET Prices(Operator)
        BY <2>1
    <2>4. Lowered(got, cursor)
        BY <1>3 DEF DueInv
    <2>5. \A r \in Due : r \in got \/ r \in rows
        BY <2>1, <2>4, DueFound DEF Lowered
    <2> QED
        BY <2>2, <2>3, <2>5, DueDown
<1> QED
    BY <1>2, <1>3

LEMMA DueNext ==
    ASSUME TypeInv, HealthInv, PriceInv, FiniteInv, PageInv, DueInv, EpochsApart, [ApiNext]_apiVars
    PROVE  DueInv'
<1>1. SUFFICES ASSUME ~degraded', list' \in PriceLists PROVE DueInv'
    BY DEF DueInv, PriceLists
<1>2. ~degraded
    BY <1>1, ApiStep, DegradedNext
<1>3. ASSUME Finish PROVE FALSE
    BY <1>1, <1>3 DEF Finish, PriceLists
<1>4. ASSUME UNCHANGED <<list, cursor, got, health>> PROVE DueInv'
    <2>1. Due' = Due
        BY <1>4 DEF Due
    <2> QED
        BY <1>2, <1>4, <2>1 DEF DueInv, Reached, Lowered
<1>5. CASE Index
    BY <1>4, <1>5 DEF Index
<1>6. CASE health_check
    BY <1>1, <1>6 DEF health_check, reading, PriceLists
<1>7. ASSUME NEW what \in Tx \union PriceLists, Begin(what) PROVE DueInv'
    <2>1. list = "none" /\ cursor' = cursor /\ got' = got
        BY <1>7 DEF Begin
    <2>2. cursor' = 0 /\ got' = {}
        BY <2>1 DEF PageInv
    <2>3. \A r \in Due' : r.height >= 0
        BY DEF Due
    <2>4. Reached(got, cursor)'
        BY <2>2, <2>3 DEF Reached
    <2>5. cursor' \in Int
        BY <2>2
    <2> QED
        BY <2>2, <2>4, <2>5, Zenon DEF DueInv
<1>8. ASSUME NEW page, TxPage(page), list \in Tx PROVE FALSE
    <2>1. ~Finish
        BY <1>3
    <2>2. list' = list
        BY <1>8, <2>1 DEF TxPage, GoOn
    <2> QED
        BY <1>1, <1>8, <2>2 DEF Tx, PriceLists
<1>9. CASE DepositsPage \/ WithdrawalsPage
    BY <1>8, <1>9 DEF DepositsPage, WithdrawalsPage, Tx
<1>10. CASE PricesSince
    <2>1. list = "prices since" /\ list \in PriceLists
        BY <1>10 DEF PricesSince, PriceLists
    <2>2. PICK page \in operator_share_prices(Operator, Limit[list], {cursor}, {}) :
             (\E r \in ToSet(page) : r.height <= health) /\ GoOn(page, Last(page).height + 1)
        BY <1>3, <1>10 DEF PricesSince
    <2>3. PageUp(page, {r \in Prices(Operator) : r.height >= cursor})
        BY <2>1, <2>2, SincePage
    <2>4. page # <<>>
        BY <2>2 DEF ToSet
    <2>5. cursor \in Int /\ Reached(got, cursor)
        BY <1>2, <2>1 DEF DueInv
    <2>6. Last(page).height + 1 \in Int /\ Reached(got \union ToSet(page), Last(page).height + 1)
        BY <1>2, <2>3, <2>4, <2>5, DueUp
    <2>7. /\ got' = got \union ToSet(page) /\ cursor' = Last(page).height + 1
          /\ list' = list /\ health' = health
        BY <2>2 DEF GoOn
    <2>8. Due' = Due
        BY <2>7 DEF Due
    <2> QED
        BY <2>1, <2>6, <2>7, <2>8 DEF DueInv, Reached
<1>11. CASE PricesUntil
    <2>1. list = "prices until"
        BY <1>11 DEF PricesUntil
    <2>2. PICK page \in operator_share_prices(Operator, Limit[list], {},
                                              IF got = {} THEN {} ELSE {cursor}) :
             page # <<>> /\ GoOn(page, Last(page).height - 1)
        BY <1>3, <1>11 DEF PricesUntil
    <2>3. Last(page).height - 1 \in Int /\ Lowered(got \union ToSet(page), Last(page).height - 1)
        BY <1>2, <2>1, <2>2, DueUntil
    <2>4. /\ got' = got \union ToSet(page) /\ cursor' = Last(page).height - 1
          /\ list' = list /\ health' = health
        BY <2>2 DEF GoOn
    <2>5. Due' = Due
        BY <2>4 DEF Due
    <2> QED
        BY <2>1, <2>3, <2>4, <2>5 DEF DueInv, Lowered
<1>12. CASE UNCHANGED apiVars
    BY <1>4, <1>12 DEF apiVars, reading
<1> QED
    BY <1>5, <1>6, <1>7, <1>9, <1>10, <1>11, <1>12 DEF ApiNext

\* The step that ends the reading.
LEMMA PricesCompleteStep ==
    ASSUME TypeInv, HealthInv, PriceInv, FiniteInv, DueInv, EpochsApart, [ApiNext]_apiVars,
           list \in PriceLists, Finish, ~degraded
    PROVE  Due \subseteq got
<1>1. list' = "none" /\ list # "none" /\ list \notin Tx
    BY DEF Finish, PriceLists, Tx
<1>2. PricesSince \/ PricesUntil
    BY <1>1 DEF ApiNext, Index, health_check, Begin, DepositsPage, WithdrawalsPage, Tx, apiVars, reading
<1>3. \A page, at : ~GoOn(page, at)
    BY <1>1 DEF GoOn
<1>4. CASE PricesSince
    <2>1. list = "prices since"
        BY <1>4 DEF PricesSince
    <2>2. PICK page \in operator_share_prices(Operator, Limit[list], {cursor}, {}) :
             ~\E r \in ToSet(page) : r.height <= health
        BY <1>3, <1>4 DEF PricesSince
    <2>3. PageUp(page, {r \in Prices(Operator) : r.height >= cursor})
        BY <2>2, SincePage
    <2>4. cursor \in Int /\ Reached(got, cursor)
        BY <2>1 DEF DueInv
    <2>5. \A r \in ToSet(page) : ~(r.height <= health)
        BY <2>2
    <2> QED
        BY <2>3, <2>4, <2>5, DueUp
<1>5. CASE PricesUntil
    <2>1. list = "prices until"
        BY <1>5 DEF PricesUntil
    <2>2. PICK page \in operator_share_prices(Operator, Limit[list], {},
                                              IF got = {} THEN {} ELSE {cursor}) : page = <<>>
        BY <1>3, <1>5 DEF PricesUntil
    <2> QED
        BY <2>1, <2>2, DueUntil
<1> QED
    BY <1>2, <1>4, <1>5

(***************************************************************************)
(* A client that was told the processed block and then reads the share     *)
(* prices from either end, a page at a time, has the price of every epoch  *)
(* up to that block: going on above the highest height it was given, or    *)
(* below the lowest, skips none, although prices are written meanwhile and *)
(* the checkpoint may be set back.  Where a block ends two epochs of a     *)
(* domain a page may end between the two and the next begins past them,    *)
(* so blocks that end at most one epoch are a hypothesis.                  *)
(***************************************************************************)
THEOREM PricesCompleteAlways == EpochsApart => (ApiSpec => PricesComplete)
<1> SUFFICES ASSUME EpochsApart PROVE ApiSpec => PricesComplete
    OBVIOUS
<1> DEFINE I == /\ TypeInv /\ FoundInv /\ HealthInv /\ PriceInv
                /\ FiniteInv /\ PageInv /\ DueInv
<1>1. ApiInit => I
    <2> SUFFICES ASSUME ApiInit PROVE I
        OBVIOUS
    <2>1. Init /\ list = "none" /\ cursor = 0 /\ got = {} /\ start = {} /\ disturbed = FALSE /\ health = 0
        BY DEF ApiInit
    <2>2. TypeInv /\ FoundInv /\ PriceInv
        BY <2>1, TypeInit, FoundInit, PriceInit
    <2>3. HealthInv
        BY <2>1, Bounds DEF HealthInv
    <2>4. FiniteInv
        <3>1. DOMAIN db.prices = {}
            BY <2>1 DEF Init, Empty
        <3> QED
            BY <3>1, FS_EmptySet DEF FiniteInv
    <2>5. PageInv /\ DueInv
        BY <2>1 DEF PageInv, DueInv, Tx
    <2> QED
        BY <2>2, <2>3, <2>4, <2>5
<1>2. I /\ [ApiNext]_apiVars => I'
    <2> SUFFICES ASSUME I, [ApiNext]_apiVars PROVE I'
        OBVIOUS
    <2>1. [Next]_vars
        BY ApiStep
    <2>2. TypeInv' /\ FoundInv' /\ PriceInv' /\ FiniteInv'
        BY <2>1, TypeNext, FoundNext, PriceNext, FiniteNext
    <2>3. HealthInv' /\ PageInv'
        BY HealthNext, PageNext
    <2>4. DueInv'
        BY DueNext
    <2> QED
        BY <2>2, <2>3, <2>4
<1>3. I /\ [ApiNext]_apiVars =>
        [(list \in PriceLists /\ Finish /\ ~degraded) =>
            \A h \in 1 .. health : \A i \in DOMAIN Events[h] :
                Events[h][i].kind = "epoch" /\ Operator \in Events[h][i].ops =>
                    [height |-> h, epoch |-> Events[h][i].n] \in got]_apiVars
    <2> SUFFICES ASSUME I, [ApiNext]_apiVars, list \in PriceLists, Finish, ~degraded,
                        NEW h \in 1 .. health, NEW i \in DOMAIN Events[h],
                        Events[h][i].kind = "epoch", Operator \in Events[h][i].ops
                 PROVE  [height |-> h, epoch |-> Events[h][i].n] \in got
        OBVIOUS
    <2>1. Due \subseteq got
        BY PricesCompleteStep
    <2>2. h \in Height
        BY Bounds DEF HealthInv, Height
    <2>3. PICK n \in Nat : n = Events[h][i].n
        BY <2>2, EventFields
    <2>4. InBlock(h, Pricing(Operator, n))
        BY <2>2, <2>3, EventsType DEF InBlock, Pricing
    <2>5. Price(h, n) \in Due
        BY <2>4, PriceRow DEF Due, Price
    <2> QED
        BY <2>1, <2>3, <2>5 DEF Price
<1> HIDE DEF I
<1> QED
    BY <1>1, <1>2, <1>3, PTL DEF ApiSpec, PricesComplete
=============================================================================
