------------------------ MODULE AlertPipelineProofs ------------------------
(***************************************************************************)
(* What the alerter tells of every block, for every block tree, every list *)
(* of events and accounts, and every schedule of its tasks.                *)
(***************************************************************************)
EXTENDS AlertPipeline, Lemmas, FiniteSetTheorems

\* The branches of the block tree (Lemmas).
LEMMA TreeIs ==
    /\ IsTree(Block, Genesis, Parent, Number)
    /\ Parent \in [Block -> Block]
    /\ \A b \in Block : Chain[b] = Branch(Block, Parent, b)
    /\ \A S : ParentClosed(S) <=> ClosedUnder(Parent, S)
BY TreeAssumption DEF IsTree, Chain, Branch, ParentClosed, ClosedUnder

LEMMA ChainClosed ==
    ASSUME NEW b \in Block
    PROVE  Chain[b] \subseteq Block /\ b \in Chain[b] /\ ParentClosed(Chain[b])
BY TreeIs, BranchClosed

LEMMA ChainTransitive ==
    ASSUME NEW b \in Block, NEW c \in Chain[b]
    PROVE  Chain[c] \subseteq Chain[b]
<1>1. c \in Block
    BY ChainClosed
<1> QED
    BY <1>1, TreeIs, BranchTransitive

LEMMA ChainNumber ==
    ASSUME NEW b \in Block, NEW c \in Chain[b], c # b
    PROVE  Number[c] < Number[b]
BY TreeIs, BranchNumber

LEMMA ChainComparable ==
    ASSUME NEW b \in Block, NEW c \in Chain[b], NEW d \in Chain[b]
    PROVE  c \in Chain[d] \/ d \in Chain[c]
<1>1. c \in Block /\ d \in Block
    BY ChainClosed
<1> QED
    BY <1>1, TreeIs, BranchComparable

\* A branch has at most one block at each height.
LEMMA ChainUnique ==
    ASSUME NEW b \in Block, NEW c \in Chain[b], NEW d \in Chain[b],
           Number[c] = Number[d]
    PROVE  c = d
<1>1. c \in Block /\ d \in Block
    BY ChainClosed
<1>2. Number[c] \in Nat /\ Number[d] \in Nat
    BY <1>1, TreeAssumption
<1>3. SUFFICES ASSUME c # d PROVE FALSE
    OBVIOUS
<1>4. Number[c] < Number[d] \/ Number[d] < Number[c]
    BY <1>1, <1>3, ChainComparable, ChainNumber
<1> QED
    BY <1>2, <1>4

-----------------------------------------------------------------------------
(***************************************************************************)
(* The blocks of a message.                                                *)
(***************************************************************************)
LEMMA NumberIs ==
    ASSUME NEW b \in Block
    PROVE  Number[b] \in Nat /\ Parent[b] \in Block
BY TreeAssumption

LEMMA ChainIn ==
    ASSUME NEW b \in Block, NEW c \in Chain[b]
    PROVE  c \in Block /\ Number[c] \in Nat /\ Number[c] <= Number[b]
<1>1. c \in Block
    BY ChainClosed
<1>2. Number[c] \in Nat /\ Number[b] \in Nat
    BY <1>1, NumberIs
<1>3. c # b => Number[c] < Number[b]
    BY ChainNumber
<1> QED
    BY <1>1, <1>2, <1>3

\* A branch has a block at each height up to its own.
LEMMA ChainHeights ==
    ASSUME NEW b \in Block, NEW n \in Nat, n <= Number[b]
    PROVE  \E c \in Chain[b] : Number[c] = n
<1>1. Number[b] \in Nat
    BY NumberIs
<1> DEFINE T == {m \in Nat : m <= Number[b] => \E c \in Chain[b] : Number[c] = Number[b] - m}
<1>2. 0 \in T
    <2>1. b \in Chain[b] /\ Number[b] = Number[b] - 0
        BY <1>1, ChainClosed
    <2> QED
        BY <2>1
<1>3. ASSUME NEW m \in Nat, m \in T PROVE m + 1 \in T
    <2>1. SUFFICES ASSUME m + 1 <= Number[b]
                   PROVE  \E c \in Chain[b] : Number[c] = Number[b] - (m + 1)
        OBVIOUS
    <2>2. PICK c \in Chain[b] : Number[c] = Number[b] - m
        BY <1>1, <1>3, <2>1
    <2>3. c \in Block /\ Number[c] # 0
        BY <1>1, <2>1, <2>2, ChainIn
    <2>4. Number[c] = Number[Parent[c]] + 1 /\ Number[Parent[c]] \in Nat
        BY <2>3, TreeAssumption, NumberIs
    <2>5. Parent[c] \in Chain[b]
        BY ChainClosed DEF ParentClosed
    <2>6. Number[Parent[c]] = Number[b] - (m + 1)
        BY <1>1, <2>2, <2>4
    <2> QED
        BY <2>5, <2>6
<1>4. Number[b] - n \in T
    <2> HIDE DEF T
    <2>1. Number[b] - n \in Nat
        BY <1>1
    <2> QED
        BY <1>2, <1>3, <2>1, NatClosed
<1>5. Number[b] - (Number[b] - n) = n /\ Number[b] - n <= Number[b]
    BY <1>1
<1> QED
    BY <1>4, <1>5

LEMMA GenesisBelow ==
    ASSUME NEW b \in Block
    PROVE  Genesis \in Chain[b]
<1>1. Number[b] \in Nat /\ 0 <= Number[b]
    BY NumberIs
<1>2. PICK c \in Chain[b] : Number[c] = 0
    BY <1>1, ChainHeights
<1>3. c = Genesis
    <2>1. c \in Block
        BY ChainIn
    <2>2. c # Genesis => Number[c] = Number[Parent[c]] + 1 /\ Number[Parent[c]] \in Nat
        BY <2>1, TreeAssumption, NumberIs
    <2> QED
        BY <1>2, <2>2
<1> QED
    BY <1>3

\* Two branches meet.
LEMMA MeetingIs ==
    ASSUME NEW a \in Block, NEW b \in Block
    PROVE  \E m : m \in Meeting(a, b)
<1> DEFINE shared == Chain[a] \cap Chain[b]
           T == {k \in Nat : \E c \in shared : Number[c] = Number[a] - k}
<1>1. Number[a] \in Nat
    BY NumberIs
<1>2. \A c \in shared : Number[c] \in Nat /\ Number[c] <= Number[a]
    BY ChainIn
<1>3. Number[a] \in T
    <2>1. Genesis \in shared /\ Number[Genesis] = Number[a] - Number[a]
        BY <1>1, GenesisBelow, TreeAssumption
    <2> QED
        BY <1>1, <2>1
<1>4. PICK k \in T : \A y \in T : k <= y
    <2>1. T \in SUBSET Nat /\ T # {}
        BY <1>3
    <2> HIDE DEF T
    <2> QED
        BY <2>1, LeastNat
<1>5. PICK c \in shared : Number[c] = Number[a] - k
    OBVIOUS
<1>6. ASSUME NEW d \in shared PROVE Number[d] <= Number[c]
    <2>1. Number[d] \in Nat /\ Number[d] <= Number[a]
        BY <1>2
    <2>2. Number[a] - Number[d] \in Nat /\ Number[d] = Number[a] - (Number[a] - Number[d])
        BY <1>1, <2>1
    <2>3. Number[a] - Number[d] \in T
        BY <2>2
    <2>4. k <= Number[a] - Number[d] /\ k \in Nat
        BY <1>4, <2>3
    <2> QED
        BY <1>1, <1>5, <2>1, <2>4
<1> QED
    BY <1>5, <1>6 DEF Meeting

\* The list of the enacted blocks has each of them, from the lowest on.
LEMMA EnactedListed ==
    ASSUME NEW a \in Block, NEW b \in Block
    PROVE  /\ EnactedInOrder(a, b) \in Seq(Block)
           /\ \A i, j \in DOMAIN EnactedInOrder(a, b) : i < j =>
                 Number[EnactedInOrder(a, b)[i]] < Number[EnactedInOrder(a, b)[j]]
           /\ ToSet(EnactedInOrder(a, b)) = Enacted(a, b)
<1>1. PICK m : m = CHOOSE c \in Meeting(a, b) : TRUE
    OBVIOUS
<1>2. m \in Meeting(a, b)
    BY <1>1, MeetingIs
<1>3. /\ m \in Chain[a] /\ m \in Chain[b]
      /\ \A c \in Chain[a] \cap Chain[b] : Number[c] <= Number[m]
    BY <1>2 DEF Meeting
<1>4. Number[m] \in Nat /\ Number[b] \in Nat /\ Number[m] <= Number[b] /\ m \in Block
    BY <1>3, ChainIn, NumberIs
<1>5. PICK low \in Nat : low = Number[m]
    BY <1>4
<1>6. PICK N \in Nat : N = Number[b] - low
    BY <1>4, <1>5
<1>7. PICK q : q = [i \in 1 .. N |-> CHOOSE c \in AtHeight(b, low + i) : TRUE]
    OBVIOUS
<1>8. EnactedInOrder(a, b) = q
    BY <1>1, <1>5, <1>6, <1>7 DEF EnactedInOrder
<1>9. ASSUME NEW i \in 1 .. N
      PROVE  q[i] \in Chain[b] /\ Number[q[i]] = low + i /\ q[i] \in Block
    <2>1. low + i \in Nat /\ low + i <= Number[b]
        BY <1>4, <1>5, <1>6
    <2>2. \E c : c \in AtHeight(b, low + i)
        BY <2>1, ChainHeights DEF AtHeight
    <2>3. q[i] \in AtHeight(b, low + i)
        BY <1>7, <2>2
    <2> QED
        BY <2>3, ChainIn DEF AtHeight
<1>10. DOMAIN q = 1 .. N /\ q \in Seq(Block)
    <2>1. q \in [1 .. N -> Block]
        <3>1. \A i \in 1 .. N : (CHOOSE c \in AtHeight(b, low + i) : TRUE) \in Block
            BY <1>7, <1>9
        <3> QED
            BY <1>7, <3>1
    <2> QED
        BY <2>1
<1>11. \A i, j \in DOMAIN q : i < j => Number[q[i]] < Number[q[j]]
    BY <1>9, <1>10
<1>12. ASSUME NEW i \in 1 .. N PROVE q[i] \in Enacted(a, b)
    <2>1. q[i] \in Chain[a] => low + i <= low
        BY <1>3, <1>5, <1>9
    <2> QED
        BY <1>9, <2>1 DEF Enacted
<1>13. ASSUME NEW c \in Enacted(a, b) PROVE \E i \in 1 .. N : q[i] = c
    <2>1. c \in Chain[b] /\ c \notin Chain[a] /\ c \in Block
        BY <1>13, ChainIn DEF Enacted
    <2>2. Number[c] \in Nat /\ Number[c] <= Number[b]
        BY <2>1, ChainIn
    <2>3. Number[c] > low
        <3>1. SUFFICES ASSUME Number[c] <= low PROVE FALSE
            BY <2>2
        <3>2. c \in Chain[m]
            <4>1. c \in Chain[m] \/ m \in Chain[c]
                BY <1>3, <2>1, ChainComparable
            <4>2. m \in Chain[c] => m = c
                <5>1. m \in Chain[c] /\ m # c => Number[m] < Number[c]
                    BY <2>1, ChainNumber
                <5> QED
                    BY <1>5, <2>2, <3>1, <5>1
            <4>3. m \in Chain[m]
                BY <1>4, ChainClosed
            <4> QED
                BY <4>1, <4>2, <4>3
        <3>3. Chain[m] \subseteq Chain[a]
            BY <1>3, ChainTransitive
        <3> QED
            BY <2>1, <3>2, <3>3
    <2>4. Number[c] - low \in 1 .. N
        BY <1>4, <1>6, <2>2, <2>3
    <2>5. low + (Number[c] - low) = Number[c]
        BY <2>2
    <2>6. q[Number[c] - low] \in Chain[b] /\ Number[q[Number[c] - low]] = Number[c]
        BY <1>9, <2>4, <2>5
    <2>7. q[Number[c] - low] = c
        BY <2>1, <2>6, ChainUnique, Zenon
    <2> QED
        BY <2>4, <2>7
<1>14. ToSet(q) = Enacted(a, b)
    BY <1>10, <1>12, <1>13 DEF ToSet
<1> QED
    BY <1>8, <1>10, <1>11, <1>14

-----------------------------------------------------------------------------
(***************************************************************************)
(* The alerts of a block.                                                  *)
(***************************************************************************)
LEMMA EventIs ==
    ASSUME NEW b \in Block
    PROVE  /\ Events[b] \in Seq(Event)
           /\ Len(Events[b]) \in Nat
           /\ DOMAIN Events[b] = 1 .. Len(Events[b])
           /\ \A i \in DOMAIN Events[b] : Events[b][i] \in Event
<1>1. Events[b] \in Seq(Event)
    BY WatcherAssumption
<1> QED
    BY <1>1

LEMMA ElementIs ==
    ASSUME NEW X, NEW s \in Seq(X), NEW i \in DOMAIN s
    PROVE  s[i] \in X
OBVIOUS

\* The last entry of an address.
LEMMA MappedIs ==
    ASSUME NEW R, NEW list \in Seq(R), NEW a \in Addresses(list)
    PROVE  \E i \in DOMAIN list :
              /\ Mapped(list, a) = list[i]
              /\ list[i].address = a
              /\ \A j \in DOMAIN list : j > i => list[j].address # a
<1> DEFINE at == {i \in DOMAIN list : list[i].address = a}
           T == {k \in Nat : \E i \in at : i = Len(list) - k}
<1>1. Len(list) \in Nat /\ DOMAIN list = 1 .. Len(list)
    OBVIOUS
<1>2. PICK i0 \in DOMAIN list : list[i0].address = a
    BY DEF Addresses
<1>3. Len(list) - i0 \in T
    <2>1. Len(list) - i0 \in Nat /\ i0 = Len(list) - (Len(list) - i0)
        BY <1>1
    <2> QED
        BY <1>2, <2>1
<1>4. PICK k \in T : \A y \in T : k <= y
    <2>1. T \in SUBSET Nat /\ T # {}
        BY <1>3
    <2> HIDE DEF T
    <2> QED
        BY <2>1, LeastNat
<1>5. PICK m \in at : m = Len(list) - k
    OBVIOUS
<1>6. ASSUME NEW j \in at PROVE m >= j
    <2>1. Len(list) - j \in Nat /\ j = Len(list) - (Len(list) - j)
        BY <1>1
    <2>2. Len(list) - j \in T
        BY <2>1
    <2>3. k <= Len(list) - j /\ k \in Nat
        BY <1>4, <2>2
    <2> QED
        BY <1>1, <1>5, <2>1, <2>3
<1>7. PICK h : h = Max(at)
    OBVIOUS
<1>8. h \in at /\ \A j \in at : h >= j
    BY <1>5, <1>6, <1>7 DEF Max
<1>9. Mapped(list, a) = list[h]
    BY <1>7 DEF Mapped
<1>10. \A j \in DOMAIN list : j > h => list[j].address # a
    <2>1. ASSUME NEW j \in DOMAIN list, j > h, list[j].address = a PROVE FALSE
        <3>1. h >= j /\ h \in Nat /\ j \in Nat
            BY <1>1, <1>8, <2>1
        <3> QED
            BY <2>1, <3>1
    <2> QED
        BY <2>1
<1> QED
    BY <1>8, <1>9, <1>10

\* The places in a block, in their order.
LEMMA InOrderIs ==
    ASSUME NEW b \in Block, NEW S \in SUBSET DOMAIN Events[b]
    PROVE  /\ InOrder(b, S) \in Seq(S)
           /\ \A i \in S : \E j \in 1 .. Len(InOrder(b, S)) : InOrder(b, S)[j] = i
           /\ \A i, j \in 1 .. Len(InOrder(b, S)) :
                 InOrder(b, S)[i] = InOrder(b, S)[j] => i = j
<1>1. PICK X : X = DOMAIN Events[b]
    OBVIOUS
<1>2. PICK n \in Nat : n = Len(Events[b]) /\ X = 1 .. n
    BY <1>1, EventIs
<1>3. PICK s : s = [i \in X |-> i]
    OBVIOUS
<1>4. s \in Seq(X) /\ Len(s) = n /\ \A i \in 1 .. n : s[i] = i
    BY <1>2, <1>3
<1>5. InOrder(b, S) = Among(s, S)
    BY <1>1, <1>3 DEF InOrder
<1>6. Among(s, S) \in Seq(S)
    <2>1. Among(s, S) \in Seq(X \cap S)
        BY <1>4, AmongType
    <2>2. X \cap S = S
        BY <1>1
    <2> QED
        BY <2>1, <2>2
<1>7. ASSUME NEW i \in S PROVE \E j \in 1 .. Len(Among(s, S)) : Among(s, S)[j] = i
    <2>1. i \in 1 .. Len(s) /\ s[i] = i
        BY <1>1, <1>2, <1>4
    <2>2. \E j \in 1 .. Len(Among(s, S)) : Among(s, S)[j] = s[i]
        BY <1>4, <1>7, <2>1, AmongHas
    <2> QED
        BY <2>1, <2>2
<1>8. \A i, j \in 1 .. Len(Among(s, S)) : Among(s, S)[i] = Among(s, S)[j] => i = j
    <2>1. \A i, j \in 1 .. Len(s) : s[i] = s[j] => i = j
        BY <1>4
    <2> QED
        BY <1>4, <2>1, AmongInjective
<1> QED
    BY <1>5, <1>6, <1>7, <1>8

\* An alert before it is addressed.
Plain ==
    [kind : Kinds \union {"LowBalance"}, event : Nat, name : Names,
     direction : {"", "Sender", "Receiver"}]

\* q holds one alert of kind k for each of the places of S, and no other.
Piece(q, k, S) ==
    /\ q \in Seq(Plain)
    /\ \A j \in 1 .. Len(q) : q[j].kind = k /\ q[j].event \in S
    /\ \A i \in S : \E j \in 1 .. Len(q) : q[j].event = i
    /\ \A i, j \in 1 .. Len(q) : q[i].event = q[j].event => i = j

LEMMA PlainIs ==
    ASSUME NEW k \in Kinds \union {"LowBalance"}, NEW i \in Nat, NEW nm \in Names,
           NEW d \in {"", "Sender", "Receiver"}
    PROVE  [kind |-> k, event |-> i, name |-> nm, direction |-> d] \in Plain
BY DEF Plain

LEMMA PieceIs ==
    ASSUME NEW b \in Block, NEW S \in SUBSET DOMAIN Events[b], NEW q, NEW k,
           q = [j \in DOMAIN InOrder(b, S) |-> q[j]],
           \A j \in DOMAIN InOrder(b, S) : /\ q[j] \in Plain
                                           /\ q[j].kind = k
                                           /\ q[j].event = InOrder(b, S)[j]
    PROVE  Piece(q, k, S)
<1>1. PICK at : at = InOrder(b, S)
    OBVIOUS
<1>2. /\ at \in Seq(S)
      /\ \A i \in S : \E j \in 1 .. Len(at) : at[j] = i
      /\ \A i, j \in 1 .. Len(at) : at[i] = at[j] => i = j
    BY <1>1, InOrderIs
<1>3. PICK n \in Nat : n = Len(at) /\ DOMAIN at = 1 .. n /\ \A j \in 1 .. n : at[j] \in S
    BY <1>2
<1>4. q = [j \in 1 .. n |-> q[j]] /\ \A j \in 1 .. n : q[j] \in Plain
    BY <1>1, <1>3
<1>5. q \in Seq(Plain) /\ Len(q) = n
    BY <1>4
<1>6. \A j \in 1 .. n : q[j].kind = k /\ q[j].event = at[j]
    BY <1>1, <1>3
<1>7. \A j \in 1 .. Len(q) : q[j].kind = k /\ q[j].event \in S
    BY <1>3, <1>5, <1>6
<1>8. \A i \in S : \E j \in 1 .. Len(q) : q[j].event = i
    <2>1. ASSUME NEW i \in S PROVE \E j \in 1 .. Len(q) : q[j].event = i
        <3>1. PICK j \in 1 .. Len(at) : at[j] = i
            BY <1>2
        <3>2. j \in 1 .. n
            BY <1>3, <3>1
        <3> QED
            BY <1>5, <1>6, <3>1, <3>2
    <2> QED
        BY <2>1
<1>9. ASSUME NEW i \in 1 .. Len(q), NEW j \in 1 .. Len(q), q[i].event = q[j].event
      PROVE  i = j
    <2>1. i \in 1 .. n /\ j \in 1 .. n
        BY <1>5
    <2>2. at[i] = at[j]
        BY <1>6, <1>9, <2>1
    <2> QED
        BY <1>2, <1>3, <2>1, <2>2
<1> QED
    BY <1>5, <1>7, <1>8, <1>9 DEF Piece

\* The kinds that are alerted whatever they say.
LEMMA AsEventsIs ==
    ASSUME NEW b \in Block, NEW k \in NotableKinds
    PROVE  Piece(as_events(b, k), k, find(b, k))
<1>1. PICK S : S = find(b, k)
    OBVIOUS
<1>2. S \in SUBSET DOMAIN Events[b]
    BY <1>1 DEF find
<1>3. PICK at : at = InOrder(b, S)
    OBVIOUS
<1>4. at \in Seq(S) /\ S \subseteq Nat
    <2>1. S \subseteq Nat
        BY <1>2, EventIs
    <2> QED
        BY <1>2, <1>3, <2>1, InOrderIs
<1>5. PICK q : q = [j \in DOMAIN at |->
                       [kind |-> k, event |-> at[j], name |-> "", direction |-> ""]]
    OBVIOUS
<1>6. q = as_events(b, k)
    BY <1>1, <1>3, <1>5 DEF as_events
<1>7. ASSUME NEW j \in DOMAIN at
      PROVE  q[j] \in Plain /\ q[j].kind = k /\ q[j].event = at[j]
    <2>1. at[j] \in S /\ at[j] \in Nat
        BY <1>4, ElementIs
    <2>2. k \in Kinds \union {"LowBalance"}
        BY DEF Kinds
    <2>3. "" \in Names
        BY DEF Names
    <2>4. [kind |-> k, event |-> at[j], name |-> "", direction |-> ""] \in Plain
        BY <2>1, <2>2, <2>3, PlainIs
    <2> QED
        BY <1>5, <2>4
<1>8. q = [j \in DOMAIN at |-> q[j]]
    BY <1>5
<1>9. Piece(q, k, S)
    BY <1>2, <1>3, <1>7, <1>8, PieceIs
<1> QED
    BY <1>1, <1>6, <1>9

\* The transfers that are worth an alert, and their names.
LEMMA KnownIsWorthy ==
    ASSUME NEW e \in Event, e.kind \in TransferKinds
    PROVE  Worthy(e) <=> Known(from(e)) # {} \/ Known(to(e)) # {}
<1>1. DOMAIN account_mapped_name = Addresses(Accounts)
    BY DEF account_mapped_name
<1>2. CASE e.kind = "Transfer"
    <2>1. from(e) = {e.who} /\ to(e) = {e.to}
        BY <1>2 DEF from, to
    <2> QED
        BY <1>1, <1>2, <2>1 DEF Worthy, Known, TransferKinds
<1>3. CASE e.kind = "Deposit"
    <2>1. from(e) = {} /\ to(e) = {e.who}
        BY <1>3 DEF from, to
    <2> QED
        BY <1>1, <1>3, <2>1 DEF Worthy, Known, TransferKinds
<1>4. CASE e.kind = "Withdraw"
    <2>1. from(e) = {e.who} /\ to(e) = {}
        BY <1>4 DEF from, to
    <2> QED
        BY <1>1, <1>4, <2>1 DEF Worthy, Known, TransferKinds
<1> QED
    BY <1>2, <1>3, <1>4 DEF TransferKinds

LEMMA KnownNamed ==
    ASSUME NEW A, Known(A) # {}, NEW k \in TransferKinds, NEW i \in Nat,
           NEW d \in {"Sender", "Receiver"}
    PROVE  /\ KnownAccountEvent(k, i, A, d) \in Plain
           /\ KnownAccountEvent(k, i, A, d).kind = k
           /\ KnownAccountEvent(k, i, A, d).event = i
<1>1. PICK a : a = CHOOSE x \in Known(A) : TRUE
    OBVIOUS
<1>2. a \in Known(A)
    BY <1>1
<1>3. a \in Addresses(Accounts)
    BY <1>2 DEF Known, account_mapped_name
<1>4. account_mapped_name[a] = Mapped(Accounts, a).name
    BY <1>3 DEF account_mapped_name
<1>5. Accounts \in Seq([name : STRING, address : Account])
    BY WatcherAssumption
<1>6. PICK m \in DOMAIN Accounts : Mapped(Accounts, a) = Accounts[m]
    BY <1>3, <1>5, MappedIs
<1>7. Accounts[m].name \in Names
    BY DEF Names
<1>8. account_mapped_name[a] \in Names
    BY <1>4, <1>6, <1>7
<1>9. PICK nm \in Names : nm = account_mapped_name[a]
    BY <1>8
<1>10. KnownAccountEvent(k, i, A, d) = [kind |-> k, event |-> i, direction |-> d, name |-> nm]
    BY <1>1, <1>9 DEF KnownAccountEvent
<1>11. k \in Kinds \union {"LowBalance"} /\ d \in {"", "Sender", "Receiver"}
    BY DEF Kinds
<1>12. [kind |-> k, event |-> i, name |-> nm, direction |-> d] \in Plain
    BY <1>11, PlainIs
<1>13. [kind |-> k, event |-> i, name |-> nm, direction |-> d]
           = [kind |-> k, event |-> i, direction |-> d, name |-> nm]
    OBVIOUS
<1> QED
    BY <1>10, <1>12, <1>13

Wanted(b, k) == {i \in find(b, k) : Worthy(Events[b][i])}

LEMMA FilterIs ==
    ASSUME NEW b \in Block, NEW k \in TransferKinds
    PROVE  Piece(filter_known_account_transfers(b, k), k, Wanted(b, k))
<1> DEFINE e(i) == Events[b][i]
<1>1. PICK S : S = {i \in find(b, k) : Known(from(e(i))) # {} \/ Known(to(e(i))) # {}}
    OBVIOUS
<1>2. S \in SUBSET DOMAIN Events[b] /\ \A i \in S : e(i) \in Event /\ e(i).kind = k
    BY <1>1, EventIs DEF find
<1>3. S = Wanted(b, k)
    <2>1. \A i \in find(b, k) : e(i) \in Event /\ e(i).kind \in TransferKinds
        BY EventIs DEF find
    <2>2. \A i \in find(b, k) : Worthy(e(i)) <=> Known(from(e(i))) # {} \/ Known(to(e(i))) # {}
        BY <2>1, KnownIsWorthy
    <2> QED
        BY <1>1, <2>2 DEF Wanted
<1>4. PICK at : at = InOrder(b, S)
    OBVIOUS
<1>5. at \in Seq(S) /\ S \subseteq Nat
    <2>1. S \subseteq Nat
        BY <1>2, EventIs
    <2> QED
        BY <1>2, <1>4, <2>1, InOrderIs
<1>6. PICK q : q = [j \in DOMAIN at |->
            IF Known(from(e(at[j]))) # {}
            THEN KnownAccountEvent(k, at[j], from(e(at[j])), "Sender")
            ELSE KnownAccountEvent(k, at[j], to(e(at[j])), "Receiver")]
    OBVIOUS
<1>7. q = filter_known_account_transfers(b, k)
    BY <1>1, <1>4, <1>6 DEF filter_known_account_transfers
<1>8. ASSUME NEW j \in DOMAIN at
      PROVE  q[j] \in Plain /\ q[j].kind = k /\ q[j].event = at[j]
    <2>1. at[j] \in S /\ at[j] \in Nat
        BY <1>5, ElementIs
    <2>2. Known(from(e(at[j]))) # {} \/ Known(to(e(at[j]))) # {}
        BY <1>1, <2>1
    <2>3. CASE Known(from(e(at[j]))) # {}
        <3>1. q[j] = KnownAccountEvent(k, at[j], from(e(at[j])), "Sender")
            BY <1>6, <2>3
        <3> QED
            BY <2>1, <2>3, <3>1, KnownNamed
    <2>4. CASE Known(from(e(at[j]))) = {}
        <3>1. q[j] = KnownAccountEvent(k, at[j], to(e(at[j])), "Receiver")
            BY <1>6, <2>4
        <3> QED
            BY <2>1, <2>2, <2>4, <3>1, KnownNamed
    <2> QED
        BY <2>3, <2>4
<1>9. q = [j \in DOMAIN at |-> q[j]]
    BY <1>6
<1>10. Piece(q, k, S)
    BY <1>2, <1>4, <1>8, <1>9, PieceIs
<1> QED
    BY <1>3, <1>7, <1>10

\* The checked accounts that are low, each by its first withdrawal.
Lows(b, failed) ==
    {i \in Charges(b) :
        /\ \A k \in Charges(b) : Events[b][k].who = Events[b][i].who => i <= k
        /\ Events[b][i].who \notin failed
        /\ Low(b, Events[b][i].who)}

LEMMA LowIs ==
    ASSUME NEW b \in Block, NEW failed
    PROVE  Piece(check_low_balances(b, failed), "LowBalance", Lows(b, failed))
<1>1. PICK S : S = Lows(b, failed)
    OBVIOUS
<1>2. /\ S \in SUBSET DOMAIN Events[b]
      /\ \A i \in S : Events[b][i].who \in Addresses(AccountBalanceAlerts)
    BY <1>1 DEF Lows, Charges, find, build_balance_alert_map
<1>3. PICK at : at = InOrder(b, S)
    OBVIOUS
<1>4. at \in Seq(S) /\ S \subseteq Nat
    <2>1. S \subseteq Nat
        BY <1>2, EventIs
    <2> QED
        BY <1>2, <1>3, <2>1, InOrderIs
<1>5. PICK q : q = [j \in DOMAIN at |->
        [kind |-> "LowBalance", event |-> at[j], direction |-> "",
         name |-> build_balance_alert_map[Events[b][at[j]].who].name]]
    OBVIOUS
<1>6. q = check_low_balances(b, failed)
    BY <1>1, <1>3, <1>5 DEF check_low_balances, LowBalanceEvents, Lows
<1>7. ASSUME NEW j \in DOMAIN at
      PROVE  q[j] \in Plain /\ q[j].kind = "LowBalance" /\ q[j].event = at[j]
    <2>1. at[j] \in S /\ at[j] \in Nat
        BY <1>4, ElementIs
    <2>2. PICK a : a = Events[b][at[j]].who
        OBVIOUS
    <2>3. a \in Addresses(AccountBalanceAlerts)
        BY <1>2, <2>1, <2>2
    <2>4. AccountBalanceAlerts \in
              Seq([name : STRING, address : Account, threshold_ai3 : Nat])
        BY WatcherAssumption
    <2>5. PICK m \in DOMAIN AccountBalanceAlerts :
              Mapped(AccountBalanceAlerts, a) = AccountBalanceAlerts[m]
        BY <2>3, <2>4, MappedIs
    <2>6. AccountBalanceAlerts[m].name \in Names
        BY DEF Names
    <2>7. build_balance_alert_map[a].name = AccountBalanceAlerts[m].name
        BY <2>3, <2>5 DEF build_balance_alert_map
    <2> QED
        BY <1>5, <2>1, <2>2, <2>6, <2>7, PlainIs
<1>8. q = [j \in DOMAIN at |-> q[j]]
    BY <1>5
<1>9. Piece(q, "LowBalance", S)
    BY <1>2, <1>3, <1>7, <1>8, PieceIs
<1> QED
    BY <1>1, <1>6, <1>9

\* q holds one alert for each place of F[k], of each kind k of K, and no other.
Pieces(q, K, F) ==
    /\ q \in Seq(Plain)
    /\ \A j \in 1 .. Len(q) : q[j].kind \in K /\ q[j].event \in F[q[j].kind]
    /\ \A k \in K : \A i \in F[k] : \E j \in 1 .. Len(q) : q[j].kind = k /\ q[j].event = i
    /\ \A i, j \in 1 .. Len(q) : q[i].kind = q[j].kind /\ q[i].event = q[j].event => i = j

LEMMA FirstPiece ==
    ASSUME NEW F, NEW k, NEW q, Piece(q, k, F[k])
    PROVE  Pieces(q, {k}, F)
BY DEF Piece, Pieces

LEMMA NextPiece ==
    ASSUME NEW F, NEW K, NEW k, k \notin K, NEW q, NEW r, Pieces(q, K, F), Piece(r, k, F[k])
    PROVE  Pieces(q \o r, K \union {k}, F)
<1>1. /\ q \in Seq(Plain)
      /\ \A j \in 1 .. Len(q) : q[j].kind \in K /\ q[j].event \in F[q[j].kind]
      /\ \A l \in K : \A i \in F[l] : \E j \in 1 .. Len(q) : q[j].kind = l /\ q[j].event = i
      /\ \A i, j \in 1 .. Len(q) :
            q[i].kind = q[j].kind /\ q[i].event = q[j].event => i = j
    BY DEF Pieces
<1>2. /\ r \in Seq(Plain)
      /\ \A j \in 1 .. Len(r) : r[j].kind = k /\ r[j].event \in F[k]
      /\ \A i \in F[k] : \E j \in 1 .. Len(r) : r[j].event = i
      /\ \A i, j \in 1 .. Len(r) : r[i].event = r[j].event => i = j
    BY DEF Piece
<1>3. PICK s : s = q \o r
    OBVIOUS
<1>4. /\ s \in Seq(Plain)
      /\ Len(s) = Len(q) + Len(r)
      /\ \A i \in 1 .. Len(q) : s[i] = q[i]
      /\ \A i \in 1 .. Len(r) : s[Len(q) + i] = r[i]
    BY <1>1, <1>2, <1>3, ConcatIs
<1>5. PICK m \in Nat, n \in Nat : m = Len(q) /\ n = Len(r)
    BY <1>1, <1>2
<1>6. ASSUME NEW j \in 1 .. Len(s)
      PROVE  j \in 1 .. m \/ \E i \in 1 .. n : j = m + i
    <2>1. j \in 1 .. m + n
        BY <1>4, <1>5
    <2>2. CASE j <= m
        BY <2>1, <2>2
    <2>3. CASE j > m
        <3>1. j - m \in 1 .. n /\ j = m + (j - m)
            BY <2>1, <2>3
        <3> QED
            BY <3>1
    <2> QED
        BY <2>1, <2>2, <2>3
<1>7. ASSUME NEW j \in 1 .. Len(s)
      PROVE  s[j].kind \in K \union {k} /\ s[j].event \in F[s[j].kind]
    <2>1. CASE j \in 1 .. m
        BY <1>1, <1>4, <1>5, <2>1
    <2>2. CASE \E i \in 1 .. n : j = m + i
        BY <1>2, <1>4, <1>5, <2>2
    <2> QED
        BY <1>6, <2>1, <2>2
<1>8. ASSUME NEW l \in K \union {k}, NEW i \in F[l]
      PROVE  \E j \in 1 .. Len(s) : s[j].kind = l /\ s[j].event = i
    <2>1. CASE l \in K
        <3>1. PICK j \in 1 .. Len(q) : q[j].kind = l /\ q[j].event = i
            BY <1>1, <2>1
        <3>2. j \in 1 .. Len(s) /\ s[j] = q[j]
            BY <1>4, <1>5, <3>1
        <3> QED
            BY <3>1, <3>2
    <2>2. CASE l = k
        <3>1. PICK j \in 1 .. Len(r) : r[j].event = i
            BY <1>2, <2>2
        <3>2. m + j \in 1 .. Len(s) /\ s[m + j] = r[j]
            BY <1>4, <1>5, <3>1
        <3>3. r[j].kind = l
            BY <1>2, <2>2, <3>1
        <3>4. s[m + j].kind = l /\ s[m + j].event = i
            BY <3>1, <3>2, <3>3, Zenon
        <3> QED
            BY <3>2, <3>4, Zenon
    <2> QED
        BY <2>1, <2>2
<1>9. ASSUME NEW i \in 1 .. Len(s), NEW j \in 1 .. Len(s),
             s[i].kind = s[j].kind, s[i].event = s[j].event
      PROVE  i = j
    <2>1. CASE i \in 1 .. m /\ j \in 1 .. m
        BY <1>1, <1>4, <1>5, <1>9, <2>1
    <2>2. CASE (\E x \in 1 .. n : i = m + x) /\ (\E y \in 1 .. n : j = m + y)
        <3>1. PICK x \in 1 .. n, y \in 1 .. n : i = m + x /\ j = m + y
            BY <2>2
        <3>2. s[i] = r[x] /\ s[j] = r[y]
            BY <1>4, <1>5, <3>1
        <3>3. x = y
            BY <1>2, <1>5, <1>9, <3>2
        <3> QED
            BY <3>1, <3>3
    <2>3. CASE i \in 1 .. m /\ (\E y \in 1 .. n : j = m + y)
        <3>1. s[i].kind \in K /\ s[j].kind = k
            BY <1>1, <1>2, <1>4, <1>5, <2>3
        <3> QED
            BY <1>9, <3>1
    <2>4. CASE j \in 1 .. m /\ (\E y \in 1 .. n : i = m + y)
        <3>1. s[j].kind \in K /\ s[i].kind = k
            BY <1>1, <1>2, <1>4, <1>5, <2>4
        <3> QED
            BY <1>9, <3>1
    <2> QED
        BY <1>6, <2>1, <2>2, <2>3, <2>4
<1>10. Pieces(s, K \union {k}, F)
    BY <1>4, <1>7, <1>8, <1>9 DEF Pieces
<1> QED
    BY <1>3, <1>10

\* What a block has to be told of, by the kind of the alert.
Due(b, failed) ==
    [k \in Kinds \union {"LowBalance"} |->
        IF k = "LowBalance" THEN Lows(b, failed) ELSE Wanted(b, k)]

LEMMA DueIs ==
    ASSUME NEW b \in Block, NEW failed
    PROVE  /\ \A k \in TransferKinds :
                 Piece(filter_known_account_transfers(b, k), k, Due(b, failed)[k])
           /\ Piece(check_low_balances(b, failed), "LowBalance", Due(b, failed)["LowBalance"])
           /\ \A k \in NotableKinds : Piece(as_events(b, k), k, Due(b, failed)[k])
<1>1. "LowBalance" \notin Kinds
    BY DEF Kinds, TransferKinds, NotableKinds
<1>2. /\ \A k \in Kinds : Due(b, failed)[k] = Wanted(b, k)
      /\ Due(b, failed)["LowBalance"] = Lows(b, failed)
    BY <1>1 DEF Due
<1>3. ASSUME NEW k \in NotableKinds PROVE find(b, k) = Wanted(b, k)
    <2>1. k \notin TransferKinds
        BY DEF NotableKinds, TransferKinds
    <2> QED
        BY <2>1 DEF find, Wanted, Worthy
<1>4. ASSUME NEW k \in TransferKinds
      PROVE  Piece(filter_known_account_transfers(b, k), k, Due(b, failed)[k])
    <2>1. Due(b, failed)[k] = Wanted(b, k)
        BY <1>2 DEF Kinds
    <2> QED
        BY <2>1, FilterIs
<1>5. ASSUME NEW k \in NotableKinds PROVE Piece(as_events(b, k), k, Due(b, failed)[k])
    <2>1. Due(b, failed)[k] = find(b, k)
        BY <1>2, <1>3 DEF Kinds
    <2> QED
        BY <2>1, AsEventsIs
<1>6. Piece(check_low_balances(b, failed), "LowBalance", Due(b, failed)["LowBalance"])
    BY <1>2, LowIs
<1> QED
    BY <1>4, <1>5, <1>6

LEMMA AlertsOfIs ==
    ASSUME NEW b \in Block, NEW failed
    PROVE  Pieces(AlertsOf(b, failed), Kinds \union {"LowBalance"}, Due(b, failed))
<1>0. PICK F : F = Due(b, failed)
    OBVIOUS
<1>1. /\ \A k \in TransferKinds : Piece(filter_known_account_transfers(b, k), k, F[k])
      /\ Piece(check_low_balances(b, failed), "LowBalance", F["LowBalance"])
      /\ \A k \in NotableKinds : Piece(as_events(b, k), k, F[k])
    BY <1>0, DueIs
<1>2. PICK t1, t2, t3 : /\ t1 = filter_known_account_transfers(b, "Transfer")
                        /\ t2 = filter_known_account_transfers(b, "Deposit")
                        /\ t3 = filter_known_account_transfers(b, "Withdraw")
    OBVIOUS
<1>3. PICK lw : lw = check_low_balances(b, failed)
    OBVIOUS
<1>4. PICK n1, n2, n3, n4, n5, n6, n7 :
          /\ n1 = as_events(b, "DomainRuntimeUpgraded")
          /\ n2 = as_events(b, "DomainInstantiated")
          /\ n3 = as_events(b, "FraudProofProcessed")
          /\ n4 = as_events(b, "OperatorSlashed")
          /\ n5 = as_events(b, "OperatorOffline")
          /\ n6 = as_events(b, "Sudo")
          /\ n7 = as_events(b, "CodeUpdated")
    OBVIOUS
<1>5. /\ Piece(t1, "Transfer", F["Transfer"])
      /\ Piece(t2, "Deposit", F["Deposit"])
      /\ Piece(t3, "Withdraw", F["Withdraw"])
    BY <1>1, <1>2 DEF TransferKinds
<1>6. Piece(lw, "LowBalance", F["LowBalance"])
    BY <1>1, <1>3
<1>7. /\ Piece(n1, "DomainRuntimeUpgraded", F["DomainRuntimeUpgraded"])
      /\ Piece(n2, "DomainInstantiated", F["DomainInstantiated"])
      /\ Piece(n3, "FraudProofProcessed", F["FraudProofProcessed"])
      /\ Piece(n4, "OperatorSlashed", F["OperatorSlashed"])
      /\ Piece(n5, "OperatorOffline", F["OperatorOffline"])
      /\ Piece(n6, "Sudo", F["Sudo"])
      /\ Piece(n7, "CodeUpdated", F["CodeUpdated"])
    <2>1. /\ "DomainRuntimeUpgraded" \in NotableKinds /\ "DomainInstantiated" \in NotableKinds
          /\ "FraudProofProcessed" \in NotableKinds /\ "OperatorSlashed" \in NotableKinds
          /\ "OperatorOffline" \in NotableKinds /\ "Sudo" \in NotableKinds
          /\ "CodeUpdated" \in NotableKinds
        BY DEF NotableKinds
    <2> QED
        BY <1>1, <1>4, <2>1
<1>8. AlertsOf(b, failed)
          = t1 \o t2 \o t3 \o lw \o n1 \o n2 \o n3 \o n4 \o n5 \o n6 \o n7
    BY <1>2, <1>3, <1>4 DEF AlertsOf
<1>9. PICK q2, q3, q4, q5, q6 :
          q2 = t1 \o t2 /\ q3 = q2 \o t3 /\ q4 = q3 \o lw /\ q5 = q4 \o n1 /\ q6 = q5 \o n2
    OBVIOUS
<1>10. PICK q7, q8, q9, q10, q11 :
          q7 = q6 \o n3 /\ q8 = q7 \o n4 /\ q9 = q8 \o n5 /\ q10 = q9 \o n6 /\ q11 = q10 \o n7
    OBVIOUS
<1>11. PICK K1, K2, K3, K4, K5, K6 :
          /\ K1 = {"Transfer"} /\ K2 = K1 \union {"Deposit"} /\ K3 = K2 \union {"Withdraw"}
          /\ K4 = K3 \union {"LowBalance"} /\ K5 = K4 \union {"DomainRuntimeUpgraded"}
          /\ K6 = K5 \union {"DomainInstantiated"}
    OBVIOUS
<1>12. PICK K7, K8, K9, K10, K11 :
          /\ K7 = K6 \union {"FraudProofProcessed"} /\ K8 = K7 \union {"OperatorSlashed"}
          /\ K9 = K8 \union {"OperatorOffline"} /\ K10 = K9 \union {"Sudo"}
          /\ K11 = K10 \union {"CodeUpdated"}
    OBVIOUS
<1>13. /\ "Deposit" \notin K1 /\ "Withdraw" \notin K2 /\ "LowBalance" \notin K3
       /\ "DomainRuntimeUpgraded" \notin K4 /\ "DomainInstantiated" \notin K5
    BY <1>11
<1>14. /\ "FraudProofProcessed" \notin K6 /\ "OperatorSlashed" \notin K7
       /\ "OperatorOffline" \notin K8 /\ "Sudo" \notin K9 /\ "CodeUpdated" \notin K10
    BY <1>11, <1>12
<1>15. Pieces(t1, K1, F)
    BY <1>5, <1>11, FirstPiece
<1>16. Pieces(q2, K2, F)
    BY <1>5, <1>9, <1>11, <1>13, <1>15, NextPiece
<1>17. Pieces(q3, K3, F)
    BY <1>5, <1>9, <1>11, <1>13, <1>16, NextPiece
<1>18. Pieces(q4, K4, F)
    BY <1>6, <1>9, <1>11, <1>13, <1>17, NextPiece
<1>19. Pieces(q5, K5, F)
    BY <1>7, <1>9, <1>11, <1>13, <1>18, NextPiece
<1>20. Pieces(q6, K6, F)
    BY <1>7, <1>9, <1>11, <1>13, <1>19, NextPiece
<1>21. Pieces(q7, K7, F)
    BY <1>7, <1>10, <1>12, <1>14, <1>20, NextPiece
<1>22. Pieces(q8, K8, F)
    BY <1>7, <1>10, <1>12, <1>14, <1>21, NextPiece
<1>23. Pieces(q9, K9, F)
    BY <1>7, <1>10, <1>12, <1>14, <1>22, NextPiece
<1>24. Pieces(q10, K10, F)
    BY <1>7, <1>10, <1>12, <1>14, <1>23, NextPiece
<1>25. Pieces(q11, K11, F)
    BY <1>7, <1>10, <1>12, <1>14, <1>24, NextPiece
<1>26. K11 = Kinds \union {"LowBalance"}
    <2>1. K6 = TransferKinds \union {"LowBalance", "DomainRuntimeUpgraded", "DomainInstantiated"}
        BY <1>11 DEF TransferKinds
    <2>2. K11 = K6 \union {"FraudProofProcessed", "OperatorSlashed", "OperatorOffline", "Sudo",
                           "CodeUpdated"}
        BY <1>12
    <2> QED
        BY <2>1, <2>2 DEF Kinds, NotableKinds
<1>27. AlertsOf(b, failed) = q11
    BY <1>8, <1>9, <1>10
<1> QED
    BY <1>0, <1>25, <1>26, <1>27

\* The threshold of an account is that of its last entry.
LEMMA LowMeans ==
    ASSUME NEW b \in Block, NEW a \in Addresses(AccountBalanceAlerts)
    PROVE  Low(b, a) <=>
              /\ Balance[b][a] # NoAccount
              /\ \E i \in DOMAIN AccountBalanceAlerts :
                    /\ AccountBalanceAlerts[i].address = a
                    /\ \A j \in DOMAIN AccountBalanceAlerts :
                          j > i => AccountBalanceAlerts[j].address # a
                    /\ Balance[b][a] < AccountBalanceAlerts[i].threshold_ai3 * 10 ^ TokenDecimals
<1>1. PICK list : list = AccountBalanceAlerts
    OBVIOUS
<1>2. list \in Seq([name : STRING, address : Account, threshold_ai3 : Nat])
    BY <1>1, WatcherAssumption
<1>3. PICK m \in DOMAIN list :
          /\ Mapped(list, a) = list[m]
          /\ list[m].address = a
          /\ \A j \in DOMAIN list : j > m => list[j].address # a
    BY <1>1, <1>2, MappedIs
<1>4. build_balance_alert_map[a].threshold = list[m].threshold_ai3 * 10 ^ TokenDecimals
    BY <1>1, <1>3 DEF build_balance_alert_map
<1>5. ASSUME NEW i \in DOMAIN list, list[i].address = a,
             \A j \in DOMAIN list : j > i => list[j].address # a
      PROVE  i = m
    <2>1. i \in Nat /\ m \in Nat
        BY <1>2
    <2>2. ~(i > m) /\ ~(m > i)
        BY <1>3, <1>5
    <2> QED
        BY <2>1, <2>2
<1>6. PICK B, G : B = Balance[b][a] /\ G = build_balance_alert_map[a].threshold
    OBVIOUS
<1>7. Low(b, a) <=> B # NoAccount /\ B < G
    BY <1>6 DEF Low
<1>8. ASSUME NEW i \in DOMAIN list, list[i].address = a,
             \A j \in DOMAIN list : j > i => list[j].address # a,
             B < list[i].threshold_ai3 * 10 ^ TokenDecimals
      PROVE  B < G
    BY <1>4, <1>5, <1>6, <1>8
<1>9. B < G => B < list[m].threshold_ai3 * 10 ^ TokenDecimals
    BY <1>4, <1>6
<1>10. B < G <=> \E i \in DOMAIN list :
                    /\ list[i].address = a
                    /\ \A j \in DOMAIN list : j > i => list[j].address # a
                    /\ B < list[i].threshold_ai3 * 10 ^ TokenDecimals
    BY <1>3, <1>8, <1>9
<1> QED
    BY <1>1, <1>6, <1>7, <1>10

\* What an alert says of block b is so.
Deserved(b, x) ==
    /\ x.event \in DOMAIN Events[b]
    /\ IF x.kind = "LowBalance" THEN LowIn(b, Events[b][x.event].who)
       ELSE Worthy(Events[b][x.event]) /\ x.kind = Events[b][x.event].kind

LEMMA LowsAreLow ==
    ASSUME NEW b \in Block, NEW failed, NEW i \in Lows(b, failed)
    PROVE  /\ i \in DOMAIN Events[b]
           /\ LowIn(b, Events[b][i].who)
           /\ Events[b][i].who \notin failed
<1>1. /\ i \in DOMAIN Events[b] /\ Events[b][i].kind = "Withdraw"
      /\ Events[b][i].who \in Addresses(AccountBalanceAlerts)
      /\ Events[b][i].who \notin failed
      /\ Low(b, Events[b][i].who)
    BY DEF Lows, Charges, find, build_balance_alert_map
<1>2. PICK a : a = Events[b][i].who
    OBVIOUS
<1>3. a \in Addresses(AccountBalanceAlerts) /\ Low(b, a)
    BY <1>1, <1>2
<1>4. /\ Balance[b][a] # NoAccount
      /\ \E k \in DOMAIN AccountBalanceAlerts :
            /\ AccountBalanceAlerts[k].address = a
            /\ \A j \in DOMAIN AccountBalanceAlerts :
                  j > k => AccountBalanceAlerts[j].address # a
            /\ Balance[b][a] < AccountBalanceAlerts[k].threshold_ai3 * 10 ^ TokenDecimals
    BY <1>3, LowMeans
<1>5. \E k \in DOMAIN Events[b] : Events[b][k].kind = "Withdraw" /\ Events[b][k].who = a
    BY <1>1, <1>2
<1>6. LowIn(b, a)
    BY <1>4, <1>5 DEF LowIn
<1> QED
    BY <1>1, <1>2, <1>6

\* An account that is low is found, at one place.
LEMMA LowIsFound ==
    ASSUME NEW b \in Block, NEW failed, NEW a, a \notin failed, LowIn(b, a)
    PROVE  /\ \E i \in Lows(b, failed) : Events[b][i].who = a
           /\ \A i, j \in Lows(b, failed) :
                 Events[b][i].who = a /\ Events[b][j].who = a => i = j
<1>1. PICK i0 \in DOMAIN Events[b] : Events[b][i0].kind = "Withdraw" /\ Events[b][i0].who = a
    BY DEF LowIn
<1>2. /\ Balance[b][a] # NoAccount
      /\ \E k \in DOMAIN AccountBalanceAlerts :
            /\ AccountBalanceAlerts[k].address = a
            /\ \A j \in DOMAIN AccountBalanceAlerts :
                  j > k => AccountBalanceAlerts[j].address # a
            /\ Balance[b][a] < AccountBalanceAlerts[k].threshold_ai3 * 10 ^ TokenDecimals
    BY DEF LowIn
<1>3. a \in Addresses(AccountBalanceAlerts)
    BY <1>2 DEF Addresses
<1>4. Low(b, a)
    BY <1>2, <1>3, LowMeans
<1> DEFINE T == {i \in Charges(b) : Events[b][i].who = a}
<1>5. T \in SUBSET Nat
    <2>1. DOMAIN Events[b] \subseteq Nat
        BY EventIs
    <2> QED
        BY <2>1 DEF Charges, find
<1>6. i0 \in T
    BY <1>1, <1>3 DEF Charges, find, build_balance_alert_map
<1>7. PICK m \in T : \A y \in T : m <= y
    <2>1. T # {}
        BY <1>6
    <2> HIDE DEF T
    <2> QED
        BY <1>5, <2>1, LeastNat
<1>8. m \in Lows(b, failed)
    BY <1>4, <1>7 DEF Lows
<1>9. ASSUME NEW i \in Lows(b, failed), NEW j \in Lows(b, failed),
             Events[b][i].who = a, Events[b][j].who = a
      PROVE  i = j
    <2>1. i <= j /\ j <= i
        BY <1>9 DEF Lows
    <2>2. i \in T /\ j \in T
        BY <1>9 DEF Lows
    <2>3. i \in Nat /\ j \in Nat
        BY <1>5, <2>2
    <2> QED
        BY <2>1, <2>3
<1> QED
    BY <1>7, <1>8, <1>9

\* A block is read: what is put into the outbox.
Out(n, b, failed) ==
    [i \in DOMAIN AlertsOf(b, failed) |-> Alert(n, b, AlertsOf(b, failed)[i])]

LEMMA AlertIs ==
    ASSUME NEW n \in Nat, NEW b \in Block, NEW x \in Plain
    PROVE  /\ Alert(n, b, x) \in AnyAlert
           /\ Alert(n, b, x).message = n /\ Alert(n, b, x).block = b
           /\ Alert(n, b, x).kind = x.kind /\ Alert(n, b, x).event = x.event
BY DEF Alert, AnyAlert, Plain

LEMMA OutIs ==
    ASSUME NEW n \in Nat, NEW b \in Block, NEW failed
    PROVE  /\ Out(n, b, failed) \in Seq(AnyAlert)
           /\ Len(Out(n, b, failed)) = Len(AlertsOf(b, failed))
           /\ Len(AlertsOf(b, failed)) \in Nat
           /\ \A j \in 1 .. Len(AlertsOf(b, failed)) :
                 /\ AlertsOf(b, failed)[j] \in Plain
                 /\ Out(n, b, failed)[j].message = n
                 /\ Out(n, b, failed)[j].block = b
                 /\ Out(n, b, failed)[j].kind = AlertsOf(b, failed)[j].kind
                 /\ Out(n, b, failed)[j].event = AlertsOf(b, failed)[j].event
<1>1. PICK q : q = AlertsOf(b, failed)
    OBVIOUS
<1>2. q \in Seq(Plain)
    BY <1>1, AlertsOfIs DEF Pieces
<1>3. PICK m \in Nat : m = Len(q) /\ DOMAIN q = 1 .. m /\ \A j \in 1 .. m : q[j] \in Plain
    BY <1>2
<1>4. PICK r : r = [i \in 1 .. m |-> Alert(n, b, q[i])]
    OBVIOUS
<1>5. r = Out(n, b, failed)
    BY <1>1, <1>3, <1>4 DEF Out
<1>6. ASSUME NEW j \in 1 .. m
      PROVE  /\ r[j] \in AnyAlert
             /\ r[j].message = n /\ r[j].block = b
             /\ r[j].kind = q[j].kind /\ r[j].event = q[j].event
    <2>1. r[j] = Alert(n, b, q[j]) /\ q[j] \in Plain
        BY <1>3, <1>4
    <2> QED
        BY <2>1, AlertIs
<1>7. r \in [1 .. m -> AnyAlert]
    <2>1. r = [i \in 1 .. m |-> r[i]]
        BY <1>4
    <2> QED
        BY <1>6, <2>1
<1>8. r \in Seq(AnyAlert) /\ Len(r) = m
    BY <1>7
<1> QED
    BY <1>1, <1>3, <1>5, <1>6, <1>8

LEMMA DueMeans ==
    ASSUME NEW b \in Block, NEW failed
    PROVE  /\ Due(b, failed)["LowBalance"] = Lows(b, failed)
           /\ \A k \in Kinds : \A i : i \in Due(b, failed)[k] <=>
                 /\ i \in DOMAIN Events[b] /\ Events[b][i].kind = k /\ Worthy(Events[b][i])
<1>1. "LowBalance" \notin Kinds
    BY DEF Kinds, TransferKinds, NotableKinds
<1>2. /\ Due(b, failed)["LowBalance"] = Lows(b, failed)
      /\ \A k \in Kinds : Due(b, failed)[k] = Wanted(b, k)
    BY <1>1 DEF Due
<1> QED
    BY <1>2 DEF Wanted, find

\* Every alert of a block is deserved.
LEMMA OutDeserved ==
    ASSUME NEW n \in Nat, NEW b \in Block, NEW failed,
           NEW j \in 1 .. Len(Out(n, b, failed))
    PROVE  Deserved(b, Out(n, b, failed)[j])
<1>1. PICK q : q = AlertsOf(b, failed)
    OBVIOUS
<1>2. PICK x : x = Out(n, b, failed)[j]
    OBVIOUS
<1>3. j \in 1 .. Len(q) /\ x.kind = q[j].kind /\ x.event = q[j].event
    BY <1>1, <1>2, OutIs
<1>4. Pieces(q, Kinds \union {"LowBalance"}, Due(b, failed))
    BY <1>1, AlertsOfIs
<1>5. q[j].kind \in Kinds \union {"LowBalance"} /\ q[j].event \in Due(b, failed)[q[j].kind]
    BY <1>3, <1>4 DEF Pieces
<1>6. CASE x.kind = "LowBalance"
    <2>1. x.event \in Lows(b, failed)
        BY <1>3, <1>5, <1>6, DueMeans
    <2>2. x.event \in DOMAIN Events[b] /\ LowIn(b, Events[b][x.event].who)
        BY <2>1, LowsAreLow
    <2> QED
        BY <1>2, <1>6, <2>2 DEF Deserved
<1>7. CASE x.kind # "LowBalance"
    <2>1. x.kind \in Kinds /\ x.event \in Due(b, failed)[x.kind]
        BY <1>3, <1>5, <1>7
    <2>2. /\ x.event \in DOMAIN Events[b] /\ Events[b][x.event].kind = x.kind
          /\ Worthy(Events[b][x.event])
        BY <2>1, DueMeans
    <2> QED
        BY <1>2, <1>7, <2>2 DEF Deserved
<1> QED
    BY <1>6, <1>7

\* An event that is worth it has one alert of its own.
LEMMA OutTellsEvent ==
    ASSUME NEW n \in Nat \ {0}, NEW b \in Block, NEW failed,
           NEW i \in DOMAIN Events[b], Worthy(Events[b][i])
    PROVE  Times(Out(n, b, failed), EventAlerts(<<n, b>>, i)) = 1
<1>1. PICK q : q = AlertsOf(b, failed)
    OBVIOUS
<1>2. PICK r : r = Out(n, b, failed)
    OBVIOUS
<1>3. PICK S : S = EventAlerts(<<n, b>>, i)
    OBVIOUS
<1>4. n \in Nat /\ n # 0
    OBVIOUS
<1>5. /\ r \in Seq(AnyAlert) /\ Len(r) = Len(q)
      /\ \A j \in 1 .. Len(q) : /\ r[j].message = n /\ r[j].block = b
                                /\ r[j].kind = q[j].kind /\ r[j].event = q[j].event
    BY <1>1, <1>2, <1>4, OutIs
<1>6. Pieces(q, Kinds \union {"LowBalance"}, Due(b, failed))
    BY <1>1, AlertsOfIs
<1>7. PICK k \in Kinds : k = Events[b][i].kind
    BY EventIs DEF Event
<1>8. "LowBalance" \notin Kinds
    BY DEF Kinds, TransferKinds, NotableKinds
<1>9. i \in Due(b, failed)[k]
    BY <1>7, DueMeans
<1>10. PICK j \in 1 .. Len(q) : q[j].kind = k /\ q[j].event = i
    BY <1>6, <1>9 DEF Pieces
<1>11. ASSUME NEW l \in 1 .. Len(q) PROVE r[l] \in S <=> q[l].event = i /\ q[l].kind # "LowBalance"
    <2>1. r[l] \in AnyAlert
        BY <1>5
    <2> QED
        BY <1>3, <1>4, <1>5, <2>1 DEF EventAlerts, Of
<1>12. r[j] \in S
    BY <1>7, <1>8, <1>10, <1>11
<1>13. ASSUME NEW l \in 1 .. Len(r), r[l] \in S PROVE l = j
    <2>1. l \in 1 .. Len(q) /\ q[l].event = i /\ q[l].kind # "LowBalance"
        BY <1>5, <1>11, <1>13
    <2>2. q[l].kind \in Kinds /\ q[l].event \in Due(b, failed)[q[l].kind]
        BY <1>6, <2>1 DEF Pieces
    <2>3. q[l].kind = k
        BY <1>7, <2>1, <2>2, DueMeans
    <2> QED
        BY <1>6, <1>10, <2>1, <2>3 DEF Pieces
<1>14. Len(Among(r, S)) = 1
    BY <1>5, <1>10, <1>12, <1>13, CountOne
<1> QED
    BY <1>2, <1>3, <1>14 DEF Times

\* An account that is low, and whose balance was read, has one alert.
LEMMA OutTellsLow ==
    ASSUME NEW n \in Nat \ {0}, NEW b \in Block, NEW failed,
           NEW a, a \notin failed, LowIn(b, a)
    PROVE  Times(Out(n, b, failed), LowAlerts(<<n, b>>, a)) = 1
<1>1. PICK q : q = AlertsOf(b, failed)
    OBVIOUS
<1>2. PICK r : r = Out(n, b, failed)
    OBVIOUS
<1>3. PICK S : S = LowAlerts(<<n, b>>, a)
    OBVIOUS
<1>4. n \in Nat /\ n # 0
    OBVIOUS
<1>5. /\ r \in Seq(AnyAlert) /\ Len(r) = Len(q)
      /\ \A j \in 1 .. Len(q) : /\ r[j].message = n /\ r[j].block = b
                                /\ r[j].kind = q[j].kind /\ r[j].event = q[j].event
    BY <1>1, <1>2, <1>4, OutIs
<1>6. Pieces(q, Kinds \union {"LowBalance"}, Due(b, failed))
    BY <1>1, AlertsOfIs
<1>7. PICK i \in Lows(b, failed) : Events[b][i].who = a
    BY LowIsFound
<1>8. \A k \in Lows(b, failed) : Events[b][k].who = a => k = i
    BY <1>7, LowIsFound
<1>9. i \in Due(b, failed)["LowBalance"]
    BY <1>7, DueMeans
<1>10. PICK j \in 1 .. Len(q) : q[j].kind = "LowBalance" /\ q[j].event = i
    BY <1>6, <1>9 DEF Pieces
<1>11. ASSUME NEW l \in 1 .. Len(q)
       PROVE  r[l] \in S <=> q[l].kind = "LowBalance" /\ Events[b][q[l].event].who = a
    <2>1. r[l] \in AnyAlert
        BY <1>5
    <2>2. r[l] \in S <=> /\ r[l].message # 0 /\ Of(<<n, b>>, r[l]) /\ r[l].kind = "LowBalance"
                         /\ Events[b][r[l].event].who = a
        BY <1>3, <2>1 DEF LowAlerts
    <2> QED
        BY <1>4, <1>5, <2>2 DEF Of
<1>12. r[j] \in S
    BY <1>7, <1>10, <1>11
<1>13. ASSUME NEW l \in 1 .. Len(r), r[l] \in S PROVE l = j
    <2>1. l \in 1 .. Len(q) /\ q[l].kind = "LowBalance" /\ Events[b][q[l].event].who = a
        BY <1>5, <1>11, <1>13
    <2>2. q[l].event \in Due(b, failed)["LowBalance"]
        BY <1>6, <2>1 DEF Pieces
    <2>3. q[l].event = i
        BY <1>8, <2>1, <2>2, DueMeans
    <2> QED
        BY <1>6, <1>10, <2>1, <2>3 DEF Pieces
<1>14. Len(Among(r, S)) = 1
    BY <1>5, <1>10, <1>12, <1>13, CountOne
<1> QED
    BY <1>2, <1>3, <1>14 DEF Times

-----------------------------------------------------------------------------
(***************************************************************************)
(* Sequences that are sorted by a relation R, and the sets of their        *)
(* elements.                                                               *)
(***************************************************************************)
SortedBy(s, R) == \A i, j \in DOMAIN s : i < j => <<s[i], s[j]>> \in R

LEMMA SetEmpty == ToSet(<<>>) = {}
BY DEF ToSet

LEMMA SetOne ==
    ASSUME NEW x
    PROVE  ToSet(<<x>>) = {x}
BY DEF ToSet

LEMMA SetAppend ==
    ASSUME NEW X, NEW s \in Seq(X), NEW x \in X
    PROVE  Append(s, x) \in Seq(X) /\ ToSet(Append(s, x)) = ToSet(s) \union {x}
<1>1. PICK r : r = Append(s, x)
    OBVIOUS
<1>2. PICK n \in Nat : n = Len(s) /\ DOMAIN s = 1 .. n
    OBVIOUS
<1>3. /\ r \in Seq(X) /\ DOMAIN r = 1 .. n + 1 /\ r[n + 1] = x
      /\ \A i \in 1 .. n : r[i] = s[i]
    BY <1>1, <1>2
<1>4. ASSUME NEW y PROVE y \in ToSet(r) <=> y \in ToSet(s) \/ y = x
    <2>1. y \in ToSet(r) <=> \E i \in 1 .. n + 1 : r[i] = y
        BY <1>3 DEF ToSet
    <2>2. y \in ToSet(s) <=> \E i \in 1 .. n : s[i] = y
        BY <1>2 DEF ToSet
    <2>3. \A i : i \in 1 .. n + 1 <=> i \in 1 .. n \/ i = n + 1
        OBVIOUS
    <2> QED
        BY <1>3, <2>1, <2>2, <2>3
<1> QED
    BY <1>1, <1>3, <1>4

LEMMA SetTail ==
    ASSUME NEW X, NEW s \in Seq(X), s # <<>>
    PROVE  /\ Head(s) \in X /\ Tail(s) \in Seq(X)
           /\ ToSet(s) = {Head(s)} \union ToSet(Tail(s))
<1>1. PICK t : t = Tail(s)
    OBVIOUS
<1>2. PICK n \in Nat : n = Len(s) /\ DOMAIN s = 1 .. n /\ n # 0
    OBVIOUS
<1>3. /\ t \in Seq(X) /\ DOMAIN t = 1 .. n - 1
      /\ \A i \in 1 .. n - 1 : t[i] = s[i + 1]
    BY <1>1, <1>2
<1>4. Head(s) = s[1] /\ s[1] \in X
    BY <1>2
<1>5. ASSUME NEW y PROVE y \in ToSet(s) <=> y \in ToSet(t) \/ y = s[1]
    <2>1. y \in ToSet(s) <=> \E i \in 1 .. n : s[i] = y
        BY <1>2 DEF ToSet
    <2>2. y \in ToSet(t) <=> \E i \in 1 .. n - 1 : t[i] = y
        BY <1>3 DEF ToSet
    <2>3. ASSUME NEW i \in 1 .. n, s[i] = y, i # 1 PROVE \E j \in 1 .. n - 1 : t[j] = y
        <3>1. i - 1 \in 1 .. n - 1 /\ (i - 1) + 1 = i
            BY <2>3
        <3>2. t[i - 1] = s[i]
            BY <1>3, <3>1
        <3> QED
            BY <2>3, <3>1, <3>2
    <2>4. ASSUME NEW j \in 1 .. n - 1, t[j] = y PROVE \E i \in 1 .. n : s[i] = y
        <3>1. j + 1 \in 1 .. n /\ s[j + 1] = y
            BY <1>3, <2>4
        <3> QED
            BY <3>1
    <2>5. 1 \in 1 .. n
        BY <1>2
    <2> QED
        BY <2>1, <2>2, <2>3, <2>4, <2>5
<1> QED
    BY <1>1, <1>3, <1>4, <1>5

LEMMA SetConcat ==
    ASSUME NEW X, NEW s \in Seq(X), NEW t \in Seq(X)
    PROVE  s \o t \in Seq(X) /\ ToSet(s \o t) = ToSet(s) \union ToSet(t)
<1>1. PICK r : r = s \o t
    OBVIOUS
<1>2. PICK m \in Nat, n \in Nat :
          m = Len(s) /\ n = Len(t) /\ DOMAIN s = 1 .. m /\ DOMAIN t = 1 .. n
    OBVIOUS
<1>3. /\ r \in Seq(X) /\ Len(r) = m + n
      /\ \A i \in 1 .. m : r[i] = s[i]
      /\ \A i \in 1 .. n : r[m + i] = t[i]
    BY <1>1, <1>2, ConcatIs
<1>4. DOMAIN r = 1 .. m + n
    BY <1>3
<1>5. ASSUME NEW y \in ToSet(r) PROVE y \in ToSet(s) \/ y \in ToSet(t)
    <2>1. PICK i \in 1 .. m + n : r[i] = y
        BY <1>4, <1>5 DEF ToSet
    <2>2. CASE i <= m
        BY <1>2, <1>3, <2>1, <2>2 DEF ToSet
    <2>3. CASE i > m
        <3>1. i - m \in 1 .. n /\ m + (i - m) = i
            BY <2>1, <2>3
        <3>2. t[i - m] = y
            BY <1>3, <2>1, <3>1
        <3> QED
            BY <1>2, <3>1, <3>2 DEF ToSet
    <2> QED
        BY <2>1, <2>2, <2>3
<1>6. ASSUME NEW y, y \in ToSet(s) PROVE y \in ToSet(r)
    <2>1. PICK i \in 1 .. m : s[i] = y
        BY <1>2, <1>6 DEF ToSet
    <2>2. i \in 1 .. m + n /\ r[i] = y
        BY <1>3, <2>1
    <2> QED
        BY <1>4, <2>2 DEF ToSet
<1>7. ASSUME NEW y, y \in ToSet(t) PROVE y \in ToSet(r)
    <2>1. PICK i \in 1 .. n : t[i] = y
        BY <1>2, <1>7 DEF ToSet
    <2>2. m + i \in 1 .. m + n /\ r[m + i] = y
        BY <1>3, <2>1
    <2> QED
        BY <1>4, <2>2 DEF ToSet
<1> QED
    BY <1>1, <1>3, <1>5, <1>6, <1>7

LEMMA SortedAppend ==
    ASSUME NEW X, NEW s \in Seq(X), NEW x \in X, NEW R, SortedBy(s, R),
           \A y \in ToSet(s) : <<y, x>> \in R
    PROVE  SortedBy(Append(s, x), R)
<1>1. PICK r : r = Append(s, x)
    OBVIOUS
<1>2. PICK n \in Nat : n = Len(s) /\ DOMAIN s = 1 .. n
    OBVIOUS
<1>3. /\ DOMAIN r = 1 .. n + 1 /\ r[n + 1] = x
      /\ \A i \in 1 .. n : r[i] = s[i]
    BY <1>1, <1>2
<1>4. ASSUME NEW i \in 1 .. n + 1, NEW j \in 1 .. n + 1, i < j PROVE <<r[i], r[j]>> \in R
    <2>1. i \in 1 .. n /\ r[i] = s[i]
        BY <1>3, <1>4
    <2>2. CASE j = n + 1
        BY <1>2, <1>3, <2>1, <2>2 DEF ToSet
    <2>3. CASE j # n + 1
        <3>1. j \in 1 .. n /\ r[j] = s[j]
            BY <1>3, <2>3
        <3> QED
            BY <1>2, <1>4, <2>1, <3>1 DEF SortedBy
    <2> QED
        BY <2>2, <2>3
<1> QED
    BY <1>1, <1>3, <1>4 DEF SortedBy

LEMMA SortedTail ==
    ASSUME NEW X, NEW s \in Seq(X), s # <<>>, NEW R, SortedBy(s, R)
    PROVE  SortedBy(Tail(s), R) /\ \A y \in ToSet(Tail(s)) : <<Head(s), y>> \in R
<1>1. PICK t : t = Tail(s)
    OBVIOUS
<1>2. PICK n \in Nat : n = Len(s) /\ DOMAIN s = 1 .. n /\ n # 0
    OBVIOUS
<1>3. /\ DOMAIN t = 1 .. n - 1
      /\ \A i \in 1 .. n - 1 : t[i] = s[i + 1] /\ i + 1 \in 1 .. n
    BY <1>1, <1>2
<1>4. Head(s) = s[1] /\ 1 \in 1 .. n
    BY <1>2
<1>5. SortedBy(t, R)
    <2>1. ASSUME NEW i \in 1 .. n - 1, NEW j \in 1 .. n - 1, i < j PROVE <<t[i], t[j]>> \in R
        <3>1. /\ t[i] = s[i + 1] /\ t[j] = s[j + 1] /\ i + 1 < j + 1
              /\ i + 1 \in DOMAIN s /\ j + 1 \in DOMAIN s
            BY <1>2, <1>3, <2>1
        <3>2. <<s[i + 1], s[j + 1]>> \in R
            BY <3>1 DEF SortedBy
        <3> QED
            BY <3>1, <3>2
    <2> QED
        BY <1>3, <2>1 DEF SortedBy
<1>6. ASSUME NEW y \in ToSet(t) PROVE <<s[1], y>> \in R
    <2>1. PICK i \in 1 .. n - 1 : t[i] = y
        BY <1>3, <1>6 DEF ToSet
    <2>2. y = s[i + 1] /\ i + 1 \in 1 .. n /\ 1 < i + 1
        BY <1>3, <2>1
    <2> QED
        BY <1>2, <1>4, <2>2 DEF SortedBy
<1> QED
    BY <1>1, <1>4, <1>5, <1>6

LEMMA SortedEmpty ==
    ASSUME NEW R
    PROVE  SortedBy(<<>>, R)
BY DEF SortedBy

-----------------------------------------------------------------------------
(***************************************************************************)
(* The way of the blocks: what is published is awaited, unread or read.    *)
(***************************************************************************)
PairsOf(P, N) == UNION {{<<n, b>> : b \in ToSet(P[n])} : n \in N}

LEMMA PairsIs ==
    ASSUME NEW P, NEW N
    PROVE  \A p : p \in PairsOf(P, N) <=> \E n \in N : \E b \in ToSet(P[n]) : p = <<n, b>>
BY DEF PairsOf

LEMMA PairsUnion ==
    ASSUME NEW P, NEW M, NEW N
    PROVE  PairsOf(P, M \union N) = PairsOf(P, M) \union PairsOf(P, N)
BY PairsIs

\* Messages that are not in common have no block in common.
LEMMA PairsApart ==
    ASSUME NEW P, NEW Q, NEW M, NEW N, M \cap N = {}
    PROVE  PairsOf(P, M) \cap PairsOf(Q, N) = {}
<1>1. ASSUME NEW p, p \in PairsOf(P, M), p \in PairsOf(Q, N) PROVE FALSE
    <2>1. PICK m \in M : \E b \in ToSet(P[m]) : p = <<m, b>>
        BY <1>1, PairsIs
    <2>2. PICK n \in N : \E b \in ToSet(Q[n]) : p = <<n, b>>
        BY <1>1, PairsIs
    <2>3. m = n
        BY <2>1, <2>2
    <2> QED
        BY <2>1, <2>2, <2>3
<1> QED
    BY <1>1

LEMMA PairsAppend ==
    ASSUME NEW P \in Seq(Seq(Block)), NEW q \in Seq(Block), NEW N \in SUBSET DOMAIN P
    PROVE  PairsOf(Append(P, q), N) = PairsOf(P, N)
<1>0. PICK Q : Q = Append(P, q)
    OBVIOUS
<1>1. \A n \in N : Q[n] = P[n]
    BY <1>0
<1>2. ASSUME NEW p PROVE p \in PairsOf(Q, N) <=> p \in PairsOf(P, N)
    <2>1. p \in PairsOf(Q, N) <=> \E n \in N : \E b \in ToSet(Q[n]) : p = <<n, b>>
        BY PairsIs
    <2>2. p \in PairsOf(P, N) <=> \E n \in N : \E b \in ToSet(P[n]) : p = <<n, b>>
        BY PairsIs
    <2> QED
        BY <1>1, <2>1, <2>2
<1> QED
    BY <1>0, <1>2

\* The blocks the watcher has read.
ReadOf(P, f, pe, un) == PairsOf(P, DOMAIN P) \ (ToSet(pe) \union PairsOf(P, ToSet(f)) \union un)

Read == Published \ (Awaiting \union unread)

LEMMA ReadIs == Read = ReadOf(published, feed, pending, unread)
<1>1. Published = PairsOf(published, DOMAIN published)
    BY Zenon DEF Published, PairsOf
<1>2. Awaiting = ToSet(pending) \union PairsOf(published, ToSet(feed))
    BY Zenon DEF Awaiting, PairsOf
<1>3. Read = PairsOf(published, DOMAIN published) \
                 ((ToSet(pending) \union PairsOf(published, ToSet(feed))) \union unread)
    BY <1>1, <1>2 DEF Read
<1> QED
    BY <1>3, Zenon DEF ReadOf

Less == {z \in Nat \X Nat : z[1] < z[2]}
Lower == {z \in Block \X Block : Number[z[1]] < Number[z[2]]}

\* One block of a message before another.
Ahead ==
    {z \in (Nat \X Block) \X (Nat \X Block) :
        z[1][1] = z[2][1] /\ Number[z[1][2]] < Number[z[2][2]]}

FeedTypes(P, f, pe, un) ==
    /\ P \in Seq(Seq(Block))
    /\ f \in Seq(DOMAIN P)
    /\ pe \in Seq(Nat \X Block)
    /\ un \subseteq PairsOf(P, DOMAIN P)

\* Every message has its blocks from the lowest on; the messages are read in
\* their order, and a block only once.
FeedOrder(P, f, pe, un) ==
    /\ \A n \in DOMAIN P : SortedBy(P[n], Lower)
    /\ SortedBy(f, Less)
    /\ SortedBy(pe, Ahead)
    /\ ToSet(pe) \subseteq PairsOf(P, DOMAIN P)
    /\ \A p \in ToSet(pe) : \A n \in ToSet(f) : p[1] < n
    /\ un \cap (ToSet(pe) \union PairsOf(P, ToSet(f))) = {}

FeedInv(P, f, pe, un) == FeedTypes(P, f, pe, un) /\ FeedOrder(P, f, pe, un)

LEMMA FeedReads ==
    ASSUME NEW P, NEW f, NEW pe, NEW un, FeedInv(P, f, pe, un), pe # <<>>
    PROVE  /\ FeedInv(P, f, Tail(pe), un)
           /\ Head(pe) \in PairsOf(P, DOMAIN P)
           /\ Head(pe) \notin ReadOf(P, f, pe, un)
           /\ ReadOf(P, f, Tail(pe), un) = ReadOf(P, f, pe, un) \union {Head(pe)}
           /\ \A p \in ToSet(Tail(pe)) : <<Head(pe), p>> \in Ahead
<1>1. FeedTypes(P, f, pe, un) /\ FeedOrder(P, f, pe, un)
    BY DEF FeedInv
<1>2. PICK h, t : h = Head(pe) /\ t = Tail(pe)
    OBVIOUS
<1>3. pe \in Seq(Nat \X Block)
    BY <1>1 DEF FeedTypes
<1>4. t \in Seq(Nat \X Block) /\ ToSet(pe) = {h} \union ToSet(t) /\ h \in Nat \X Block
    BY <1>2, <1>3, SetTail
<1>5. SortedBy(t, Ahead) /\ \A y \in ToSet(t) : <<h, y>> \in Ahead
    BY <1>1, <1>2, <1>3, SortedTail DEF FeedOrder
<1>6. h \notin ToSet(t)
    <2>1. ASSUME <<h, h>> \in Ahead PROVE FALSE
        <3>1. Number[h[2]] < Number[h[2]]
            BY <2>1 DEF Ahead
        <3>2. Number[h[2]] \in Nat
            BY <1>4, NumberIs
        <3> QED
            BY <3>1, <3>2
    <2> QED
        BY <1>5, <2>1
<1>7. h \notin PairsOf(P, ToSet(f))
    <2>1. ASSUME h \in PairsOf(P, ToSet(f)) PROVE FALSE
        <3>1. PICK n \in ToSet(f) : \E b \in ToSet(P[n]) : h = <<n, b>>
            BY <2>1, PairsIs
        <3>2. h \in ToSet(pe)
            BY <1>4
        <3>3. h[1] < n
            BY <1>1, <3>1, <3>2 DEF FeedOrder
        <3>4. h[1] = n /\ h[1] \in Nat
            BY <1>4, <3>1
        <3> QED
            BY <3>3, <3>4
    <2> QED
        BY <2>1
<1>8. h \in PairsOf(P, DOMAIN P) /\ h \notin un
    BY <1>1, <1>4 DEF FeedOrder
<1>9. FeedTypes(P, f, t, un)
    BY <1>1, <1>4 DEF FeedTypes
<1>10. FeedOrder(P, f, t, un)
    BY <1>1, <1>4, <1>5 DEF FeedOrder
<1>11. ReadOf(P, f, t, un) = ReadOf(P, f, pe, un) \union {h}
    BY <1>4, <1>6, <1>7, <1>8 DEF ReadOf
<1>12. h \notin ReadOf(P, f, pe, un)
    BY <1>4 DEF ReadOf
<1> QED
    BY <1>2, <1>5, <1>8, <1>9, <1>10, <1>11, <1>12 DEF FeedInv

\* `Down`.
LEMMA FeedEnds ==
    ASSUME NEW P, NEW f, NEW pe, NEW un, FeedInv(P, f, pe, un)
    PROVE  LET gone == un \union ToSet(pe) \union PairsOf(P, ToSet(f)) IN
           /\ FeedInv(P, <<>>, <<>>, gone)
           /\ ReadOf(P, <<>>, <<>>, gone) = ReadOf(P, f, pe, un)
<1>1. FeedTypes(P, f, pe, un) /\ FeedOrder(P, f, pe, un)
    BY DEF FeedInv
<1>2. PICK gone : gone = un \union ToSet(pe) \union PairsOf(P, ToSet(f))
    OBVIOUS
<1>3. ToSet(<<>>) = {} /\ PairsOf(P, {}) = {}
    BY SetEmpty, PairsIs
<1>4. ToSet(f) \subseteq DOMAIN P
    BY <1>1 DEF FeedTypes, ToSet
<1>5. PairsOf(P, ToSet(f)) \subseteq PairsOf(P, DOMAIN P)
    BY <1>4, PairsIs
<1>6. gone \subseteq PairsOf(P, DOMAIN P)
    BY <1>1, <1>2, <1>5 DEF FeedTypes, FeedOrder
<1>7. <<>> \in Seq(DOMAIN P) /\ <<>> \in Seq(Nat \X Block)
    OBVIOUS
<1>8. FeedTypes(P, <<>>, <<>>, gone)
    BY <1>1, <1>6, <1>7 DEF FeedTypes
<1>9. FeedOrder(P, <<>>, <<>>, gone)
    BY <1>1, <1>3, SortedEmpty DEF FeedOrder
<1>10. ReadOf(P, <<>>, <<>>, gone) = ReadOf(P, f, pe, un)
    BY <1>2, <1>3 DEF ReadOf
<1> QED
    BY <1>2, <1>8, <1>9, <1>10 DEF FeedInv

\* `Recv`.
LEMMA FeedTakes ==
    ASSUME NEW P, NEW f, NEW un, FeedInv(P, f, <<>>, un), f # <<>>
    PROVE  LET got == [i \in DOMAIN P[Head(f)] |-> <<Head(f), P[Head(f)][i]>>] IN
           /\ FeedInv(P, Tail(f), got, un)
           /\ ReadOf(P, Tail(f), got, un) = ReadOf(P, f, <<>>, un)
           /\ \A p \in ToSet(got) : p[1] = Head(f)
           /\ Head(f) \in ToSet(f) /\ ToSet(Tail(f)) \subseteq ToSet(f)
<1>1. FeedTypes(P, f, <<>>, un) /\ FeedOrder(P, f, <<>>, un)
    BY DEF FeedInv
<1>2. PICK h, t : h = Head(f) /\ t = Tail(f)
    OBVIOUS
<1>3. f \in Seq(DOMAIN P) /\ P \in Seq(Seq(Block))
    BY <1>1 DEF FeedTypes
<1>4. h \in DOMAIN P /\ t \in Seq(DOMAIN P) /\ ToSet(f) = {h} \union ToSet(t)
    BY <1>2, <1>3, SetTail
<1>5. P[h] \in Seq(Block) /\ h \in Nat
    BY <1>3, <1>4
<1>6. PICK q : q = P[h]
    OBVIOUS
<1>7. PICK k \in Nat : DOMAIN q = 1 .. k /\ \A i \in 1 .. k : q[i] \in Block
    BY <1>5, <1>6
<1>8. PICK got : got = [i \in 1 .. k |-> <<h, q[i]>>]
    OBVIOUS
<1>9. got \in Seq(Nat \X Block) /\ DOMAIN got = 1 .. k /\ \A i \in 1 .. k : got[i] = <<h, q[i]>>
    BY <1>5, <1>7, <1>8
<1>10. ToSet(got) = PairsOf(P, {h})
    <2>1. ASSUME NEW p PROVE p \in ToSet(got) <=> p \in PairsOf(P, {h})
        <3>1. p \in ToSet(got) <=> \E i \in 1 .. k : p = <<h, q[i]>>
            BY <1>9 DEF ToSet
        <3>2. p \in PairsOf(P, {h}) <=> \E b \in ToSet(q) : p = <<h, b>>
            BY <1>6, PairsIs
        <3>3. \A b : b \in ToSet(q) <=> \E i \in 1 .. k : b = q[i]
            BY <1>7 DEF ToSet
        <3> QED
            BY <3>1, <3>2, <3>3
    <2> QED
        BY <2>1
<1>11. PairsOf(P, ToSet(f)) = PairsOf(P, {h}) \union PairsOf(P, ToSet(t))
    BY <1>4, PairsUnion
<1>12. ToSet(<<>>) = {}
    BY SetEmpty
<1>13. SortedBy(t, Less) /\ \A n \in ToSet(t) : <<h, n>> \in Less
    BY <1>1, <1>2, <1>3, SortedTail DEF FeedOrder
<1>14. \A n \in ToSet(t) : h < n
    BY <1>13 DEF Less
<1>15. SortedBy(got, Ahead)
    <2>1. SortedBy(q, Lower)
        BY <1>1, <1>4, <1>6 DEF FeedOrder
    <2>2. ASSUME NEW i \in 1 .. k, NEW j \in 1 .. k, i < j PROVE <<got[i], got[j]>> \in Ahead
        <3>1. <<q[i], q[j]>> \in Lower
            BY <1>7, <2>1, <2>2 DEF SortedBy
        <3>2. Number[q[i]] < Number[q[j]] /\ q[i] \in Block /\ q[j] \in Block
            BY <3>1 DEF Lower
        <3>3. got[i] = <<h, q[i]>> /\ got[j] = <<h, q[j]>>
            BY <1>9
        <3> QED
            BY <1>5, <3>2, <3>3 DEF Ahead
    <2> QED
        BY <1>9, <2>2 DEF SortedBy
<1>16. \A p \in ToSet(got) : p[1] = h
    BY <1>9 DEF ToSet
<1>17. FeedTypes(P, t, got, un)
    BY <1>1, <1>4, <1>9 DEF FeedTypes
<1>18. PairsOf(P, {h}) \subseteq PairsOf(P, DOMAIN P)
    BY <1>4, PairsIs
<1>19. FeedOrder(P, t, got, un)
    <2>1. un \cap (ToSet(got) \union PairsOf(P, ToSet(t))) = {}
        BY <1>1, <1>10, <1>11 DEF FeedOrder
    <2>2. \A p \in ToSet(got) : \A n \in ToSet(t) : p[1] < n
        BY <1>14, <1>16
    <2> QED
        BY <1>1, <1>10, <1>13, <1>15, <1>18, <2>1, <2>2 DEF FeedOrder
<1>20. ReadOf(P, t, got, un) = ReadOf(P, f, <<>>, un)
    BY <1>10, <1>11, <1>12 DEF ReadOf
<1>21. got = [i \in DOMAIN P[Head(f)] |-> <<Head(f), P[Head(f)][i]>>]
    BY <1>2, <1>6, <1>7, <1>8
<1> QED
    BY <1>2, <1>4, <1>16, <1>17, <1>19, <1>20, <1>21 DEF FeedInv

LEMMA ReadIsNext == Read' = ReadOf(published', feed', pending', unread')
<1>1. Published' = PairsOf(published', DOMAIN published')
    BY Zenon DEF Published, PairsOf
<1>2. Awaiting' = ToSet(pending') \union PairsOf(published', ToSet(feed'))
    BY Zenon DEF Awaiting, PairsOf
<1> QED
    BY <1>1, <1>2, Zenon DEF Read, ReadOf

\* `PublishBlocks`: the message comes last, and where the channel is full the
\* oldest one goes unread.
LEMMA FeedGrows ==
    ASSUME NEW P, NEW f, NEW pe, NEW un, FeedInv(P, f, pe, un),
           NEW q \in Seq(Block), SortedBy(q, Lower)
    PROVE  LET P2 == Append(P, q) IN
           /\ Len(P2) \in DOMAIN P2 /\ Len(P2) = Len(P) + 1 /\ DOMAIN P \subseteq DOMAIN P2
           /\ FeedInv(P2, Append(f, Len(P2)), pe, un)
           /\ ReadOf(P2, Append(f, Len(P2)), pe, un) = ReadOf(P, f, pe, un)
<1>1. FeedTypes(P, f, pe, un) /\ FeedOrder(P, f, pe, un)
    BY DEF FeedInv
<1>2. P \in Seq(Seq(Block)) /\ f \in Seq(DOMAIN P)
    BY <1>1 DEF FeedTypes
<1>3. PICK P2 : P2 = Append(P, q)
    OBVIOUS
<1>4. PICK n \in Nat : n = Len(P) /\ DOMAIN P = 1 .. n
    BY <1>2
<1>5. /\ P2 \in Seq(Seq(Block)) /\ Len(P2) = n + 1 /\ DOMAIN P2 = 1 .. n + 1
      /\ P2[n + 1] = q /\ \A i \in 1 .. n : P2[i] = P[i]
    BY <1>2, <1>3, <1>4
<1>6. ToSet(f) \subseteq DOMAIN P
    BY <1>2 DEF ToSet
<1>7. DOMAIN P2 = DOMAIN P \union {n + 1} /\ n + 1 \notin DOMAIN P
    BY <1>4, <1>5
<1>8. PICK new : new = PairsOf(P2, {n + 1})
    OBVIOUS
<1>9. PairsOf(P2, DOMAIN P) = PairsOf(P, DOMAIN P)
    BY <1>2, <1>3, PairsAppend
<1>10. PairsOf(P2, ToSet(f)) = PairsOf(P, ToSet(f))
    BY <1>2, <1>3, <1>6, PairsAppend
<1>11. PairsOf(P2, DOMAIN P2) = PairsOf(P, DOMAIN P) \union new
    BY <1>7, <1>8, <1>9, PairsUnion
<1>12. new \cap PairsOf(P, DOMAIN P) = {}
    <2>1. {n + 1} \cap DOMAIN P = {}
        BY <1>7
    <2> QED
        BY <1>8, <2>1, PairsApart
<1>13. PICK f2 : f2 = Append(f, n + 1)
    OBVIOUS
<1>14. f \in Seq(DOMAIN P2) /\ n + 1 \in DOMAIN P2
    BY <1>2, <1>7
<1>15. f2 \in Seq(DOMAIN P2) /\ ToSet(f2) = ToSet(f) \union {n + 1}
    BY <1>13, <1>14, SetAppend
<1>16. PairsOf(P2, ToSet(f2)) = PairsOf(P, ToSet(f)) \union new
    BY <1>8, <1>10, <1>15, PairsUnion
<1>17. FeedTypes(P2, f2, pe, un)
    BY <1>1, <1>5, <1>11, <1>15 DEF FeedTypes
<1>18. SortedBy(f2, Less)
    <2>1. ASSUME NEW y \in ToSet(f) PROVE <<y, n + 1>> \in Less
        <3>1. y \in 1 .. n
            BY <1>4, <1>6
        <3>2. y \in Nat /\ n + 1 \in Nat /\ y < n + 1
            BY <3>1
        <3> QED
            BY <3>2 DEF Less
    <2>2. SortedBy(f, Less)
        BY <1>1 DEF FeedOrder
    <2> QED
        BY <1>13, <1>14, <2>1, <2>2, SortedAppend
<1>19. \A m \in DOMAIN P2 : SortedBy(P2[m], Lower)
    BY <1>1, <1>4, <1>5, <1>7 DEF FeedOrder
<1>20. \A p \in ToSet(pe) : p \in PairsOf(P, DOMAIN P) /\ p[1] \in DOMAIN P
    <2>1. ASSUME NEW p \in ToSet(pe) PROVE p \in PairsOf(P, DOMAIN P) /\ p[1] \in DOMAIN P
        <3>1. p \in PairsOf(P, DOMAIN P)
            BY <1>1 DEF FeedOrder
        <3>2. PICK m \in DOMAIN P : \E b \in ToSet(P[m]) : p = <<m, b>>
            BY <3>1, PairsIs
        <3> QED
            BY <3>1, <3>2
    <2> QED
        BY <2>1
<1>21. \A p \in ToSet(pe) : \A m \in ToSet(f2) : p[1] < m
    <2>1. \A p \in ToSet(pe) : p[1] < n + 1
        BY <1>4, <1>20
    <2> QED
        BY <1>1, <1>15, <2>1 DEF FeedOrder
<1>22. un \cap (ToSet(pe) \union PairsOf(P2, ToSet(f2))) = {}
    <2>1. un \subseteq PairsOf(P, DOMAIN P)
        BY <1>1 DEF FeedTypes
    <2>2. un \cap (ToSet(pe) \union PairsOf(P, ToSet(f))) = {}
        BY <1>1 DEF FeedOrder
    <2> QED
        BY <1>12, <1>16, <2>1, <2>2
<1>23. FeedOrder(P2, f2, pe, un)
    BY <1>1, <1>11, <1>18, <1>19, <1>21, <1>22 DEF FeedOrder
<1>24. ReadOf(P2, f2, pe, un) = ReadOf(P, f, pe, un)
    BY <1>11, <1>12, <1>16 DEF ReadOf
<1> QED
    BY <1>3, <1>4, <1>5, <1>7, <1>13, <1>17, <1>23, <1>24 DEF FeedInv

LEMMA FeedLoses ==
    ASSUME NEW P, NEW f, NEW pe, NEW un, FeedInv(P, f, pe, un), f # <<>>
    PROVE  LET gone == un \union {<<Head(f), c>> : c \in ToSet(P[Head(f)])} IN
           /\ FeedInv(P, Tail(f), pe, gone)
           /\ ReadOf(P, Tail(f), pe, gone) = ReadOf(P, f, pe, un)
           /\ ToSet(Tail(f)) \subseteq ToSet(f)
<1>1. FeedTypes(P, f, pe, un) /\ FeedOrder(P, f, pe, un)
    BY DEF FeedInv
<1>2. PICK h, t : h = Head(f) /\ t = Tail(f)
    OBVIOUS
<1>3. f \in Seq(DOMAIN P)
    BY <1>1 DEF FeedTypes
<1>4. h \in DOMAIN P /\ t \in Seq(DOMAIN P) /\ ToSet(f) = {h} \union ToSet(t)
    BY <1>2, <1>3, SetTail
<1>5. PICK lost : lost = PairsOf(P, {h})
    OBVIOUS
<1>6. PairsOf(P, ToSet(f)) = lost \union PairsOf(P, ToSet(t))
    BY <1>4, <1>5, PairsUnion
<1>7. SortedBy(t, Less) /\ \A n \in ToSet(t) : <<h, n>> \in Less
    BY <1>1, <1>2, <1>3, SortedTail DEF FeedOrder
<1>8. lost \cap PairsOf(P, ToSet(t)) = {}
    <2>1. {h} \cap ToSet(t) = {}
        <3>1. <<h, h>> \notin Less
            BY DEF Less
        <3> QED
            BY <1>7, <3>1
    <2> QED
        BY <1>5, <2>1, PairsApart
<1>9. lost \cap ToSet(pe) = {}
    <2>1. ASSUME NEW p, p \in lost, p \in ToSet(pe) PROVE FALSE
        <3>1. PICK b \in ToSet(P[h]) : p = <<h, b>>
            BY <1>5, <2>1, PairsIs
        <3>2. p[1] = h /\ p[1] < h
            BY <1>1, <1>4, <2>1, <3>1 DEF FeedOrder
        <3>3. h \in Nat
            BY <1>1, <1>4 DEF FeedTypes
        <3> QED
            BY <3>2, <3>3
    <2> QED
        BY <2>1
<1>10. lost \subseteq PairsOf(P, DOMAIN P)
    BY <1>4, <1>5, PairsIs
<1>11. FeedTypes(P, t, pe, un \union lost)
    BY <1>1, <1>4, <1>10 DEF FeedTypes
<1>12. FeedOrder(P, t, pe, un \union lost)
    <2>1. (un \union lost) \cap (ToSet(pe) \union PairsOf(P, ToSet(t))) = {}
        BY <1>1, <1>6, <1>8, <1>9 DEF FeedOrder
    <2> QED
        BY <1>1, <1>4, <1>7, <2>1 DEF FeedOrder
<1>13. ReadOf(P, t, pe, un \union lost) = ReadOf(P, f, pe, un)
    BY <1>6 DEF ReadOf
<1>14. lost = {<<h, c>> : c \in ToSet(P[h])}
    <2>1. \A p : p \in lost <=> \E b \in ToSet(P[h]) : p = <<h, b>>
        BY <1>5, PairsIs
    <2> QED
        BY <2>1
<1> QED
    BY <1>2, <1>4, <1>11, <1>12, <1>13, <1>14 DEF FeedInv

-----------------------------------------------------------------------------
(***************************************************************************)
(* The invariant.                                                          *)
(***************************************************************************)
Basics ==
    /\ up \in BOOLEAN /\ lagged \in BOOLEAN
    /\ tip \in Block \union {NoBlock}
    /\ Len(feed) <= Capacity
    /\ others \in 0 .. MaxOthers /\ faults \in 0 .. MaxFaults /\ exits \in 0 .. MaxExits

FeedOK == FeedInv(published, feed, pending, unread)

AlertsOK ==
    /\ outbox \in Seq(AnyAlert) /\ queue \in Seq(AnyAlert)
    /\ hand \in Seq(AnyAlert) /\ posted \in Seq(AnyAlert)
    /\ dropped \subseteq AnyAlert
    /\ slack \in {"auth", "recv", "post"}
    /\ slack = "post" => \E x \in AnyAlert : hand = <<x>>
    /\ slack # "post" => hand = <<>>

\* Alerts in the order they have to be told in.
Then == {z \in AnyAlert \X AnyAlert : Before(z[1], z[2])}

Follow(S, T) == \A x \in S : \A y \in T : <<x, y>> \in Then

\* What is in Slack comes before what is posted, that before the channel and
\* that before what is still to be sent.
InOrderInv ==
    /\ SortedBy(posted, Then) /\ SortedBy(queue, Then) /\ SortedBy(outbox, Then)
    /\ Follow(ToSet(posted), ToSet(hand)) /\ Follow(ToSet(posted), ToSet(queue))
    /\ Follow(ToSet(posted), ToSet(outbox))
    /\ Follow(ToSet(hand), ToSet(queue)) /\ Follow(ToSet(hand), ToSet(outbox))
    /\ Follow(ToSet(queue), ToSet(outbox))

On == ToSet(posted) \union ToSet(hand) \union ToSet(queue) \union ToSet(outbox)

NotAfter(x, p) ==
    x.message < p[1] \/ (x.message = p[1] /\ Number[x.block] <= Number[p[2]])

\* All of them come before the blocks that are still to be read.
AheadInv ==
    \A x \in On : x.message # 0 =>
        /\ \A n \in ToSet(feed) : x.message < n
        /\ \A p \in ToSet(pending) : NotAfter(x, p)

\* Every alert is about a block that was read, and true of it.
TrueInv ==
    \A x \in On \union dropped : x.message # 0 =>
        <<x.message, x.block>> \in Read /\ Deserved(x.block, x)

SafeInv ==
    /\ Basics /\ FeedOK /\ AlertsOK
    /\ InOrderInv /\ AheadInv /\ TrueInv

IInv == SafeInv /\ ToldOnce
-----------------------------------------------------------------------------
(***************************************************************************)
(* The feed, action by action.                                             *)
(***************************************************************************)
feedPart == <<published, feed, pending, unread>>

LEMMA FeedKept ==
    ASSUME FeedOK, UNCHANGED feedPart
    PROVE  FeedOK' /\ Read' = Read
<1>1. published' = published /\ feed' = feed /\ pending' = pending /\ unread' = unread
    BY DEF feedPart
<1>2. FeedOK'
    BY <1>1 DEF FeedOK
<1>3. Read' = ReadOf(published, feed, pending, unread)
    BY <1>1, ReadIsNext
<1> QED
    BY <1>2, <1>3, ReadIs

LEMMA FeedPublish ==
    ASSUME Basics, FeedOK, NEW b \in Block, PublishBlocks(b)
    PROVE  /\ FeedOK' /\ Read' = Read
           /\ ToSet(feed') \subseteq ToSet(feed) \union {Len(published) + 1}
           /\ Len(feed') <= Capacity
<1>1. PICK q : q = EnactedInOrder(tip, b)
    OBVIOUS
<1>2. /\ tip # NoBlock /\ published' = Append(published, q) /\ pending' = pending
      /\ Len(feed) = Capacity =>
            /\ feed' = Append(Tail(feed), Len(published'))
            /\ unread' = unread \union {<<Head(feed), c>> : c \in ToSet(published[Head(feed)])}
      /\ Len(feed) # Capacity =>
            feed' = Append(feed, Len(published')) /\ unread' = unread
    BY <1>1 DEF PublishBlocks, watcher
<1>3. tip \in Block
    BY <1>2 DEF Basics
<1>4. q \in Seq(Block) /\ SortedBy(q, Lower)
    <2>1. /\ q \in Seq(Block)
          /\ \A i, j \in DOMAIN q : i < j => Number[q[i]] < Number[q[j]]
        BY <1>1, <1>3, EnactedListed
    <2>2. \A i, j \in DOMAIN q : i < j => <<q[i], q[j]>> \in Lower
        BY <2>1 DEF Lower
    <2> QED
        BY <2>1, <2>2 DEF SortedBy
<1>5. FeedInv(published, feed, pending, unread)
    BY DEF FeedOK
<1>6. feed \in Seq(DOMAIN published) /\ published \in Seq(Seq(Block))
    BY <1>5 DEF FeedInv, FeedTypes
<1>7. Len(feed) \in Nat /\ Capacity \in Nat \ {0} /\ Len(feed) <= Capacity
    BY <1>6, PipelineAssumption DEF Basics
<1>8. Len(Append(published, q)) = Len(published) + 1 /\ Len(published) \in Nat
    BY <1>4, <1>6
<1>9. PICK k : k = Len(published) + 1
    OBVIOUS
<1>10. CASE Len(feed) # Capacity
    <2>1. feed' = Append(feed, Len(Append(published, q))) /\ unread' = unread
        BY <1>2, <1>10
    <2>2. /\ FeedInv(published', feed', pending', unread')
          /\ ReadOf(published', feed', pending', unread') = ReadOf(published, feed, pending, unread)
        BY <1>2, <1>4, <1>5, <2>1, FeedGrows
    <2>3. feed' = Append(feed, k) /\ k \in Nat /\ feed \in Seq(Nat)
        BY <1>6, <1>8, <1>9, <2>1
    <2>4. ToSet(feed') = ToSet(feed) \union {k}
        BY <2>3, SetAppend
    <2>5. Len(feed') = Len(feed) + 1
        BY <2>3
    <2>6. Len(feed') <= Capacity
        BY <1>7, <1>10, <2>5
    <2> QED
        BY <1>9, <2>2, <2>4, <2>6, ReadIs, ReadIsNext DEF FeedOK
<1>11. CASE Len(feed) = Capacity
    <2>1. feed # <<>>
        BY <1>7, <1>11
    <2>2. PICK t, un : t = Tail(feed) /\
              un = unread \union {<<Head(feed), c>> : c \in ToSet(published[Head(feed)])}
        OBVIOUS
    <2>3. /\ FeedInv(published, t, pending, un)
          /\ ReadOf(published, t, pending, un) = ReadOf(published, feed, pending, unread)
          /\ ToSet(t) \subseteq ToSet(feed)
        <3> DEFINE gone == unread \union {<<Head(feed), c>> : c \in ToSet(published[Head(feed)])}
        <3>1. /\ FeedInv(published, Tail(feed), pending, gone)
              /\ ReadOf(published, Tail(feed), pending, gone)
                     = ReadOf(published, feed, pending, unread)
              /\ ToSet(Tail(feed)) \subseteq ToSet(feed)
            BY <1>5, <2>1, FeedLoses
        <3>2. un = gone
            BY <2>2
        <3> HIDE DEF gone
        <3> QED
            BY <2>2, <3>1, <3>2
    <2>4. feed' = Append(t, Len(Append(published, q))) /\ unread' = un
        BY <1>2, <1>11, <2>2
    <2>5. /\ FeedInv(published', feed', pending', unread')
          /\ ReadOf(published', feed', pending', unread') = ReadOf(published, t, pending, un)
        BY <1>2, <1>4, <2>3, <2>4, FeedGrows
    <2>6. feed' = Append(t, k) /\ k \in Nat /\ t \in Seq(Nat) /\ Len(t) = Len(feed) - 1
        BY <1>6, <1>8, <1>9, <2>1, <2>2, <2>4
    <2>7. ToSet(feed') = ToSet(t) \union {k}
        BY <2>6, SetAppend
    <2>8. Len(feed') = Len(feed)
        BY <1>7, <2>6
    <2> QED
        BY <1>7, <1>9, <2>3, <2>5, <2>7, <2>8, ReadIs, ReadIsNext DEF FeedOK
<1> QED
    BY <1>10, <1>11

LEMMA FeedRecv ==
    ASSUME Basics, FeedOK, Recv
    PROVE  /\ FeedOK' /\ Read' = Read
           /\ ToSet(feed') \subseteq ToSet(feed)
           /\ \A p \in ToSet(pending') : p[1] \in ToSet(feed)
           /\ Len(feed') <= Capacity
<1>1. /\ feed # <<>> /\ pending = <<>> /\ feed' = Tail(feed)
      /\ published' = published /\ unread' = unread
      /\ pending' = [i \in DOMAIN published[Head(feed)] |->
                        <<Head(feed), published[Head(feed)][i]>>]
    BY DEF Recv, told
<1>2. FeedInv(published, feed, <<>>, unread)
    BY <1>1 DEF FeedOK
<1>3. /\ FeedInv(published, feed', pending', unread)
      /\ ReadOf(published, feed', pending', unread) = ReadOf(published, feed, <<>>, unread)
      /\ \A p \in ToSet(pending') : p[1] = Head(feed)
      /\ Head(feed) \in ToSet(feed) /\ ToSet(feed') \subseteq ToSet(feed)
    BY <1>1, <1>2, FeedTakes
<1>4. feed \in Seq(DOMAIN published)
    BY <1>2 DEF FeedInv, FeedTypes
<1>5. Len(feed') <= Capacity
    <2>1. Len(feed') = Len(feed) - 1 /\ Len(feed) \in Nat
        BY <1>1, <1>4
    <2> QED
        BY <2>1, PipelineAssumption DEF Basics
<1> QED
    BY <1>1, <1>3, <1>5, ReadIs, ReadIsNext DEF FeedOK

LEMMA FeedRead ==
    ASSUME FeedOK, NEW s, ReadBlock(s)
    PROVE  /\ FeedOK' /\ Read' = Read \union {Head(pending)}
           /\ Head(pending) \notin Read
           /\ feed' = feed /\ ToSet(pending') \subseteq ToSet(pending)
           /\ Head(pending) \in ToSet(pending)
           /\ Head(pending)[1] \in DOMAIN published /\ Head(pending)[1] \in Nat \ {0}
           /\ Head(pending)[2] \in Block
           /\ Head(pending) = <<Head(pending)[1], Head(pending)[2]>>
           /\ \A p \in ToSet(pending') : <<Head(pending), p>> \in Ahead
<1>1. /\ pending # <<>> /\ pending' = Tail(pending) /\ feed' = feed
      /\ published' = published /\ unread' = unread
    BY DEF ReadBlock, feedState
<1>2. FeedInv(published, feed, pending, unread)
    BY DEF FeedOK
<1>3. PICK h : h = Head(pending)
    OBVIOUS
<1>4. /\ FeedInv(published, feed, pending', unread)
      /\ h \in PairsOf(published, DOMAIN published)
      /\ h \notin ReadOf(published, feed, pending, unread)
      /\ ReadOf(published, feed, pending', unread) = ReadOf(published, feed, pending, unread) \union {h}
      /\ \A p \in ToSet(pending') : <<h, p>> \in Ahead
    BY <1>1, <1>2, <1>3, FeedReads
<1>5. pending \in Seq(Nat \X Block) /\ published \in Seq(Seq(Block))
    BY <1>2 DEF FeedInv, FeedTypes
<1>6. ToSet(pending) = {h} \union ToSet(pending') /\ h \in Nat \X Block
    BY <1>1, <1>3, <1>5, SetTail
<1>7. PICK n \in DOMAIN published : \E b \in ToSet(published[n]) : h = <<n, b>>
    BY <1>4, PairsIs
<1>8. h[1] \in DOMAIN published /\ h[1] \in Nat \ {0}
    BY <1>5, <1>7
<1>9. h = <<h[1], h[2]>> /\ h[2] \in Block
    BY <1>6
<1> QED
    BY <1>1, <1>3, <1>4, <1>6, <1>8, <1>9, ReadIs, ReadIsNext DEF FeedOK

LEMMA FeedDown ==
    ASSUME FeedOK, Down
    PROVE  FeedOK' /\ Read' = Read /\ feed' = <<>> /\ pending' = <<>>
<1>1. /\ feed' = <<>> /\ pending' = <<>> /\ published' = published
      /\ unread' = unread \union ToSet(pending)
                   \union UNION {{<<n, b>> : b \in ToSet(published[n])} : n \in ToSet(feed)}
    BY DEF Down
<1>2. unread' = unread \union ToSet(pending) \union PairsOf(published, ToSet(feed))
    BY <1>1, Zenon DEF PairsOf
<1>3. FeedInv(published, feed, pending, unread)
    BY DEF FeedOK
<1>4. /\ FeedInv(published, <<>>, <<>>, unread')
      /\ ReadOf(published, <<>>, <<>>, unread') = ReadOf(published, feed, pending, unread)
    BY <1>2, <1>3, FeedEnds
<1> QED
    BY <1>1, <1>4, ReadIs, ReadIsNext DEF FeedOK

-----------------------------------------------------------------------------
(***************************************************************************)
(* The alerts, action by action.                                           *)
(***************************************************************************)
alertPart == <<outbox, queue, hand, posted, dropped, slack>>

LEMMA AlertsKept ==
    ASSUME AlertsOK, InOrderInv, UNCHANGED alertPart
    PROVE  AlertsOK' /\ InOrderInv' /\ On' = On /\ dropped' = dropped
<1>1. /\ outbox' = outbox /\ queue' = queue /\ hand' = hand /\ posted' = posted
      /\ dropped' = dropped /\ slack' = slack
    BY DEF alertPart
<1>2. AlertsOK'
    BY <1>1 DEF AlertsOK
<1>3. InOrderInv'
    BY <1>1 DEF InOrderInv
<1>4. On' = On
    BY <1>1 DEF On
<1> QED
    BY <1>1, <1>2, <1>3, <1>4

LEMMA AlertsSend ==
    ASSUME AlertsOK, InOrderInv, SendAlert
    PROVE  AlertsOK' /\ InOrderInv' /\ On' = On /\ dropped' = dropped
<1>1. /\ outbox # <<>> /\ queue' = Append(queue, Head(outbox)) /\ outbox' = Tail(outbox)
      /\ hand' = hand /\ posted' = posted /\ dropped' = dropped /\ slack' = slack
    BY DEF SendAlert, slackState, told
<1>2. PICK x, t : x = Head(outbox) /\ t = Tail(outbox)
    OBVIOUS
<1>3. outbox \in Seq(AnyAlert) /\ queue \in Seq(AnyAlert)
    BY DEF AlertsOK
<1>4. x \in AnyAlert /\ t \in Seq(AnyAlert) /\ ToSet(outbox) = {x} \union ToSet(t)
    BY <1>1, <1>2, <1>3, SetTail
<1>5. queue' \in Seq(AnyAlert) /\ ToSet(queue') = ToSet(queue) \union {x}
    BY <1>1, <1>2, <1>3, <1>4, SetAppend
<1>6. outbox' = t
    BY <1>1, <1>2
<1>7. SortedBy(t, Then) /\ \A y \in ToSet(t) : <<x, y>> \in Then
    BY <1>1, <1>2, <1>3, SortedTail DEF InOrderInv
<1>8. SortedBy(queue', Then)
    <2>1. SortedBy(queue, Then) /\ \A y \in ToSet(queue) : <<y, x>> \in Then
        BY <1>4 DEF InOrderInv, Follow
    <2> QED
        BY <1>1, <1>2, <1>3, <1>4, <2>1, SortedAppend
<1>9. AlertsOK'
    BY <1>1, <1>4, <1>5, <1>6 DEF AlertsOK
<1>10. InOrderInv'
    <2>1. /\ Follow(ToSet(posted), ToSet(queue')) /\ Follow(ToSet(posted), ToSet(t))
          /\ Follow(ToSet(hand), ToSet(queue')) /\ Follow(ToSet(hand), ToSet(t))
          /\ Follow(ToSet(queue'), ToSet(t))
        BY <1>4, <1>5, <1>7 DEF InOrderInv, Follow
    <2> QED
        BY <1>1, <1>6, <1>7, <1>8, <2>1 DEF InOrderInv
<1>11. On' = On
    BY <1>1, <1>4, <1>5, <1>6 DEF On
<1> QED
    BY <1>1, <1>9, <1>10, <1>11

\* The alert of another monitor, which has no block and no order.
LEMMA OtherIs ==
    ASSUME NEW k \in Nat
    PROVE  \E x \in AnyAlert :
              /\ x.message = 0 /\ x.kind = "other"
              /\ x = Alert(0, NoBlock, [kind |-> "other", event |-> k, name |-> "",
                                        direction |-> ""])
<1>1. PICK n \in Nat, c \in Block \union {NoBlock} : n = 0 /\ c = NoBlock
    OBVIOUS
<1>2. PICK d \in Kinds \union {"LowBalance", "other"} : d = "other"
    OBVIOUS
<1>3. PICK m \in Names : m = ""
    BY DEF Names
<1>4. PICK r \in {"", "Sender", "Receiver"} : r = ""
    OBVIOUS
<1>5. PICK x : x = [message |-> n, block |-> c, kind |-> d, event |-> k, name |-> m, direction |-> r]
    OBVIOUS
<1>6. x \in AnyAlert /\ x.message = n /\ x.kind = d
    BY <1>5 DEF AnyAlert
<1>7. x = Alert(0, NoBlock, [kind |-> "other", event |-> k, name |-> "", direction |-> ""])
    BY <1>1, <1>2, <1>3, <1>4, <1>5 DEF Alert
<1> QED
    BY <1>1, <1>2, <1>6, <1>7

LEMMA AlertsOther ==
    ASSUME Basics, AlertsOK, InOrderInv, OtherAlert
    PROVE  /\ AlertsOK' /\ InOrderInv' /\ dropped' = dropped
           /\ \E x \in AnyAlert : /\ x.message = 0 /\ queue' = Append(queue, x)
                                  /\ On' = On \union {x}
<1>0. others' \in Nat
    <2>1. others' = others + 1 /\ others \in 0 .. MaxOthers
        BY DEF OtherAlert, Basics
    <2> QED
        BY <2>1, PipelineAssumption
<1>1. PICK x \in AnyAlert :
          /\ x.message = 0
          /\ x = Alert(0, NoBlock, [kind |-> "other", event |-> others', name |-> "",
                                    direction |-> ""])
    BY <1>0, OtherIs
<1>2. /\ queue' = Append(queue, x) /\ outbox' = outbox /\ hand' = hand
      /\ posted' = posted /\ dropped' = dropped /\ slack' = slack
    BY <1>1 DEF OtherAlert, slackState, told, watcher
<1>4. x \in AnyAlert /\ x.message = 0
    BY <1>1
<1>5. queue \in Seq(AnyAlert)
    BY DEF AlertsOK
<1>6. queue' \in Seq(AnyAlert) /\ ToSet(queue') = ToSet(queue) \union {x}
    BY <1>2, <1>4, <1>5, SetAppend
<1>7. \A y \in AnyAlert : <<y, x>> \in Then /\ <<x, y>> \in Then
    BY <1>4 DEF Then, Before
<1>8. /\ ToSet(posted) \subseteq AnyAlert /\ ToSet(hand) \subseteq AnyAlert
      /\ ToSet(queue) \subseteq AnyAlert /\ ToSet(outbox) \subseteq AnyAlert
    BY DEF AlertsOK, ToSet
<1>9. SortedBy(queue', Then)
    <2>1. SortedBy(queue, Then) /\ \A y \in ToSet(queue) : <<y, x>> \in Then
        BY <1>7, <1>8 DEF InOrderInv
    <2> QED
        BY <1>2, <1>4, <1>5, <2>1, SortedAppend
<1>10. AlertsOK'
    BY <1>2, <1>6 DEF AlertsOK
<1>11. InOrderInv'
    <2>1. /\ Follow(ToSet(posted), ToSet(queue')) /\ Follow(ToSet(hand), ToSet(queue'))
          /\ Follow(ToSet(queue'), ToSet(outbox))
        BY <1>6, <1>7, <1>8 DEF InOrderInv, Follow
    <2> QED
        BY <1>2, <1>9, <2>1 DEF InOrderInv
<1>12. On' = On \union {x}
    BY <1>2, <1>6 DEF On
<1> QED
    BY <1>2, <1>4, <1>10, <1>11, <1>12

LEMMA AlertsTake ==
    ASSUME AlertsOK, InOrderInv, Take
    PROVE  AlertsOK' /\ InOrderInv' /\ On' = On /\ dropped' = dropped
<1>1. /\ slack = "recv" /\ queue # <<>> /\ slack' = "post" /\ hand' = <<Head(queue)>>
      /\ queue' = Tail(queue) /\ outbox' = outbox /\ posted' = posted /\ dropped' = dropped
    BY DEF Take, watcher, told
<1>2. PICK x, t : x = Head(queue) /\ t = Tail(queue)
    OBVIOUS
<1>3. queue \in Seq(AnyAlert) /\ hand = <<>>
    BY <1>1 DEF AlertsOK
<1>4. x \in AnyAlert /\ t \in Seq(AnyAlert) /\ ToSet(queue) = {x} \union ToSet(t)
    BY <1>1, <1>2, <1>3, SetTail
<1>5. hand' = <<x>> /\ queue' = t
    BY <1>1, <1>2
<1>6. ToSet(hand') = {x} /\ ToSet(hand) = {} /\ hand' \in Seq(AnyAlert)
    BY <1>3, <1>4, <1>5, SetOne, SetEmpty
<1>7. SortedBy(t, Then) /\ \A y \in ToSet(t) : <<x, y>> \in Then
    BY <1>1, <1>2, <1>3, SortedTail DEF InOrderInv
<1>8. AlertsOK'
    BY <1>1, <1>4, <1>5, <1>6 DEF AlertsOK
<1>9. InOrderInv'
    <2>1. /\ Follow(ToSet(posted), ToSet(hand')) /\ Follow(ToSet(posted), ToSet(t))
          /\ Follow(ToSet(hand'), ToSet(t)) /\ Follow(ToSet(hand'), ToSet(outbox))
          /\ Follow(ToSet(t), ToSet(outbox))
        BY <1>4, <1>6, <1>7 DEF InOrderInv, Follow
    <2> QED
        BY <1>1, <1>5, <1>7, <2>1 DEF InOrderInv
<1>10. On' = On
    BY <1>1, <1>4, <1>5, <1>6 DEF On
<1> QED
    BY <1>1, <1>8, <1>9, <1>10

\* A post that reached Slack, or did not.
LEMMA PostedIs ==
    ASSUME AlertsOK, InOrderInv, posted' \in {posted, posted \o hand}
    PROVE  /\ posted' \in Seq(AnyAlert) /\ SortedBy(posted', Then)
           /\ ToSet(posted') \subseteq ToSet(posted) \union ToSet(hand)
<1>1. posted \in Seq(AnyAlert) /\ SortedBy(posted, Then)
    BY DEF AlertsOK, InOrderInv
<1>2. CASE posted' = posted
    BY <1>1, <1>2
<1>3. CASE hand = <<>>
    <2>1. posted \o hand = posted
        BY <1>1, <1>3
    <2> QED
        BY <1>1, <2>1
<1>4. CASE posted' = posted \o hand /\ hand # <<>>
    <2>1. PICK x \in AnyAlert : hand = <<x>>
        BY <1>4 DEF AlertsOK
    <2>2. posted' = Append(posted, x)
        BY <1>1, <1>4, <2>1
    <2>3. ToSet(hand) = {x}
        BY <2>1, SetOne
    <2>4. posted' \in Seq(AnyAlert) /\ ToSet(posted') = ToSet(posted) \union {x}
        BY <1>1, <2>2, SetAppend
    <2>5. \A y \in ToSet(posted) : <<y, x>> \in Then
        BY <2>3 DEF InOrderInv, Follow
    <2>6. SortedBy(posted', Then)
        BY <1>1, <2>2, <2>5, SortedAppend
    <2> QED
        BY <2>3, <2>4, <2>6
<1> QED
    BY <1>2, <1>3, <1>4

LEMMA AlertsPost ==
    ASSUME AlertsOK, InOrderInv, Post \/ PostFails
    PROVE  /\ AlertsOK' /\ InOrderInv'
           /\ On' \subseteq On /\ dropped' \subseteq dropped \union On
<1>1. /\ posted' \in {posted, posted \o hand} /\ slack' = "recv" /\ hand' = <<>>
      /\ queue' = queue /\ outbox' = outbox
      /\ dropped' = dropped \/ dropped' = dropped \union ToSet(hand)
    BY DEF Post, PostFails, watcher
<1>2. /\ posted' \in Seq(AnyAlert) /\ SortedBy(posted', Then)
      /\ ToSet(posted') \subseteq ToSet(posted) \union ToSet(hand)
    BY <1>1, PostedIs
<1>3. ToSet(hand) \subseteq AnyAlert
    BY DEF AlertsOK, ToSet
<1>4. ToSet(hand') = {} /\ hand' \in Seq(AnyAlert)
    BY <1>1, SetEmpty
<1>5. AlertsOK'
    BY <1>1, <1>2, <1>3, <1>4 DEF AlertsOK
<1>6. InOrderInv'
    <2>1. /\ Follow(ToSet(posted'), ToSet(hand')) /\ Follow(ToSet(posted'), ToSet(queue))
          /\ Follow(ToSet(posted'), ToSet(outbox))
          /\ Follow(ToSet(hand'), ToSet(queue)) /\ Follow(ToSet(hand'), ToSet(outbox))
        BY <1>2, <1>4 DEF InOrderInv, Follow
    <2> QED
        BY <1>1, <1>2, <2>1 DEF InOrderInv
<1>7. On' \subseteq On /\ dropped' \subseteq dropped \union On
    BY <1>1, <1>2, <1>4 DEF On
<1> QED
    BY <1>5, <1>6, <1>7

LEMMA AlertsDown ==
    ASSUME AlertsOK, InOrderInv, Down
    PROVE  /\ AlertsOK' /\ InOrderInv'
           /\ On' \subseteq On /\ dropped' \subseteq dropped \union On
<1>1. /\ posted' \in {posted, posted \o hand} /\ slack' = "auth" /\ hand' = <<>>
      /\ queue' = <<>> /\ outbox' = <<>>
      /\ dropped' = dropped \union ToSet(outbox \o queue \o hand)
    BY DEF Down
<1>2. /\ posted' \in Seq(AnyAlert) /\ SortedBy(posted', Then)
      /\ ToSet(posted') \subseteq ToSet(posted) \union ToSet(hand)
    BY <1>1, PostedIs
<1>3. ToSet(outbox \o queue \o hand) = ToSet(outbox) \union ToSet(queue) \union ToSet(hand)
    <2>1. outbox \in Seq(AnyAlert) /\ queue \in Seq(AnyAlert) /\ hand \in Seq(AnyAlert)
        BY DEF AlertsOK
    <2>2. PICK r : r = outbox \o queue
        OBVIOUS
    <2>3. r \in Seq(AnyAlert) /\ ToSet(r) = ToSet(outbox) \union ToSet(queue)
        BY <2>1, <2>2, SetConcat
    <2>4. ToSet(r \o hand) = ToSet(r) \union ToSet(hand)
        BY <2>1, <2>3, SetConcat
    <2> QED
        BY <2>2, <2>3, <2>4
<1>4. /\ ToSet(hand) \subseteq AnyAlert /\ ToSet(queue) \subseteq AnyAlert
      /\ ToSet(outbox) \subseteq AnyAlert
    BY DEF AlertsOK, ToSet
<1>5. ToSet(<<>>) = {} /\ <<>> \in Seq(AnyAlert) /\ SortedBy(<<>>, Then)
    BY SetEmpty, SortedEmpty
<1>6. AlertsOK'
    BY <1>1, <1>2, <1>3, <1>4, <1>5 DEF AlertsOK
<1>7. InOrderInv'
    <2>1. \A S : Follow(S, {}) /\ Follow({}, S)
        BY DEF Follow
    <2> QED
        BY <1>1, <1>2, <1>5, <2>1 DEF InOrderInv
<1>8. On' \subseteq On /\ dropped' \subseteq dropped \union On
    BY <1>1, <1>2, <1>3, <1>5 DEF On
<1> QED
    BY <1>6, <1>7, <1>8

\* The alerts of a block are about that block, and deserved.
LEMMA OutAbout ==
    ASSUME NEW n \in Nat, NEW b \in Block, NEW s, NEW r, r = Out(n, b, s)
    PROVE  /\ r \in Seq(AnyAlert)
           /\ \A x \in ToSet(r) : x \in AnyAlert /\ x.message = n /\ x.block = b /\ Deserved(b, x)
<1>1. PICK m \in Nat : m = Len(AlertsOf(b, s))
    BY OutIs
<1>2. /\ r \in Seq(AnyAlert) /\ Len(r) = m
      /\ \A j \in 1 .. m : r[j].message = n /\ r[j].block = b
    BY <1>1, OutIs
<1>3. \A j \in 1 .. m : Deserved(b, r[j])
    BY <1>2, OutDeserved
<1>4. \A x \in ToSet(r) : \E j \in 1 .. m : x = r[j]
    BY <1>2 DEF ToSet
<1> QED
    BY <1>2, <1>3, <1>4

\* They come after what is on the way, since their block was pending.
LEMMA AlertsRead ==
    ASSUME FeedOK, AlertsOK, InOrderInv, AheadInv, NEW s, ReadBlock(s),
           NEW h, h = Head(pending)
    PROVE  /\ AlertsOK' /\ InOrderInv' /\ dropped' = dropped
           /\ outbox = <<>> /\ outbox' = Out(h[1], h[2], s)
           /\ queue' = queue /\ hand' = hand /\ posted' = posted
           /\ On' = On \union ToSet(outbox')
           /\ \A x \in ToSet(outbox') :
                 x \in AnyAlert /\ x.message = h[1] /\ x.block = h[2] /\ Deserved(h[2], x)
<1>1. /\ outbox = <<>> /\ queue' = queue /\ hand' = hand /\ posted' = posted
      /\ dropped' = dropped /\ slack' = slack
    BY DEF ReadBlock, slackState
<1>2. outbox' = Out(h[1], h[2], s)
    <2>1. PICK alerts \in {AlertsOf(h[2], s)} :
              outbox' = [i \in DOMAIN alerts |-> Alert(h[1], h[2], alerts[i])]
        BY Zenon DEF ReadBlock
    <2>2. alerts = AlertsOf(h[2], s)
        BY <2>1
    <2> QED
        BY <2>1, <2>2 DEF Out
<1>3. /\ h \in ToSet(pending) /\ h[1] \in Nat \ {0} /\ h[2] \in Block
    BY FeedRead
<1>4. PICK n \in Nat, b \in Block : n = h[1] /\ b = h[2] /\ n # 0
    BY <1>3
<1>5. PICK r : r = outbox'
    OBVIOUS
<1>6. /\ r \in Seq(AnyAlert)
      /\ \A x \in ToSet(r) : x \in AnyAlert /\ x.message = n /\ x.block = b /\ Deserved(b, x)
    BY <1>2, <1>4, <1>5, OutAbout
<1>7. AlertsOK'
    BY <1>1, <1>5, <1>6 DEF AlertsOK
<1>8. /\ ToSet(posted) \subseteq AnyAlert /\ ToSet(hand) \subseteq AnyAlert
      /\ ToSet(queue) \subseteq AnyAlert
    BY DEF AlertsOK, ToSet
<1>9. ASSUME NEW x \in On \cap AnyAlert, NEW y \in ToSet(r) PROVE <<x, y>> \in Then
    <2>1. y \in AnyAlert /\ y.message = n /\ y.block = b
        BY <1>6, <1>9
    <2>2. x.message # 0 => x.message < n \/ (x.message = n /\ Number[x.block] <= Number[b])
        BY <1>3, <1>4 DEF AheadInv, NotAfter
    <2>3. Before(x, y)
        BY <2>1, <2>2 DEF Before
    <2> QED
        BY <2>1, <2>3 DEF Then
<1>10. SortedBy(r, Then)
    <2>1. ASSUME NEW i \in DOMAIN r, NEW j \in DOMAIN r PROVE <<r[i], r[j]>> \in Then
        <3>1. r[i] \in ToSet(r) /\ r[j] \in ToSet(r)
            BY DEF ToSet
        <3>2. PICK x \in AnyAlert, y \in AnyAlert : x = r[i] /\ y = r[j]
            BY <1>6, <3>1
        <3>3. x.message = n /\ y.message = n /\ x.block = b /\ y.block = b
            BY <1>6, <3>1, <3>2
        <3>4. Number[b] \in Nat
            BY NumberIs
        <3>5. Before(x, y)
            BY <3>3, <3>4 DEF Before
        <3> QED
            BY <3>2, <3>5 DEF Then
    <2> QED
        BY <2>1 DEF SortedBy
<1>11. InOrderInv'
    <2>1. /\ Follow(ToSet(posted), ToSet(r)) /\ Follow(ToSet(hand), ToSet(r))
          /\ Follow(ToSet(queue), ToSet(r))
        BY <1>8, <1>9 DEF Follow, On
    <2> QED
        BY <1>1, <1>5, <1>10, <2>1 DEF InOrderInv
<1>12. On' = On \union ToSet(outbox')
    BY <1>1, SetEmpty DEF On
<1> QED
    BY <1>1, <1>2, <1>4, <1>5, <1>6, <1>7, <1>11, <1>12

-----------------------------------------------------------------------------
(***************************************************************************)
(* The invariant but for ToldOnce, action by action.                       *)
(***************************************************************************)
LEMMA AheadNext ==
    ASSUME AheadInv,
           \A x \in On' : x \in On \/ x.message = 0,
           \A n \in ToSet(feed') :
               n \in ToSet(feed) \/ \A x \in On : x.message # 0 => x.message < n,
           \A p \in ToSet(pending') :
               p \in ToSet(pending) \/ \A x \in On : x.message # 0 => NotAfter(x, p)
    PROVE  AheadInv'
<1>1. ASSUME NEW x \in On', x.message # 0
      PROVE  /\ \A n \in ToSet(feed') : x.message < n
             /\ \A p \in ToSet(pending') : NotAfter(x, p)
    <2>1. x \in On
        BY <1>1
    <2>2. /\ \A n \in ToSet(feed) : x.message < n
          /\ \A p \in ToSet(pending) : NotAfter(x, p)
        BY <1>1, <2>1 DEF AheadInv
    <2> QED
        BY <1>1, <2>1, <2>2
<1> QED
    BY <1>1 DEF AheadInv, NotAfter

LEMMA TrueNext ==
    ASSUME TrueInv, Read \subseteq Read',
           \A x \in On' \union dropped' : x \in On \union dropped \/ x.message = 0
    PROVE  TrueInv'
<1>1. ASSUME NEW x \in On' \union dropped', x.message # 0
      PROVE  <<x.message, x.block>> \in Read' /\ Deserved(x.block, x)
    BY <1>1 DEF TrueInv
<1> QED
    BY <1>1 DEF TrueInv, Deserved

\* The balances that can fail to be read are finitely many.
LEMMA FailuresFinite ==
    ASSUME NEW s \in SUBSET Addresses(AccountBalanceAlerts)
    PROVE  Cardinality(s) \in Nat
<1>1. PICK L : L = AccountBalanceAlerts
    OBVIOUS
<1>2. L \in Seq([name : STRING, address : Account, threshold_ai3 : Nat])
    BY <1>1, WatcherAssumption
<1>3. PICK m \in Nat : DOMAIN L = 1 .. m
    BY <1>2
<1>4. PICK T : T = Addresses(L)
    OBVIOUS
<1>5. T = {L[i].address : i \in 1 .. m}
    BY <1>3, <1>4 DEF Addresses
<1>6. PICK q : q = [i \in 1 .. m |-> L[i].address]
    OBVIOUS
<1>7. q \in Seq(T) /\ Len(q) = m
    BY <1>5, <1>6
<1>8. \A t \in T : \E i \in 1 .. Len(q) : q[i] = t
    BY <1>5, <1>6, <1>7
<1>9. IsFiniteSet(T)
    BY <1>7, <1>8 DEF IsFiniteSet
<1>10. IsFiniteSet(s)
    BY <1>1, <1>4, <1>9, FS_Subset
<1> QED
    BY <1>10, FS_CardinalityType

LEMMA SafeKept ==
    ASSUME SafeInv, Basics', UNCHANGED feedPart, UNCHANGED alertPart
    PROVE  SafeInv' /\ Read' = Read
<1>1. FeedOK' /\ Read' = Read
    BY FeedKept DEF SafeInv
<1>2. AlertsOK' /\ InOrderInv' /\ On' = On /\ dropped' = dropped
    BY AlertsKept DEF SafeInv
<1>3. AheadInv'
    <2>1. feed' = feed /\ pending' = pending
        BY DEF feedPart
    <2> QED
        BY <1>2, <2>1, AheadNext DEF SafeInv
<1>4. TrueInv'
    BY <1>1, <1>2, TrueNext DEF SafeInv
<1> QED
    BY <1>1, <1>2, <1>3, <1>4 DEF SafeInv

LEMMA SafeLoad ==
    ASSUME SafeInv, NEW b \in Block, Load(b)
    PROVE  SafeInv' /\ Read' = Read
<1>1. /\ tip' = b /\ up' = up /\ lagged' = lagged /\ feed' = feed
      /\ others' = others /\ faults' = faults /\ exits' = exits
    BY DEF Load, bounds
<1>2. Basics'
    BY <1>1 DEF SafeInv, Basics
<1>3. UNCHANGED feedPart /\ UNCHANGED alertPart
    BY DEF Load, watcher, slackState, told, feedPart, alertPart
<1> QED
    BY <1>2, <1>3, SafeKept

LEMMA SafeAuth ==
    ASSUME SafeInv, AuthTest
    PROVE  SafeInv' /\ Read' = Read
<1>1. /\ tip' = tip /\ up' = up /\ lagged' = lagged /\ feed' = feed
      /\ others' = others /\ faults' = faults /\ exits' = exits
    BY DEF AuthTest, feedState, bounds
<1>2. Basics'
    BY <1>1 DEF SafeInv, Basics
<1>3. UNCHANGED feedPart
    BY DEF AuthTest, feedState, watcher, told, feedPart
<1>4. /\ slack = "auth" /\ slack' = "recv" /\ queue' = queue /\ hand' = hand
      /\ outbox' = outbox /\ posted' = posted /\ dropped' = dropped
    BY DEF AuthTest, watcher, told
<1>5. AlertsOK' /\ InOrderInv' /\ On' = On
    <2>1. AlertsOK'
        BY <1>4 DEF SafeInv, AlertsOK
    <2>2. InOrderInv'
        BY <1>4 DEF SafeInv, InOrderInv
    <2>3. On' = On
        BY <1>4 DEF On
    <2> QED
        BY <2>1, <2>2, <2>3
<1>6. FeedOK' /\ Read' = Read
    BY <1>3, FeedKept DEF SafeInv
<1>7. feed' = feed /\ pending' = pending
    BY <1>3 DEF feedPart
<1>8. AheadInv'
    BY <1>5, <1>7, AheadNext DEF SafeInv
<1>9. TrueInv'
    BY <1>4, <1>5, <1>6, TrueNext DEF SafeInv
<1> QED
    BY <1>2, <1>5, <1>6, <1>8, <1>9 DEF SafeInv

LEMMA SafeRestart ==
    ASSUME SafeInv, Restart
    PROVE  SafeInv' /\ Read' = Read
<1>1. /\ tip' = tip /\ up' = TRUE /\ lagged' = lagged /\ feed' = feed
      /\ others' = others /\ faults' = faults /\ exits' = exits
    BY DEF Restart, feedState, bounds
<1>2. Basics'
    BY <1>1 DEF SafeInv, Basics
<1>3. UNCHANGED feedPart /\ UNCHANGED alertPart
    BY DEF Restart, feedState, watcher, slackState, told, feedPart, alertPart
<1> QED
    BY <1>2, <1>3, SafeKept

\* The new message has a number of its own.
LEMMA SafePublish ==
    ASSUME SafeInv, NEW b \in Block, PublishBlocks(b)
    PROVE  SafeInv' /\ Read' = Read
<1>1. /\ FeedOK' /\ Read' = Read /\ Len(feed') <= Capacity
      /\ ToSet(feed') \subseteq ToSet(feed) \union {Len(published) + 1}
    BY FeedPublish DEF SafeInv
<1>2. /\ tip' = b /\ up' = up /\ lagged' \in {lagged, TRUE} /\ pending' = pending
      /\ others' = others /\ faults' = faults /\ exits' = exits
    BY DEF PublishBlocks, bounds, watcher
<1>3. Basics'
    BY <1>1, <1>2 DEF SafeInv, Basics
<1>4. UNCHANGED alertPart
    BY DEF PublishBlocks, watcher, slackState, alertPart
<1>5. AlertsOK' /\ InOrderInv' /\ On' = On /\ dropped' = dropped
    BY <1>4, AlertsKept DEF SafeInv
<1>6. ASSUME NEW x \in On, x.message # 0 PROVE x.message < Len(published) + 1
    <2>1. <<x.message, x.block>> \in Read
        BY <1>6 DEF SafeInv, TrueInv
    <2>2. <<x.message, x.block>> \in PairsOf(published, DOMAIN published)
        BY <2>1, ReadIs DEF ReadOf
    <2>3. PICK n \in DOMAIN published :
              \E c \in ToSet(published[n]) : <<x.message, x.block>> = <<n, c>>
        BY <2>2, PairsIs
    <2>4. published \in Seq(Seq(Block))
        BY DEF SafeInv, FeedOK, FeedInv, FeedTypes
    <2>5. x.message = n
        BY <2>3
    <2>6. n \in 1 .. Len(published) /\ Len(published) \in Nat
        BY <2>4
    <2> QED
        BY <2>5, <2>6
<1>7. AheadInv'
    <2>1. \A n \in ToSet(feed') :
              n \in ToSet(feed) \/ \A x \in On : x.message # 0 => x.message < n
        BY <1>1, <1>6
    <2> QED
        BY <1>2, <1>5, <2>1, AheadNext DEF SafeInv
<1>8. TrueInv'
    BY <1>1, <1>5, TrueNext DEF SafeInv
<1> QED
    BY <1>1, <1>3, <1>5, <1>7, <1>8 DEF SafeInv

LEMMA SafeRecv ==
    ASSUME SafeInv, Recv
    PROVE  SafeInv' /\ Read' = Read
<1>1. /\ FeedOK' /\ Read' = Read /\ ToSet(feed') \subseteq ToSet(feed)
      /\ \A p \in ToSet(pending') : p[1] \in ToSet(feed)
      /\ Len(feed') <= Capacity
    BY FeedRecv DEF SafeInv
<1>2. /\ tip' = tip /\ up' = up /\ lagged' = lagged
      /\ others' = others /\ faults' = faults /\ exits' = exits
    BY DEF Recv, bounds
<1>3. Basics'
    BY <1>1, <1>2 DEF SafeInv, Basics
<1>4. UNCHANGED alertPart
    BY DEF Recv, slackState, told, alertPart
<1>5. AlertsOK' /\ InOrderInv' /\ On' = On /\ dropped' = dropped
    BY <1>4, AlertsKept DEF SafeInv
<1>6. ASSUME NEW x \in On, x.message # 0, NEW p \in ToSet(pending') PROVE NotAfter(x, p)
    <2>1. x.message < p[1]
        BY <1>1, <1>6 DEF SafeInv, AheadInv
    <2> QED
        BY <2>1 DEF NotAfter
<1>7. AheadInv'
    BY <1>1, <1>5, <1>6, AheadNext DEF SafeInv
<1>8. TrueInv'
    BY <1>1, <1>5, TrueNext DEF SafeInv
<1> QED
    BY <1>1, <1>3, <1>5, <1>7, <1>8 DEF SafeInv

LEMMA SafeSend ==
    ASSUME SafeInv, SendAlert
    PROVE  SafeInv' /\ Read' = Read
<1>1. /\ tip' = tip /\ up' = up /\ lagged' = lagged /\ feed' = feed /\ pending' = pending
      /\ others' = others /\ faults' = faults /\ exits' = exits
    BY DEF SendAlert, feedState, bounds
<1>2. Basics'
    BY <1>1 DEF SafeInv, Basics
<1>3. UNCHANGED feedPart
    BY DEF SendAlert, feedState, told, feedPart
<1>4. FeedOK' /\ Read' = Read
    BY <1>3, FeedKept DEF SafeInv
<1>5. AlertsOK' /\ InOrderInv' /\ On' = On /\ dropped' = dropped
    BY AlertsSend DEF SafeInv
<1>6. AheadInv'
    BY <1>1, <1>5, AheadNext DEF SafeInv
<1>7. TrueInv'
    BY <1>4, <1>5, TrueNext DEF SafeInv
<1> QED
    BY <1>2, <1>4, <1>5, <1>6, <1>7 DEF SafeInv

LEMMA SafeOther ==
    ASSUME SafeInv, OtherAlert
    PROVE  SafeInv' /\ Read' = Read
<1>1. /\ tip' = tip /\ up' = up /\ lagged' = lagged /\ feed' = feed /\ pending' = pending
      /\ others' = others + 1 /\ others < MaxOthers /\ faults' = faults /\ exits' = exits
    BY DEF OtherAlert, feedState, watcher
<1>2. others' \in 0 .. MaxOthers
    BY <1>1, PipelineAssumption DEF SafeInv, Basics
<1>3. Basics'
    BY <1>1, <1>2 DEF SafeInv, Basics
<1>4. UNCHANGED feedPart
    BY DEF OtherAlert, feedState, watcher, told, feedPart
<1>5. FeedOK' /\ Read' = Read
    BY <1>4, FeedKept DEF SafeInv
<1>6. AlertsOK' /\ InOrderInv' /\ dropped' = dropped
    BY AlertsOther DEF SafeInv
<1>7. PICK y \in AnyAlert : y.message = 0 /\ On' = On \union {y}
    BY AlertsOther DEF SafeInv
<1>8. AheadInv'
    BY <1>1, <1>7, AheadNext DEF SafeInv
<1>9. TrueInv'
    BY <1>5, <1>6, <1>7, TrueNext DEF SafeInv
<1> QED
    BY <1>3, <1>5, <1>6, <1>8, <1>9 DEF SafeInv

LEMMA SafeTake ==
    ASSUME SafeInv, Take
    PROVE  SafeInv' /\ Read' = Read
<1>1. /\ tip' = tip /\ up' = up /\ lagged' = lagged /\ feed' = feed /\ pending' = pending
      /\ others' = others /\ faults' = faults /\ exits' = exits
    BY DEF Take, feedState, watcher, bounds
<1>2. Basics'
    BY <1>1 DEF SafeInv, Basics
<1>3. UNCHANGED feedPart
    BY DEF Take, feedState, watcher, told, feedPart
<1>4. FeedOK' /\ Read' = Read
    BY <1>3, FeedKept DEF SafeInv
<1>5. AlertsOK' /\ InOrderInv' /\ On' = On /\ dropped' = dropped
    BY AlertsTake DEF SafeInv
<1>6. AheadInv'
    BY <1>1, <1>5, AheadNext DEF SafeInv
<1>7. TrueInv'
    BY <1>4, <1>5, TrueNext DEF SafeInv
<1> QED
    BY <1>2, <1>4, <1>5, <1>6, <1>7 DEF SafeInv

LEMMA SafePost ==
    ASSUME SafeInv, Post \/ PostFails
    PROVE  SafeInv' /\ Read' = Read
<1>1. /\ tip' = tip /\ up' = up /\ lagged' = lagged /\ feed' = feed /\ pending' = pending
      /\ others' = others /\ exits' = exits
      /\ faults' = faults \/ (faults' = faults + 1 /\ faults' <= MaxFaults)
    BY DEF Post, PostFails, Fault, feedState, watcher, bounds
<1>2. faults' \in 0 .. MaxFaults
    BY <1>1, PipelineAssumption DEF SafeInv, Basics
<1>3. Basics'
    BY <1>1, <1>2 DEF SafeInv, Basics
<1>4. UNCHANGED feedPart
    BY DEF Post, PostFails, feedState, watcher, feedPart
<1>5. FeedOK' /\ Read' = Read
    BY <1>4, FeedKept DEF SafeInv
<1>6. AlertsOK' /\ InOrderInv' /\ On' \subseteq On /\ dropped' \subseteq dropped \union On
    BY AlertsPost DEF SafeInv
<1>7. AheadInv'
    BY <1>1, <1>6, AheadNext DEF SafeInv
<1>8. TrueInv'
    BY <1>5, <1>6, TrueNext DEF SafeInv
<1> QED
    BY <1>3, <1>5, <1>6, <1>7, <1>8 DEF SafeInv

\* Both ways the process ends.
LEMMA SafeDown ==
    ASSUME SafeInv, RecvLagged \/ Exit
    PROVE  SafeInv' /\ Read' = Read
<1>0. Down
    BY DEF RecvLagged, Exit
<1>1. /\ tip' = NoBlock /\ up' = FALSE /\ lagged' = FALSE
      /\ others' = others /\ faults' = faults
    BY <1>0 DEF Down
<1>2. exits' \in 0 .. MaxExits
    <2>1. exits' = exits \/ (exits < MaxExits /\ exits' = exits + 1)
        BY DEF RecvLagged, Exit
    <2> QED
        BY <2>1, PipelineAssumption DEF SafeInv, Basics
<1>3. FeedOK' /\ Read' = Read /\ feed' = <<>> /\ pending' = <<>>
    BY <1>0, FeedDown DEF SafeInv
<1>4. Basics'
    <2>1. Len(<<>>) <= Capacity
        BY PipelineAssumption
    <2> QED
        BY <1>1, <1>2, <1>3, <2>1 DEF SafeInv, Basics
<1>5. AlertsOK' /\ InOrderInv' /\ On' \subseteq On /\ dropped' \subseteq dropped \union On
    BY <1>0, AlertsDown DEF SafeInv
<1>6. AheadInv'
    <2>1. ToSet(feed') = {} /\ ToSet(pending') = {}
        BY <1>3, SetEmpty
    <2> QED
        BY <1>5, <2>1, AheadNext DEF SafeInv
<1>7. TrueInv'
    BY <1>3, <1>5, TrueNext DEF SafeInv
<1> QED
    BY <1>3, <1>4, <1>5, <1>6, <1>7 DEF SafeInv

LEMMA SafeRead ==
    ASSUME SafeInv, NEW s \in SUBSET Addresses(AccountBalanceAlerts), ReadBlock(s)
    PROVE  SafeInv'
<1>1. PICK h : h = Head(pending)
    OBVIOUS
<1>2. /\ FeedOK' /\ Read' = Read \union {h} /\ feed' = feed
      /\ ToSet(pending') \subseteq ToSet(pending) /\ h \in ToSet(pending)
      /\ h[1] \in Nat \ {0} /\ h[2] \in Block /\ h = <<h[1], h[2]>>
    BY <1>1, FeedRead DEF SafeInv
<1>3. \A p \in ToSet(pending') : <<h, p>> \in Ahead
    BY <1>1, FeedRead DEF SafeInv
<1>4. /\ AlertsOK' /\ InOrderInv' /\ dropped' = dropped /\ On' = On \union ToSet(outbox')
      /\ \A x \in ToSet(outbox') :
            x \in AnyAlert /\ x.message = h[1] /\ x.block = h[2] /\ Deserved(h[2], x)
    BY <1>1, AlertsRead DEF SafeInv
<1>5. Basics'
    <2>1. /\ tip' = tip /\ up' = up /\ lagged' = lagged /\ others' = others /\ exits' = exits
          /\ faults' = faults + Cardinality(s) /\ faults' <= MaxFaults
        BY DEF ReadBlock, Fault, feedState
    <2>2. faults' \in 0 .. MaxFaults
        BY <2>1, FailuresFinite, PipelineAssumption DEF SafeInv, Basics
    <2> QED
        BY <1>2, <2>1, <2>2 DEF SafeInv, Basics
<1>6. AheadInv'
    <2>1. ASSUME NEW x \in On', x.message # 0
          PROVE  /\ \A n \in ToSet(feed') : x.message < n
                 /\ \A p \in ToSet(pending') : NotAfter(x, p)
        <3>1. CASE x \in On
            BY <1>2, <2>1, <3>1 DEF SafeInv, AheadInv
        <3>2. CASE x \in ToSet(outbox')
            <4>1. x.message = h[1] /\ x.block = h[2]
                BY <1>4, <3>2
            <4>2. \A n \in ToSet(feed) : h[1] < n
                BY <1>2 DEF SafeInv, FeedOK, FeedInv, FeedOrder
            <4>3. ASSUME NEW p \in ToSet(pending') PROVE NotAfter(x, p)
                <5>1. p \in Nat \X Block /\ h[1] = p[1] /\ Number[h[2]] < Number[p[2]]
                    BY <1>3 DEF Ahead
                <5>2. Number[h[2]] \in Nat /\ Number[p[2]] \in Nat
                    BY <1>2, <5>1, NumberIs
                <5> QED
                    BY <4>1, <5>1, <5>2 DEF NotAfter
            <4> QED
                BY <1>2, <4>1, <4>2, <4>3
        <3> QED
            BY <1>4, <3>1, <3>2
    <2> QED
        BY <2>1 DEF AheadInv, NotAfter
<1>7. TrueInv'
    <2>1. ASSUME NEW x \in On' \union dropped', x.message # 0
          PROVE  <<x.message, x.block>> \in Read' /\ Deserved(x.block, x)
        <3>1. CASE x \in On \union dropped
            BY <1>2, <2>1, <3>1 DEF SafeInv, TrueInv
        <3>2. CASE x \in ToSet(outbox')
            BY <1>2, <1>4, <3>2
        <3> QED
            BY <1>4, <3>1, <3>2
    <2> QED
        BY <2>1 DEF TrueInv, Deserved
<1> QED
    BY <1>2, <1>4, <1>5, <1>6, <1>7 DEF SafeInv

-----------------------------------------------------------------------------
(***************************************************************************)
(* ToldOnce, by counting: a step moves the alerts of a set S from one      *)
(* place to the next and leaves their number alone.                        *)
(***************************************************************************)
AccountedIn(po, way, dr, S) ==
    /\ Times(po, S) <= 1
    /\ Times(way, S) <= 1
    /\ Times(way, S) = 0 => Times(po, S) = 1 \/ dr \intersect S # {}
    /\ Times(way, S) = 1 => Times(po, S) = 0 /\ dr \intersect S = {}

Told(p, po, way, dr, sk) ==
    /\ \A i \in DOMAIN Events[p[2]] :
          Worthy(Events[p[2]][i]) => AccountedIn(po, way, dr, EventAlerts(p, i))
    /\ \A a \in Account :
          LowIn(p[2], a) => \/ AccountedIn(po, way, dr, LowAlerts(p, a))
                            \/ <<p[1], p[2], a>> \in sk

LEMMA ToldIs == ToldOnce <=> \A p \in Read : Told(p, posted, OnTheWay, dropped, skipped)
BY Zenon DEF ToldOnce, Read, Told, Accounted, AccountedIn

LEMMA ToldIsNext ==
    ToldOnce' <=> \A p \in Read' : Told(p, posted', OnTheWay', dropped', skipped')
<1>1. ASSUME NEW S
      PROVE  Accounted(S)' <=> AccountedIn(posted', OnTheWay', dropped', S)
    BY Zenon DEF Accounted, AccountedIn, Times
<1> QED
    BY <1>1, Zenon DEF ToldOnce, Read, Told, Accounted, AccountedIn, Times, EventAlerts, LowAlerts,
       Worthy, LowIn, Of

Tellable(S) == S \subseteq AnyAlert /\ \A x \in S : x.message # 0

LEMMA SetsTellable ==
    ASSUME NEW p
    PROVE  (\A i : Tellable(EventAlerts(p, i))) /\ (\A a : Tellable(LowAlerts(p, a)))
BY DEF Tellable, EventAlerts, LowAlerts

LEMMA ToldNext ==
    ASSUME ToldOnce, Read' = Read, skipped' = skipped,
           \A S : Tellable(S) /\ AccountedIn(posted, OnTheWay, dropped, S)
                     => AccountedIn(posted', OnTheWay', dropped', S)
    PROVE  ToldOnce'
<1>1. ASSUME NEW p \in Read PROVE Told(p, posted', OnTheWay', dropped', skipped')
    <2>1. Told(p, posted, OnTheWay, dropped, skipped)
        BY ToldIs
    <2> QED
        BY <2>1, SetsTellable, Zenon DEF Told
<1> QED
    BY <1>1, ToldIsNext

\* Nothing of S is in a sequence it is counted zero times in.
LEMMA TimesZero ==
    ASSUME NEW s \in Seq(AnyAlert), NEW S
    PROVE  Times(s, S) \in Nat /\ (Times(s, S) = 0 <=> ToSet(s) \cap S = {})
<1>1. Times(s, S) \in Nat
    BY CountNat DEF Times
<1>2. ASSUME ToSet(s) \cap S # {} PROVE Times(s, S) # 0
    <2>1. PICK i \in 1 .. Len(s) : s[i] \in S
        BY <1>2 DEF ToSet
    <2>2. PICK k : k = Len(Among(s, S))
        OBVIOUS
    <2>3. \E j \in 1 .. k : Among(s, S)[j] = s[i]
        BY <2>1, <2>2, AmongHas
    <2>4. k # 0
        BY <2>3
    <2> QED
        BY <2>2, <2>4 DEF Times
<1>3. ASSUME ToSet(s) \cap S = {} PROVE Times(s, S) = 0
    <2>1. \A i \in 1 .. Len(s) : s[i] \notin S
        BY <1>3 DEF ToSet
    <2> QED
        BY <2>1, CountNone DEF Times
<1> QED
    BY <1>1, <1>2, <1>3

LEMMA TimesEmpty ==
    ASSUME NEW S
    PROVE  Times(<<>>, S) = 0
<1>1. <<>> \in Seq(AnyAlert) /\ ToSet(<<>>) = {}
    BY SetEmpty
<1> QED
    BY <1>1, TimesZero

LEMMA TimesWay ==
    ASSUME NEW o \in Seq(AnyAlert), NEW q \in Seq(AnyAlert), NEW h \in Seq(AnyAlert), NEW S
    PROVE  Times(o \o q \o h, S) = Times(o, S) + Times(q, S) + Times(h, S)
<1>1. PICK r : r = o \o q
    OBVIOUS
<1>2. r \in Seq(AnyAlert)
    BY <1>1
<1>3. Len(Among(r, S)) = Len(Among(o, S)) + Len(Among(q, S))
    BY <1>1, CountConcat
<1>4. Len(Among(r \o h, S)) = Len(Among(r, S)) + Len(Among(h, S))
    BY <1>2, CountConcat
<1> QED
    BY <1>1, <1>3, <1>4 DEF Times

LEMMA WayNow ==
    ASSUME AlertsOK, NEW S
    PROVE  /\ Times(OnTheWay, S) = Times(outbox, S) + Times(queue, S) + Times(hand, S)
           /\ Times(outbox, S) \in Nat /\ Times(queue, S) \in Nat
           /\ Times(hand, S) \in Nat /\ Times(posted, S) \in Nat
<1>1. /\ outbox \in Seq(AnyAlert) /\ queue \in Seq(AnyAlert) /\ hand \in Seq(AnyAlert)
      /\ posted \in Seq(AnyAlert)
    BY DEF AlertsOK
<1> QED
    BY <1>1, TimesWay, TimesZero DEF OnTheWay

LEMMA WayNext ==
    ASSUME AlertsOK', NEW S
    PROVE  Times(OnTheWay', S) = Times(outbox', S) + Times(queue', S) + Times(hand', S)
<1>1. outbox' \in Seq(AnyAlert) /\ queue' \in Seq(AnyAlert) /\ hand' \in Seq(AnyAlert)
    BY DEF AlertsOK
<1>2. OnTheWay' = outbox' \o queue' \o hand'
    BY DEF OnTheWay
<1> QED
    BY <1>1, <1>2, TimesWay

\* Nothing changes but the numbers in the places on the way.
LEMMA ToldMoved ==
    ASSUME AlertsOK, AlertsOK', ToldOnce, Read' = Read, skipped' = skipped,
           posted' = posted, dropped' = dropped,
           \A S : Tellable(S) =>
               Times(outbox', S) + Times(queue', S) + Times(hand', S)
                   = Times(outbox, S) + Times(queue, S) + Times(hand, S)
    PROVE  ToldOnce'
<1>1. ASSUME NEW S, Tellable(S), AccountedIn(posted, OnTheWay, dropped, S)
      PROVE  AccountedIn(posted', OnTheWay', dropped', S)
    <2>1. Times(OnTheWay', S) = Times(OnTheWay, S)
        BY <1>1, WayNow, WayNext
    <2> QED
        BY <1>1, <2>1 DEF AccountedIn
<1> QED
    BY <1>1, ToldNext

LEMMA ToldKept ==
    ASSUME ToldOnce, Read' = Read, skipped' = skipped,
           posted' = posted, dropped' = dropped,
           outbox' = outbox, queue' = queue, hand' = hand
    PROVE  ToldOnce'
<1>1. OnTheWay' = OnTheWay
    BY DEF OnTheWay
<1> QED
    BY <1>1, ToldNext

LEMMA ToldSend ==
    ASSUME SafeInv, SafeInv', ToldOnce, Read' = Read, SendAlert
    PROVE  ToldOnce'
<1>1. /\ outbox # <<>> /\ queue' = Append(queue, Head(outbox)) /\ outbox' = Tail(outbox)
      /\ hand' = hand /\ posted' = posted /\ dropped' = dropped /\ skipped' = skipped
    BY DEF SendAlert, slackState, told
<1>2. outbox \in Seq(AnyAlert) /\ queue \in Seq(AnyAlert) /\ AlertsOK /\ AlertsOK'
    BY DEF SafeInv, AlertsOK
<1>3. PICK x \in AnyAlert : x = Head(outbox)
    BY <1>1, <1>2
<1>4. ASSUME NEW S
      PROVE  Times(outbox', S) + Times(queue', S) + Times(hand', S)
                 = Times(outbox, S) + Times(queue, S) + Times(hand, S)
    <2>1. PICK c : c = Len(Among(<<x>>, S))
        OBVIOUS
    <2>2. Len(Among(outbox, S)) = c + Len(Among(outbox', S))
        BY <1>1, <1>2, <1>3, <2>1, CountTail
    <2>3. Len(Among(queue', S)) = Len(Among(queue, S)) + c
        BY <1>1, <1>2, <1>3, <2>1, CountAppend
    <2>4. outbox' \in Seq(AnyAlert) /\ <<x>> \in Seq(AnyAlert)
        BY <1>1, <1>2
    <2>5. c \in Nat /\ Len(Among(outbox', S)) \in Nat
        BY <2>1, <2>4, CountNat
    <2>6. Times(queue, S) \in Nat /\ Times(hand, S) \in Nat
        BY <1>2, WayNow
    <2>7. /\ Times(outbox, S) = c + Times(outbox', S) /\ Times(outbox', S) \in Nat
          /\ Times(queue', S) = Times(queue, S) + c
        BY <2>2, <2>3, <2>5 DEF Times
    <2> QED
        BY <1>1, <2>5, <2>6, <2>7
<1> QED
    BY <1>1, <1>2, <1>4, ToldMoved

LEMMA ToldOther ==
    ASSUME SafeInv, SafeInv', ToldOnce, Read' = Read, OtherAlert
    PROVE  ToldOnce'
<1>1. /\ outbox' = outbox /\ hand' = hand /\ posted' = posted /\ dropped' = dropped
      /\ skipped' = skipped
    BY DEF OtherAlert, watcher, slackState, told
<1>2. PICK x \in AnyAlert : x.message = 0 /\ queue' = Append(queue, x)
    BY AlertsOther DEF SafeInv
<1>3. queue \in Seq(AnyAlert) /\ AlertsOK /\ AlertsOK'
    BY DEF SafeInv, AlertsOK
<1>4. ASSUME NEW S, Tellable(S)
      PROVE  Times(queue', S) = Times(queue, S)
    <2>1. x \notin S
        BY <1>2, <1>4 DEF Tellable
    <2>2. ToSet(<<x>>) \cap S = {} /\ <<x>> \in Seq(AnyAlert)
        BY <2>1, SetOne
    <2>3. Times(<<x>>, S) = 0
        BY <2>2, TimesZero
    <2>4. Len(Among(queue', S)) = Len(Among(queue, S)) + Len(Among(<<x>>, S))
        BY <1>2, <1>3, CountAppend
    <2>5. Len(Among(queue, S)) \in Nat
        BY <1>3, CountNat
    <2> QED
        BY <2>3, <2>4, <2>5 DEF Times
<1> QED
    BY <1>1, <1>3, <1>4, ToldMoved

LEMMA ToldTake ==
    ASSUME SafeInv, SafeInv', ToldOnce, Read' = Read, Take
    PROVE  ToldOnce'
<1>1. /\ slack = "recv" /\ queue # <<>> /\ hand' = <<Head(queue)>> /\ queue' = Tail(queue)
      /\ outbox' = outbox /\ posted' = posted /\ dropped' = dropped /\ skipped' = skipped
    BY DEF Take, watcher, told
<1>2. queue \in Seq(AnyAlert) /\ AlertsOK /\ AlertsOK' /\ hand = <<>>
    BY <1>1 DEF SafeInv, AlertsOK
<1>3. ASSUME NEW S
      PROVE  Times(outbox', S) + Times(queue', S) + Times(hand', S)
                 = Times(outbox, S) + Times(queue, S) + Times(hand, S)
    <2>1. Len(Among(queue, S)) = Len(Among(hand', S)) + Len(Among(queue', S))
        BY <1>1, <1>2, CountTail
    <2>2. queue' \in Seq(AnyAlert) /\ hand' \in Seq(AnyAlert)
        BY <1>2 DEF AlertsOK
    <2>3. Len(Among(hand', S)) \in Nat /\ Len(Among(queue', S)) \in Nat
        BY <2>2, CountNat
    <2>4. Times(hand, S) = 0 /\ Times(outbox, S) \in Nat
        BY <1>2, TimesEmpty, WayNow
    <2> QED
        BY <1>1, <2>1, <2>3, <2>4 DEF Times
<1> QED
    BY <1>1, <1>2, <1>3, ToldMoved

\* How often S is in Slack after a post that reached it, or did not.
LEMMA TimesPosted ==
    ASSUME AlertsOK, NEW S, posted' \in {posted, posted \o hand}
    PROVE  Times(posted', S) \in {Times(posted, S), Times(posted, S) + Times(hand, S)}
<1>1. posted \in Seq(AnyAlert) /\ hand \in Seq(AnyAlert)
    BY DEF AlertsOK
<1>2. Len(Among(posted \o hand, S)) = Len(Among(posted, S)) + Len(Among(hand, S))
    BY <1>1, CountConcat
<1> QED
    BY <1>2 DEF Times

LEMMA ToldPost ==
    ASSUME SafeInv, SafeInv', ToldOnce, Read' = Read, Post
    PROVE  ToldOnce'
<1>1. /\ posted' = posted \o hand /\ hand' = <<>> /\ queue' = queue /\ outbox' = outbox
      /\ dropped' = dropped /\ skipped' = skipped
    BY DEF Post, watcher
<1>2. AlertsOK /\ AlertsOK' /\ posted \in Seq(AnyAlert) /\ hand \in Seq(AnyAlert)
    BY DEF SafeInv, AlertsOK
<1>3. ASSUME NEW S, AccountedIn(posted, OnTheWay, dropped, S)
      PROVE  AccountedIn(posted', OnTheWay', dropped', S)
    <2>1. PICK po, o, q, h \in Nat : /\ po = Times(posted, S) /\ o = Times(outbox, S)
                                     /\ q = Times(queue, S) /\ h = Times(hand, S)
        BY <1>2, WayNow
    <2>2. Times(OnTheWay, S) = o + q + h
        BY <1>2, <2>1, WayNow
    <2>3. Times(OnTheWay', S) = o + q
        BY <1>1, <1>2, <2>1, WayNext, TimesEmpty
    <2>4. Times(posted', S) = po + h
        <3>1. Len(Among(posted \o hand, S)) = Len(Among(posted, S)) + Len(Among(hand, S))
            BY <1>2, CountConcat
        <3> QED
            BY <1>1, <2>1, <3>1 DEF Times
    <2>5. /\ po <= 1 /\ o + q + h <= 1
          /\ o + q + h = 0 => po = 1 \/ dropped \cap S # {}
          /\ o + q + h = 1 => po = 0 /\ dropped \cap S = {}
        BY <1>3, <2>1, <2>2 DEF AccountedIn
    <2>6. /\ po + h <= 1 /\ o + q <= 1
          /\ o + q = 0 => po + h = 1 \/ dropped \cap S # {}
          /\ o + q = 1 => po + h = 0 /\ dropped \cap S = {}
        BY <2>5
    <2> QED
        BY <1>1, <2>3, <2>4, <2>6 DEF AccountedIn
<1> QED
    BY <1>1, <1>3, ToldNext

\* What is on the way is dropped, all of it or the alert in hand; a post may
\* have reached Slack all the same.
LEMMA ToldLost ==
    ASSUME AlertsOK, AlertsOK', ToldOnce, Read' = Read, skipped' = skipped,
           posted' \in {posted, posted \o hand}, hand' = <<>>,
           \/ /\ queue' = queue /\ outbox' = outbox
              /\ dropped' = dropped \union ToSet(hand)
           \/ /\ queue' = <<>> /\ outbox' = <<>>
              /\ dropped' = dropped \union ToSet(outbox) \union ToSet(queue) \union ToSet(hand)
    PROVE  ToldOnce'
<1>1. outbox \in Seq(AnyAlert) /\ queue \in Seq(AnyAlert) /\ hand \in Seq(AnyAlert)
    BY DEF AlertsOK
<1>2. ASSUME NEW S, AccountedIn(posted, OnTheWay, dropped, S)
      PROVE  AccountedIn(posted', OnTheWay', dropped', S)
    <2>1. PICK po, o, q, h \in Nat : /\ po = Times(posted, S) /\ o = Times(outbox, S)
                                     /\ q = Times(queue, S) /\ h = Times(hand, S)
        BY WayNow
    <2>2. Times(OnTheWay, S) = o + q + h
        BY <2>1, WayNow
    <2>3. /\ po <= 1 /\ o + q + h <= 1
          /\ o + q + h = 0 => po = 1 \/ dropped \cap S # {}
          /\ o + q + h = 1 => po = 0 /\ dropped \cap S = {}
        BY <1>2, <2>1, <2>2 DEF AccountedIn
    <2>4. /\ o = 0 <=> ToSet(outbox) \cap S = {}
          /\ q = 0 <=> ToSet(queue) \cap S = {}
          /\ h = 0 <=> ToSet(hand) \cap S = {}
        BY <1>1, <2>1, TimesZero
    <2>5. PICK k \in Nat : k = Times(posted', S) /\ (k = po \/ k = po + h)
        BY <2>1, TimesPosted
    <2>6. CASE queue' = queue /\ outbox' = outbox /\ dropped' = dropped \union ToSet(hand)
        <3>1. Times(OnTheWay', S) = o + q
            BY <2>1, <2>6, WayNext, TimesEmpty
        <3>2. dropped' \cap S = (dropped \cap S) \union (ToSet(hand) \cap S)
            BY <2>6
        <3>3. CASE h = 0
            <4>1. dropped' \cap S = dropped \cap S /\ k = po
                BY <2>4, <2>5, <3>2, <3>3
            <4>2. o + q = o + q + h
                BY <3>3
            <4> QED
                BY <2>3, <2>5, <3>1, <4>1, <4>2 DEF AccountedIn
        <3>4. CASE h # 0
            <4>1. h = 1 /\ o + q = 0 /\ po = 0
                BY <2>3, <3>4
            <4>2. dropped' \cap S # {}
                BY <2>4, <3>2, <3>4
            <4>3. k <= 1
                BY <2>5, <4>1
            <4> QED
                BY <2>5, <3>1, <4>1, <4>2, <4>3 DEF AccountedIn
        <3> QED
            BY <3>3, <3>4
    <2>7. CASE /\ queue' = <<>> /\ outbox' = <<>>
               /\ dropped' = dropped \union ToSet(outbox) \union ToSet(queue) \union ToSet(hand)
        <3>1. Times(OnTheWay', S) = 0
            BY <2>7, WayNext, TimesEmpty
        <3>2. dropped' \cap S = (dropped \cap S) \union (ToSet(outbox) \cap S)
                                    \union (ToSet(queue) \cap S) \union (ToSet(hand) \cap S)
            BY <2>7
        <3>3. CASE o + q + h = 0
            <4>1. o = 0 /\ q = 0 /\ h = 0
                BY <3>3
            <4>2. dropped' \cap S = dropped \cap S /\ k = po
                BY <2>4, <2>5, <3>2, <4>1
            <4> QED
                BY <2>3, <2>5, <3>1, <3>3, <4>2 DEF AccountedIn
        <3>4. CASE o + q + h # 0
            <4>1. o # 0 \/ q # 0 \/ h # 0
                BY <3>4
            <4>2. dropped' \cap S # {}
                BY <2>4, <3>2, <4>1
            <4>3. k <= 1
                BY <2>3, <2>5, <3>4
            <4> QED
                BY <2>5, <3>1, <4>2, <4>3 DEF AccountedIn
        <3> QED
            BY <3>3, <3>4
    <2> QED
        BY <2>6, <2>7
<1> QED
    BY <1>2, ToldNext

LEMMA ToldPostFails ==
    ASSUME SafeInv, SafeInv', ToldOnce, Read' = Read, PostFails
    PROVE  ToldOnce'
<1>1. /\ posted' \in {posted, posted \o hand} /\ hand' = <<>>
      /\ queue' = queue /\ outbox' = outbox /\ skipped' = skipped
      /\ dropped' = dropped \union ToSet(hand)
    BY DEF PostFails, watcher
<1> QED
    BY <1>1, ToldLost DEF SafeInv

LEMMA ToldDown ==
    ASSUME SafeInv, SafeInv', ToldOnce, Read' = Read, Down
    PROVE  ToldOnce'
<1>1. /\ posted' \in {posted, posted \o hand} /\ hand' = <<>>
      /\ queue' = <<>> /\ outbox' = <<>> /\ skipped' = skipped
      /\ dropped' = dropped \union ToSet(outbox \o queue \o hand)
    BY DEF Down
<1>2. outbox \in Seq(AnyAlert) /\ queue \in Seq(AnyAlert) /\ hand \in Seq(AnyAlert)
    BY DEF SafeInv, AlertsOK
<1>3. PICK r : r = outbox \o queue
    OBVIOUS
<1>4. r \in Seq(AnyAlert) /\ ToSet(r) = ToSet(outbox) \union ToSet(queue)
    BY <1>2, <1>3, SetConcat
<1>5. ToSet(r \o hand) = ToSet(r) \union ToSet(hand)
    BY <1>2, <1>4, SetConcat
<1>6. dropped' = dropped \union ToSet(outbox) \union ToSet(queue) \union ToSet(hand)
    BY <1>1, <1>3, <1>4, <1>5
<1> QED
    BY <1>1, <1>6, ToldLost DEF SafeInv

\* A block is read: its alerts are new, and none of another block.
LEMMA ToldRead ==
    ASSUME SafeInv, SafeInv', ToldOnce, NEW s, ReadBlock(s)
    PROVE  ToldOnce'
<1>1. PICK h : h = Head(pending)
    OBVIOUS
<1>2. /\ Read' = Read \union {h} /\ h \notin Read
      /\ h[1] \in Nat \ {0} /\ h[2] \in Block /\ h = <<h[1], h[2]>>
    BY <1>1, FeedRead DEF SafeInv
<1>3. /\ dropped' = dropped /\ outbox = <<>> /\ outbox' = Out(h[1], h[2], s)
      /\ queue' = queue /\ hand' = hand /\ posted' = posted
      /\ \A x \in ToSet(outbox') : x.message = h[1] /\ x.block = h[2]
    BY <1>1, AlertsRead DEF SafeInv
<1>4. skipped' = skipped \union {<<h[1], h[2], a>> : a \in s}
    BY <1>1 DEF ReadBlock
<1>5. /\ AlertsOK /\ AlertsOK' /\ outbox' \in Seq(AnyAlert) /\ queue \in Seq(AnyAlert)
      /\ hand \in Seq(AnyAlert) /\ posted \in Seq(AnyAlert)
    BY DEF SafeInv, AlertsOK
<1>6. PICK n \in Nat \ {0}, b \in Block : n = h[1] /\ b = h[2]
    BY <1>2
<1>7. h = <<n, b>>
    BY <1>2, <1>6
<1>8. ASSUME NEW p \in Read PROVE Told(p, posted', OnTheWay', dropped', skipped')
    <2>1. p # h /\ p = <<p[1], p[2]>>
        <3>1. p \in PairsOf(published, DOMAIN published)
            BY <1>8, ReadIs DEF ReadOf
        <3>2. p = <<p[1], p[2]>>
            BY <3>1, PairsIs
        <3> QED
            BY <1>2, <1>8, <3>2
    <2>2. ASSUME NEW S, \A x \in S : Of(p, x), AccountedIn(posted, OnTheWay, dropped, S)
          PROVE  AccountedIn(posted', OnTheWay', dropped', S)
        <3>1. ToSet(outbox') \cap S = {}
            <4>1. ASSUME NEW x \in ToSet(outbox'), x \in S PROVE FALSE
                <5>1. x.message = h[1] /\ x.block = h[2] /\ x.message = p[1] /\ x.block = p[2]
                    BY <1>3, <2>2, <4>1 DEF Of
                <5> QED
                    BY <1>2, <2>1, <5>1
            <4> QED
                BY <4>1
        <3>2. Times(outbox', S) = 0 /\ Times(outbox, S) = 0
            BY <1>3, <1>5, <3>1, TimesZero, TimesEmpty
        <3>3. Times(OnTheWay', S) = Times(OnTheWay, S)
            BY <1>3, <1>5, <3>2, WayNow, WayNext
        <3> QED
            BY <1>3, <2>2, <3>3 DEF AccountedIn
    <2>3. Told(p, posted, OnTheWay, dropped, skipped)
        BY <1>8, ToldIs
    <2>4. /\ \A i : \A x \in EventAlerts(p, i) : Of(p, x)
          /\ \A a : \A x \in LowAlerts(p, a) : Of(p, x)
        BY DEF EventAlerts, LowAlerts
    <2>5. \A a : <<p[1], p[2], a>> \in skipped => <<p[1], p[2], a>> \in skipped'
        BY <1>4
    <2> QED
        BY <2>2, <2>3, <2>4, <2>5, Zenon DEF Told
<1>9. ASSUME NEW S, Tellable(S), \A x \in S : Of(h, x), Times(Out(n, b, s), S) = 1
      PROVE  AccountedIn(posted', OnTheWay', dropped', S)
    <2>1. ASSUME NEW x \in On \union dropped, x \in S PROVE FALSE
        <3>1. x.message = h[1] /\ x.block = h[2] /\ x.message # 0
            BY <1>9, <2>1 DEF Of, Tellable
        <3>2. <<x.message, x.block>> \in Read
            BY <2>1, <3>1 DEF SafeInv, TrueInv
        <3> QED
            BY <1>2, <3>1, <3>2
    <2>2. /\ ToSet(posted) \cap S = {} /\ ToSet(queue) \cap S = {} /\ ToSet(hand) \cap S = {}
          /\ dropped \cap S = {}
        BY <2>1 DEF On
    <2>3. Times(posted, S) = 0 /\ Times(queue, S) = 0 /\ Times(hand, S) = 0
        BY <1>5, <2>2, TimesZero
    <2>4. Times(outbox', S) = 1
        BY <1>3, <1>6, <1>9
    <2>5. Times(OnTheWay', S) = 1
        BY <1>3, <1>5, <2>3, <2>4, WayNext
    <2> QED
        BY <1>3, <2>2, <2>3, <2>5 DEF AccountedIn
<1>10. Told(h, posted', OnTheWay', dropped', skipped')
    <2>1. ASSUME NEW i \in DOMAIN Events[b], Worthy(Events[b][i])
          PROVE  AccountedIn(posted', OnTheWay', dropped', EventAlerts(h, i))
        <3>1. PICK S : S = EventAlerts(h, i)
            OBVIOUS
        <3>2. Tellable(S) /\ \A x \in S : Of(h, x)
            BY <3>1, SetsTellable DEF EventAlerts
        <3>3. Times(Out(n, b, s), S) = 1
            BY <1>7, <2>1, <3>1, OutTellsEvent
        <3> QED
            BY <1>9, <3>1, <3>2, <3>3
    <2>2. ASSUME NEW a \in Account, LowIn(b, a), a \notin s
          PROVE  AccountedIn(posted', OnTheWay', dropped', LowAlerts(h, a))
        <3>1. PICK S : S = LowAlerts(h, a)
            OBVIOUS
        <3>2. Tellable(S) /\ \A x \in S : Of(h, x)
            <4>1. Tellable(S)
                BY <3>1, SetsTellable
            <4>2. \A x \in LowAlerts(h, a) : Of(h, x)
                BY DEF LowAlerts
            <4> QED
                BY <3>1, <4>1, <4>2
        <3>3. Times(Out(n, b, s), S) = 1
            BY <1>7, <2>2, <3>1, OutTellsLow
        <3> QED
            BY <1>9, <3>1, <3>2, <3>3
    <2>3. \A a \in s : <<h[1], h[2], a>> \in skipped'
        BY <1>4
    <2> QED
        BY <1>6, <2>1, <2>2, <2>3, Zenon DEF Told
<1> QED
    BY <1>2, <1>8, <1>10, ToldIsNext

-----------------------------------------------------------------------------
(***************************************************************************)
(* The invariant holds, and what it says.                                  *)
(***************************************************************************)
LEMMA InitIInv == Init => IInv
<1> SUFFICES ASSUME Init PROVE IInv
    OBVIOUS
<1>1. /\ up = TRUE /\ lagged = FALSE /\ tip = NoBlock
      /\ feed = <<>> /\ published = <<>> /\ pending = <<>> /\ unread = {}
      /\ outbox = <<>> /\ queue = <<>> /\ hand = <<>> /\ posted = <<>> /\ dropped = {}
      /\ slack = "auth" /\ others = 0 /\ faults = 0 /\ exits = 0
    BY DEF Init
<1>2. Basics
    <2>1. Len(<<>>) <= Capacity /\ 0 \in 0 .. MaxOthers /\ 0 \in 0 .. MaxFaults
          /\ 0 \in 0 .. MaxExits
        BY PipelineAssumption
    <2> QED
        BY <1>1, <2>1 DEF Basics
<1>3. ToSet(<<>>) = {} /\ DOMAIN <<>> = {} /\ \A R : SortedBy(<<>>, R)
    BY SetEmpty, SortedEmpty
<1>4. FeedOK
    <2>1. PairsOf(published, {}) = {}
        BY PairsIs
    <2>2. FeedTypes(published, feed, pending, unread)
        BY <1>1 DEF FeedTypes
    <2>3. FeedOrder(published, feed, pending, unread)
        BY <1>1, <1>3, <2>1 DEF FeedOrder
    <2> QED
        BY <2>2, <2>3 DEF FeedOK, FeedInv
<1>5. AlertsOK
    BY <1>1 DEF AlertsOK
<1>6. InOrderInv
    BY <1>1, <1>3 DEF InOrderInv, Follow
<1>7. On = {} /\ AheadInv /\ TrueInv
    BY <1>1, <1>3 DEF On, AheadInv, TrueInv
<1>8. ToldOnce
    <2>1. PairsOf(published, DOMAIN published) = {}
        BY <1>1, <1>3, PairsIs
    <2>2. Read = {}
        BY <2>1, ReadIs DEF ReadOf
    <2> QED
        BY <2>2, ToldIs
<1> QED
    BY <1>2, <1>4, <1>5, <1>6, <1>7, <1>8 DEF IInv, SafeInv

LEMMA StepIInv == IInv /\ [Next]_vars => IInv'
<1> SUFFICES ASSUME SafeInv, ToldOnce, [Next]_vars PROVE SafeInv' /\ ToldOnce'
    BY DEF IInv
<1>1. ASSUME NEW b \in Block, Load(b) PROVE SafeInv' /\ ToldOnce'
    <2>1. SafeInv' /\ Read' = Read
        BY <1>1, SafeLoad
    <2>2. /\ posted' = posted /\ dropped' = dropped /\ skipped' = skipped
          /\ outbox' = outbox /\ queue' = queue /\ hand' = hand
        BY <1>1 DEF Load, watcher, slackState, told
    <2> QED
        BY <2>1, <2>2, ToldKept
<1>2. ASSUME NEW b \in Block, PublishBlocks(b) PROVE SafeInv' /\ ToldOnce'
    <2>1. SafeInv' /\ Read' = Read
        BY <1>2, SafePublish
    <2>2. /\ posted' = posted /\ dropped' = dropped /\ skipped' = skipped
          /\ outbox' = outbox /\ queue' = queue /\ hand' = hand
        BY <1>2 DEF PublishBlocks, watcher, slackState
    <2> QED
        BY <2>1, <2>2, ToldKept
<1>3. CASE Recv
    <2>1. SafeInv' /\ Read' = Read
        BY <1>3, SafeRecv
    <2>2. /\ posted' = posted /\ dropped' = dropped /\ skipped' = skipped
          /\ outbox' = outbox /\ queue' = queue /\ hand' = hand
        BY <1>3 DEF Recv, slackState, told
    <2> QED
        BY <2>1, <2>2, ToldKept
<1>4. CASE RecvLagged \/ Exit
    <2>1. SafeInv' /\ Read' = Read
        BY <1>4, SafeDown
    <2>2. Down
        BY <1>4 DEF RecvLagged, Exit
    <2> QED
        BY <2>1, <2>2, ToldDown
<1>5. CASE SendAlert
    <2>1. SafeInv' /\ Read' = Read
        BY <1>5, SafeSend
    <2> QED
        BY <1>5, <2>1, ToldSend
<1>6. ASSUME NEW s \in SUBSET Addresses(AccountBalanceAlerts), ReadBlock(s)
      PROVE  SafeInv' /\ ToldOnce'
    <2>1. SafeInv'
        BY <1>6, SafeRead
    <2> QED
        BY <1>6, <2>1, ToldRead
<1>7. CASE OtherAlert
    <2>1. SafeInv' /\ Read' = Read
        BY <1>7, SafeOther
    <2> QED
        BY <1>7, <2>1, ToldOther
<1>8. CASE AuthTest
    <2>1. SafeInv' /\ Read' = Read
        BY <1>8, SafeAuth
    <2>2. /\ posted' = posted /\ dropped' = dropped /\ skipped' = skipped
          /\ outbox' = outbox /\ queue' = queue /\ hand' = hand
        BY <1>8 DEF AuthTest, watcher, told
    <2> QED
        BY <2>1, <2>2, ToldKept
<1>9. CASE Take
    <2>1. SafeInv' /\ Read' = Read
        BY <1>9, SafeTake
    <2> QED
        BY <1>9, <2>1, ToldTake
<1>10. CASE Post
    <2>1. SafeInv' /\ Read' = Read
        BY <1>10, SafePost
    <2> QED
        BY <1>10, <2>1, ToldPost
<1>11. CASE PostFails
    <2>1. SafeInv' /\ Read' = Read
        BY <1>11, SafePost
    <2> QED
        BY <1>11, <2>1, ToldPostFails
<1>12. CASE Restart
    <2>1. SafeInv' /\ Read' = Read
        BY <1>12, SafeRestart
    <2>2. /\ posted' = posted /\ dropped' = dropped /\ skipped' = skipped
          /\ outbox' = outbox /\ queue' = queue /\ hand' = hand
        BY <1>12 DEF Restart, watcher, slackState, told
    <2> QED
        BY <2>1, <2>2, ToldKept
<1>13. CASE UNCHANGED vars
    <2>1. UNCHANGED <<feedState, watcher, queue, slackState, told, bounds, up>>
        BY <1>13 DEF vars
    <2>2. /\ tip' = tip /\ up' = up /\ lagged' = lagged /\ feed' = feed
          /\ others' = others /\ faults' = faults /\ exits' = exits
        BY <2>1 DEF feedState, bounds
    <2>3. Basics'
        BY <2>2 DEF SafeInv, Basics
    <2>4. UNCHANGED feedPart /\ UNCHANGED alertPart
        BY <2>1 DEF feedState, watcher, slackState, told, feedPart, alertPart
    <2>5. SafeInv' /\ Read' = Read
        BY <2>3, <2>4, SafeKept
    <2>6. /\ posted' = posted /\ dropped' = dropped /\ skipped' = skipped
          /\ outbox' = outbox /\ queue' = queue /\ hand' = hand
        BY <2>1 DEF watcher, slackState, told
    <2> QED
        BY <2>5, <2>6, ToldKept
<1> QED
    BY <1>1, <1>2, <1>3, <1>4, <1>5, <1>6, <1>7, <1>8, <1>9, <1>10, <1>11, <1>12, <1>13
    DEF Next, Watch, Slack

LEMMA InvariantHolds == Spec => []IInv
BY InitIInv, StepIInv, PTL DEF Spec

LEMMA TypesFollow == IInv => TypeOK
<1> SUFFICES ASSUME SafeInv PROVE TypeOK
    BY DEF IInv
<1>1. /\ published \in Seq(Seq(Block)) /\ feed \in Seq(DOMAIN published)
      /\ pending \in Seq(Nat \X Block)
      /\ ToSet(pending) \subseteq PairsOf(published, DOMAIN published)
    BY DEF SafeInv, FeedOK, FeedInv, FeedTypes, FeedOrder
<1>2. \A n \in ToSet(feed) : n \in DOMAIN published
    BY <1>1 DEF ToSet
<1>3. ASSUME NEW p \in ToSet(pending) PROVE p[1] \in DOMAIN published /\ p[2] \in Block
    <2>1. p \in Nat \X Block
        BY <1>1 DEF ToSet
    <2>2. PICK n \in DOMAIN published : \E b \in ToSet(published[n]) : p = <<n, b>>
        BY <1>1, PairsIs
    <2> QED
        BY <2>1, <2>2
<1>4. slack \in {"auth", "recv", "post"} /\ (slack = "post" <=> hand # <<>>)
    <2>1. /\ slack \in {"auth", "recv", "post"}
          /\ slack = "post" => \E x \in AnyAlert : hand = <<x>>
          /\ slack # "post" => hand = <<>>
        BY DEF SafeInv, AlertsOK
    <2>2. \A x : <<x>> # <<>>
        OBVIOUS
    <2> QED
        BY <2>1, <2>2, Zenon
<1>5. ASSUME NEW x \in Alerts \union ToSet(posted) \union dropped
      PROVE  x.message \in 0 .. Len(published) /\ x.kind \in Kinds \union {"LowBalance", "other"}
    <2>1. x \in On \union dropped
        BY DEF Alerts, On, ToSet
    <2>2. x \in AnyAlert
        BY <2>1 DEF SafeInv, AlertsOK, On, ToSet
    <2>3. x.kind \in Kinds \union {"LowBalance", "other"}
        BY <2>2 DEF AnyAlert
    <2>4. CASE x.message # 0
        <3>1. <<x.message, x.block>> \in PairsOf(published, DOMAIN published)
            BY <2>1, <2>4, ReadIs DEF SafeInv, TrueInv, ReadOf
        <3>2. PICK n \in DOMAIN published :
                  \E b \in ToSet(published[n]) : <<x.message, x.block>> = <<n, b>>
            BY <3>1, PairsIs
        <3>3. x.message = n
            BY <3>2
        <3>4. n \in 0 .. Len(published)
            BY <1>1
        <3> QED
            BY <2>3, <3>3, <3>4
    <2>5. CASE x.message = 0
        <3>1. 0 \in 0 .. Len(published)
            BY <1>1
        <3> QED
            BY <2>3, <2>5, <3>1
    <2> QED
        BY <2>4, <2>5
<1> QED
    BY <1>2, <1>3, <1>4, <1>5 DEF TypeOK, SafeInv, Basics

LEMMA OrderFollows == IInv => ToldInOrder
<1> SUFFICES ASSUME SafeInv PROVE ToldInOrder
    BY DEF IInv
<1>1. ASSUME NEW i \in DOMAIN posted, NEW j \in DOMAIN posted, i < j
      PROVE  Before(posted[i], posted[j])
    <2>1. <<posted[i], posted[j]>> \in Then
        BY <1>1 DEF SafeInv, InOrderInv, SortedBy
    <2>2. PICK x, y : x = posted[i] /\ y = posted[j]
        OBVIOUS
    <2>3. Before(x, y)
        BY <2>1, <2>2 DEF Then
    <2> QED
        BY <2>2, <2>3
<1> QED
    BY <1>1 DEF ToldInOrder

LEMMA TruthFollows == IInv => ToldTrue
<1> SUFFICES ASSUME SafeInv PROVE ToldTrue
    BY DEF IInv
<1>1. ASSUME NEW x \in ToSet(posted), x.message # 0
      PROVE  <<x.message, x.block>> \in Read /\ Deserved(x.block, x)
    BY <1>1 DEF SafeInv, TrueInv, On
<1> QED
    BY <1>1 DEF ToldTrue, Read, Deserved

(***************************************************************************)
(* At all times the tasks of the alerter hold values of their types, the   *)
(* feed no more messages than its capacity, and the Slack task an alert    *)
(* exactly while it posts it.                                              *)
(***************************************************************************)
THEOREM TypeCorrect == Spec => []TypeOK
BY InvariantHolds, TypesFollow, PTL

(***************************************************************************)
(* The Slack channel shows the blocks in the order the tracker published   *)
(* them in and each message from its lowest block on, whatever the tree,   *)
(* the events, the failed posts and the restarts of the process.           *)
(***************************************************************************)
THEOREM AlertsInOrder == Spec => []ToldInOrder
BY InvariantHolds, OrderFollows, PTL

(***************************************************************************)
(* An alert of `watch_events` that reached Slack is about a block that was *)
(* published and read, and about an event the configuration asks for or an *)
(* account that was below its threshold in that block.                     *)
(***************************************************************************)
THEOREM AlertsTrue == Spec => []ToldTrue
BY InvariantHolds, TruthFollows, PTL

(***************************************************************************)
(* Every event worth an alert, of every block each time it is published    *)
(* and read, is on the way exactly once, or was posted once, or was        *)
(* dropped with a failed post or with the process; and so is an account    *)
(* that is low after a withdrawal, unless its balance could not be read.   *)
(***************************************************************************)
THEOREM AlertsOnce == Spec => []ToldOnce
<1>1. IInv => ToldOnce
    BY DEF IInv
<1> QED
    BY <1>1, InvariantHolds, PTL
=============================================================================
