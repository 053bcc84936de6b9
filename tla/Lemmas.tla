------------------------------- MODULE Lemmas -------------------------------
(***************************************************************************)
(* Facts about naturals, sequences and trees that the proofs of several    *)
(* components need.  Induction is written as a choice of the least         *)
(* counterexample.                                                         *)
(***************************************************************************)
EXTENDS SeqOps, NaturalsInduction, WellFoundedInduction, TLAPS

\* A set of naturals that is not empty has a least element.
LEMMA LeastNat ==
    ASSUME NEW T \in SUBSET Nat, T # {}
    PROVE  \E m \in T : \A y \in T : m <= y
<1>1. PICK m \in T : \A y \in T : <<y, m>> \notin OpToRel(<, Nat)
    BY NatLessThanWellFounded, WFMin, Zenon
<1>2. \A y \in T : ~(y < m)
    BY <1>1 DEF OpToRel
<1> QED
    BY <1>2

\* Induction: a set of naturals that holds zero and the successor of each of
\* its members holds them all.
LEMMA NatClosed ==
    ASSUME NEW T, 0 \in T, \A n \in Nat : n \in T => n + 1 \in T
    PROVE  Nat \subseteq T
<1> DEFINE B == {n \in Nat : n \notin T}
<1>1. SUFFICES ASSUME B # {} PROVE FALSE
    OBVIOUS
<1>2. PICK m \in B : \A y \in B : m <= y
    <2> HIDE DEF B
    <2>1. B \in SUBSET Nat
        BY DEF B
    <2> QED
        BY <1>1, <2>1, LeastNat
<1>3. m \in Nat /\ m # 0 /\ m \notin T
    OBVIOUS
<1>4. m - 1 \in Nat /\ ~(m <= m - 1)
    BY <1>3
<1>5. m - 1 \in T
    BY <1>2, <1>4
<1> QED
    BY <1>3, <1>4, <1>5

\* The first n elements of a sequence.
LEMMA PrefixIs ==
    ASSUME NEW S, NEW v \in Seq(S), NEW n \in Nat, n <= Len(v)
    PROVE  /\ SubSeq(v, 1, n) \in Seq(S)
           /\ Len(SubSeq(v, 1, n)) = n
           /\ \A i \in 1 .. n : SubSeq(v, 1, n)[i] = v[i]
<1>1. SubSeq(v, 1, n) \in Seq(S)
    OBVIOUS
<1>2. Len(SubSeq(v, 1, n)) = n
    OBVIOUS
<1>3. \A i \in 1 .. n : SubSeq(v, 1, n)[i] = v[i]
    OBVIOUS
<1> QED
    BY <1>1, <1>2, <1>3
-----------------------------------------------------------------------------
\* f[i] holds the elements in S of the first i of s.
Filters(f, s, S) ==
    f = [i \in 0 .. Len(s) |->
            IF i = 0 THEN <<>>
            ELSE IF s[i] \in S THEN Append(f[i - 1], s[i]) ELSE f[i - 1]]

LEMMA FiltersExist ==
    ASSUME NEW X, NEW s \in Seq(X), NEW S
    PROVE  \E f : Filters(f, s, S)
<1> DEFINE G(f, n) ==
        f = [i \in 0 .. n |->
                IF i = 0 THEN <<>>
                ELSE IF s[i] \in S THEN Append(f[i - 1], s[i]) ELSE f[i - 1]]
<1> DEFINE T == {n \in Nat : \E f : G(f, n)}
<1>1. 0 \in T
    <2>1. G([i \in 0 .. 0 |-> <<>>], 0)
        OBVIOUS
    <2> QED
        BY <2>1
<1>2. ASSUME NEW n \in Nat, n \in T PROVE n + 1 \in T
    <2>1. PICK f : G(f, n)
        BY <1>2
    <2> DEFINE e == [i \in 0 .. n + 1 |->
                        IF i = n + 1
                        THEN IF s[i] \in S THEN Append(f[n], s[i]) ELSE f[n]
                        ELSE f[i]]
    <2>2. ASSUME NEW i \in 0 .. n + 1
          PROVE  e[i] = IF i = 0 THEN <<>>
                        ELSE IF s[i] \in S THEN Append(e[i - 1], s[i]) ELSE e[i - 1]
        <3>1. \A j \in 0 .. n :
                f[j] = IF j = 0 THEN <<>>
                       ELSE IF s[j] \in S THEN Append(f[j - 1], s[j]) ELSE f[j - 1]
            BY <2>1
        <3>2. CASE i = n + 1
            <4>1. /\ e[i] = IF s[i] \in S THEN Append(f[n], s[i]) ELSE f[n]
                  /\ e[i - 1] = f[n] /\ i # 0
                BY <3>2
            <4> HIDE DEF e
            <4> QED
                BY <4>1
        <3>3. CASE i # n + 1
            <4>1. e[i] = f[i] /\ i \in 0 .. n /\ (i # 0 => e[i - 1] = f[i - 1])
                BY <3>3
            <4> HIDE DEF e
            <4> QED
                BY <3>1, <4>1
        <3> QED
            BY <3>2, <3>3
    <2>3. G(e, n + 1)
        BY <2>2
    <2>4. \E x : G(x, n + 1)
        <3> HIDE DEF e, G
        <3> QED
            BY <2>3
    <2> HIDE DEF G
    <2> QED
        BY <2>4
<1>3. Nat \subseteq T
    <2> HIDE DEF T
    <2> QED
        BY <1>1, <1>2, NatClosed
<1> QED
    BY <1>3 DEF Filters

LEMMA AmongIs ==
    ASSUME NEW X, NEW s \in Seq(X), NEW S
    PROVE  \E f : Filters(f, s, S) /\ Among(s, S) = f[Len(s)]
<1> DEFINE f == CHOOSE f : Filters(f, s, S)
<1>1. Filters(f, s, S)
    BY FiltersExist
<1>2. Among(s, S) = f[Len(s)]
    BY DEF Among, Filters
<1> QED
    BY <1>1, <1>2

LEMMA FiltersStep ==
    ASSUME NEW f, NEW s, NEW S, Filters(f, s, S), Len(s) \in Nat
    PROVE  /\ f[0] = <<>>
           /\ \A i \in 1 .. Len(s) :
                 /\ s[i] \in S => f[i] = Append(f[i - 1], s[i])
                 /\ s[i] \notin S => f[i] = f[i - 1]
<1>1. \A i \in 0 .. Len(s) :
        f[i] = IF i = 0 THEN <<>>
               ELSE IF s[i] \in S THEN Append(f[i - 1], s[i]) ELSE f[i - 1]
    BY Zenon DEF Filters
<1>2. 0 \in 0 .. Len(s) /\ \A i \in 1 .. Len(s) : i \in 0 .. Len(s) /\ i # 0
    OBVIOUS
<1> QED
    BY <1>1, <1>2, Zenon

\* The same as one fact.
OneByOne(f, s, S) ==
    \A i \in 1 .. Len(s) : /\ s[i] \in S => f[i] = Append(f[i - 1], s[i])
                           /\ s[i] \notin S => f[i] = f[i - 1]

LEMMA FiltersSteps ==
    ASSUME NEW f, NEW s, NEW S, Filters(f, s, S), Len(s) \in Nat
    PROVE  OneByOne(f, s, S)
BY FiltersStep DEF OneByOne

LEMMA AppendType ==
    ASSUME NEW Y, NEW q \in Seq(Y), NEW y \in Y
    PROVE  Append(q, y) \in Seq(Y)
OBVIOUS

LEMMA FiltersType ==
    ASSUME NEW X, NEW s \in Seq(X), NEW S, NEW f, Filters(f, s, S)
    PROVE  \A i \in 0 .. Len(s) : f[i] \in Seq(X \cap S)
<1>0. Len(s) \in Nat
    OBVIOUS
<1>1. /\ f[0] = <<>>
      /\ \A i \in 1 .. Len(s) :
            /\ s[i] \in S => f[i] = Append(f[i - 1], s[i])
            /\ s[i] \notin S => f[i] = f[i - 1]
    BY <1>0, FiltersStep, Zenon
<1>2. \A i \in 1 .. Len(s) : s[i] \in X
    OBVIOUS
<1> DEFINE T == {n \in Nat : n <= Len(s) => f[n] \in Seq(X \cap S)}
<1>3. 0 \in T
    <2>1. <<>> \in Seq(X \cap S)
        OBVIOUS
    <2> QED
        BY <1>1, <2>1
<1>4. ASSUME NEW n \in Nat, n \in T PROVE n + 1 \in T
    <2>1. SUFFICES ASSUME n + 1 <= Len(s) PROVE f[n + 1] \in Seq(X \cap S)
        OBVIOUS
    <2>2. n <= Len(s) /\ n + 1 \in 1 .. Len(s) /\ (n + 1) - 1 = n
        BY <2>1
    <2>3. f[n] \in Seq(X \cap S)
        BY <1>4, <2>2
    <2>4. /\ s[n + 1] \in S => f[n + 1] = Append(f[n], s[n + 1])
          /\ s[n + 1] \notin S => f[n + 1] = f[n]
        <3>1. /\ s[n + 1] \in S => f[n + 1] = Append(f[(n + 1) - 1], s[n + 1])
              /\ s[n + 1] \notin S => f[n + 1] = f[(n + 1) - 1]
            BY <1>1, <2>2, Zenon
        <3> QED
            BY <2>2, <3>1, Zenon
    <2>5. CASE s[n + 1] \in S
        <3>1. s[n + 1] \in X \cap S
            BY <1>2, <2>2, <2>5
        <3>2. Append(f[n], s[n + 1]) \in Seq(X \cap S)
            BY <2>3, <3>1, AppendType, Zenon
        <3> QED
            BY <2>4, <2>5, <3>2, Zenon
    <2>6. CASE s[n + 1] \notin S
        BY <2>3, <2>4, <2>6, Zenon
    <2> QED
        BY <2>5, <2>6
<1>5. Nat \subseteq T
    <2> HIDE DEF T
    <2> QED
        BY <1>3, <1>4, NatClosed
<1> QED
    BY <1>5

\* Sequences that agree on their first k elements agree on those among them.
LEMMA FiltersAgree ==
    ASSUME NEW X, NEW s \in Seq(X), NEW t \in Seq(X), NEW S, NEW f, NEW g,
           Filters(f, s, S), Filters(g, t, S), NEW k \in Nat,
           k <= Len(s), k <= Len(t), \A i \in 1 .. k : s[i] = t[i]
    PROVE  f[k] = g[k]
<1> DEFINE T == {n \in Nat : n <= k => f[n] = g[n]}
<1>0. Len(s) \in Nat /\ Len(t) \in Nat
    OBVIOUS
<1>1. f[0] = <<>> /\ g[0] = <<>>
    BY <1>0, FiltersStep, Zenon
<1>2. ASSUME NEW n \in Nat, n \in T PROVE n + 1 \in T
    <2>1. SUFFICES ASSUME n + 1 <= k PROVE f[n + 1] = g[n + 1]
        OBVIOUS
    <2>2. /\ n + 1 \in 1 .. Len(s) /\ n + 1 \in 1 .. Len(t) /\ n + 1 \in 1 .. k
          /\ (n + 1) - 1 = n /\ n <= k
        BY <2>1
    <2>s. OneByOne(f, s, S) /\ OneByOne(g, t, S)
        BY <1>0, FiltersSteps
    <2>3. /\ s[n + 1] \in S => f[n + 1] = Append(f[(n + 1) - 1], s[n + 1])
          /\ s[n + 1] \notin S => f[n + 1] = f[(n + 1) - 1]
        BY <2>2, <2>s, Zenon DEF OneByOne
    <2>4. /\ t[n + 1] \in S => g[n + 1] = Append(g[(n + 1) - 1], t[n + 1])
          /\ t[n + 1] \notin S => g[n + 1] = g[(n + 1) - 1]
        BY <2>2, <2>s, Zenon DEF OneByOne
    <2>5. f[n] = g[n] /\ s[n + 1] = t[n + 1]
        BY <1>2, <2>2
    <2>6. CASE s[n + 1] \in S
        BY <2>2, <2>3, <2>4, <2>5, <2>6, Zenon
    <2>7. CASE s[n + 1] \notin S
        BY <2>2, <2>3, <2>4, <2>5, <2>7, Zenon
    <2> QED
        BY <2>6, <2>7
<1>3. 0 \in T
    BY <1>1
<1>4. Nat \subseteq T
    <2> HIDE DEF T
    <2> QED
        BY <1>2, <1>3, NatClosed
<1> QED
    BY <1>4

\* What is among the elements of a sequence, and of a longer one.
LEMMA AmongAppend ==
    ASSUME NEW X, NEW s \in Seq(X), NEW x \in X, NEW S
    PROVE  /\ x \in S => Among(Append(s, x), S) = Append(Among(s, S), x)
           /\ x \notin S => Among(Append(s, x), S) = Among(s, S)
<1> DEFINE t == Append(s, x)
<1>1. /\ t \in Seq(X) /\ Len(t) = Len(s) + 1 /\ Len(s) \in Nat
      /\ t[Len(t)] = x /\ \A i \in 1 .. Len(s) : s[i] = t[i]
    OBVIOUS
<1> HIDE DEF t
<1>2. PICK f : Filters(f, s, S) /\ Among(s, S) = f[Len(s)]
    BY AmongIs
<1>3. PICK g : Filters(g, t, S) /\ Among(t, S) = g[Len(t)]
    BY <1>1, AmongIs
<1>4. f[Len(s)] = g[Len(s)]
    <2>1. Len(s) <= Len(s) /\ Len(s) <= Len(t)
        BY <1>1
    <2> QED
        BY <1>1, <1>2, <1>3, <2>1, FiltersAgree
<1>5. Len(t) \in 1 .. Len(t) /\ Len(t) - 1 = Len(s) /\ Len(s) \in 0 .. Len(s)
    BY <1>1
<1>6. /\ x \in S => g[Len(t)] = Append(g[Len(s)], x)
      /\ x \notin S => g[Len(t)] = g[Len(s)]
    <2>1. Len(t) \in Nat
        BY <1>1
    <2>2. /\ t[Len(t)] \in S => g[Len(t)] = Append(g[Len(t) - 1], t[Len(t)])
          /\ t[Len(t)] \notin S => g[Len(t)] = g[Len(t) - 1]
        BY <1>3, <1>5, <2>1, FiltersStep, Zenon
    <2> QED
        BY <1>1, <1>5, <2>2, Zenon
<1> QED
    BY <1>2, <1>3, <1>4, <1>6 DEF t

LEMMA AmongType ==
    ASSUME NEW X, NEW s \in Seq(X), NEW S
    PROVE  Among(s, S) \in Seq(X \cap S)
<1>1. PICK f : Filters(f, s, S) /\ Among(s, S) = f[Len(s)]
    BY AmongIs
<1>2. Len(s) \in 0 .. Len(s)
    OBVIOUS
<1> QED
    BY <1>1, <1>2, FiltersType

LEMMA AmongTakes ==
    ASSUME NEW X, NEW s \in Seq(X), NEW x \in X, NEW S, x \in S
    PROVE  Among(Append(s, x), S) = Append(Among(s, S), x)
BY AmongAppend

LEMMA AmongSkips ==
    ASSUME NEW X, NEW s \in Seq(X), NEW x \in X, NEW S, x \notin S
    PROVE  Among(Append(s, x), S) = Among(s, S)
BY AmongAppend

LEMMA AmongEmpty ==
    ASSUME NEW S
    PROVE  Among(<<>>, S) = <<>>
<1>1. <<>> \in Seq({}) /\ Len(<<>>) = 0
    OBVIOUS
<1>2. PICK f : Filters(f, <<>>, S) /\ Among(<<>>, S) = f[0]
    BY <1>1, AmongIs
<1>3. Len(<<>>) \in Nat
    OBVIOUS
<1> QED
    BY <1>2, <1>3, FiltersStep, Zenon

\* Nothing that is in S is left out.
LEMMA AmongHas ==
    ASSUME NEW X, NEW s \in Seq(X), NEW S, NEW i \in 1 .. Len(s), s[i] \in S
    PROVE  \E j \in 1 .. Len(Among(s, S)) : Among(s, S)[j] = s[i]
<1>1. PICK f : Filters(f, s, S) /\ Among(s, S) = f[Len(s)]
    BY AmongIs
<1>2. Len(s) \in Nat
    OBVIOUS
<1>3. \A n \in 0 .. Len(s) : f[n] \in Seq(X)
    <2>1. \A n \in 0 .. Len(s) : f[n] \in Seq(X \cap S)
        BY <1>1, FiltersType
    <2> QED
        BY <2>1
<1> DEFINE Has(n) == \E j \in 1 .. Len(f[n]) : f[n][j] = s[i]
           T == {n \in Nat : n <= Len(s) => (i <= n => Has(n))}
<1>4. 0 \in T
    OBVIOUS
<1>5. ASSUME NEW n \in Nat, n \in T PROVE n + 1 \in T
    <2>1. SUFFICES ASSUME n + 1 <= Len(s), i <= n + 1 PROVE Has(n + 1)
        OBVIOUS
    <2>2. n + 1 \in 1 .. Len(s) /\ (n + 1) - 1 = n /\ n \in 0 .. Len(s) /\ s[n + 1] \in X
        BY <2>1
    <2>3. /\ s[n + 1] \in S => f[n + 1] = Append(f[(n + 1) - 1], s[n + 1])
          /\ s[n + 1] \notin S => f[n + 1] = f[(n + 1) - 1]
        BY <1>1, <1>2, <2>2, FiltersStep, Zenon
    <2>4. f[n] \in Seq(X)
        BY <1>3, <2>2
    <2>5. CASE s[n + 1] \notin S
        <3>1. f[n + 1] = f[n] /\ i <= n
            BY <2>1, <2>2, <2>3, <2>5
        <3> QED
            BY <1>5, <2>1, <3>1
    <2>6. CASE s[n + 1] \in S
        <3>1. f[n + 1] = Append(f[n], s[n + 1])
            BY <2>2, <2>3, <2>6
        <3> DEFINE g == f[n]
        <3>2. /\ Len(Append(g, s[n + 1])) = Len(g) + 1
              /\ Len(g) \in Nat
              /\ Append(g, s[n + 1])[Len(g) + 1] = s[n + 1]
              /\ \A j \in 1 .. Len(g) : Append(g, s[n + 1])[j] = g[j]
            BY <2>2, <2>4
        <3>3. CASE i = n + 1
            BY <3>1, <3>2, <3>3
        <3>4. CASE i # n + 1
            <4>1. PICK j \in 1 .. Len(f[n]) : f[n][j] = s[i]
                BY <1>5, <2>1, <3>4
            <4>2. j \in 1 .. Len(g) + 1 /\ Append(g, s[n + 1])[j] = s[i]
                BY <3>2, <4>1
            <4> QED
                BY <3>1, <3>2, <4>2
        <3> QED
            BY <3>3, <3>4
    <2> QED
        BY <2>5, <2>6
<1>6. Nat \subseteq T
    <2> HIDE DEF T
    <2> QED
        BY <1>4, <1>5, NatClosed
<1>7. Has(Len(s))
    BY <1>2, <1>6
<1> QED
    BY <1>1, <1>7

\* A sequence put after another.
LEMMA ConcatIs ==
    ASSUME NEW X, NEW s \in Seq(X), NEW t \in Seq(X)
    PROVE  /\ s \o t \in Seq(X)
           /\ Len(s \o t) = Len(s) + Len(t)
           /\ \A i \in 1 .. Len(s) : (s \o t)[i] = s[i]
           /\ \A i \in 1 .. Len(t) : (s \o t)[Len(s) + i] = t[i]
<1>1. s \o t \in Seq(X)
    OBVIOUS
<1>2. Len(s \o t) = Len(s) + Len(t)
    OBVIOUS
<1>3. \A i \in 1 .. Len(s) : (s \o t)[i] = s[i]
    OBVIOUS
<1>4. \A i \in 1 .. Len(t) : (s \o t)[Len(s) + i] = t[i]
    OBVIOUS
<1> QED
    BY <1>1, <1>2, <1>3, <1>4

\* How the number of the elements in S grows along a sequence.
LEMMA FiltersCount ==
    ASSUME NEW X, NEW s \in Seq(X), NEW S, NEW f, Filters(f, s, S)
    PROVE  /\ Len(f[0]) = 0
           /\ \A i \in 0 .. Len(s) : Len(f[i]) \in Nat
           /\ \A i \in 1 .. Len(s) : s[i] \in S => Len(f[i]) = Len(f[i - 1]) + 1
           /\ \A i \in 1 .. Len(s) : s[i] \notin S => Len(f[i]) = Len(f[i - 1])
<1>1. Len(s) \in Nat
    OBVIOUS
<1>2. /\ f[0] = <<>>
      /\ \A i \in 1 .. Len(s) :
            /\ s[i] \in S => f[i] = Append(f[i - 1], s[i])
            /\ s[i] \notin S => f[i] = f[i - 1]
    BY <1>1, FiltersStep
<1>3. \A i \in 0 .. Len(s) : f[i] \in Seq(X \cap S)
    BY FiltersType
<1>4. ASSUME NEW i \in 1 .. Len(s), s[i] \in S PROVE Len(f[i]) = Len(f[i - 1]) + 1
    <2>1. f[i - 1] \in Seq(X \cap S) /\ s[i] \in X
        BY <1>3
    <2>2. f[i] = Append(f[i - 1], s[i])
        BY <1>2, <1>4
    <2> QED
        BY <2>1, <2>2
<1>5. \A i \in 0 .. Len(s) : Len(f[i]) \in Nat
    BY <1>3
<1> QED
    BY <1>2, <1>4, <1>5

\* A sequence with nothing of S.
LEMMA CountNone ==
    ASSUME NEW X, NEW s \in Seq(X), NEW S, \A i \in 1 .. Len(s) : s[i] \notin S
    PROVE  Len(Among(s, S)) = 0
<1>1. PICK f : Filters(f, s, S) /\ Among(s, S) = f[Len(s)]
    BY AmongIs
<1>2. /\ Len(f[0]) = 0
      /\ \A i \in 1 .. Len(s) : s[i] \notin S => Len(f[i]) = Len(f[i - 1])
    BY <1>1, FiltersCount
<1> DEFINE T == {n \in Nat : n <= Len(s) => Len(f[n]) = 0}
<1>3. 0 \in T
    BY <1>2
<1>4. ASSUME NEW n \in Nat, n \in T PROVE n + 1 \in T
    <2>1. n + 1 <= Len(s) => n + 1 \in 1 .. Len(s) /\ (n + 1) - 1 = n
        OBVIOUS
    <2> QED
        BY <1>2, <1>4, <2>1
<1>5. Len(s) \in T
    <2> HIDE DEF T
    <2> QED
        BY <1>3, <1>4, NatClosed
<1> QED
    BY <1>1, <1>5

\* A sequence with one place of S.
LEMMA CountOne ==
    ASSUME NEW X, NEW s \in Seq(X), NEW S, NEW k \in 1 .. Len(s), s[k] \in S,
           \A i \in 1 .. Len(s) : s[i] \in S => i = k
    PROVE  Len(Among(s, S)) = 1
<1>1. PICK f : Filters(f, s, S) /\ Among(s, S) = f[Len(s)]
    BY AmongIs
<1>2. /\ Len(f[0]) = 0
      /\ \A i \in 1 .. Len(s) : s[i] \in S => Len(f[i]) = Len(f[i - 1]) + 1
      /\ \A i \in 1 .. Len(s) : s[i] \notin S => Len(f[i]) = Len(f[i - 1])
    BY <1>1, FiltersCount
<1> DEFINE T == {n \in Nat : n <= Len(s) => /\ n < k => Len(f[n]) = 0
                                            /\ k <= n => Len(f[n]) = 1}
<1>3. 0 \in T
    BY <1>2
<1>4. ASSUME NEW n \in Nat, n \in T PROVE n + 1 \in T
    <2>1. SUFFICES ASSUME n + 1 <= Len(s)
                   PROVE  /\ n + 1 < k => Len(f[n + 1]) = 0
                          /\ k <= n + 1 => Len(f[n + 1]) = 1
        OBVIOUS
    <2>2. n + 1 \in 1 .. Len(s) /\ (n + 1) - 1 = n
        BY <2>1
    <2>3. n < k => Len(f[n]) = 0
        BY <1>4, <2>1
    <2>4. k <= n => Len(f[n]) = 1
        BY <1>4, <2>1
    <2>5. CASE n + 1 = k
        <3>1. Len(f[n + 1]) = Len(f[(n + 1) - 1]) + 1
            BY <1>2, <2>2, <2>5
        <3> QED
            BY <2>2, <2>3, <2>5, <3>1
    <2>6. CASE n + 1 # k
        <3>1. Len(f[n + 1]) = Len(f[(n + 1) - 1])
            BY <1>2, <2>2, <2>6
        <3> QED
            BY <2>2, <2>3, <2>4, <2>6, <3>1
    <2> QED
        BY <2>5, <2>6
<1>5. Len(s) \in T
    <2> HIDE DEF T
    <2> QED
        BY <1>3, <1>4, NatClosed
<1> QED
    BY <1>1, <1>5

\* What is in S is counted in both parts.
LEMMA CountConcat ==
    ASSUME NEW X, NEW s \in Seq(X), NEW t \in Seq(X), NEW S
    PROVE  Len(Among(s \o t, S)) = Len(Among(s, S)) + Len(Among(t, S))
<1>0. PICK r : r = s \o t
    OBVIOUS
<1>1. /\ r \in Seq(X) /\ Len(r) = Len(s) + Len(t)
      /\ \A i \in 1 .. Len(s) : r[i] = s[i]
      /\ \A i \in 1 .. Len(t) : r[Len(s) + i] = t[i]
    BY <1>0, ConcatIs
<1>2. PICK h : Filters(h, r, S) /\ Among(r, S) = h[Len(r)]
    BY <1>1, AmongIs
<1>3. PICK f : Filters(f, s, S) /\ Among(s, S) = f[Len(s)]
    BY AmongIs
<1>4. PICK g : Filters(g, t, S) /\ Among(t, S) = g[Len(t)]
    BY AmongIs
<1>5. Len(s) \in Nat /\ Len(t) \in Nat
    OBVIOUS
<1>6. h[Len(s)] = f[Len(s)]
    <2>1. PICK k \in Nat : k = Len(s) /\ k <= Len(r) /\ k <= Len(s)
        BY <1>1, <1>5
    <2>2. r \in Seq(X) /\ \A i \in 1 .. k : r[i] = s[i]
        BY <1>1, <2>1
    <2>3. Filters(h, r, S) /\ Filters(f, s, S)
        BY <1>2, <1>3
    <2>4. k <= Len(r) /\ k <= Len(s)
        BY <2>1
    <2>5. h[k] = f[k]
        BY <2>2, <2>3, <2>4, FiltersAgree
    <2> QED
        BY <2>1, <2>5
<1>7. /\ \A i \in 0 .. Len(r) : Len(h[i]) \in Nat
      /\ \A i \in 1 .. Len(r) : r[i] \in S => Len(h[i]) = Len(h[i - 1]) + 1
      /\ \A i \in 1 .. Len(r) : r[i] \notin S => Len(h[i]) = Len(h[i - 1])
    <2>1. r \in Seq(X)
        BY <1>1
    <2> QED
        BY <1>2, <2>1, FiltersCount, SMTT(20)
<1>8. /\ Len(g[0]) = 0
      /\ \A i \in 1 .. Len(t) : t[i] \in S => Len(g[i]) = Len(g[i - 1]) + 1
      /\ \A i \in 1 .. Len(t) : t[i] \notin S => Len(g[i]) = Len(g[i - 1])
      /\ \A i \in 0 .. Len(t) : Len(g[i]) \in Nat
    BY <1>4, FiltersCount
<1> DEFINE H(i) == Len(h[i])
           G(i) == Len(g[i])
           T == {n \in Nat : n <= Len(t) => H(Len(s) + n) = H(Len(s)) + G(n)}
<1>h. /\ \A i \in 0 .. Len(r) : H(i) \in Nat
      /\ \A i \in 1 .. Len(r) : r[i] \in S => H(i) = H(i - 1) + 1
      /\ \A i \in 1 .. Len(r) : r[i] \notin S => H(i) = H(i - 1)
    BY <1>7
<1>g. /\ G(0) = 0
      /\ \A i \in 1 .. Len(t) : t[i] \in S => G(i) = G(i - 1) + 1
      /\ \A i \in 1 .. Len(t) : t[i] \notin S => G(i) = G(i - 1)
      /\ \A i \in 0 .. Len(t) : G(i) \in Nat
    BY <1>8
<1> HIDE DEF H, G
<1>9. 0 \in T
    <2>1. Len(s) \in 0 .. Len(r) /\ Len(s) + 0 = Len(s)
        BY <1>1, <1>5
    <2>2. H(Len(s)) \in Nat
        BY <1>h, <2>1
    <2> QED
        BY <1>g, <2>1, <2>2
<1>10. ASSUME NEW n \in Nat, n \in T PROVE n + 1 \in T
    <2>1. SUFFICES ASSUME n + 1 <= Len(t)
                   PROVE  H(Len(s) + (n + 1)) = H(Len(s)) + G(n + 1)
        OBVIOUS
    <2>2. /\ n + 1 \in 1 .. Len(t) /\ (n + 1) - 1 = n /\ n <= Len(t)
          /\ Len(s) + (n + 1) \in 1 .. Len(r) /\ (Len(s) + (n + 1)) - 1 = Len(s) + n
          /\ Len(s) \in 0 .. Len(r) /\ n \in 0 .. Len(t)
        BY <1>1, <1>5, <2>1
    <2>3. r[Len(s) + (n + 1)] = t[n + 1]
        BY <1>1, <2>2
    <2>4. H(Len(s) + n) = H(Len(s)) + G(n)
        BY <1>10, <2>2
    <2>5. H(Len(s)) \in Nat /\ G(n) \in Nat
        BY <1>h, <1>g, <2>2
    <2>6. CASE t[n + 1] \in S
        <3>1. H(Len(s) + (n + 1)) = H((Len(s) + (n + 1)) - 1) + 1
            BY <1>h, <2>2, <2>3, <2>6
        <3>2. G(n + 1) = G((n + 1) - 1) + 1
            BY <1>g, <2>2, <2>6
        <3> QED
            BY <2>2, <2>4, <2>5, <3>1, <3>2
    <2>7. CASE t[n + 1] \notin S
        <3>1. H(Len(s) + (n + 1)) = H((Len(s) + (n + 1)) - 1)
            BY <1>h, <2>2, <2>3, <2>7
        <3>2. G(n + 1) = G((n + 1) - 1)
            BY <1>g, <2>2, <2>7
        <3> QED
            BY <2>2, <2>4, <2>5, <3>1, <3>2
    <2> QED
        BY <2>6, <2>7
<1>11. Len(t) \in T
    <2> HIDE DEF T
    <2> QED
        BY <1>5, <1>9, <1>10, NatClosed
<1>12. H(Len(r)) = H(Len(s)) + G(Len(t))
    BY <1>1, <1>5, <1>11
<1> QED
    BY <1>0, <1>2, <1>3, <1>4, <1>6, <1>12 DEF H, G

\* The number of places is a natural, and with none of them nothing is in S.
LEMMA CountNat ==
    ASSUME NEW X, NEW s \in Seq(X), NEW S
    PROVE  /\ Len(Among(s, S)) \in Nat
           /\ Len(Among(s, S)) # 0 => \E i \in 1 .. Len(s) : s[i] \in S
<1>1. Among(s, S) \in Seq(X \cap S)
    BY AmongType
<1>2. Len(Among(s, S)) \in Nat
    BY <1>1
<1> QED
    BY <1>2, CountNone

\* Added at the end, or taken from the front.
LEMMA CountAppend ==
    ASSUME NEW X, NEW s \in Seq(X), NEW x \in X, NEW S
    PROVE  Len(Among(Append(s, x), S)) = Len(Among(s, S)) + Len(Among(<<x>>, S))
<1>1. <<x>> \in Seq(X)
    OBVIOUS
<1>2. Append(s, x) = s \o <<x>>
    OBVIOUS
<1>3. Len(Among(s \o <<x>>, S)) = Len(Among(s, S)) + Len(Among(<<x>>, S))
    BY <1>1, CountConcat
<1> QED
    BY <1>2, <1>3

LEMMA CountTail ==
    ASSUME NEW X, NEW s \in Seq(X), s # <<>>, NEW S
    PROVE  Len(Among(s, S)) = Len(Among(<<Head(s)>>, S)) + Len(Among(Tail(s), S))
<1>1. Head(s) \in X /\ Tail(s) \in Seq(X)
    OBVIOUS
<1>2. <<Head(s)>> \in Seq(X)
    BY <1>1
<1>3. s = <<Head(s)>> \o Tail(s)
    BY <1>1
<1>4. Len(Among(<<Head(s)>> \o Tail(s), S))
          = Len(Among(<<Head(s)>>, S)) + Len(Among(Tail(s), S))
    BY <1>1, <1>2, CountConcat
<1> QED
    BY <1>3, <1>4

\* What is filtered has no element twice when the sequence has none.
LEMMA AmongInjective ==
    ASSUME NEW X, NEW s \in Seq(X), NEW S,
           \A i, j \in 1 .. Len(s) : s[i] = s[j] => i = j
    PROVE  \A i, j \in 1 .. Len(Among(s, S)) : Among(s, S)[i] = Among(s, S)[j] => i = j
<1>1. PICK f : Filters(f, s, S) /\ Among(s, S) = f[Len(s)]
    BY AmongIs
<1>2. Len(s) \in Nat
    OBVIOUS
<1>3. \A n \in 0 .. Len(s) : f[n] \in Seq(X)
    <2>1. \A n \in 0 .. Len(s) : f[n] \in Seq(X \cap S)
        BY <1>1, FiltersType
    <2> QED
        BY <2>1
<1>4. /\ f[0] = <<>>
      /\ \A i \in 1 .. Len(s) :
            /\ s[i] \in S => f[i] = Append(f[i - 1], s[i])
            /\ s[i] \notin S => f[i] = f[i - 1]
    BY <1>1, <1>2, FiltersStep
<1> DEFINE Once(q) == \A i, j \in 1 .. Len(q) : q[i] = q[j] => i = j
           Past(q, n) == \A i \in 1 .. Len(q) : \E j \in 1 .. n : q[i] = s[j]
           T == {n \in Nat : n <= Len(s) => Once(f[n]) /\ Past(f[n], n)}
<1>5. 0 \in T
    <2>1. f[0] = <<>>
        BY <1>1, <1>2, FiltersStep
    <2> QED
        BY <2>1
<1>6. ASSUME NEW n \in Nat, n \in T PROVE n + 1 \in T
    <2>1. SUFFICES ASSUME n + 1 <= Len(s) PROVE Once(f[n + 1]) /\ Past(f[n + 1], n + 1)
        OBVIOUS
    <2>2. n + 1 \in 1 .. Len(s) /\ (n + 1) - 1 = n /\ n \in 0 .. Len(s) /\ s[n + 1] \in X
        BY <2>1
    <2>3. /\ s[n + 1] \in S => f[n + 1] = Append(f[(n + 1) - 1], s[n + 1])
          /\ s[n + 1] \notin S => f[n + 1] = f[(n + 1) - 1]
        BY <1>4, <2>2, Zenon
    <2>4. f[n] \in Seq(X) /\ Once(f[n]) /\ Past(f[n], n)
        BY <1>3, <1>6, <2>2
    <2>5. CASE s[n + 1] \notin S
        <3>1. PICK q : q = f[n] /\ q = f[n + 1] /\ Once(q) /\ Past(q, n)
            BY <2>2, <2>3, <2>4, <2>5
        <3>2. Past(q, n + 1)
            BY <3>1
        <3> HIDE DEF Once, Past
        <3> QED
            BY <3>1, <3>2
    <2>6. CASE s[n + 1] \in S
        <3>1. f[n + 1] = Append(f[n], s[n + 1])
            BY <2>2, <2>3, <2>6
        <3>2. PICK q : q = f[n]
            OBVIOUS
        <3>3. PICK r : r = Append(q, s[n + 1])
            OBVIOUS
        <3>4. /\ Len(r) = Len(q) + 1
              /\ Len(q) \in Nat
              /\ r[Len(q) + 1] = s[n + 1]
              /\ \A j \in 1 .. Len(q) : r[j] = q[j]
            BY <2>2, <2>4, <3>2, <3>3
        <3>5. \A i \in 1 .. Len(q) : q[i] # s[n + 1]
            <4>1. ASSUME NEW i \in 1 .. Len(q), q[i] = s[n + 1] PROVE FALSE
                <5>1. PICK j \in 1 .. n : q[i] = s[j]
                    BY <2>4, <3>2
                <5>2. j \in 1 .. Len(s)
                    BY <2>2
                <5>3. j = n + 1
                    BY <2>2, <4>1, <5>1, <5>2
                <5> QED
                    BY <5>3
            <4> QED
                BY <4>1
        <3>6. Once(r)
            <4>1. ASSUME NEW i \in 1 .. Len(r), NEW j \in 1 .. Len(r), r[i] = r[j]
                  PROVE  i = j
                <5>1. i = Len(q) + 1 \/ i \in 1 .. Len(q)
                    BY <3>4
                <5>2. j = Len(q) + 1 \/ j \in 1 .. Len(q)
                    BY <3>4
                <5>3. \A k, l \in 1 .. Len(q) : q[k] = q[l] => k = l
                    BY <2>4, <3>2
                <5> QED
                    BY <3>4, <3>5, <4>1, <5>1, <5>2, <5>3
            <4> QED
                BY <4>1
        <3>7. Past(r, n + 1)
            <4>1. ASSUME NEW i \in 1 .. Len(r) PROVE \E j \in 1 .. n + 1 : r[i] = s[j]
                <5>1. CASE i = Len(q) + 1
                    BY <3>4, <5>1
                <5>2. CASE i # Len(q) + 1
                    <6>1. i \in 1 .. Len(q)
                        BY <3>4, <5>2
                    <6>2. PICK j \in 1 .. n : q[i] = s[j]
                        BY <2>4, <3>2, <6>1
                    <6> QED
                        BY <3>4, <6>1, <6>2
                <5> QED
                    BY <5>1, <5>2
            <4> QED
                BY <4>1
        <3>8. r = f[n + 1]
            BY <3>1, <3>2, <3>3, Zenon
        <3> HIDE DEF Once, Past
        <3> QED
            BY <3>6, <3>7, <3>8, Zenon
    <2> QED
        BY <2>5, <2>6
<1>7. Len(s) \in T
    <2> HIDE DEF T
    <2> QED
        BY <1>2, <1>5, <1>6, NatClosed
<1> QED
    BY <1>1, <1>2, <1>7

-----------------------------------------------------------------------------
\* f[i] holds the first i sequences of ss, one after the other.
Flattens(f, ss) ==
    f = [i \in 0 .. Len(ss) |-> IF i = 0 THEN <<>> ELSE f[i - 1] \o ss[i]]

LEMMA FlattensExist ==
    ASSUME NEW X, NEW ss \in Seq(X)
    PROVE  \E f : Flattens(f, ss)
<1> DEFINE G(f, n) == f = [i \in 0 .. n |-> IF i = 0 THEN <<>> ELSE f[i - 1] \o ss[i]]
<1> DEFINE T == {n \in Nat : \E f : G(f, n)}
<1>1. 0 \in T
    <2>1. G([i \in 0 .. 0 |-> <<>>], 0)
        OBVIOUS
    <2> QED
        BY <2>1
<1>2. ASSUME NEW n \in Nat, n \in T PROVE n + 1 \in T
    <2>1. PICK f : G(f, n)
        BY <1>2
    <2> DEFINE e == [i \in 0 .. n + 1 |-> IF i = n + 1 THEN f[n] \o ss[i] ELSE f[i]]
    <2>2. ASSUME NEW i \in 0 .. n + 1
          PROVE  e[i] = IF i = 0 THEN <<>> ELSE e[i - 1] \o ss[i]
        <3>1. \A j \in 0 .. n : f[j] = IF j = 0 THEN <<>> ELSE f[j - 1] \o ss[j]
            BY <2>1
        <3>2. CASE i = n + 1
            <4>1. e[i] = f[n] \o ss[i] /\ e[i - 1] = f[n] /\ i # 0
                BY <3>2
            <4> HIDE DEF e
            <4> QED
                BY <4>1
        <3>3. CASE i # n + 1
            <4>1. e[i] = f[i] /\ i \in 0 .. n /\ (i # 0 => e[i - 1] = f[i - 1])
                BY <3>3
            <4> HIDE DEF e
            <4> QED
                BY <3>1, <4>1
        <3> QED
            BY <3>2, <3>3
    <2>3. G(e, n + 1)
        BY <2>2
    <2>4. \E x : G(x, n + 1)
        <3> HIDE DEF e, G
        <3> QED
            BY <2>3
    <2> HIDE DEF G
    <2> QED
        BY <2>4
<1>3. Nat \subseteq T
    <2> HIDE DEF T
    <2> QED
        BY <1>1, <1>2, NatClosed
<1>4. Len(ss) \in Nat
    OBVIOUS
<1>5. PICK f : G(f, Len(ss))
    <2> HIDE DEF G
    <2> QED
        BY <1>3, <1>4
<1>6. Flattens(f, ss)
    BY <1>5, Zenon DEF Flattens
<1> QED
    BY <1>6

LEMMA FlatIs ==
    ASSUME NEW X, NEW ss \in Seq(X)
    PROVE  \E f : Flattens(f, ss) /\ Flat(ss) = f[Len(ss)]
<1> DEFINE f == CHOOSE f : Flattens(f, ss)
<1>1. Flattens(f, ss)
    BY FlattensExist
<1>2. Flat(ss) = f[Len(ss)]
    BY DEF Flat, Flattens
<1> QED
    BY <1>1, <1>2

\* One step after the other.
StepByStep(f, ss) == f[0] = <<>> /\ \A i \in 1 .. Len(ss) : f[i] = f[i - 1] \o ss[i]

LEMMA FlattensStep ==
    ASSUME NEW f, NEW ss, Flattens(f, ss), Len(ss) \in Nat
    PROVE  StepByStep(f, ss)
<1>1. \A i \in 0 .. Len(ss) : f[i] = IF i = 0 THEN <<>> ELSE f[i - 1] \o ss[i]
    BY Zenon DEF Flattens
<1>2. 0 \in 0 .. Len(ss) /\ \A i \in 1 .. Len(ss) : i \in 0 .. Len(ss) /\ i # 0
    OBVIOUS
<1> QED
    BY <1>1, <1>2, Zenon DEF StepByStep

\* Induction along a flattened sequence: P[i] is what is known of the first
\* i parts of it.
LEMMA FlatInduction ==
    ASSUME NEW X, NEW ss \in Seq(X), NEW P, <<>> \in P[0],
           \A i \in 1 .. Len(ss) : \A q \in P[i - 1] : q \o ss[i] \in P[i]
    PROVE  Flat(ss) \in P[Len(ss)]
<1>1. PICK f : Flattens(f, ss) /\ Flat(ss) = f[Len(ss)]
    BY FlatIs
<1>2. Len(ss) \in Nat
    OBVIOUS
<1>3. f[0] = <<>> /\ \A i \in 1 .. Len(ss) : f[i] = f[i - 1] \o ss[i]
    <2>s. StepByStep(f, ss)
        BY <1>1, <1>2, FlattensStep
    <2> QED
        BY <2>s, Zenon DEF StepByStep
<1> DEFINE T == {n \in Nat : n <= Len(ss) => f[n] \in P[n]}
<1>4. 0 \in T
    BY <1>3
<1>5. ASSUME NEW n \in Nat, n \in T PROVE n + 1 \in T
    <2>1. SUFFICES ASSUME n + 1 <= Len(ss) PROVE f[n + 1] \in P[n + 1]
        OBVIOUS
    <2>2. n + 1 \in 1 .. Len(ss) /\ (n + 1) - 1 = n /\ f[n] \in P[n]
        BY <1>5, <2>1
    <2>3. f[n + 1] = f[(n + 1) - 1] \o ss[n + 1]
        BY <1>3, <2>2, Zenon
    <2>4. f[(n + 1) - 1] \o ss[n + 1] \in P[n + 1]
        <3>1. f[(n + 1) - 1] \in P[(n + 1) - 1]
            BY <2>2
        <3> QED
            BY <2>2, <3>1, Zenon
    <2> QED
        BY <2>3, <2>4, Zenon
<1>6. Nat \subseteq T
    <2> HIDE DEF T
    <2> QED
        BY <1>4, <1>5, NatClosed
<1> QED
    BY <1>1, <1>2, <1>6

LEMMA ConcatType ==
    ASSUME NEW X, NEW s \in Seq(X), NEW t \in Seq(X)
    PROVE  s \o t \in Seq(X)
OBVIOUS

LEMMA FlatType ==
    ASSUME NEW X, NEW ss \in Seq(Seq(X))
    PROVE  Flat(ss) \in Seq(X)
<1> DEFINE P == [i \in 0 .. Len(ss) |-> Seq(X)]
<1>0. Len(ss) \in Nat /\ <<>> \in Seq(X) /\ \A i \in 1 .. Len(ss) : ss[i] \in Seq(X)
    OBVIOUS
<1>1. \A i \in 0 .. Len(ss) : P[i] = Seq(X)
    OBVIOUS
<1>2. /\ 0 \in 0 .. Len(ss) /\ Len(ss) \in 0 .. Len(ss)
      /\ \A i \in 1 .. Len(ss) : i \in 0 .. Len(ss) /\ i - 1 \in 0 .. Len(ss)
    BY <1>0
<1> HIDE DEF P
<1>3. <<>> \in P[0]
    BY <1>0, <1>1, <1>2
<1>4. ASSUME NEW i \in 1 .. Len(ss), NEW q \in P[i - 1] PROVE q \o ss[i] \in P[i]
    <2>1. q \in Seq(X) /\ ss[i] \in Seq(X) /\ P[i] = Seq(X)
        BY <1>0, <1>1, <1>2, <1>4
    <2> QED
        BY <2>1, ConcatType
<1>5. Flat(ss) \in P[Len(ss)]
    BY <1>3, <1>4, FlatInduction
<1> QED
    BY <1>1, <1>2, <1>5

LEMMA ConcatAssociative ==
    ASSUME NEW X, NEW r \in Seq(X), NEW s \in Seq(X), NEW t \in Seq(X)
    PROVE  (r \o s) \o t = r \o (s \o t)
OBVIOUS

\* The same as one fact, for the places where the sequences are long terms.
Regroups(r, s, t) == (r \o s) \o t = r \o (s \o t)

LEMMA Regrouped ==
    ASSUME NEW X, NEW r \in Seq(X), NEW s \in Seq(X), NEW t \in Seq(X)
    PROVE  Regroups(r, s, t)
BY ConcatAssociative DEF Regroups

LEMMA ConcatEmpty ==
    ASSUME NEW X, NEW s \in Seq(X)
    PROVE  s \o <<>> = s /\ <<>> \o s = s
OBVIOUS

LEMMA FlattensType ==
    ASSUME NEW X, NEW ss \in Seq(Seq(X)), NEW f, Flattens(f, ss)
    PROVE  \A i \in 0 .. Len(ss) : f[i] \in Seq(X)
<1>1. Len(ss) \in Nat /\ <<>> \in Seq(X) /\ \A i \in 1 .. Len(ss) : ss[i] \in Seq(X)
    OBVIOUS
<1>2. f[0] = <<>> /\ \A i \in 1 .. Len(ss) : f[i] = f[i - 1] \o ss[i]
    <2>1. Len(ss) \in Nat
        BY <1>1
    <2>2. StepByStep(f, ss)
        BY <2>1, FlattensStep
    <2> QED
        BY <2>2, Zenon DEF StepByStep
<1> DEFINE T == {n \in Nat : n <= Len(ss) => f[n] \in Seq(X)}
<1>3. 0 \in T
    BY <1>1, <1>2
<1>4. ASSUME NEW n \in Nat, n \in T PROVE n + 1 \in T
    <2>1. SUFFICES ASSUME n + 1 <= Len(ss) PROVE f[n + 1] \in Seq(X)
        OBVIOUS
    <2>2. n + 1 \in 1 .. Len(ss) /\ (n + 1) - 1 = n /\ f[n] \in Seq(X)
        BY <1>4, <2>1
    <2>3. f[n + 1] = f[(n + 1) - 1] \o ss[n + 1] /\ ss[n + 1] \in Seq(X)
        BY <1>1, <1>2, <2>2, Zenon
    <2>4. f[n + 1] = f[n] \o ss[n + 1]
        BY <2>2, <2>3
    <2>5. f[n] \o ss[n + 1] \in Seq(X)
        BY <2>2, <2>3, ConcatType
    <2> QED
        BY <2>4, <2>5
<1>5. Nat \subseteq T
    <2> HIDE DEF T
    <2> QED
        BY <1>3, <1>4, NatClosed
<1> QED
    BY <1>5

LEMMA FlattensAgree ==
    ASSUME NEW ss, NEW tt, Len(ss) \in Nat, Len(tt) \in Nat, NEW f, NEW g,
           Flattens(f, ss), Flattens(g, tt), NEW k \in Nat,
           k <= Len(ss), k <= Len(tt), \A i \in 1 .. k : ss[i] = tt[i]
    PROVE  f[k] = g[k]
<1> DEFINE T == {n \in Nat : n <= k => f[n] = g[n]}
<1>1. f[0] = <<>> /\ \A i \in 1 .. Len(ss) : f[i] = f[i - 1] \o ss[i]
    <2>s. StepByStep(f, ss)
        BY FlattensStep
    <2> QED
        BY <2>s, Zenon DEF StepByStep
<1>2. g[0] = <<>> /\ \A i \in 1 .. Len(tt) : g[i] = g[i - 1] \o tt[i]
    <2>s. StepByStep(g, tt)
        BY FlattensStep
    <2> QED
        BY <2>s, Zenon DEF StepByStep
<1>3. 0 \in T
    BY <1>1, <1>2
<1>4. ASSUME NEW n \in Nat, n \in T PROVE n + 1 \in T
    <2>1. SUFFICES ASSUME n + 1 <= k PROVE f[n + 1] = g[n + 1]
        OBVIOUS
    <2>2. /\ n + 1 \in 1 .. Len(ss) /\ n + 1 \in 1 .. Len(tt) /\ n + 1 \in 1 .. k
          /\ (n + 1) - 1 = n /\ n <= k
        BY <2>1
    <2>3. f[n + 1] = f[(n + 1) - 1] \o ss[n + 1] /\ g[n + 1] = g[(n + 1) - 1] \o tt[n + 1]
        BY <1>1, <1>2, <2>2, Zenon
    <2>4. f[n] = g[n] /\ ss[n + 1] = tt[n + 1]
        BY <1>4, <2>2
    <2> QED
        BY <2>2, <2>3, <2>4, Zenon
<1>5. Nat \subseteq T
    <2> HIDE DEF T
    <2> QED
        BY <1>3, <1>4, NatClosed
<1> QED
    BY <1>5

\* Flattening two sequences after each other.
LEMMA FlatConcat ==
    ASSUME NEW X, NEW ss \in Seq(Seq(X)), NEW tt \in Seq(Seq(X))
    PROVE  Flat(ss \o tt) = Flat(ss) \o Flat(tt)
<1>1. PICK rr : rr = ss \o tt
    OBVIOUS
<1>2. /\ rr \in Seq(Seq(X)) /\ Len(rr) = Len(ss) + Len(tt)
      /\ \A i \in 1 .. Len(ss) : rr[i] = ss[i]
      /\ \A i \in 1 .. Len(tt) : rr[Len(ss) + i] = tt[i]
    BY <1>1, ConcatIs
<1>3. PICK h : Flattens(h, rr) /\ Flat(rr) = h[Len(rr)]
    BY <1>2, FlatIs
<1>4. PICK f : Flattens(f, ss) /\ Flat(ss) = f[Len(ss)]
    BY FlatIs
<1>5. PICK g : Flattens(g, tt) /\ Flat(tt) = g[Len(tt)]
    BY FlatIs
<1>6. PICK k \in Nat : k = Len(ss) /\ k <= Len(rr) /\ k <= Len(ss)
    <2>1. PICK k \in Nat, l \in Nat : k = Len(ss) /\ l = Len(tt)
        OBVIOUS
    <2>2. Len(rr) = Len(ss) + Len(tt)
        BY <1>2
    <2>3. Len(rr) = k + l
        BY <2>1, <2>2
    <2>4. k <= Len(rr) /\ k <= Len(ss)
        BY <2>1, <2>3
    <2> QED
        BY <2>1, <2>4, Zenon
<1>7. /\ Len(rr) = k + Len(tt) /\ \A i \in 1 .. Len(tt) : rr[k + i] = tt[i]
      /\ \A i \in 1 .. k : rr[i] = ss[i]
    BY <1>2, <1>6
<1>8. h[k] = f[k]
    <2>1. Len(rr) \in Nat /\ Len(ss) \in Nat /\ k <= Len(rr) /\ k <= Len(ss)
        BY <1>2, <1>6
    <2>2. Flattens(h, rr) /\ Flattens(f, ss)
        BY <1>3, <1>4
    <2>3. \A i \in 1 .. k : rr[i] = ss[i]
        BY <1>7
    <2> QED
        BY <2>1, <2>2, <2>3, FlattensAgree
<1>9. h[Len(rr)] = h[k] \o g[Len(tt)]
    <2>1. Len(rr) \in Nat /\ Len(tt) \in Nat
        BY <1>2
    <2>2. h[0] = <<>> /\ \A i \in 1 .. Len(rr) : h[i] = h[i - 1] \o rr[i]
        <3>s. StepByStep(h, rr)
            BY <1>3, <1>5, <2>1, FlattensStep
        <3> QED
            BY <3>s, Zenon DEF StepByStep
    <2>3. g[0] = <<>> /\ \A i \in 1 .. Len(tt) : g[i] = g[i - 1] \o tt[i]
        <3>s. StepByStep(g, tt)
            BY <1>3, <1>5, <2>1, FlattensStep
        <3> QED
            BY <3>s, Zenon DEF StepByStep
    <2>4. \A i \in 0 .. Len(rr) : h[i] \in Seq(X)
        BY <1>2, <1>3, FlattensType
    <2>5. \A i \in 0 .. Len(tt) : g[i] \in Seq(X)
        BY <1>5, FlattensType
    <2> DEFINE E(n) == h[k] \o g[n]
               T == {n \in Nat : n <= Len(tt) => h[k + n] = E(n)}
    <2>6. 0 \in T
        <3>1. k \in 0 .. Len(rr) /\ k + 0 = k
            BY <1>7, <2>1
        <3>2. h[k] \in Seq(X)
            BY <2>4, <3>1
        <3>3. E(0) = h[k]
            BY <2>3, <3>2, ConcatEmpty
        <3> HIDE DEF E
        <3> QED
            BY <3>1, <3>3
    <2>7. ASSUME NEW n \in Nat, n \in T PROVE n + 1 \in T
        <3>1. SUFFICES ASSUME n + 1 <= Len(tt) PROVE h[k + (n + 1)] = E(n + 1)
            <4> HIDE DEF E
            <4> QED
                OBVIOUS
        <3>2. /\ n + 1 \in 1 .. Len(tt) /\ (n + 1) - 1 = n /\ n \in 0 .. Len(tt)
              /\ k + (n + 1) \in 1 .. Len(rr) /\ (k + (n + 1)) - 1 = k + n /\ k \in 0 .. Len(rr)
            BY <1>7, <2>1, <3>1
        <3>3. h[k + n] = E(n)
            <4> HIDE DEF E
            <4> QED
                BY <2>7, <3>2
        <3>4. h[k + (n + 1)] = h[(k + (n + 1)) - 1] \o rr[k + (n + 1)]
            BY <2>2, <3>2, Zenon
        <3>5. g[n + 1] = g[(n + 1) - 1] \o tt[n + 1]
            BY <2>3, <3>2, Zenon
        <3>6. h[k + (n + 1)] = (h[k] \o g[n]) \o tt[n + 1] /\ g[n + 1] = g[n] \o tt[n + 1]
            BY <1>7, <3>2, <3>3, <3>4, <3>5, Zenon
        <3>7. h[k] \in Seq(X) /\ g[n] \in Seq(X) /\ tt[n + 1] \in Seq(X)
            <4>1. tt[n + 1] \in Seq(X)
                BY <3>2
            <4> QED
                BY <2>4, <2>5, <3>2, <4>1, Zenon
        <3>8. (h[k] \o g[n]) \o tt[n + 1] = h[k] \o (g[n] \o tt[n + 1])
            <4>1. PICK a \in Seq(X), b \in Seq(X), c \in Seq(X) :
                    a = h[k] /\ b = g[n] /\ c = tt[n + 1]
                BY <3>7
            <4>2. Regroups(a, b, c)
                BY Regrouped
            <4> QED
                BY <4>1, <4>2, Zenon DEF Regroups
        <3> QED
            BY <3>6, <3>8, Zenon
    <2>8. Nat \subseteq T
        <3> HIDE DEF T
        <3> QED
            BY <2>6, <2>7, NatClosed
    <2>9. h[k + Len(tt)] = E(Len(tt))
        <3> HIDE DEF E
        <3> QED
            BY <2>1, <2>8
    <2> QED
        BY <1>7, <2>9, Zenon
<1> QED
    BY <1>1, <1>3, <1>4, <1>5, <1>6, <1>8, <1>9, Zenon

LEMMA FlatEmpty == Flat(<<>>) = <<>>
<1>1. <<>> \in Seq({}) /\ Len(<<>>) = 0 /\ Len(<<>>) \in Nat
    OBVIOUS
<1>2. PICK f : Flattens(f, <<>>) /\ Flat(<<>>) = f[0]
    BY <1>1, FlatIs
<1>3. StepByStep(f, <<>>)
    BY <1>1, <1>2, FlattensStep
<1> QED
    BY <1>2, <1>3, Zenon DEF StepByStep

LEMMA FlatOne ==
    ASSUME NEW X, NEW s \in Seq(X)
    PROVE  Flat(<<s>>) = s
<1>1. PICK r : r = <<s>>
    OBVIOUS
<1>2. r \in Seq(Seq(X)) /\ Len(r) = 1 /\ Len(r) \in Nat /\ r[1] = s
    BY <1>1
<1>3. PICK f : Flattens(f, r) /\ Flat(r) = f[Len(r)]
    BY <1>2, FlatIs
<1>4. f[0] = <<>> /\ \A i \in 1 .. Len(r) : f[i] = f[i - 1] \o r[i]
    <2>s. StepByStep(f, r)
        BY <1>2, <1>3, FlattensStep
    <2> QED
        BY <2>s, Zenon DEF StepByStep
<1>5. f[1] = f[0] \o s
    <2>1. 1 \in 1 .. Len(r) /\ 1 - 1 = 0
        BY <1>2
    <2>2. f[1] = f[1 - 1] \o r[1]
        BY <1>4, <2>1, Zenon
    <2> QED
        BY <1>2, <2>1, <2>2, Zenon
<1> QED
    BY <1>1, <1>2, <1>3, <1>4, <1>5, ConcatEmpty

\* r is t put after s.
Joins(r, s, t) ==
    /\ r = s \o t /\ Len(r) = Len(s) + Len(t)
    /\ \A i \in 1 .. Len(s) : r[i] = s[i]
    /\ \A i \in 1 .. Len(t) : r[Len(s) + i] = t[i]

LEMMA JoinsExist ==
    ASSUME NEW X, NEW s \in Seq(X), NEW t \in Seq(X)
    PROVE  \E r \in Seq(X) : Joins(r, s, t)
<1>1. /\ s \o t \in Seq(X)
      /\ Len(s \o t) = Len(s) + Len(t)
    OBVIOUS
<1>2. /\ \A i \in 1 .. Len(s) : (s \o t)[i] = s[i]
      /\ \A i \in 1 .. Len(t) : (s \o t)[Len(s) + i] = t[i]
    OBVIOUS
<1> QED
    BY <1>1, <1>2, Zenon DEF Joins

\* A place in a joined sequence is one in either part.
LEMMA JoinsPlace ==
    ASSUME NEW X, NEW s \in Seq(X), NEW t \in Seq(X), NEW r \in Seq(X), Joins(r, s, t),
           NEW i \in DOMAIN r
    PROVE  \/ i \in DOMAIN s /\ r[i] = s[i]
           \/ \E j \in DOMAIN t : i = Len(s) + j /\ r[i] = t[j]
<1>1. /\ Len(r) = Len(s) + Len(t)
      /\ \A k \in 1 .. Len(s) : r[k] = s[k]
      /\ \A k \in 1 .. Len(t) : r[Len(s) + k] = t[k]
    BY DEF Joins
<1>2. Len(s) \in Nat /\ Len(t) \in Nat /\ i \in 1 .. Len(r)
    OBVIOUS
<1>3. CASE i <= Len(s)
    BY <1>1, <1>2, <1>3
<1>4. CASE i > Len(s)
    <2>1. i - Len(s) \in 1 .. Len(t) /\ i = Len(s) + (i - Len(s))
        BY <1>1, <1>2, <1>4
    <2>2. PICK j \in 1 .. Len(t) : i = Len(s) + j
        BY <2>1
    <2> QED
        BY <1>1, <2>2
<1> QED
    BY <1>2, <1>3, <1>4

\* Where the places of the parts are.
LEMMA JoinsLeft ==
    ASSUME NEW X, NEW s \in Seq(X), NEW t \in Seq(X), NEW r \in Seq(X), Joins(r, s, t),
           NEW i \in DOMAIN s
    PROVE  i \in DOMAIN r /\ r[i] = s[i]
<1>1. /\ Len(r) = Len(s) + Len(t)
      /\ \A k \in 1 .. Len(s) : r[k] = s[k]
    BY DEF Joins
<1> QED
    BY <1>1

LEMMA JoinsRight ==
    ASSUME NEW X, NEW s \in Seq(X), NEW t \in Seq(X), NEW r \in Seq(X), Joins(r, s, t),
           NEW i \in DOMAIN t
    PROVE  Len(s) + i \in DOMAIN r /\ r[Len(s) + i] = t[i]
<1>1. /\ Len(r) = Len(s) + Len(t)
      /\ \A k \in 1 .. Len(t) : r[Len(s) + k] = t[k]
    BY DEF Joins
<1>2. Len(s) \in Nat /\ Len(t) \in Nat /\ i \in 1 .. Len(t)
    OBVIOUS
<1> QED
    BY <1>1, <1>2

-----------------------------------------------------------------------------
\* Sequences of one length with the same elements are the same.
LEMMA SeqEqual ==
    ASSUME NEW X, NEW s \in Seq(X), NEW t \in Seq(X), Len(s) = Len(t),
           \A i \in 1 .. Len(s) : s[i] = t[i]
    PROVE  s = t
OBVIOUS

\* What f makes of each element, in order, and all of it in one sequence.
AppliedTo(s, f) == [i \in DOMAIN s |-> f[s[i]]]
Gathered(s, f) == Flat(AppliedTo(s, f))

Maps(a, s, f) == a = AppliedTo(s, f) /\ Len(a) = Len(s) /\ \A i \in 1 .. Len(s) : a[i] = f[s[i]]

LEMMA MapsExist ==
    ASSUME NEW X, NEW Y, NEW f \in [X -> Y], NEW s \in Seq(X)
    PROVE  \E a \in Seq(Y) : Maps(a, s, f)
<1>1. Len(s) \in Nat /\ DOMAIN s = 1 .. Len(s) /\ \A i \in 1 .. Len(s) : s[i] \in X
    OBVIOUS
<1>2. \A i \in 1 .. Len(s) : f[s[i]] \in Y
    BY <1>1
<1>3. PICK a \in [1 .. Len(s) -> Y] : a = [i \in 1 .. Len(s) |-> f[s[i]]]
    BY <1>2
<1>4. a \in Seq(Y) /\ Len(a) = Len(s) /\ \A i \in 1 .. Len(s) : a[i] = f[s[i]]
    BY <1>1, <1>3
<1>5. a = AppliedTo(s, f)
    BY <1>1, <1>3 DEF AppliedTo
<1> QED
    BY <1>4, <1>5, Zenon DEF Maps

LEMMA MappedConcat ==
    ASSUME NEW X, NEW Y, NEW f \in [X -> Y], NEW s \in Seq(X), NEW t \in Seq(X)
    PROVE  AppliedTo(s \o t, f) = AppliedTo(s, f) \o AppliedTo(t, f)
<1>1. PICK r \in Seq(X) : Joins(r, s, t)
    BY JoinsExist
<1>2. PICK a \in Seq(Y) : Maps(a, s, f)
    BY MapsExist
<1>3. PICK b \in Seq(Y) : Maps(b, t, f)
    BY MapsExist
<1>4. PICK c \in Seq(Y) : Maps(c, r, f)
    BY MapsExist
<1>5. PICK d \in Seq(Y) : Joins(d, a, b)
    BY JoinsExist
<1>6. Len(r) = Len(s) + Len(t) /\ Len(a) = Len(s) /\ Len(b) = Len(t) /\ Len(c) = Len(r)
      /\ Len(d) = Len(a) + Len(b)
    BY <1>1, <1>2, <1>3, <1>4, <1>5 DEF Joins, Maps
<1>7. Len(s) \in Nat /\ Len(t) \in Nat
    OBVIOUS
<1>8. ASSUME NEW i \in 1 .. Len(c) PROVE c[i] = d[i]
    <2>1. c[i] = f[r[i]] /\ i \in DOMAIN r
        BY <1>4, <1>6 DEF Maps
    <2>2. \/ i \in DOMAIN s /\ r[i] = s[i]
          \/ \E j \in DOMAIN t : i = Len(s) + j /\ r[i] = t[j]
        BY <1>1, <2>1, JoinsPlace
    <2>3. CASE i \in DOMAIN s /\ r[i] = s[i]
        <3>1. i \in 1 .. Len(s) /\ i \in DOMAIN a
            BY <1>6, <2>3
        <3>2. a[i] = f[s[i]]
            BY <1>2, <3>1 DEF Maps
        <3>3. d[i] = a[i]
            BY <1>5, <3>1, JoinsLeft
        <3> QED
            BY <2>1, <2>3, <3>2, <3>3
    <2>4. CASE \E j \in DOMAIN t : i = Len(s) + j /\ r[i] = t[j]
        <3>1. PICK j \in DOMAIN t : i = Len(s) + j /\ r[i] = t[j]
            BY <2>4
        <3>2. j \in 1 .. Len(t) /\ j \in DOMAIN b
            BY <1>6
        <3>3. b[j] = f[t[j]]
            BY <1>3, <3>2 DEF Maps
        <3>4. d[Len(a) + j] = b[j]
            BY <1>5, <3>2, JoinsRight
        <3> QED
            BY <1>6, <2>1, <3>1, <3>3, <3>4
    <2> QED
        BY <2>2, <2>3, <2>4
<1>9. Len(c) = Len(d)
    BY <1>6
<1>10. c = d
    BY <1>8, <1>9, SeqEqual
<1>11. r = s \o t /\ a = AppliedTo(s, f) /\ b = AppliedTo(t, f) /\ c = AppliedTo(r, f) /\ d = a \o b
    BY <1>1, <1>2, <1>3, <1>4, <1>5 DEF Joins, Maps
<1> QED
    BY <1>10, <1>11, Zenon

LEMMA GatheredType ==
    ASSUME NEW X, NEW Y, NEW f \in [X -> Seq(Y)], NEW s \in Seq(X)
    PROVE  Gathered(s, f) \in Seq(Y)
<1>1. PICK T : T = Seq(Y)
    OBVIOUS
<1>2. PICK a \in Seq(T) : Maps(a, s, f)
    BY <1>1, MapsExist
<1>3. Flat(a) \in Seq(Y)
    BY <1>1, <1>2, FlatType
<1> QED
    BY <1>2, <1>3 DEF Maps, Gathered

LEMMA GatheredConcat ==
    ASSUME NEW X, NEW Y, NEW f \in [X -> Seq(Y)], NEW s \in Seq(X), NEW t \in Seq(X)
    PROVE  Gathered(s \o t, f) = Gathered(s, f) \o Gathered(t, f)
<1>1. PICK T : T = Seq(Y)
    OBVIOUS
<1>2. PICK a \in Seq(T) : Maps(a, s, f)
    BY <1>1, MapsExist
<1>3. PICK b \in Seq(T) : Maps(b, t, f)
    BY <1>1, MapsExist
<1>4. a = AppliedTo(s, f) /\ b = AppliedTo(t, f)
    BY <1>2, <1>3 DEF Maps
<1>5. AppliedTo(s \o t, f) = a \o b
    BY <1>4, MappedConcat
<1>6. a \in Seq(Seq(Y)) /\ b \in Seq(Seq(Y))
    BY <1>1, <1>2, <1>3
<1>7. Flat(a \o b) = Flat(a) \o Flat(b)
    BY <1>6, FlatConcat
<1> QED
    BY <1>4, <1>5, <1>7, Zenon DEF Gathered

\* The same as one fact.
Splits(f, s, t) == Gathered(s \o t, f) = Gathered(s, f) \o Gathered(t, f)

LEMMA GatheredSplits ==
    ASSUME NEW X, NEW Y, NEW f \in [X -> Seq(Y)], NEW s \in Seq(X), NEW t \in Seq(X)
    PROVE  Splits(f, s, t)
BY GatheredConcat DEF Splits

LEMMA GatheredOne ==
    ASSUME NEW X, NEW Y, NEW f \in [X -> Seq(Y)], NEW x \in X
    PROVE  Gathered(<<x>>, f) = f[x]
<1>1. PICK y \in Seq(Y) : y = f[x]
    OBVIOUS
<1>2. AppliedTo(<<x>>, f) = <<y>>
    BY <1>1 DEF AppliedTo
<1>3. Flat(<<y>>) = y
    BY FlatOne
<1> QED
    BY <1>1, <1>2, <1>3, Zenon DEF Gathered

LEMMA GatheredEmpty ==
    ASSUME NEW f
    PROVE  Gathered(<<>>, f) = <<>>
<1>1. AppliedTo(<<>>, f) = <<>>
    BY DEF AppliedTo
<1> QED
    BY <1>1, FlatEmpty, Zenon DEF Gathered

LEMMA GatheredTail ==
    ASSUME NEW X, NEW Y, NEW f \in [X -> Seq(Y)], NEW s \in Seq(X), s # <<>>
    PROVE  Gathered(s, f) = f[Head(s)] \o Gathered(Tail(s), f)
<1>1. Head(s) \in X /\ Tail(s) \in Seq(X)
    OBVIOUS
<1>2. <<Head(s)>> \in Seq(X)
    BY <1>1
<1>3. s = <<Head(s)>> \o Tail(s)
    BY <1>1
<1>4. Gathered(<<Head(s)>> \o Tail(s), f) = Gathered(<<Head(s)>>, f) \o Gathered(Tail(s), f)
    <2>1. Splits(f, <<Head(s)>>, Tail(s))
        BY <1>1, <1>2, GatheredSplits
    <2> QED
        BY <2>1, Zenon DEF Splits
<1>5. Gathered(<<Head(s)>>, f) = f[Head(s)]
    BY <1>1, GatheredOne
<1> QED
    BY <1>3, <1>4, <1>5, Zenon

\* Gathering part by part.
Gathers(gg, ss, f, X, Y) ==
    /\ f \in [X -> Seq(Y)] /\ ss \in Seq(Seq(X)) /\ gg \in Seq(Seq(Y))
    /\ Len(gg) = Len(ss) /\ \A i \in 1 .. Len(ss) : gg[i] = Gathered(ss[i], f)

LEMMA GatheredFlat ==
    ASSUME NEW X, NEW Y, NEW f, NEW ss, NEW gg, Gathers(gg, ss, f, X, Y)
    PROVE  Gathered(Flat(ss), f) = Flat(gg)
<1>g. f \in [X -> Seq(Y)] /\ ss \in Seq(Seq(X)) /\ gg \in Seq(Seq(Y))
    BY DEF Gathers
<1>0. Len(gg) = Len(ss) /\ \A i \in 1 .. Len(ss) : gg[i] = Gathered(ss[i], f)
    BY DEF Gathers
<1>1. PICK g : Flattens(g, gg) /\ Flat(gg) = g[Len(gg)]
    BY <1>g, FlatIs
<1>2. Len(ss) \in Nat /\ Len(gg) \in Nat /\ \A i \in 1 .. Len(ss) : ss[i] \in Seq(X)
    BY <1>g
<1>3. g[0] = <<>> /\ \A i \in 1 .. Len(gg) : g[i] = g[i - 1] \o gg[i]
    <2>s. StepByStep(g, gg)
        BY <1>1, <1>2, FlattensStep
    <2> QED
        BY <2>s, Zenon DEF StepByStep
<1> DEFINE P == [i \in 0 .. Len(ss) |-> {q \in Seq(X) : Gathered(q, f) = g[i]}]
<1>4. \A i \in 0 .. Len(ss) : \A q : q \in P[i] <=> q \in Seq(X) /\ Gathered(q, f) = g[i]
    OBVIOUS
<1>5. /\ 0 \in 0 .. Len(ss) /\ Len(ss) \in 0 .. Len(ss)
      /\ \A i \in 1 .. Len(ss) : i \in 0 .. Len(ss) /\ i - 1 \in 0 .. Len(ss)
    BY <1>2
<1> HIDE DEF P
<1>6. <<>> \in P[0]
    <2>1. <<>> \in Seq(X)
        OBVIOUS
    <2>2. Gathered(<<>>, f) = <<>>
        BY GatheredEmpty
    <2> QED
        BY <1>3, <1>4, <1>5, <2>1, <2>2, Zenon
<1>7. ASSUME NEW i \in 1 .. Len(ss), NEW q \in P[i - 1] PROVE q \o ss[i] \in P[i]
    <2>1. q \in Seq(X) /\ Gathered(q, f) = g[i - 1]
        BY <1>4, <1>5
    <2>2. PICK t \in Seq(X) : t = ss[i]
        BY <1>2
    <2>3. q \o t \in Seq(X)
        BY <2>1, ConcatType
    <2>4. Gathered(q \o t, f) = Gathered(q, f) \o Gathered(t, f)
        <3>1. q \in Seq(X) /\ t \in Seq(X)
            BY <2>1
        <3>2. Splits(f, q, t)
            BY <1>g, <3>1, GatheredSplits
        <3> QED
            BY <3>2, Zenon DEF Splits
    <2>5. g[i] = g[i - 1] \o gg[i] /\ gg[i] = Gathered(t, f)
        BY <1>0, <1>3, <2>2
    <2> QED
        BY <1>4, <1>5, <2>1, <2>2, <2>3, <2>4, <2>5, Zenon
<1>8. Flat(ss) \in P[Len(ss)]
    BY <1>g, <1>6, <1>7, FlatInduction
<1> QED
    BY <1>0, <1>1, <1>4, <1>5, <1>8, Zenon

\* All parts but one are empty.
LEMMA FlatOnly ==
    ASSUME NEW X, NEW ss \in Seq(Seq(X)), NEW k \in 1 .. Len(ss),
           \A i \in 1 .. Len(ss) : i = k \/ ss[i] = <<>>
    PROVE  Flat(ss) = ss[k]
<1>1. Len(ss) \in Nat /\ k \in Nat /\ \A i \in 1 .. Len(ss) : ss[i] \in Seq(X)
    OBVIOUS
<1>2. PICK t \in Seq(X) : t = ss[k]
    BY <1>1
<1> DEFINE P == [i \in 0 .. Len(ss) |-> IF i < k THEN {<<>>} ELSE {t}]
<1>4. /\ \A i \in 0 .. Len(ss) : i < k => \A q : q \in P[i] <=> q = <<>>
      /\ \A i \in 0 .. Len(ss) : ~(i < k) => \A q : q \in P[i] <=> q = t
    OBVIOUS
<1>5. /\ 0 \in 0 .. Len(ss) /\ Len(ss) \in 0 .. Len(ss) /\ 0 < k /\ ~(Len(ss) < k)
      /\ \A i \in 1 .. Len(ss) : i \in 0 .. Len(ss) /\ i - 1 \in 0 .. Len(ss)
    BY <1>1
<1> HIDE DEF P
<1>6. <<>> \in P[0]
    BY <1>4, <1>5, Zenon
<1>7. ASSUME NEW i \in 1 .. Len(ss), NEW q \in P[i - 1] PROVE q \o ss[i] \in P[i]
    <2>1. (i - 1 < k => q = <<>>) /\ (~(i - 1 < k) => q = t)
        BY <1>4, <1>5, Zenon
    <2>2. CASE i < k
        <3>1. ss[i] = <<>> /\ q = <<>>
            BY <1>1, <2>1, <2>2
        <3>2. <<>> \o <<>> = <<>>
            OBVIOUS
        <3> QED
            BY <1>4, <1>5, <2>2, <3>1, <3>2, Zenon
    <2>3. CASE i = k
        <3>1. ss[i] = t /\ q = <<>> /\ ~(i < k)
            BY <1>1, <1>2, <2>1, <2>3
        <3>2. <<>> \o t = t
            OBVIOUS
        <3> QED
            BY <1>4, <1>5, <3>1, <3>2, Zenon
    <2>4. CASE i > k
        <3>1. ss[i] = <<>> /\ q = t /\ ~(i < k)
            BY <1>1, <2>1, <2>4
        <3>2. t \o <<>> = t
            OBVIOUS
        <3> QED
            BY <1>4, <1>5, <3>1, <3>2, Zenon
    <2> QED
        BY <1>1, <2>2, <2>3, <2>4
<1>8. Flat(ss) \in P[Len(ss)]
    BY <1>6, <1>7, FlatInduction
<1>9. Flat(ss) = t
    <2>1. \A q : q \in P[Len(ss)] <=> q = t
        BY <1>4, <1>5
    <2> QED
        BY <1>8, <2>1, Zenon
<1> QED
    BY <1>2, <1>9, Zenon

LEMMA FlatNone ==
    ASSUME NEW X, NEW ss \in Seq(Seq(X)), \A i \in 1 .. Len(ss) : ss[i] = <<>>
    PROVE  Flat(ss) = <<>>
<1>1. CASE Len(ss) = 0
    <2>1. ss = <<>>
        BY <1>1
    <2> QED
        BY <2>1, FlatEmpty, Zenon
<1>2. CASE Len(ss) # 0
    <2>1. 1 \in 1 .. Len(ss)
        BY <1>2
    <2>2. Flat(ss) = ss[1]
        BY <2>1, FlatOnly
    <2> QED
        BY <2>1, <2>2
<1> QED
    BY <1>1, <1>2

\* Nothing but one place of a sequence, or no place of it, gives anything.
OnlyAt(s, f, k) == k \in 1 .. Len(s) /\ \A i \in 1 .. Len(s) : i = k \/ f[s[i]] = <<>>

LEMMA GatheredOnly ==
    ASSUME NEW X, NEW Y, NEW f \in [X -> Seq(Y)], NEW s \in Seq(X), NEW k, OnlyAt(s, f, k)
    PROVE  Gathered(s, f) = f[s[k]]
<1>1. PICK T : T = Seq(Y)
    OBVIOUS
<1>2. PICK a \in Seq(T) : Maps(a, s, f)
    BY <1>1, MapsExist
<1>3. /\ a = AppliedTo(s, f) /\ Len(a) = Len(s) /\ \A i \in 1 .. Len(s) : a[i] = f[s[i]]
    BY <1>2 DEF Maps
<1>4. a \in Seq(Seq(Y)) /\ k \in 1 .. Len(a) /\ \A i \in 1 .. Len(a) : i = k \/ a[i] = <<>>
    BY <1>1, <1>3 DEF OnlyAt
<1>5. Flat(a) = a[k]
    BY <1>4, FlatOnly
<1> QED
    BY <1>3, <1>4, <1>5, Zenon DEF Gathered

LEMMA GatheredNone ==
    ASSUME NEW X, NEW Y, NEW f \in [X -> Seq(Y)], NEW s \in Seq(X),
           \A i \in 1 .. Len(s) : f[s[i]] = <<>>
    PROVE  Gathered(s, f) = <<>>
<1>1. PICK T : T = Seq(Y)
    OBVIOUS
<1>2. PICK a \in Seq(T) : Maps(a, s, f)
    BY <1>1, MapsExist
<1>3. /\ a = AppliedTo(s, f) /\ Len(a) = Len(s) /\ \A i \in 1 .. Len(s) : a[i] = f[s[i]]
    BY <1>2 DEF Maps
<1>4. a \in Seq(Seq(Y)) /\ \A i \in 1 .. Len(a) : a[i] = <<>>
    BY <1>1, <1>3
<1>5. Flat(a) = <<>>
    BY <1>4, FlatNone
<1> QED
    BY <1>3, <1>5, Zenon DEF Gathered

\* Of all parts only the k-th gives anything, namely d.
OnlyPart(ss, f, k, d) ==
    /\ k \in 1 .. Len(ss) /\ Gathered(ss[k], f) = d
    /\ \A i \in 1 .. Len(ss) : i = k \/ Gathered(ss[i], f) = <<>>

LEMMA GatheredFlatOnly ==
    ASSUME NEW X, NEW Y, NEW f \in [X -> Seq(Y)], NEW ss \in Seq(Seq(X)), NEW d \in Seq(Y),
           NEW k, OnlyPart(ss, f, k, d)
    PROVE  Gathered(Flat(ss), f) = d
<1>1. <<>> \in Seq(Y)
    OBVIOUS
<1>2. PICK D : D = Seq(Y) /\ <<>> \in D /\ d \in D
    BY <1>1, Zenon
<1>3. PICK n \in Nat : n = Len(ss)
    OBVIOUS
<1>4. PICK gg \in Seq(D) : Len(gg) = n /\ \A i \in 1 .. n : gg[i] = IF i = k THEN d ELSE <<>>
    <2>1. [i \in 1 .. n |-> IF i = k THEN d ELSE <<>>] \in [1 .. n -> D]
        BY <1>2
    <2>2. PICK g \in [1 .. n -> D] : g = [i \in 1 .. n |-> IF i = k THEN d ELSE <<>>]
        BY <2>1
    <2>3. g \in Seq(D) /\ Len(g) = n /\ \A i \in 1 .. n : g[i] = IF i = k THEN d ELSE <<>>
        BY <2>2
    <2> QED
        BY <2>3, Zenon
<1>5. PICK bb \in Seq(Seq(Y)) : bb = gg
    BY <1>2
<1>6. /\ k \in 1 .. Len(bb) /\ bb[k] = d
      /\ \A i \in 1 .. Len(bb) : i = k \/ bb[i] = <<>>
    BY <1>3, <1>4, <1>5 DEF OnlyPart
<1>7. Gathers(bb, ss, f, X, Y)
    <2>1. ASSUME NEW i \in 1 .. Len(ss) PROVE bb[i] = Gathered(ss[i], f)
        <3>1. i = k \/ Gathered(ss[i], f) = <<>>
            BY DEF OnlyPart
        <3>2. Gathered(ss[k], f) = d
            BY DEF OnlyPart
        <3> QED
            BY <1>3, <1>4, <1>5, <1>6, <3>1, <3>2
    <2> QED
        BY <1>3, <1>4, <1>5, <2>1 DEF Gathers
<1>8. Gathered(Flat(ss), f) = Flat(bb)
    BY <1>7, GatheredFlat
<1>9. Flat(bb) = bb[k]
    BY <1>6, FlatOnly
<1> QED
    BY <1>6, <1>8, <1>9, Zenon

-----------------------------------------------------------------------------
(***************************************************************************)
(* Branches of a tree: the blocks B, each with its parent P and number N,  *)
(* and the first of them g.  Each fact picks a set closed under P and uses *)
(* that the branch lies within it.                                         *)
(***************************************************************************)
IsTree(B, g, P, N) ==
    /\ g \in B /\ P \in [B -> B] /\ P[g] = g /\ N \in [B -> Nat]
    /\ \A b \in B \ {g} : N[b] = N[P[b]] + 1
ClosedUnder(P, S) == \A x \in S : P[x] \in S
Branch(B, P, b) == {c \in B : \A S \in SUBSET B : b \in S /\ ClosedUnder(P, S) => c \in S}

\* A branch lies within every closed set that holds its last block.
LEMMA BranchWithin ==
    ASSUME NEW B, NEW P, NEW b \in B, NEW S \in SUBSET B, b \in S, ClosedUnder(P, S)
    PROVE  Branch(B, P, b) \subseteq S
BY DEF Branch

\* A branch holds its last block and, with each block, its parent.
LEMMA BranchClosed ==
    ASSUME NEW B, NEW P \in [B -> B], NEW b \in B
    PROVE  /\ Branch(B, P, b) \subseteq B
           /\ b \in Branch(B, P, b)
           /\ ClosedUnder(P, Branch(B, P, b))
<1>1. Branch(B, P, b) \subseteq B /\ b \in Branch(B, P, b)
    BY DEF Branch
<1>2. ASSUME NEW x \in Branch(B, P, b) PROVE P[x] \in Branch(B, P, b)
    <2>1. x \in B /\ P[x] \in B
        BY <1>1
    <2>2. ASSUME NEW S \in SUBSET B, b \in S, ClosedUnder(P, S)
          PROVE  P[x] \in S
        <3>1. x \in S
            BY <2>2, <1>2, BranchWithin
        <3> QED
            BY <3>1, <2>2 DEF ClosedUnder
    <2> QED
        BY <2>1, <2>2 DEF Branch
<1> QED
    BY <1>1, <1>2 DEF ClosedUnder

\* The branch of a block of a branch is part of it.
LEMMA BranchTransitive ==
    ASSUME NEW B, NEW P \in [B -> B], NEW b \in B, NEW c \in Branch(B, P, b)
    PROVE  Branch(B, P, c) \subseteq Branch(B, P, b)
<1>1. PICK S \in SUBSET B : S = Branch(B, P, b) /\ ClosedUnder(P, S) /\ c \in S
    BY BranchClosed
<1> QED
    BY <1>1, BranchWithin

\* Below its last block a branch holds only blocks of smaller numbers.
LEMMA BranchNumber ==
    ASSUME NEW B, NEW g, NEW P, NEW N, IsTree(B, g, P, N), NEW b \in B,
           NEW c \in Branch(B, P, b), c # b
    PROVE  N[c] < N[b]
<1> DEFINE S == {b} \union {x \in B : N[x] < N[b]}
<1>0. /\ g \in B /\ P \in [B -> B] /\ P[g] = g /\ N \in [B -> Nat]
      /\ \A x \in B \ {g} : N[x] = N[P[x]] + 1
    BY DEF IsTree
<1>1. S \in SUBSET B /\ b \in S
    OBVIOUS
<1>2. ASSUME NEW x \in S PROVE P[x] \in S
    <2>1. x \in B /\ P[x] \in B
        BY <1>0
    <2>2. CASE x = g
        BY <1>0, <2>2
    <2>3. CASE x # g
        <3>1. N[x] = N[P[x]] + 1
            BY <1>0, <2>1, <2>3
        <3>2. N[x] \in Nat /\ N[P[x]] \in Nat /\ N[b] \in Nat
            BY <1>0, <2>1
        <3>3. N[x] <= N[b]
            BY <3>2
        <3> QED
            BY <2>1, <3>1, <3>2, <3>3
    <2> QED
        BY <2>2, <2>3
<1>3. ClosedUnder(P, S)
    BY <1>2 DEF ClosedUnder
<1> HIDE DEF S
<1>4. c \in S
    BY <1>1, <1>3, BranchWithin
<1> QED
    BY <1>4 DEF S

\* Below its last block a branch is that of the parent.
LEMMA BranchBelow ==
    ASSUME NEW B, NEW P \in [B -> B], NEW b \in B, NEW c \in Branch(B, P, b), c # b
    PROVE  c \in Branch(B, P, P[b])
<1> DEFINE S == {b} \union Branch(B, P, P[b])
<1>1. P[b] \in B
    OBVIOUS
<1>2. /\ Branch(B, P, P[b]) \subseteq B /\ P[b] \in Branch(B, P, P[b])
      /\ ClosedUnder(P, Branch(B, P, P[b]))
    BY <1>1, BranchClosed
<1>3. S \in SUBSET B /\ b \in S /\ ClosedUnder(P, S)
    BY <1>2 DEF ClosedUnder
<1> HIDE DEF S
<1>4. c \in S
    BY <1>3, BranchWithin
<1> QED
    BY <1>4 DEF S

\* Of two blocks of a branch one lies on the branch of the other.
LEMMA BranchComparable ==
    ASSUME NEW B, NEW P \in [B -> B], NEW b \in B, NEW c \in Branch(B, P, b),
           NEW d \in Branch(B, P, b)
    PROVE  c \in Branch(B, P, d) \/ d \in Branch(B, P, c)
<1> DEFINE S == {x \in Branch(B, P, b) : x \in Branch(B, P, d) \/ d \in Branch(B, P, x)}
<1>1. /\ Branch(B, P, b) \subseteq B /\ b \in Branch(B, P, b) /\ ClosedUnder(P, Branch(B, P, b))
      /\ d \in B
    BY BranchClosed
<1>2. S \in SUBSET B /\ b \in S
    BY <1>1
<1>3. ASSUME NEW x \in S PROVE P[x] \in S
    <2>1. x \in B /\ P[x] \in Branch(B, P, b)
        BY <1>1 DEF ClosedUnder
    <2>2. CASE x \in Branch(B, P, d)
        <3>1. ClosedUnder(P, Branch(B, P, d))
            BY <1>1, BranchClosed
        <3> QED
            BY <2>1, <2>2, <3>1 DEF ClosedUnder
    <2>3. CASE d \in Branch(B, P, x) /\ d # x
        <3>1. d \in Branch(B, P, P[x])
            BY <2>1, <2>3, BranchBelow
        <3> QED
            BY <2>1, <3>1
    <2>4. CASE d = x
        <3>1. P[d] \in Branch(B, P, d)
            BY <1>1, BranchClosed DEF ClosedUnder
        <3> QED
            BY <2>1, <2>4, <3>1
    <2> QED
        BY <2>2, <2>3, <2>4
<1>4. ClosedUnder(P, S)
    BY <1>3 DEF ClosedUnder
<1> HIDE DEF S
<1>5. c \in S
    BY <1>2, <1>4, BranchWithin
<1> QED
    BY <1>5 DEF S
=============================================================================
