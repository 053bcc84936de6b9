------------------------------- MODULE SeqOps -------------------------------
(***************************************************************************)
(* Operators on sequences, written as functions of the length so that      *)
(* facts about them can be proved (Lemmas) for every sequence.             *)
(***************************************************************************)
EXTENDS Naturals, Sequences

\* The elements of s that are in S, in their order: `Iterator::filter`.
Among(s, S) ==
    LET f[i \in 0 .. Len(s)] ==
            IF i = 0 THEN <<>>
            ELSE IF s[i] \in S THEN Append(f[i - 1], s[i]) ELSE f[i - 1]
    IN  f[Len(s)]

\* The sequences of ss, one after the other: `Iterator::flatten`.
Flat(ss) ==
    LET f[i \in 0 .. Len(ss)] == IF i = 0 THEN <<>> ELSE f[i - 1] \o ss[i]
    IN  f[Len(ss)]
=============================================================================
