------------------------------ MODULE Selection ------------------------------
(***************************************************************************)
(* What stays of a sequence, said by the positions that stay and without   *)
(* recursion.                                                              *)
(***************************************************************************)
EXTENDS Integers, Sequences, FiniteSets

Map(s, f(_)) == [i \in DOMAIN s |-> f(s[i])]

\* The n-th of the positions I.
Nth(I, n) == CHOOSE i \in I : Cardinality({j \in I : j <= i}) = n

Part(s, I) == <<>> \o [n \in 1..Cardinality(I) |-> s[Nth(I, n)]]

Filtered(s, Keeps(_)) == Part(s, {i \in DOMAIN s : Keeps(s[i])})

\* The positions at which a key occurs for the first time.
Firsts(s, key(_)) == {i \in DOMAIN s : \A j \in 1..(i - 1) : key(s[j]) # key(s[i])}
==============================================================================
