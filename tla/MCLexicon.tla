----------------------------- MODULE MCLexicon -----------------------------
(* A legacy library with two glossaries of one name.                         *)
EXTENDS Lexicon, TLC
CONSTANTS n1, n2, l1, l2

MCNames == {n1, n2}
MCLegacy == {l1, l2}
MCNameOf == [g \in MCLegacy |-> n1]
Interchangeable == Permutations(Terms) \cup Permutations(Servers)
=============================================================================
