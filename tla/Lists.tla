--------------------------------- MODULE Lists ---------------------------------
(***************************************************************************)
(* Lists that are sorted and filtered.  They are written out because       *)
(* SortSeq and SelectSeq have no definition the provers can expand.        *)
(***************************************************************************)
EXTENDS Integers, Sequences, FiniteSets

\* A finite set of integers, smallest first.
Ascending(S) == [i \in 1..Cardinality(S) |->
                   CHOOSE x \in S : Cardinality({y \in S : y < x}) = i - 1]

\* The entries of s at the positions in I, in the order of s.
Picked(s, I) == LET kept == Ascending(I) IN [k \in DOMAIN kept |-> s[kept[k]]]

\* The list without the entries that are p, and without those that are in S.
Without(s, p) == Picked(s, {i \in DOMAIN s : s[i] # p})
NotIn(s, S)   == Picked(s, {i \in DOMAIN s : s[i] \notin S})
=============================================================================
