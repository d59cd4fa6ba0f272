------------------------------ MODULE Sorting ------------------------------
(***************************************************************************)
(* Go's sort.Strings, as internal/topology/topology.go and                 *)
(* internal/kernel/kernel.go call it.  The order is given as the set of    *)
(* its pairs, so that facts about it can be stated for every order         *)
(* (module SequenceLemmas).                                                *)
(***************************************************************************)
EXTENDS Naturals, Sequences, SequencesExt

\* The elements of s, rearranged until none is less than an earlier one.
Sorted(s, less) ==
    LET p == CHOOSE p \in SetToSeqs(DOMAIN s) :
                \A i, j \in DOMAIN s : i < j => <<s[p[j]], s[p[i]]>> \notin less
    IN  [i \in DOMAIN s |-> s[p[i]]]
=============================================================================
