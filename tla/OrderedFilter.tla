----------------------------- MODULE OrderedFilter -----------------------------
(***************************************************************************)
(* Array.filter, in a form that proofs can reason about: without recursion *)
(* and by what it returns.                                                 *)
(***************************************************************************)
EXTENDS Naturals, Sequences, FiniteSets

\* The elements of seq that are in S, in their order (Array.filter): the only
\* member of this set. The increasing function e enumerates their positions.
Filtered(seq, S) ==
    LET kept == {i \in DOMAIN seq : seq[i] \in S}
        n == Cardinality(kept)
        enumerations == {e \in [1..n -> kept] : \A j, k \in 1..n : j < k => e[j] < e[k]}
    IN  {[j \in 1..n |-> seq[e[j]]] : e \in enumerations}

\* That member.
FilterSeq(seq, S) == CHOOSE r \in Filtered(seq, S) : TRUE
================================================================================
