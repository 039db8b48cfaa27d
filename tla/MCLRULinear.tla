---------------------------- MODULE MCLRULinear -----------------------------
(* Small instance of LRULinear.                                           *)
EXTENDS LRULinear, TLC

\* The calls that lock, and Size.
LinearOps == [t \in Threads |-> Locked \cup {"Size"}]

Symmetry == Permutations(Threads) \cup Permutations(Ids)
              \cup Permutations(Payloads) \cup Permutations(Nodes)

\* A full cache, and for each goroutine a cell it is adding.
ASSUME EnoughNodes == Cardinality(Nodes) >= Capacity + Cardinality(Threads)
=============================================================================
