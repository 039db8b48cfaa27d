----------------------------- MODULE MCLRUCache -----------------------------
(* Small instance of LRUCache: the constants come from MCLRUCache.cfg.     *)
EXTENDS LRUCache, TLC

\* Payloads and heap cells are only compared for equality.
Symmetry == Permutations(Payloads) \cup Permutations(Nodes)

\* Enough cells for a full cache and the element being added.
ASSUME EnoughNodes == Cardinality(Nodes) > Capacity
=============================================================================
