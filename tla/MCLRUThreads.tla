---------------------------- MODULE MCLRUThreads ----------------------------
(* Small instances of LRUThreads.                                          *)
EXTENDS LRUThreads

\* One goroutine makes calls that lock, the other all that do not, and Put.
first == CHOOSE t \in Threads : TRUE
AllOps == [t \in Threads |->
             IF t = first THEN {"Put", "Get", "Remove", "GetFullIDList"}
             ELSE {"Put", "Size", "GetOldest", "Clear"}]

ClearOps == [t \in Threads |-> {"Put", "Size", "Clear"}]

\* A full cache, and for each goroutine a cell it is adding.
ASSUME EnoughNodes == Cardinality(Nodes) >= Capacity + Cardinality(Threads)
=============================================================================
