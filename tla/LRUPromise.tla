----------------------------- MODULE LRUPromise -----------------------------
(***************************************************************************)
(* What internal/lrucache promises its callers, without saying how: a      *)
(* bounded map from identifiers to payloads that forgets, when it is full  *)
(* and a new identifier comes, the identifier that was used least          *)
(* recently.  LRUCache (a list and an index over its elements) is shown to *)
(* implement this module.                                                  *)
(*                                                                         *)
(* Recency is a strict total order on the cached identifiers: the pair     *)
(* <<a, b>> is in `older' when a was used less recently than b.            *)
(***************************************************************************)
EXTENDS Naturals, FiniteSets

CONSTANTS Ids,       \* identifiers a caller may use (string)
          Payloads,  \* values a caller may store (interface{})
          Capacity,  \* the argument of New
          Nil        \* the payload returned with ok = false

VARIABLES cached,    \* partial function from Ids to Payloads
          older,     \* recency order on DOMAIN cached
          ret        \* what the last call returned

pvars == <<cached, older, ret>>

InitCache ==
  /\ cached = [id \in {} |-> Nil]
  /\ older = {}

Init ==
  /\ InitCache
  /\ ret = [op |-> "New"]

\* id becomes the most recently used of the identifiers in kept.
Touched(id, kept) ==
  {p \in older : p[1] \in kept \ {id} /\ p[2] \in kept \ {id}}
     \cup ((kept \ {id}) \X {id})

\* Fault: one identifier too many before anybody goes.
LateVictims(id) ==
  IF id \in DOMAIN cached \/ Cardinality(DOMAIN cached) <= Capacity
  THEN {}
  ELSE {v \in DOMAIN cached : \A w \in DOMAIN cached \ {v} : <<v, w>> \in older}

\* The identifiers that must go when id comes: nobody unless the cache is
\* full and id is new; else the one that every other identifier is newer than.
Victims(id) ==
  IF id \in DOMAIN cached \/ Cardinality(DOMAIN cached) < Capacity
  THEN {}
  ELSE {v \in DOMAIN cached : \A w \in DOMAIN cached \ {v} : <<v, w>> \in older}

\* What Put does to the cache.
Store(id, payload) ==
  LET kept == DOMAIN cached \ Victims(id) IN
  /\ cached' = [i \in kept \cup {id} |-> IF i = id THEN payload ELSE cached[i]]
  /\ older' = Touched(id, kept)

\* What Get and UpdateAccess do to it.
Use(id) ==
  /\ older' = IF id \in DOMAIN cached THEN Touched(id, DOMAIN cached) ELSE older
  /\ UNCHANGED cached

Put(id, payload) ==
  /\ Store(id, payload)
  /\ ret' = [op |-> "Put", id |-> id, ok |-> TRUE]

Get(id) ==
  /\ Use(id)
  /\ ret' = IF id \in DOMAIN cached
            THEN [op |-> "Get", id |-> id, ok |-> TRUE, payload |-> cached[id]]
            ELSE [op |-> "Get", id |-> id, ok |-> FALSE, payload |-> Nil]

UpdateAccess(id) ==
  /\ Use(id)
  /\ ret' = [op |-> "UpdateAccess", id |-> id]

Remove(id) ==
  LET kept == DOMAIN cached \ {id} IN
  /\ cached' = [i \in kept |-> cached[i]]
  /\ older' = {p \in older : p[1] # id /\ p[2] # id}
  /\ ret' = [op |-> "Remove", id |-> id, ok |-> id \in DOMAIN cached]

\* What Clear does to it.
Wipe ==
  /\ cached' = [id \in {} |-> Nil]
  /\ older' = {}

Clear ==
  /\ Wipe
  /\ ret' = [op |-> "Clear"]

\* The calls that only look: Has, GetFullIDList, Size, GetOldest.
Query ==
  /\ \/ \E id \in Ids : ret' = [op |-> "Has", id |-> id, ok |-> id \in DOMAIN cached]
     \/ ret' = [op |-> "GetFullIDList", ids |-> DOMAIN cached]
     \/ ret' = [op |-> "Size", size |-> Cardinality(DOMAIN cached)]
     \/ /\ DOMAIN cached = {}
        /\ ret' = [op |-> "GetOldest", ok |-> FALSE, payload |-> Nil]
     \/ \E v \in DOMAIN cached :
          /\ \A w \in DOMAIN cached \ {v} : <<v, w>> \in older
          /\ ret' = [op |-> "GetOldest", ok |-> TRUE, payload |-> cached[v]]
  /\ UNCHANGED <<cached, older>>

Next ==
  \/ \E id \in Ids : \/ \E payload \in Payloads : Put(id, payload)
                     \/ Get(id)
                     \/ UpdateAccess(id)
                     \/ Remove(id)
  \/ Clear
  \/ Query

Spec == Init /\ [][Next]_pvars

-----------------------------------------------------------------------------
\* Recency orders the cached identifiers strictly and totally, and nothing else.
Ordered ==
  /\ older \subseteq (DOMAIN cached) \X (DOMAIN cached)
  /\ \A a \in DOMAIN cached : <<a, a>> \notin older
  /\ \A a, b \in DOMAIN cached : a # b => <<a, b>> \in older \/ <<b, a>> \in older
  /\ \A a, b, c \in DOMAIN cached :
       <<a, b>> \in older /\ <<b, c>> \in older => <<a, c>> \in older
=============================================================================
