------------------------------ MODULE LRUCache ------------------------------
(***************************************************************************)
(* internal/lrucache/lrucache.go with every call taken as one step, which  *)
(* is what its mutex dmu gives the calls that take it.  (LRUThreads splits *)
(* the calls into their statements and adds the calls that do not lock.)   *)
(*                                                                         *)
(* The cache keeps the same information twice: `queue', a doubly linked    *)
(* list, most recently used first, and `entries', a map from identifiers   *)
(* to elements of that list.  An element is a heap cell: `value' says what *)
(* LRUEntry each cell holds, Nil for a cell that is not in use.            *)
(***************************************************************************)
EXTENDS Naturals, Sequences, FiniteSets

CONSTANTS Ids,       \* identifiers (string)
          Payloads,  \* what callers store (interface{})
          Nodes,     \* heap cells for list elements
          Capacity,  \* the argument of New; celproc.go uses 10000
          Nil        \* Go's nil

\* The cache is only ever created with a positive capacity: with capacity 0
\* the first Put would take the Back of an empty list.
ASSUME CapacityAssumption == Capacity \in Nat \ {0}
ASSUME NilAssumption == Nil \notin [Identifier : Ids, Payload : Payloads]

VARIABLES queue,     \* the list, front (most recently used) first
          entries,   \* partial function from Ids to Nodes
          value,     \* contents of the heap cells
          ret        \* what the last call returned

cvars == <<queue, entries, value>>
vars == <<queue, entries, value, ret>>

SeqX == INSTANCE SequencesExt

LRUEntry == [Identifier : Ids, Payload : Payloads]

Init ==
  /\ queue = <<>>
  /\ entries = [id \in {} |-> Nil]
  /\ value = [n \in Nodes |-> Nil]
  /\ ret = [op |-> "New"]

-----------------------------------------------------------------------------
(* Operations of container/list, by what they do to the order.             *)

\* Position of element n in list q.
IndexOf(q, n) == CHOOSE i \in DOMAIN q : q[i] = n

ListRemove(q, n) == SeqX!RemoveAt(q, IndexOf(q, n))

PushFront(q, n) == <<n>> \o q

MoveToFront(q, n) == PushFront(ListRemove(q, n), n)

Back(q) == q[Len(q)]

\* A cell the allocator may hand out.
Free(n) == value[n] = Nil

\* The map without / with a key.
Delete(m, id) == [i \in DOMAIN m \ {id} |-> m[i]]
Store(m, id, n) == [i \in DOMAIN m \cup {id} |-> IF i = id THEN n ELSE m[i]]

-----------------------------------------------------------------------------
(* The operations.                                                         *)

\* Fault: one element too many.
OverFull == Len(queue) > Capacity

Full == Len(queue) = Capacity

\* Fault: the key of the newest element.
FrontId == value[queue[1]].Identifier

\* The element the next eviction drops, and the key under which it is filed.
BackId == value[Back(queue)].Identifier

PutExisting(id, payload) ==
  /\ id \in DOMAIN entries
  /\ queue' = MoveToFront(queue, entries[id])
  /\ value' = [value EXCEPT ![entries[id]] = [Identifier |-> id, Payload |-> payload]]
  /\ UNCHANGED entries

PutNew(id, payload) ==
  /\ id \notin DOMAIN entries
  /\ ~Full
  /\ \E n \in Nodes :
       /\ Free(n)
       /\ queue' = PushFront(queue, n)
       /\ entries' = Store(entries, id, n)
       /\ value' = [value EXCEPT ![n] = [Identifier |-> id, Payload |-> payload]]

PutEvict(id, payload) ==
  /\ id \notin DOMAIN entries
  /\ Full
  /\ \E n \in Nodes :
       /\ Free(n) \/ n = Back(queue)  \* the dropped cell may be handed out again
       /\ queue' = PushFront(SeqX!Front(queue), n)
       /\ entries' = Store(Delete(entries, BackId), id, n)
       /\ value' = [value EXCEPT ![Back(queue)] = Nil,
                                 ![n] = [Identifier |-> id, Payload |-> payload]]

Put(id, payload) ==
  /\ PutExisting(id, payload) \/ PutNew(id, payload) \/ PutEvict(id, payload)
  /\ ret' = [op |-> "Put", id |-> id, ok |-> TRUE]

\* Fault: a used element goes to the end that is evicted.
TouchBack(id) ==
  /\ queue' = IF id \in DOMAIN entries
              THEN Append(ListRemove(queue, entries[id]), entries[id]) ELSE queue
  /\ UNCHANGED <<entries, value>>

\* Puts id's element in front of the queue if there is one.
Touch(id) ==
  /\ queue' = IF id \in DOMAIN entries THEN MoveToFront(queue, entries[id]) ELSE queue
  /\ UNCHANGED <<entries, value>>

UpdateAccess(id) ==
  /\ Touch(id)
  /\ ret' = [op |-> "UpdateAccess", id |-> id]

Get(id) ==
  /\ Touch(id)
  /\ ret' = IF id \in DOMAIN entries
            THEN [op |-> "Get", id |-> id, ok |-> TRUE,
                  payload |-> value[entries[id]].Payload]
            ELSE [op |-> "Get", id |-> id, ok |-> FALSE, payload |-> Nil]

\* Fault: the slot is set to nil and the key stays.
ResetSlot(id) ==
  /\ id \in DOMAIN entries
  /\ entries' = [entries EXCEPT ![id] = Nil]
  /\ queue' = ListRemove(queue, entries[id])
  /\ value' = [value EXCEPT ![entries[id]] = Nil]
  /\ ret' = [op |-> "Remove", id |-> id, ok |-> TRUE]

Remove(id) ==
  /\ IF id \in DOMAIN entries
     THEN /\ entries' = Delete(entries, id)
          /\ queue' = ListRemove(queue, entries[id])
          /\ value' = [value EXCEPT ![entries[id]] = Nil]
     ELSE UNCHANGED cvars
  /\ ret' = [op |-> "Remove", id |-> id, ok |-> id \in DOMAIN entries]

Has(id) ==
  /\ ret' = [op |-> "Has", id |-> id, ok |-> id \in DOMAIN entries]
  /\ UNCHANGED cvars

GetFullIDList ==
  /\ ret' = [op |-> "GetFullIDList", ids |-> DOMAIN entries]
  /\ UNCHANGED cvars

Size ==
  /\ ret' = [op |-> "Size", size |-> Cardinality(DOMAIN entries)]
  /\ UNCHANGED cvars

GetOldest ==
  /\ ret' = IF DOMAIN entries = {}
            THEN [op |-> "GetOldest", ok |-> FALSE, payload |-> Nil]
            ELSE [op |-> "GetOldest", ok |-> TRUE,
                  payload |-> value[Back(queue)].Payload]
  /\ UNCHANGED cvars

Clear ==
  /\ queue' = <<>>
  /\ entries' = [id \in {} |-> Nil]
  /\ value' = [n \in Nodes |-> Nil]
  /\ ret' = [op |-> "Clear"]

Next ==
  \/ \E id \in Ids, payload \in Payloads : Put(id, payload)
  \/ \E id \in Ids : Get(id) \/ UpdateAccess(id) \/ Remove(id) \/ Has(id)
  \/ GetFullIDList \/ Size \/ GetOldest \/ Clear

Spec == Init /\ [][Next]_vars

-----------------------------------------------------------------------------
(* Properties.                                                             *)

\* Every variable has its type: entries is a partial function into the cells.
TypeOK ==
  /\ queue \in Seq(Nodes)
  /\ DOMAIN entries \subseteq Ids
  /\ entries \in [DOMAIN entries -> Nodes]
  /\ value \in [Nodes -> LRUEntry \cup {Nil}]

\* The list links no element twice.
QueueDistinct == \A i, j \in DOMAIN queue : queue[i] = queue[j] => i = j

\* A cell is in use exactly when the list links it.
LiveIsLinked == \A n \in Nodes : ~Free(n) <=> \E i \in DOMAIN queue : queue[i] = n

\* Every key of the map leads to a linked element filed under that key.
IndexSound ==
  \A id \in DOMAIN entries :
    /\ \E i \in DOMAIN queue : queue[i] = entries[id]
    /\ value[entries[id]].Identifier = id

\* Every linked element is what the map holds for its identifier.
IndexComplete ==
  \A i \in DOMAIN queue :
    LET id == value[queue[i]].Identifier IN
    id \in DOMAIN entries /\ entries[id] = queue[i]

\* The list and the map always describe the same set of entries, whatever
\* sequence of Put (with eviction), Get, Remove and Clear led here.
IndexMatchesQueue == QueueDistinct /\ LiveIsLinked /\ IndexSound /\ IndexComplete

\* The queue never outgrows the capacity: the equality test in Put suffices.
WithinCapacity == Len(queue) <= Capacity

\* Size reports len(entries); the capacity test looks at queue.Len().  They
\* agree and respect the capacity, so no sequence of calls leaks entries.
SizeBounded == Cardinality(DOMAIN entries) = Len(queue) /\ WithinCapacity

\* The cache keeps its promise: read through the mapping below, every call
\* does to the identifiers, payloads and recency order what LRUPromise says,
\* and returns what LRUPromise returns.
CachedBar == [id \in DOMAIN entries |-> value[entries[id]].Payload]
OlderBar ==
  {<<value[queue[p[2]]].Identifier, value[queue[p[1]]].Identifier>> :
     p \in {r \in (DOMAIN queue) \X (DOMAIN queue) : r[1] < r[2]}}

Promise == INSTANCE LRUPromise WITH cached <- CachedBar, older <- OlderBar

ImplementsPromise == Promise!Spec
=============================================================================
