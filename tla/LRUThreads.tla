----------------------------- MODULE LRUThreads -----------------------------
(***************************************************************************)
(* internal/lrucache/lrucache.go as goroutines run it: one step per        *)
(* statement, with the mutex dmu where the code takes it.  Size, GetOldest *)
(* and Clear do not take it; which of them a goroutine calls is set by     *)
(* Ops, so that a run can ask what the locked calls guarantee and what the *)
(* unlocked ones break.                                                    *)
(*                                                                         *)
(* Clear replaces l.entries and l.queue by new objects.  `queue' is the    *)
(* contents of the current list; an element of a list that was replaced is *)
(* in no queue, and container/list ignores it (MoveToFront, Remove).       *)
(***************************************************************************)
EXTENDS Naturals, Sequences, FiniteSets

CONSTANTS Threads, Ids, Payloads, Nodes, Capacity, Nil,
          Ops        \* for each goroutine, the names of the calls it makes

VARIABLES queue, entries, value,   \* as in LRUCache
          dmu,       \* the goroutine that holds the mutex, or Nil
          pc,        \* next statement of each goroutine
          call,      \* the call each goroutine is in: op, id, payload
          node,      \* the local n (or p) of each goroutine, or Nil
          local,     \* the local id of Put, len(ids) of GetFullIDList, or Nil
          out        \* what each goroutine's call returns

svars == <<queue, entries, value>>
tvars == <<call, node, local, out>>
vars == <<svars, dmu, pc, tvars>>

\* The operators of LRUCache; its actions and their ret are not used here.
Cache == INSTANCE LRUCache WITH ret <- Nil

Keyed == {"Put", "Get", "UpdateAccess", "Remove", "Has"}
Locked == Keyed \cup {"GetFullIDList"}
Unlocked == {"Size", "GetOldest", "Clear"}

ASSUME ThreadsAssumption ==
  /\ Ops \in [Threads -> SUBSET (Locked \cup Unlocked)]
  /\ Nil \notin Threads \cup Nodes \cup [Identifier : Ids, Payload : Payloads]
  /\ Capacity \in Nat \ {0}

NoCall == [op |-> Nil, id |-> Nil, payload |-> Nil]

Init ==
  /\ queue = <<>>
  /\ entries = [id \in {} |-> Nil]
  /\ value = [n \in Nodes |-> Nil]
  /\ dmu = Nil
  /\ pc = [t \in Threads |-> "idle"]
  /\ call = [t \in Threads |-> NoCall]
  /\ node = [t \in Threads |-> Nil]
  /\ local = [t \in Threads |-> Nil]
  /\ out = [t \in Threads |-> Nil]

-----------------------------------------------------------------------------
(* Control.                                                                *)

At(t, label) == pc[t] = label
Goto(t, from, to) == At(t, from) /\ pc' = [pc EXCEPT ![t] = to]

\* The first statement after the lock, or of the call when it takes none.
Entry(op) ==
  CASE op = "GetFullIDList" -> "make"
    [] op = "Size" -> "size"
    [] op = "GetOldest" -> "test"
    [] op = "Clear" -> "newEntries"
    [] OTHER -> "lookup"

\* The calls of an operation with all their arguments; Nil where there is none.
Calls(op) ==
  [op : {op},
   id : IF op \in Keyed THEN Ids ELSE {Nil},
   payload : IF op = "Put" THEN Payloads ELSE {Nil}]

Begin(t) ==
  \E op \in Ops[t] : \E c \in Calls(op) :
    /\ Goto(t, "idle", IF op \in Locked THEN "lock" ELSE Entry(op))
    /\ call' = [call EXCEPT ![t] = c]
    /\ UNCHANGED <<svars, dmu, node, local, out>>

\* Fault: the lock is taken although another goroutine holds it.
LockShared(t) ==
  /\ Goto(t, "lock", Entry(call[t].op))
  /\ dmu' = t
  /\ UNCHANGED <<svars, tvars>>

Lock(t) ==
  /\ Goto(t, "lock", Entry(call[t].op))
  /\ dmu = Nil
  /\ dmu' = t
  /\ UNCHANGED <<svars, tvars>>

\* The end of a call: its locals die.
Forget(t) ==
  /\ call' = [call EXCEPT ![t] = NoCall]
  /\ node' = [node EXCEPT ![t] = Nil]
  /\ local' = [local EXCEPT ![t] = Nil]
  /\ out' = [out EXCEPT ![t] = Nil]

\* Cells that something still refers to once t has forgotten its locals; the
\* others are garbage.
Live(n, t) == \/ \E i \in DOMAIN queue : queue[i] = n
              \/ \E id \in DOMAIN entries : entries[id] = n
              \/ \E u \in Threads \ {t} : node[u] = n

\* The deferred Unlock.  The heap is collected here.
Unlock(t) ==
  /\ Goto(t, "unlock", "idle")
  /\ dmu' = Nil
  /\ value' = [n \in Nodes |-> IF Live(n, t) THEN value[n] ELSE Nil]
  /\ Forget(t)
  /\ UNCHANGED <<queue, entries>>

\* The end of a call that did not lock.
Return(t) ==
  /\ Goto(t, "return", "idle")
  /\ Forget(t)
  /\ UNCHANGED <<svars, dmu>>

\* Fault: Unlock is called at the end instead of being deferred.
PanicLocked(t, from) ==
  /\ Goto(t, from, "panicked")
  /\ UNCHANGED <<svars, dmu, tvars>>

\* A nil dereference or an index out of range: the deferred Unlock still runs.
Panic(t, from) ==
  /\ Goto(t, from, "panicked")
  /\ dmu' = IF dmu = t THEN Nil ELSE dmu
  /\ UNCHANGED <<svars, tvars>>

-----------------------------------------------------------------------------
(* The statements.                                                         *)

Id(t) == call[t].id
Linked(n) == \E i \in DOMAIN queue : queue[i] = n

\* What a call on id returns, as LRUCache names it.
Answer(t, ok) == [op |-> call[t].op, id |-> Id(t), ok |-> ok]

\* if n, ok := l.entries[id]; ok { ... } of all the calls that have it.
Lookup(t) ==
  LET hit == Id(t) \in DOMAIN entries
      op == call[t].op
  IN
  /\ Goto(t, "lookup",
          CASE op = "Has" -> "unlock"
            [] op = "Put" /\ ~hit -> "capacity"
            [] op # "Put" /\ ~hit -> "unlock"
            [] op = "Get" /\ hit -> "read"
            [] op = "Remove" /\ hit -> "delete"
            [] OTHER -> "move")
  /\ node' = [node EXCEPT ![t] = IF hit /\ op # "Has" THEN entries[Id(t)] ELSE Nil]
  /\ out' = [out EXCEPT ![t] =
               CASE op = "UpdateAccess" -> [op |-> op, id |-> Id(t)]
                 [] op = "Get" -> [op |-> op, id |-> Id(t), ok |-> FALSE, payload |-> Nil]
                 [] op = "Put" -> Answer(t, TRUE)
                 [] OTHER -> Answer(t, hit)]
  /\ UNCHANGED <<svars, dmu, call, local>>

\* v := n.Value... in Get.
Read(t) ==
  /\ Goto(t, "read", "move")
  /\ out' = [out EXCEPT ![t] = [op |-> "Get", id |-> Id(t), ok |-> TRUE,
                                payload |-> value[node[t]].Payload]]
  /\ UNCHANGED <<svars, dmu, call, node, local>>

\* Fault: a use is not noted.
MoveNothing(t) ==
  /\ Goto(t, "move", IF call[t].op = "Put" THEN "overwrite" ELSE "unlock")
  /\ UNCHANGED <<svars, dmu, tvars>>

\* l.queue.MoveToFront(n) in Get, UpdateAccess and Put.
Move(t) ==
  /\ Goto(t, "move", IF call[t].op = "Put" THEN "overwrite" ELSE "unlock")
  /\ queue' = IF Linked(node[t]) THEN Cache!MoveToFront(queue, node[t]) ELSE queue
  /\ UNCHANGED <<entries, value, dmu, tvars>>

\* The LRUEntry that Put stores.
E(t) == [Identifier |-> Id(t), Payload |-> call[t].payload]

\* n.Value.(*list.Element).Value = e
Overwrite(t) ==
  /\ Goto(t, "overwrite", "unlock")
  /\ value' = [value EXCEPT ![node[t]] = E(t)]
  /\ UNCHANGED <<queue, entries, dmu, tvars>>

\* Fault: != instead of ==.
EvictEarly(t) ==
  /\ Goto(t, "capacity", IF ~Cache!Full THEN "victim" ELSE "push")
  /\ UNCHANGED <<svars, dmu, tvars>>

\* if l.queue.Len() == l.capacity
CheckCapacity(t) ==
  /\ Goto(t, "capacity", IF Cache!Full THEN "victim" ELSE "push")
  /\ UNCHANGED <<svars, dmu, tvars>>

\* id := l.queue.Back()....Identifier
Victim(t) ==
  \/ /\ queue # <<>>
     /\ Goto(t, "victim", "deleteVictim")
     /\ local' = [local EXCEPT ![t] = Cache!BackId]
     /\ UNCHANGED <<svars, dmu, call, node, out>>
  \/ queue = <<>> /\ Panic(t, "victim")

\* Fault: the key of the dropped element stays in the map.
KeepVictim(t) ==
  /\ Goto(t, "deleteVictim", "removeBack")
  /\ UNCHANGED <<svars, dmu, tvars>>

\* delete(l.entries, id) of Put
DeleteVictim(t) ==
  /\ Goto(t, "deleteVictim", "removeBack")
  /\ entries' = Cache!Delete(entries, local[t])
  /\ UNCHANGED <<queue, value, dmu, tvars>>

\* l.queue.Remove(l.queue.Back())
RemoveBack(t) ==
  \/ /\ queue # <<>>
     /\ Goto(t, "removeBack", "push")
     /\ queue' = Cache!ListRemove(queue, Cache!Back(queue))
     /\ UNCHANGED <<entries, value, dmu, tvars>>
  \/ queue = <<>> /\ Panic(t, "removeBack")

\* p := l.queue.PushFront(n) with a fresh element
Push(t) ==
  \E n \in Nodes :
    /\ ~Live(n, t)
    /\ Goto(t, "push", "index")
    /\ queue' = Cache!PushFront(queue, n)
    /\ value' = [value EXCEPT ![n] = E(t)]
    /\ node' = [node EXCEPT ![t] = n]
    /\ UNCHANGED <<entries, dmu, call, local, out>>

\* Fault: the victim's identifier was assigned to the parameter id (id = instead
\* of id :=).
IndexShadowed(t) ==
  /\ Goto(t, "index", "unlock")
  /\ entries' = Cache!Store(entries, IF local[t] = Nil THEN Id(t) ELSE local[t], node[t])
  /\ UNCHANGED <<queue, value, dmu, tvars>>

\* l.entries[id] = p
Index(t) ==
  /\ Goto(t, "index", "unlock")
  /\ entries' = Cache!Store(entries, Id(t), node[t])
  /\ UNCHANGED <<queue, value, dmu, tvars>>

\* Fault: the slot is set to nil and the key stays.
ResetKey(t) ==
  /\ Goto(t, "delete", "unlink")
  /\ entries' = [entries EXCEPT ![Id(t)] = Nil]
  /\ UNCHANGED <<queue, value, dmu, tvars>>

\* delete(l.entries, id) of Remove
DeleteKey(t) ==
  /\ Goto(t, "delete", "unlink")
  /\ entries' = Cache!Delete(entries, Id(t))
  /\ UNCHANGED <<queue, value, dmu, tvars>>

\* l.queue.Remove(n) in Remove
Unlink(t) ==
  /\ Goto(t, "unlink", "unlock")
  /\ queue' = IF Linked(node[t]) THEN Cache!ListRemove(queue, node[t]) ELSE queue
  /\ UNCHANGED <<entries, value, dmu, tvars>>

\* ids := make([]string, len(l.entries))
MakeIds(t) ==
  /\ Goto(t, "make", "fill")
  /\ local' = [local EXCEPT ![t] = Cardinality(DOMAIN entries)]
  /\ UNCHANGED <<svars, dmu, call, node, out>>

\* The loop over l.entries: a slot that no key fills stays "" (Nil here).  There
\* are never more keys than slots: keys are added under the lock only, and
\* Clear takes them away.
FillIds(t) ==
  /\ At(t, "fill") /\ Cardinality(DOMAIN entries) <= local[t]
  /\ Goto(t, "fill", "unlock")
  /\ out' = [out EXCEPT ![t] =
               [op |-> "GetFullIDList",
                ids |-> DOMAIN entries \cup
                        (IF Cardinality(DOMAIN entries) < local[t] THEN {Nil} ELSE {})]]
  /\ UNCHANGED <<svars, dmu, call, node, local>>

-----------------------------------------------------------------------------
(* The calls that do not lock.                                             *)

SizeUnlocked(t) ==
  /\ Goto(t, "size", "return")
  /\ out' = [out EXCEPT ![t] = [op |-> "Size", size |-> Cardinality(DOMAIN entries)]]
  /\ UNCHANGED <<svars, dmu, call, node, local>>

\* if len(l.entries) > 0
OldestTest(t) ==
  /\ Goto(t, "test", IF DOMAIN entries # {} THEN "back" ELSE "return")
  /\ out' = [out EXCEPT ![t] = [op |-> "GetOldest", ok |-> FALSE, payload |-> Nil]]
  /\ UNCHANGED <<svars, dmu, call, node, local>>

\* n := l.queue.Back(), and the dereference that follows when it is nil
OldestBack(t) ==
  \/ /\ queue # <<>>
     /\ Goto(t, "back", "oldest")
     /\ node' = [node EXCEPT ![t] = Cache!Back(queue)]
     /\ UNCHANGED <<svars, dmu, call, local, out>>
  \/ queue = <<>> /\ Panic(t, "back")

OldestRead(t) ==
  /\ Goto(t, "oldest", "return")
  /\ out' = [out EXCEPT ![t] = [op |-> "GetOldest", ok |-> TRUE,
                                payload |-> value[node[t]].Payload]]
  /\ UNCHANGED <<svars, dmu, call, node, local>>

ClearEntries(t) ==
  /\ Goto(t, "newEntries", "newQueue")
  /\ entries' = [id \in {} |-> Nil]
  /\ UNCHANGED <<queue, value, dmu, tvars>>

ClearQueue(t) ==
  /\ Goto(t, "newQueue", "return")
  /\ queue' = <<>>
  /\ UNCHANGED <<entries, value, dmu, tvars>>

-----------------------------------------------------------------------------
Inner(t) ==
  \/ Lookup(t) \/ Read(t) \/ Move(t) \/ Overwrite(t)
  \/ CheckCapacity(t) \/ Victim(t) \/ DeleteVictim(t) \/ RemoveBack(t)
  \/ Push(t) \/ Index(t) \/ DeleteKey(t) \/ Unlink(t)
  \/ MakeIds(t) \/ FillIds(t)
  \/ SizeUnlocked(t) \/ OldestTest(t) \/ OldestBack(t) \/ OldestRead(t)
  \/ ClearEntries(t) \/ ClearQueue(t) \/ Return(t)

Statement(t) == Inner(t) \/ Unlock(t)

Next == \E t \in Threads : Begin(t) \/ Lock(t) \/ Statement(t)

\* A goroutine that can run is scheduled, and sync.Mutex hands the lock to a
\* waiter that has waited too long (its starvation mode), so a goroutine
\* that finds the lock free again and again gets it.
Fairness == \A t \in Threads : WF_vars(Statement(t)) /\ SF_vars(Lock(t))

SafeSpec == Init /\ [][Next]_vars
Spec == SafeSpec /\ Fairness

-----------------------------------------------------------------------------
(* Properties.                                                             *)

\* Statement labels and locals have their types.
TypeOK ==
  /\ Cache!TypeOK
  /\ dmu \in Threads \cup {Nil}
  /\ call \in [Threads -> [op : (UNION {Ops[t] : t \in Threads}) \cup {Nil}, id : Ids \cup {Nil},
                           payload : Payloads \cup {Nil}]]
  /\ node \in [Threads -> Nodes \cup {Nil}]
  /\ \A t \in Threads : pc[t] = "idle" => call[t] = NoCall /\ node[t] = Nil

\* The list and the map disagree only inside a locked call: whenever no
\* goroutine holds dmu they describe the same entries.
QuiescentConsistent == dmu = Nil => Cache!QueueDistinct /\ Cache!IndexSound /\ Cache!IndexComplete

\* Size may look at the map in the middle of a Put, yet it never reports more
\* entries than the capacity.
SizeWithinCapacity ==
  \A t \in Threads : pc[t] = "return" /\ call[t].op = "Size" => out[t].size <= Capacity

\* Whatever the goroutines call, dmu is held by exactly the goroutine that is
\* between the Lock and the Unlock of a call that takes it: no two are inside, a call
\* that does not lock never holds it, and one that returns or panics has let it go.
InsideHoldsLock ==
  \A t \in Threads :
    dmu = t <=> call[t].op \in Locked /\ pc[t] \notin {"idle", "lock", "panicked"}

\* No call dereferences a nil element or overruns a slice.
NoPanic == \A t \in Threads : pc[t] # "panicked"

\* Whatever the goroutines call, Clear and GetOldest included, a key never
\* leads to the entry of another identifier: the element a call has looked up
\* or is about to index holds an entry for the identifier the call is about.
OwnEntry ==
  /\ \A id \in DOMAIN entries : value[entries[id]].Identifier = id
  /\ \A t \in Threads :
       node[t] # Nil /\ call[t].op \in Keyed => value[node[t]].Identifier = Id(t)

\* Every call returns or panics, and a panic releases the lock: no goroutine
\* waits for dmu for ever.
CallsEnd == \A t \in Threads : pc[t] # "idle" ~> pc[t] \in {"idle", "panicked"}
=============================================================================
