-------------------------- MODULE LRUThreadsProofs --------------------------
(***************************************************************************)
(* Proofs about LRUThreads, for any goroutines, identifiers, payloads and  *)
(* cells, and every positive capacity.                                     *)
(*                                                                         *)
(* First part, whatever the goroutines call, Clear included: a cell says   *)
(* for whom it was made, and is not handed out again while the map or a    *)
(* local still refers to it (Local); so a key leads to its own entry.      *)
(* Second part, for calls that lock, and Size: what the statement that the *)
(* owner of the lock has come to leaves undone (Gap, Match, Knows).        *)
(* Third part, for the same calls: what that owner has done since the lock *)
(* was last released (Doing), which at the end is one step of LRUCache.    *)
(* Fourth part: with the refinement of LRUCacheProofs, one of LRUPromise.  *)
(***************************************************************************)
EXTENDS LRULinear, FiniteSetTheorems, TLAPS

\* The lemmas about the operations of container/list.
List == INSTANCE LRUCacheProofs WITH ret <- Nil

LEMMA ListAssumptions ==
  Capacity \in Nat \ {0} /\ Nil \notin [Identifier : Ids, Payload : Payloads]
BY ThreadsAssumption

PutLabels == {"overwrite", "capacity", "victim", "deleteVictim", "removeBack", "push", "index"}
NodeLabels == {"read", "move", "overwrite", "index", "delete", "unlink"}
KeyedLabels == PutLabels \cup NodeLabels \cup {"lookup"}
OldestLabels == {"test", "back", "oldest"}
Labels == {"idle", "lock", "make", "fill", "unlock", "size", "newEntries", "newQueue", "return",
           "panicked"} \cup KeyedLabels \cup OldestLabels

\* t is in a call that it may make.
Called(t) == call[t].op \in Ops[t] /\ call[t] \in Calls(call[t].op)

\* The cell n was made for the identifier of t's call.
MadeFor(t, n) == value[n].Identifier = Id(t)

Local(t) ==
  /\ pc[t] = "idle" => call[t] = NoCall /\ node[t] = Nil
  /\ pc[t] # "idle" => Called(t)
  /\ pc[t] \in KeyedLabels => call[t].op \in Keyed
  /\ pc[t] \in PutLabels => call[t].op = "Put"
  /\ pc[t] \in OldestLabels => call[t].op = "GetOldest"
  /\ pc[t] = "lock" => call[t].op \in Locked
  /\ pc[t] \in NodeLabels => node[t] \in Nodes /\ MadeFor(t, node[t])
  /\ node[t] # Nil /\ call[t].op \in Keyed => MadeFor(t, node[t])

Frames ==
  /\ dmu \in Threads \cup {Nil}
  /\ pc \in [Threads -> Labels]
  /\ node \in [Threads -> Nodes \cup {Nil}]
  /\ call = [t \in Threads |-> call[t]]
  /\ local = [t \in Threads |-> local[t]]
  /\ out = [t \in Threads |-> out[t]]

Heap ==
  /\ queue \in Seq(Nodes) /\ List!Distinct(queue)
  /\ DOMAIN entries \subseteq Ids
  /\ entries \in [DOMAIN entries -> Nodes]
  /\ value \in [Nodes -> Cache!LRUEntry \cup {Nil}]
  /\ \A id \in DOMAIN entries : value[entries[id]].Identifier = id

OInv == Heap /\ Frames /\ \A t \in Threads : Local(t)

-----------------------------------------------------------------------------
LEMMA InitOInv == Init => OInv
<1> SUFFICES ASSUME Init PROVE OInv
  OBVIOUS
<1>1. Heap
  BY DEF Init, Heap, List!Distinct
<1>2. Frames
  BY DEF Init, Frames, Labels
<1>3. \A t \in Threads : Local(t)
  BY DEF Init, Local, KeyedLabels, PutLabels, OldestLabels, NodeLabels, NoCall
<1> QED
  BY <1>1, <1>2, <1>3 DEF OInv

\* A goroutine that does not move keeps its locals, and its cell stays its own.
LEMMA OthersKeep ==
  ASSUME NEW u, Local(u), pc'[u] = pc[u], call'[u] = call[u], node'[u] = node[u],
         node[u] # Nil \/ pc[u] \in NodeLabels => value'[node[u]].Identifier = value[node[u]].Identifier
  PROVE  Local(u)'
BY DEF Local, Called, MadeFor, Id

\* What a step of t has to establish.
LEMMA StepOfOne ==
  ASSUME OInv, NEW t \in Threads, Heap', Frames', Local(t)',
         \A u \in Threads \ {t} :
           /\ pc'[u] = pc[u] /\ call'[u] = call[u] /\ node'[u] = node[u]
           /\ node[u] # Nil \/ pc[u] \in NodeLabels =>
                value'[node[u]].Identifier = value[node[u]].Identifier
  PROVE  OInv'
BY OthersKeep DEF OInv

\* A step that leaves the cache alone.
LEMMA QuietStep ==
  ASSUME OInv, NEW t \in Threads, UNCHANGED svars, Frames', Local(t)',
         \A u \in Threads \ {t} : pc'[u] = pc[u] /\ call'[u] = call[u] /\ node'[u] = node[u]
  PROVE  OInv'
<1>1. Heap'
  BY DEF OInv, Heap, svars
<1>2. value' = value
  BY DEF svars
<1> QED
  BY <1>1, <1>2, StepOfOne

-----------------------------------------------------------------------------
(* One lemma for each kind of step.                                        *)

\* What moving the label of t leaves in place.
LEMMA GotoFrames ==
  ASSUME OInv, NEW t \in Threads, NEW from, NEW to \in Labels, Goto(t, from, to)
  PROVE  /\ pc' \in [Threads -> Labels] /\ pc[t] = from /\ pc'[t] = to
         /\ \A u \in Threads \ {t} : pc'[u] = pc[u]
BY DEF Goto, At, OInv, Frames

LEMMA BeginKeeps ==
  ASSUME OInv, NEW t \in Threads, Begin(t)
  PROVE  OInv'
<1>1. PICK op \in Ops[t] : \E c \in Calls(op) :
        /\ Goto(t, "idle", IF op \in Locked THEN "lock" ELSE Entry(op))
        /\ call' = [call EXCEPT ![t] = c]
        /\ UNCHANGED <<svars, dmu, node, local, out>>
  BY DEF Begin
<1>2. PICK c \in Calls(op) :
        /\ Goto(t, "idle", IF op \in Locked THEN "lock" ELSE Entry(op))
        /\ call' = [call EXCEPT ![t] = c]
        /\ UNCHANGED <<svars, dmu, node, local, out>>
  BY <1>1
<1> DEFINE to == IF op \in Locked THEN "lock" ELSE Entry(op)
<1>3. op \in Locked \cup Unlocked
  BY ThreadsAssumption
<1>4. /\ op \in Locked => to = "lock"
      /\ op = "Size" => to = "size"
      /\ op = "GetOldest" => to = "test"
      /\ op = "Clear" => to = "newEntries"
      /\ to \in {"lock", "size", "test", "newEntries"}
  BY <1>3 DEF Entry, Locked, Unlocked, Keyed
<1>5. to \in Labels
  BY <1>4 DEF Labels, OldestLabels
<1> HIDE DEF to
<1>6. /\ pc' \in [Threads -> Labels] /\ pc[t] = "idle" /\ pc'[t] = to
      /\ \A u \in Threads \ {t} : pc'[u] = pc[u]
  BY <1>2, <1>5, GotoFrames DEF to
<1>7. /\ call'[t] = c /\ \A u \in Threads \ {t} : call'[u] = call[u]
      /\ call' = [u \in Threads |-> call'[u]]
  BY <1>2 DEF OInv, Frames
<1>8. Frames'
  BY <1>2, <1>6, <1>7 DEF OInv, Frames
<1>9. c.op = op
  BY DEF Calls
<1>10. node'[t] = Nil
  BY <1>2, <1>6 DEF OInv, Local
<1>11. Called(t)'
  BY <1>7, <1>9 DEF Called
<1>12. Local(t)'
  <2>1. to \notin KeyedLabels \cup NodeLabels \cup PutLabels /\ to # "idle"
    BY <1>4 DEF KeyedLabels, NodeLabels, PutLabels
  <2>2. to \in OldestLabels => op = "GetOldest"
    BY <1>3, <1>4 DEF OldestLabels, Locked, Unlocked
  <2>3. to = "lock" => op \in Locked
    BY <1>3, <1>4 DEF Unlocked
  <2> QED
    BY <1>6, <1>7, <1>9, <1>10, <1>11, <2>1, <2>2, <2>3 DEF Local
<1> QED
  BY <1>2, <1>6, <1>7, <1>8, <1>12, QuietStep

LEMMA LockKeeps ==
  ASSUME OInv, NEW t \in Threads, Lock(t)
  PROVE  OInv'
<1> DEFINE to == Entry(call[t].op)
<1>1. Goto(t, "lock", to) /\ dmu' = t /\ UNCHANGED <<svars, tvars>>
  BY DEF Lock
<1>2. call[t].op \in Locked
  BY <1>1 DEF Goto, At, OInv, Local
<1>3. to \in {"make", "lookup"} /\ (to = "lookup" => call[t].op \in Keyed)
  BY <1>2 DEF Entry, Locked, Keyed
<1>4. to \in Labels
  BY <1>3 DEF Labels, KeyedLabels
<1> HIDE DEF to
<1>5. /\ pc' \in [Threads -> Labels] /\ pc[t] = "lock" /\ pc'[t] = to
      /\ \A u \in Threads \ {t} : pc'[u] = pc[u]
  BY <1>1, <1>4, GotoFrames
<1>6. Frames'
  BY <1>1, <1>5 DEF OInv, Frames, tvars
<1>7. Local(t)'
  <2>1. to \notin NodeLabels \cup PutLabels \cup OldestLabels \cup {"idle", "lock"}
    BY <1>3 DEF NodeLabels, PutLabels, OldestLabels
  <2>2. to \in KeyedLabels => call[t].op \in Keyed
    BY <1>3 DEF KeyedLabels, NodeLabels, PutLabels
  <2>3. Local(t) /\ value' = value /\ call' = call /\ node' = node
    BY <1>1 DEF OInv, tvars, svars
  <2> QED
    BY <1>5, <2>1, <2>2, <2>3 DEF Local, Called, MadeFor, Id
<1> QED
  BY <1>1, <1>5, <1>6, <1>7, QuietStep DEF tvars

LEMMA LookupKeeps ==
  ASSUME OInv, NEW t \in Threads, Lookup(t)
  PROVE  OInv'
<1> DEFINE op == call[t].op
           hit == Id(t) \in DOMAIN entries
           to == CASE op = "Has" -> "unlock"
                   [] op = "Put" /\ ~hit -> "capacity"
                   [] op # "Put" /\ ~hit -> "unlock"
                   [] op = "Get" /\ hit -> "read"
                   [] op = "Remove" /\ hit -> "delete"
                   [] OTHER -> "move"
           n == IF hit /\ op # "Has" THEN entries[Id(t)] ELSE Nil
<1>1. /\ Goto(t, "lookup", to) /\ UNCHANGED <<svars, dmu, call, local>>
      /\ node' = [node EXCEPT ![t] = n]
      /\ \E o : out' = [out EXCEPT ![t] = o]
  BY DEF Lookup
<1>2. op \in Keyed /\ Called(t)
  BY <1>1 DEF Goto, At, OInv, Local, KeyedLabels
<1>3. /\ to \in {"unlock", "capacity", "read", "delete", "move"}
      /\ to = "capacity" => op = "Put"
      /\ to \in {"read", "delete", "move"} => hit /\ op # "Has"
  BY <1>2 DEF Keyed
<1>4. to \in Labels
  BY <1>3 DEF Labels, KeyedLabels, PutLabels, NodeLabels
<1>5. n # Nil \/ to \in NodeLabels => n \in Nodes /\ value[n].Identifier = Id(t)
  BY <1>3 DEF OInv, Heap, NodeLabels
<1>6. n \in Nodes \cup {Nil}
  BY DEF OInv, Heap
<1> HIDE DEF to, n
<1>7. /\ pc' \in [Threads -> Labels] /\ pc[t] = "lookup" /\ pc'[t] = to
      /\ \A u \in Threads \ {t} : pc'[u] = pc[u]
  BY <1>1, <1>4, GotoFrames
<1>8. Frames' /\ node'[t] = n /\ \A u \in Threads \ {t} : node'[u] = node[u]
  BY <1>1, <1>6, <1>7 DEF OInv, Frames
<1>9. Local(t)'
  <2>1. call' = call /\ value' = value
    BY <1>1 DEF svars
  <2>2. to \notin OldestLabels \cup {"idle", "lock"}
    BY <1>3 DEF OldestLabels
  <2>3. to \in PutLabels => op = "Put"
    BY <1>3 DEF PutLabels
  <2> QED
    BY <1>2, <1>5, <1>7, <1>8, <2>1, <2>2, <2>3 DEF Local, Called, MadeFor, Id
<1> QED
  BY <1>1, <1>7, <1>8, <1>9, QuietStep

\* A step that changes the label, the mutex, local and out only.
LEMMA PassKeeps ==
  ASSUME OInv, NEW t \in Threads, NEW from, NEW to \in Labels, Goto(t, from, to),
         UNCHANGED <<svars, call, node>>, dmu' \in Threads \cup {Nil},
         local' = [u \in Threads |-> local'[u]], out' = [u \in Threads |-> out'[u]],
         from # "idle", to \notin {"idle", "lock"},
         to \in KeyedLabels => from \in KeyedLabels,
         to \in PutLabels => call[t].op = "Put",
         to \in OldestLabels => from \in OldestLabels,
         to \in NodeLabels => from \in NodeLabels
  PROVE  OInv'
<1>1. /\ pc' \in [Threads -> Labels] /\ pc[t] = from /\ pc'[t] = to
      /\ \A u \in Threads \ {t} : pc'[u] = pc[u]
  BY GotoFrames
<1>2. Frames'
  BY <1>1 DEF OInv, Frames
<1>3. value' = value
  BY DEF svars
<1>4. Local(t)'
  BY <1>1, <1>3 DEF OInv, Local, Called, MadeFor, Id
<1> QED
  BY <1>1, <1>2, <1>4, QuietStep

LEMMA QuietKeeps ==
  ASSUME OInv, NEW t \in Threads,
         \/ Read(t) \/ CheckCapacity(t) \/ Victim(t) \/ MakeIds(t) \/ FillIds(t)
         \/ SizeUnlocked(t) \/ OldestTest(t) \/ OldestRead(t)
         \/ \E from \in {"removeBack", "back"} : Panic(t, from)
  PROVE  OInv'
<1> USE DEF Labels, KeyedLabels, PutLabels, NodeLabels, OldestLabels
<1>1. \A v : /\ [local EXCEPT ![t] = v] = [u \in Threads |-> [local EXCEPT ![t] = v][u]]
             /\ [out EXCEPT ![t] = v] = [u \in Threads |-> [out EXCEPT ![t] = v][u]]
  BY DEF OInv, Frames
<1>2. dmu \in Threads \cup {Nil} /\ local = [u \in Threads |-> local[u]] /\ out = [u \in Threads |-> out[u]]
  BY DEF OInv, Frames
<1>3. CASE Read(t)
  BY <1>1, <1>2, <1>3, PassKeeps DEF Read
<1>4. CASE CheckCapacity(t)
  <2>1. call[t].op = "Put"
    BY <1>4 DEF CheckCapacity, Goto, At, OInv, Local
  <2>2. PICK to \in {"victim", "push"} : Goto(t, "capacity", to)
    BY <1>4 DEF CheckCapacity
  <2> QED
    BY <1>1, <1>2, <1>4, <2>1, <2>2, PassKeeps DEF CheckCapacity, tvars
<1>5. ASSUME NEW from \in {"removeBack", "back", "victim"}, Panic(t, from) PROVE OInv'
  BY <1>2, <1>5, PassKeeps DEF Panic, tvars
<1>6. CASE Victim(t)
  <2>1. CASE queue # <<>>
    <3>1. Goto(t, "victim", "deleteVictim")
      BY <1>6, <2>1 DEF Victim
    <3>2. call[t].op = "Put"
      BY <3>1 DEF Goto, At, OInv, Local
    <3> QED
      BY <1>1, <1>2, <1>6, <2>1, <3>1, <3>2, PassKeeps DEF Victim
  <2>2. CASE queue = <<>>
    BY <1>5, <1>6, <2>2 DEF Victim
  <2> QED
    BY <2>1, <2>2
<1>7. CASE MakeIds(t)
  BY <1>1, <1>2, <1>7, PassKeeps DEF MakeIds
<1>8. CASE FillIds(t)
  BY <1>1, <1>2, <1>8, PassKeeps DEF FillIds
<1>9. CASE SizeUnlocked(t)
  BY <1>1, <1>2, <1>9, PassKeeps DEF SizeUnlocked
<1>10. CASE OldestTest(t)
  <2>1. PICK to \in {"back", "return"} : Goto(t, "test", to)
    BY <1>10 DEF OldestTest
  <2> QED
    BY <1>1, <1>2, <1>10, <2>1, PassKeeps DEF OldestTest
<1>11. CASE OldestRead(t)
  BY <1>1, <1>2, <1>11, PassKeeps DEF OldestRead
<1> QED
  BY <1>3, <1>4, <1>5, <1>6, <1>7, <1>8, <1>9, <1>10, <1>11

\* A step that changes the cache, and perhaps the cell that t has at hand.
LEMMA HeapKeeps ==
  ASSUME OInv, NEW t \in Threads, NEW from, NEW to \in Labels, Goto(t, from, to),
         UNCHANGED <<dmu, call, local, out>>, Heap',
         NEW n \in Nodes \cup {Nil}, node' = [node EXCEPT ![t] = n],
         from \notin {"idle", "lock"}, to \notin {"idle", "lock"},
         to \in KeyedLabels => from \in KeyedLabels,
         to \in PutLabels => call[t].op = "Put",
         to \in OldestLabels => from \in OldestLabels,
         to \in NodeLabels => n \in Nodes,
         to \in NodeLabels \/ (n # Nil /\ call[t].op \in Keyed) => value'[n].Identifier = Id(t),
         \A u \in Threads \ {t} :
           node[u] # Nil \/ pc[u] \in NodeLabels =>
             value'[node[u]].Identifier = value[node[u]].Identifier
  PROVE  OInv'
<1>1. /\ pc' \in [Threads -> Labels] /\ pc[t] = from /\ pc'[t] = to
      /\ \A u \in Threads \ {t} : pc'[u] = pc[u]
  BY GotoFrames
<1>2. Frames' /\ node'[t] = n /\ \A u \in Threads \ {t} : node'[u] = node[u]
  BY <1>1 DEF OInv, Frames
<1>3. Called(t)' /\ (to \in KeyedLabels => call[t].op \in Keyed)
      /\ (to \in OldestLabels => call[t].op = "GetOldest")
  BY <1>1 DEF OInv, Local, Called
<1>4. Local(t)'
  BY <1>1, <1>2, <1>3 DEF Local, MadeFor, Id
<1> QED
  BY <1>1, <1>2, <1>4, StepOfOne

\* The same when t keeps its cell and no cell changes hands.
LEMMA CellsKeep ==
  ASSUME OInv, NEW t \in Threads, NEW from, NEW to \in Labels, Goto(t, from, to),
         UNCHANGED <<dmu, call, node, local, out>>, Heap',
         from \notin {"idle", "lock"}, to \notin {"idle", "lock"},
         to \in KeyedLabels => from \in KeyedLabels,
         to \in PutLabels => call[t].op = "Put",
         to \in OldestLabels => from \in OldestLabels,
         to \in NodeLabels => from \in NodeLabels,
         \A c \in Nodes \cup {Nil} : value'[c].Identifier = value[c].Identifier
  PROVE  OInv'
<1> DEFINE n == node[t]
<1>1. pc[t] = from /\ Local(t) /\ \A u \in Threads : node[u] \in Nodes \cup {Nil}
  BY DEF Goto, At, OInv, Frames
<1>2. node' = [node EXCEPT ![t] = n] /\ n \in Nodes \cup {Nil}
  BY DEF OInv, Frames
<1>3. /\ to \in NodeLabels => n \in Nodes
      /\ to \in NodeLabels \/ (n # Nil /\ call[t].op \in Keyed) => value'[n].Identifier = Id(t)
  BY <1>1 DEF Local, MadeFor
<1> HIDE DEF n
<1> QED
  BY <1>1, <1>2, <1>3, HeapKeeps

LEMMA OldestBackKeeps ==
  ASSUME OInv, NEW t \in Threads, OldestBack(t)
  PROVE  OInv'
<1> USE DEF Labels, KeyedLabels, PutLabels, NodeLabels, OldestLabels
<1>1. CASE queue # <<>>
  <2> DEFINE n == Cache!Back(queue)
  <2>1. n \in Nodes
    BY <1>1 DEF OInv, Heap, Cache!Back
  <2>2. Goto(t, "back", "oldest") /\ UNCHANGED <<svars, dmu, call, local, out>>
        /\ node' = [node EXCEPT ![t] = n]
    BY <1>1 DEF OldestBack
  <2>3. call[t].op = "GetOldest" /\ "GetOldest" \notin Keyed
    BY <2>2 DEF Goto, At, OInv, Local, Keyed
  <2>4. Heap' /\ value' = value /\ UNCHANGED <<dmu, call, local, out>>
    BY <2>2 DEF OInv, Heap, svars
  <2>5. Goto(t, "back", "oldest") /\ node' = [node EXCEPT ![t] = n]
    BY <2>2
  <2>6. call[t].op \notin Keyed
    BY <2>3
  <2> HIDE DEF n
  <2>7. "oldest" \in Labels /\ n \in Nodes \cup {Nil}
    BY <2>1
  <2>8. \A u \in Threads \ {t} :
           node[u] # Nil \/ pc[u] \in NodeLabels =>
             value'[node[u]].Identifier = value[node[u]].Identifier
    BY <2>4
  <2>9. /\ "oldest" \in KeyedLabels => "back" \in KeyedLabels
        /\ "oldest" \in PutLabels => call[t].op = "Put"
        /\ "oldest" \in OldestLabels => "back" \in OldestLabels
        /\ "oldest" \in NodeLabels => n \in Nodes
        /\ "back" \notin {"idle", "lock"} /\ "oldest" \notin {"idle", "lock"}
    OBVIOUS
  <2>10. "oldest" \in NodeLabels \/ (n # Nil /\ call[t].op \in Keyed) => value'[n].Identifier = Id(t)
    BY <2>6
  <2> HIDE DEF Labels, KeyedLabels, PutLabels, NodeLabels, OldestLabels
  <2> QED
    BY <2>4, <2>5, <2>7, <2>8, <2>9, <2>10, HeapKeeps
<1>2. CASE queue = <<>>
  BY <1>2, QuietKeeps DEF OldestBack
<1> QED
  BY <1>1, <1>2

LEMMA ElemsOfQueue ==
  ASSUME Heap
  PROVE  /\ \A n : Linked(n) <=> n \in List!Elems(queue)
         /\ queue # <<>> => Cache!Back(queue) \in List!Elems(queue)
<1>1. \A n : Linked(n) <=> n \in List!Elems(queue)
  BY DEF Linked, List!Elems
<1>2. queue # <<>> => Len(queue) \in DOMAIN queue
  BY DEF Heap
<1> QED
  BY <1>1, <1>2 DEF List!Elems, Cache!Back

\* What the list operations of the code do to a list that links no cell twice.
LEMMA ListsStay ==
  ASSUME Heap, NEW n
  PROVE  /\ Linked(n) =>
              LET q == Cache!MoveToFront(queue, n) IN
              /\ q \in Seq(Nodes) /\ List!Distinct(q)
              /\ Len(q) = Len(queue) /\ List!Elems(q) = List!Elems(queue)
         /\ Linked(n) =>
              LET q == Cache!ListRemove(queue, n) IN
              /\ q \in Seq(Nodes) /\ List!Distinct(q)
              /\ Len(q) = Len(queue) - 1 /\ List!Elems(q) = List!Elems(queue) \ {n}
         /\ n \in Nodes /\ ~Linked(n) =>
              LET q == Cache!PushFront(queue, n) IN
              /\ q \in Seq(Nodes) /\ List!Distinct(q)
              /\ Len(q) = Len(queue) + 1 /\ List!Elems(q) = List!Elems(queue) \cup {n}
<1>1. queue \in Seq(Nodes) /\ List!Distinct(queue)
  BY DEF Heap
<1>2. ASSUME Linked(n)
      PROVE  LET q == Cache!MoveToFront(queue, n) IN
             /\ q \in Seq(Nodes) /\ List!Distinct(q)
             /\ Len(q) = Len(queue) /\ List!Elems(q) = List!Elems(queue)
  <2>1. n \in List!Elems(queue)
    BY <1>2, ElemsOfQueue
  <2> DEFINE q == List!MoveToFront(queue, n)
  <2>2. /\ q \in Seq(Nodes) /\ List!Distinct(q)
        /\ Len(q) = Len(queue) /\ List!Elems(q) = List!Elems(queue)
    BY <1>1, <2>1, ListAssumptions, List!MoveToFrontProperties
  <2> QED
    BY <2>2 DEF Cache!MoveToFront, List!MoveToFront, Cache!ListRemove, List!ListRemove,
                Cache!PushFront, List!PushFront, Cache!IndexOf, List!IndexOf,
                Cache!SeqX!RemoveAt, List!SeqX!RemoveAt
<1>3. ASSUME Linked(n)
      PROVE  LET q == Cache!ListRemove(queue, n) IN
             /\ q \in Seq(Nodes) /\ List!Distinct(q)
             /\ Len(q) = Len(queue) - 1 /\ List!Elems(q) = List!Elems(queue) \ {n}
  <2>1. n \in List!Elems(queue)
    BY <1>3, ElemsOfQueue
  <2> DEFINE q == List!ListRemove(queue, n)
  <2>2. /\ q \in Seq(Nodes) /\ List!Distinct(q)
        /\ Len(q) = Len(queue) - 1 /\ List!Elems(q) = List!Elems(queue) \ {n}
    BY <1>1, <2>1, ListAssumptions, List!ListRemoveProperties
  <2> QED
    BY <2>2 DEF Cache!ListRemove, List!ListRemove, Cache!IndexOf, List!IndexOf,
                Cache!SeqX!RemoveAt, List!SeqX!RemoveAt
<1>4. ASSUME n \in Nodes, ~Linked(n)
      PROVE  LET q == Cache!PushFront(queue, n) IN
             /\ q \in Seq(Nodes) /\ List!Distinct(q)
             /\ Len(q) = Len(queue) + 1 /\ List!Elems(q) = List!Elems(queue) \cup {n}
  <2>1. n \notin List!Elems(queue)
    BY <1>4, ElemsOfQueue
  <2> DEFINE q == List!PushFront(queue, n)
  <2>2. /\ q \in Seq(Nodes) /\ List!Distinct(q)
        /\ Len(q) = Len(queue) + 1 /\ List!Elems(q) = List!Elems(queue) \cup {n}
    BY <1>1, <1>4, <2>1, ListAssumptions, List!PushFrontProperties
  <2> QED
    BY <2>2 DEF Cache!PushFront, List!PushFront
<1> QED
  BY <1>2, <1>3, <1>4

\* A step that changes the order, or takes a cell out of the list.
LEMMA QueueKeeps ==
  ASSUME OInv, NEW t \in Threads,
         Move(t) \/ Unlink(t) \/ RemoveBack(t) \/ ClearQueue(t)
  PROVE  OInv'
<1> USE DEF Labels, KeyedLabels, PutLabels, NodeLabels, OldestLabels
<1>1. ASSUME queue' \in Seq(Nodes), List!Distinct(queue'), UNCHANGED <<entries, value>>
      PROVE  Heap'
  BY <1>1 DEF OInv, Heap
<1>2. CASE Move(t)
  <2>1. PICK to \in {"overwrite", "unlock"} :
          Goto(t, "move", to) /\ (to = "overwrite" => call[t].op = "Put")
    BY <1>2 DEF Move
  <2>2. Heap'
    BY <1>1, <1>2, ListsStay DEF Move, OInv, Heap
  <2> QED
    BY <1>2, <2>1, <2>2, CellsKeep DEF Move, tvars
<1>3. CASE Unlink(t)
  <2>1. Heap'
    BY <1>1, <1>3, ListsStay DEF Unlink, OInv, Heap
  <2> QED
    BY <1>3, <2>1, CellsKeep DEF Unlink, tvars
<1>4. CASE RemoveBack(t)
  <2>1. CASE queue # <<>>
    <3>1. Goto(t, "removeBack", "push") /\ queue' = Cache!ListRemove(queue, Cache!Back(queue))
          /\ UNCHANGED <<entries, value, dmu, tvars>>
      BY <1>4, <2>1 DEF RemoveBack
    <3>2. Linked(Cache!Back(queue))
      BY <2>1, ElemsOfQueue DEF OInv
    <3>3. Heap'
      BY <1>1, <3>1, <3>2, ListsStay DEF OInv
    <3>4. call[t].op = "Put"
      BY <3>1 DEF Goto, At, OInv, Local
    <3> QED
      BY <3>1, <3>3, <3>4, CellsKeep DEF tvars
  <2>2. CASE queue = <<>>
    BY <1>4, <2>2, QuietKeeps DEF RemoveBack
  <2> QED
    BY <2>1, <2>2
<1>5. CASE ClearQueue(t)
  <2>1. <<>> \in Seq(Nodes) /\ List!Distinct(<<>>)
    BY DEF List!Distinct
  <2>2. Heap'
    BY <1>1, <1>5, <2>1 DEF ClearQueue
  <2> QED
    BY <1>5, <2>2, CellsKeep DEF ClearQueue, tvars
<1> QED
  BY <1>2, <1>3, <1>4, <1>5

\* A step that changes the map.
LEMMA MapKeeps ==
  ASSUME OInv, NEW t \in Threads,
         DeleteVictim(t) \/ DeleteKey(t) \/ ClearEntries(t) \/ Index(t)
  PROVE  OInv'
<1> USE DEF Labels, KeyedLabels, PutLabels, NodeLabels, OldestLabels
<1>1. ASSUME NEW id, entries' = Cache!Delete(entries, id), UNCHANGED <<queue, value>>
      PROVE  Heap'
  BY <1>1 DEF OInv, Heap, Cache!Delete
<1>2. CASE DeleteVictim(t)
  <2>1. call[t].op = "Put"
    BY <1>2 DEF DeleteVictim, Goto, At, OInv, Local
  <2>2. Heap'
    BY <1>1, <1>2 DEF DeleteVictim
  <2> QED
    BY <1>2, <2>1, <2>2, CellsKeep DEF DeleteVictim, tvars
<1>3. CASE DeleteKey(t)
  <2>1. Heap'
    BY <1>1, <1>3 DEF DeleteKey
  <2> QED
    BY <1>3, <2>1, CellsKeep DEF DeleteKey, tvars
<1>4. CASE ClearEntries(t)
  <2>1. Heap'
    BY <1>4 DEF ClearEntries, OInv, Heap
  <2> QED
    BY <1>4, <2>1, CellsKeep DEF ClearEntries, tvars
<1>5. CASE Index(t)
  <2>1. pc[t] = "index" /\ entries' = Cache!Store(entries, Id(t), node[t])
        /\ UNCHANGED <<queue, value>>
    BY <1>5 DEF Index, Goto, At
  <2>2. node[t] \in Nodes /\ value[node[t]].Identifier = Id(t) /\ Called(t) /\ call[t].op = "Put"
    BY <2>1 DEF OInv, Local, MadeFor
  <2>3. Id(t) \in Ids
    BY <2>2 DEF Called, Calls, Id, Keyed
  <2>4. /\ DOMAIN entries' = DOMAIN entries \cup {Id(t)}
        /\ \A id \in DOMAIN entries' : entries'[id] = IF id = Id(t) THEN node[t] ELSE entries[id]
        /\ entries' = [id \in DOMAIN entries' |-> entries'[id]]
    BY <2>1 DEF Cache!Store
  <2>5. Heap'
    BY <2>1, <2>2, <2>3, <2>4 DEF OInv, Heap
  <2> QED
    BY <1>5, <2>5, CellsKeep DEF Index, tvars
<1> QED
  BY <1>2, <1>3, <1>4, <1>5

\* What Put stores.
LEMMA EntryOfPut ==
  ASSUME OInv, NEW t \in Threads, pc[t] \in PutLabels
  PROVE  E(t) \in Cache!LRUEntry /\ E(t).Identifier = Id(t) /\ Id(t) \in Ids
<1>1. call[t] \in Calls("Put") /\ pc[t] # "idle"
  BY DEF OInv, Local, Called, PutLabels
<1> QED
  BY <1>1 DEF Calls, Keyed, E, Id, Cache!LRUEntry

LEMMA OverwriteKeeps ==
  ASSUME OInv, NEW t \in Threads, Overwrite(t)
  PROVE  OInv'
<1>1. Goto(t, "overwrite", "unlock") /\ value' = [value EXCEPT ![node[t]] = E(t)]
      /\ UNCHANGED <<queue, entries, dmu, tvars>> /\ pc[t] = "overwrite"
  BY DEF Overwrite, Goto, At
<1>2. node[t] \in Nodes /\ value[node[t]].Identifier = Id(t)
  BY <1>1 DEF OInv, Local, NodeLabels, MadeFor
<1>3. E(t) \in Cache!LRUEntry /\ E(t).Identifier = Id(t)
  BY <1>1, EntryOfPut DEF PutLabels
<1> HIDE DEF E
<1>4. /\ value' \in [Nodes -> Cache!LRUEntry \cup {Nil}]
      /\ \A c \in Nodes : value'[c].Identifier = value[c].Identifier
      /\ \A c \in Nodes \ {node[t]} : value'[c] = value[c]
  BY <1>1, <1>2, <1>3 DEF OInv, Heap
<1>5. Heap'
  BY <1>1, <1>4 DEF OInv, Heap
<1>6. \A c \in Nodes \cup {Nil} : value'[c].Identifier = value[c].Identifier
  <2>1. Nil \notin Nodes => value'[Nil] = value[Nil]
    BY <1>1, <1>2 DEF OInv, Heap
  <2> QED
    BY <1>4, <2>1
<1> QED
  BY <1>1, <1>5, <1>6, CellsKeep DEF Labels, KeyedLabels, PutLabels, NodeLabels, OldestLabels, tvars

\* A new cell is nobody's: no key and no other goroutine refers to it.
LEMMA PushKeeps ==
  ASSUME OInv, NEW t \in Threads, Push(t)
  PROVE  OInv'
<1>1. PICK n \in Nodes :
        /\ ~Live(n, t)
        /\ Goto(t, "push", "index")
        /\ queue' = Cache!PushFront(queue, n)
        /\ value' = [value EXCEPT ![n] = E(t)]
        /\ node' = [node EXCEPT ![t] = n]
        /\ UNCHANGED <<entries, dmu, call, local, out>>
  BY DEF Push
<1>2. E(t) \in Cache!LRUEntry /\ E(t).Identifier = Id(t)
  BY <1>1, EntryOfPut DEF PutLabels, Goto, At
<1>3. /\ ~Linked(n)
      /\ \A id \in DOMAIN entries : entries[id] # n
      /\ \A u \in Threads \ {t} : node[u] # n
  BY <1>1 DEF Live, Linked
<1> HIDE DEF E
<1>4. /\ value' \in [Nodes -> Cache!LRUEntry \cup {Nil}] /\ value'[n].Identifier = Id(t)
      /\ \A c : c # n => value'[c] = value[c]
  BY <1>1, <1>2 DEF OInv, Heap
<1>5. Heap'
  <2>1. queue' \in Seq(Nodes) /\ List!Distinct(queue')
    BY <1>1, <1>3, ListsStay DEF OInv
  <2>2. \A id \in DOMAIN entries' : value'[entries'[id]].Identifier = id
    BY <1>1, <1>3, <1>4 DEF OInv, Heap
  <2> QED
    BY <1>1, <1>4, <2>1, <2>2 DEF OInv, Heap
<1>6. call[t].op = "Put"
  BY <1>1 DEF Goto, At, OInv, Local, PutLabels
<1>7. \A u \in Threads \ {t} : value'[node[u]].Identifier = value[node[u]].Identifier
  BY <1>3, <1>4
<1>8. /\ "index" \in Labels /\ "push" \in KeyedLabels /\ "index" \notin OldestLabels
      /\ "push" \notin {"idle", "lock"} /\ "index" \notin {"idle", "lock"}
  BY DEF Labels, KeyedLabels, PutLabels, OldestLabels
<1> QED
  BY <1>1, <1>4, <1>5, <1>6, <1>7, <1>8, HeapKeeps

\* The end of a call: its locals die, and with them cells that nothing else keeps.
LEMMA EndKeeps ==
  ASSUME OInv, NEW t \in Threads, NEW from, Goto(t, from, "idle"), Forget(t), Heap',
         dmu' \in Threads \cup {Nil}, from # "idle",
         \A u \in Threads \ {t} :
           node[u] # Nil \/ pc[u] \in NodeLabels => value'[node[u]] = value[node[u]]
  PROVE  OInv'
<1>1. "idle" \in Labels \ (KeyedLabels \cup NodeLabels \cup PutLabels \cup OldestLabels)
  BY DEF Labels, KeyedLabels, NodeLabels, PutLabels, OldestLabels
<1>2. /\ pc' \in [Threads -> Labels] /\ pc'[t] = "idle"
      /\ \A u \in Threads \ {t} : pc'[u] = pc[u]
  BY <1>1, GotoFrames
<1>3. /\ call'[t] = NoCall /\ node'[t] = Nil
      /\ \A u \in Threads \ {t} : call'[u] = call[u] /\ node'[u] = node[u]
  BY DEF Forget, OInv, Frames
<1>4. Frames'
  BY <1>2 DEF Forget, OInv, Frames
<1>5. Local(t)'
  BY <1>1, <1>2, <1>3 DEF Local
<1> QED
  BY <1>2, <1>3, <1>4, <1>5, StepOfOne

LEMMA UnlockKeeps ==
  ASSUME OInv, NEW t \in Threads, Unlock(t)
  PROVE  OInv'
<1>1. /\ Goto(t, "unlock", "idle") /\ dmu' = Nil /\ Forget(t) /\ UNCHANGED <<queue, entries>>
      /\ value' = [n \in Nodes |-> IF Live(n, t) THEN value[n] ELSE Nil]
  BY DEF Unlock
<1>2. \A n \in Nodes : Live(n, t) => value'[n] = value[n]
  BY <1>1
<1>3. Heap'
  <2>1. value' \in [Nodes -> Cache!LRUEntry \cup {Nil}]
    BY <1>1 DEF OInv, Heap
  <2>2. \A id \in DOMAIN entries : value'[entries[id]] = value[entries[id]]
    BY <1>2 DEF Live, OInv, Heap
  <2> QED
    BY <1>1, <2>1, <2>2 DEF OInv, Heap
<1>4. ASSUME NEW u \in Threads \ {t}, node[u] \in Nodes
      PROVE  value'[node[u]] = value[node[u]]
  BY <1>2, <1>4 DEF Live
<1> QED
  <2>1. \A u \in Threads : node[u] \in Nodes \cup {Nil} /\ Local(u)
    BY DEF OInv, Frames
  <2>2. ASSUME Nil \notin Nodes, NEW u \in Threads \ {t}, node[u] # Nil \/ pc[u] \in NodeLabels
        PROVE  value'[node[u]] = value[node[u]]
    BY <1>4, <2>1, <2>2 DEF Local
  <2>3. ASSUME Nil \in Nodes, NEW u \in Threads \ {t}
        PROVE  value'[node[u]] = value[node[u]]
    BY <1>4, <2>1, <2>3
  <2>4. "unlock" # "idle" /\ dmu' \in Threads \cup {Nil}
    BY <1>1
  <2> QED
    BY <1>1, <1>3, <2>2, <2>3, <2>4, EndKeeps

LEMMA ReturnKeeps ==
  ASSUME OInv, NEW t \in Threads, Return(t)
  PROVE  OInv'
<1>1. Goto(t, "return", "idle") /\ Forget(t) /\ UNCHANGED <<svars, dmu>>
  BY DEF Return
<1>2. Heap' /\ dmu' \in Threads \cup {Nil} /\ value' = value
  BY <1>1 DEF OInv, Heap, Frames, svars
<1> QED
  BY <1>1, <1>2, EndKeeps

LEMMA NextOInv == OInv /\ [Next]_vars => OInv'
<1> SUFFICES ASSUME OInv, [Next]_vars PROVE OInv'
  OBVIOUS
<1>1. ASSUME NEW t \in Threads, Begin(t) \/ Lock(t) \/ Unlock(t) \/ Return(t) PROVE OInv'
  BY <1>1, BeginKeeps, LockKeeps, UnlockKeeps, ReturnKeeps
<1>2. ASSUME NEW t \in Threads, Inner(t), ~Return(t) PROVE OInv'
  BY <1>2, LookupKeeps, QuietKeeps, OldestBackKeeps, QueueKeeps, MapKeeps, OverwriteKeeps, PushKeeps
     DEF Inner
<1>3. CASE UNCHANGED vars
  <2>1. Heap' /\ Frames'
    BY <1>3 DEF vars, svars, tvars, OInv, Heap, Frames
  <2>2. \A u \in Threads : Local(u)'
    BY <1>3, OthersKeep DEF vars, svars, tvars, OInv
  <2> QED
    BY <2>1, <2>2 DEF OInv
<1> QED
  BY <1>1, <1>2, <1>3 DEF Next, Statement

LEMMA CellsKeptApart == SafeSpec => []OInv
BY InitOInv, NextOInv, PTL DEF SafeSpec

\* Every statement finds its locals set as the code has them, whatever the
\* goroutines call.
THEOREM ThreadsTyped == SafeSpec => []TypeOK
<1>1. OInv => TypeOK
  <2> SUFFICES ASSUME OInv PROVE TypeOK
    OBVIOUS
  <2>1. \A t \in Threads : call[t] = NoCall \/ Called(t)
    BY DEF OInv, Local
  <2>2. \A t \in Threads :
          call[t] \in [op : (UNION {Ops[u] : u \in Threads}) \cup {Nil}, id : Ids \cup {Nil},
                       payload : Payloads \cup {Nil}]
    BY <2>1 DEF NoCall, Called, Calls
  <2> QED
    BY <2>2 DEF TypeOK, Cache!TypeOK, OInv, Heap, Frames, Local
<1> QED
  BY <1>1, CellsKeptApart, PTL

\* However Put, Get, Remove, Clear and the others interleave, a key never leads to
\* the entry of another identifier, and no call works on another's element.
THEOREM OwnEntries == SafeSpec => []OwnEntry
<1>1. OInv => OwnEntry
  BY DEF OInv, Heap, Local, MadeFor, OwnEntry
<1> QED
  BY <1>1, CellsKeptApart, PTL

-----------------------------------------------------------------------------
(* Who holds the lock, whatever is called.                                 *)

\* The statements between Lock and Unlock, and those of the calls without.
Inside == KeyedLabels \cup {"make", "fill", "unlock"}
Alone == OldestLabels \cup {"size", "newEntries", "newQueue", "return"}

HInv ==
  \A t \in Threads : /\ pc[t] \in Inside => call[t].op \in Locked
                     /\ pc[t] \in Alone => call[t].op \notin Locked
                     /\ dmu = t <=> pc[t] \in Inside

LEMMA SplitLabels ==
  /\ Inside \cap Alone = {} /\ Labels = {"idle", "lock", "panicked"} \cup Inside \cup Alone
  /\ {"idle", "lock", "panicked"} \cap (Inside \cup Alone) = {}
BY DEF Labels, Inside, Alone, KeyedLabels, PutLabels, NodeLabels, OldestLabels

\* A step within the lock, or without it.
LEMMA MoveHolds ==
  ASSUME OInv, HInv, NEW t \in Threads, NEW from, NEW to, Goto(t, from, to),
         UNCHANGED <<dmu, call>>,
         from \in Inside <=> to \in Inside, to \in Alone => from \in Alone
  PROVE  HInv'
<1>1. /\ pc[t] = from /\ pc'[t] = to
      /\ \A u \in Threads \ {t} : pc'[u] = pc[u]
  BY DEF Goto, At, OInv, Frames
<1> QED
  BY <1>1 DEF HInv

LEMMA BeginHolds ==
  ASSUME OInv, HInv, NEW t \in Threads, Begin(t)
  PROVE  HInv'
<1>1. PICK op \in Ops[t] : \E c \in Calls(op) :
        /\ Goto(t, "idle", IF op \in Locked THEN "lock" ELSE Entry(op))
        /\ call' = [call EXCEPT ![t] = c]
        /\ dmu' = dmu
  BY DEF Begin
<1>2. PICK c \in Calls(op) : call' = [call EXCEPT ![t] = c]
  BY <1>1
<1> DEFINE to == IF op \in Locked THEN "lock" ELSE Entry(op)
<1>3. op \in Locked \/ op \in Unlocked
  BY ThreadsAssumption
<1>4. \/ to = "lock"
      \/ op \notin Locked /\ to \in Alone
  BY <1>3 DEF Entry, Unlocked, Alone, OldestLabels
<1> HIDE DEF to
<1>5. /\ pc[t] = "idle" /\ pc'[t] = to
      /\ \A u \in Threads \ {t} : pc'[u] = pc[u]
  BY <1>1 DEF Goto, At, OInv, Frames, to
<1>6. /\ call'[t] = c /\ c.op = op
      /\ \A u \in Threads \ {t} : call'[u] = call[u]
  BY <1>2 DEF OInv, Frames, Calls
<1>7. pc[t] \notin Inside /\ pc'[t] \notin Inside
  BY <1>4, <1>5, SplitLabels
<1>8. pc'[t] \in Alone => call'[t].op \notin Locked
  BY <1>4, <1>5, <1>6, SplitLabels
<1> QED
  BY <1>1, <1>5, <1>6, <1>7, <1>8 DEF HInv

LEMMA LockHolds ==
  ASSUME OInv, HInv, NEW t \in Threads, Lock(t)
  PROVE  HInv'
<1>1. /\ Goto(t, "lock", Entry(call[t].op)) /\ dmu = Nil /\ dmu' = t /\ call' = call
  BY DEF Lock, tvars
<1>2. /\ pc[t] = "lock" /\ pc'[t] = Entry(call[t].op)
      /\ \A u \in Threads \ {t} : pc'[u] = pc[u]
  BY <1>1 DEF Goto, At, OInv, Frames
<1>3. call[t].op \in Locked
  BY <1>2 DEF OInv, Local
<1>4. pc'[t] \in {"make", "lookup"}
  BY <1>2, <1>3 DEF Entry, Locked, Keyed
<1>5. pc'[t] \in Inside /\ pc'[t] \notin Alone
  BY <1>4, SplitLabels DEF Inside, KeyedLabels
<1>6. \A u \in Threads : pc[u] \notin Inside
  BY <1>1, ThreadsAssumption DEF HInv
<1> QED
  BY <1>1, <1>2, <1>3, <1>5, <1>6 DEF HInv

LEMMA EndHolds ==
  ASSUME OInv, HInv, NEW t \in Threads, Unlock(t) \/ Return(t)
  PROVE  HInv'
<1>1. PICK from \in {"unlock", "return"} : Goto(t, from, "idle")
  BY DEF Unlock, Return
<1>2. /\ pc[t] = from /\ pc'[t] = "idle"
      /\ \A u \in Threads \ {t} : pc'[u] = pc[u]
  BY <1>1 DEF Goto, At, OInv, Frames
<1>3. \A u \in Threads \ {t} : call'[u] = call[u]
  BY DEF Unlock, Return, Forget, OInv, Frames
<1>4. "idle" \notin Inside \cup Alone /\ "unlock" \in Inside /\ "return" \notin Inside
  BY SplitLabels DEF Inside, Alone
<1>5. CASE Unlock(t)
  <2>1. dmu = t /\ dmu' = Nil /\ Nil # t
    BY <1>2, <1>4, <1>5, ThreadsAssumption DEF Unlock, Goto, At, HInv
  <2>2. \A u \in Threads \ {t} : pc[u] \notin Inside
    BY <2>1 DEF HInv
  <2> QED
    BY <1>2, <1>3, <1>4, <2>1, <2>2, ThreadsAssumption DEF HInv
<1>6. CASE Return(t)
  <2>1. dmu # t /\ dmu' = dmu
    BY <1>2, <1>4, <1>6 DEF Return, Goto, At, HInv
  <2> QED
    BY <1>2, <1>3, <1>4, <2>1 DEF HInv
<1> QED
  BY <1>5, <1>6

LEMMA PanicHolds ==
  ASSUME OInv, HInv, NEW t \in Threads, NEW from, Panic(t, from)
  PROVE  HInv'
<1>1. /\ Goto(t, from, "panicked") /\ dmu' = IF dmu = t THEN Nil ELSE dmu
      /\ call' = call
  BY DEF Panic, tvars
<1>2. /\ pc'[t] = "panicked"
      /\ \A u \in Threads \ {t} : pc'[u] = pc[u]
  BY <1>1 DEF Goto, At, OInv, Frames
<1>3. pc'[t] \notin Inside /\ pc'[t] \notin Alone
  BY <1>2, SplitLabels
<1>4. dmu' # t
  BY <1>1, ThreadsAssumption
<1>5. \A u \in Threads \ {t} : dmu' = u <=> dmu = u
  BY <1>1, ThreadsAssumption
<1> QED
  BY <1>1, <1>2, <1>3, <1>4, <1>5 DEF HInv

LEMMA InnerHolds ==
  ASSUME OInv, HInv, NEW t \in Threads, Inner(t), ~Return(t)
  PROVE  HInv'
<1> USE DEF Inside, Alone, KeyedLabels, PutLabels, NodeLabels, OldestLabels
<1>1. CASE Lookup(t)
  <2>1. PICK to \in {"unlock", "capacity", "read", "delete", "move"} : Goto(t, "lookup", to)
    BY <1>1 DEF Lookup
  <2> QED
    BY <1>1, <2>1, MoveHolds DEF Lookup
<1>2. CASE Read(t) \/ DeleteKey(t) \/ DeleteVictim(t) \/ Index(t) \/ Overwrite(t) \/ Push(t) \/ Unlink(t)
  BY <1>2, MoveHolds DEF Read, DeleteKey, DeleteVictim, Index, Overwrite, Push, Unlink, tvars
<1>3. CASE Move(t) \/ CheckCapacity(t)
  <2>1. PICK from \in {"move", "capacity"}, to \in {"overwrite", "unlock", "victim", "push"} :
          Goto(t, from, to)
    BY <1>3 DEF Move, CheckCapacity
  <2> QED
    BY <1>3, <2>1, MoveHolds DEF Move, CheckCapacity, tvars
<1>4. CASE MakeIds(t) \/ FillIds(t)
  BY <1>4, MoveHolds DEF MakeIds, FillIds
<1>5. CASE Victim(t) \/ RemoveBack(t) \/ OldestBack(t)
  <2>1. CASE \E from : Panic(t, from)
    BY <2>1, PanicHolds
  <2>2. CASE ~\E from : Panic(t, from)
    BY <1>5, <2>2, MoveHolds DEF Victim, RemoveBack, OldestBack, tvars
  <2> QED
    BY <2>1, <2>2
<1>6. CASE SizeUnlocked(t) \/ OldestRead(t) \/ ClearEntries(t) \/ ClearQueue(t)
  BY <1>6, MoveHolds DEF SizeUnlocked, OldestRead, ClearEntries, ClearQueue, tvars
<1>7. CASE OldestTest(t)
  <2>1. PICK to \in {"back", "return"} : Goto(t, "test", to)
    BY <1>7 DEF OldestTest
  <2> QED
    BY <1>7, <2>1, MoveHolds DEF OldestTest
<1> QED
  BY <1>1, <1>2, <1>3, <1>4, <1>5, <1>6, <1>7 DEF Inner

\* Every combination of calls keeps the discipline of the lock: a goroutine has dmu
\* exactly while it is between Lock and Unlock, and a panic inside lets it go.
THEOREM LockDiscipline == SafeSpec => []InsideHoldsLock
<1>1. Init => HInv
  BY ThreadsAssumption, SplitLabels DEF Init, HInv
<1>2. OInv /\ HInv /\ [Next]_vars => HInv'
  <2> SUFFICES ASSUME OInv, HInv, [Next]_vars PROVE HInv'
    OBVIOUS
  <2>1. CASE UNCHANGED vars
    BY <2>1 DEF vars, tvars, HInv
  <2>2. ASSUME NEW t \in Threads, Begin(t) \/ Lock(t) \/ Statement(t) PROVE HInv'
    BY <2>2, BeginHolds, LockHolds, EndHolds, InnerHolds DEF Statement
  <2> QED
    BY <2>1, <2>2 DEF Next
<1>3. OInv /\ HInv => InsideHoldsLock
  BY SplitLabels DEF OInv, Frames, HInv, InsideHoldsLock
<1> QED
  BY <1>1, <1>2, <1>3, CellsKeptApart, PTL DEF SafeSpec

-----------------------------------------------------------------------------
(* Second part, for calls that take the lock, and Size, which does not.    *)
(* Whoever holds dmu is the only one inside a call, so what a statement    *)
(* leaves undone is known from its label (Gap): the one element of the     *)
(* list that has no key, because it has just been pushed or is about to go.*)

LockedOnly == \A t \in Threads : Ops[t] \subseteq Locked \cup {"Size"}

Outside == {"idle", "lock", "size", "return"}

Gap(t) == {n \in List!Elems(queue) : \/ pc[t] = "removeBack" /\ n = Cache!Back(queue)
                                     \/ pc[t] \in {"index", "unlink"} /\ n = node[t]}

\* The map has a key for each element of the list but those in X, and no others.
Match(X) ==
  /\ \A id \in DOMAIN entries : entries[id] \in List!Elems(queue) \ X
  /\ \A n \in List!Elems(queue) \ X :
       /\ value[n].Identifier \in DOMAIN entries
       /\ entries[value[n].Identifier] = n

Absent == {"capacity", "victim", "deleteVictim", "removeBack", "push", "index", "unlink"}
Present == {"read", "move", "overwrite", "delete"}

\* What the owner of the lock knows where it is.
Knows(t) ==
  /\ pc[t] \in Absent => Id(t) \notin DOMAIN entries
  /\ pc[t] \in Present => Id(t) \in DOMAIN entries /\ entries[Id(t)] = node[t]
  /\ pc[t] \in {"victim", "deleteVictim", "removeBack"} => Len(queue) = Capacity
  /\ pc[t] = "deleteVictim" => local[t] = Cache!BackId
  /\ pc[t] = "push" => Len(queue) < Capacity
  /\ pc[t] \in {"index", "unlink"} => node[t] \in List!Elems(queue)

AInv ==
  /\ \A t \in Threads : pc[t] \in Inside \cup Outside
  /\ \A t \in Threads : pc[t] \in Inside <=> dmu = t
  /\ Len(queue) <= Capacity
  /\ dmu = Nil => Match({})
  /\ dmu # Nil => Match(Gap(dmu)) /\ Knows(dmu)
  /\ \A t \in Threads : pc[t] = "return" => out[t].size <= Capacity

LEMMA Apart == Inside \cap Outside = {} /\ Inside \cup Outside \subseteq Labels
BY DEF Inside, Outside, KeyedLabels, PutLabels, NodeLabels, Labels

LEMMA InitAInv == Init => AInv
<1> SUFFICES ASSUME Init PROVE AInv
  OBVIOUS
<1>1. List!Elems(queue) = {} /\ Len(queue) <= Capacity
  BY ThreadsAssumption DEF Init, List!Elems
<1>2. Match({})
  BY <1>1 DEF Init, Match
<1>3. \A t \in Threads : pc[t] = "idle" /\ dmu # t
  BY ThreadsAssumption DEF Init
<1> QED
  BY <1>1, <1>2, <1>3, Apart DEF Init, AInv, Outside

\* A statement of the owner of the lock, inside its call.
LEMMA OwnerStep ==
  ASSUME AInv, OInv, NEW t \in Threads, dmu = t, dmu' = t,
         pc'[t] \in Inside,
         \A u \in Threads \ {t} : pc'[u] = pc[u] /\ out'[u] = out[u],
         Match(Gap(t))', Knows(t)', Len(queue') <= Capacity
  PROVE  AInv'
<1>1. t # Nil
  BY ThreadsAssumption
<1>2. \A u \in Threads : pc'[u] \in Inside <=> dmu' = u
  BY DEF AInv
<1>3. \A u \in Threads : pc'[u] \in Inside \cup Outside
  BY DEF AInv
<1>4. \A u \in Threads : pc'[u] = "return" => out'[u].size <= Capacity
  BY Apart DEF AInv, Outside
<1> QED
  BY <1>1, <1>2, <1>3, <1>4 DEF AInv

\* A step of somebody who does not hold it, outside of the locked calls.
LEMMA OutsideStep ==
  ASSUME AInv, OInv, NEW t \in Threads, UNCHANGED <<svars, dmu>>,
         pc[t] \in Outside, pc'[t] \in Outside,
         \A u \in Threads \ {t} : /\ pc'[u] = pc[u] /\ out'[u] = out[u] /\ call'[u] = call[u]
                                  /\ node'[u] = node[u] /\ local'[u] = local[u],
         pc'[t] = "return" => out'[t].size <= Capacity
  PROVE  AInv'
<1>1. dmu # t
  BY Apart DEF AInv
<1>2. dmu = Nil \/ dmu \in Threads \ {t}
  BY <1>1 DEF OInv, Frames
<1>3. \A u \in Threads : pc'[u] \in Inside <=> dmu' = u
  BY <1>1, Apart DEF AInv
<1>4. \A u \in Threads : pc'[u] \in Inside \cup Outside
  BY DEF AInv
<1>5. \A u \in Threads : pc'[u] = "return" => out'[u].size <= Capacity
  BY DEF AInv
<1>6. UNCHANGED <<queue, entries, value>>
  BY DEF svars
<1>7. ASSUME dmu \in Threads \ {t}
      PROVE  Gap(dmu)' = Gap(dmu) /\ (Knows(dmu) => Knows(dmu)')
  BY <1>6, <1>7 DEF Gap, Knows, Id, Cache!BackId, Cache!Back
<1>8. dmu' = Nil => Match({})'
  BY <1>6 DEF AInv, Match
<1>9. dmu' # Nil => Match(Gap(dmu))' /\ Knows(dmu)'
  <2> SUFFICES ASSUME dmu \in Threads \ {t}, dmu # Nil PROVE Match(Gap(dmu))' /\ Knows(dmu)'
    BY <1>2
  <2> QED
    BY <1>6, <1>7 DEF AInv, Match
<1> QED
  BY <1>3, <1>4, <1>5, <1>6, <1>8, <1>9 DEF AInv

LEMMA Owner ==
  ASSUME AInv, NEW t \in Threads, pc[t] \in Inside
  PROVE  dmu = t /\ t # Nil /\ Match(Gap(t)) /\ Knows(t)
BY ThreadsAssumption DEF AInv

\* Moving the label of t moves nobody else.
LEMMA GotoOnly ==
  ASSUME OInv, NEW t \in Threads, NEW from, NEW to, Goto(t, from, to)
  PROVE  /\ pc[t] = from /\ pc'[t] = to
         /\ \A u \in Threads \ {t} : pc'[u] = pc[u]
BY DEF Goto, At, OInv, Frames

\* Where all elements of the list have their keys there is no gap, before and after
\* a step that changes no more than the order.
LEMMA NoGap ==
  ASSUME NEW t, pc[t] \notin {"removeBack", "index", "unlink"}
  PROVE  Gap(t) = {}
BY DEF Gap

LEMMA BeginA ==
  ASSUME LockedOnly, AInv, OInv, NEW t \in Threads, Begin(t)
  PROVE  AInv'
<1>1. PICK op \in Ops[t] :
        /\ Goto(t, "idle", IF op \in Locked THEN "lock" ELSE Entry(op))
        /\ \E c : call' = [call EXCEPT ![t] = c]
        /\ UNCHANGED <<svars, dmu, node, local, out>>
  BY DEF Begin
<1> DEFINE to == IF op \in Locked THEN "lock" ELSE Entry(op)
<1>2. to \in {"lock", "size"}
  BY DEF LockedOnly, Entry
<1> HIDE DEF to
<1>3. /\ pc[t] = "idle" /\ pc'[t] = to
      /\ \A u \in Threads \ {t} : pc'[u] = pc[u]
  BY <1>1, GotoOnly DEF to
<1>4. \A u \in Threads \ {t} : call'[u] = call[u]
  BY <1>1 DEF OInv, Frames
<1>5. pc[t] \in Outside /\ pc'[t] \in Outside /\ pc'[t] # "return"
  BY <1>2, <1>3 DEF Outside
<1> QED
  BY <1>1, <1>3, <1>4, <1>5, OutsideStep

LEMMA LockA ==
  ASSUME AInv, OInv, NEW t \in Threads, Lock(t)
  PROVE  AInv'
<1>1. /\ Goto(t, "lock", Entry(call[t].op)) /\ dmu = Nil /\ dmu' = t /\ UNCHANGED <<svars, tvars>>
  BY DEF Lock
<1>2. /\ pc[t] = "lock" /\ pc'[t] = Entry(call[t].op)
      /\ \A u \in Threads \ {t} : pc'[u] = pc[u]
  BY <1>1, GotoOnly
<1>3. call[t].op \in Locked
  BY <1>2 DEF OInv, Local
<1>4. pc'[t] \in {"make", "lookup"}
  BY <1>2, <1>3 DEF Entry, Locked, Keyed
<1>5. pc'[t] \in Inside /\ pc'[t] # "return"
  BY <1>4 DEF Inside, KeyedLabels
<1>6. \A u \in Threads : pc[u] \notin Inside
  BY <1>1, ThreadsAssumption DEF AInv
<1>7. \A u \in Threads : pc'[u] \in Inside <=> dmu' = u
  BY <1>1, <1>2, <1>5, <1>6
<1>8. Match({})' /\ Len(queue') <= Capacity
  BY <1>1 DEF AInv, Match, svars
<1>9. Gap(t)' = {}
  BY <1>4 DEF Gap
<1>10. Knows(t)'
  BY <1>4 DEF Knows, Absent, Present
<1>11. \A u \in Threads : pc'[u] = "return" => out'[u].size <= Capacity
  BY <1>1, <1>2, <1>5 DEF AInv, tvars
<1>12. \A u \in Threads : pc'[u] \in Inside \cup Outside
  BY <1>2, <1>5 DEF AInv
<1>13. t # Nil
  BY ThreadsAssumption
<1> QED
  BY <1>1, <1>7, <1>8, <1>9, <1>10, <1>11, <1>12, <1>13 DEF AInv

\* Garbage is no element of the list.
LEMMA UnlockA ==
  ASSUME AInv, OInv, NEW t \in Threads, Unlock(t)
  PROVE  AInv'
<1>1. /\ Goto(t, "unlock", "idle") /\ dmu' = Nil /\ UNCHANGED <<queue, entries>>
      /\ out' = [out EXCEPT ![t] = Nil]
      /\ value' = [n \in Nodes |-> IF Live(n, t) THEN value[n] ELSE Nil]
  BY DEF Unlock, Forget
<1>2. /\ pc[t] = "unlock" /\ pc'[t] = "idle"
      /\ \A u \in Threads \ {t} : pc'[u] = pc[u]
  BY <1>1, GotoOnly
<1>3. dmu = t /\ Match(Gap(t)) /\ Gap(t) = {}
  BY <1>2, Owner, NoGap DEF Inside
<1>4. \A n \in List!Elems(queue) : n \in Nodes /\ value'[n] = value[n]
  <2> SUFFICES ASSUME NEW n \in List!Elems(queue) PROVE n \in Nodes /\ value'[n] = value[n]
    OBVIOUS
  <2>1. Live(n, t)
    BY DEF Live, List!Elems
  <2>2. n \in Nodes
    BY DEF OInv, Heap, List!Elems
  <2> QED
    BY <1>1, <2>1, <2>2
<1>5. Match({})' /\ Len(queue') <= Capacity
  BY <1>1, <1>3, <1>4 DEF Match, AInv
<1>6. \A u \in Threads : pc'[u] \in Inside <=> dmu' = u
  BY <1>1, <1>2, <1>3, Apart, ThreadsAssumption DEF AInv, Outside
<1>7. \A u \in Threads : pc'[u] \in Inside \cup Outside
  BY <1>2 DEF AInv, Outside
<1>8. \A u \in Threads : pc'[u] = "return" => out'[u].size <= Capacity
  BY <1>1, <1>2 DEF AInv, OInv, Frames
<1> QED
  BY <1>1, <1>5, <1>6, <1>7, <1>8 DEF AInv

\* The keys are at most as many as the elements of the list.
LEMMA KeysCounted ==
  ASSUME AInv, OInv
  PROVE  Cardinality(DOMAIN entries) \in Nat /\ Cardinality(DOMAIN entries) <= Capacity
<1> DEFINE f == [i \in 1 .. Len(queue) |-> value[queue[i]].Identifier]
           ids == {f[i] : i \in 1 .. Len(queue)}
<1>1. Len(queue) \in Nat /\ DOMAIN queue = 1 .. Len(queue)
  BY DEF OInv, Heap
<1>2. \A id \in DOMAIN entries : entries[id] \in List!Elems(queue)
  BY DEF AInv, Match, OInv, Frames
<1>3. DOMAIN entries \subseteq ids
  BY <1>1, <1>2 DEF List!Elems, OInv, Heap
<1>4. IsFiniteSet(1 .. Len(queue))
  <2>1. 1 \in Int /\ Len(queue) \in Int
    BY <1>1
  <2> QED
    BY <2>1, FS_Interval
<1>5. IsFiniteSet(ids) /\ Cardinality(ids) <= Len(queue)
  <2>1. f \in Surjection(1 .. Len(queue), ids)
    BY DEF Surjection
  <2> HIDE DEF f, ids
  <2>2. ExistsSurjection(1 .. Len(queue), ids)
    BY <2>1 DEF ExistsSurjection
  <2> QED
    BY <1>1, <1>4, <2>1, <2>2, FS_Surjection, FS_SurjCardinalityBound
<1> HIDE DEF ids
<1>6. Cardinality(DOMAIN entries) <= Cardinality(ids) /\ IsFiniteSet(DOMAIN entries)
  BY <1>3, <1>5, FS_Subset
<1>7. Cardinality(DOMAIN entries) \in Nat /\ Cardinality(ids) \in Nat
  BY <1>5, <1>6, FS_CardinalityType
<1> QED
  BY <1>1, <1>5, <1>6, <1>7, ThreadsAssumption DEF AInv

LEMMA SizeA ==
  ASSUME AInv, OInv, NEW t \in Threads, SizeUnlocked(t) \/ Return(t)
  PROVE  AInv'
<1>1. UNCHANGED <<svars, dmu>>
  BY DEF SizeUnlocked, Return
<1>2. /\ pc[t] \in {"size", "return"} /\ pc'[t] \in {"return", "idle"}
      /\ \A u \in Threads \ {t} : pc'[u] = pc[u]
  BY GotoOnly DEF SizeUnlocked, Return
<1>3. \A u \in Threads \ {t} : /\ out'[u] = out[u] /\ call'[u] = call[u]
                               /\ node'[u] = node[u] /\ local'[u] = local[u]
  BY DEF SizeUnlocked, Return, Forget, OInv, Frames
<1>4. pc'[t] = "return" => out'[t].size <= Capacity
  <2>1. CASE SizeUnlocked(t)
    <3>1. out'[t] = [op |-> "Size", size |-> Cardinality(DOMAIN entries)]
      BY <2>1 DEF SizeUnlocked, OInv, Frames
    <3> QED
      BY <3>1, KeysCounted
  <2>2. CASE Return(t)
    BY <2>2, GotoOnly DEF Return
  <2> QED
    BY <2>1, <2>2
<1>5. pc[t] \in Outside /\ pc'[t] \in Outside
  BY <1>2 DEF Outside
<1> QED
  BY <1>1, <1>2, <1>3, <1>4, <1>5, OutsideStep

\* What every statement between lock and unlock leaves to the others.
LEMMA OthersOut ==
  ASSUME OInv, NEW t \in Threads, Inner(t), ~Return(t)
  PROVE  /\ \A u \in Threads \ {t} : /\ pc'[u] = pc[u] /\ out'[u] = out[u]
                                     /\ node'[u] = node[u]
         /\ call' = call
<1>1. CASE Lookup(t) \/ Read(t) \/ Move(t) \/ Overwrite(t) \/ CheckCapacity(t) \/ DeleteVictim(t)
           \/ Index(t) \/ DeleteKey(t) \/ Unlink(t) \/ MakeIds(t) \/ FillIds(t) \/ SizeUnlocked(t)
  BY <1>1, GotoOnly DEF Lookup, Read, Move, Overwrite, CheckCapacity, DeleteVictim, Index, DeleteKey,
                        Unlink, MakeIds, FillIds, SizeUnlocked, tvars, OInv, Frames
<1>2. CASE Victim(t) \/ RemoveBack(t) \/ Push(t)
  BY <1>2, GotoOnly DEF Victim, RemoveBack, Push, Panic, tvars, OInv, Frames
<1>3. CASE OldestTest(t) \/ OldestBack(t) \/ OldestRead(t) \/ ClearEntries(t) \/ ClearQueue(t)
  BY <1>3, GotoOnly DEF OldestTest, OldestBack, OldestRead, ClearEntries, ClearQueue, Panic, tvars,
                        OInv, Frames
<1> QED
  BY <1>1, <1>2, <1>3 DEF Inner

\* A statement that looks at the cache only.
LEMMA CalmStep ==
  ASSUME AInv, OInv, NEW t \in Threads, Inner(t), ~Return(t), UNCHANGED <<svars, dmu>>,
         pc[t] \in Inside \ {"removeBack", "index", "unlink"},
         pc'[t] \in Inside \ {"removeBack", "index", "unlink"},
         Knows(t)'
  PROVE  AInv'
<1>1. dmu = t /\ Match({})
  BY Owner, NoGap
<1>2. Gap(t)' = {}
  BY DEF Gap
<1>3. Match(Gap(t))' /\ Len(queue') <= Capacity
  BY <1>1, <1>2 DEF AInv, Match, svars
<1> QED
  BY <1>1, <1>3, OthersOut, OwnerStep

LEMMA LookupA ==
  ASSUME AInv, OInv, NEW t \in Threads, Lookup(t)
  PROVE  AInv'
<1> DEFINE op == call[t].op
           hit == Id(t) \in DOMAIN entries
           to == CASE op = "Has" -> "unlock"
                   [] op = "Put" /\ ~hit -> "capacity"
                   [] op # "Put" /\ ~hit -> "unlock"
                   [] op = "Get" /\ hit -> "read"
                   [] op = "Remove" /\ hit -> "delete"
                   [] OTHER -> "move"
           n == IF hit /\ op # "Has" THEN entries[Id(t)] ELSE Nil
<1>1. Goto(t, "lookup", to) /\ node' = [node EXCEPT ![t] = n] /\ UNCHANGED <<svars, dmu, call>>
  BY DEF Lookup
<1>2. pc[t] = "lookup" /\ pc'[t] = to
  BY <1>1, GotoOnly
<1>3. op \in Keyed
  BY <1>2 DEF OInv, Local, KeyedLabels
<1>4. /\ to \in {"unlock", "capacity", "read", "delete", "move"}
      /\ to = "capacity" => ~hit
      /\ to \in {"read", "delete", "move"} => hit /\ op # "Has"
  BY <1>3 DEF Keyed
<1> HIDE DEF to
<1>5. to \in {"read", "delete", "move"} => node'[t] = entries[Id(t)]
  BY <1>1, <1>4 DEF OInv, Frames
<1>6. Knows(t)'
  BY <1>1, <1>2, <1>4, <1>5 DEF Knows, Absent, Present, Id, svars
<1>7. Inner(t) /\ ~Return(t)
  BY <1>2 DEF Inner, Return, Goto, At
<1>8. /\ pc[t] \in Inside \ {"removeBack", "index", "unlink"}
      /\ pc'[t] \in Inside \ {"removeBack", "index", "unlink"}
  BY <1>2, <1>4 DEF Inside, KeyedLabels, PutLabels, NodeLabels
<1> QED
  BY <1>1, <1>6, <1>7, <1>8, CalmStep

LEMMA CalmA ==
  ASSUME AInv, OInv, NEW t \in Threads,
         Read(t) \/ CheckCapacity(t) \/ Victim(t) \/ MakeIds(t) \/ FillIds(t)
  PROVE  AInv'
<1> USE DEF Inside, KeyedLabels, PutLabels, NodeLabels
<1>1. Inner(t) /\ ~Return(t)
  BY DEF Inner, Return, Read, CheckCapacity, Victim, MakeIds, FillIds, Goto, At, Panic
<1>2. CASE Read(t) \/ MakeIds(t) \/ FillIds(t)
  <2>1. /\ pc[t] \in {"read", "make", "fill"} /\ pc'[t] \in {"move", "fill", "unlock"}
        /\ pc'[t] = "move" => pc[t] = "read"
    BY <1>2, GotoOnly DEF Read, MakeIds, FillIds
  <2>2. UNCHANGED <<svars, dmu, call, node>>
    BY <1>2 DEF Read, MakeIds, FillIds
  <2>3. Knows(t)
    BY <2>1, Owner
  <2>4. Knows(t)'
    BY <2>1, <2>2, <2>3 DEF Knows, Absent, Present, Id, svars
  <2> QED
    BY <1>1, <2>1, <2>2, <2>4, CalmStep
<1>3. CASE CheckCapacity(t)
  <2>1. /\ pc[t] = "capacity" /\ pc'[t] = IF Cache!Full THEN "victim" ELSE "push"
        /\ UNCHANGED <<svars, dmu, tvars>>
    BY <1>3, GotoOnly DEF CheckCapacity
  <2>2. Id(t) \notin DOMAIN entries
    BY <2>1, Owner DEF Knows, Absent
  <2>3. Len(queue) \in Nat /\ Len(queue) <= Capacity
    BY DEF OInv, Heap, AInv
  <2>4. \/ pc'[t] = "victim" /\ Len(queue) = Capacity
        \/ pc'[t] = "push" /\ Len(queue) < Capacity
    BY <2>1, <2>3, ThreadsAssumption DEF Cache!Full
  <2>5. Knows(t)'
    BY <2>1, <2>2, <2>4 DEF Knows, Absent, Present, Id, svars, tvars
  <2> QED
    BY <1>1, <2>1, <2>4, <2>5, CalmStep
<1>4. CASE Victim(t)
  <2>1. pc[t] = "victim"
    BY <1>4 DEF Victim, Panic, Goto, At
  <2>2. Id(t) \notin DOMAIN entries /\ Len(queue) = Capacity
    BY <2>1, Owner DEF Knows, Absent
  <2>3. queue # <<>>
    BY <2>2, ThreadsAssumption
  <2>4. /\ Goto(t, "victim", "deleteVictim") /\ local' = [local EXCEPT ![t] = Cache!BackId]
        /\ UNCHANGED <<svars, dmu, call, node>>
    BY <1>4, <2>3 DEF Victim
  <2>5. pc'[t] = "deleteVictim" /\ local'[t] = Cache!BackId
    BY <2>4, GotoOnly DEF OInv, Frames
  <2>6. Cache!BackId' = Cache!BackId
    BY <2>4 DEF Cache!BackId, Cache!Back, svars
  <2>7. Knows(t)'
    BY <2>2, <2>4, <2>5, <2>6 DEF Knows, Absent, Present, Id, svars
  <2> QED
    BY <1>1, <2>1, <2>4, <2>5, <2>7, CalmStep
<1> QED
  BY <1>2, <1>3, <1>4

\* The order changes, or a payload.
LEMMA UseA ==
  ASSUME AInv, OInv, OInv', NEW t \in Threads, Move(t) \/ Overwrite(t)
  PROVE  AInv'
<1> USE DEF Inside, KeyedLabels, PutLabels, NodeLabels
<1>1. Inner(t) /\ ~Return(t)
  BY DEF Inner, Return, Move, Overwrite, Goto, At
<1>2. /\ pc[t] \in {"move", "overwrite"} /\ pc'[t] \in {"overwrite", "unlock"}
      /\ UNCHANGED <<dmu, entries, call, node>>
  BY GotoOnly DEF Move, Overwrite, tvars
<1>3. dmu = t /\ Match({}) /\ Id(t) \in DOMAIN entries /\ entries[Id(t)] = node[t]
  <2>1. dmu = t /\ Match(Gap(t)) /\ Knows(t)
    BY <1>2, Owner
  <2>2. Gap(t) = {}
    BY <1>2, NoGap
  <2> QED
    BY <1>2, <2>1, <2>2 DEF Knows, Present
<1>4. /\ List!Elems(queue') = List!Elems(queue) /\ Len(queue') = Len(queue)
      /\ \A n \in List!Elems(queue) : value'[n].Identifier = value[n].Identifier
  <2>1. CASE Move(t)
    <3>1. Linked(node[t])
      BY <1>3, ElemsOfQueue DEF Match, OInv
    <3> QED
      BY <2>1, <3>1, ListsStay DEF Move, OInv
  <2>2. CASE Overwrite(t)
    <3>1. E(t).Identifier = Id(t)
      BY DEF E
    <3>2. \A n \in Nodes : value'[n].Identifier = value[n].Identifier
      BY <1>3, <2>2, <3>1 DEF Overwrite, OInv, Heap
    <3>3. List!Elems(queue) \subseteq Nodes
      BY DEF OInv, Heap, List!Elems
    <3> QED
      BY <2>2, <3>2, <3>3 DEF Overwrite
  <2> QED
    BY <2>1, <2>2
<1>5. Gap(t)' = {}
  BY <1>2 DEF Gap
<1>6. Match(Gap(t))'
  BY <1>2, <1>3, <1>4, <1>5 DEF Match
<1>7. Knows(t)'
  BY <1>2, <1>3 DEF Knows, Absent, Present, Id
<1> QED
  BY <1>1, <1>2, <1>3, <1>4, <1>6, <1>7, OthersOut, OwnerStep DEF AInv

\* The key of one element goes: that element is the gap.
LEMMA KeyGoes ==
  ASSUME Heap, Match({}), NEW m \in List!Elems(queue), NEW id, id = value[m].Identifier,
         entries' = Cache!Delete(entries, id), UNCHANGED <<queue, value>>
  PROVE  Match({m})' /\ id \notin DOMAIN entries' /\ DOMAIN entries' \subseteq DOMAIN entries
<1>1. /\ DOMAIN entries' = DOMAIN entries \ {id}
      /\ \A i \in DOMAIN entries' : entries'[i] = entries[i]
  BY DEF Cache!Delete
<1>2. \A i \in DOMAIN entries \ {id} : entries[i] \in List!Elems(queue) \ {m}
  BY DEF Match, Heap
<1>3. \A n \in List!Elems(queue) \ {m} :
        /\ value[n].Identifier \in DOMAIN entries \ {id}
        /\ entries[value[n].Identifier] = n
  BY DEF Match
<1> QED
  BY <1>1, <1>2, <1>3 DEF Match

\* The element without a key goes: there is no gap.
LEMMA CellGoes ==
  ASSUME Heap, NEW m \in List!Elems(queue), Match({m}),
         queue' = Cache!ListRemove(queue, m), UNCHANGED <<entries, value>>
  PROVE  Match({})' /\ Len(queue') = Len(queue) - 1
<1>1. List!Elems(queue') = List!Elems(queue) \ {m} /\ Len(queue') = Len(queue) - 1
  BY ElemsOfQueue, ListsStay
<1> QED
  BY <1>1 DEF Match

LEMMA DropKeyA ==
  ASSUME AInv, OInv, NEW t \in Threads, DeleteVictim(t) \/ DeleteKey(t)
  PROVE  AInv'
<1> USE DEF Inside, KeyedLabels, PutLabels, NodeLabels
<1>1. Inner(t) /\ ~Return(t)
  BY DEF Inner, Return, DeleteVictim, DeleteKey, Goto, At
<1>2. UNCHANGED <<dmu, queue, value, call, node, local>>
  BY DEF DeleteVictim, DeleteKey, tvars
<1>3. Heap
  BY DEF OInv
<1>4. CASE DeleteVictim(t)
  <2>1. /\ pc[t] = "deleteVictim" /\ pc'[t] = "removeBack"
        /\ entries' = Cache!Delete(entries, local[t])
    BY <1>4, GotoOnly DEF DeleteVictim
  <2>2. /\ dmu = t /\ Match({}) /\ Id(t) \notin DOMAIN entries
        /\ Len(queue) = Capacity /\ local[t] = Cache!BackId
    BY <2>1, Owner, NoGap DEF Knows, Absent
  <2>3. queue # <<>>
    BY <2>2, ThreadsAssumption
  <2>4. PICK m : m = Cache!Back(queue)
    OBVIOUS
  <2>5. PICK id : id = local[t]
    OBVIOUS
  <2>6. m \in List!Elems(queue) /\ id = value[m].Identifier
    BY <1>3, <2>2, <2>3, <2>4, <2>5, ElemsOfQueue DEF Cache!BackId
  <2>7. Match({m})' /\ DOMAIN entries' \subseteq DOMAIN entries
    BY <1>2, <1>3, <2>1, <2>2, <2>5, <2>6, KeyGoes
  <2>8. Gap(t)' = {m}
    BY <1>2, <2>1, <2>4, <2>6 DEF Gap, Cache!Back
  <2>9. Knows(t)'
    BY <1>2, <2>1, <2>2, <2>7 DEF Knows, Absent, Present, Id
  <2>10. Match(Gap(t))'
    BY <2>7, <2>8 DEF Match
  <2> QED
    BY <1>1, <1>2, <2>1, <2>2, <2>9, <2>10, OthersOut, OwnerStep DEF AInv
<1>5. CASE DeleteKey(t)
  <2>1. /\ pc[t] = "delete" /\ pc'[t] = "unlink"
        /\ entries' = Cache!Delete(entries, Id(t))
    BY <1>5, GotoOnly DEF DeleteKey
  <2>2. dmu = t /\ Match({}) /\ Id(t) \in DOMAIN entries /\ entries[Id(t)] = node[t]
    BY <2>1, Owner, NoGap DEF Knows, Present
  <2>3. PICK m : m = node[t]
    OBVIOUS
  <2>4. PICK id : id = Id(t)
    OBVIOUS
  <2>5. m \in List!Elems(queue) /\ id = value[m].Identifier
    BY <1>3, <2>2, <2>3, <2>4 DEF Match, Heap
  <2>6. Match({m})' /\ id \notin DOMAIN entries'
    BY <1>2, <1>3, <2>1, <2>2, <2>4, <2>5, KeyGoes
  <2>7. Gap(t)' = {m}
    BY <1>2, <2>1, <2>3, <2>5 DEF Gap
  <2>8. Knows(t)'
    BY <1>2, <2>1, <2>3, <2>4, <2>5, <2>6 DEF Knows, Absent, Present, Id
  <2>9. Match(Gap(t))'
    BY <2>6, <2>7 DEF Match
  <2> QED
    BY <1>1, <1>2, <2>1, <2>2, <2>8, <2>9, OthersOut, OwnerStep DEF AInv
<1> QED
  BY <1>4, <1>5

LEMMA DropCellA ==
  ASSUME AInv, OInv, NEW t \in Threads, RemoveBack(t) \/ Unlink(t)
  PROVE  AInv'
<1> USE DEF Inside, KeyedLabels, PutLabels, NodeLabels
<1>1. Inner(t) /\ ~Return(t)
  BY DEF Inner, Return, RemoveBack, Unlink, Panic, Goto, At
<1>2. Heap /\ Len(queue) \in Nat /\ Capacity \in Nat \ {0} /\ Len(queue) <= Capacity
  BY ThreadsAssumption DEF OInv, Heap, AInv
<1>3. CASE RemoveBack(t)
  <2>1. pc[t] = "removeBack"
    BY <1>3 DEF RemoveBack, Panic, Goto, At
  <2>2. dmu = t /\ Match(Gap(t)) /\ Id(t) \notin DOMAIN entries /\ Len(queue) = Capacity
    BY <2>1, Owner DEF Knows, Absent
  <2>3. queue # <<>>
    BY <1>2, <2>2
  <2>4. /\ Goto(t, "removeBack", "push") /\ queue' = Cache!ListRemove(queue, Cache!Back(queue))
        /\ UNCHANGED <<entries, value, dmu, call, node, local>>
    BY <1>3, <2>3 DEF RemoveBack, tvars
  <2>5. PICK m : m = Cache!Back(queue)
    OBVIOUS
  <2>6. m \in List!Elems(queue) /\ Gap(t) = {m}
    BY <1>2, <2>1, <2>3, <2>5, ElemsOfQueue DEF Gap
  <2>7. Match({})' /\ Len(queue') = Len(queue) - 1
    BY <1>2, <2>2, <2>4, <2>5, <2>6, CellGoes
  <2>8. pc'[t] = "push"
    BY <2>4, GotoOnly
  <2>9. Knows(t)'
    BY <1>2, <2>2, <2>4, <2>7, <2>8 DEF Knows, Absent, Present, Id
  <2>10. Match(Gap(t))'
    BY <2>7, <2>8 DEF Match, Gap
  <2>11. Len(queue') <= Capacity
    BY <1>2, <2>7
  <2> QED
    BY <1>1, <2>2, <2>4, <2>8, <2>9, <2>10, <2>11, OthersOut, OwnerStep
<1>4. CASE Unlink(t)
  <2>1. /\ pc[t] = "unlink" /\ pc'[t] = "unlock"
        /\ UNCHANGED <<entries, value, dmu, call, node, local>>
    BY <1>4, GotoOnly DEF Unlink, tvars
  <2>2. dmu = t /\ Match(Gap(t)) /\ node[t] \in List!Elems(queue)
    BY <2>1, Owner DEF Knows
  <2>3. PICK m : m = node[t]
    OBVIOUS
  <2>4. m \in List!Elems(queue) /\ Gap(t) = {m}
    BY <2>1, <2>2, <2>3 DEF Gap
  <2>5. queue' = Cache!ListRemove(queue, m)
    BY <1>2, <1>4, <2>2, <2>3, ElemsOfQueue DEF Unlink
  <2>6. Match({})' /\ Len(queue') = Len(queue) - 1
    BY <1>2, <2>1, <2>2, <2>4, <2>5, CellGoes
  <2>7. Knows(t)'
    BY <2>1 DEF Knows, Absent, Present
  <2>8. Match(Gap(t))'
    BY <2>1, <2>6 DEF Match, Gap
  <2>9. Len(queue') <= Capacity
    BY <1>2, <2>6
  <2> QED
    BY <1>1, <2>1, <2>2, <2>7, <2>8, <2>9, OthersOut, OwnerStep
<1> QED
  BY <1>3, <1>4

LEMMA PushA ==
  ASSUME AInv, OInv, NEW t \in Threads, Push(t)
  PROVE  AInv'
<1> USE DEF Inside, KeyedLabels, PutLabels, NodeLabels
<1>1. Inner(t) /\ ~Return(t)
  BY DEF Inner, Return, Push, Goto, At
<1>2. PICK n \in Nodes :
        /\ ~Live(n, t) /\ Goto(t, "push", "index")
        /\ queue' = Cache!PushFront(queue, n) /\ value' = [value EXCEPT ![n] = E(t)]
        /\ node' = [node EXCEPT ![t] = n] /\ UNCHANGED <<entries, dmu, call, local, out>>
  BY DEF Push
<1>3. pc[t] = "push" /\ pc'[t] = "index"
  BY <1>2, GotoOnly
<1>4. dmu = t /\ Match({}) /\ Id(t) \notin DOMAIN entries /\ Len(queue) < Capacity
  BY <1>3, Owner, NoGap DEF Knows, Absent
<1>5. Heap /\ Len(queue) \in Nat /\ Capacity \in Nat
  BY ThreadsAssumption DEF OInv, Heap
<1>6. /\ List!Elems(queue') = List!Elems(queue) \cup {n} /\ Len(queue') = Len(queue) + 1
      /\ n \notin List!Elems(queue)
  BY <1>2, <1>5, ListsStay, ElemsOfQueue DEF Live, Linked
<1>7. node'[t] = n /\ \A m \in List!Elems(queue) : value'[m] = value[m]
  <2>1. List!Elems(queue) \subseteq Nodes
    BY <1>5 DEF Heap, List!Elems
  <2>2. node'[t] = n
    BY <1>2 DEF OInv, Frames
  <2>3. \A m \in Nodes \ {n} : value'[m] = value[m]
    BY <1>2, <1>5 DEF Heap
  <2> QED
    BY <1>6, <2>1, <2>2, <2>3
<1>8. Gap(t)' = {n}
  BY <1>3, <1>6, <1>7 DEF Gap
<1>9. Match(Gap(t))'
  BY <1>2, <1>4, <1>6, <1>7, <1>8 DEF Match
<1>10. Knows(t)'
  BY <1>2, <1>3, <1>4, <1>6, <1>7 DEF Knows, Absent, Present, Id
<1>11. Len(queue') <= Capacity
  BY <1>4, <1>5, <1>6
<1> QED
  BY <1>1, <1>2, <1>3, <1>4, <1>9, <1>10, <1>11, OthersOut, OwnerStep

\* The key of the new element closes the gap.
LEMMA IndexA ==
  ASSUME AInv, OInv, NEW t \in Threads, Index(t)
  PROVE  AInv'
<1> USE DEF Inside, KeyedLabels, PutLabels, NodeLabels
<1>1. Inner(t) /\ ~Return(t)
  BY DEF Inner, Return, Index, Goto, At
<1>2. /\ pc[t] = "index" /\ pc'[t] = "unlock"
      /\ entries' = Cache!Store(entries, Id(t), node[t])
      /\ UNCHANGED <<queue, value, dmu>>
  BY GotoOnly DEF Index
<1>3. /\ dmu = t /\ Match(Gap(t)) /\ Id(t) \notin DOMAIN entries
      /\ node[t] \in List!Elems(queue)
  BY <1>2, Owner DEF Knows, Absent
<1>4. Gap(t) = {node[t]} /\ value[node[t]].Identifier = Id(t)
  BY <1>2, <1>3 DEF Gap, OInv, Local, MadeFor
<1>5. /\ DOMAIN entries' = DOMAIN entries \cup {Id(t)}
      /\ \A i \in DOMAIN entries' : entries'[i] = IF i = Id(t) THEN node[t] ELSE entries[i]
  BY <1>2 DEF Cache!Store
<1>6. Match({node[t]})
  BY <1>3, <1>4
<1>7. \A i \in DOMAIN entries' : entries'[i] \in List!Elems(queue)
  BY <1>3, <1>5, <1>6 DEF Match
<1>8. \A n \in List!Elems(queue) :
        value[n].Identifier \in DOMAIN entries' /\ entries'[value[n].Identifier] = n
  BY <1>3, <1>4, <1>5, <1>6 DEF Match
<1>9. Match(Gap(t))'
  BY <1>2, <1>7, <1>8 DEF Match, Gap
<1>10. Knows(t)'
  BY <1>2 DEF Knows, Absent, Present
<1> QED
  BY <1>1, <1>2, <1>3, <1>9, <1>10, OthersOut, OwnerStep DEF AInv

LEMMA NextAInv == LockedOnly /\ AInv /\ OInv /\ OInv' /\ [Next]_vars => AInv'
<1> SUFFICES ASSUME LockedOnly, AInv, OInv, OInv', [Next]_vars PROVE AInv'
  OBVIOUS
<1>1. ASSUME NEW t \in Threads, Begin(t) \/ Lock(t) \/ Statement(t)
      PROVE  AInv'
  <2>1. CASE Begin(t)
    BY <2>1, BeginA
  <2>2. CASE Lock(t)
    BY <2>2, LockA
  <2>3. CASE Unlock(t)
    BY <2>3, UnlockA
  <2>4. CASE SizeUnlocked(t) \/ Return(t)
    BY <2>4, SizeA
  <2>5. CASE Lookup(t)
    BY <2>5, LookupA
  <2>6. CASE Read(t) \/ CheckCapacity(t) \/ Victim(t) \/ MakeIds(t) \/ FillIds(t)
    BY <2>6, CalmA
  <2>7. CASE Move(t) \/ Overwrite(t)
    BY <2>7, UseA
  <2>8. CASE DeleteVictim(t) \/ DeleteKey(t)
    BY <2>8, DropKeyA
  <2>9. CASE RemoveBack(t) \/ Unlink(t)
    BY <2>9, DropCellA
  <2>10. CASE Push(t)
    BY <2>10, PushA
  <2>11. CASE Index(t)
    BY <2>11, IndexA
  <2>12. CASE OldestTest(t) \/ OldestBack(t) \/ OldestRead(t) \/ ClearEntries(t) \/ ClearQueue(t)
    <3>1. pc[t] \in {"test", "back", "oldest", "newEntries", "newQueue"}
      BY <2>12 DEF OldestTest, OldestBack, OldestRead, ClearEntries, ClearQueue, Panic, Goto, At
    <3>2. pc[t] \in Inside \cup Outside
      BY DEF AInv
    <3> QED
      BY <3>1, <3>2 DEF Inside, Outside, KeyedLabels, PutLabels, NodeLabels
  <2> QED
    BY <1>1, <2>1, <2>2, <2>3, <2>4, <2>5, <2>6, <2>7, <2>8, <2>9, <2>10, <2>11, <2>12
       DEF Statement, Inner
<1>2. CASE UNCHANGED vars
  BY <1>2 DEF vars, svars, tvars, AInv, Match, Gap, Knows, Id, Cache!BackId, Cache!Back
<1> QED
  BY <1>1, <1>2 DEF Next

LEMMA OneInside == LockedOnly => (SafeSpec => []AInv)
<1> SUFFICES ASSUME LockedOnly PROVE SafeSpec => []AInv
  OBVIOUS
<1>1. Init /\ OInv => AInv
  BY InitAInv
<1>2. AInv /\ OInv /\ OInv' /\ [Next]_vars => AInv'
  BY NextAInv
<1> QED
  BY <1>1, <1>2, CellsKeptApart, PTL DEF SafeSpec

\* Put, Get, Remove, Has, UpdateAccess, GetFullIDList and Size, however they
\* interleave: whenever the lock is free the list and the map describe the same entries.
THEOREM ListAndMapAgreeWhenFree ==
  ASSUME LockedOnly PROVE SafeSpec => []QuiescentConsistent
<1>1. AInv /\ OInv => QuiescentConsistent
  <2> SUFFICES ASSUME AInv, OInv, dmu = Nil
               PROVE  Cache!QueueDistinct /\ Cache!IndexSound /\ Cache!IndexComplete
    BY DEF QuiescentConsistent
  <2>1. Match({}) /\ Heap
    BY DEF AInv, OInv
  <2> QED
    BY <2>1 DEF Match, Heap, List!Elems, List!Distinct, Cache!QueueDistinct, Cache!IndexSound,
                Cache!IndexComplete
<1> QED
  BY <1>1, OneInside, CellsKeptApart, PTL

\* Size looks at the map without the lock, in the middle of a Put too, and still never
\* reports more entries than the capacity.
THEOREM SizeFits ==
  ASSUME LockedOnly PROVE SafeSpec => []SizeWithinCapacity
<1>1. AInv => SizeWithinCapacity
  BY DEF AInv, SizeWithinCapacity
<1> QED
  BY <1>1, OneInside, PTL

\* As long as nobody calls Clear or GetOldest no call dereferences the Back of an empty list.
THEOREM NobodyPanics ==
  ASSUME LockedOnly PROVE SafeSpec => []NoPanic
<1>1. AInv => NoPanic
  BY DEF AInv, NoPanic, Inside, Outside, KeyedLabels, PutLabels, NodeLabels
<1> QED
  BY <1>1, OneInside, PTL

-----------------------------------------------------------------------------
(* Third part, the history variables: the cache as it was when the lock    *)
(* was last released is what the owner of the lock started from, so what   *)
(* it has done so far can be told from its label (Doing), and when it      *)
(* unlocks it has done one step of LRUCache (Effect).                      *)

Queue0 == committed.queue
Entries0 == committed.entries
Value0 == committed.value

Hit0(t) == Id(t) \in DOMAIN Entries0
Node0(t) == Entries0[Id(t)]

Same == queue = Queue0 /\ entries = Entries0 /\ value = Value0

\* What is left for a Put of a new identifier to add to: the cache without
\* its oldest entry when it was full.
Evicting == Len(Queue0) = Capacity
Oldest0 == Cache!Back(Queue0)
Rest == IF Evicting THEN Cache!SeqX!Front(Queue0) ELSE Queue0
Keys == IF Evicting THEN Cache!Delete(Entries0, Value0[Oldest0].Identifier) ELSE Entries0
Cells == IF Evicting THEN List!Elems(Queue0) \ {Oldest0} ELSE List!Elems(Queue0)

\* What t's call returns when it is one step of LRUCache.
Result(t) ==
  CASE call[t].op = "Put" -> Answer(t, TRUE)
    [] call[t].op = "UpdateAccess" -> [op |-> "UpdateAccess", id |-> Id(t)]
    [] call[t].op = "Get" ->
         IF Hit0(t) THEN [op |-> "Get", id |-> Id(t), ok |-> TRUE,
                          payload |-> Value0[Node0(t)].Payload]
                    ELSE [op |-> "Get", id |-> Id(t), ok |-> FALSE, payload |-> Nil]
    [] call[t].op = "GetFullIDList" -> [op |-> "GetFullIDList", ids |-> DOMAIN Entries0]
    [] OTHER -> Answer(t, Hit0(t))

\* The heap once it is collected: only cells of the list are in use.
Swept == [n \in Nodes |-> IF n \in List!Elems(queue) THEN value[n] ELSE Nil]

After(q, m, v) == queue = q /\ entries = m /\ Swept = v

\* The changes of one step of LRUCache.
Effect(t) ==
  \/ /\ \/ call[t].op \in {"Has", "GetFullIDList"}
        \/ call[t].op \in {"Get", "UpdateAccess", "Remove"} /\ ~Hit0(t)
     /\ After(Queue0, Entries0, Value0)
  \/ /\ call[t].op \in {"Get", "UpdateAccess"} /\ Hit0(t)
     /\ After(Cache!MoveToFront(Queue0, Node0(t)), Entries0, Value0)
  \/ /\ call[t].op = "Remove" /\ Hit0(t)
     /\ After(Cache!ListRemove(Queue0, Node0(t)), Cache!Delete(Entries0, Id(t)),
              [Value0 EXCEPT ![Node0(t)] = Nil])
  \/ /\ call[t].op = "Put" /\ Hit0(t)
     /\ After(Cache!MoveToFront(Queue0, Node0(t)), Entries0, [Value0 EXCEPT ![Node0(t)] = E(t)])
  \/ /\ call[t].op = "Put" /\ ~Hit0(t)
     /\ \E n \in Nodes \ Cells :
          After(Cache!PushFront(Rest, n), Cache!Store(Keys, Id(t), n),
                IF Evicting THEN [Value0 EXCEPT ![Oldest0] = Nil, ![n] = E(t)]
                            ELSE [Value0 EXCEPT ![n] = E(t)])

Untouched == {"lookup", "make", "fill", "read", "move", "capacity", "victim", "deleteVictim",
              "delete"}
Answered == Inside \ {"lookup", "make", "fill", "read"}

\* What the owner of the lock has done.
Doing(t) ==
  /\ pc[t] \in Untouched => Same
  /\ pc[t] \in {"make", "fill"} => call[t].op = "GetFullIDList"
  /\ pc[t] = "fill" => local[t] = Cardinality(DOMAIN entries)
  /\ pc[t] = "read" => call[t].op = "Get"
  /\ pc[t] = "move" => call[t].op \in {"Get", "UpdateAccess", "Put"}
  /\ pc[t] \in {"delete", "unlink"} => call[t].op = "Remove"
  /\ pc[t] \in Answered => out[t] = Result(t)
  /\ pc[t] \in PutLabels => (Hit0(t) <=> pc[t] = "overwrite")
  /\ pc[t] = "overwrite" =>
       /\ queue = Cache!MoveToFront(Queue0, Node0(t)) /\ List!Elems(queue) = List!Elems(Queue0)
       /\ entries = Entries0 /\ value = Value0
  /\ pc[t] = "removeBack" => queue = Queue0 /\ entries = Keys /\ value = Value0
  /\ pc[t] = "push" =>
       queue = Rest /\ List!Elems(queue) = Cells /\ entries = Keys /\ value = Value0
  /\ pc[t] = "index" =>
       /\ node[t] \in Nodes \ Cells
       /\ queue = Cache!PushFront(Rest, node[t]) /\ List!Elems(queue) = Cells \cup {node[t]}
       /\ entries = Keys /\ value = [Value0 EXCEPT ![node[t]] = E(t)]
  /\ pc[t] = "unlink" =>
       /\ Hit0(t) /\ node[t] = Node0(t)
       /\ queue = Queue0 /\ entries = Cache!Delete(Entries0, Id(t)) /\ value = Value0
  /\ pc[t] = "unlock" => Effect(t)

LInv ==
  /\ Value0 \in [Nodes -> Cache!LRUEntry \cup {Nil}]
  /\ \A n \in Nodes : Value0[n] # Nil => n \in List!Elems(Queue0)
  /\ \A t \in Threads : pc[t] \in Outside => node[t] = Nil
  /\ dmu = Nil => Same
  /\ dmu # Nil => Doing(dmu)

LEMMA InitLInv == LinearInit => LInv
<1> SUFFICES ASSUME LinearInit PROVE LInv
  OBVIOUS
<1>1. committed = [queue |-> queue, entries |-> entries, value |-> value] /\ Init
  BY DEF LinearInit, Now
<1>2. Same /\ Value0 = [n \in Nodes |-> Nil]
  BY <1>1 DEF Same, Queue0, Entries0, Value0, Init
<1>3. dmu = Nil /\ \A t \in Threads : node[t] = Nil
  BY <1>1 DEF Init
<1> QED
  BY <1>2, <1>3 DEF LInv

\* While nobody touches the cache and t does not move, t has done what it had done.
LEMMA DoneStays ==
  ASSUME NEW t, UNCHANGED <<queue, entries, value, committed>>,
         pc'[t] = pc[t], call'[t] = call[t], node'[t] = node[t], local'[t] = local[t],
         out'[t] = out[t], Doing(t)
  PROVE  Doing(t)'
<1>1. UNCHANGED <<Queue0, Entries0, Value0, queue, entries, value>>
  BY DEF Queue0, Entries0, Value0
<1>2. UNCHANGED <<Id(t), E(t), call[t], node[t], local[t], out[t], pc[t], Evicting, Oldest0>>
  BY <1>1 DEF Id, E, Evicting, Oldest0, Cache!Back
<1>3. UNCHANGED <<Hit0(t), Node0(t), Rest, Keys, Cells>>
  BY <1>1, <1>2 DEF Hit0, Node0, Rest, Keys, Cells
<1>4. UNCHANGED <<Result(t), Swept>>
  BY <1>1, <1>2, <1>3 DEF Result, Swept, Answer
<1>5. Effect(t) => Effect(t)'
  BY <1>1, <1>2, <1>3, <1>4 DEF Effect, After
<1> QED
  BY <1>1, <1>2, <1>3, <1>4, <1>5 DEF Doing, Same

\* A statement of the owner of the lock.
LEMMA OwnerDoes ==
  ASSUME LInv, AInv, OInv, NEW t \in Threads, Inner(t), ~Return(t), UNCHANGED committed,
         dmu = t, dmu' = t, pc'[t] \in Inside, Doing(t)'
  PROVE  LInv'
<1>1. \A u \in Threads \ {t} : pc'[u] = pc[u] /\ node'[u] = node[u]
  BY OthersOut
<1>2. \A u \in Threads : pc'[u] \in Outside => node'[u] = Nil
  BY <1>1, Apart DEF LInv
<1>3. t # Nil
  BY ThreadsAssumption
<1>4. UNCHANGED <<Queue0, Value0>>
  BY DEF Queue0, Value0
<1> QED
  BY <1>2, <1>3, <1>4 DEF LInv

\* A step outside of the locked calls.
LEMMA OutsideDoes ==
  ASSUME LInv, AInv, OInv, NEW t \in Threads, UNCHANGED <<svars, dmu, committed>>,
         pc[t] \in Outside, pc'[t] \in Outside, node'[t] = Nil,
         \A u \in Threads \ {t} : /\ pc'[u] = pc[u] /\ out'[u] = out[u] /\ call'[u] = call[u]
                                  /\ node'[u] = node[u] /\ local'[u] = local[u]
  PROVE  LInv'
<1>1. dmu # t
  BY Apart DEF AInv
<1>2. dmu = Nil \/ dmu \in Threads \ {t}
  BY <1>1 DEF OInv, Frames
<1>3. UNCHANGED <<queue, entries, value, Queue0, Entries0, Value0>>
  BY DEF svars, Queue0, Entries0, Value0
<1>4. ASSUME NEW u \in Threads \ {t}, Doing(u) PROVE Doing(u)'
  BY <1>3, <1>4, DoneStays
<1>5. dmu' # Nil => Doing(dmu)'
  <2> SUFFICES ASSUME NEW u \in Threads \ {t}, dmu = u, u # Nil PROVE Doing(u)'
    BY <1>2
  <2> QED
    BY <1>4 DEF LInv
<1>6. dmu' = Nil => Same'
  BY <1>3 DEF LInv, Same
<1>7. \A u \in Threads : pc'[u] \in Outside => node'[u] = Nil
  BY DEF LInv
<1> QED
  BY <1>3, <1>5, <1>6, <1>7 DEF LInv

LEMMA BeginDoes ==
  ASSUME LInv, AInv, OInv, LockedOnly, NEW t \in Threads, UNCHANGED committed,
         Begin(t) \/ SizeUnlocked(t) \/ Return(t)
  PROVE  LInv'
<1>1. UNCHANGED <<svars, dmu>>
  BY DEF Begin, SizeUnlocked, Return
<1>2. /\ pc[t] \in Outside /\ pc'[t] \in Outside
      /\ \A u \in Threads \ {t} : pc'[u] = pc[u]
  <2>1. CASE Begin(t)
    <3>1. PICK op \in Ops[t] : Goto(t, "idle", IF op \in Locked THEN "lock" ELSE Entry(op))
      BY <2>1 DEF Begin
    <3>2. (IF op \in Locked THEN "lock" ELSE Entry(op)) \in {"lock", "size"}
      BY DEF LockedOnly, Entry
    <3> QED
      BY <3>1, <3>2, GotoOnly DEF Outside
  <2>2. CASE SizeUnlocked(t) \/ Return(t)
    BY <2>2, GotoOnly DEF SizeUnlocked, Return, Outside
  <2> QED
    BY <2>1, <2>2
<1>3. \A u \in Threads \ {t} : /\ out'[u] = out[u] /\ call'[u] = call[u]
                               /\ node'[u] = node[u] /\ local'[u] = local[u]
  BY DEF Begin, SizeUnlocked, Return, Forget, OInv, Frames
<1>4. node'[t] = Nil
  <2>1. node[t] = Nil
    BY <1>2 DEF LInv
  <2> QED
    BY <2>1 DEF Begin, SizeUnlocked, Return, Forget, OInv, Frames
<1> QED
  BY <1>1, <1>2, <1>3, <1>4, OutsideDoes

\* Whoever takes the lock finds what was last released.
LEMMA LockDoes ==
  ASSUME LInv, AInv, OInv, NEW t \in Threads, UNCHANGED committed, Lock(t)
  PROVE  LInv'
<1>1. /\ Goto(t, "lock", Entry(call[t].op)) /\ dmu = Nil /\ dmu' = t /\ UNCHANGED <<svars, tvars>>
  BY DEF Lock
<1>2. /\ pc[t] = "lock" /\ pc'[t] = Entry(call[t].op)
      /\ \A u \in Threads \ {t} : pc'[u] = pc[u]
  BY <1>1, GotoOnly
<1>3. call[t].op \in Locked
  BY <1>2 DEF OInv, Local
<1>4. \/ pc'[t] = "make" /\ call[t].op = "GetFullIDList"
      \/ pc'[t] = "lookup"
  BY <1>2, <1>3 DEF Entry, Locked, Keyed
<1>5. Same' /\ UNCHANGED <<Queue0, Value0>>
  BY <1>1 DEF LInv, Same, Queue0, Entries0, Value0, svars
<1>6. Doing(t)'
  BY <1>1, <1>4, <1>5 DEF Doing, Untouched, Answered, PutLabels, tvars
<1>7. \A u \in Threads : pc'[u] \in Outside => node'[u] = Nil
  BY <1>1, <1>2, <1>4 DEF LInv, Outside, tvars
<1>8. t # Nil
  BY ThreadsAssumption
<1> QED
  BY <1>1, <1>5, <1>6, <1>7, <1>8 DEF LInv

-----------------------------------------------------------------------------
(* What the statements do.                                                 *)

\* Collecting a heap in which only cells of the list are in use changes nothing.
LEMMA NothingSwept ==
  ASSUME NEW q, NEW S, NEW v \in [Nodes -> S], \A n \in Nodes : v[n] # Nil => n \in List!Elems(q)
  PROVE  [n \in Nodes |-> IF n \in List!Elems(q) THEN v[n] ELSE Nil] = v
OBVIOUS

\* The owner of the lock has changed nothing but the order.
LEMMA Unswept ==
  ASSUME LInv, UNCHANGED committed, value' = Value0, List!Elems(queue') = List!Elems(Queue0)
  PROVE  Swept' = Value0'
<1>1. Value0 \in [Nodes -> Cache!LRUEntry \cup {Nil}]
      /\ \A n \in Nodes : Value0[n] # Nil => n \in List!Elems(Queue0)
  BY DEF LInv
<1>2. [n \in Nodes |-> IF n \in List!Elems(Queue0) THEN Value0[n] ELSE Nil] = Value0
  BY <1>1, NothingSwept
<1>3. Value0' = Value0
  BY DEF Value0
<1>4. Swept' = [n \in Nodes |-> IF n \in List!Elems(Queue0) THEN Value0[n] ELSE Nil]
  BY DEF Swept
<1> QED
  BY <1>2, <1>3, <1>4

\* What a statement that keeps the call leaves of what a call is compared with.
LEMMA Start ==
  ASSUME OInv, NEW t \in Threads, UNCHANGED committed, call'[t] = call[t]
  PROVE  /\ UNCHANGED <<Queue0, Entries0, Value0, Evicting, Oldest0, Rest, Keys, Cells>>
         /\ UNCHANGED <<Id(t), E(t), Hit0(t), Node0(t), Result(t)>>
<1>1. UNCHANGED <<Queue0, Entries0, Value0>> /\ UNCHANGED <<Id(t), E(t)>>
  BY DEF Queue0, Entries0, Value0, Id, E
<1>2. UNCHANGED <<Evicting, Oldest0>> /\ UNCHANGED <<Hit0(t), Node0(t)>>
  BY <1>1 DEF Evicting, Oldest0, Cache!Back, Hit0, Node0
<1> QED
  BY <1>1, <1>2 DEF Rest, Keys, Cells, Result, Answer

LEMMA LookupDoes ==
  ASSUME LInv, AInv, OInv, NEW t \in Threads, UNCHANGED committed, Lookup(t)
  PROVE  Doing(t)'
<1> DEFINE op == call[t].op
           hit == Id(t) \in DOMAIN entries
           to == CASE op = "Has" -> "unlock"
                   [] op = "Put" /\ ~hit -> "capacity"
                   [] op # "Put" /\ ~hit -> "unlock"
                   [] op = "Get" /\ hit -> "read"
                   [] op = "Remove" /\ hit -> "delete"
                   [] OTHER -> "move"
           o == CASE op = "UpdateAccess" -> [op |-> op, id |-> Id(t)]
                  [] op = "Get" -> [op |-> op, id |-> Id(t), ok |-> FALSE, payload |-> Nil]
                  [] op = "Put" -> Answer(t, TRUE)
                  [] OTHER -> Answer(t, hit)
<1>1. Goto(t, "lookup", to) /\ out' = [out EXCEPT ![t] = o] /\ UNCHANGED <<svars, dmu, call, local>>
  BY DEF Lookup
<1>2. pc[t] = "lookup" /\ pc'[t] = to /\ out'[t] = o
  BY <1>1, GotoOnly DEF OInv, Frames
<1>3. op \in Keyed
  BY <1>2 DEF OInv, Local, KeyedLabels
<1>4. \/ to = "unlock" /\ op # "Put" /\ (op = "Has" \/ ~hit)
      \/ to = "capacity" /\ op = "Put" /\ ~hit
      \/ to = "read" /\ op = "Get" /\ hit
      \/ to = "delete" /\ op = "Remove" /\ hit
      \/ to = "move" /\ op \in {"Put", "UpdateAccess"} /\ hit
  BY <1>3 DEF Keyed
<1> HIDE DEF to
<1>5. Same /\ dmu = t
  BY <1>2, Owner DEF LInv, Doing, Untouched, Inside, KeyedLabels
<1>6. hit = Hit0(t)
  BY <1>5 DEF Same, Hit0
<1>7. to # "read" => o = Result(t)
  <2>1. CASE op \in {"UpdateAccess", "Put"}
    BY <2>1 DEF Result
  <2>2. CASE op = "Get"
    BY <1>4, <1>6, <2>2 DEF Result
  <2>3. CASE op \in {"Remove", "Has"}
    <3>1. o = Answer(t, hit) /\ Result(t) = Answer(t, Hit0(t))
      BY <2>3 DEF Result
    <3> QED
      BY <1>6, <3>1, Zenon
  <2> QED
    BY <1>3, <2>1, <2>2, <2>3 DEF Keyed
<1>8. /\ UNCHANGED <<Queue0, Entries0, Value0, queue, entries, value>>
      /\ UNCHANGED <<Id(t), Hit0(t), Result(t), call[t]>>
  BY <1>1, Start DEF svars
<1>9. Same'
  BY <1>5, <1>8 DEF Same
<1>10. to = "unlock" => Effect(t)'
  <2>1. Swept' = Value0'
    BY <1>5, <1>8, Unswept DEF Same
  <2>2. After(Queue0, Entries0, Value0)'
    BY <1>9, <2>1 DEF Same, After
  <2> QED
    BY <1>3, <1>4, <1>6, <1>8, <2>2 DEF Effect, Keyed
<1> QED
  BY <1>2, <1>4, <1>6, <1>7, <1>8, <1>9, <1>10 DEF Doing, Answered, PutLabels

LEMMA CalmDoes ==
  ASSUME LInv, AInv, OInv, NEW t \in Threads, UNCHANGED committed,
         Read(t) \/ CheckCapacity(t) \/ Victim(t) \/ MakeIds(t) \/ FillIds(t)
  PROVE  Doing(t)'
<1> USE DEF Inside, KeyedLabels, PutLabels, NodeLabels, Untouched
<1>1. pc[t] \in {"read", "capacity", "victim", "make", "fill"}
  BY DEF Read, CheckCapacity, Victim, MakeIds, FillIds, Panic, Goto, At
<1>2. dmu = t /\ Doing(t) /\ Same /\ Knows(t)
  BY <1>1, Owner DEF LInv, Doing
<1>3. call' = call
  BY DEF Read, CheckCapacity, Victim, MakeIds, FillIds, Panic, tvars
<1>4. /\ UNCHANGED <<Queue0, Entries0, Value0, Rest, Keys, Cells>>
      /\ UNCHANGED <<Id(t), Hit0(t), Result(t), call[t]>>
  BY <1>3, Start
<1>5. UNCHANGED <<queue, entries, value>>
  BY DEF Read, CheckCapacity, Victim, MakeIds, FillIds, Panic, svars
<1>6. Same'
  BY <1>2, <1>4, <1>5 DEF Same
<1>7. CASE Read(t)
  <2>1. /\ pc[t] = "read" /\ pc'[t] = "move"
        /\ out'[t] = [op |-> "Get", id |-> Id(t), ok |-> TRUE, payload |-> value[node[t]].Payload]
    BY <1>7, GotoOnly DEF Read, OInv, Frames
  <2>2. call[t].op = "Get" /\ Hit0(t) /\ node[t] = Node0(t) /\ value = Value0
    BY <1>2, <2>1 DEF Doing, Knows, Present, Same, Hit0, Node0
  <2>3. out'[t] = Result(t)
    BY <2>1, <2>2 DEF Result
  <2> QED
    BY <1>4, <1>6, <2>1, <2>2, <2>3 DEF Doing, Answered
<1>8. CASE CheckCapacity(t)
  <2>1. /\ pc[t] = "capacity" /\ pc'[t] = (IF Cache!Full THEN "victim" ELSE "push")
        /\ UNCHANGED <<out, node, local>>
    BY <1>8, GotoOnly DEF CheckCapacity, tvars
  <2>2. pc'[t] \in {"victim", "push"} /\ (pc'[t] = "push" <=> ~Evicting)
    BY <1>2, <2>1 DEF Same, Cache!Full, Evicting
  <2>3. pc'[t] = "push" => (queue = Rest /\ List!Elems(queue) = Cells /\ entries = Keys)
    BY <1>2, <2>2 DEF Same, Rest, Cells, Keys
  <2>4. out[t] = Result(t) /\ ~Hit0(t)
    BY <1>2, <2>1 DEF Doing, Answered
  <2> QED
    BY <1>4, <1>5, <1>6, <2>1, <2>2, <2>3, <2>4 DEF Doing, Answered, Same
<1>9. CASE Victim(t)
  <2>1. queue # <<>>
    BY <1>9, <1>2, ThreadsAssumption DEF Knows, Victim, Panic, Goto, At
  <2>2. pc[t] = "victim" /\ pc'[t] = "deleteVictim" /\ out' = out
    BY <1>9, <2>1, GotoOnly DEF Victim
  <2>3. out[t] = Result(t) /\ ~Hit0(t)
    BY <1>2, <2>2 DEF Doing, Answered
  <2> QED
    BY <1>4, <1>6, <2>2, <2>3 DEF Doing, Answered
<1>10. CASE MakeIds(t)
  <2>1. /\ pc[t] = "make" /\ pc'[t] = "fill" /\ local'[t] = Cardinality(DOMAIN entries)
    BY <1>10, GotoOnly DEF MakeIds, OInv, Frames
  <2>2. call[t].op = "GetFullIDList"
    BY <1>2, <2>1 DEF Doing
  <2> QED
    BY <1>4, <1>5, <1>6, <2>1, <2>2 DEF Doing, Answered
<1>11. CASE FillIds(t)
  <2>1. /\ pc[t] = "fill" /\ pc'[t] = "unlock"
        /\ out'[t] = [op |-> "GetFullIDList",
                      ids |-> DOMAIN entries \cup
                              (IF Cardinality(DOMAIN entries) < local[t] THEN {Nil} ELSE {})]
    BY <1>11, GotoOnly DEF FillIds, OInv, Frames
  <2>2. call[t].op = "GetFullIDList" /\ local[t] = Cardinality(DOMAIN entries)
    BY <1>2, <2>1 DEF Doing
  <2>3. ~(Cardinality(DOMAIN entries) < local[t])
    <3>1. Cardinality(DOMAIN entries) \in Nat
      BY KeysCounted
    <3> QED
      BY <2>2, <3>1
  <2>4. out'[t] = [op |-> "GetFullIDList", ids |-> DOMAIN entries]
    BY <2>1, <2>3
  <2>5. out'[t] = Result(t)
    BY <1>2, <2>2, <2>4 DEF Result, Same
  <2>6. After(Queue0, Entries0, Value0)'
    <3>1. Swept' = Value0'
      BY <1>2, <1>5, Unswept DEF Same
    <3> QED
      BY <1>6, <3>1 DEF Same, After
  <2>7. Effect(t)'
    BY <1>4, <2>2, <2>6 DEF Effect
  <2> QED
    BY <1>4, <2>1, <2>2, <2>5, <2>7 DEF Doing, Answered
<1> QED
  BY <1>7, <1>8, <1>9, <1>10, <1>11

\* The element of an identifier that the map has is in the list.
LEMMA NodeLinked ==
  ASSUME AInv, OInv, NEW t \in Threads, dmu = t, Gap(t) = {}, Id(t) \in DOMAIN entries
  PROVE  entries[Id(t)] \in List!Elems(queue) /\ entries[Id(t)] \in Nodes
BY ThreadsAssumption DEF AInv, Match, OInv, Heap

LEMMA UseDoes ==
  ASSUME LInv, AInv, OInv, NEW t \in Threads, UNCHANGED committed, Move(t) \/ Overwrite(t)
  PROVE  Doing(t)'
<1> USE DEF Inside, KeyedLabels, PutLabels, NodeLabels, Untouched
<1>1. pc[t] \in {"move", "overwrite"} /\ UNCHANGED <<entries, call, node, out>>
  BY GotoOnly DEF Move, Overwrite, tvars
<1>2. dmu = t /\ Doing(t) /\ Knows(t) /\ Gap(t) = {}
  BY <1>1, Owner, NoGap DEF LInv
<1>3. /\ UNCHANGED <<Queue0, Entries0, Value0>>
      /\ UNCHANGED <<Id(t), E(t), Hit0(t), Node0(t), Result(t), call[t]>>
  BY <1>1, Start
<1>4. out'[t] = Result(t) /\ Id(t) \in DOMAIN entries /\ entries[Id(t)] = node[t]
  BY <1>1, <1>2 DEF Doing, Answered, Knows, Present
<1>5. CASE Move(t)
  <2>1. /\ pc[t] = "move" /\ pc'[t] = (IF call[t].op = "Put" THEN "overwrite" ELSE "unlock")
        /\ queue' = IF Linked(node[t]) THEN Cache!MoveToFront(queue, node[t]) ELSE queue
        /\ value' = value
    BY <1>5, GotoOnly DEF Move
  <2>2. Same /\ call[t].op \in {"Get", "UpdateAccess", "Put"}
    BY <1>2, <2>1 DEF Doing
  <2>3. Linked(node[t])
    BY <1>2, <1>4, NodeLinked, ElemsOfQueue DEF OInv
  <2>4. /\ queue' = Cache!MoveToFront(Queue0, Node0(t)) /\ entries' = Entries0
        /\ value' = Value0 /\ Hit0(t) /\ node[t] = Node0(t)
    BY <1>1, <1>4, <2>1, <2>2, <2>3 DEF Same, Node0, Hit0
  <2>5. List!Elems(queue') = List!Elems(Queue0)
    BY <2>1, <2>2, <2>3, ListsStay DEF OInv, Same
  <2>6. CASE call[t].op = "Put"
    BY <1>3, <1>4, <2>1, <2>4, <2>5, <2>6 DEF Doing, Answered
  <2>7. CASE call[t].op # "Put"
    <3>1. Swept' = Value0'
      BY <2>4, <2>5, Unswept
    <3>2. After(Cache!MoveToFront(Queue0, Node0(t)), Entries0, Value0)'
      BY <1>3, <2>4, <3>1 DEF After
    <3>3. Effect(t)'
      BY <1>3, <2>2, <2>4, <2>7, <3>2 DEF Effect
    <3> QED
      BY <1>3, <1>4, <2>1, <2>7, <3>3 DEF Doing, Answered
  <2> QED
    BY <2>6, <2>7
<1>6. CASE Overwrite(t)
  <2>1. /\ pc[t] = "overwrite" /\ pc'[t] = "unlock"
        /\ queue' = queue /\ value' = [value EXCEPT ![node[t]] = E(t)]
    BY <1>6, GotoOnly DEF Overwrite
  <2>2. call[t].op = "Put" /\ Hit0(t)
    BY <1>2, <2>1 DEF Doing, OInv, Local
  <2>3. /\ queue = Cache!MoveToFront(Queue0, Node0(t)) /\ List!Elems(queue) = List!Elems(Queue0)
        /\ entries = Entries0 /\ value = Value0 /\ node[t] = Node0(t)
    BY <1>2, <1>4, <2>1 DEF Doing, Node0
  <2>4. node[t] \in List!Elems(queue) /\ node[t] \in Nodes
    BY <1>2, <1>4, NodeLinked
  <2>5. Swept' = [Value0 EXCEPT ![Node0(t)] = E(t)]
    <3> DEFINE new == [Value0 EXCEPT ![Node0(t)] = E(t)]
    <3>1. value' = new
      BY <2>1, <2>3
    <3>2. \A n \in Nodes : new[n] # Nil => n \in List!Elems(queue)
      BY <2>3, <2>4 DEF LInv
    <3>3. \E S : new \in [Nodes -> S]
      <4>1. new \in [Nodes -> Cache!LRUEntry \cup {Nil, E(t)}]
        BY DEF LInv
      <4> QED
        BY <4>1
    <3>4. [n \in Nodes |-> IF n \in List!Elems(queue) THEN new[n] ELSE Nil] = new
      BY <3>2, <3>3, NothingSwept
    <3> HIDE DEF new
    <3>5. Swept' = [n \in Nodes |-> IF n \in List!Elems(queue) THEN new[n] ELSE Nil]
      BY <2>1, <3>1 DEF Swept
    <3> QED
      BY <3>4, <3>5 DEF new
  <2>6. After(Cache!MoveToFront(Queue0, Node0(t)), Entries0, [Value0 EXCEPT ![Node0(t)] = E(t)])'
    BY <1>1, <1>3, <2>1, <2>3, <2>5 DEF After
  <2>7. Effect(t)'
    BY <1>3, <2>2, <2>6 DEF Effect
  <2> QED
    BY <1>3, <1>4, <2>1, <2>2, <2>7 DEF Doing, Answered
<1> QED
  BY <1>5, <1>6

LEMMA DeleteVictimDoes ==
  ASSUME LInv, AInv, OInv, NEW t \in Threads, UNCHANGED committed, DeleteVictim(t)
  PROVE  Doing(t)'
<1> USE DEF Inside, KeyedLabels, PutLabels, NodeLabels, Untouched
<1>1. /\ pc[t] = "deleteVictim" /\ pc'[t] = "removeBack" /\ UNCHANGED <<queue, value, call, out>>
      /\ entries' = Cache!Delete(entries, local[t])
  BY GotoOnly DEF DeleteVictim, tvars
<1>2. dmu = t /\ Doing(t) /\ Knows(t) /\ Same
  BY <1>1, Owner DEF LInv, Doing
<1>3. /\ UNCHANGED <<Queue0, Entries0, Value0, Keys>>
      /\ UNCHANGED <<Hit0(t), Result(t), call[t]>>
  BY <1>1, Start
<1>4. out[t] = Result(t) /\ ~Hit0(t)
  BY <1>1, <1>2 DEF Doing, Answered
<1>5. local[t] = Cache!BackId /\ Evicting
  BY <1>1, <1>2 DEF Knows, Same, Evicting
<1>6. entries' = Keys
  BY <1>1, <1>2, <1>5 DEF Same, Keys, Oldest0, Cache!BackId
<1>7. queue' = Queue0 /\ value' = Value0
  BY <1>1, <1>2 DEF Same
<1> QED
  BY <1>1, <1>3, <1>4, <1>6, <1>7 DEF Doing, Answered

LEMMA RemoveBackDoes ==
  ASSUME LInv, AInv, OInv, NEW t \in Threads, UNCHANGED committed, RemoveBack(t)
  PROVE  Doing(t)'
<1> USE DEF Inside, KeyedLabels, PutLabels, NodeLabels, Untouched
<1>1. pc[t] = "removeBack"
  BY DEF RemoveBack, Panic, Goto, At
<1>2. dmu = t /\ Doing(t) /\ Knows(t)
  BY <1>1, Owner DEF LInv
<1>3. Len(queue) = Capacity /\ queue # <<>> /\ queue \in Seq(Nodes) /\ List!Distinct(queue)
  BY <1>1, <1>2, ThreadsAssumption DEF Knows, OInv, Heap
<1>4. /\ pc'[t] = "push" /\ queue' = Cache!ListRemove(queue, Cache!Back(queue))
      /\ UNCHANGED <<entries, value, call, out>>
  BY <1>3, GotoOnly DEF RemoveBack, tvars
<1>5. queue = Queue0 /\ entries = Keys /\ value = Value0 /\ ~Hit0(t) /\ out[t] = Result(t)
  BY <1>1, <1>2 DEF Doing, Answered
<1>6. /\ UNCHANGED <<Value0, Rest, Keys, Cells>>
      /\ UNCHANGED <<Hit0(t), Result(t), call[t]>>
  BY <1>4, Start
<1>7. queue' = Rest
  <2>1. List!ListRemove(queue, List!Back(queue)) = List!SeqX!Front(queue)
    BY <1>3, ListAssumptions, List!RemoveBackIsFront
  <2>2. Cache!ListRemove(queue, Cache!Back(queue)) = Cache!SeqX!Front(queue)
    BY <2>1 DEF Cache!ListRemove, List!ListRemove, Cache!IndexOf, List!IndexOf, Cache!Back, List!Back,
                Cache!SeqX!RemoveAt, List!SeqX!RemoveAt, Cache!SeqX!Front, List!SeqX!Front
  <2> QED
    BY <1>3, <1>4, <1>5, <2>2 DEF Rest, Evicting
<1>8. List!Elems(queue') = Cells
  <2>1. Linked(Cache!Back(queue))
    BY <1>3, ElemsOfQueue DEF OInv
  <2>2. List!Elems(queue') = List!Elems(queue) \ {Cache!Back(queue)}
    BY <1>4, <2>1, ListsStay DEF OInv
  <2> QED
    BY <1>3, <1>5, <2>2 DEF Cells, Evicting, Oldest0
<1> QED
  BY <1>4, <1>5, <1>6, <1>7, <1>8 DEF Doing, Answered

LEMMA PushDoes ==
  ASSUME LInv, AInv, OInv, NEW t \in Threads, UNCHANGED committed, Push(t)
  PROVE  Doing(t)'
<1> USE DEF Inside, KeyedLabels, PutLabels, NodeLabels, Untouched
<1>1. PICK n \in Nodes :
        /\ ~Live(n, t) /\ Goto(t, "push", "index")
        /\ queue' = Cache!PushFront(queue, n) /\ value' = [value EXCEPT ![n] = E(t)]
        /\ node' = [node EXCEPT ![t] = n] /\ UNCHANGED <<entries, dmu, call, local, out>>
  BY DEF Push
<1>2. pc[t] = "push" /\ pc'[t] = "index" /\ node'[t] = n
  BY <1>1, GotoOnly DEF OInv, Frames
<1>3. dmu = t /\ Doing(t)
  BY <1>2, Owner DEF LInv
<1>4. /\ queue = Rest /\ List!Elems(queue) = Cells /\ entries = Keys /\ value = Value0
      /\ ~Hit0(t) /\ out[t] = Result(t)
  BY <1>2, <1>3 DEF Doing, Answered
<1>5. /\ UNCHANGED <<Value0, Rest, Keys, Cells>>
      /\ UNCHANGED <<E(t), Hit0(t), Result(t), call[t]>>
  BY <1>1, Start
<1>6. n \notin Cells /\ List!Elems(queue') = Cells \cup {n}
  BY <1>1, <1>4, ListsStay, ElemsOfQueue DEF Live, Linked, OInv
<1>7. queue' = Cache!PushFront(Rest, n) /\ value' = [Value0 EXCEPT ![n] = E(t)]
  BY <1>1, <1>4
<1>8. UNCHANGED <<entries, out>>
  BY <1>1
<1>9. /\ node'[t] \in Nodes \ Cells' /\ queue' = Cache!PushFront(Rest', node'[t])
      /\ List!Elems(queue') = Cells' \cup {node'[t]}
      /\ entries' = Keys' /\ value' = [Value0' EXCEPT ![node'[t]] = E(t)']
  BY <1>2, <1>4, <1>5, <1>6, <1>7, <1>8
<1>10. ~Hit0(t)' /\ out'[t] = Result(t)'
  BY <1>4, <1>5, <1>8
<1> QED
  BY <1>2, <1>9, <1>10 DEF Doing, Answered

LEMMA IndexDoes ==
  ASSUME LInv, AInv, OInv, NEW t \in Threads, UNCHANGED committed, Index(t)
  PROVE  Doing(t)'
<1> USE DEF Inside, KeyedLabels, PutLabels, NodeLabels, Untouched
<1>1. /\ pc[t] = "index" /\ pc'[t] = "unlock" /\ UNCHANGED <<queue, value, call, node, out>>
      /\ entries' = Cache!Store(entries, Id(t), node[t])
  BY GotoOnly DEF Index, tvars
<1>2. dmu = t /\ Doing(t) /\ call[t].op = "Put"
  BY <1>1, Owner DEF LInv, OInv, Local
<1>3. PICK n : n = node[t]
  OBVIOUS
<1>4. /\ n \in Nodes \ Cells /\ queue = Cache!PushFront(Rest, n)
      /\ List!Elems(queue) = Cells \cup {n}
      /\ entries = Keys /\ value = [Value0 EXCEPT ![n] = E(t)]
      /\ ~Hit0(t) /\ out[t] = Result(t)
  BY <1>1, <1>2, <1>3 DEF Doing, Answered
<1>5. /\ UNCHANGED <<Value0, Rest, Keys, Cells, Evicting, Oldest0>>
      /\ UNCHANGED <<Id(t), E(t), Hit0(t), Result(t), call[t]>>
  BY <1>1, Start
<1> DEFINE new == IF Evicting THEN [Value0 EXCEPT ![Oldest0] = Nil, ![n] = E(t)]
                              ELSE [Value0 EXCEPT ![n] = E(t)]
<1>6. Swept' = new
  <2>1. Swept' = [m \in Nodes |-> IF m \in Cells \cup {n} THEN value[m] ELSE Nil]
    BY <1>1, <1>4 DEF Swept
  <2>2. /\ Value0 = [m \in Nodes |-> Value0[m]]
        /\ \A m \in Nodes : m \notin List!Elems(Queue0) => Value0[m] = Nil
    BY DEF LInv
  <2>3. \A m \in Nodes : value[m] = IF m = n THEN E(t) ELSE Value0[m]
    BY <1>4, <2>2
  <2>4. CASE Evicting
    <3>1. \A m \in Nodes : m \notin Cells => m = Oldest0 \/ Value0[m] = Nil
      BY <2>2, <2>4 DEF Cells
    <3>2. Oldest0 \notin Cells
      BY <2>4 DEF Cells
    <3>3. [Value0 EXCEPT ![Oldest0] = Nil, ![n] = E(t)]
          = [m \in Nodes |-> IF m = n THEN E(t) ELSE IF m = Oldest0 THEN Nil ELSE Value0[m]]
      BY <2>2
    <3>4. [m \in Nodes |-> IF m \in Cells \cup {n} THEN value[m] ELSE Nil]
          = [m \in Nodes |-> IF m = n THEN E(t) ELSE IF m = Oldest0 THEN Nil ELSE Value0[m]]
      BY <2>3, <3>1, <3>2
    <3> QED
      BY <2>1, <2>4, <3>3, <3>4
  <2>5. CASE ~Evicting
    <3>1. \A m \in Nodes : m \notin Cells => Value0[m] = Nil
      BY <2>2, <2>5 DEF Cells
    <3>2. [Value0 EXCEPT ![n] = E(t)] = [m \in Nodes |-> IF m = n THEN E(t) ELSE Value0[m]]
      BY <2>2
    <3>3. [m \in Nodes |-> IF m \in Cells \cup {n} THEN value[m] ELSE Nil]
          = [m \in Nodes |-> IF m = n THEN E(t) ELSE Value0[m]]
      BY <2>3, <3>1
    <3> QED
      BY <2>1, <2>5, <3>2, <3>3
  <2> QED
    BY <2>4, <2>5
<1>7. /\ queue' = Cache!PushFront(Rest, n) /\ entries' = Cache!Store(Keys, Id(t), n)
      /\ Swept' = new
  BY <1>1, <1>3, <1>4, <1>6
<1>8. Effect(t)'
  <2>1. (After(Cache!PushFront(Rest, n), Cache!Store(Keys, Id(t), n), new))'
    BY <1>5, <1>7 DEF After
  <2> QED
    BY <1>2, <1>4, <1>5, <2>1 DEF Effect
<1> QED
  BY <1>1, <1>2, <1>4, <1>5, <1>8 DEF Doing, Answered

LEMMA RemoveDoes ==
  ASSUME LInv, AInv, OInv, NEW t \in Threads, UNCHANGED committed, DeleteKey(t) \/ Unlink(t)
  PROVE  Doing(t)'
<1> USE DEF Inside, KeyedLabels, PutLabels, NodeLabels, Untouched
<1>1. pc[t] \in {"delete", "unlink"} /\ UNCHANGED <<value, call, node, out>>
  BY GotoOnly DEF DeleteKey, Unlink, tvars
<1>2. dmu = t /\ Doing(t) /\ Knows(t) /\ call[t].op = "Remove" /\ out[t] = Result(t)
  BY <1>1, Owner DEF LInv, Doing, Answered
<1>3. /\ UNCHANGED <<Queue0, Entries0, Value0>>
      /\ UNCHANGED <<Id(t), Hit0(t), Node0(t), Result(t), call[t]>>
  BY <1>1, Start
<1>4. CASE DeleteKey(t)
  <2>1. /\ pc[t] = "delete" /\ pc'[t] = "unlink" /\ queue' = queue
        /\ entries' = Cache!Delete(entries, Id(t))
    BY <1>4, GotoOnly DEF DeleteKey
  <2>2. Same /\ Id(t) \in DOMAIN entries /\ entries[Id(t)] = node[t]
    BY <1>2, <2>1 DEF Doing, Knows, Present
  <2>3. /\ Hit0(t) /\ node[t] = Node0(t) /\ queue' = Queue0 /\ value' = Value0
        /\ entries' = Cache!Delete(Entries0, Id(t))
    BY <1>1, <2>1, <2>2 DEF Same, Hit0, Node0
  <2> QED
    BY <1>1, <1>2, <1>3, <2>1, <2>3 DEF Doing, Answered
<1>5. CASE Unlink(t)
  <2>1. /\ pc[t] = "unlink" /\ pc'[t] = "unlock" /\ entries' = entries
        /\ queue' = IF Linked(node[t]) THEN Cache!ListRemove(queue, node[t]) ELSE queue
    BY <1>5, GotoOnly DEF Unlink
  <2>2. PICK n : n = node[t]
    OBVIOUS
  <2>3. /\ Hit0(t) /\ n = Node0(t) /\ queue = Queue0 /\ value = Value0
        /\ entries = Cache!Delete(Entries0, Id(t))
    BY <1>2, <2>1, <2>2 DEF Doing
  <2>4. Linked(n)
    BY <1>2, <2>1, <2>2, ElemsOfQueue DEF Knows, OInv
  <2>5. queue' = Cache!ListRemove(Queue0, n) /\ List!Elems(queue') = List!Elems(Queue0) \ {n}
    BY <2>1, <2>2, <2>3, <2>4, ListsStay DEF OInv
  <2>6. Swept' = [Value0 EXCEPT ![n] = Nil]
    <3>1. Swept' = [m \in Nodes |-> IF m \in List!Elems(Queue0) \ {n} THEN Value0[m] ELSE Nil]
      BY <1>1, <2>3, <2>5 DEF Swept
    <3>2. /\ Value0 = [m \in Nodes |-> Value0[m]]
          /\ \A m \in Nodes : m \notin List!Elems(Queue0) => Value0[m] = Nil
      BY DEF LInv
    <3>3. [Value0 EXCEPT ![n] = Nil] = [m \in Nodes |-> IF m = n THEN Nil ELSE Value0[m]]
      BY <3>2
    <3>4. [m \in Nodes |-> IF m \in List!Elems(Queue0) \ {n} THEN Value0[m] ELSE Nil]
          = [m \in Nodes |-> IF m = n THEN Nil ELSE Value0[m]]
      BY <3>2
    <3> QED
      BY <3>1, <3>3, <3>4
  <2>7. After(Cache!ListRemove(Queue0, Node0(t)), Cache!Delete(Entries0, Id(t)),
              [Value0 EXCEPT ![Node0(t)] = Nil])'
    BY <1>3, <2>1, <2>3, <2>5, <2>6 DEF After
  <2>8. Effect(t)'
    BY <1>2, <1>3, <2>3, <2>7 DEF Effect
  <2> QED
    BY <1>1, <1>2, <1>3, <2>1, <2>8 DEF Doing, Answered
<1> QED
  BY <1>4, <1>5

-----------------------------------------------------------------------------
(* The deferred Unlock takes effect.                                       *)

\* When the last locals are forgotten the cells in use are those of the list.
LEMMA UnlockSweeps ==
  ASSUME LInv, AInv, OInv, NEW t \in Threads, Unlock(t)
  PROVE  /\ pc[t] = "unlock" /\ dmu = t /\ Doing(t) /\ dmu' = Nil
         /\ queue' = queue /\ entries' = entries /\ value' = Swept
         /\ \A u \in Threads : pc'[u] \in Outside => node'[u] = Nil
<1>1. /\ Goto(t, "unlock", "idle") /\ dmu' = Nil /\ UNCHANGED <<queue, entries>>
      /\ node' = [node EXCEPT ![t] = Nil]
      /\ value' = [n \in Nodes |-> IF Live(n, t) THEN value[n] ELSE Nil]
  BY DEF Unlock, Forget
<1>2. /\ pc[t] = "unlock" /\ pc'[t] = "idle"
      /\ \A u \in Threads \ {t} : pc'[u] = pc[u]
  BY <1>1, GotoOnly
<1>3. dmu = t /\ t # Nil /\ Match({}) /\ Doing(t)
  BY <1>2, Owner, NoGap DEF Inside, LInv
<1>4. \A u \in Threads \ {t} : node[u] = Nil
  <2>1. \A u \in Threads \ {t} : pc[u] \in Outside
    BY <1>3 DEF AInv
  <2> QED
    BY <2>1 DEF LInv
<1>5. \A n \in Nodes : Live(n, t) <=> n \in List!Elems(queue)
  <2>1. \A u \in Threads \ {t} : node[u] \notin Nodes
    BY <1>4, ThreadsAssumption
  <2>2. \A id \in DOMAIN entries : entries[id] \in List!Elems(queue)
    BY <1>3 DEF Match
  <2> QED
    BY <2>1, <2>2 DEF Live, List!Elems
<1>6. value' = Swept
  BY <1>1, <1>5 DEF Swept
<1>7. \A u \in Threads : pc'[u] \in Outside => node'[u] = Nil
  BY <1>1, <1>4 DEF OInv, Frames
<1> QED
  BY <1>1, <1>2, <1>3, <1>6, <1>7

LEMMA UnlockDoes ==
  ASSUME LInv, AInv, OInv, NEW t \in Threads, Unlock(t), committed' = Now'
  PROVE  LInv'
<1>1. /\ dmu' = Nil /\ value' = Swept /\ queue' = queue
      /\ \A u \in Threads : pc'[u] \in Outside => node'[u] = Nil
  BY UnlockSweeps
<1>2. Queue0' = queue' /\ Entries0' = entries' /\ Value0' = value'
  BY DEF Now, Queue0, Entries0, Value0
<1>3. Swept \in [Nodes -> Cache!LRUEntry \cup {Nil}]
  BY DEF Swept, OInv, Heap
<1>4. \A n \in Nodes : Swept[n] # Nil => n \in List!Elems(queue)
  BY DEF Swept
<1> QED
  BY <1>1, <1>2, <1>3, <1>4 DEF LInv, Same

\* Releasing the lock is the step of LRUCache that the call promises.
LEMMA UnlockIsCall ==
  ASSUME LInv, AInv, OInv, NEW t \in Threads, Unlock(t), committed' = Now', ret' = out[t]
  PROVE  Atomic!Next
<1>1. pc[t] = "unlock" /\ Doing(t) /\ queue' = queue /\ entries' = entries /\ value' = Swept
  BY UnlockSweeps
<1>2. /\ committed'.queue = queue /\ committed'.entries = entries /\ committed'.value = Swept
  BY <1>1 DEF Now
<1>3. Effect(t) /\ ret' = Result(t)
  BY <1>1 DEF Doing, Answered, Inside
<1>4. call[t].op \in Keyed \cup {"GetFullIDList"}
  BY <1>3 DEF Effect, Keyed
<1>5. /\ call[t].op \in Keyed => Id(t) \in Ids
      /\ call[t].op = "Put" => call[t].payload \in Payloads
  BY <1>1 DEF OInv, Local, Called, Calls, Id
<1>6. PICK id : id = Id(t)
  OBVIOUS
<1>7. Id(t) = id /\ (Hit0(t) <=> id \in DOMAIN committed.entries)
      /\ Node0(t) = committed.entries[id]
  BY <1>6 DEF Hit0, Node0, Entries0
<1> USE DEF Queue0, Entries0, Value0
<1>8. CASE call[t].op = "GetFullIDList"
  <2>1. After(Queue0, Entries0, Value0) /\ ret' = [op |-> "GetFullIDList", ids |-> DOMAIN Entries0]
    BY <1>3, <1>8 DEF Effect, Result
  <2>2. Atomic!GetFullIDList
    BY <1>2, <2>1 DEF Atomic!GetFullIDList, Atomic!cvars, After
  <2> QED
    BY <2>2 DEF Atomic!Next
<1>9. CASE call[t].op = "Has"
  <2>1. After(Queue0, Entries0, Value0) /\ ret' = Answer(t, Hit0(t))
    BY <1>3, <1>9 DEF Effect, Result
  <2>2. ret' = [op |-> "Has", id |-> id, ok |-> id \in DOMAIN committed.entries]
    BY <1>6, <1>9, <2>1 DEF Answer, Hit0
  <2>3. Atomic!Has(id)
    BY <1>2, <2>1, <2>2 DEF Atomic!Has, Atomic!cvars, After
  <2> QED
    BY <1>5, <1>6, <1>9, <2>3 DEF Atomic!Next, Keyed
<1>10. CASE call[t].op \in {"Get", "UpdateAccess"}
  <2>1. \/ Hit0(t) /\ After(Cache!MoveToFront(Queue0, Node0(t)), Entries0, Value0)
        \/ ~Hit0(t) /\ After(Queue0, Entries0, Value0)
    BY <1>3, <1>10 DEF Effect
  <2>2. Atomic!Touch(id)
    BY <1>2, <1>7, <2>1 DEF Atomic!Touch, After, Atomic!MoveToFront, Cache!MoveToFront,
         Atomic!PushFront, Cache!PushFront, Atomic!ListRemove, Cache!ListRemove,
         Atomic!IndexOf, Cache!IndexOf, Atomic!SeqX!RemoveAt, Cache!SeqX!RemoveAt
  <2>3. CASE call[t].op = "Get"
    <3>1. ret' = IF id \in DOMAIN committed.entries
                 THEN [op |-> "Get", id |-> id, ok |-> TRUE,
                       payload |-> committed.value[committed.entries[id]].Payload]
                 ELSE [op |-> "Get", id |-> id, ok |-> FALSE, payload |-> Nil]
      BY <1>3, <1>7, <2>3 DEF Result
    <3>2. Atomic!Get(id)
      BY <2>2, <3>1 DEF Atomic!Get
    <3> QED
      BY <1>5, <1>6, <2>3, <3>2 DEF Atomic!Next, Keyed
  <2>4. CASE call[t].op = "UpdateAccess"
    <3>1. ret' = [op |-> "UpdateAccess", id |-> id]
      BY <1>3, <1>7, <2>4 DEF Result
    <3>2. Atomic!UpdateAccess(id)
      BY <2>2, <3>1 DEF Atomic!UpdateAccess
    <3> QED
      BY <1>5, <1>6, <2>4, <3>2 DEF Atomic!Next, Keyed
  <2> QED
    BY <1>10, <2>3, <2>4
<1>11. CASE call[t].op = "Remove"
  <2>1. ret' = Answer(t, Hit0(t))
    BY <1>3, <1>11 DEF Result
  <2>2. ret' = [op |-> "Remove", id |-> id, ok |-> id \in DOMAIN committed.entries]
    BY <1>6, <1>11, <2>1 DEF Answer, Hit0
  <2>3. ASSUME Hit0(t) PROVE Atomic!Remove(id)
    <3>1. After(Cache!ListRemove(Queue0, Node0(t)), Cache!Delete(Entries0, Id(t)),
                [Value0 EXCEPT ![Node0(t)] = Nil])
      BY <1>3, <1>11, <2>3 DEF Effect
    <3>2. /\ committed'.queue = Atomic!ListRemove(committed.queue, committed.entries[id])
          /\ committed'.entries = Atomic!Delete(committed.entries, id)
          /\ committed'.value = [committed.value EXCEPT ![committed.entries[id]] = Nil]
      BY <1>2, <1>7, <3>1 DEF After, Atomic!ListRemove, Cache!ListRemove,
           Atomic!IndexOf, Cache!IndexOf, Atomic!SeqX!RemoveAt, Cache!SeqX!RemoveAt,
           Atomic!Delete, Cache!Delete
    <3> QED
      BY <1>7, <2>2, <2>3, <3>2 DEF Atomic!Remove
  <2>4. ASSUME ~Hit0(t) PROVE Atomic!Remove(id)
    <3>1. After(Queue0, Entries0, Value0)
      BY <1>3, <1>11, <2>4 DEF Effect
    <3> QED
      BY <1>2, <1>7, <2>2, <2>4, <3>1 DEF Atomic!Remove, Atomic!cvars, After
  <2>5. Atomic!Remove(id)
    BY <2>3, <2>4
  <2> QED
    BY <1>5, <1>6, <1>11, <2>5 DEF Atomic!Next, Keyed
<1>12. CASE call[t].op = "Put"
  <2>1. ret' = [op |-> "Put", id |-> id, ok |-> TRUE]
    BY <1>3, <1>7, <1>12 DEF Result, Answer
  <2>2. PICK payload \in Payloads : E(t) = [Identifier |-> id, Payload |-> payload]
    BY <1>5, <1>7, <1>12 DEF E
  <2>3. ASSUME Hit0(t) PROVE Atomic!PutExisting(id, payload)
    <3>1. After(Cache!MoveToFront(Queue0, Node0(t)), Entries0, [Value0 EXCEPT ![Node0(t)] = E(t)])
      BY <1>3, <1>12, <2>3 DEF Effect
    <3>2. committed'.queue = Atomic!MoveToFront(committed.queue, committed.entries[id])
      BY <1>2, <1>7, <3>1 DEF After, Atomic!MoveToFront, Cache!MoveToFront,
           Atomic!PushFront, Cache!PushFront, Atomic!ListRemove, Cache!ListRemove,
           Atomic!IndexOf, Cache!IndexOf, Atomic!SeqX!RemoveAt, Cache!SeqX!RemoveAt
    <3> QED
      BY <1>2, <1>7, <2>2, <2>3, <3>1, <3>2 DEF After, Atomic!PutExisting
  <2>4. ASSUME ~Hit0(t)
        PROVE  Atomic!PutNew(id, payload) \/ Atomic!PutEvict(id, payload)
    <3>1. PICK n \in Nodes \ Cells :
            After(Cache!PushFront(Rest, n), Cache!Store(Keys, Id(t), n),
                  IF Evicting THEN [Value0 EXCEPT ![Oldest0] = Nil, ![n] = E(t)]
                              ELSE [Value0 EXCEPT ![n] = E(t)])
      BY <1>3, <1>12, <2>4 DEF Effect
    <3>2. n \notin List!Elems(Queue0) => Atomic!Free(n)
      BY DEF LInv, Atomic!Free
    <3>3. ASSUME Evicting PROVE Atomic!PutEvict(id, payload)
      <4>1. Atomic!Full /\ Atomic!Back(committed.queue) = Oldest0
        BY <3>3 DEF Evicting, Atomic!Full, Oldest0, Atomic!Back, Cache!Back
      <4>2. Atomic!Free(n) \/ n = Atomic!Back(committed.queue)
        BY <3>1, <3>2, <3>3, <4>1 DEF Cells
      <4>3. committed'.queue = Atomic!PushFront(Atomic!SeqX!Front(committed.queue), n)
        BY <1>2, <3>1, <3>3 DEF After, Rest, Atomic!PushFront, Cache!PushFront,
             Atomic!SeqX!Front, Cache!SeqX!Front
      <4>4. committed'.entries = Atomic!Store(Atomic!Delete(committed.entries, Atomic!BackId), id, n)
        BY <1>2, <1>7, <3>1, <3>3, <4>1 DEF After, Keys, Atomic!Store, Cache!Store,
             Atomic!Delete, Cache!Delete, Atomic!BackId
      <4>5. committed'.value = [committed.value EXCEPT ![Atomic!Back(committed.queue)] = Nil,
                                  ![n] = [Identifier |-> id, Payload |-> payload]]
        BY <1>2, <2>2, <3>1, <3>3, <4>1 DEF After
      <4> QED
        BY <1>7, <2>4, <4>1, <4>2, <4>3, <4>4, <4>5 DEF Atomic!PutEvict
    <3>4. ASSUME ~Evicting PROVE Atomic!PutNew(id, payload)
      <4>1. ~Atomic!Full /\ Atomic!Free(n)
        BY <3>1, <3>2, <3>4 DEF Evicting, Atomic!Full, Cells
      <4>2. committed'.queue = Atomic!PushFront(committed.queue, n)
        BY <1>2, <3>1, <3>4 DEF After, Rest, Atomic!PushFront, Cache!PushFront
      <4>3. committed'.entries = Atomic!Store(committed.entries, id, n)
        BY <1>2, <1>7, <3>1, <3>4 DEF After, Keys, Atomic!Store, Cache!Store
      <4>4. committed'.value = [committed.value EXCEPT ![n] = [Identifier |-> id, Payload |-> payload]]
        BY <1>2, <2>2, <3>1, <3>4 DEF After
      <4> QED
        BY <1>7, <2>4, <4>1, <4>2, <4>3, <4>4 DEF Atomic!PutNew
    <3> QED
      BY <3>3, <3>4
  <2>5. Atomic!Put(id, payload)
    BY <2>1, <2>3, <2>4 DEF Atomic!Put
  <2> QED
    BY <1>5, <1>6, <1>12, <2>5 DEF Atomic!Next, Keyed
<1> QED
  BY <1>4, <1>8, <1>9, <1>10, <1>11, <1>12 DEF Keyed

-----------------------------------------------------------------------------
\* The statements of a locked call are made by the owner of the lock, who keeps it.
LEMMA InnerIsLocked ==
  ASSUME AInv, OInv, AInv', NEW t \in Threads, Inner(t), ~Return(t), ~SizeUnlocked(t)
  PROVE  /\ dmu = t /\ dmu' = t /\ pc'[t] \in Inside
         /\ ~OldestTest(t) /\ ~OldestBack(t) /\ ~OldestRead(t)
         /\ ~ClearEntries(t) /\ ~ClearQueue(t)
<1>1. pc[t] \in Inside \cup Outside
  BY DEF AInv
<1>2. /\ ~OldestTest(t) /\ ~OldestBack(t) /\ ~OldestRead(t)
      /\ ~ClearEntries(t) /\ ~ClearQueue(t)
  BY <1>1 DEF Inside, Outside, KeyedLabels, PutLabels, NodeLabels,
              OldestTest, OldestBack, OldestRead, ClearEntries, ClearQueue, Panic, Goto, At
<1>3. /\ Lookup(t) \/ Read(t) \/ Move(t) \/ Overwrite(t) \/ CheckCapacity(t) \/ Victim(t)
         \/ DeleteVictim(t) \/ RemoveBack(t) \/ Push(t) \/ Index(t) \/ DeleteKey(t) \/ Unlink(t)
         \/ MakeIds(t) \/ FillIds(t)
  BY <1>2 DEF Inner
<1>4. pc[t] \in Inside
  BY <1>3 DEF Lookup, Read, Move, Overwrite, CheckCapacity, Victim, DeleteVictim, RemoveBack, Push,
              Index, DeleteKey, Unlink, MakeIds, FillIds, Panic, Goto, At,
              Inside, KeyedLabels, PutLabels, NodeLabels
<1>5. dmu = t /\ t # Nil /\ Knows(t)
  BY <1>4, Owner
<1>6. pc[t] \in {"victim", "removeBack"} => queue # <<>>
  BY <1>5, ThreadsAssumption DEF Knows
<1>7. dmu' = dmu
  <2>1. CASE Victim(t) \/ RemoveBack(t)
    <3>1. queue # <<>>
      BY <1>6, <2>1 DEF Victim, RemoveBack, Panic, Goto, At
    <3> QED
      BY <2>1, <3>1 DEF Victim, RemoveBack
  <2>2. CASE ~(Victim(t) \/ RemoveBack(t))
    BY <1>3, <2>2 DEF Lookup, Read, Move, Overwrite, CheckCapacity, DeleteVictim, Push, Index,
                      DeleteKey, Unlink, MakeIds, FillIds
  <2> QED
    BY <2>1, <2>2
<1>8. pc'[t] \in Inside
  BY <1>5, <1>7 DEF AInv
<1> QED
  BY <1>2, <1>5, <1>7, <1>8

\* A step of LRULinear.
LEMMA NextLInv ==
  LockedOnly /\ LInv /\ AInv /\ OInv /\ AInv' /\ [LinearNext]_<<vars, hvars>>
    => LInv' /\ [Atomic!Next]_(Atomic!vars)
<1> SUFFICES ASSUME LockedOnly, LInv, AInv, OInv, AInv', [LinearNext]_<<vars, hvars>>
             PROVE  LInv' /\ [Atomic!Next]_(Atomic!vars)
  OBVIOUS
<1>1. ASSUME UNCHANGED hvars PROVE UNCHANGED Atomic!vars
  BY <1>1 DEF hvars, Atomic!vars
<1>2. ASSUME NEW t \in Threads, Begin(t) \/ Lock(t) \/ Inner(t), UNCHANGED hvars
      PROVE  LInv'
  <2>1. UNCHANGED committed
    BY <1>2 DEF hvars
  <2>2. CASE Begin(t) \/ SizeUnlocked(t) \/ Return(t)
    BY <2>1, <2>2, BeginDoes
  <2>3. CASE Lock(t)
    BY <2>1, <2>3, LockDoes
  <2>4. ASSUME Inner(t), ~Return(t), ~SizeUnlocked(t) PROVE LInv'
    <3>1. Doing(t)'
      <4>1. CASE Lookup(t)
        BY <2>1, <4>1, LookupDoes
      <4>2. CASE Read(t) \/ CheckCapacity(t) \/ Victim(t) \/ MakeIds(t) \/ FillIds(t)
        BY <2>1, <4>2, CalmDoes
      <4>3. CASE Move(t) \/ Overwrite(t)
        BY <2>1, <4>3, UseDoes
      <4>4. CASE DeleteVictim(t)
        BY <2>1, <4>4, DeleteVictimDoes
      <4>5. CASE RemoveBack(t)
        BY <2>1, <4>5, RemoveBackDoes
      <4>6. CASE Push(t)
        BY <2>1, <4>6, PushDoes
      <4>7. CASE Index(t)
        BY <2>1, <4>7, IndexDoes
      <4>8. CASE DeleteKey(t) \/ Unlink(t)
        BY <2>1, <4>8, RemoveDoes
      <4> QED
        BY <2>4, <4>1, <4>2, <4>3, <4>4, <4>5, <4>6, <4>7, <4>8, InnerIsLocked DEF Inner
    <3>2. dmu = t /\ dmu' = t /\ pc'[t] \in Inside
      BY <2>4, InnerIsLocked
    <3> QED
      BY <2>1, <2>4, <3>1, <3>2, OwnerDoes
  <2> QED
    BY <1>2, <2>2, <2>3, <2>4
<1>3. ASSUME NEW t \in Threads, Unlock(t), committed' = Now', ret' = out[t]
      PROVE  LInv' /\ Atomic!Next
  BY <1>3, UnlockDoes, UnlockIsCall
<1>4. CASE UNCHANGED <<vars, hvars>>
  <2>1. LInv'
    <3>1. UNCHANGED <<queue, entries, value, dmu, pc, call, node, local, out, committed>>
      BY <1>4 DEF vars, hvars, svars, tvars
    <3>2. Doing(dmu) => Doing(dmu)'
      <4> SUFFICES ASSUME NEW u, u = dmu, Doing(u) PROVE Doing(u)'
        BY <3>1
      <4> QED
        BY <3>1, DoneStays
    <3>3. UNCHANGED <<Queue0, Entries0, Value0>>
      BY <3>1 DEF Queue0, Entries0, Value0
    <3> QED
      BY <3>1, <3>2, <3>3 DEF LInv, Same
  <2> QED
    BY <1>1, <1>4, <2>1
<1>5. CASE LinearNext
  BY <1>1, <1>2, <1>3, <1>5 DEF LinearNext
<1> QED
  BY <1>4, <1>5

\* Put, Get, Remove, Has, UpdateAccess and GetFullIDList are atomic for any number of
\* goroutines that call them, with Size beside them: each takes effect as one step of LRUCache,
\* with its result, when it releases the lock, however the statements interleave.
THEOREM LockedCallsAreAtomic ==
  ASSUME LockedOnly PROVE LinearSpec => ImplementsAtomic
<1>1. LinearSpec => SafeSpec
  <2>1. LinearInit => Init
    BY DEF LinearInit
  <2>2. [LinearNext]_<<vars, hvars>> => [Next]_vars
    BY DEF LinearNext, Next, Statement
  <2> QED
    BY <2>1, <2>2, PTL DEF LinearSpec, SafeSpec
<1>2. LInv /\ AInv /\ OInv /\ AInv' /\ [LinearNext]_<<vars, hvars>>
        => LInv' /\ [Atomic!Next]_(Atomic!vars)
  BY NextLInv
<1>3. SafeSpec => []AInv
  BY OneInside
<1>4. LinearInit => Atomic!Init
  BY DEF LinearInit, Init, Now, Atomic!Init
<1> QED
  BY <1>1, <1>2, <1>3, <1>4, InitLInv, CellsKeptApart, PTL DEF LinearSpec, ImplementsAtomic, Atomic!Spec

-----------------------------------------------------------------------------
(* Fourth part, what the callers are promised.  LRUCacheProofs, read over  *)
(* the cache as it was at the last release, says that LRUCache keeps the   *)
(* promise; what is to be shown is that its copy of LRUCache is Atomic,    *)
(* definition by definition.                                               *)

Kept == INSTANCE LRUCacheProofs WITH queue <- committed.queue,
                                     entries <- committed.entries,
                                     value <- committed.value

LEMMA SameCache == (Atomic!Init <=> Kept!Init) /\ Atomic!vars = Kept!vars
BY DEF Atomic!Init, Kept!Init, Atomic!vars, Kept!vars

LEMMA SameCardinality ==
  /\ \A S : Kept!Cardinality(S) = Atomic!Cardinality(S)
  /\ \A S : Kept!Promise!Cardinality(S) = Atomic!Promise!Cardinality(S)
BY DEF Kept!Cardinality, Atomic!Cardinality, Kept!Promise!Cardinality, Atomic!Promise!Cardinality

LEMMA SameCalls == Atomic!Next <=> Kept!Next
<1> USE DEF Atomic!ListRemove, Kept!ListRemove, Atomic!IndexOf, Kept!IndexOf,
            Atomic!SeqX!RemoveAt, Kept!SeqX!RemoveAt, Atomic!PushFront, Kept!PushFront,
            Atomic!MoveToFront, Kept!MoveToFront, Atomic!Back, Kept!Back, Atomic!Delete,
            Kept!Delete, Atomic!Store, Kept!Store, Atomic!Free, Kept!Free, Atomic!Full,
            Kept!Full, Atomic!BackId, Kept!BackId, Atomic!SeqX!Front, Kept!SeqX!Front,
            Atomic!cvars, Kept!cvars
<1>1. \A id, payload : Atomic!PutExisting(id, payload) <=> Kept!PutExisting(id, payload)
  BY DEF Atomic!PutExisting, Kept!PutExisting
<1>2. \A id, payload : Atomic!PutNew(id, payload) <=> Kept!PutNew(id, payload)
  BY DEF Atomic!PutNew, Kept!PutNew
<1>3. \A id, payload : Atomic!PutEvict(id, payload) <=> Kept!PutEvict(id, payload)
  BY DEF Atomic!PutEvict, Kept!PutEvict
<1>4. \A id, payload : Atomic!Put(id, payload) <=> Kept!Put(id, payload)
  BY <1>1, <1>2, <1>3 DEF Atomic!Put, Kept!Put
<1>5. \A id : Atomic!Get(id) <=> Kept!Get(id)
  BY DEF Atomic!Get, Kept!Get, Atomic!Touch, Kept!Touch
<1>6. \A id : Atomic!UpdateAccess(id) <=> Kept!UpdateAccess(id)
  BY DEF Atomic!UpdateAccess, Kept!UpdateAccess, Atomic!Touch, Kept!Touch
<1>7. \A id : Atomic!Remove(id) <=> Kept!Remove(id)
  BY DEF Atomic!Remove, Kept!Remove
<1>8. \A id : Atomic!Has(id) <=> Kept!Has(id)
  BY DEF Atomic!Has, Kept!Has
<1>9. /\ Atomic!GetFullIDList <=> Kept!GetFullIDList
      /\ Atomic!GetOldest <=> Kept!GetOldest
      /\ Atomic!Clear <=> Kept!Clear
  BY DEF Atomic!GetFullIDList, Kept!GetFullIDList, Atomic!GetOldest, Kept!GetOldest,
         Atomic!Clear, Kept!Clear
<1>10. Atomic!Size <=> Kept!Size
  BY SameCardinality DEF Atomic!Size, Kept!Size
<1> QED
  BY <1>4, <1>5, <1>6, <1>7, <1>8, <1>9, <1>10 DEF Atomic!Next, Kept!Next

LEMMA SameBars == Atomic!CachedBar = Kept!CachedBar /\ Atomic!OlderBar = Kept!OlderBar
BY DEF Atomic!CachedBar, Kept!CachedBar, Atomic!OlderBar, Kept!OlderBar

LEMMA SamePromise ==
  /\ Atomic!Promise!Init <=> Kept!Promise!Init
  /\ [Kept!Promise!Next]_(Kept!Promise!pvars) => [Atomic!Promise!Next]_(Atomic!Promise!pvars)
<1> USE SameBars
<1>1. Atomic!Promise!Init <=> Kept!Promise!Init
  BY DEF Atomic!Promise!Init, Kept!Promise!Init, Atomic!Promise!InitCache,
         Kept!Promise!InitCache
<1> USE DEF Atomic!CachedBar, Kept!CachedBar, Atomic!OlderBar, Kept!OlderBar
<1>2. /\ \A id, kept : Atomic!Promise!Touched(id, kept) = Kept!Promise!Touched(id, kept)
      /\ \A id : Atomic!Promise!Victims(id) = Kept!Promise!Victims(id)
  BY SameCardinality DEF Atomic!Promise!Touched, Kept!Promise!Touched, Atomic!Promise!Victims,
         Kept!Promise!Victims
<1>3. \A id, payload : Atomic!Promise!Put(id, payload) <=> Kept!Promise!Put(id, payload)
  BY <1>2 DEF Atomic!Promise!Put, Kept!Promise!Put, Atomic!Promise!Store, Kept!Promise!Store
<1>4. \A id : Atomic!Promise!Get(id) <=> Kept!Promise!Get(id)
  BY <1>2 DEF Atomic!Promise!Get, Kept!Promise!Get, Atomic!Promise!Use, Kept!Promise!Use
<1>5. \A id : Atomic!Promise!UpdateAccess(id) <=> Kept!Promise!UpdateAccess(id)
  BY <1>2 DEF Atomic!Promise!UpdateAccess, Kept!Promise!UpdateAccess, Atomic!Promise!Use,
         Kept!Promise!Use
<1>6. \A id : Atomic!Promise!Remove(id) <=> Kept!Promise!Remove(id)
  BY DEF Atomic!Promise!Remove, Kept!Promise!Remove
<1>7. Atomic!Promise!Clear <=> Kept!Promise!Clear
  BY DEF Atomic!Promise!Clear, Kept!Promise!Clear, Atomic!Promise!Wipe, Kept!Promise!Wipe
<1>8. Atomic!Promise!Query <=> Kept!Promise!Query
  BY SameCardinality DEF Atomic!Promise!Query, Kept!Promise!Query
<1>9. Atomic!Promise!Next <=> Kept!Promise!Next
  BY <1>3, <1>4, <1>5, <1>6, <1>7, <1>8 DEF Atomic!Promise!Next, Kept!Promise!Next
<1>10. UNCHANGED Atomic!Promise!pvars <=> UNCHANGED Kept!Promise!pvars
  BY DEF Atomic!Promise!pvars, Kept!Promise!pvars
<1> QED
  BY <1>1, <1>9, <1>10

\* From the statements of the goroutines to the promise of the package: for any number
\* of goroutines, identifiers and payloads and any positive capacity, the locked calls add
\* up, in the order in which they release the lock, to calls of a bounded map that forgets
\* what was used least recently.
THEOREM GoroutinesKeepPromise ==
  ASSUME LockedOnly PROVE LinearSpec => KeepsPromise
<1>1. LinearSpec => Atomic!Spec
  BY LockedCallsAreAtomic DEF ImplementsAtomic
<1>2. Atomic!Spec => Kept!Spec
  <2>1. [Atomic!Next]_(Atomic!vars) => [Kept!Next]_(Kept!vars)
    BY SameCache, SameCalls DEF Atomic!vars, Kept!vars
  <2> QED
    BY <2>1, SameCache, PTL DEF Atomic!Spec, Kept!Spec
<1>3. Kept!Spec => Kept!ImplementsPromise
  BY ListAssumptions, Kept!PromiseKept
<1>4. Kept!ImplementsPromise => Atomic!ImplementsPromise
  BY SamePromise, PTL
     DEF Kept!ImplementsPromise, Atomic!ImplementsPromise, Kept!Promise!Spec, Atomic!Promise!Spec
<1> QED
  BY <1>1, <1>2, <1>3, <1>4 DEF KeepsPromise
=============================================================================
