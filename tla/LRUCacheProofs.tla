--------------------------- MODULE LRUCacheProofs ---------------------------
(***************************************************************************)
(* Proofs about LRUCache, for every set of identifiers, payloads and cells *)
(* and every positive capacity.                                            *)
(*                                                                         *)
(* The argument: the list operations only add or remove one element and    *)
(* never link an element twice (the lemmas), so after every call the map   *)
(* and the list still describe the same entries (IInv); then the map is a  *)
(* bijection from the identifiers it has to the positions of the list, and *)
(* Size, which counts the map, is bounded by the test that counts the list.*)
(***************************************************************************)
EXTENDS LRUCache, FiniteSetTheorems, FunctionTheorems, SequenceTheorems, TLAPS

\* The elements a list links, and the lists that link none twice.
Elems(q) == {q[i] : i \in DOMAIN q}
Distinct(q) == \A i, j \in DOMAIN q : q[i] = q[j] => i = j

-----------------------------------------------------------------------------
(* The list operations.                                                    *)

\* Removing the k-th element shifts those behind it by one.
LEMMA RemoveAtProperties ==
  ASSUME NEW S, NEW q \in Seq(S), NEW k \in DOMAIN q
  PROVE  /\ SeqX!RemoveAt(q, k) \in Seq(S)
         /\ Len(SeqX!RemoveAt(q, k)) = Len(q) - 1
         /\ \A i \in 1 .. Len(q) - 1 :
              SeqX!RemoveAt(q, k)[i] = IF i < k THEN q[i] ELSE q[i + 1]
<1> DEFINE front == SubSeq(q, 1, k - 1)
           rest == SubSeq(q, k + 1, Len(q))
<1>1. k \in 1 .. Len(q) /\ Len(q) \in Nat /\ \A i \in 1 .. Len(q) : q[i] \in S
  BY ElementOfSeq, LenProperties
<1>2. /\ front \in Seq(S)
      /\ Len(front) = k - 1
      /\ \A i \in 1 .. k - 1 : front[i] = q[i]
  <2>1. \A i \in 1 .. k - 1 : q[i] \in S
    BY <1>1
  <2>2. 1 \in Int /\ k - 1 \in Int
    BY <1>1
  <2>3. /\ front \in Seq(S)
        /\ Len(front) = IF 1 <= k - 1 THEN (k - 1) - 1 + 1 ELSE 0
        /\ \A i \in 1 .. (k - 1) - 1 + 1 : front[i] = q[1 + i - 1]
    BY <2>1, <2>2, SubSeqProperties
  <2> QED
    BY <1>1, <2>3
<1>3. /\ rest \in Seq(S)
      /\ Len(rest) = Len(q) - k
      /\ \A i \in 1 .. Len(q) - k : rest[i] = q[k + i]
  <2>1. \A i \in k + 1 .. Len(q) : q[i] \in S
    BY <1>1
  <2>2. k + 1 \in Int /\ Len(q) \in Int
    BY <1>1
  <2>3. /\ rest \in Seq(S)
        /\ Len(rest) = IF k + 1 <= Len(q) THEN Len(q) - (k + 1) + 1 ELSE 0
        /\ \A i \in 1 .. Len(q) - (k + 1) + 1 : rest[i] = q[(k + 1) + i - 1]
    BY <2>1, <2>2, SubSeqProperties
  <2> QED
    BY <1>1, <2>3
<1>4. /\ front \o rest \in Seq(S)
      /\ Len(front \o rest) = Len(front) + Len(rest)
      /\ \A i \in 1 .. Len(front) + Len(rest) :
           (front \o rest)[i] = IF i <= Len(front) THEN front[i] ELSE rest[i - Len(front)]
  BY <1>2, <1>3, ConcatProperties
<1>5. SeqX!RemoveAt(q, k) = front \o rest
  BY DEF SeqX!RemoveAt
<1> HIDE DEF front, rest
<1>6. Len(front \o rest) = Len(q) - 1
  BY <1>1, <1>2, <1>3, <1>4
<1>7. ASSUME NEW i \in 1 .. Len(q) - 1
      PROVE  (front \o rest)[i] = IF i < k THEN q[i] ELSE q[i + 1]
  <2> DEFINE both == front \o rest
  <2>0. Len(front) = k - 1 /\ i \in 1 .. Len(front) + Len(rest)
    BY <1>1, <1>2, <1>3
  <2>1. both[i] = IF i <= Len(front) THEN front[i] ELSE rest[i - Len(front)]
    <3> HIDE DEF both
    <3>1. \A j \in 1 .. Len(front) + Len(rest) :
            both[j] = IF j <= Len(front) THEN front[j] ELSE rest[j - Len(front)]
      BY <1>4 DEF both
    <3> QED
      BY <2>0, <3>1
  <2>2. CASE i < k
    <3>1. i <= k - 1 /\ i \in 1 .. k - 1
      BY <2>2, <1>1
    <3>2. both[i] = front[i]
      BY <2>0, <2>1, <3>1
    <3> QED
      BY <2>2, <3>1, <3>2, <1>2
  <2>3. CASE ~(i < k)
    <3>1. i - (k - 1) \in 1 .. Len(q) - k /\ k + (i - (k - 1)) = i + 1
      BY <2>3, <1>1
    <3>2. ~(i <= k - 1)
      BY <2>3, <1>1
    <3>3. both[i] = rest[i - (k - 1)]
      BY <2>0, <2>1, <3>2
    <3>4. rest[i - (k - 1)] = q[i + 1]
      BY <3>1, <1>3
    <3> QED
      BY <2>3, <3>3, <3>4
  <2> QED
    BY <2>2, <2>3
<1> QED
  BY <1>4, <1>5, <1>6, <1>7

\* Removing an element of a list that links none twice takes away that element
\* and no other.
LEMMA ListRemoveProperties ==
  ASSUME NEW S, NEW q \in Seq(S), Distinct(q), NEW n \in Elems(q)
  PROVE  /\ ListRemove(q, n) \in Seq(S)
         /\ Len(ListRemove(q, n)) = Len(q) - 1
         /\ Distinct(ListRemove(q, n))
         /\ Elems(ListRemove(q, n)) = Elems(q) \ {n}
<1> DEFINE k == IndexOf(q, n)
           r == ListRemove(q, n)
<1>1. DOMAIN q = 1 .. Len(q) /\ Len(q) \in Nat
  BY LenProperties
<1>2. k \in DOMAIN q /\ q[k] = n
  <2>1. \E i \in DOMAIN q : q[i] = n
    BY DEF Elems
  <2> QED
    BY <2>1 DEF IndexOf
<1>3. /\ r \in Seq(S)
      /\ Len(r) = Len(q) - 1
      /\ \A i \in 1 .. Len(q) - 1 : r[i] = IF i < k THEN q[i] ELSE q[i + 1]
  BY <1>2, RemoveAtProperties DEF ListRemove
<1> HIDE DEF k, r
<1>4. DOMAIN r = 1 .. Len(q) - 1
  BY <1>3, LenProperties
<1> DEFINE from(i) == IF i < k THEN i ELSE i + 1
<1>5. \A i \in DOMAIN r : from(i) \in DOMAIN q \ {k} /\ r[i] = q[from(i)]
  BY <1>1, <1>2, <1>3, <1>4
<1>6. \A j \in DOMAIN q \ {k} : \E i \in DOMAIN r : from(i) = j
  <2> SUFFICES ASSUME NEW j \in DOMAIN q \ {k}
               PROVE  \E i \in DOMAIN r : from(i) = j
    OBVIOUS
  <2>1. CASE j < k
    BY <2>1, <1>1, <1>2, <1>4
  <2>2. CASE j > k
    <3>1. j - 1 \in DOMAIN r /\ from(j - 1) = j
      BY <2>2, <1>1, <1>2, <1>4
    <3> QED
      BY <3>1
  <2> QED
    BY <2>1, <2>2, <1>1, <1>2
<1>7. \A i, j \in DOMAIN r : from(i) = from(j) => i = j
  BY <1>1, <1>2, <1>4
<1>8. \A j \in DOMAIN q \ {k} : q[j] # n
  BY <1>2 DEF Distinct
<1> HIDE DEF from
<1>9. Distinct(r)
  BY <1>5, <1>7 DEF Distinct
<1>10. Elems(r) = Elems(q) \ {n}
  BY <1>2, <1>5, <1>6, <1>8 DEF Elems
<1> QED
  BY <1>3, <1>9, <1>10 DEF r

\* An element that is not linked can be pushed.
LEMMA PushFrontProperties ==
  ASSUME NEW S, NEW q \in Seq(S), Distinct(q), NEW n \in S, n \notin Elems(q)
  PROVE  /\ PushFront(q, n) \in Seq(S)
         /\ Len(PushFront(q, n)) = Len(q) + 1
         /\ Distinct(PushFront(q, n))
         /\ Elems(PushFront(q, n)) = Elems(q) \cup {n}
<1> DEFINE p == PushFront(q, n)
<1>1. DOMAIN q = 1 .. Len(q) /\ Len(q) \in Nat
  BY LenProperties
<1>2. <<n>> \in Seq(S) /\ Len(<<n>>) = 1 /\ <<n>>[1] = n
  OBVIOUS
<1>3. /\ p \in Seq(S)
      /\ Len(p) = 1 + Len(q)
      /\ \A i \in 1 .. 1 + Len(q) : p[i] = IF i <= 1 THEN <<n>>[i] ELSE q[i - 1]
  BY <1>2, ConcatProperties DEF PushFront
<1> HIDE DEF p
<1>4. DOMAIN p = 1 .. 1 + Len(q)
  BY <1>3, LenProperties
<1>5. p[1] = n /\ 1 \in DOMAIN p
  BY <1>1, <1>2, <1>3, <1>4
<1>6. \A i \in DOMAIN p \ {1} : i - 1 \in DOMAIN q /\ p[i] = q[i - 1]
  BY <1>1, <1>3, <1>4
<1>7. \A j \in DOMAIN q : j + 1 \in DOMAIN p /\ p[j + 1] = q[j]
  BY <1>1, <1>3, <1>4
<1>8. Distinct(p)
  BY <1>1, <1>4, <1>5, <1>6 DEF Distinct, Elems
<1>9. Elems(p) = Elems(q) \cup {n}
  BY <1>5, <1>6, <1>7 DEF Elems
<1> QED
  BY <1>1, <1>3, <1>8, <1>9 DEF p

\* Moving an element to the front changes the order only.
LEMMA MoveToFrontProperties ==
  ASSUME NEW S, NEW q \in Seq(S), Distinct(q), NEW n \in Elems(q)
  PROVE  /\ MoveToFront(q, n) \in Seq(S)
         /\ Len(MoveToFront(q, n)) = Len(q)
         /\ Distinct(MoveToFront(q, n))
         /\ Elems(MoveToFront(q, n)) = Elems(q)
<1> DEFINE r == ListRemove(q, n)
<1>1. n \in S
  BY ElementOfSeq, LenProperties DEF Elems
<1>2. Len(q) \in Nat
  BY LenProperties
<1>3. /\ r \in Seq(S)
      /\ Len(r) = Len(q) - 1
      /\ Distinct(r)
      /\ Elems(r) = Elems(q) \ {n}
  BY ListRemoveProperties
<1> HIDE DEF r
<1>4. /\ PushFront(r, n) \in Seq(S)
      /\ Len(PushFront(r, n)) = Len(r) + 1
      /\ Distinct(PushFront(r, n))
      /\ Elems(PushFront(r, n)) = Elems(r) \cup {n}
  BY <1>1, <1>3, PushFrontProperties
<1>5. Elems(r) \cup {n} = Elems(q)
  BY <1>3
<1>6. Len(r) + 1 = Len(q)
  BY <1>2, <1>3
<1> QED
  BY <1>4, <1>5, <1>6 DEF MoveToFront, r

LEMMA FrontIsPrefix ==
  ASSUME NEW S, NEW q \in Seq(S), q # <<>>
  PROVE  /\ SeqX!Front(q) \in Seq(S)
         /\ Len(SeqX!Front(q)) = Len(q) - 1
         /\ \A i \in 1 .. Len(q) - 1 : SeqX!Front(q)[i] = q[i]
<1> DEFINE m == Len(q) - 1
<1>1. Len(q) \in Nat \ {0} /\ \A i \in 1 .. m : q[i] \in S
  BY LenProperties, ElementOfSeq, EmptySeq
<1>2. 1 \in Int /\ m \in Int /\ m >= 0
  BY <1>1
<1> HIDE DEF m
<1>3. /\ SubSeq(q, 1, m) \in Seq(S)
      /\ Len(SubSeq(q, 1, m)) = IF 1 <= m THEN m - 1 + 1 ELSE 0
      /\ \A i \in 1 .. m - 1 + 1 : SubSeq(q, 1, m)[i] = q[1 + i - 1]
  BY <1>1, <1>2, SubSeqProperties
<1>4. /\ Len(SubSeq(q, 1, m)) = m
      /\ \A i \in 1 .. m : SubSeq(q, 1, m)[i] = q[i]
  BY <1>2, <1>3
<1> QED
  BY <1>3, <1>4 DEF m, SeqX!Front

\* Dropping the back.
LEMMA FrontProperties ==
  ASSUME NEW S, NEW q \in Seq(S), Distinct(q), q # <<>>
  PROVE  /\ Back(q) \in Elems(q)
         /\ SeqX!Front(q) \in Seq(S)
         /\ Len(SeqX!Front(q)) = Len(q) - 1
         /\ Distinct(SeqX!Front(q))
         /\ Elems(SeqX!Front(q)) = Elems(q) \ {Back(q)}
<1> DEFINE f == SeqX!Front(q)
<1>1. DOMAIN q = 1 .. Len(q) /\ Len(q) \in Nat \ {0} /\ \A i \in 1 .. Len(q) : q[i] \in S
  BY LenProperties, ElementOfSeq, EmptySeq
<1>2. /\ f \in Seq(S)
      /\ Len(f) = Len(q) - 1
      /\ \A i \in 1 .. Len(q) - 1 : f[i] = q[i]
  BY FrontIsPrefix
<1> HIDE DEF f
<1>3. DOMAIN f = 1 .. Len(q) - 1
  BY <1>2, LenProperties
<1>4. \A i \in DOMAIN f : i \in DOMAIN q /\ f[i] = q[i]
  BY <1>1, <1>2, <1>3
<1>5. Len(q) \in DOMAIN q /\ DOMAIN f = DOMAIN q \ {Len(q)}
  BY <1>1, <1>3
<1>6. Back(q) \in Elems(q)
  BY <1>5 DEF Back, Elems
<1>7. Distinct(f)
  BY <1>4 DEF Distinct
<1>8. Elems(f) = Elems(q) \ {Back(q)}
  <2>1. \A i \in DOMAIN q : i \in DOMAIN f <=> q[i] # q[Len(q)]
    BY <1>5 DEF Distinct
  <2> QED
    BY <1>4, <2>1 DEF Elems, Back
<1> QED
  BY <1>2, <1>6, <1>7, <1>8 DEF f

-----------------------------------------------------------------------------
(* The inductive invariant.                                                *)

IInv == TypeOK /\ IndexMatchesQueue /\ WithinCapacity

\* TypeOK and IndexMatchesQueue of a list q, a map m and cells v, without the
\* positions of the list: the form in which the steps preserve them.
Consistent(q, m, v) ==
  /\ q \in Seq(Nodes) /\ Distinct(q)
  /\ DOMAIN m \subseteq Ids /\ m \in [DOMAIN m -> Nodes]
  /\ v \in [Nodes -> LRUEntry \cup {Nil}]
  /\ \A n \in Nodes : v[n] # Nil <=> n \in Elems(q)
  /\ \A id \in DOMAIN m : m[id] \in Elems(q) /\ v[m[id]].Identifier = id
  /\ \A n \in Elems(q) : v[n].Identifier \in DOMAIN m /\ m[v[n].Identifier] = n

Good == Consistent(queue, entries, value) /\ WithinCapacity

LEMMA GoodIsIInv == Good <=> IInv
<1>1. Distinct(queue) <=> QueueDistinct
  BY DEF Distinct, QueueDistinct
<1>2. \A n : n \in Elems(queue) <=> \E i \in DOMAIN queue : queue[i] = n
  BY DEF Elems
<1>3. (\A n \in Nodes : value[n] # Nil <=> n \in Elems(queue)) <=> LiveIsLinked
  BY <1>2 DEF LiveIsLinked, Free
<1>4. (\A id \in DOMAIN entries :
         entries[id] \in Elems(queue) /\ value[entries[id]].Identifier = id)
      <=> IndexSound
  BY <1>2 DEF IndexSound
<1>5. (\A n \in Elems(queue) :
         /\ value[n].Identifier \in DOMAIN entries
         /\ entries[value[n].Identifier] = n)
      <=> IndexComplete
  BY <1>2 DEF IndexComplete
<1> QED
  BY <1>1, <1>3, <1>4, <1>5 DEF Good, Consistent, IInv, TypeOK, IndexMatchesQueue

\* The cells of a list are cells, and its length is a number.
LEMMA ConsistentFacts ==
  ASSUME NEW q, NEW m, NEW v, Consistent(q, m, v)
  PROVE  /\ q \in Seq(Nodes) /\ Distinct(q) /\ Len(q) \in Nat
         /\ Elems(q) \subseteq Nodes
<1>1. q \in Seq(Nodes) /\ Distinct(q)
  BY DEF Consistent
<1>2. Len(q) \in Nat /\ DOMAIN q = 1 .. Len(q)
  BY <1>1, LenProperties
<1>3. Elems(q) \subseteq Nodes
  BY <1>1, <1>2, ElementOfSeq DEF Elems
<1> QED
  BY <1>1, <1>2, <1>3

\* Another order of the same elements.
LEMMA ReorderConsistent ==
  ASSUME NEW q, NEW m, NEW v, Consistent(q, m, v),
         NEW r \in Seq(Nodes), Distinct(r), Elems(r) = Elems(q)
  PROVE  Consistent(r, m, v)
BY DEF Consistent

\* A linked cell, its key and its value are dropped together.
LEMMA DropConsistent ==
  ASSUME NEW q, NEW m, NEW v, Consistent(q, m, v), NEW n \in Elems(q),
         NEW r \in Seq(Nodes), Distinct(r), Elems(r) = Elems(q) \ {n}
  PROVE  Consistent(r, Delete(m, v[n].Identifier), [v EXCEPT ![n] = Nil])
<1> DEFINE d == Delete(m, v[n].Identifier)
           w == [v EXCEPT ![n] = Nil]
<1>1. n \in Nodes /\ Elems(r) \subseteq Nodes
  BY ConsistentFacts
<1>2. /\ DOMAIN d = DOMAIN m \ {v[n].Identifier}
      /\ \A i \in DOMAIN d : d[i] = m[i]
  BY DEF Delete
<1>3. DOMAIN d \subseteq Ids /\ d \in [DOMAIN d -> Nodes]
  BY <1>2 DEF Consistent, Delete
<1>4. /\ w \in [Nodes -> LRUEntry \cup {Nil}]
      /\ \A c \in Nodes : w[c] = IF c = n THEN Nil ELSE v[c]
  BY DEF Consistent
<1>5. \A i \in DOMAIN d : d[i] # n
  BY <1>2 DEF Consistent
<1>6. \A c \in Elems(r) : v[c].Identifier # v[n].Identifier
  BY DEF Consistent
<1>7. \A c \in Nodes : w[c] # Nil <=> c \in Elems(r)
  BY <1>4 DEF Consistent
<1>8. \A i \in DOMAIN d : d[i] \in Elems(r) /\ w[d[i]].Identifier = i
  BY <1>1, <1>2, <1>4, <1>5 DEF Consistent
<1>9. \A c \in Elems(r) : w[c].Identifier \in DOMAIN d /\ d[w[c].Identifier] = c
  BY <1>1, <1>2, <1>4, <1>6 DEF Consistent
<1> QED
  BY <1>3, <1>4, <1>7, <1>8, <1>9 DEF Consistent

\* A cell that is not linked enters the list and the map together.
LEMMA InsertConsistent ==
  ASSUME NEW q, NEW m, NEW v, Consistent(q, m, v),
         NEW n \in Nodes, n \notin Elems(q),
         NEW id \in Ids, id \notin DOMAIN m, NEW payload \in Payloads
  PROVE  Consistent(PushFront(q, n), Store(m, id, n),
                    [v EXCEPT ![n] = [Identifier |-> id, Payload |-> payload]])
<1> DEFINE e == [Identifier |-> id, Payload |-> payload]
           p == PushFront(q, n)
           s == Store(m, id, n)
           w == [v EXCEPT ![n] = e]
<1>1. p \in Seq(Nodes) /\ Distinct(p) /\ Elems(p) = Elems(q) \cup {n}
  BY ConsistentFacts, PushFrontProperties
<1>2. /\ DOMAIN s = DOMAIN m \cup {id}
      /\ \A i \in DOMAIN s : s[i] = IF i = id THEN n ELSE m[i]
  BY DEF Store
<1>3. DOMAIN s \subseteq Ids /\ s \in [DOMAIN s -> Nodes]
  BY <1>2 DEF Consistent, Store
<1>4. e \in LRUEntry /\ e # Nil /\ e.Identifier = id
  BY NilAssumption DEF LRUEntry
<1> HIDE DEF e, p, s
<1>5. /\ w \in [Nodes -> LRUEntry \cup {Nil}]
      /\ \A c \in Nodes : w[c] = IF c = n THEN e ELSE v[c]
  BY <1>4 DEF Consistent
<1> HIDE DEF w
<1>6. Elems(q) \subseteq Nodes
  BY ConsistentFacts
<1>7. \A c \in Nodes : w[c] # Nil <=> c \in Elems(p)
  BY <1>1, <1>4, <1>5 DEF Consistent
<1>8. \A i \in DOMAIN s : s[i] \in Elems(p) /\ w[s[i]].Identifier = i
  BY <1>1, <1>2, <1>4, <1>5, <1>6 DEF Consistent
<1>9. \A c \in Elems(p) : w[c].Identifier \in DOMAIN s /\ s[w[c].Identifier] = c
  BY <1>1, <1>2, <1>4, <1>5, <1>6 DEF Consistent
<1>10. Consistent(p, s, w)
  BY <1>1, <1>3, <1>5, <1>7, <1>8, <1>9 DEF Consistent
<1> QED
  BY <1>10 DEF e, p, s, w

\* A linked cell gets another payload.
LEMMA OverwriteConsistent ==
  ASSUME NEW q, NEW m, NEW v, Consistent(q, m, v),
         NEW id \in DOMAIN m, NEW payload \in Payloads
  PROVE  Consistent(q, m,
           [v EXCEPT ![m[id]] = [Identifier |-> id, Payload |-> payload]])
<1> DEFINE e == [Identifier |-> id, Payload |-> payload]
           n == m[id]
           w == [v EXCEPT ![n] = e]
<1>1. n \in Elems(q) /\ Elems(q) \subseteq Nodes /\ v[n].Identifier = id /\ id \in Ids
  BY ConsistentFacts DEF Consistent
<1>2. e \in LRUEntry /\ e # Nil /\ e.Identifier = id
  BY <1>1, NilAssumption DEF LRUEntry
<1> HIDE DEF e
<1>3. /\ w \in [Nodes -> LRUEntry \cup {Nil}]
      /\ \A c \in Nodes : w[c] = IF c = n THEN e ELSE v[c]
  BY <1>2 DEF Consistent
<1>4. \A c \in Nodes : w[c] # Nil <=> c \in Elems(q)
  BY <1>1, <1>2, <1>3 DEF Consistent
<1>5. \A c \in Elems(q) : w[c].Identifier = v[c].Identifier
  BY <1>1, <1>2, <1>3
<1> HIDE DEF w
<1>6. Consistent(q, m, w)
  BY <1>3, <1>4, <1>5 DEF Consistent
<1> QED
  BY <1>6 DEF e, w, n

LEMMA EmptyConsistent ==
  ASSUME NEW m, DOMAIN m = {}, m \in [DOMAIN m -> Nodes]
  PROVE  Consistent(<<>>, m, [n \in Nodes |-> Nil]) /\ Len(<<>>) <= Capacity
<1>1. <<>> \in Seq(Nodes) /\ DOMAIN <<>> = {} /\ Len(<<>>) = 0
  OBVIOUS
<1>2. Distinct(<<>>) /\ Elems(<<>>) = {}
  BY <1>1 DEF Distinct, Elems
<1>3. [n \in Nodes |-> Nil] \in [Nodes -> LRUEntry \cup {Nil}]
  OBVIOUS
<1> QED
  BY <1>1, <1>2, <1>3, CapacityAssumption DEF Consistent

-----------------------------------------------------------------------------
(* Every call preserves it.                                                *)

LEMMA InitGood == Init => Good
BY EmptyConsistent DEF Init, Good, WithinCapacity

\* A linked element can be moved to the front.
LEMMA MoveGood ==
  ASSUME Good, NEW n \in Elems(queue)
  PROVE  /\ Consistent(MoveToFront(queue, n), entries, value)
         /\ Len(MoveToFront(queue, n)) = Len(queue)
<1>1. queue \in Seq(Nodes) /\ Distinct(queue) /\ Consistent(queue, entries, value)
  BY ConsistentFacts DEF Good
<1>2. /\ MoveToFront(queue, n) \in Seq(Nodes)
      /\ Len(MoveToFront(queue, n)) = Len(queue)
      /\ Distinct(MoveToFront(queue, n))
      /\ Elems(MoveToFront(queue, n)) = Elems(queue)
  BY <1>1, MoveToFrontProperties
<1> QED
  BY <1>1, <1>2, ReorderConsistent

LEMMA PutExistingGood ==
  ASSUME Good, NEW id \in Ids, NEW payload \in Payloads, PutExisting(id, payload)
  PROVE  Good'
<1>1. id \in DOMAIN entries /\ entries[id] \in Elems(queue)
  BY DEF Good, Consistent, PutExisting
<1>2. /\ Consistent(queue', entries, value)
      /\ Len(queue') = Len(queue)
  BY <1>1, MoveGood DEF PutExisting
<1>3. Consistent(queue', entries', value')
  BY <1>1, <1>2, OverwriteConsistent DEF PutExisting
<1> QED
  BY <1>2, <1>3 DEF Good, WithinCapacity

LEMMA PutNewGood ==
  ASSUME Good, NEW id \in Ids, NEW payload \in Payloads, PutNew(id, payload)
  PROVE  Good'
<1>1. PICK n \in Nodes :
        /\ Free(n)
        /\ queue' = PushFront(queue, n)
        /\ entries' = Store(entries, id, n)
        /\ value' = [value EXCEPT ![n] = [Identifier |-> id, Payload |-> payload]]
  BY DEF PutNew
<1>2. n \notin Elems(queue) /\ id \notin DOMAIN entries
  BY <1>1 DEF Free, Good, Consistent, PutNew
<1>3. Consistent(queue', entries', value')
  BY <1>1, <1>2, InsertConsistent DEF Good
<1>4. queue \in Seq(Nodes) /\ Distinct(queue) /\ Len(queue) \in Nat
  BY ConsistentFacts DEF Good
<1>5. Len(queue') = Len(queue) + 1
  BY <1>1, <1>2, <1>4, PushFrontProperties
<1>6. WithinCapacity'
  BY <1>4, <1>5, CapacityAssumption DEF PutNew, Full, Good, WithinCapacity
<1> QED
  BY <1>3, <1>6 DEF Good

LEMMA PutEvictGood ==
  ASSUME Good, NEW id \in Ids, NEW payload \in Payloads, PutEvict(id, payload)
  PROVE  Good'
<1> DEFINE e == [Identifier |-> id, Payload |-> payload]
           b == Back(queue)
           q == SeqX!Front(queue)
           m == Delete(entries, value[b].Identifier)
           v == [value EXCEPT ![b] = Nil]
<1>1. PICK n \in Nodes :
        /\ Free(n) \/ n = b
        /\ queue' = PushFront(q, n)
        /\ entries' = Store(m, id, n)
        /\ value' = [value EXCEPT ![b] = Nil, ![n] = e]
  BY DEF PutEvict, BackId
<1>2. value' = [v EXCEPT ![n] = e]
  BY <1>1
<1>3. queue \in Seq(Nodes) /\ Distinct(queue) /\ Len(queue) \in Nat
  BY ConsistentFacts DEF Good
<1>4. queue # <<>>
  BY <1>3, CapacityAssumption, EmptySeq DEF PutEvict, Full
<1>5. /\ b \in Elems(queue)
      /\ q \in Seq(Nodes)
      /\ Len(q) = Len(queue) - 1
      /\ Distinct(q)
      /\ Elems(q) = Elems(queue) \ {b}
  BY <1>3, <1>4, FrontProperties
<1>6. n \notin Elems(q)
  BY <1>1, <1>5 DEF Free, Good, Consistent
<1> HIDE DEF b, q
<1>7. Consistent(q, m, v)
  BY <1>5, DropConsistent DEF Good
<1>8. id \notin DOMAIN m
  BY DEF Delete, PutEvict
<1> HIDE DEF m, v
<1>9. Consistent(PushFront(q, n), Store(m, id, n), [v EXCEPT ![n] = e])
  BY <1>6, <1>7, <1>8, InsertConsistent
<1> HIDE DEF e
<1>10. Len(queue') = Len(q) + 1
  BY <1>1, <1>5, <1>6, PushFrontProperties
<1>11. WithinCapacity'
  BY <1>3, <1>5, <1>10 DEF Good, WithinCapacity
<1>12. Consistent(queue', entries', value')
  BY <1>1, <1>2, <1>9
<1> QED
  BY <1>11, <1>12 DEF Good

LEMMA UnchangedGood == Good /\ UNCHANGED cvars => Good'
BY DEF Good, WithinCapacity, cvars

\* A use changes the order only.
LEMMA TouchGood ==
  ASSUME Good, NEW id \in Ids, Touch(id)
  PROVE  Good'
<1>1. CASE id \in DOMAIN entries
  <2>1. entries[id] \in Elems(queue)
    BY <1>1 DEF Good, Consistent
  <2> QED
    BY <1>1, <2>1, MoveGood DEF Touch, Good, WithinCapacity
<1>2. CASE id \notin DOMAIN entries
  BY <1>2, UnchangedGood DEF Touch, cvars
<1> QED
  BY <1>1, <1>2

LEMMA RemoveGood ==
  ASSUME Good, NEW id \in Ids, Remove(id)
  PROVE  Good'
<1>1. CASE id \notin DOMAIN entries
  BY <1>1, UnchangedGood DEF Remove
<1>2. CASE id \in DOMAIN entries
  <2> DEFINE n == entries[id]
  <2>1. n \in Elems(queue) /\ value[n].Identifier = id
    BY <1>2 DEF Good, Consistent
  <2>2. /\ queue' = ListRemove(queue, n)
        /\ entries' = Delete(entries, value[n].Identifier)
        /\ value' = [value EXCEPT ![n] = Nil]
    BY <1>2, <2>1 DEF Remove
  <2> HIDE DEF n
  <2>3. queue \in Seq(Nodes) /\ Distinct(queue) /\ Len(queue) \in Nat
    BY ConsistentFacts DEF Good
  <2>4. /\ queue' \in Seq(Nodes)
        /\ Len(queue') = Len(queue) - 1
        /\ Distinct(queue')
        /\ Elems(queue') = Elems(queue) \ {n}
    BY <2>1, <2>2, <2>3, ListRemoveProperties
  <2>5. Consistent(queue', entries', value')
    BY <2>1, <2>2, <2>4, DropConsistent DEF Good
  <2>6. WithinCapacity'
    BY <2>3, <2>4, CapacityAssumption DEF Good, WithinCapacity
  <2> QED
    BY <2>5, <2>6 DEF Good
<1> QED
  BY <1>1, <1>2

LEMMA ClearGood == Clear => Good'
BY EmptyConsistent DEF Clear, Good, WithinCapacity

LEMMA NextGood == Good /\ [Next]_vars => Good'
<1> SUFFICES ASSUME Good, [Next]_vars PROVE Good'
  OBVIOUS
<1>1. ASSUME NEW id \in Ids, NEW payload \in Payloads, Put(id, payload)
      PROVE  Good'
  BY <1>1, PutExistingGood, PutNewGood, PutEvictGood DEF Put
<1>2. ASSUME NEW id \in Ids, Get(id) PROVE Good'
  BY <1>2, TouchGood DEF Get
<1>3. ASSUME NEW id \in Ids, UpdateAccess(id) PROVE Good'
  BY <1>3, TouchGood DEF UpdateAccess
<1>4. ASSUME NEW id \in Ids, Remove(id) PROVE Good'
  BY <1>4, RemoveGood
<1>5. ASSUME NEW id \in Ids, Has(id) PROVE Good'
  BY <1>5, UnchangedGood DEF Has
<1>6. CASE GetFullIDList \/ Size \/ GetOldest
  BY <1>6, UnchangedGood DEF GetFullIDList, Size, GetOldest
<1>7. CASE Clear
  BY <1>7, ClearGood
<1>8. CASE UNCHANGED vars
  BY <1>8, UnchangedGood DEF vars, cvars
<1> QED
  BY <1>1, <1>2, <1>3, <1>4, <1>5, <1>6, <1>7, <1>8 DEF Next

\* The map is a bijection from its keys to the positions of the list.
LEMMA KeysCountElements == IInv => Cardinality(DOMAIN entries) = Len(queue)
<1> SUFFICES ASSUME IInv PROVE Cardinality(DOMAIN entries) = Len(queue)
  OBVIOUS
<1> DEFINE f == [i \in 1 .. Len(queue) |-> value[queue[i]].Identifier]
<1>1. DOMAIN queue = 1 .. Len(queue) /\ Len(queue) \in Nat
  BY LenProperties DEF IInv, TypeOK
<1>2. f \in [1 .. Len(queue) -> DOMAIN entries]
  BY <1>1 DEF IInv, IndexMatchesQueue, IndexComplete
<1>3. \A i, j \in 1 .. Len(queue) : f[i] = f[j] => i = j
  <2>1. \A i \in 1 .. Len(queue) : entries[f[i]] = queue[i]
    BY <1>1 DEF IInv, IndexMatchesQueue, IndexComplete
  <2> QED
    BY <1>1, <2>1 DEF IInv, IndexMatchesQueue, QueueDistinct
<1>4. \A id \in DOMAIN entries : \E i \in 1 .. Len(queue) : f[i] = id
  BY <1>1 DEF IInv, IndexMatchesQueue, IndexSound
<1>5. f \in Bijection(1 .. Len(queue), DOMAIN entries)
  BY <1>2, <1>3, <1>4, Fun_IsBij
<1> QED
  BY <1>1, <1>5, FS_CountingElements DEF ExistsBijection

-----------------------------------------------------------------------------
(* The theorems.                                                           *)

\* After any sequence of calls the variables have their types, the list and
\* the map describe the same entries, and the list is within the capacity.
THEOREM Invariance == Spec => []IInv
<1>1. Good <=> IInv
  BY GoodIsIInv
<1> QED
  BY <1>1, InitGood, NextGood, PTL DEF Spec

\* lrucache.go keeps its list and its map in step: TypeOK and
\* IndexMatchesQueue hold after any sequence of calls.
THEOREM ListAndMapAgree == Spec => [](TypeOK /\ IndexMatchesQueue)
<1>1. IInv => TypeOK /\ IndexMatchesQueue
  BY DEF IInv
<1> QED
  BY <1>1, Invariance, PTL

\* No sequence of calls leaves a key in the map without an element behind it.
THEOREM CacheTyped == Spec => []TypeOK
BY ListAndMapAgree, PTL

\* Size, which counts the map, equals the length that Put compares with the
\* capacity, and never exceeds the capacity.
THEOREM SizeIsBounded == Spec => []SizeBounded
<1>1. IInv => SizeBounded
  BY KeysCountElements DEF IInv, SizeBounded
<1> QED
  BY <1>1, Invariance, PTL

-----------------------------------------------------------------------------
(* The order of use: what the list operations do to it.                    *)

\* a is linked in front of b.
Before(q, a, b) == \E i, j \in DOMAIN q : i < j /\ q[i] = a /\ q[j] = b

LEMMA RemoveOrder ==
  ASSUME NEW S, NEW q \in Seq(S), Distinct(q), NEW n \in Elems(q), NEW a, NEW b
  PROVE  Before(ListRemove(q, n), a, b) <=> Before(q, a, b) /\ a # n /\ b # n
<1> DEFINE k == IndexOf(q, n)
           r == ListRemove(q, n)
<1>1. DOMAIN q = 1 .. Len(q) /\ Len(q) \in Nat
  BY LenProperties
<1>2. k \in DOMAIN q /\ q[k] = n
  <2>1. \E i \in DOMAIN q : q[i] = n
    BY DEF Elems
  <2> QED
    BY <2>1 DEF IndexOf
<1>3. /\ r \in Seq(S) /\ Len(r) = Len(q) - 1
      /\ \A i \in 1 .. Len(q) - 1 : r[i] = IF i < k THEN q[i] ELSE q[i + 1]
  BY <1>2, RemoveAtProperties DEF ListRemove
<1> HIDE DEF k, r
<1>4. DOMAIN r = 1 .. Len(q) - 1
  BY <1>3, LenProperties
<1>5. ASSUME Before(r, a, b)
      PROVE  Before(q, a, b) /\ a # n /\ b # n
  <2> DEFINE from(i) == IF i < k THEN i ELSE i + 1
  <2>1. PICK i \in DOMAIN r, j \in DOMAIN r : i < j /\ r[i] = a /\ r[j] = b
    BY <1>5 DEF Before
  <2>2. from(i) \in DOMAIN q \ {k} /\ from(j) \in DOMAIN q \ {k} /\ from(i) < from(j)
    BY <1>1, <1>2, <1>4, <2>1
  <2>3. q[from(i)] = a /\ q[from(j)] = b
    BY <1>3, <1>4, <2>1
  <2> HIDE DEF from
  <2> QED
    BY <1>2, <2>2, <2>3 DEF Before, Distinct
<1>6. ASSUME Before(q, a, b), a # n, b # n
      PROVE  Before(r, a, b)
  <2> DEFINE to(i) == IF i < k THEN i ELSE i - 1
  <2>1. PICK i \in DOMAIN q, j \in DOMAIN q : i < j /\ q[i] = a /\ q[j] = b
    BY <1>6 DEF Before
  <2>2. i # k /\ j # k
    BY <1>2, <1>6, <2>1
  <2>3. to(i) \in DOMAIN r /\ to(j) \in DOMAIN r /\ to(i) < to(j)
    BY <1>1, <1>2, <1>4, <2>1, <2>2
  <2>4. r[to(i)] = a /\ r[to(j)] = b
    BY <1>1, <1>2, <1>3, <1>4, <2>1, <2>2, <2>3
  <2> HIDE DEF to
  <2> QED
    BY <2>3, <2>4 DEF Before
<1> QED
  BY <1>5, <1>6 DEF r

LEMMA PushOrder ==
  ASSUME NEW S, NEW q \in Seq(S), NEW n \in S, NEW a, NEW b
  PROVE  Before(PushFront(q, n), a, b) <=> Before(q, a, b) \/ (a = n /\ b \in Elems(q))
<1> DEFINE p == PushFront(q, n)
<1>1. DOMAIN q = 1 .. Len(q) /\ Len(q) \in Nat
  BY LenProperties
<1>2. <<n>> \in Seq(S) /\ Len(<<n>>) = 1 /\ <<n>>[1] = n
  OBVIOUS
<1>3. /\ p \in Seq(S)
      /\ Len(p) = 1 + Len(q)
      /\ \A i \in 1 .. 1 + Len(q) : p[i] = IF i <= 1 THEN <<n>>[i] ELSE q[i - 1]
  BY <1>2, ConcatProperties DEF PushFront
<1> HIDE DEF p
<1>4. DOMAIN p = 1 .. 1 + Len(q)
  BY <1>3, LenProperties
<1>5. p[1] = n /\ 1 \in DOMAIN p
  BY <1>1, <1>2, <1>3, <1>4
<1>6. \A i \in DOMAIN p \ {1} : i - 1 \in DOMAIN q /\ p[i] = q[i - 1]
  BY <1>1, <1>3, <1>4
<1>7. \A j \in DOMAIN q : j + 1 \in DOMAIN p /\ p[j + 1] = q[j]
  BY <1>1, <1>3, <1>4
<1>8. ASSUME Before(p, a, b)
      PROVE  Before(q, a, b) \/ (a = n /\ b \in Elems(q))
  <2>1. PICK i \in DOMAIN p, j \in DOMAIN p : i < j /\ p[i] = a /\ p[j] = b
    BY <1>8 DEF Before
  <2>2. j # 1 /\ j - 1 \in DOMAIN q /\ q[j - 1] = b
    BY <1>1, <1>4, <1>6, <2>1
  <2>3. CASE i = 1
    BY <1>5, <2>1, <2>2, <2>3 DEF Elems
  <2>4. CASE i # 1
    <3>1. i - 1 \in DOMAIN q /\ q[i - 1] = a /\ i - 1 < j - 1
      BY <1>1, <1>4, <1>6, <2>1, <2>4
    <3> QED
      BY <2>2, <3>1 DEF Before
  <2> QED
    BY <2>3, <2>4
<1>9. ASSUME Before(q, a, b)
      PROVE  Before(p, a, b)
  <2>1. PICK i \in DOMAIN q, j \in DOMAIN q : i < j /\ q[i] = a /\ q[j] = b
    BY <1>9 DEF Before
  <2>2. i + 1 \in DOMAIN p /\ j + 1 \in DOMAIN p /\ i + 1 < j + 1 /\ p[i + 1] = a /\ p[j + 1] = b
    BY <1>1, <1>7, <2>1
  <2> QED
    BY <2>2 DEF Before
<1>10. ASSUME a = n, b \in Elems(q)
       PROVE  Before(p, a, b)
  <2>1. PICK j \in DOMAIN q : q[j] = b
    BY <1>10 DEF Elems
  <2>2. j + 1 \in DOMAIN p /\ 1 < j + 1 /\ p[j + 1] = b
    BY <1>1, <1>7, <2>1
  <2> QED
    BY <1>5, <1>10, <2>2 DEF Before
<1> QED
  BY <1>8, <1>9, <1>10 DEF p

LEMMA MoveOrder ==
  ASSUME NEW S, NEW q \in Seq(S), Distinct(q), NEW n \in Elems(q), NEW a, NEW b
  PROVE  Before(MoveToFront(q, n), a, b) <=>
           \/ Before(q, a, b) /\ a # n /\ b # n
           \/ a = n /\ b \in Elems(q) \ {n}
<1>1. n \in S
  BY ElementOfSeq, LenProperties DEF Elems
<1>2. ListRemove(q, n) \in Seq(S) /\ Elems(ListRemove(q, n)) = Elems(q) \ {n}
  BY ListRemoveProperties
<1> QED
  BY <1>1, <1>2, RemoveOrder, PushOrder DEF MoveToFront

\* The back comes after all others, and dropping it leaves their order.
LEMMA BackOrder ==
  ASSUME NEW S, NEW q \in Seq(S), Distinct(q), q # <<>>, NEW a, NEW b
  PROVE  /\ a \in Elems(q) \ {Back(q)} => Before(q, a, Back(q))
         /\ ~Before(q, Back(q), b)
         /\ Before(SeqX!Front(q), a, b) <=> Before(q, a, b) /\ b # Back(q)
<1> DEFINE f == SeqX!Front(q)
<1>1. DOMAIN q = 1 .. Len(q) /\ Len(q) \in Nat \ {0} /\ \A i \in 1 .. Len(q) : q[i] \in S
  BY LenProperties, ElementOfSeq, EmptySeq
<1>2. /\ f \in Seq(S)
      /\ Len(f) = Len(q) - 1
      /\ \A i \in 1 .. Len(q) - 1 : f[i] = q[i]
  BY FrontIsPrefix
<1> HIDE DEF f
<1>3. DOMAIN f = 1 .. Len(q) - 1
  BY <1>2, LenProperties
<1>4. DOMAIN f = DOMAIN q \ {Len(q)} /\ Len(q) \in DOMAIN q /\ \A i \in DOMAIN f : f[i] = q[i]
  BY <1>1, <1>2, <1>3
<1>5. \A i \in DOMAIN q : q[i] = Back(q) <=> i = Len(q)
  BY <1>4 DEF Back, Distinct
<1>6. a \in Elems(q) \ {Back(q)} => Before(q, a, Back(q))
  <2> SUFFICES ASSUME a \in Elems(q), a # Back(q) PROVE Before(q, a, Back(q))
    OBVIOUS
  <2>1. PICK i \in DOMAIN q : q[i] = a
    BY DEF Elems
  <2>2. i < Len(q)
    BY <1>1, <1>5, <2>1
  <2> QED
    BY <1>4, <1>5, <2>1, <2>2 DEF Before
<1>7. ~Before(q, Back(q), b)
  <2> SUFFICES ASSUME NEW i \in DOMAIN q, NEW j \in DOMAIN q, i < j, q[i] = Back(q) PROVE FALSE
    BY DEF Before
  <2> QED
    BY <1>1, <1>5
<1>8. Before(f, a, b) => Before(q, a, b) /\ b # Back(q)
  BY <1>4, <1>5 DEF Before
<1>9. Before(q, a, b) /\ b # Back(q) => Before(f, a, b)
  <2> SUFFICES ASSUME NEW i \in DOMAIN q, NEW j \in DOMAIN q, i < j, q[i] = a, q[j] = b,
                      b # Back(q)
               PROVE  Before(f, a, b)
    BY DEF Before
  <2>1. j # Len(q) /\ i # Len(q)
    BY <1>1, <1>5
  <2> QED
    BY <1>4, <2>1 DEF Before
<1> QED
  BY <1>6, <1>7, <1>8, <1>9 DEF f

\* Removing the back by search is dropping it.
LEMMA RemoveBackIsFront ==
  ASSUME NEW S, NEW q \in Seq(S), Distinct(q), q # <<>>
  PROVE  ListRemove(q, Back(q)) = SeqX!Front(q)
<1> DEFINE k == IndexOf(q, Back(q))
           r == ListRemove(q, Back(q))
           f == SeqX!Front(q)
<1>1. DOMAIN q = 1 .. Len(q) /\ Len(q) \in Nat \ {0}
  BY LenProperties, EmptySeq
<1>2. Len(q) \in DOMAIN q /\ q[Len(q)] = Back(q)
  BY <1>1 DEF Back
<1>3. k \in DOMAIN q /\ q[k] = Back(q)
  BY <1>2 DEF IndexOf
<1>4. k = Len(q)
  BY <1>2, <1>3 DEF Distinct
<1>5. /\ r \in Seq(S) /\ Len(r) = Len(q) - 1
      /\ \A i \in 1 .. Len(q) - 1 : r[i] = IF i < k THEN q[i] ELSE q[i + 1]
  BY <1>3, RemoveAtProperties DEF ListRemove
<1>6. /\ f \in Seq(S) /\ Len(f) = Len(q) - 1
      /\ \A i \in 1 .. Len(q) - 1 : f[i] = q[i]
  BY FrontIsPrefix
<1> HIDE DEF k, r, f
<1>7. \A i \in 1 .. Len(q) - 1 : r[i] = f[i]
  BY <1>1, <1>4, <1>5, <1>6
<1>8. r = f
  BY <1>1, <1>5, <1>6, <1>7, SeqEqual
<1> QED
  BY <1>8 DEF r, f

-----------------------------------------------------------------------------
(* Read through the mapping, every call does what LRUPromise says.         *)

\* OlderBar of a list and its cells, and the same without positions.
OlderOf(q, v) ==
  {<<v[q[p[2]]].Identifier, v[q[p[1]]].Identifier>> :
     p \in {r \in (DOMAIN q) \X (DOMAIN q) : r[1] < r[2]}}
Order(q, m) == {p \in (DOMAIN m) \X (DOMAIN m) : Before(q, m[p[2]], m[p[1]])}

LEMMA OlderIsOrder ==
  ASSUME NEW q, NEW m, NEW v, Consistent(q, m, v)
  PROVE  OlderOf(q, v) = Order(q, m)
<1>1. \A i \in DOMAIN q : v[q[i]].Identifier \in DOMAIN m /\ m[v[q[i]].Identifier] = q[i]
  BY DEF Consistent, Elems
<1>2. \A id \in DOMAIN m : v[m[id]].Identifier = id
  BY DEF Consistent
<1>3. ASSUME NEW i \in DOMAIN q, NEW j \in DOMAIN q, i < j
      PROVE  <<v[q[j]].Identifier, v[q[i]].Identifier>> \in Order(q, m)
  BY <1>1, <1>3 DEF Order, Before
<1>4. ASSUME NEW u \in DOMAIN m, NEW w \in DOMAIN m, Before(q, m[w], m[u])
      PROVE  <<u, w>> \in OlderOf(q, v)
  <2>1. PICK i \in DOMAIN q, j \in DOMAIN q : i < j /\ q[i] = m[w] /\ q[j] = m[u]
    BY <1>4 DEF Before
  <2>2. v[q[j]].Identifier = u /\ v[q[i]].Identifier = w
    BY <1>2, <2>1
  <2>3. <<i, j>> \in {r \in (DOMAIN q) \X (DOMAIN q) : r[1] < r[2]}
    BY <2>1
  <2> QED
    BY <2>2, <2>3 DEF OlderOf
<1>5. OlderOf(q, v) \subseteq Order(q, m)
  BY <1>3 DEF OlderOf
<1>6. Order(q, m) \subseteq OlderOf(q, v)
  BY <1>4 DEF Order
<1> QED
  BY <1>5, <1>6

LEMMA OlderBarIsOrder ==
  /\ Good => OlderBar = Order(queue, entries)
  /\ Good' => OlderBar' = Order(queue', entries')
<1>1. Good => OlderBar = Order(queue, entries)
  BY OlderIsOrder DEF Good, OlderBar, OlderOf
<1>2. Good' => OlderBar' = Order(queue', entries')
  BY OlderIsOrder DEF Good, OlderBar, OlderOf
<1> QED
  BY <1>1, <1>2

LEMMA CachedFacts ==
  /\ DOMAIN CachedBar = DOMAIN entries
  /\ \A id \in DOMAIN entries : CachedBar[id] = value[entries[id]].Payload
  /\ \A id \in DOMAIN entries' : CachedBar'[id] = value'[entries'[id]].Payload
  /\ DOMAIN CachedBar' = DOMAIN entries'
BY DEF CachedBar

\* id comes to the front and the others keep their order.
LEMMA TouchedOrder ==
  ASSUME Good, Good', NEW id, NEW kept, kept \subseteq DOMAIN entries,
         DOMAIN entries' = kept \cup {id},
         \A u, w \in kept \ {id} :
           Before(queue', entries'[w], entries'[u]) <=> Before(queue, entries[w], entries[u]),
         \A u \in kept \ {id} : /\ Before(queue', entries'[id], entries'[u])
                                /\ ~Before(queue', entries'[u], entries'[id]),
         ~Before(queue', entries'[id], entries'[id])
  PROVE  OlderBar' = Promise!Touched(id, kept)
<1> DEFINE others == kept \ {id}
           T == {p \in Order(queue, entries) : p[1] \in others /\ p[2] \in others}
                  \cup (others \X {id})
<1>1. OlderBar = Order(queue, entries) /\ OlderBar' = Order(queue', entries')
  BY OlderBarIsOrder
<1>2. \A u, w : <<u, w>> \in Order(queue', entries') <=> <<u, w>> \in T
  <2> SUFFICES ASSUME NEW u, NEW w
               PROVE  <<u, w>> \in Order(queue', entries') <=> <<u, w>> \in T
    OBVIOUS
  <2>1. <<u, w>> \in Order(queue', entries') <=>
          /\ u \in kept \cup {id} /\ w \in kept \cup {id}
          /\ Before(queue', entries'[w], entries'[u])
    BY DEF Order
  <2>2. <<u, w>> \in T <=>
          \/ u \in others /\ w \in others /\ Before(queue, entries[w], entries[u])
          \/ u \in others /\ w = id
    BY DEF Order
  <2> QED
    BY <2>1, <2>2
<1>3. \A p \in Order(queue', entries') \cup T : p = <<p[1], p[2]>>
  BY DEF Order
<1>4. Order(queue', entries') = T
  <2> HIDE DEF T
  <2> QED
    BY <1>2, <1>3
<1> QED
  BY <1>1, <1>4 DEF Promise!Touched

\* MoveToFront of id's element.
LEMMA MovedIsTouched ==
  ASSUME Good, Good', NEW id \in DOMAIN entries, queue' = MoveToFront(queue, entries[id]),
         UNCHANGED entries
  PROVE  OlderBar' = Promise!Touched(id, DOMAIN entries)
<1>1. queue \in Seq(Nodes) /\ Distinct(queue) /\ \A u \in DOMAIN entries : entries[u] \in Elems(queue)
  BY ConsistentFacts DEF Good, Consistent
<1>2. \A u, w \in DOMAIN entries : entries[u] = entries[w] => u = w
  BY DEF Good, Consistent
<1>3. \A u, w \in DOMAIN entries :
        Before(queue', entries[w], entries[u]) <=>
           \/ Before(queue, entries[w], entries[u]) /\ w # id /\ u # id
           \/ w = id /\ u # id
  BY <1>1, <1>2, MoveOrder
<1> QED
  BY <1>3, TouchedOrder

LEMMA UseKept ==
  ASSUME Good, Good', NEW id, Touch(id)
  PROVE  Promise!Use(id)
<1>1. UNCHANGED CachedBar
  BY DEF Touch, CachedBar
<1>2. CASE id \in DOMAIN entries
  BY <1>1, <1>2, MovedIsTouched, CachedFacts DEF Touch, Promise!Use
<1>3. CASE id \notin DOMAIN entries
  <2>1. UNCHANGED <<queue, entries, value>>
    BY <1>3 DEF Touch
  <2>2. OlderBar' = OlderBar
    BY <2>1 DEF OlderBar
  <2> QED
    BY <1>1, <1>3, <2>2, CachedFacts DEF Promise!Use
<1> QED
  BY <1>2, <1>3

\* What a Put must do, from what the promise has it keep.
LEMMA StoreFrom ==
  ASSUME NEW id, NEW payload, NEW kept, kept = DOMAIN entries \ Promise!Victims(id),
         DOMAIN entries' = kept \cup {id},
         value'[entries'[id]].Payload = payload,
         \A u \in kept \ {id} : value'[entries'[u]].Payload = value[entries[u]].Payload,
         OlderBar' = Promise!Touched(id, kept)
  PROVE  Promise!Store(id, payload)
<1>1. kept = DOMAIN CachedBar \ Promise!Victims(id)
  BY CachedFacts
<1>2. CachedBar' = [i \in kept \cup {id} |-> IF i = id THEN payload ELSE CachedBar[i]]
  <2>1. CachedBar' = [i \in kept \cup {id} |-> value'[entries'[i]].Payload]
    BY DEF CachedBar
  <2>2. \A i \in kept \cup {id} :
          value'[entries'[i]].Payload = IF i = id THEN payload ELSE CachedBar[i]
    BY CachedFacts
  <2> QED
    BY <2>1, <2>2
<1> QED
  BY <1>1, <1>2 DEF Promise!Store

LEMMA PutExistingKept ==
  ASSUME Good, Good', NEW id, NEW payload, PutExisting(id, payload)
  PROVE  Promise!Store(id, payload)
<1>1. id \in DOMAIN entries /\ UNCHANGED entries /\ queue' = MoveToFront(queue, entries[id])
      /\ value' = [value EXCEPT ![entries[id]] = [Identifier |-> id, Payload |-> payload]]
  BY DEF PutExisting
<1>2. Promise!Victims(id) = {}
  BY <1>1, CachedFacts DEF Promise!Victims
<1>3. \A u \in DOMAIN entries : entries[u] \in Nodes /\ (u # id => entries[u] # entries[id])
  BY <1>1 DEF Good, Consistent
<1>4. value \in [Nodes -> LRUEntry \cup {Nil}]
  BY DEF Good, Consistent
<1>5. value'[entries'[id]].Payload = payload
  BY <1>1, <1>3, <1>4
<1>6. \A u \in DOMAIN entries \ {id} : value'[entries'[u]].Payload = value[entries[u]].Payload
  BY <1>1, <1>3, <1>4
<1>7. OlderBar' = Promise!Touched(id, DOMAIN entries)
  BY <1>1, MovedIsTouched
<1> QED
  BY <1>1, <1>2, <1>5, <1>6, <1>7, StoreFrom

LEMMA BeforeElems ==
  ASSUME NEW q, NEW a, NEW b, Before(q, a, b)
  PROVE  a \in Elems(q) /\ b \in Elems(q)
BY DEF Before, Elems

\* A new element in front of those that are kept.
LEMMA PushedIsTouched ==
  ASSUME Good, Good', NEW id, NEW kept, kept \subseteq DOMAIN entries, id \notin kept,
         NEW q \in Seq(Nodes), NEW n \in Nodes, n \notin Elems(q), queue' = PushFront(q, n),
         DOMAIN entries' = kept \cup {id}, entries'[id] = n,
         \A u \in kept : entries'[u] = entries[u] /\ entries[u] \in Elems(q),
         \A u, w \in kept : Before(q, entries[w], entries[u])
                              <=> Before(queue, entries[w], entries[u])
  PROVE  OlderBar' = Promise!Touched(id, kept)
<1>1. \A a, b : Before(queue', a, b) <=> Before(q, a, b) \/ (a = n /\ b \in Elems(q))
  BY PushOrder
<1>2. \A u, w \in kept : Before(queue', entries'[w], entries'[u])
                           <=> Before(queue, entries[w], entries[u])
  BY <1>1
<1>3. \A u \in kept : /\ Before(queue', entries'[id], entries'[u])
                      /\ ~Before(queue', entries'[u], entries'[id])
  BY <1>1, BeforeElems
<1>4. ~Before(queue', entries'[id], entries'[id])
  BY <1>1, BeforeElems
<1> QED
  BY <1>2, <1>3, <1>4, TouchedOrder

\* LRUPromise counts with an instance of its own.
LEMMA SameCount == \A S : Promise!Cardinality(S) = Cardinality(S)
BY DEF Cardinality, Promise!Cardinality, IsFiniteSet, Promise!IsFiniteSet

LEMMA Counted ==
  ASSUME Good
  PROVE  Promise!Cardinality(DOMAIN CachedBar) = Len(queue) /\ Len(queue) \in Nat
BY GoodIsIInv, KeysCountElements, CachedFacts, ConsistentFacts, SameCount DEF Good

LEMMA PutNewKept ==
  ASSUME Good, Good', NEW id, NEW payload, PutNew(id, payload)
  PROVE  Promise!Store(id, payload)
<1>1. PICK n \in Nodes :
        /\ Free(n)
        /\ queue' = PushFront(queue, n)
        /\ entries' = Store(entries, id, n)
        /\ value' = [value EXCEPT ![n] = [Identifier |-> id, Payload |-> payload]]
  BY DEF PutNew
<1>2. id \notin DOMAIN entries /\ n \notin Elems(queue) /\ queue \in Seq(Nodes)
  BY <1>1 DEF PutNew, Free, Good, Consistent
<1>3. Promise!Victims(id) = {}
  <2>1. Len(queue) < Capacity
    BY Counted, CapacityAssumption DEF PutNew, Full, Good, WithinCapacity
  <2> QED
    BY <2>1, Counted DEF Promise!Victims
<1>4. DOMAIN entries' = DOMAIN entries \cup {id} /\ entries'[id] = n
      /\ \A u \in DOMAIN entries : entries'[u] = entries[u] /\ entries[u] \in Elems(queue)
  BY <1>1, <1>2 DEF Store, Good, Consistent
<1>5. OlderBar' = Promise!Touched(id, DOMAIN entries)
  BY <1>1, <1>2, <1>4, PushedIsTouched
<1>6. /\ value'[entries'[id]].Payload = payload
      /\ \A u \in DOMAIN entries : value'[entries'[u]].Payload = value[entries[u]].Payload
  <2>1. value \in [Nodes -> LRUEntry \cup {Nil}] /\ Elems(queue) \subseteq Nodes
    BY ConsistentFacts DEF Good, Consistent
  <2> QED
    BY <1>1, <1>2, <1>4, <2>1
<1> QED
  BY <1>3, <1>4, <1>5, <1>6, StoreFrom

\* The element at the back is the one that all others are newer than.
LEMMA BackIsOldest ==
  ASSUME Good, queue # <<>>
  PROVE  /\ BackId \in DOMAIN entries /\ entries[BackId] = Back(queue)
         /\ \A v \in DOMAIN entries :
              (\A w \in DOMAIN entries \ {v} : <<v, w>> \in OlderBar) <=> v = BackId
<1>1. /\ queue \in Seq(Nodes) /\ Distinct(queue)
      /\ \A u \in DOMAIN entries : entries[u] \in Elems(queue)
  BY DEF Good, Consistent
<1>0. \A u, w \in DOMAIN entries : entries[u] = entries[w] => u = w
  BY DEF Good, Consistent
<1>2. Back(queue) \in Elems(queue)
  BY <1>1, FrontProperties
<1>3. BackId \in DOMAIN entries /\ entries[BackId] = Back(queue)
  BY <1>2 DEF BackId, Good, Consistent
<1>4. \A u, w \in DOMAIN entries : <<u, w>> \in OlderBar <=> Before(queue, entries[w], entries[u])
  BY OlderBarIsOrder DEF Order
<1>5. \A w \in DOMAIN entries \ {BackId} : <<BackId, w>> \in OlderBar
  <2>1. ASSUME NEW w \in DOMAIN entries, w # BackId
        PROVE  entries[w] \in Elems(queue) \ {Back(queue)}
    BY <1>0, <1>1, <1>3, <2>1
  <2> QED
    BY <1>1, <1>3, <1>4, <2>1, BackOrder
<1>6. \A v \in DOMAIN entries \ {BackId} : <<v, BackId>> \notin OlderBar
  BY <1>1, <1>3, <1>4, BackOrder
<1> QED
  BY <1>3, <1>5, <1>6

LEMMA PutEvictKept ==
  ASSUME Good, Good', NEW id, NEW payload, PutEvict(id, payload)
  PROVE  Promise!Store(id, payload)
<1> DEFINE b == Back(queue)
           q == SeqX!Front(queue)
           kept == DOMAIN entries \ {BackId}
           e == [Identifier |-> id, Payload |-> payload]
<1>1. PICK n \in Nodes :
        /\ Free(n) \/ n = b
        /\ queue' = PushFront(q, n)
        /\ entries' = Store(Delete(entries, BackId), id, n)
        /\ value' = [value EXCEPT ![b] = Nil, ![n] = e]
  BY DEF PutEvict
<1>2. id \notin DOMAIN entries /\ Len(queue) = Capacity /\ queue # <<>>
  BY CapacityAssumption DEF PutEvict, Full
<1>3. /\ queue \in Seq(Nodes) /\ Distinct(queue) /\ Elems(queue) \subseteq Nodes
      /\ value \in [Nodes -> LRUEntry \cup {Nil}]
  BY ConsistentFacts DEF Good, Consistent
<1>4. b \in Elems(queue) /\ q \in Seq(Nodes) /\ Elems(q) = Elems(queue) \ {b}
  BY <1>2, <1>3, FrontProperties
<1>5. n \notin Elems(q)
  BY <1>1, <1>4 DEF Free, Good, Consistent
<1>6. BackId \in DOMAIN entries /\ entries[BackId] = b
  BY <1>2, BackIsOldest
<1>7. \A u \in kept : entries[u] \in Elems(q)
  BY <1>4, <1>6 DEF Good, Consistent
<1>8. \A u, w \in kept : Before(q, entries[w], entries[u]) <=> Before(queue, entries[w], entries[u])
  BY <1>2, <1>3, <1>4, <1>7, BackOrder
<1>9. Promise!Victims(id) = {BackId}
  <2>1. Promise!Victims(id) =
          {v \in DOMAIN entries : \A w \in DOMAIN entries \ {v} : <<v, w>> \in OlderBar}
    BY <1>2, Counted, CachedFacts, CapacityAssumption DEF Promise!Victims
  <2> QED
    BY <1>2, <2>1, BackIsOldest
<1>10. DOMAIN entries' = kept \cup {id} /\ entries'[id] = n
       /\ \A u \in kept : entries'[u] = entries[u]
  BY <1>1, <1>2 DEF Store, Delete
<1> HIDE DEF q, b, e, kept
<1>11. OlderBar' = Promise!Touched(id, kept)
  <2>1. kept \subseteq DOMAIN entries /\ id \notin kept
    BY <1>2 DEF kept
  <2> QED
    BY <1>1, <1>4, <1>5, <1>7, <1>8, <1>10, <2>1, PushedIsTouched
<1>12. \A u \in kept : value'[entries'[u]].Payload = value[entries[u]].Payload
  <2>1. \A u \in kept : entries[u] \in Nodes /\ entries[u] # b /\ entries[u] # n
    BY <1>3, <1>4, <1>5, <1>7
  <2> QED
    BY <1>1, <1>3, <1>10, <2>1
<1>13. value'[entries'[id]].Payload = payload
  <2>1. value'[n] = e
    BY <1>1, <1>3
  <2> QED
    BY <1>10, <2>1 DEF e
<1> QED
  BY <1>9, <1>10, <1>11, <1>12, <1>13, StoreFrom DEF kept

LEMMA RemoveKept ==
  ASSUME Good, Good', NEW id, Remove(id)
  PROVE  Promise!Remove(id)
<1>1. ret' = [op |-> "Remove", id |-> id, ok |-> id \in DOMAIN CachedBar]
  BY CachedFacts DEF Remove
<1>2. /\ OlderBar = Order(queue, entries) /\ OlderBar' = Order(queue', entries')
  BY OlderBarIsOrder
<1>3. /\ queue \in Seq(Nodes) /\ Distinct(queue) /\ Elems(queue) \subseteq Nodes
      /\ value \in [Nodes -> LRUEntry \cup {Nil}]
      /\ \A u \in DOMAIN entries : entries[u] \in Elems(queue)
      /\ \A u, w \in DOMAIN entries : entries[u] = entries[w] => u = w
  <2>1. Consistent(queue, entries, value)
    BY DEF Good
  <2>2. /\ queue \in Seq(Nodes) /\ Distinct(queue) /\ Elems(queue) \subseteq Nodes
    BY <2>1, ConsistentFacts
  <2> QED
    BY <2>1, <2>2 DEF Consistent
<1>4. CASE id \notin DOMAIN entries
  <2>1. UNCHANGED <<queue, entries, value>>
    BY <1>4 DEF Remove, cvars
  <2>2. CachedBar' = [i \in DOMAIN CachedBar \ {id} |-> CachedBar[i]]
    BY <1>4, <2>1, CachedFacts DEF CachedBar
  <2>3. OlderBar' = {p \in OlderBar : p[1] # id /\ p[2] # id}
    BY <1>2, <1>4, <2>1 DEF Order
  <2> QED
    BY <1>1, <2>2, <2>3 DEF Promise!Remove
<1>5. CASE id \in DOMAIN entries
  <2>1. /\ entries' = Delete(entries, id)
        /\ queue' = ListRemove(queue, entries[id])
        /\ value' = [value EXCEPT ![entries[id]] = Nil]
    BY <1>5 DEF Remove
  <2>2. DOMAIN entries' = DOMAIN entries \ {id} /\ \A u \in DOMAIN entries' : entries'[u] = entries[u]
    BY <2>1 DEF Delete
  <2>3. CachedBar' = [i \in DOMAIN CachedBar \ {id} |-> CachedBar[i]]
    <3>1. \A u \in DOMAIN entries' : value'[entries'[u]] = value[entries[u]]
      BY <1>3, <1>5, <2>1, <2>2
    <3> QED
      BY <2>2, <3>1, CachedFacts DEF CachedBar
  <2>4. \A u, w \in DOMAIN entries' :
          Before(queue', entries'[w], entries'[u]) <=> Before(queue, entries[w], entries[u])
    BY <1>3, <1>5, <2>1, <2>2, RemoveOrder
  <2>5. OlderBar' = {p \in OlderBar : p[1] # id /\ p[2] # id}
    BY <1>2, <2>2, <2>4 DEF Order
  <2> QED
    BY <1>1, <2>3, <2>5 DEF Promise!Remove
<1> QED
  BY <1>4, <1>5

LEMMA QueriesKept ==
  ASSUME Good,
         (\E id \in Ids : Has(id)) \/ GetFullIDList \/ Size \/ GetOldest
  PROVE  Promise!Query
<1>1. UNCHANGED <<CachedBar, OlderBar>>
  BY DEF Has, GetFullIDList, Size, GetOldest, cvars, CachedBar, OlderBar
<1>2. CASE (\E id \in Ids : Has(id)) \/ GetFullIDList \/ Size
  BY <1>1, <1>2, CachedFacts, SameCount DEF Has, GetFullIDList, Size, Promise!Query
<1>3. CASE GetOldest
  <2>1. CASE DOMAIN entries = {}
    BY <1>1, <1>3, <2>1, CachedFacts DEF GetOldest, Promise!Query
  <2>2. CASE DOMAIN entries # {}
    <3>1. queue # <<>>
      BY <2>2 DEF Good, Consistent, Elems
    <3>2. BackId \in DOMAIN CachedBar /\ entries[BackId] = Back(queue)
          /\ \A w \in DOMAIN CachedBar \ {BackId} : <<BackId, w>> \in OlderBar
      BY <3>1, BackIsOldest, CachedFacts
    <3>3. ret' = [op |-> "GetOldest", ok |-> TRUE, payload |-> CachedBar[BackId]]
      BY <1>3, <2>2, <3>2, CachedFacts DEF GetOldest
    <3> QED
      BY <1>1, <3>2, <3>3 DEF Promise!Query
  <2> QED
    BY <2>1, <2>2
<1> QED
  BY <1>2, <1>3

LEMMA ClearKept == Clear => Promise!Clear
<1> SUFFICES ASSUME Clear PROVE Promise!Clear
  OBVIOUS
<1>1. CachedBar' = [id \in {} |-> Nil]
  BY DEF Clear, CachedBar
<1>2. OlderBar' = {}
  BY DEF Clear, OlderBar
<1> QED
  BY <1>1, <1>2 DEF Clear, Promise!Clear, Promise!Wipe

LEMMA InitKept == Init => Promise!Init
<1> SUFFICES ASSUME Init PROVE Promise!Init
  OBVIOUS
<1>1. CachedBar = [id \in {} |-> Nil]
  BY DEF Init, CachedBar
<1>2. OlderBar = {}
  BY DEF Init, OlderBar
<1> QED
  BY <1>1, <1>2 DEF Init, Promise!Init, Promise!InitCache

LEMMA NextKept == Good /\ Good' /\ [Next]_vars => [Promise!Next]_(Promise!pvars)
<1> SUFFICES ASSUME Good, Good', [Next]_vars PROVE [Promise!Next]_(Promise!pvars)
  OBVIOUS
<1>1. ASSUME NEW id \in Ids, NEW payload \in Payloads, Put(id, payload)
      PROVE  Promise!Put(id, payload)
  BY <1>1, PutExistingKept, PutNewKept, PutEvictKept DEF Put, Promise!Put
<1>2. ASSUME NEW id \in Ids, Get(id)
      PROVE  Promise!Get(id)
  BY <1>2, UseKept, CachedFacts DEF Get, Promise!Get
<1>3. ASSUME NEW id \in Ids, UpdateAccess(id)
      PROVE  Promise!UpdateAccess(id)
  BY <1>3, UseKept DEF UpdateAccess, Promise!UpdateAccess
<1>4. CASE UNCHANGED vars
  BY <1>4 DEF vars, Promise!pvars, CachedBar, OlderBar
<1>5. CASE Next
  BY <1>1, <1>2, <1>3, <1>5, RemoveKept, QueriesKept, ClearKept DEF Next, Promise!Next
<1> QED
  BY <1>4, <1>5

\* lrucache.go keeps the promise of LRUPromise, for any identifiers, payloads, cells and
\* capacity: every call does to the identifiers, payloads and order of use what an
\* abstract LRU map does, and returns what that returns.
THEOREM PromiseKept == Spec => ImplementsPromise
<1>1. Spec => []Good
  BY InitGood, NextGood, PTL DEF Spec
<1> QED
  BY <1>1, InitKept, NextKept, PTL DEF Spec, ImplementsPromise, Promise!Spec
=============================================================================
