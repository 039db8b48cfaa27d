--------------------------- MODULE CelProcProofs ----------------------------
(***************************************************************************)
(* Proofs about CelProc, for every set of callers, requests and contexts,  *)
(* every compiler and evaluator, every capacity and every bound.           *)
(*                                                                         *)
(* The argument: a program never travels without its origin.  Whether a    *)
(* caller compiled it or took it from the cache, and whatever the others   *)
(* stored or evicted in the meantime, it was compiled from the caller's    *)
(* expression for the context of a request that shares the caller's        *)
(* identifier and expression (Origin).  The lookup keeps that because it   *)
(* compares the expressions, the store because it files the program it has *)
(* compiled itself.  What the cache forgets, and how often a program is    *)
(* compiled, have arguments of their own, further down.                    *)
(***************************************************************************)
EXTENDS CelProc, FiniteSetTheorems, WellFoundedInduction, TLAPS

\* n may be answered by the program of m.
Sibling(m, n) ==
  \/ m = n
  \/ /\ m.Identifier = n.Identifier
     /\ m.Identifier # Empty
     /\ m.Expression = n.Expression

Origin(t) ==
  \E m \in Models :
    /\ Sibling(m, req[t])
    /\ prg[t] = Program(m, Keys[m.Context])
    /\ Compiled(m, Keys[m.Context]) = "ok"

\* The answer of t is the one that some sibling's program gives.
Explained(t) == Explains(req[t], res[t])

\* What is known of a caller at each statement.
CallerInv(t) ==
  /\ pc[t] \in {"lookup", "compile", "store", "eval"} => req[t].Expression # Empty
  /\ pc[t] \in {"lookup", "store"} => req[t].Identifier # Empty
  /\ pc[t] = "store" =>
       /\ prg[t] = Program(req[t], Keys[req[t].Context])
       /\ Compiled(req[t], Keys[req[t].Context]) = "ok"
  /\ pc[t] \in {"store", "eval"} => Origin(t)
  /\ pc[t] = "done" => Explained(t)

\* TypeOK of the callers and of the cache, apart.
CallerTypes ==
  /\ pc \in [Callers -> Labels]
  /\ req \in [Callers -> Models \cup {Nil}]
  /\ prg \in [Callers -> Programs \cup {Nil}]
  /\ res \in [Callers -> CelResult \cup {Nil}]
  /\ \A t \in Callers :
       /\ pc[t] = "idle" <=> req[t] = Nil
       /\ pc[t] \in {"store", "eval"} => prg[t] # Nil
       /\ pc[t] = "done" <=> res[t] # Nil

CacheTypes ==
  /\ DOMAIN cached \subseteq CacheIds
  /\ cached \in [DOMAIN cached -> CacheEntry]

IInv ==
  /\ CallerTypes
  /\ CacheTypes
  /\ hits \in Nat /\ builds \in Nat
  /\ CacheCoherent
  /\ \A t \in Callers : CallerInv(t)

-----------------------------------------------------------------------------
(* The engine's operators have the types their names promise.              *)

LEMMA EngineTypes ==
  ASSUME NEW m \in Models, NEW n \in Models
  PROVE  /\ m \in CelModel /\ Keys[m.Context] \in SUBSET Vars
         /\ Program(n, Keys[m.Context]) \in Programs
         /\ Compiled(n, Keys[m.Context]) \in CompileErrors \cup {"ok"}
         /\ Rejection(m) \in CelResult
         /\ \A prog \in Programs : Evaluated(m, prog) \in CelResult
         /\ \A err \in CompileErrors : Failure(err) \in CelResult
<1>1. m \in CelModel /\ n \in CelModel /\ Keys[m.Context] \in SUBSET Vars
  BY EngineAssumption DEF CelModel
<1>2. Program(n, Keys[m.Context]) \in Programs
  BY <1>1 DEF Program, Programs, CelModel
<1>3. Compiled(n, Keys[m.Context]) \in CompileErrors \cup {"ok"}
  BY <1>1, EngineAssumption DEF Compiled, CelModel
<1>4. Rejection(m) \in CelResult
  BY <1>1 DEF Rejection, CelResult, CelModel, Errors
<1>5. ASSUME NEW prog \in Programs PROVE Evaluated(m, prog) \in CelResult
  BY <1>1, EngineAssumption
     DEF Evaluated, Failure, createCelResult, CelResult, CelModel, Errors
<1>6. ASSUME NEW err \in CompileErrors PROVE Failure(err) \in CelResult
  BY <1>6, EngineAssumption DEF Failure, CelResult, Errors
<1> QED
  BY <1>1, <1>2, <1>3, <1>4, <1>5, <1>6

LEMMA InitIInv == Init => IInv
<1> SUFFICES ASSUME Init PROVE IInv
  OBVIOUS
<1>1. DOMAIN cached = {} /\ cached \in [DOMAIN cached -> CacheEntry]
  BY DEF Init, lcache!InitCache
<1>2. CallerTypes
  BY DEF Init, CallerTypes, Labels
<1>3. \A t \in Callers : CallerInv(t)
  BY DEF Init, CallerInv
<1> QED
  BY <1>1, <1>2, <1>3 DEF Init, IInv, CacheTypes, CacheCoherent

-----------------------------------------------------------------------------
(* Every step preserves the invariant.                                     *)

\* A caller that does not move keeps what is known of it.
LEMMA OthersKeep ==
  ASSUME NEW u, CallerInv(u),
         pc'[u] = pc[u], req'[u] = req[u], prg'[u] = prg[u], res'[u] = res[u]
  PROVE  CallerInv(u)'
BY DEF CallerInv, Origin, Explained

\* What a step of t has to establish, when it leaves the cache alone.
LEMMA StepOfOne ==
  ASSUME IInv, NEW t \in Callers, UNCHANGED lvars,
         NEW label \in Labels, pc' = [pc EXCEPT ![t] = label],
         NEW q \in Models \cup {Nil}, req' = [req EXCEPT ![t] = q],
         NEW p \in Programs \cup {Nil}, prg' = [prg EXCEPT ![t] = p],
         NEW r \in CelResult \cup {Nil}, res' = [res EXCEPT ![t] = r],
         label = "idle" <=> q = Nil,
         label \in {"store", "eval"} => p # Nil,
         label = "done" <=> r # Nil,
         hits' \in Nat, builds' \in Nat, CallerInv(t)'
  PROVE  IInv'
<1>1. CallerTypes'
  BY DEF IInv, CallerTypes
<1>2. CacheTypes'
  BY DEF IInv, CacheTypes, lvars
<1>3. CacheCoherent'
  BY DEF IInv, CacheCoherent, lvars
<1>4. ASSUME NEW u \in Callers PROVE CallerInv(u)'
  <2>1. CASE u = t
    BY <2>1
  <2>2. CASE u # t
    BY <2>2, OthersKeep DEF IInv, CallerTypes
  <2> QED
    BY <2>1, <2>2
<1> QED
  BY <1>1, <1>2, <1>3, <1>4 DEF IInv

LEMMA BeginIInv ==
  ASSUME IInv, NEW t \in Callers, NEW m \in Models, Begin(t, m)
  PROVE  IInv'
<1>1. /\ pc' = [pc EXCEPT ![t] = "start"]
      /\ req' = [req EXCEPT ![t] = m]
      /\ prg' = [prg EXCEPT ![t] = prg[t]]
      /\ res' = [res EXCEPT ![t] = res[t]]
      /\ pc[t] = "idle"
  BY DEF Begin, At, Goto, IInv, CallerTypes
<1>2. prg[t] \in Programs \cup {Nil} /\ res[t] = Nil /\ m # Nil
  BY <1>1, NilAssumption DEF IInv, CallerTypes
<1>3. CallerInv(t)'
  BY <1>1 DEF CallerInv, IInv, CallerTypes
<1>4. hits' \in Nat /\ builds' \in Nat /\ UNCHANGED lvars
  BY DEF Begin, IInv
<1>9. "start" \in Labels
  BY DEF Labels
<1> QED
  BY <1>1, <1>2, <1>3, <1>4, <1>9, StepOfOne

\* A caller inside ProcCel has a request.
LEMMA Asked ==
  ASSUME IInv, NEW t \in Callers, pc[t] # "idle"
  PROVE  req[t] \in Models /\ req[t] # Nil
BY DEF IInv, CallerTypes

LEMMA RejectIInv ==
  ASSUME IInv, NEW t \in Callers, Reject(t)
  PROVE  IInv'
<1> DEFINE r == Rejection(req[t])
<1>1. /\ pc' = [pc EXCEPT ![t] = "done"]
      /\ req' = [req EXCEPT ![t] = req[t]]
      /\ prg' = [prg EXCEPT ![t] = prg[t]]
      /\ res' = [res EXCEPT ![t] = r]
      /\ pc[t] = "start"
  BY DEF Reject, At, Goto, IInv, CallerTypes
<1>2. prg[t] \in Programs \cup {Nil} /\ req[t] \in Models /\ req[t] # Nil
  BY <1>1, Asked DEF IInv, CallerTypes
<1>3. r \in CelResult /\ r # Nil
  BY <1>2, EngineTypes, NilAssumption
<1>4. CallerInv(t)'
  <2>1. pc'[t] = "done" /\ req'[t] = req[t] /\ res'[t] = r
    BY <1>1 DEF IInv, CallerTypes
  <2>2. Explained(t)'
    BY <2>1 DEF Reject, Explained, Explains, Answer, AnswerWith
  <2> QED
    BY <2>1, <2>2 DEF CallerInv
<1> HIDE DEF r
<1>5. hits' \in Nat /\ builds' \in Nat /\ UNCHANGED lvars
  BY DEF Reject, IInv
<1>9. "done" \in Labels
  BY DEF Labels
<1> QED
  BY <1>1, <1>2, <1>3, <1>4, <1>5, <1>9, StepOfOne

LEMMA StartIInv ==
  ASSUME IInv, NEW t \in Callers, Start(t)
  PROVE  IInv'
<1> DEFINE label == IF req[t].Identifier = Empty THEN "compile" ELSE "lookup"
<1>1. /\ pc' = [pc EXCEPT ![t] = label]
      /\ req' = [req EXCEPT ![t] = req[t]]
      /\ prg' = [prg EXCEPT ![t] = prg[t]]
      /\ res' = [res EXCEPT ![t] = res[t]]
      /\ pc[t] = "start"
  BY DEF Start, At, Goto, IInv, CallerTypes
<1>2. /\ prg[t] \in Programs \cup {Nil} /\ res[t] = Nil
      /\ req[t] \in Models /\ req[t] # Nil
  BY <1>1, Asked DEF IInv, CallerTypes
<1>4. label \in {"compile", "lookup"} /\ (label = "lookup" => req[t].Identifier # Empty)
  OBVIOUS
<1>6. req'[t] = req[t] /\ pc'[t] = label /\ req[t].Expression # Empty
  BY <1>1 DEF Start, IInv, CallerTypes
<1> HIDE DEF label
<1>3. CallerInv(t)'
  BY <1>4, <1>6 DEF CallerInv
<1>5. hits' \in Nat /\ builds' \in Nat /\ UNCHANGED lvars
  BY DEF Start, IInv
<1>9. label \in Labels /\ label \notin {"idle", "store", "eval", "done"}
  BY <1>4 DEF Labels
<1> QED
  BY <1>1, <1>2, <1>3, <1>5, <1>9, StepOfOne

LEMMA MissIInv ==
  ASSUME IInv, NEW t \in Callers, Miss(t)
  PROVE  IInv'
<1>1. /\ pc' = [pc EXCEPT ![t] = "compile"]
      /\ req' = [req EXCEPT ![t] = req[t]]
      /\ prg' = [prg EXCEPT ![t] = prg[t]]
      /\ res' = [res EXCEPT ![t] = res[t]]
      /\ pc[t] = "lookup"
  BY DEF Miss, At, Goto, IInv, CallerTypes
<1>2. /\ prg[t] \in Programs \cup {Nil} /\ res[t] = Nil
      /\ req[t] \in Models /\ req[t] # Nil
  BY <1>1, Asked DEF IInv, CallerTypes
<1>3. CallerInv(t)'
  BY <1>1 DEF CallerInv, IInv, CallerTypes
<1>4. hits' \in Nat /\ builds' \in Nat /\ UNCHANGED lvars
  BY DEF Miss, IInv
<1>9. "compile" \in Labels
  BY DEF Labels
<1> QED
  BY <1>1, <1>2, <1>3, <1>4, <1>9, StepOfOne

LEMMA CompileIInv ==
  ASSUME IInv, NEW t \in Callers, Compile(t)
  PROVE  IInv'
<1> DEFINE m == req[t]
           outcome == Compiled(m, declList(m))
<1>1. pc[t] = "compile" /\ m \in Models /\ m # Nil /\ m.Expression # Empty
  BY Asked DEF Compile, At, IInv, CallerInv
<1>2. hits' \in Nat /\ builds' \in Nat /\ UNCHANGED lvars
  BY DEF Compile, IInv
<1>3. req' = [req EXCEPT ![t] = m]
  BY DEF Compile, IInv, CallerTypes
<1>4. CASE outcome = "ok"
  <2> DEFINE label == IF m.Identifier = Empty THEN "eval" ELSE "store"
             p == Program(m, declList(m))
  <2>1. /\ pc' = [pc EXCEPT ![t] = label]
        /\ prg' = [prg EXCEPT ![t] = p]
        /\ res' = [res EXCEPT ![t] = res[t]]
    BY <1>4 DEF Compile, At, Goto, IInv, CallerTypes
  <2>2. p \in Programs /\ p # Nil /\ res[t] = Nil
    BY <1>1, EngineTypes, NilAssumption DEF declList, IInv, CallerTypes
  <2>3. label \in {"eval", "store"}
    OBVIOUS
  <2>4. prg'[t] = p /\ req'[t] = m /\ pc'[t] = label
    BY <1>3, <2>1 DEF IInv, CallerTypes
  <2>5. Origin(t)'
    BY <1>1, <1>4, <2>4 DEF Origin, Sibling, declList
  <2>6. CallerInv(t)'
    BY <1>1, <1>4, <2>4, <2>5 DEF CallerInv, declList
  <2> HIDE DEF label, p, m, outcome
  <2>9. label \in Labels
    BY <2>3 DEF Labels
  <2> QED
    BY <1>1, <1>2, <1>3, <2>1, <2>2, <2>3, <2>6, <2>9, StepOfOne
<1>5. CASE outcome # "ok"
  <2> DEFINE r == Failure(outcome)
  <2>1. /\ pc' = [pc EXCEPT ![t] = "done"]
        /\ prg' = [prg EXCEPT ![t] = prg[t]]
        /\ res' = [res EXCEPT ![t] = r]
    BY <1>5 DEF Compile, At, Goto, IInv, CallerTypes
  <2>2. outcome \in CompileErrors
    BY <1>1, <1>5, EngineTypes DEF declList
  <2>3. r \in CelResult /\ r # Nil /\ prg[t] \in Programs \cup {Nil}
    BY <1>1, <2>2, EngineTypes, NilAssumption DEF IInv, CallerTypes
  <2>4. pc'[t] = "done" /\ req'[t] = m /\ res'[t] = r
    BY <1>3, <2>1 DEF IInv, CallerTypes
  <2>5. Explained(t)'
    BY <1>1, <1>5, <2>4 DEF Explained, Explains, Answer, AnswerWith, declList
  <2>6. CallerInv(t)'
    BY <2>4, <2>5 DEF CallerInv
  <2> HIDE DEF r, m, outcome
  <2>9. "done" \in Labels
    BY DEF Labels
  <2> QED
    BY <1>1, <1>2, <1>3, <2>1, <2>3, <2>6, <2>9, StepOfOne
<1> QED
  BY <1>4, <1>5

\* A use of the cache leaves its contents alone.
LEMMA HitIInv ==
  ASSUME IInv, NEW t \in Callers, Hit(t)
  PROVE  IInv'
<1> DEFINE m == req[t]
           entry == cached[m.Identifier]
<1>1. /\ pc[t] = "lookup" /\ m \in Models /\ m # Nil
      /\ m.Expression # Empty /\ m.Identifier # Empty
  BY Asked DEF Hit, At, IInv, CallerInv
<1>2. hits' \in Nat /\ builds' \in Nat /\ cached' = cached
  BY DEF Hit, IInv, lcache!Use
<1>3. /\ req' = [req EXCEPT ![t] = m]
      /\ res' = [res EXCEPT ![t] = res[t]] /\ res[t] = Nil
  BY <1>1 DEF Hit, IInv, CallerTypes
<1>4. PICK p \in Programs \cup {Nil}, label \in {"eval", "compile"} :
        /\ pc' = [pc EXCEPT ![t] = label]
        /\ prg' = [prg EXCEPT ![t] = p]
        /\ label = "eval" => Usable(entry, m) /\ p = entry.Program /\ p # Nil
  <2>1. CASE Usable(entry, m)
    <3>1. entry \in CacheEntry
      BY DEF Hit, IInv, CacheTypes
    <3>2. entry.Program \in Programs /\ entry.Program # Nil
      BY <3>1, NilAssumption DEF CacheEntry
    <3>3. pc' = [pc EXCEPT ![t] = "eval"] /\ prg' = [prg EXCEPT ![t] = entry.Program]
      BY <2>1 DEF Hit, Goto
    <3> QED
      BY <2>1, <3>2, <3>3
  <2>2. CASE ~Usable(entry, m)
    <3>1. pc' = [pc EXCEPT ![t] = "compile"] /\ prg' = [prg EXCEPT ![t] = prg[t]]
      BY <2>2 DEF Hit, Goto, IInv, CallerTypes
    <3>2. prg[t] \in Programs \cup {Nil}
      BY DEF IInv, CallerTypes
    <3> QED
      BY <3>1, <3>2
  <2> QED
    BY <2>1, <2>2
<1>5. pc'[t] = label /\ prg'[t] = p /\ req'[t] = m
  BY <1>3, <1>4 DEF IInv, CallerTypes
<1>6. label = "eval" => Origin(t)'
  <2> SUFFICES ASSUME label = "eval" PROVE Origin(t)'
    OBVIOUS
  <2>1. PICK n \in Models :
          /\ n.Identifier = m.Identifier
          /\ entry.Expression = n.Expression
          /\ entry.Program = Program(n, Keys[n.Context])
          /\ Compiled(n, Keys[n.Context]) = "ok"
    BY DEF Hit, IInv, CacheCoherent
  <2>2. n.Expression = m.Expression /\ p = Program(n, Keys[n.Context])
    BY <1>4, <2>1 DEF Usable
  <2> QED
    BY <1>1, <1>5, <2>1, <2>2 DEF Origin, Sibling
<1>7. CallerInv(t)'
  BY <1>1, <1>4, <1>5, <1>6 DEF CallerInv
<1> HIDE DEF m, entry
<1>8. CallerTypes'
  BY <1>1, <1>3, <1>4 DEF IInv, CallerTypes, Labels
<1>9. CacheTypes' /\ CacheCoherent'
  BY <1>2 DEF IInv, CacheTypes, CacheCoherent
<1>10. ASSUME NEW u \in Callers PROVE CallerInv(u)'
  BY <1>3, <1>4, <1>7, OthersKeep DEF IInv, CallerTypes
<1> QED
  BY <1>2, <1>8, <1>9, <1>10 DEF IInv

\* What is stored is the program that the caller itself has compiled.
LEMMA StoreIInv ==
  ASSUME IInv, NEW t \in Callers, Store(t)
  PROVE  IInv'
<1> DEFINE m == req[t]
           e == entryFor(m, prg[t])
<1>1. /\ pc[t] = "store" /\ m \in Models /\ m # Nil
      /\ m.Expression # Empty /\ m.Identifier # Empty
      /\ prg[t] = Program(m, Keys[m.Context])
      /\ Compiled(m, Keys[m.Context]) = "ok"
      /\ Origin(t)
  BY Asked DEF Store, At, IInv, CallerInv
<1>2. /\ pc' = [pc EXCEPT ![t] = "eval"] /\ UNCHANGED <<hits, builds, req, prg, res>>
  BY DEF Store, Goto
<1>3. /\ DOMAIN cached' \subseteq DOMAIN cached \cup {m.Identifier}
      /\ \A i \in DOMAIN cached' : cached'[i] = IF i = m.Identifier THEN e ELSE cached[i]
      /\ cached' = [i \in DOMAIN cached' |-> cached'[i]]
  <2> DEFINE kept == DOMAIN cached \ lcache!Victims(m.Identifier)
  <2>1. cached' = [i \in kept \cup {m.Identifier} |->
                     IF i = m.Identifier THEN e ELSE cached[i]]
    BY DEF Store, lcache!Store
  <2>2. kept \subseteq DOMAIN cached
    OBVIOUS
  <2> HIDE DEF kept
  <2> QED
    BY <2>1, <2>2
<1>4. e \in CacheEntry /\ m.Identifier \in CacheIds
  BY <1>1, EngineTypes DEF entryFor, CacheEntry, CacheIds, CelModel
<1>5. CacheTypes'
  <2>1. \A i \in DOMAIN cached' : i \in CacheIds /\ cached'[i] \in CacheEntry
    BY <1>3, <1>4 DEF IInv, CacheTypes
  <2> QED
    BY <1>3, <2>1 DEF CacheTypes
<1>6. CacheCoherent'
  <2> SUFFICES ASSUME NEW i \in DOMAIN cached'
               PROVE  \E n \in Models :
                        /\ n.Identifier = i
                        /\ cached'[i] = [ID |-> i, Expression |-> n.Expression,
                                        Program |-> Program(n, Keys[n.Context])]
                        /\ Compiled(n, Keys[n.Context]) = "ok"
    BY DEF CacheCoherent
  <2>1. CASE i = m.Identifier
    BY <1>1, <1>3, <2>1 DEF entryFor
  <2>2. CASE i # m.Identifier
    BY <1>3, <2>2 DEF IInv, CacheCoherent
  <2> QED
    BY <2>1, <2>2
<1>7. CallerTypes'
  BY <1>1, <1>2, NilAssumption DEF IInv, CallerTypes, Labels
<1>8. CallerInv(t)'
  BY <1>1, <1>2 DEF CallerInv, Origin, IInv, CallerTypes
<1>9. ASSUME NEW u \in Callers PROVE CallerInv(u)'
  BY <1>2, <1>8, OthersKeep DEF IInv, CallerTypes
<1> QED
  BY <1>2, <1>5, <1>6, <1>7, <1>9 DEF IInv

\* What a program of known origin evaluates to is an answer by AnswerWith.
LEMMA EvaluatedByOrigin ==
  ASSUME NEW q \in Models, NEW m \in Models, Sibling(m, q), q.Expression # Empty,
         Compiled(m, Keys[m.Context]) = "ok"
  PROVE  AnswerWith(q, Keys[m.Context]) = Evaluated(q, Program(m, Keys[m.Context]))
<1>1. m.Expression = q.Expression
  BY DEF Sibling
<1>2. Compiled(q, Keys[m.Context]) = "ok"
  BY <1>1 DEF Compiled
<1>3. Program(q, Keys[m.Context]) = Program(m, Keys[m.Context])
  BY <1>1 DEF Program
<1> QED
  BY <1>2, <1>3 DEF AnswerWith

LEMMA EvalIInv ==
  ASSUME IInv, NEW t \in Callers, Eval(t)
  PROVE  IInv'
<1> DEFINE r == Evaluated(req[t], prg[t])
<1>1. /\ pc' = [pc EXCEPT ![t] = "done"]
      /\ req' = [req EXCEPT ![t] = req[t]]
      /\ prg' = [prg EXCEPT ![t] = prg[t]]
      /\ res' = [res EXCEPT ![t] = r]
      /\ pc[t] = "eval"
  BY DEF Eval, At, Goto, IInv, CallerTypes
<1>2. prg[t] \in Programs /\ req[t] \in Models /\ req[t] # Nil
  BY <1>1, Asked DEF IInv, CallerTypes
<1>3. r \in CelResult /\ r # Nil
  BY <1>2, EngineTypes, NilAssumption
<1>4. CallerInv(t)'
  <2>1. pc'[t] = "done" /\ req'[t] = req[t] /\ res'[t] = r
    BY <1>1 DEF IInv, CallerTypes
  <2>2. req[t].Expression # Empty
    BY <1>1 DEF IInv, CallerInv
  <2>3. PICK m \in Models :
          /\ Sibling(m, req[t])
          /\ prg[t] = Program(m, Keys[m.Context])
          /\ Compiled(m, Keys[m.Context]) = "ok"
    BY <1>1 DEF IInv, CallerInv, Origin
  <2>4. r = AnswerWith(req[t], Keys[m.Context])
    BY <1>2, <2>2, <2>3, EvaluatedByOrigin
  <2> HIDE DEF r
  <2>5. Explained(t)'
    BY <2>1, <2>3, <2>4 DEF Explained, Explains, Answer, Sibling
  <2> QED
    BY <2>1, <2>5 DEF CallerInv
<1>5. hits' \in Nat /\ builds' \in Nat /\ UNCHANGED lvars
  BY DEF Eval, IInv
<1> HIDE DEF r
<1>9. "done" \in Labels
  BY DEF Labels
<1> QED
  BY <1>1, <1>2, <1>3, <1>4, <1>5, <1>9, StepOfOne

LEMMA ReturnIInv ==
  ASSUME IInv, NEW t \in Callers, Return(t)
  PROVE  IInv'
<1>1. /\ pc' = [pc EXCEPT ![t] = "idle"]
      /\ req' = [req EXCEPT ![t] = Nil]
      /\ prg' = [prg EXCEPT ![t] = Nil]
      /\ res' = [res EXCEPT ![t] = Nil]
  BY DEF Return, Goto
<1>2. CallerInv(t)'
  BY <1>1 DEF CallerInv, IInv, CallerTypes
<1>3. hits' \in Nat /\ builds' \in Nat /\ UNCHANGED lvars
  BY DEF Return, IInv
<1>9. "idle" \in Labels
  BY DEF Labels
<1> QED
  BY <1>1, <1>2, <1>3, <1>9, StepOfOne

\* An empty cache is coherent.
LEMMA ClearCacheIInv ==
  ASSUME IInv, ClearCache
  PROVE  IInv'
<1>1. DOMAIN cached' = {} /\ cached' \in [DOMAIN cached' -> CacheEntry]
  BY DEF ClearCache, lcache!Wipe
<1>2. UNCHANGED <<hits, builds, pc, req, prg, res>>
  BY DEF ClearCache
<1>3. CallerTypes' /\ CacheTypes' /\ CacheCoherent'
  BY <1>1, <1>2 DEF IInv, CallerTypes, CacheTypes, CacheCoherent
<1>4. ASSUME NEW u \in Callers PROVE CallerInv(u)'
  BY <1>2, OthersKeep DEF IInv
<1> QED
  BY <1>2, <1>3, <1>4 DEF IInv

LEMMA UnchangedIInv == IInv /\ UNCHANGED vars => IInv'
<1> SUFFICES ASSUME IInv, UNCHANGED vars PROVE IInv'
  OBVIOUS
<1>1. CallerTypes' /\ CacheTypes' /\ CacheCoherent' /\ hits' \in Nat /\ builds' \in Nat
  BY DEF vars, IInv, CallerTypes, CacheTypes, CacheCoherent
<1>2. ASSUME NEW u \in Callers PROVE CallerInv(u)'
  BY OthersKeep DEF vars, IInv
<1> QED
  BY <1>1, <1>2 DEF IInv

LEMMA NextIInv == IInv /\ [Next]_vars => IInv'
<1> SUFFICES ASSUME IInv, [Next]_vars PROVE IInv'
  OBVIOUS
<1>1. ASSUME NEW t \in Callers, NEW m \in Models, Begin(t, m) PROVE IInv'
  BY <1>1, BeginIInv
<1>2. ASSUME NEW t \in Callers, Step(t) PROVE IInv'
  BY <1>2, RejectIInv, StartIInv, HitIInv, MissIInv, CompileIInv, StoreIInv, EvalIInv
     DEF Step
<1>3. ASSUME NEW t \in Callers, Return(t) PROVE IInv'
  BY <1>3, ReturnIInv
<1>4. CASE Stopped \/ UNCHANGED vars
  BY <1>4, UnchangedIInv DEF Stopped
<1> QED
  BY <1>1, <1>2, <1>3, <1>4, ClearCacheIInv DEF Next

-----------------------------------------------------------------------------
(* The theorems.                                                           *)

LEMMA Invariance == Spec => []IInv
BY InitIInv, NextIInv, PTL DEF Spec

\* The variables have their types and the locals of ProcCel are set where the
\* code sets them, in every interleaving of any number of callers.
THEOREM TypeCorrect == Spec => []TypeOK
<1>1. IInv => TypeOK
  BY DEF IInv, CallerTypes, CacheTypes, TypeOK
<1> QED
  BY <1>1, Invariance, PTL

LEMMA RunsOwn == IInv => RunsOwnExpression
<1> SUFFICES ASSUME IInv, NEW t \in Callers, pc[t] \in {"store", "eval"}
             PROVE  /\ prg[t].expr = req[t].Expression
                    /\ Compiler[prg[t].expr, prg[t].vars] = "ok"
  BY DEF RunsOwnExpression
<1>1. PICK m \in Models :
        /\ Sibling(m, req[t])
        /\ prg[t] = Program(m, Keys[m.Context])
        /\ Compiled(m, Keys[m.Context]) = "ok"
  BY DEF IInv, CallerInv, Origin
<1>2. prg[t].expr = m.Expression /\ prg[t].vars = Keys[m.Context]
  BY <1>1 DEF Program
<1> QED
  BY <1>1, <1>2 DEF Sibling, Compiled

LEMMA AllExplained == IInv => AnswerExplained
BY DEF IInv, CallerInv, Explained, AnswerExplained

\* However callers interleave, each is answered by a program that was compiled
\* from its own expression and that compiled without errors.
THEOREM OwnExpression == Spec => []RunsOwnExpression
BY RunsOwn, Invariance, PTL

\* Whatever interleaving and whatever definitions the contexts have, the answer
\* is the one the request's expression has when compiled for the context of a
\* request with the same identifier and expression.
THEOREM Explanation == Spec => []AnswerExplained
BY AllExplained, Invariance, PTL

\* The cache never holds a program under another identifier or beside another
\* expression than those it was compiled for.
THEOREM Coherence == Spec => []CacheCoherent
<1>1. IInv => CacheCoherent
  BY DEF IInv
<1> QED
  BY <1>1, Invariance, PTL

-----------------------------------------------------------------------------
(* How often is compiled.  Nothing in the state says which caller has      *)
(* compiled for which identifier, but it says which pairs of the two can   *)
(* no longer be at fault: as long as an identifier is not cached, those    *)
(* callers that are about to store it; then, all but those that have       *)
(* looked before and still compile.  Every compilation adds a pair.        *)

Names == {m.Identifier : m \in Models}

SpentBy(u, id) ==
  IF id \in DOMAIN cached THEN ~(pc[u] = "compile" /\ req[u].Identifier = id)
                          ELSE pc[u] = "store" /\ req[u].Identifier = id

Spent == {p \in Callers \X Names : SpentBy(p[1], p[2])}

\* What OneProgramPerIdentifier needs to be a number of callers and identifiers.
Countable == IsFiniteSet(Callers) /\ IsFiniteSet(Names)

LEMMA SpentCounted ==
  ASSUME Countable
  PROVE  /\ IsFiniteSet(Spent) /\ Cardinality(Spent) \in Nat
         /\ Cardinality(Spent) <= Cardinality(Callers) * Cardinality(Names)
         /\ Cardinality(Callers) * Cardinality(Names) \in Nat
<1>1. /\ IsFiniteSet(Callers \X Names)
      /\ Cardinality(Callers \X Names) = Cardinality(Callers) * Cardinality(Names)
  BY FS_Product DEF Countable
<1>2. Spent \subseteq Callers \X Names
  BY DEF Spent
<1>3. IsFiniteSet(Spent) /\ Cardinality(Spent) <= Cardinality(Callers \X Names)
  BY <1>1, <1>2, FS_Subset
<1>4. Cardinality(Spent) \in Nat /\ Cardinality(Callers \X Names) \in Nat
  BY <1>1, <1>3, FS_CardinalityType
<1> QED
  BY <1>1, <1>3, <1>4

LEMMA SpentFiniteNext ==
  ASSUME Countable
  PROVE  IsFiniteSet(Spent') /\ Cardinality(Spent') \in Nat
<1>1. IsFiniteSet(Callers \X Names)
  BY FS_Product DEF Countable
<1>2. Spent' \subseteq Callers \X Names
  BY DEF Spent, Names
<1> QED
  BY <1>1, <1>2, FS_Subset, FS_CardinalityType

\* LRUPromise counts with an instance of its own.
LEMMA SameCount == \A S : lcache!Cardinality(S) = Cardinality(S)
BY DEF Cardinality, lcache!Cardinality, IsFiniteSet, lcache!IsFiniteSet

\* There is room for every identifier, so nothing is evicted.
LEMMA NoVictims ==
  ASSUME IInv, Countable, OneProgramPerIdentifier, NEW id \in Names
  PROVE  lcache!Victims(id) = {}
<1>1. DOMAIN cached \subseteq Names
  BY DEF IInv, CacheCoherent, Names
<1>2. CASE id \in DOMAIN cached
  BY <1>2 DEF lcache!Victims
<1>3. CASE id \notin DOMAIN cached
  <2>1. IsFiniteSet(DOMAIN cached) /\ Cardinality(DOMAIN cached) \in Nat
    BY <1>1, FS_Subset, FS_CardinalityType DEF Countable
  <2>2. Cardinality(DOMAIN cached \cup {id}) = Cardinality(DOMAIN cached) + 1
    BY <1>3, <2>1, FS_AddElement
  <2>3. /\ Cardinality(DOMAIN cached \cup {id}) <= Cardinality(Names)
        /\ Cardinality(Names) \in Nat
    BY <1>1, FS_Subset, FS_CardinalityType DEF Countable
  <2>4. Cardinality(Names) <= Capacity /\ Capacity \in Nat
    BY CapacityAssumption DEF OneProgramPerIdentifier, Names
  <2>5. Cardinality(DOMAIN cached) < Capacity
    BY <2>1, <2>2, <2>3, <2>4
  <2> QED
    BY <2>5, SameCount DEF lcache!Victims
<1> QED
  BY <1>2, <1>3

\* A step that neither compiles nor sends anybody to compile a cached identifier.
LEMMA NothingLost ==
  ASSUME NEW t \in Callers, DOMAIN cached' = DOMAIN cached, pc[t] # "store",
         \A u \in Callers \ {t} : pc'[u] = pc[u] /\ req'[u] = req[u],
         pc'[t] = "compile" => req'[t].Identifier \notin DOMAIN cached
  PROVE  Spent \subseteq Spent'
<1>1. ASSUME NEW u \in Callers, NEW id \in Names, SpentBy(u, id) PROVE SpentBy(u, id)'
  BY <1>1 DEF SpentBy
<1> QED
  BY <1>1 DEF Spent, Names

LEMMA StepSpends ==
  ASSUME IInv, Countable, OneProgramPerIdentifier, NEW t \in Callers,
         \/ \E m \in Models : Begin(t, m)
         \/ Reject(t) \/ Start(t) \/ Hit(t) \/ Miss(t) \/ Store(t) \/ Eval(t) \/ Return(t)
  PROVE  builds' = builds /\ Spent \subseteq Spent'
<1>0. builds' = builds
  BY DEF Begin, Reject, Start, Hit, Miss, Store, Eval, Return
<1>1. pc \in [Callers -> Labels] /\ DOMAIN req = Callers
  BY DEF IInv, CallerTypes
<1>2. CASE (\E m \in Models : Begin(t, m)) \/ Reject(t) \/ Eval(t) \/ Return(t)
  <2>1. /\ cached' = cached /\ pc[t] # "store" /\ pc'[t] # "compile"
        /\ \A u \in Callers \ {t} : pc'[u] = pc[u] /\ req'[u] = req[u]
    BY <1>1, <1>2 DEF Begin, Reject, Eval, Return, At, Goto, lvars
  <2> QED
    BY <1>0, <2>1, NothingLost
<1>3. CASE Start(t)
  <2>1. req[t] \in Models
    BY <1>3, Asked DEF Start, At
  <2>2. req[t].Identifier # Empty
    BY <2>1 DEF OneProgramPerIdentifier
  <2>3. /\ cached' = cached /\ pc[t] # "store" /\ pc'[t] # "compile"
        /\ \A u \in Callers \ {t} : pc'[u] = pc[u] /\ req'[u] = req[u]
    BY <1>1, <1>3, <2>2 DEF Start, At, Goto, lvars
  <2> QED
    BY <1>0, <2>3, NothingLost
<1>4. CASE Hit(t)
  <2>1. req[t] \in Models /\ req[t].Identifier \in DOMAIN cached
    BY <1>4, Asked DEF Hit, At
  <2>2. PICK n \in Models : /\ n.Identifier = req[t].Identifier
                            /\ cached[req[t].Identifier].Expression = n.Expression
    BY <2>1 DEF IInv, CacheCoherent
  <2>3. Usable(cached[req[t].Identifier], req[t])
    BY <2>1, <2>2 DEF OneProgramPerIdentifier, Usable
  <2>4. /\ cached' = cached /\ pc[t] # "store" /\ pc'[t] # "compile"
        /\ \A u \in Callers \ {t} : pc'[u] = pc[u] /\ req'[u] = req[u]
    BY <1>1, <1>4, <2>3 DEF Hit, At, Goto, lcache!Use
  <2> QED
    BY <1>0, <2>4, NothingLost
<1>5. CASE Miss(t)
  <2>1. /\ cached' = cached /\ pc[t] # "store" /\ req' = req
        /\ req[t].Identifier \notin DOMAIN cached
        /\ \A u \in Callers \ {t} : pc'[u] = pc[u]
    BY <1>1, <1>5 DEF Miss, At, Goto, lvars
  <2> QED
    BY <1>0, <2>1, NothingLost
<1>6. CASE Store(t)
  <2>1. PICK id : id = req[t].Identifier
    OBVIOUS
  <2>2. id \in Names
    BY <1>6, <2>1, Asked DEF Store, At, Names
  <2>3. /\ pc[t] = "store" /\ pc'[t] = "eval" /\ req' = req
        /\ \A u \in Callers \ {t} : pc'[u] = pc[u]
    BY <1>1, <1>6 DEF Store, At, Goto
  <2>4. DOMAIN cached' = DOMAIN cached \cup {id}
    BY <1>6, <2>1, <2>2, NoVictims DEF Store, lcache!Store
  <2>5. ASSUME NEW u \in Callers, NEW i \in Names, SpentBy(u, i) PROVE SpentBy(u, i)'
    BY <2>1, <2>3, <2>4, <2>5 DEF SpentBy
  <2> QED
    BY <1>0, <2>5 DEF Spent, Names
<1> QED
  BY <1>2, <1>3, <1>4, <1>5, <1>6

\* The pair of a caller that compiles was not spent, and is.
LEMMA CompileSpends ==
  ASSUME IInv, Countable, OneProgramPerIdentifier, NEW t \in Callers, Compile(t)
  PROVE  builds' = builds + 1 /\ Cardinality(Spent) + 1 <= Cardinality(Spent')
<1>1. pc \in [Callers -> Labels] /\ pc[t] = "compile" /\ builds' = builds + 1
  BY DEF IInv, CallerTypes, Compile, At
<1>2. PICK id : id = req[t].Identifier
  OBVIOUS
<1>3. req[t] \in Models /\ id \in Names /\ id # Empty /\ Compiled(req[t], Keys[req[t].Context]) = "ok"
  BY <1>1, <1>2, Asked DEF Names, OneProgramPerIdentifier
<1>4. /\ pc'[t] = "store" /\ req' = req /\ cached' = cached
      /\ \A u \in Callers \ {t} : pc'[u] = pc[u]
  BY <1>1, <1>2, <1>3 DEF Compile, Goto, declList, lvars
<1>5. <<t, id>> \notin Spent /\ <<t, id>> \in Spent'
  BY <1>1, <1>2, <1>3, <1>4 DEF Spent, SpentBy, Names
<1>6. Spent \subseteq Spent'
  BY <1>1, <1>4, NothingLost
<1>7. IsFiniteSet(Spent) /\ Cardinality(Spent) \in Nat
  BY SpentCounted
<1>8. IsFiniteSet(Spent')
  BY <1>1, SpentFiniteNext
<1>9. Cardinality(Spent \cup {<<t, id>>}) = Cardinality(Spent) + 1
  BY <1>5, <1>7, FS_AddElement
<1>10. Cardinality(Spent \cup {<<t, id>>}) <= Cardinality(Spent')
  BY <1>5, <1>6, <1>8, FS_Subset
<1> QED
  BY <1>1, <1>9, <1>10

\* With one expression for each identifier, room for all identifiers and no ClearCache,
\* however many requests there are, a caller compiles at most once for each identifier: only
\* those compile that have looked before the first program was stored.
THEOREM BuildsAreBounded ==
  ASSUME OneProgramPerIdentifier, Countable
  PROVE  Spec => []BuildsBounded
<1> DEFINE BInv == builds <= Cardinality(Spent)
<1>1. Init => BInv
  BY SpentCounted DEF Init
<1>2. IInv /\ BInv /\ [Next]_vars => BInv'
  <2> SUFFICES ASSUME IInv, BInv, [Next]_vars PROVE BInv'
    OBVIOUS
  <2>1. /\ Cardinality(Spent) \in Nat /\ IsFiniteSet(Spent') /\ Cardinality(Spent') \in Nat
        /\ builds \in Nat
    BY SpentCounted, SpentFiniteNext DEF IInv
  <2>2. ASSUME builds' = builds, Spent \subseteq Spent' PROVE BInv'
    <3>1. Cardinality(Spent) <= Cardinality(Spent')
      BY <2>1, <2>2, FS_Subset
    <3> QED
      BY <2>1, <2>2, <3>1
  <2>3. ASSUME NEW t \in Callers, Compile(t) PROVE BInv'
    BY <2>1, <2>3, CompileSpends
  <2>4. ASSUME NEW t \in Callers,
               (\E m \in Models : Begin(t, m)) \/ (Step(t) /\ ~Compile(t)) \/ Return(t)
        PROVE  BInv'
    BY <2>2, <2>4, StepSpends DEF Step
  <2>5. CASE UNCHANGED vars
    <3>1. builds' = builds /\ Spent' = Spent
      BY <2>5 DEF vars, lvars, Spent, SpentBy
    <3> QED
      BY <2>2, <3>1
  <2>6. ~ClearCache
    BY DEF OneProgramPerIdentifier, ClearCache
  <2> QED
    BY <2>3, <2>4, <2>5, <2>6 DEF Next, Stopped
<1>3. IInv /\ BInv => BuildsBounded
  BY SpentCounted DEF IInv, BuildsBounded, Names
<1> QED
  BY <1>1, <1>2, <1>3, Invariance, PTL DEF Spec

-----------------------------------------------------------------------------
(* What lcache forgets.  The order has a first identifier because it is    *)
(* finite: the one with the fewest before it.                              *)

\* Who was used before x.
Earlier(x) == {y \in DOMAIN cached : <<y, x>> \in older}

LEMMA SomeoneIsOldest ==
  ASSUME lcache!Ordered, IsFiniteSet(DOMAIN cached), DOMAIN cached # {}
  PROVE  \E v \in DOMAIN cached : Earlier(v) = {}
<1> DEFINE counts == {Cardinality(Earlier(x)) : x \in DOMAIN cached}
<1>1. \A x : IsFiniteSet(Earlier(x)) /\ Cardinality(Earlier(x)) \in Nat
  BY FS_Subset, FS_CardinalityType DEF Earlier
<1>2. counts \subseteq Nat /\ counts # {}
  BY <1>1
<1>3. PICK k \in counts : \A j \in counts : <<j, k>> \notin OpToRel(<, Nat)
  BY <1>2, NatLessThanWellFounded, WFMin
<1>4. \A j \in counts : ~(j < k)
  BY <1>2, <1>3 DEF OpToRel
<1>5. PICK v \in DOMAIN cached : Cardinality(Earlier(v)) = k
  OBVIOUS
<1>6. ASSUME NEW y \in Earlier(v) PROVE FALSE
  <2>1. y \in DOMAIN cached /\ <<y, v>> \in older
    BY <1>6 DEF Earlier
  <2>2. Earlier(y) \subseteq Earlier(v) /\ y \notin Earlier(y)
    BY <2>1 DEF lcache!Ordered, Earlier
  <2>3. Earlier(y) # Earlier(v)
    BY <1>6, <2>2
  <2>4. /\ Cardinality(Earlier(y)) <= Cardinality(Earlier(v))
        /\ Cardinality(Earlier(y)) # Cardinality(Earlier(v))
    BY <1>1, <2>2, <2>3, FS_Subset
  <2>5. Cardinality(Earlier(y)) < k
    BY <1>1, <1>5, <2>4
  <2> QED
    BY <1>4, <2>1, <2>5
<1> QED
  BY <1>6

\* Nobody else is the oldest.
LEMMA OneIsOldest ==
  ASSUME lcache!Ordered, NEW v \in DOMAIN cached, Earlier(v) = {}
  PROVE  {x \in DOMAIN cached : \A w \in DOMAIN cached \ {x} : <<x, w>> \in older} = {v}
<1>1. \A w \in DOMAIN cached \ {v} : <<v, w>> \in older
  BY DEF lcache!Ordered, Earlier
<1>2. ASSUME NEW x \in DOMAIN cached \ {v} PROVE <<x, v>> \notin older
  BY DEF Earlier
<1> QED
  BY <1>1, <1>2

\* A use of id puts it behind all that stay.
LEMMA TouchedOrdered ==
  ASSUME lcache!Ordered, NEW id, NEW kept \in SUBSET DOMAIN cached,
         DOMAIN cached' = kept \cup {id}, older' = lcache!Touched(id, kept)
  PROVE  lcache!Ordered'
<1> DEFINE D == DOMAIN cached'
           Others == kept \ {id}
           Stay == {p \in older : p[1] \in Others /\ p[2] \in Others}
           Before == Others \X {id}
<1>1. /\ Others \subseteq DOMAIN cached /\ id \notin Others
      /\ \A a : a \in D <=> a \in Others \/ a = id
  OBVIOUS
<1>2. older' = Stay \cup Before
  BY DEF lcache!Touched
<1>3. ASSUME NEW a, NEW b
      PROVE  /\ <<a, b>> \in Stay <=> <<a, b>> \in older /\ a \in Others /\ b \in Others
             /\ <<a, b>> \in Before <=> a \in Others /\ b = id
  OBVIOUS
<1>4. Stay \subseteq D \X D /\ Before \subseteq D \X D
  BY <1>1 DEF lcache!Ordered
<1> HIDE DEF D, Others, Stay, Before
<1>5. ASSUME NEW a \in D PROVE <<a, a>> \notin older'
  BY <1>1, <1>2, <1>3 DEF lcache!Ordered
<1>6. ASSUME NEW a \in D, NEW b \in D, a # b PROVE <<a, b>> \in older' \/ <<b, a>> \in older'
  <2>1. CASE a = id \/ b = id
    BY <1>1, <1>2, <1>3, <1>6, <2>1
  <2>2. CASE a \in Others /\ b \in Others
    <3>1. <<a, b>> \in older \/ <<b, a>> \in older
      BY <1>1, <1>6, <2>2 DEF lcache!Ordered
    <3>2. <<a, b>> \in Stay \/ <<b, a>> \in Stay
      BY <1>3, <2>2, <3>1
    <3> QED
      BY <1>2, <3>2
  <2> QED
    BY <1>1, <2>1, <2>2
<1>7. ASSUME NEW a \in D, NEW b \in D, NEW c \in D, <<a, b>> \in older', <<b, c>> \in older'
      PROVE  <<a, c>> \in older'
  <2>1. b \in Others /\ <<a, b>> \in Stay /\ a \in Others /\ <<a, b>> \in older
    BY <1>1, <1>2, <1>3, <1>7
  <2>2. CASE c = id
    BY <1>2, <1>3, <2>1, <2>2
  <2>3. CASE c # id
    <3>1. <<b, c>> \in older /\ c \in Others
      BY <1>2, <1>3, <1>7, <2>3
    <3>2. <<a, c>> \in older
      BY <1>1, <2>1, <3>1 DEF lcache!Ordered
    <3> QED
      BY <1>2, <1>3, <2>1, <3>1, <3>2
  <2> QED
    BY <2>2, <2>3
<1>8. older' \subseteq D \X D
  BY <1>2, <1>4
<1> QED
  BY <1>5, <1>6, <1>7, <1>8 DEF lcache!Ordered, D

\* What is known of lcache at every step.
Bounded ==
  /\ IsFiniteSet(DOMAIN cached) /\ Cardinality(DOMAIN cached) <= Capacity
  /\ lcache!Ordered

\* When it is full, exactly the oldest goes.
LEMMA OneVictim ==
  ASSUME Bounded, Cardinality(DOMAIN cached) = Capacity, NEW id, id \notin DOMAIN cached
  PROVE  \E v \in DOMAIN cached : lcache!Victims(id) = {v}
<1>1. Capacity \in Nat \ {0} /\ IsFiniteSet(DOMAIN cached)
  BY CapacityAssumption DEF Bounded
<1>2. DOMAIN cached # {}
  BY <1>1, FS_EmptySet
<1>3. PICK v \in DOMAIN cached : Earlier(v) = {}
  BY <1>2, SomeoneIsOldest DEF Bounded
<1>4. ~(lcache!Cardinality(DOMAIN cached) < Capacity)
  BY <1>1, SameCount
<1> QED
  BY <1>3, <1>4, OneIsOldest DEF Bounded, lcache!Victims

LEMMA StoreBounded ==
  ASSUME Bounded, NEW id, NEW entry, lcache!Store(id, entry)
  PROVE  Bounded'
<1> DEFINE kept == DOMAIN cached \ lcache!Victims(id)
<1>1. DOMAIN cached' = kept \cup {id} /\ older' = lcache!Touched(id, kept)
  BY DEF lcache!Store
<1>2. lcache!Ordered'
  BY <1>1, TouchedOrdered DEF Bounded
<1>3. /\ Capacity \in Nat /\ IsFiniteSet(DOMAIN cached) /\ Cardinality(DOMAIN cached) \in Nat
      /\ Cardinality(DOMAIN cached) <= Capacity
  BY CapacityAssumption, FS_CardinalityType DEF Bounded
<1>4. CASE id \in DOMAIN cached
  <2>1. lcache!Victims(id) = {}
    BY <1>4 DEF lcache!Victims
  <2>2. DOMAIN cached' = DOMAIN cached
    BY <1>1, <1>4, <2>1
  <2> QED
    BY <1>2, <1>3, <2>2 DEF Bounded
<1>5. CASE id \notin DOMAIN cached /\ Cardinality(DOMAIN cached) < Capacity
  <2>1. lcache!Victims(id) = {}
    BY <1>5, SameCount DEF lcache!Victims
  <2>2. DOMAIN cached' = DOMAIN cached \cup {id}
    BY <1>1, <2>1
  <2>3. /\ IsFiniteSet(DOMAIN cached')
        /\ Cardinality(DOMAIN cached') = Cardinality(DOMAIN cached) + 1
    BY <1>3, <1>5, <2>2, FS_AddElement
  <2> QED
    BY <1>2, <1>3, <1>5, <2>3 DEF Bounded
<1>6. CASE id \notin DOMAIN cached /\ Cardinality(DOMAIN cached) = Capacity
  <2>1. PICK v \in DOMAIN cached : lcache!Victims(id) = {v}
    BY <1>6, OneVictim
  <2>2. DOMAIN cached' = (DOMAIN cached \ {v}) \cup {id}
    BY <1>1, <2>1
  <2>3. /\ IsFiniteSet(DOMAIN cached \ {v})
        /\ Cardinality(DOMAIN cached \ {v}) = Cardinality(DOMAIN cached) - 1
    BY <1>3, FS_RemoveElement
  <2>4. /\ IsFiniteSet(DOMAIN cached')
        /\ Cardinality(DOMAIN cached') = Cardinality(DOMAIN cached) - 1 + 1
    BY <1>6, <2>2, <2>3, FS_AddElement
  <2> QED
    BY <1>2, <1>3, <2>4 DEF Bounded
<1> QED
  BY <1>3, <1>4, <1>5, <1>6

LEMMA UseBounded ==
  ASSUME Bounded, NEW id, lcache!Use(id)
  PROVE  Bounded'
<1>1. CASE id \in DOMAIN cached
  <2>1. DOMAIN cached' = DOMAIN cached \cup {id} /\ older' = lcache!Touched(id, DOMAIN cached)
    BY <1>1 DEF lcache!Use
  <2>2. lcache!Ordered'
    BY <2>1, TouchedOrdered DEF Bounded
  <2> QED
    BY <2>2 DEF Bounded, lcache!Use
<1>2. CASE id \notin DOMAIN cached
  BY <1>2 DEF Bounded, lcache!Ordered, lcache!Use
<1> QED
  BY <1>1, <1>2

LEMMA EmptyBounded ==
  /\ DOMAIN cached = {} /\ older = {} => Bounded
  /\ DOMAIN cached' = {} /\ older' = {} => Bounded'
BY FS_EmptySet, CapacityAssumption DEF Bounded, lcache!Ordered

LEMMA InitBounded == Init => Bounded
<1>1. Init => DOMAIN cached = {} /\ older = {}
  BY DEF Init, lcache!InitCache
<1> QED
  BY <1>1, EmptyBounded

\* What the callers and ClearCache do to lcache.
LEMMA StepBounded ==
  ASSUME Bounded,
         \/ \E t \in Callers : Step(t) \/ Return(t) \/ \E m \in Models : Begin(t, m)
         \/ ClearCache
         \/ UNCHANGED lvars
  PROVE  Bounded'
<1>1. CASE UNCHANGED lvars
  BY <1>1 DEF lvars, Bounded, lcache!Ordered
<1>2. ASSUME NEW t \in Callers, Hit(t) PROVE Bounded'
  BY <1>2, UseBounded DEF Hit
<1>3. ASSUME NEW t \in Callers, Store(t) PROVE Bounded'
  BY <1>3, StoreBounded DEF Store
<1>4. CASE ClearCache
  BY <1>4, EmptyBounded DEF ClearCache, lcache!Wipe
<1>5. ASSUME NEW t \in Callers, Step(t) \/ Return(t) \/ \E m \in Models : Begin(t, m),
             ~Hit(t), ~Store(t)
      PROVE  UNCHANGED lvars
  BY <1>5 DEF Step, Reject, Start, Miss, Compile, Eval, Return, Begin
<1> QED
  BY <1>1, <1>2, <1>3, <1>4, <1>5

LEMMA BoundedForgets == Bounded => ForgetsOldest
BY OneVictim DEF Bounded, ForgetsOldest

\* For any callers and any positive capacity: lcache keeps to its capacity and forgets
\* the identifier that was used least recently, whatever was stored how late.
THEOREM OldestForgotten == Spec => []ForgetsOldest
<1>1. Bounded /\ [Next]_vars => Bounded'
  BY StepBounded DEF Next, Stopped, vars, lvars
<1> QED
  BY <1>1, InitBounded, BoundedForgets, PTL DEF Spec

-----------------------------------------------------------------------------
(* The refinement.                                                         *)

\* Both names of the stateless answer mean the same.
LEMMA SameAnswer == \A m : Stateless!Answer(m) = Answer(m)
BY DEF Answer, AnswerWith, Rejection, Failure, Compiled, Evaluated, Program,
       createCelResult, Stateless!Answer, Stateless!AnswerWith,
       Stateless!Rejection, Stateless!Failure, Stateless!Compiled,
       Stateless!Evaluated, Stateless!Program, Stateless!createCelResult

\* With equal definitions, any sibling's program gives the stateless answer.
LEMMA EvalAnswers ==
  ASSUME EqualDefinitions, IInv, NEW t \in Callers, Eval(t)
  PROVE  Evaluated(req[t], prg[t]) = Answer(req[t])
<1>1. pc[t] = "eval" /\ req[t] \in Models /\ req[t].Expression # Empty
  BY Asked DEF Eval, At, IInv, CallerInv
<1>2. PICK m \in Models :
        /\ Sibling(m, req[t])
        /\ prg[t] = Program(m, Keys[m.Context])
        /\ Compiled(m, Keys[m.Context]) = "ok"
  BY <1>1 DEF IInv, CallerInv, Origin
<1>3. Keys[m.Context] = Keys[req[t].Context]
  BY <1>1, <1>2 DEF EqualDefinitions, Sibling
<1> QED
  BY <1>1, <1>2, <1>3, EvaluatedByOrigin DEF Answer

\* A step that writes the answer is the Reply of Evaluation.
LEMMA RepliesRefine ==
  ASSUME IInv, NEW t \in Callers, pc[t] \in Labels \ {"idle", "done"},
         res' = [res EXCEPT ![t] = Answer(req[t])], req' = req
  PROVE  Stateless!Reply(t)
<1>1. req[t] # Nil /\ res[t] = Nil
  BY DEF IInv, CallerTypes, Labels
<1> QED
  BY <1>1, SameAnswer DEF Stateless!Reply

LEMMA StepRefines ==
  ASSUME EqualDefinitions, IInv, NEW t \in Callers, Step(t)
  PROVE  Stateless!Reply(t) \/ UNCHANGED <<req, res>>
<1>1. CASE Start(t) \/ Hit(t) \/ Miss(t) \/ Store(t)
  BY <1>1 DEF Start, Hit, Miss, Store
<1>2. CASE Reject(t)
  <2>1. Rejection(req[t]) = Answer(req[t])
    BY <1>2 DEF Reject, Answer, AnswerWith
  <2>2. /\ pc[t] = "start" /\ req' = req
        /\ res' = [res EXCEPT ![t] = Answer(req[t])]
    BY <1>2, <2>1 DEF Reject, At
  <2> QED
    BY <2>2, RepliesRefine DEF Labels
<1>3. CASE Compile(t)
  <2> DEFINE outcome == Compiled(req[t], declList(req[t]))
  <2>1. CASE outcome = "ok"
    BY <1>3, <2>1 DEF Compile
  <2>2. CASE outcome # "ok"
    <3>1. pc[t] = "compile" /\ req' = req /\ req[t].Expression # Empty
      BY <1>3 DEF Compile, At, IInv, CallerInv
    <3>2. Failure(outcome) = Answer(req[t])
      BY <2>2, <3>1 DEF Answer, AnswerWith, declList
    <3>3. res' = [res EXCEPT ![t] = Answer(req[t])]
      BY <1>3, <2>2, <3>2 DEF Compile
    <3> QED
      BY <3>1, <3>3, RepliesRefine DEF Labels
  <2> QED
    BY <2>1, <2>2
<1>4. CASE Eval(t)
  <2>1. /\ pc[t] = "eval" /\ req' = req
        /\ res' = [res EXCEPT ![t] = Answer(req[t])]
    BY <1>4, EvalAnswers DEF Eval, At
  <2> QED
    BY <2>1, RepliesRefine DEF Labels
<1> QED
  BY <1>1, <1>2, <1>3, <1>4 DEF Step

\* When requests that share an identifier and an expression have equal context
\* definitions, ProcCel with its cache and its concurrent callers implements a
\* service that has neither: every answer is the stateless one.
THEOREM Refinement ==
  ASSUME EqualDefinitions
  PROVE  Spec => Transparent
<1>1. Init => Stateless!Init
  BY DEF Init, Stateless!Init
<1>2. IInv /\ [Next]_vars => [Stateless!Next]_<<req, res>>
  <2> SUFFICES ASSUME IInv, [Next]_vars PROVE [Stateless!Next]_<<req, res>>
    OBVIOUS
  <2>1. ASSUME NEW t \in Callers, NEW m \in Models, Begin(t, m)
        PROVE  Stateless!Ask(t)
    BY <2>1 DEF Begin, At, IInv, CallerTypes, Stateless!Ask
  <2>2. ASSUME NEW t \in Callers, Step(t)
        PROVE  Stateless!Reply(t) \/ UNCHANGED <<req, res>>
    BY <2>2, StepRefines
  <2>3. ASSUME NEW t \in Callers, Return(t) PROVE Stateless!Leave(t)
    BY <2>3 DEF Return, At, IInv, CallerTypes, Stateless!Leave
  <2>4. CASE ClearCache \/ Stopped \/ UNCHANGED vars
    BY <2>4 DEF ClearCache, Stopped, vars
  <2> QED
    BY <2>1, <2>2, <2>3, <2>4 DEF Next, Stateless!Next
<1> QED
  BY <1>1, <1>2, Invariance, PTL DEF Spec, Transparent, Stateless!Spec
=============================================================================
