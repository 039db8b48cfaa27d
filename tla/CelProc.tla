------------------------------ MODULE CelProc -------------------------------
(***************************************************************************)
(* internal/celproc/celproc.go: ProcCel as the handlers of concurrent      *)
(* requests run it over the one package-wide cache `lcache'.               *)
(*                                                                         *)
(* The lookup, the compilation and the store are separate critical         *)
(* sections, so between them other callers look up, compile and store the  *)
(* same identifier, for the same expression or for another one.  lcache is *)
(* LRUPromise, which LRUCache and LRUThreads implement.                    *)
(***************************************************************************)
EXTENDS CelEngine, Naturals, FiniteSets

CONSTANTS Callers,     \* goroutines
          Capacity,    \* of lcache; 10000 in the code
          MayClear,    \* whether ClearCache is called
          MaxCounted,  \* bound: no call begins once the counters reach it
          Nil

ASSUME CapacityAssumption == Capacity \in Nat \ {0}
ASSUME NilAssumption == Nil \notin Models \cup Programs \cup CelResult

VARIABLES cached, older,  \* lcache
          hits, builds,   \* CacheHitCounter, BuildEvalCounter
          pc,             \* where in ProcCel each caller is
          req,            \* celModel
          prg,            \* prg
          res             \* what ProcCel returns

lvars == <<cached, older>>
vars == <<cached, older, hits, builds, pc, req, prg, res>>

CacheIds == Identifiers \ {Empty}
CacheEntry == [ID : CacheIds, Expression : Exprs, Program : Programs]

lcache == INSTANCE LRUPromise WITH Ids <- CacheIds, Payloads <- CacheEntry, ret <- Nil

Init ==
  /\ lcache!InitCache
  /\ hits = 0
  /\ builds = 0
  /\ pc = [t \in Callers |-> "idle"]
  /\ req = [t \in Callers |-> Nil]
  /\ prg = [t \in Callers |-> Nil]
  /\ res = [t \in Callers |-> Nil]

At(t, label) == pc[t] = label
Goto(t, label) == pc' = [pc EXCEPT ![t] = label]

\* ProcCel(m)
Begin(t, m) ==
  /\ At(t, "idle")
  /\ Goto(t, "start")
  /\ req' = [req EXCEPT ![t] = m]
  /\ UNCHANGED <<lvars, hits, builds, prg, res>>

\* The early return on an empty expression.
Reject(t) ==
  /\ At(t, "start")
  /\ req[t].Expression = Empty
  /\ Goto(t, "done")
  /\ res' = [res EXCEPT ![t] = Rejection(req[t])]
  /\ UNCHANGED <<lvars, hits, builds, req, prg>>

\* Without an identifier the cache is not asked.
Start(t) ==
  /\ At(t, "start")
  /\ req[t].Expression # Empty
  /\ Goto(t, IF req[t].Identifier = Empty THEN "compile" ELSE "lookup")
  /\ UNCHANGED <<lvars, hits, builds, req, prg, res>>

\* Fault: whatever the cache has for the identifier is used.
AlwaysUsable(entry, m) == TRUE

\* A cached program is used only for the expression it was compiled from.
Usable(entry, m) == entry.Expression = m.Expression

\* getFromCache finds an entry.  That is counted, and is a use of the entry,
\* even when the entry turns out to be for another expression.
Hit(t) ==
  LET m == req[t]
      entry == cached[m.Identifier]
  IN
  /\ At(t, "lookup")
  /\ m.Identifier \in DOMAIN cached
  /\ lcache!Use(m.Identifier)
  /\ hits' = hits + 1
  /\ \/ /\ Usable(entry, m)
        /\ Goto(t, "eval")
        /\ prg' = [prg EXCEPT ![t] = entry.Program]
     \/ /\ ~Usable(entry, m)
        /\ Goto(t, "compile")
        /\ UNCHANGED prg
  /\ UNCHANGED <<builds, req, res>>

\* Fault: ok is not looked at, and the program is still nil.
MissIgnored(t) ==
  /\ At(t, "lookup")
  /\ req[t].Identifier \notin DOMAIN cached
  /\ Goto(t, "eval")
  /\ UNCHANGED <<lvars, hits, builds, req, prg, res>>

\* Fault: a caller that finds nothing waits for somebody else to store.
MissWaits(t) ==
  /\ At(t, "lookup")
  /\ req[t].Identifier \notin DOMAIN cached
  /\ UNCHANGED vars

Miss(t) ==
  /\ At(t, "lookup")
  /\ req[t].Identifier \notin DOMAIN cached
  /\ Goto(t, "compile")
  /\ UNCHANGED <<lvars, hits, builds, req, prg, res>>

\* Fault: the loop over the context is lost.
NoDeclarations(m) == {}

\* The variables a program is compiled with: the keys of the context at hand.
declList(m) == Keys[m.Context]

\* creatEvalProgram, up to the store.
Compile(t) ==
  LET m == req[t]
      outcome == Compiled(m, declList(m))
  IN
  /\ At(t, "compile")
  /\ builds' = builds + 1
  /\ \/ /\ outcome = "ok"
        /\ Goto(t, IF m.Identifier = Empty THEN "eval" ELSE "store")
        /\ prg' = [prg EXCEPT ![t] = Program(m, declList(m))]
        /\ UNCHANGED res
     \/ /\ outcome # "ok"
        /\ Goto(t, "done")
        /\ res' = [res EXCEPT ![t] = Failure(outcome)]
        /\ UNCHANGED prg
  /\ UNCHANGED <<lvars, hits, req>>

\* Fault: the entry does not say what it was compiled from.
entryWithoutExpression(m, p) ==
  [ID |-> m.Identifier, Expression |-> Empty, Program |-> p]

entryFor(m, p) == [ID |-> m.Identifier, Expression |-> m.Expression, Program |-> p]

\* lcache.Put at the end of creatEvalProgram.
Store(t) ==
  /\ At(t, "store")
  /\ Goto(t, "eval")
  /\ lcache!Store(req[t].Identifier, entryFor(req[t], prg[t]))
  /\ UNCHANGED <<hits, builds, req, prg, res>>

Eval(t) ==
  /\ At(t, "eval")
  /\ Goto(t, "done")
  /\ res' = [res EXCEPT ![t] = Evaluated(req[t], prg[t])]
  /\ UNCHANGED <<lvars, hits, builds, req, prg>>

Return(t) ==
  /\ At(t, "done")
  /\ Goto(t, "idle")
  /\ req' = [req EXCEPT ![t] = Nil]
  /\ prg' = [prg EXCEPT ![t] = Nil]
  /\ res' = [res EXCEPT ![t] = Nil]
  /\ UNCHANGED <<lvars, hits, builds>>

\* ClearCache, which only the tests and benchmarks call.  It is one step here;
\* LRUThreads shows what it does when it is not.
ClearCache ==
  /\ MayClear
  /\ lcache!Wipe
  /\ UNCHANGED <<hits, builds, pc, req, prg, res>>

\* What ProcCel does of itself, once it is called.
Step(t) ==
  Reject(t) \/ Start(t) \/ Hit(t) \/ Miss(t) \/ Compile(t) \/ Store(t) \/ Eval(t)

BelowBound == hits + builds < MaxCounted

\* The bound is reached and every call has returned.
Stopped == (\A t \in Callers : pc[t] = "idle") /\ ~BelowBound /\ UNCHANGED vars

Next ==
  \/ \E t \in Callers :
       \/ BelowBound /\ \E m \in Models : Begin(t, m)
       \/ Step(t)
       \/ Return(t)
  \/ ClearCache
  \/ Stopped

Spec == Init /\ [][Next]_vars

-----------------------------------------------------------------------------
(* Properties.                                                             *)

Labels == {"idle", "start", "lookup", "compile", "store", "eval", "done"}

\* Every variable has its type, and the locals are set where ProcCel has them.
TypeOK ==
  /\ DOMAIN cached \subseteq CacheIds
  /\ cached \in [DOMAIN cached -> CacheEntry]
  /\ hits \in Nat
  /\ builds \in Nat
  /\ pc \in [Callers -> Labels]
  /\ req \in [Callers -> Models \cup {Nil}]
  /\ prg \in [Callers -> Programs \cup {Nil}]
  /\ res \in [Callers -> CelResult \cup {Nil}]
  /\ \A t \in Callers :
       /\ pc[t] = "idle" <=> req[t] = Nil
       /\ pc[t] \in {"store", "eval"} => prg[t] # Nil
       /\ pc[t] = "done" <=> res[t] # Nil

\* A request is evaluated by a program made from its own expression, although
\* another caller may have replaced or evicted the entry in the meantime, and
\* that program compiled.
RunsOwnExpression ==
  \A t \in Callers :
    pc[t] \in {"store", "eval"} =>
      /\ prg[t].expr = req[t].Expression
      /\ Compiler[prg[t].expr, prg[t].vars] = "ok"

\* An entry is filed under its own identifier and holds the program of its own
\* expression, compiled for the context of some request with that identifier
\* and that expression: no interleaving of two callers mixes their entries.
CacheCoherent ==
  \A id \in DOMAIN cached :
    \E m \in Models :
      /\ m.Identifier = id
      /\ cached[id] = [ID |-> id, Expression |-> m.Expression,
                        Program |-> Program(m, Keys[m.Context])]
      /\ Compiled(m, Keys[m.Context]) = "ok"

\* However the callers interleave, who look up, compile for long and only then
\* store, lcache keeps to its capacity, and when it is full there is never a doubt, and
\* never nobody, whom the next new identifier pushes out: the one that no lookup
\* and no store has touched since all the others were.
ForgetsOldest ==
  /\ Cardinality(DOMAIN cached) <= Capacity
  /\ lcache!Ordered
  /\ \A id \in CacheIds \ DOMAIN cached :
       Cardinality(DOMAIN cached) = Capacity =>
         \E v \in DOMAIN cached : lcache!Victims(id) = {v}

\* r is what the expression of m gives when compiled for the context of m or for the
\* context of a request that shares the identifier and the expression of m.
Explains(m, r) ==
  \/ r = Answer(m)
  \/ \E n \in Models :
       /\ n.Identifier = m.Identifier
       /\ n.Identifier # Empty
       /\ n.Expression = m.Expression
       /\ r = AnswerWith(m, Keys[n.Context])

\* Whatever the definitions of the contexts and whoever else is there, nothing but the
\* requests that share its identifier and its expression can show in an answer.
AnswerExplained == \A t \in Callers : pc[t] = "done" => Explains(req[t], res[t])

\* When requests that share an identifier and an expression have equal context
\* definitions, nobody can tell that there is a cache: ProcCel implements
\* Evaluation.
Stateless == INSTANCE Evaluation
Transparent == Stateless!Spec

\* Every request has an identifier, each identifier one expression, every request
\* compiles, there is room for all and nobody clears the cache: then programs are only compiled by callers
\* that looked before the first of them stored, at most one each, however many
\* calls there are.
\* (README: "Every subsequent call with the same identifier and expression
\* will be accessing the cached expression program".)
OneProgramPerIdentifier ==
  /\ ~MayClear
  /\ \A m \in Models : /\ m.Identifier # Empty /\ m.Expression # Empty
                       /\ Compiled(m, Keys[m.Context]) = "ok"
  /\ \A m, n \in Models : m.Identifier = n.Identifier => m.Expression = n.Expression
  /\ Cardinality({m.Identifier : m \in Models}) <= Capacity

BuildsBounded ==
  builds <= Cardinality(Callers) * Cardinality({m.Identifier : m \in Models})
=============================================================================
