------------------------- MODULE EvalServiceProofs --------------------------
(***************************************************************************)
(* Proofs about EvalService, for every set of handlers, every entry point  *)
(* and all bodies, and everything that CelProc leaves open.                *)
(*                                                                         *)
(* The argument: a handler works on its own request only.  What it has     *)
(* collected are the stateless answers to the models it has asked so far,  *)
(* in their order, and the caller inside ProcCel is at the next one        *)
(* (Progress); CelProcProofs says that the answer it brings back is the    *)
(* stateless one, whatever the other handlers do to the cache.  That the   *)
(* answers are stateless needs equal definitions; that every slot of the   *)
(* results is filled once, and no other, does not; nor does what           *)
(* CelProcProofs shows of the callers, which holds for handlers, too.      *)
(***************************************************************************)
EXTENDS EvalService, CelProcProofs

\* A request as ServiceTypeOK has it.
JobTyped(t) ==
  /\ job[t].kind \in Kinds
  /\ job[t].models \in Bodies \cup {NotDecoded} \cup {<<m>> : m \in Models}
  /\ job[t].results \in Seq(CelResult)
  /\ Len(job[t].results) <= Len(job[t].models)
  /\ job[t] = [kind |-> job[t].kind, models |-> job[t].models, results |-> job[t].results]

\* What ProcCel is asked for the i-th model of a request.
Asking(t, i) == Passed(job[t].kind, job[t].models[i])

Progress(t) ==
  /\ EqualDefinitions =>
       \A i \in 1..Len(job[t].results) : job[t].results[i] = Answer(Asking(t, i))
  /\ pc[t] # "idle" => /\ Remaining(t)
                       /\ req[t] = Asking(t, Len(job[t].results) + 1)

\* BatchAnswersInOrder of one handler.
Right(t) ==
  EqualDefinitions /\ answer[t].body # SerrBody =>
    /\ answer[t].body = Body(job[t].kind, Expected(job[t]))
    /\ answer[t].status \in {201, 0} <=>
         \A i \in DOMAIN job[t].models : Answer(Asking(t, i)).err = "none"

HandlerInv(t) ==
  /\ job[t] = Nil => answer[t] = Nil /\ pc[t] = "idle"
  /\ job[t] # Nil => JobTyped(t)
  /\ job[t] # Nil /\ answer[t] = Nil => Progress(t)
  /\ answer[t] # Nil => pc[t] = "idle" /\ Right(t)
  /\ EqualDefinitions /\ pc[t] = "done" => res[t] = Answer(req[t])

SInv ==
  /\ IInv
  /\ job = [t \in Callers |-> job[t]]
  /\ answer = [t \in Callers |-> answer[t]]
  /\ \A t \in Callers : HandlerInv(t)

-----------------------------------------------------------------------------
LEMMA StepIInv ==
  ASSUME IInv, NEW t \in Callers, Step(t)
  PROVE  IInv'
BY RejectIInv, StartIInv, HitIInv, MissIInv, CompileIInv, StoreIInv, EvalIInv DEF Step

LEMMA StepOfCaller ==
  ASSUME IInv, NEW t \in Callers, Step(t)
  PROVE  pc[t] \notin {"idle", "done"} /\ req' = req
BY DEF Step, Reject, Start, Hit, Miss, Compile, Store, Eval, At

\* A caller whose answer is there has the stateless one.
LEMMA StepAnswers ==
  ASSUME EqualDefinitions, IInv, NEW t \in Callers, Step(t)
  PROVE  pc'[t] = "done" => res'[t] = Answer(req'[t])
<1>1. pc[t] \notin {"idle", "done"}
  BY StepOfCaller
<1>2. req' = req
  BY StepOfCaller
<1>3. res[t] = Nil
  BY <1>1 DEF IInv, CallerTypes
<1>4. pc'[t] = "done" => res'[t] # Nil
  BY StepIInv DEF IInv, CallerTypes
<1>5. CASE Stateless!Reply(t)
  <2>1. res'[t] = Stateless!Answer(req[t])
    BY <1>5 DEF Stateless!Reply, IInv, CallerTypes
  <2> QED
    BY <1>1, <1>2, <2>1, SameAnswer
<1>6. CASE UNCHANGED <<req, res>>
  BY <1>1, <1>2, <1>3, <1>4, <1>6
<1> QED
  BY <1>5, <1>6, StepRefines

\* A step of ProcCel moves its caller only.
LEMMA OthersStay ==
  ASSUME IInv, NEW t \in Callers, Step(t) \/ Return(t) \/ \E m \in Models : Begin(t, m),
         NEW u \in Callers, u # t
  PROVE  pc'[u] = pc[u] /\ req'[u] = req[u] /\ res'[u] = res[u]
<1>1. CASE Reject(t) \/ Start(t) \/ Hit(t) \/ Miss(t)
  BY <1>1 DEF Reject, Start, Hit, Miss, Goto, IInv, CallerTypes
<1>2. CASE Compile(t)
  BY <1>2 DEF Compile, Goto, IInv, CallerTypes
<1>3. CASE Store(t) \/ Eval(t) \/ Return(t) \/ \E m \in Models : Begin(t, m)
  BY <1>3 DEF Store, Eval, Return, Begin, Goto, IInv, CallerTypes
<1> QED
  BY <1>1, <1>2, <1>3 DEF Step

LEMMA OthersHold ==
  ASSUME NEW u, HandlerInv(u), pc'[u] = pc[u], req'[u] = req[u], res'[u] = res[u],
         job'[u] = job[u], answer'[u] = answer[u]
  PROVE  HandlerInv(u)'
BY DEF HandlerInv, JobTyped, Progress, Right, Asking, Remaining, Expected

-----------------------------------------------------------------------------
(* One lemma for each step of a handler.                                   *)

LEMMA InitSInv == ServiceInit => SInv
<1> SUFFICES ASSUME ServiceInit PROVE SInv
  OBVIOUS
<1>1. IInv
  BY InitIInv DEF ServiceInit
<1>2. \A t \in Callers : HandlerInv(t)
  BY DEF ServiceInit, Init, HandlerInv
<1> QED
  BY <1>1, <1>2 DEF ServiceInit, SInv

LEMMA BodiesAreModels ==
  ASSUME NEW models \in Bodies \cup {NotDecoded} \cup {<<m>> : m \in Models}
  PROVE  models \in Seq(Models)
<1>1. CASE models \in Bodies
  BY <1>1, BodiesAssumption
<1>2. CASE models = NotDecoded
  BY <1>2 DEF NotDecoded
<1>3. CASE \E m \in Models : models = <<m>>
  BY <1>3
<1> QED
  BY <1>1, <1>2, <1>3

\* The models of a body are requests, and so is what ProcCel is asked.
LEMMA ModelsOfBodies ==
  ASSUME NEW kind \in Kinds, NEW models \in Bodies \cup {NotDecoded} \cup {<<m>> : m \in Models},
         NEW i \in 1..Len(models)
  PROVE  /\ models \in Seq(Models)
         /\ models[i] \in Models /\ Passed(kind, models[i]) \in Models
<1>1. models \in Seq(Models)
  BY BodiesAreModels
<1>2. models[i] \in Models
  BY <1>1
<1> QED
  BY <1>1, <1>2, BodiesAssumption

\* A request that has been taken on, whether or not it is answered at once.
LEMMA Accepted ==
  ASSUME SInv, NEW t \in Callers, NEW kind \in Kinds,
         NEW models \in Bodies \cup {NotDecoded} \cup {<<m>> : m \in Models},
         Accept(t, kind, models),
         \/ UNCHANGED answer
         \/ \E status : Answered(t, status, SerrBody)
  PROVE  SInv'
<1>1. job[t] = Nil /\ UNCHANGED vars /\ job' = [job EXCEPT ![t] = Job(kind, models)]
  BY DEF Accept
<1>2. IInv' /\ UNCHANGED <<pc, req, res>>
  BY <1>1, UnchangedIInv DEF SInv, vars
<1>3. pc[t] = "idle" /\ answer[t] = Nil
  BY <1>1 DEF SInv, HandlerInv
<1>4. job'[t] = Job(kind, models) /\ \A u \in Callers \ {t} : job'[u] = job[u]
  BY <1>1 DEF SInv
<1>5. /\ answer'[t] = Nil \/ answer'[t].body = SerrBody
      /\ \A u \in Callers \ {t} : answer'[u] = answer[u]
      /\ answer' = [u \in Callers |-> answer'[u]]
  BY <1>3 DEF SInv, Answered
<1>6. models \in Seq(Models)
  BY BodiesAreModels
<1>7. Job(kind, models) # Nil
  <2>1. <<>> \in Seq(CelResult)
    OBVIOUS
  <2>2. Job(kind, models) \in [kind : Kinds, models : Seq(Models), results : Seq(CelResult)]
    BY <1>6, <2>1 DEF Job
  <2> QED
    BY <2>2, BodiesAssumption
<1>8. JobTyped(t)'
  BY <1>4, <1>6 DEF JobTyped, Job
<1>9. Progress(t)'
  BY <1>2, <1>3, <1>4 DEF Progress, Job
<1>10. HandlerInv(t)'
  BY <1>2, <1>3, <1>4, <1>5, <1>7, <1>8, <1>9 DEF HandlerInv, Right
<1>11. \A u \in Callers : HandlerInv(u)'
  BY <1>2, <1>4, <1>5, <1>10, OthersHold DEF SInv
<1> QED
  BY <1>1, <1>2, <1>5, <1>11 DEF SInv

LEMMA CallKeeps ==
  ASSUME SInv, NEW t \in Callers, Call(t)
  PROVE  SInv'
<1> DEFINE m == Asking(t, Len(job[t].results) + 1)
<1>1. Begin(t, m) /\ job' = job /\ answer' = answer /\ Working(t) /\ Remaining(t)
  BY DEF Call, Asking
<1>2. JobTyped(t) /\ Progress(t)
  BY <1>1 DEF SInv, HandlerInv, Working
<1>3. Len(job[t].results) + 1 \in 1..Len(job[t].models)
  BY <1>1, <1>2, BodiesAreModels DEF JobTyped, Remaining
<1>4. m \in Models
  BY <1>2, <1>3, ModelsOfBodies DEF JobTyped, Asking
<1> HIDE DEF m
<1>5. IInv'
  BY <1>1, <1>4, BeginIInv DEF SInv
<1>6. pc'[t] = "start" /\ req'[t] = m
  BY <1>1 DEF Begin, Goto, SInv, IInv, CallerTypes
<1>7. JobTyped(t)'
  BY <1>1, <1>2 DEF JobTyped
<1>8. Progress(t)'
  BY <1>1, <1>2, <1>6 DEF Progress, Asking, Remaining, m
<1>9. HandlerInv(t)'
  BY <1>1, <1>6, <1>7, <1>8 DEF HandlerInv, Working
<1>10. ASSUME NEW u \in Callers, u # t PROVE HandlerInv(u)'
  BY <1>1, <1>4, <1>10, OthersStay, OthersHold DEF SInv
<1> QED
  BY <1>1, <1>5, <1>9, <1>10 DEF SInv

LEMMA RunKeeps ==
  ASSUME SInv, NEW t \in Callers, Run(t)
  PROVE  SInv'
<1>1. Step(t) /\ job' = job /\ answer' = answer
  BY DEF Run
<1>2. IInv'
  BY <1>1, StepIInv DEF SInv
<1>3. /\ pc[t] # "idle" /\ req' = req
      /\ EqualDefinitions /\ pc'[t] = "done" => res'[t] = Answer(req'[t])
  BY <1>1, StepOfCaller, StepAnswers DEF SInv
<1>4. job[t] # Nil /\ answer[t] = Nil /\ JobTyped(t) /\ Progress(t)
  BY <1>3 DEF SInv, HandlerInv
<1>5. JobTyped(t)' /\ Progress(t)'
  BY <1>1, <1>3, <1>4 DEF JobTyped, Progress, Asking, Remaining
<1>6. HandlerInv(t)'
  BY <1>1, <1>3, <1>4, <1>5 DEF HandlerInv
<1>7. ASSUME NEW u \in Callers, u # t PROVE HandlerInv(u)'
  BY <1>1, <1>7, OthersStay, OthersHold DEF SInv
<1> QED
  BY <1>1, <1>2, <1>6, <1>7 DEF SInv

LEMMA CollectKeeps ==
  ASSUME SInv, NEW t \in Callers, Collect(t)
  PROVE  SInv'
<1> DEFINE n == Len(job[t].results)
           more == Append(job[t].results, res[t])
<1>1. /\ Return(t) /\ answer' = answer
      /\ job' = [job EXCEPT ![t].results = more]
      /\ pc[t] = "done"
  BY DEF Collect, Return, At
<1>2. IInv'
  BY <1>1, ReturnIInv DEF SInv
<1>3. /\ job[t] # Nil /\ answer[t] = Nil /\ JobTyped(t) /\ Progress(t)
      /\ EqualDefinitions => res[t] = Answer(req[t])
  BY <1>1 DEF SInv, HandlerInv
<1>4. res[t] \in CelResult
  BY <1>1 DEF SInv, IInv, CallerTypes
<1>5. /\ more \in Seq(CelResult) /\ Len(more) = n + 1 /\ n \in Nat
      /\ \A i \in 1..n : more[i] = job[t].results[i]
      /\ more[n + 1] = res[t]
  BY <1>3, <1>4 DEF JobTyped
<1>6. job'[t] = [job[t] EXCEPT !.results = more] /\ \A u \in Callers \ {t} : job'[u] = job[u]
  BY <1>1 DEF SInv
<1> HIDE DEF more, n
<1>7. job'[t] = [kind |-> job[t].kind, models |-> job[t].models, results |-> more]
  BY <1>3, <1>6 DEF JobTyped
<1>8. job'[t].kind = job[t].kind /\ job'[t].models = job[t].models /\ job'[t].results = more
  BY <1>7
<1>9. pc[t] # "idle" => n < Len(job[t].models) /\ req[t] = Asking(t, n + 1)
  BY <1>3 DEF Progress, Remaining, n
<1>10. JobTyped(t)'
  <2>1. Len(job[t].models) \in Nat
    BY <1>3, BodiesAreModels DEF JobTyped
  <2>2. Len(more) <= Len(job[t].models)
    BY <1>1, <1>5, <1>9, <2>1
  <2> QED
    BY <1>3, <1>5, <1>7, <1>8, <2>2 DEF JobTyped
<1>11. Progress(t)'
  <2>1. pc'[t] = "idle"
    BY <1>1 DEF Return, Goto, SInv, IInv, CallerTypes
  <2>2. ASSUME EqualDefinitions, NEW i \in 1..Len(more) PROVE more[i] = Answer(Asking(t, i))
    <3>1. CASE i = n + 1
      BY <1>1, <1>3, <1>5, <1>9, <2>2, <3>1
    <3>2. CASE i # n + 1
      <4>1. i \in 1..n
        BY <1>5, <3>2
      <4> QED
        BY <1>3, <1>5, <2>2, <4>1 DEF Progress, n
    <3> QED
      BY <3>1, <3>2
  <2> QED
    BY <1>8, <2>1, <2>2 DEF Progress, Asking
<1>12. HandlerInv(t)'
  <2>1. job'[t] # Nil
    <3>1. job[t].models \in Seq(Models)
      BY <1>3, BodiesAreModels DEF JobTyped
    <3> QED
      BY <1>3, <1>5, <1>7, <3>1, BodiesAssumption DEF JobTyped
  <2>2. pc'[t] = "idle"
    BY <1>1 DEF Return, Goto, SInv, IInv, CallerTypes
  <2> QED
    BY <1>1, <1>3, <1>10, <1>11, <2>1, <2>2 DEF HandlerInv
<1>13. ASSUME NEW u \in Callers, u # t PROVE HandlerInv(u)'
  BY <1>1, <1>6, <1>13, OthersStay, OthersHold DEF SInv
<1> QED
  BY <1>1, <1>2, <1>12, <1>13 DEF SInv

LEMMA RespondKeeps ==
  ASSUME SInv, NEW t \in Callers, Respond(t)
  PROVE  SInv'
<1> DEFINE kind == job[t].kind
           results == job[t].results
           body == Body(kind, results)
           status == Status(kind, results)
<1>1. /\ Working(t) /\ pc[t] = "idle" /\ ~Remaining(t)
      /\ answer' = [answer EXCEPT ![t] = [status |-> status, body |-> body]]
      /\ UNCHANGED vars /\ job' = job
  BY DEF Respond, Answered, At
<1>2. IInv' /\ UNCHANGED <<pc, req, res>>
  BY <1>1, UnchangedIInv DEF SInv, vars
<1>3. JobTyped(t) /\ Progress(t)
  BY <1>1 DEF SInv, HandlerInv, Working
<1>4. Len(results) = Len(job[t].models) /\ job[t].models \in Seq(Models)
  <2>1. job[t].models \in Seq(Models)
    BY <1>3, BodiesAreModels DEF JobTyped
  <2> QED
    BY <1>1, <1>3, <2>1 DEF Remaining, JobTyped
<1>5. EqualDefinitions => results = Expected(job[t])
  <2> SUFFICES ASSUME EqualDefinitions PROVE results = Expected(job[t])
    OBVIOUS
  <2>1. results \in Seq(CelResult) /\ DOMAIN job[t].models = 1..Len(results)
    BY <1>3, <1>4 DEF JobTyped
  <2>2. results = [i \in 1..Len(results) |-> results[i]]
    BY <2>1
  <2> QED
    BY <1>3, <2>1, <2>2 DEF Progress, Expected, Asking
<1>6. status \in {201, 0} <=> ~Failed(results)
  BY DEF Status
<1>7. EqualDefinitions =>
        (~Failed(results) <=> \A i \in DOMAIN job[t].models : Answer(Asking(t, i)).err = "none")
  BY <1>5 DEF Failed, Expected, Asking
<1>8. answer'[t] = [status |-> status, body |-> body] /\ \A u \in Callers \ {t} : answer'[u] = answer[u]
  BY <1>1 DEF SInv
<1>9. Right(t)'
  <2>1. EqualDefinitions => body = Body(kind, Expected(job[t]))
    BY <1>5
  <2> HIDE DEF status, body, results
  <2>2. answer'[t].status = status /\ answer'[t].body = body
    BY <1>8
  <2> QED
    BY <1>1, <1>6, <1>7, <2>1, <2>2 DEF Right, Expected, Asking
<1>10. JobTyped(t)' /\ Progress(t)'
  BY <1>1, <1>2, <1>3 DEF JobTyped, Progress, Asking, Remaining
<1>11. HandlerInv(t)'
  BY <1>1, <1>2, <1>9, <1>10 DEF HandlerInv, Working
<1>12. ASSUME NEW u \in Callers, u # t PROVE HandlerInv(u)'
  BY <1>1, <1>2, <1>8, <1>12, OthersHold DEF SInv
<1> QED
  BY <1>1, <1>2, <1>11, <1>12 DEF SInv

LEMMA FinishKeeps ==
  ASSUME SInv, NEW t \in Callers, Finish(t)
  PROVE  SInv'
<1>1. /\ answer[t] # Nil /\ UNCHANGED vars
      /\ job' = [job EXCEPT ![t] = Nil] /\ answer' = [answer EXCEPT ![t] = Nil]
  BY DEF Finish
<1>2. IInv' /\ UNCHANGED <<pc, req, res>>
  BY <1>1, UnchangedIInv DEF SInv, vars
<1>3. HandlerInv(t)'
  BY <1>1, <1>2 DEF SInv, HandlerInv
<1>4. ASSUME NEW u \in Callers, u # t PROVE HandlerInv(u)'
  BY <1>1, <1>2, <1>4, OthersHold DEF SInv
<1> QED
  BY <1>1, <1>2, <1>3, <1>4 DEF SInv

LEMMA IdleKeeps ==
  ASSUME SInv, UNCHANGED <<pc, req, res, job, answer>>, IInv'
  PROVE  SInv'
<1>1. \A u \in Callers : HandlerInv(u)'
  BY OthersHold DEF SInv
<1> QED
  BY <1>1 DEF SInv

LEMMA NextSInv ==
  ASSUME SInv, [ServiceNext]_svars
  PROVE  SInv'
<1>1. ASSUME NEW t \in Callers, Undecodable(t) \/ RejectEmpty(t) \/ Receive(t)
      PROVE  SInv'
  <2>1. CASE Undecodable(t)
    BY <2>1, Accepted DEF Undecodable, Refuse
  <2>2. CASE RejectEmpty(t)
    BY <2>2, Accepted DEF RejectEmpty, Refuse
  <2>3. CASE Receive(t)
    BY <2>3, Accepted DEF Receive
  <2> QED
    BY <1>1, <2>1, <2>2, <2>3
<1>2. ASSUME NEW t \in Callers, Handle(t) PROVE SInv'
  BY <1>2, CallKeeps, RunKeeps, CollectKeeps, RespondKeeps, FinishKeeps DEF Handle
<1>3. CASE ClearCache /\ UNCHANGED <<job, answer>>
  <2>1. IInv' /\ UNCHANGED <<pc, req, res>>
    BY <1>3, ClearCacheIInv DEF SInv, ClearCache
  <2> QED
    BY <1>3, <2>1, IdleKeeps
<1>4. CASE ServiceStopped \/ UNCHANGED svars
  <2>1. UNCHANGED vars /\ UNCHANGED <<job, answer>>
    BY <1>4 DEF ServiceStopped, svars
  <2>2. IInv' /\ UNCHANGED <<pc, req, res>>
    BY <2>1, UnchangedIInv DEF SInv, vars
  <2> QED
    BY <2>1, <2>2, IdleKeeps
<1> QED
  BY <1>1, <1>2, <1>3, <1>4 DEF ServiceNext

-----------------------------------------------------------------------------
(* The theorems.                                                           *)

LEMMA ServiceInvariance == ServiceSafe => []SInv
<1>1. SInv /\ [ServiceNext]_svars => SInv'
  BY NextSInv
<1> QED
  BY <1>1, InitSInv, PTL DEF ServiceSafe

\* Every variable has its type, and a handler never has more results than models:
\* the slice that ProcCelMany makes for its results is not overrun.
THEOREM HandlersTyped == ServiceSafe => []ServiceTypeOK
<1>1. SInv => ServiceTypeOK
  BY DEF SInv, IInv, CallerTypes, CacheTypes, TypeOK, HandlerInv, JobTyped, ServiceTypeOK
<1> QED
  BY <1>1, ServiceInvariance, PTL

\* However the handlers of PostEval, PostEvalMany and Evaluate interleave over the
\* one cache, the i-th result of each request is the stateless answer to its i-th
\* model, and a request fails exactly when one of its own models does.
THEOREM AnswersInOrder ==
  ASSUME EqualDefinitions
  PROVE  ServiceSafe => []BatchAnswersInOrder
<1>1. SInv => BatchAnswersInOrder
  BY DEF SInv, HandlerInv, Right, Asking, BatchAnswersInOrder
<1> QED
  BY <1>1, ServiceInvariance, PTL

\* A call of ProcCel by a handler is one with a model.
LEMMA CallBegins ==
  ASSUME SInv, NEW t \in Callers, Call(t)
  PROVE  \E m \in Models : Begin(t, m)
<1>1. Working(t) /\ Remaining(t) /\ JobTyped(t)
  BY DEF Call, Working, SInv, HandlerInv
<1>2. Len(job[t].results) + 1 \in 1..Len(job[t].models)
  BY <1>1, BodiesAreModels DEF JobTyped, Remaining
<1> QED
  BY <1>1, <1>2, ModelsOfBodies DEF Call, JobTyped

\* Behind the three entry points ProcCel does what it does for callers of any kind,
\* whatever the definitions of the contexts: each model runs a program of its own
\* expression, its result is explained by it, and the cache stays coherent and
\* forgets its oldest entries, also in the middle of a batch.
THEOREM ProcessorBehindHandlers ==
  ServiceSafe => [](RunsOwnExpression /\ CacheCoherent /\ AnswerExplained /\ ForgetsOldest)
<1>1. SInv /\ Bounded /\ [ServiceNext]_svars => Bounded'
  <2> SUFFICES ASSUME SInv, Bounded, [ServiceNext]_svars PROVE Bounded'
    OBVIOUS
  <2>1. ASSUME NEW t \in Callers, Handle(t) PROVE Bounded'
    BY <2>1, CallBegins, StepBounded DEF Handle, Run, Collect, Respond, Finish, vars, lvars
  <2>2. ASSUME NEW t \in Callers, Undecodable(t) \/ RejectEmpty(t) \/ Receive(t) PROVE Bounded'
    BY <2>2, StepBounded DEF Undecodable, RejectEmpty, Receive, Accept, vars, lvars
  <2>3. CASE ClearCache \/ ServiceStopped \/ UNCHANGED svars
    BY <2>3, StepBounded DEF ServiceStopped, svars, vars, lvars
  <2> QED
    BY <2>1, <2>2, <2>3 DEF ServiceNext
<1>2. SInv /\ Bounded =>
        RunsOwnExpression /\ CacheCoherent /\ AnswerExplained /\ ForgetsOldest
  BY RunsOwn, AllExplained, BoundedForgets DEF SInv, IInv
<1>3. ServiceInit => Bounded
  BY InitBounded DEF ServiceInit
<1> QED
  BY <1>1, <1>2, <1>3, ServiceInvariance, PTL DEF ServiceSafe

\* What a handler collects is the answer to the model that it has asked.
LEMMA CollectExplained ==
  ASSUME SInv, ResultsExplained, NEW t \in Callers, Collect(t)
  PROVE  \A i \in DOMAIN job'[t].results :
           LET m == Passed(job'[t].kind, job'[t].models[i]) IN
           /\ Explains(m, job'[t].results[i])
           /\ job'[t].kind = "grpc" => job'[t].results[i] = Answer(m)
<1> DEFINE n == Len(job[t].results)
           more == Append(job[t].results, res[t])
<1>1. /\ Return(t) /\ pc[t] = "done"
      /\ job' = [job EXCEPT ![t].results = more]
  BY DEF Collect, Return, At
<1>2. job[t] # Nil /\ JobTyped(t) /\ Progress(t)
  BY <1>1 DEF SInv, HandlerInv
<1>3. req[t] = Asking(t, n + 1) /\ Explains(req[t], res[t]) /\ res[t] \in CelResult
  BY <1>1, <1>2, AllExplained DEF SInv, IInv, CallerTypes, Progress, AnswerExplained
<1>4. /\ DOMAIN more = 1..(n + 1) /\ DOMAIN job[t].results = 1..n /\ n \in Nat
      /\ \A i \in 1..n : more[i] = job[t].results[i]
      /\ more[n + 1] = res[t]
  BY <1>2, <1>3 DEF JobTyped
<1> HIDE DEF more, n
<1>5. job'[t] = [kind |-> job[t].kind, models |-> job[t].models, results |-> more]
  BY <1>1, <1>2 DEF SInv, JobTyped
<1>6. \A m : Explains(m, res[t]) /\ m.Identifier = Empty => res[t] = Answer(m)
  BY DEF Explains
<1>7. \A m \in Models : Passed("grpc", m).Identifier = Empty
  BY EngineAssumption DEF Passed, CelModel
<1>8. ASSUME NEW i \in 1..(n + 1)
      PROVE  /\ Explains(Asking(t, i), more[i])
             /\ job[t].kind = "grpc" => more[i] = Answer(Asking(t, i))
  <2>1. CASE i = n + 1
    <3>1. job[t].models[n + 1] \in Models
      <4>1. Remaining(t)
        BY <1>1, <1>2 DEF Progress
      <4>2. n + 1 \in 1..Len(job[t].models)
        BY <1>2, <1>4, <4>1, BodiesAreModels DEF JobTyped, Remaining, n
      <4> QED
        BY <1>2, <4>2, ModelsOfBodies DEF JobTyped
    <3>2. job[t].kind = "grpc" => res[t] = Answer(req[t])
      BY <1>3, <1>6, <1>7, <3>1 DEF Asking
    <3> QED
      BY <1>3, <1>4, <2>1, <3>2
  <2>2. CASE i # n + 1
    <3>1. i \in 1..n
      BY <1>4, <2>2
    <3> QED
      BY <1>2, <1>4, <3>1 DEF ResultsExplained, Asking
  <2> QED
    BY <2>1, <2>2
<1> QED
  BY <1>4, <1>5, <1>8 DEF Asking

\* Without EqualDefinitions a result may show that there are other clients, but only
\* those that share the identifier and the expression of the model in its place; over
\* gRPC, which drops the identifier, none at all.
THEOREM EachResultExplained == ServiceSafe => []ResultsExplained
<1>1. SInv /\ ResultsExplained /\ [ServiceNext]_svars => ResultsExplained'
  <2> SUFFICES ASSUME SInv, ResultsExplained, [ServiceNext]_svars PROVE ResultsExplained'
    OBVIOUS
  <2>1. CASE job' = job
    BY <2>1 DEF ResultsExplained
  <2>2. ASSUME NEW t \in Callers, NEW j, job' = [job EXCEPT ![t] = j], j = Nil \/ DOMAIN j.results = {}
        PROVE  ResultsExplained'
    BY <2>2 DEF ResultsExplained, SInv
  <2>3. ASSUME NEW t \in Callers, NEW kind, NEW models, Accept(t, kind, models)
        PROVE  ResultsExplained'
    <3>1. DOMAIN Job(kind, models).results = {}
      BY DEF Job
    <3>2. job' = [job EXCEPT ![t] = Job(kind, models)]
      BY <2>3 DEF Accept
    <3> QED
      BY <2>2, <3>1, <3>2
  <2>4. ASSUME NEW t \in Callers, Collect(t) PROVE ResultsExplained'
    <3>1. \A u \in Callers \ {t} : job'[u] = job[u]
      BY <2>4 DEF Collect, SInv
    <3> QED
      BY <2>4, <3>1, CollectExplained DEF ResultsExplained
  <2>5. ASSUME NEW t \in Callers, Finish(t) PROVE ResultsExplained'
    BY <2>2, <2>5 DEF Finish
  <2>6. ASSUME NEW t \in Callers, Undecodable(t) \/ RejectEmpty(t) \/ Receive(t) PROVE ResultsExplained'
    BY <2>3, <2>6 DEF Undecodable, RejectEmpty, Receive
  <2>7. ASSUME NEW t \in Callers, Call(t) \/ Run(t) \/ Respond(t) PROVE job' = job
    BY <2>7 DEF Call, Run, Respond
  <2>8. CASE (ClearCache /\ UNCHANGED <<job, answer>>) \/ ServiceStopped \/ UNCHANGED svars
    BY <2>1, <2>8 DEF ServiceStopped, svars
  <2> QED
    BY <2>1, <2>4, <2>5, <2>6, <2>7, <2>8 DEF ServiceNext, Handle
<1>2. ServiceInit => ResultsExplained
  BY DEF ServiceInit, ResultsExplained
<1> QED
  BY <1>1, <1>2, ServiceInvariance, PTL DEF ServiceSafe

\* The three entry points together implement a service without a cache.
THEOREM ServiceIsStateless ==
  ASSUME EqualDefinitions
  PROVE  ServiceSafe => Transparent
<1>1. ServiceInit => Stateless!Init
  BY DEF ServiceInit, Init, Stateless!Init
<1>2. SInv /\ [ServiceNext]_svars => [Stateless!Next]_<<req, res>>
  <2> SUFFICES ASSUME SInv, [ServiceNext]_svars PROVE [Stateless!Next]_<<req, res>>
    OBVIOUS
  <2>1. ASSUME NEW t \in Callers, Undecodable(t) \/ RejectEmpty(t) \/ Receive(t) \/ Respond(t)
                                    \/ Finish(t)
        PROVE  UNCHANGED <<req, res>>
    BY <2>1 DEF Undecodable, RejectEmpty, Receive, Accept, Respond, Finish, vars
  <2>2. ASSUME NEW t \in Callers, Call(t) PROVE Stateless!Ask(t)
    <3>1. PICK m \in Models : Begin(t, m)
      BY <2>2, CallBegins
    <3> QED
      BY <3>1 DEF Begin, At, SInv, IInv, CallerTypes, Stateless!Ask
  <2>3. ASSUME NEW t \in Callers, Run(t)
        PROVE  Stateless!Reply(t) \/ UNCHANGED <<req, res>>
    BY <2>3, StepRefines DEF Run, SInv
  <2>4. ASSUME NEW t \in Callers, Collect(t) PROVE Stateless!Leave(t)
    BY <2>4 DEF Collect, Return, At, SInv, IInv, CallerTypes, Stateless!Leave
  <2>5. CASE ClearCache \/ ServiceStopped \/ UNCHANGED svars
    BY <2>5 DEF ClearCache, ServiceStopped, svars, vars
  <2> QED
    BY <2>1, <2>2, <2>3, <2>4, <2>5 DEF ServiceNext, Handle, Stateless!Next
<1> QED
  BY <1>1, <1>2, ServiceInvariance, PTL DEF ServiceSafe, Transparent, Stateless!Spec
=============================================================================
