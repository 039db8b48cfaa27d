---------------------------- MODULE EvalService -----------------------------
(***************************************************************************)
(* The three entry points of the service over ProcCel: PostEval and        *)
(* PostEvalMany (internal/apiv1/evalapi.go) and the gRPC method Evaluate   *)
(* (internal/csrv/celserver.go) with GRPCProcCel.  Each request is handled *)
(* by a goroutine; all of them share lcache.                               *)
(***************************************************************************)
EXTENDS CelProc, Sequences

CONSTANTS Kinds,    \* entry points in use: "post", "many", "grpc"
          Bodies,   \* what clients send: sequences of Models
          SerrBody  \* a response body that is a serror.Serr

VARIABLES job,     \* the request a handler is at work on, or Nil
          answer   \* what it has answered, or Nil

svars == <<vars, job, answer>>

\* No package calls Wrapper.
serror == INSTANCE Serror WITH wrapper <- <<>>

\* What a handler has of a body that it could not decode.
NotDecoded == <<>>

\* What reaches ProcCel: GRPCProcCel copies the context and the expression
\* only, and CelRequest has no Id.
Passed(kind, m) ==
  IF kind = "grpc" THEN [m EXCEPT !.Id = Empty, !.Identifier = Empty] ELSE m

ASSUME BodiesAssumption ==
  /\ Bodies \subseteq Seq(Models)
  /\ \A m \in Models, kind \in Kinds : Passed(kind, m) \in Models
  /\ Nil \notin [kind : Kinds, models : Seq(Models), results : Seq(CelResult)]

ServiceInit ==
  /\ Init
  /\ job = [t \in Callers |-> Nil]
  /\ answer = [t \in Callers |-> Nil]

Job(kind, models) == [kind |-> kind, models |-> models, results |-> <<>>]
Answered(t, status, body) ==
  answer' = [answer EXCEPT ![t] = [status |-> status, body |-> body]]

\* httputils.Err with a serror.BadRequest of this key and message.
Refuse(t, args) == Answered(t, serror!Err(serror!BadRequest(serror!NoError, args)).Code, SerrBody)

Accept(t, kind, models) ==
  /\ BelowBound
  /\ job[t] = Nil
  /\ job' = [job EXCEPT ![t] = Job(kind, models)]
  /\ UNCHANGED vars

\* decode or defaultDecoder reports an error.  (A gRPC request that is not
\* decoded never reaches Evaluate.)
Undecodable(t) ==
  /\ \E kind \in Kinds \ {"grpc"} : Accept(t, kind, NotDecoded)
  /\ Refuse(t, <<"server-error", "error decoding context">>)

\* PostEval turns an empty expression down before ProcCel sees it.
RejectEmpty(t) ==
  /\ "post" \in Kinds
  /\ \E m \in Models : m.Expression = Empty /\ Accept(t, "post", <<m>>)
  /\ Refuse(t, <<"empty expression not allowed">>)

Receive(t) ==
  /\ \E kind \in Kinds, models \in Bodies :
       /\ kind # "many" => Len(models) = 1
       /\ kind = "post" => models[1].Expression # Empty
       /\ Accept(t, kind, models)
  /\ UNCHANGED answer

Working(t) == job[t] # Nil /\ answer[t] = Nil
Remaining(t) == Len(job[t].results) < Len(job[t].models)

\* The next round of the loop in ProcCelMany; the only one of the others.
Call(t) ==
  /\ Working(t)
  /\ Remaining(t)
  /\ Begin(t, Passed(job[t].kind, job[t].models[Len(job[t].results) + 1]))
  /\ UNCHANGED <<job, answer>>

Run(t) == Step(t) /\ UNCHANGED <<job, answer>>

\* Fault: the results are collected last first.
CollectReversed(t) ==
  /\ Return(t)
  /\ job' = [job EXCEPT ![t].results = <<res[t]>> \o @]
  /\ UNCHANGED answer

\* Fault: append on top of results[x] = res.
CollectTwice(t) ==
  /\ Return(t)
  /\ job' = [job EXCEPT ![t].results = Append(Append(@, res[t]), res[t])]
  /\ UNCHANGED answer

\* results[x] = res
Collect(t) ==
  /\ Return(t)
  /\ job' = [job EXCEPT ![t].results = Append(@, res[t])]
  /\ UNCHANGED answer

\* ProcCelMany fails when one of the results does.
Failed(results) == \E i \in DOMAIN results : results[i].err # "none"

\* One result for the single requests; gRPC answers without Id, and without a
\* response when there is an error.
Body(kind, results) ==
  CASE kind = "many" -> results
    [] kind = "post" -> results[1]
    [] kind = "grpc" /\ Failed(results) -> Nil
    [] OTHER -> [Result |-> results[1].Result]

\* http.StatusBadRequest and StatusCreated; grpc's codes.Unknown and OK.
Status(kind, results) ==
  CASE kind = "grpc" -> IF Failed(results) THEN 2 ELSE 0
    [] OTHER -> IF Failed(results) THEN 400 ELSE 201

Respond(t) ==
  LET j == job[t] IN
  /\ Working(t)
  /\ At(t, "idle")
  /\ ~Remaining(t)
  /\ Answered(t, Status(j.kind, j.results), Body(j.kind, j.results))
  /\ UNCHANGED <<vars, job>>

Finish(t) ==
  /\ answer[t] # Nil
  /\ job' = [job EXCEPT ![t] = Nil]
  /\ answer' = [answer EXCEPT ![t] = Nil]
  /\ UNCHANGED vars

Handle(t) == Call(t) \/ Run(t) \/ Collect(t) \/ Respond(t) \/ Finish(t)

\* The bound is reached and every request has been answered.
ServiceStopped ==
  /\ \A t \in Callers : job[t] = Nil
  /\ ~BelowBound
  /\ UNCHANGED svars

ServiceNext ==
  \/ \E t \in Callers : Undecodable(t) \/ RejectEmpty(t) \/ Receive(t) \/ Handle(t)
  \/ ClearCache /\ UNCHANGED <<job, answer>>
  \/ ServiceStopped

ServiceSafe == ServiceInit /\ [][ServiceNext]_svars

\* A goroutine that can run is scheduled.
ServiceSpec == ServiceSafe /\ \A t \in Callers : WF_svars(Handle(t))

-----------------------------------------------------------------------------
(* Properties.                                                             *)

\* Every variable has its type; a handler has as many results as it has asked.
ServiceTypeOK ==
  /\ TypeOK
  /\ \A t \in Callers :
       \/ job[t] = Nil /\ answer[t] = Nil
       \/ /\ job[t].kind \in Kinds
          /\ job[t].models \in Bodies \cup {NotDecoded} \cup {<<m>> : m \in Models}
          /\ job[t].results \in Seq(CelResult)
          /\ Len(job[t].results) <= Len(job[t].models)

\* What a service without a cache would answer to each model of a request.
Expected(j) == [i \in DOMAIN j.models |-> Answer(Passed(j.kind, j.models[i]))]

\* The i-th result of a request answers its i-th model as if the service had
\* no cache and no other client, and the request fails exactly when one of its
\* models does: the batches that other handlers run at the same time, over
\* the same identifiers, do not show.  (For equal context definitions.)
BatchAnswersInOrder ==
  \A t \in Callers :
    answer[t] # Nil /\ answer[t].body # SerrBody =>
      /\ answer[t].body = Body(job[t].kind, Expected(job[t]))
      /\ answer[t].status \in {201, 0} <=>
           \A i \in DOMAIN job[t].models :
             Answer(Passed(job[t].kind, job[t].models[i])).err = "none"

\* Also where definitions differ, each result that a handler has collected, of a batch
\* that is under way, too, is explained by the model in its place; over gRPC, where
\* nothing is shared, it is the one of a service without a cache all the same.
\* (Proved in EvalServiceProofs, no part of a run.)
ResultsExplained ==
  \A t \in Callers :
    job[t] # Nil =>
      \A i \in DOMAIN job[t].results :
        LET m == Passed(job[t].kind, job[t].models[i]) IN
        /\ Explains(m, job[t].results[i])
        /\ job[t].kind = "grpc" => job[t].results[i] = Answer(m)

\* Every request is answered, whatever the others do.
RequestsAnswered == \A t \in Callers : job[t] # Nil ~> job[t] = Nil

\* README: "`id` is the id of the single request": each result of a batch
\* carries the id of the model it answers.
IdEchoed ==
  \A t \in Callers :
    job[t] # Nil => \A i \in DOMAIN job[t].results :
                      job[t].results[i].Id = job[t].models[i].Id

\* README: "Every subsequent call with the same identifier and expression will
\* be accessing the cached expression program".  Every client sends an
\* identifier, each with one expression that compiles; then the callers that
\* looked before the first store compile, once each at most.
CachedProgramReused ==
  builds <= Cardinality(Callers)
              * Cardinality({m.Identifier : m \in UNION {{b[i] : i \in DOMAIN b} : b \in Bodies}})
=============================================================================
