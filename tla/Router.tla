------------------------------- MODULE Router -------------------------------
(***************************************************************************)
(* The way of a request through the middleware of cmd/service/main.go, on  *)
(* the servers of Lifecycle: API key, metrics, token, handler.  The        *)
(* metrics middleware (internal/api/metrics.go) keeps a map from names to  *)
(* counters that all requests share without a lock.                        *)
(*                                                                         *)
(* promauto.NewCounter registers a counter under a lock of its own and     *)
(* panics when the name is taken.  The Go runtime notices most, not all,   *)
(* accesses of a map while another goroutine writes it, and then throws.   *)
(***************************************************************************)
EXTENDS Lifecycle, FiniteSets

CONSTANTS NameOf,       \* the metrics name of each request
          Credentials,  \* what each request may carry
          Nil

\* The counter that a request makes is identified with the request.
ASSUME RouterAssumption ==
  /\ Nil \notin Requests /\ IsFiniteSet(Requests)
  /\ \A r \in Requests : Credentials[r] \subseteq Carried

Names == {NameOf[r] : r \in Requests}

VARIABLES carries,     \* what each request carries
          stage,       \* where in the chain each request is
          own,         \* the local counter of each request
          metrics,     \* the map: name to counter
          registered,  \* the registry: name to counter, or Nil
          count        \* value of each counter

rvars == <<carries, stage, own, metrics, registered, count>>
allvars == <<vars, rvars>>

RouterInit ==
  /\ Init
  /\ carries \in [Requests -> Carried]
  /\ \A r \in Requests : carries[r] \in Credentials[r]
  /\ stage = [r \in Requests |-> "new"]
  /\ own = [r \in Requests |-> Nil]
  /\ metrics = [n \in {} |-> Nil]
  /\ registered = [n \in Names |-> Nil]
  /\ count = [r \in Requests |-> 0]

-----------------------------------------------------------------------------

Moves(r, from, to) ==
  /\ Running /\ request[r] = "running"
  /\ stage[r] = from
  /\ stage' = [stage EXCEPT ![r] = to]
  /\ UNCHANGED <<vars, carries>>

apikey == serviceConfig.apikey
jwt == serviceConfig.authType = "jwt"

\* apiRoutes returns before it mounts a route.
routed == ~(jwt /\ ParseJWTConfigFails(serviceConfig.properties))

AfterMetrics == IF jwt THEN "token" ELSE "handler"

\* healthRoutes has no filters, gRPC has no router.
Unfiltered(r) == Kind[r] = "rpc" \/ (Kind[r] = "probe" /\ ssl)

\* The router of the server; chi answers 404 by itself when there is no route.
First(r) ==
  IF Unfiltered(r) THEN "handler"
  ELSE IF ~routed THEN "404"
  ELSE IF apikey THEN "key"
  ELSE AfterMetrics

Enter(r) ==
  /\ Accept(r)
  /\ stage' = [stage EXCEPT ![r] = First(r)]
  /\ UNCHANGED <<carries, own, metrics, registered, count>>

\* SysAPIHandler, skipped for probes.
CheckKey(r) ==
  /\ Moves(r, "key", IF Kind[r] = "probe" \/ carries[r].key THEN "lookup" ELSE "400")
  /\ UNCHANGED <<own, metrics, registered, count>>

\* Another request is writing the map.
Writing(r) == \E q \in Requests \ {r} : stage[q] = "storing" /\ request[q] = "running"

\* counter, ok := metrics[metricsName]
Lookup(r) ==
  LET ok == NameOf[r] \in DOMAIN metrics IN
  /\ Moves(r, "lookup", IF ok THEN "count" ELSE "register")
  /\ own' = [own EXCEPT ![r] = IF ok THEN metrics[NameOf[r]] ELSE Nil]
  /\ UNCHANGED <<metrics, registered, count>>

\* Fault: the error of Register is ignored, and the counter used all the same.
IgnoreTaken(r) ==
  /\ Moves(r, "register", "store")
  /\ own' = [own EXCEPT ![r] = r]
  /\ registered' = [registered EXCEPT ![NameOf[r]] = IF @ = Nil THEN r ELSE @]
  /\ UNCHANGED <<metrics, count>>

\* promauto.NewCounter; its panic ends in middleware.Recoverer, as a 500.
Register(r) ==
  LET free == registered[NameOf[r]] = Nil IN
  /\ Moves(r, "register", IF free THEN "store" ELSE "500")
  /\ own' = [own EXCEPT ![r] = IF free THEN r ELSE Nil]
  /\ registered' = [registered EXCEPT ![NameOf[r]] = IF free THEN r ELSE @]
  /\ UNCHANGED <<metrics, count>>

\* metrics[metricsName] = counter, from its begin ...
Store(r) ==
  /\ Moves(r, "store", "storing")
  /\ UNCHANGED <<own, metrics, registered, count>>

\* ... to its end.  A write that overlaps another one may be lost.
Stored(r) ==
  /\ Moves(r, "storing", "count")
  /\ \/ metrics' = [n \in DOMAIN metrics \cup {NameOf[r]} |->
                      IF n = NameOf[r] THEN own[r] ELSE metrics[n]]
     \/ Writing(r) /\ UNCHANGED metrics
  /\ UNCHANGED <<own, registered, count>>

\* The runtime notices that the map is being written.
MapThrow(r) ==
  /\ stage[r] \in {"lookup", "store"}
  /\ Writing(r)
  /\ Throw(r)
  /\ UNCHANGED rvars

\* counter.Inc()
Count(r) ==
  /\ Moves(r, "count", AfterMetrics)
  /\ count' = [count EXCEPT ![own[r]] = @ + 1]
  /\ UNCHANGED <<own, metrics, registered>>

\* Verifier and Authenticator.
CheckToken(r) ==
  /\ Moves(r, "token", IF Authenticated(carries[r]) THEN "handler" ELSE "401")
  /\ UNCHANGED <<own, metrics, registered, count>>

\* The handler returns, or a filter has answered.
Respond(r) ==
  /\ stage[r] \in {"handler", "400", "401", "404", "500"}
  /\ Answer(r)
  /\ UNCHANGED rvars

Filters(r) ==
  CheckKey(r) \/ Lookup(r) \/ Register(r) \/ Store(r) \/ Stored(r) \/ Count(r) \/ CheckToken(r)

RouterNext ==
  \/ (Main \/ Goroutines \/ Interrupt \/ Pass) /\ UNCHANGED rvars
  \/ \E r \in Requests : Enter(r) \/ Filters(r) \/ MapThrow(r) \/ Respond(r)

\* As in Lifecycle.
RouterSpec == RouterInit /\ [][RouterNext]_allvars /\ WF_vars(Main) /\ WF_vars(Pass)

-----------------------------------------------------------------------------
(* Properties.                                                             *)

Stages == {"new", "key", "lookup", "register", "store", "storing", "count", "token",
           "handler", "400", "401", "404", "500"}

\* Every variable has its type, and a request that is about to use a counter
\* has one.
RouterTypeOK ==
  /\ TypeOK
  /\ carries \in [Requests -> Carried]
  /\ stage \in [Requests -> Stages]
  /\ own \in [Requests -> Requests \cup {Nil}]
  /\ DOMAIN metrics \subseteq Names /\ metrics \in [DOMAIN metrics -> Requests]
  /\ registered \in [Names -> Requests \cup {Nil}]
  /\ count \in [Requests -> Nat]
  /\ \A r \in Requests : stage[r] \in {"store", "storing", "count"} => own[r] # Nil

\* Whatever first requests race, the exported counter of a name has counted
\* every request of that name that got past the middleware: no counter that is
\* in use is missing from the registry.
PastMetrics(n) ==
  {r \in Requests : NameOf[r] = n /\ stage[r] \in {"token", "handler", "401"} /\ First(r) = "key"}
Exported(n) == IF registered[n] = Nil THEN 0 ELSE count[registered[n]]
NothingUncounted == \A n \in Names : Exported(n) = Cardinality(PastMetrics(n))

\* A request has the token of its header, and that of its cookie only when the
\* header has none.
HasToken(c) == c.header = "jwt" \/ (c.header = "none" /\ c.cookie = "jwt")

\* Probes are not asked for the key; without ssl they are asked for the token.
KeyMissing(r) == apikey /\ Kind[r] # "probe" /\ ~carries[r].key
TokenMissing(r) == jwt /\ ~HasToken(carries[r])

\* The ends that a request may meet in the filters, each for its own reason.
Ends == {"404", "400", "401", "handler"}
Deserves(r, end) ==
  CASE end = "404" -> ~routed
    [] end = "400" -> routed /\ KeyMissing(r)
    [] end = "401" -> routed /\ ~KeyMissing(r) /\ TokenMissing(r)
    [] end = "handler" -> routed /\ ~KeyMissing(r) /\ ~TokenMissing(r)

\* Every request meets the one end that the configuration has for what it carries,
\* through any order of the filters' steps: none gets past a filter that should
\* stop it, and none is refused that has what is asked for, or for another reason
\* than the first thing it lacks.  RPCs and the probes of a service with ssl always
\* get to their handler, even when the configuration of the API is broken.  (A 500
\* of the metrics is no such end.)
Admission ==
  \A r \in Requests :
    IF Unfiltered(r) THEN stage[r] \in {"new", "handler"}
    ELSE stage[r] \in Ends => Deserves(r, stage[r])
=============================================================================
