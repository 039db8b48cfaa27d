---------------------------- MODULE RouterProofs ----------------------------
(***************************************************************************)
(* Proofs about Router, for any number of requests and names.              *)
(*                                                                         *)
(* Its steps are steps of Lifecycle or leave the servers alone, so what    *)
(* LifecycleProofs shows holds here.  That nothing is uncounted rests on   *)
(* where a counter can come from: the map has only counters that are       *)
(* registered, a lost write only loses a key, and a request that uses a    *)
(* counter has got it from one of the two.  That each request meets the    *)
(* end it deserves rests on what each filter has seen to before a request  *)
(* is at the next one.                                                     *)
(***************************************************************************)
EXTENDS Router, LifecycleProofs, FiniteSetTheorems

LEMMA RouterStep == [RouterNext]_allvars => [Next]_vars
<1> SUFFICES ASSUME RouterNext PROVE Next \/ UNCHANGED vars
  BY DEF allvars
<1>1. CASE (Main \/ Goroutines \/ Interrupt \/ Pass) /\ UNCHANGED rvars
  BY <1>1 DEF Next, Clients
<1>2. ASSUME NEW r \in Requests, Enter(r) PROVE Next
  BY <1>2 DEF Enter, Next, Clients
<1>3. ASSUME NEW r \in Requests, Filters(r) PROVE UNCHANGED vars
  BY <1>3 DEF Filters, CheckKey, Lookup, Register, Store, Stored, Count, CheckToken, Moves
<1>4. ASSUME NEW r \in Requests, MapThrow(r) \/ Respond(r) PROVE Next
  BY <1>4 DEF MapThrow, Respond, Next, Clients
<1> QED
  BY <1>1, <1>2, <1>3, <1>4 DEF RouterNext

\* The service with its middleware implements the service without: a filter is
\* a step of a handler, and what the middleware does to the process, the death by
\* a map that is written by two, is a handler's fatal error.
THEOREM RouterIsLifecycle == RouterSpec => Spec
<1>1. RouterInit => Init
  BY DEF RouterInit
<1> QED
  BY <1>1, RouterStep, PTL DEF RouterSpec, Spec

\* So the grace period holds with the middleware, too.
THEOREM GraceKeptByRouter == RouterSpec => []CutOnlyAfterDeadline
BY RouterIsLifecycle, GraceKept, PTL

-----------------------------------------------------------------------------
(* The invariant of the middleware.                                        *)

Inside == {"key", "lookup", "register", "store", "storing", "count"}

\* Who is in the metrics middleware came through the API key.
Chain ==
  \A r \in Requests : /\ stage[r] = "new" <=> request[r] = "new"
                      /\ stage[r] \in Inside => First(r) = "key"

\* The counter a request is about to use is the registered one.
Held ==
  \A r \in Requests :
    stage[r] \in {"store", "storing", "count"} => own[r] = registered[NameOf[r]]

\* The map has registered counters only.
Mapped == \A n \in DOMAIN metrics : metrics[n] = registered[n]

\* A counter is registered under the name of the request that made it.
Owned == \A n \in Names : registered[n] # Nil => NameOf[registered[n]] = n

\* Only registered counters have counted.
Fresh == \A r \in Requests : count[r] # 0 => registered[NameOf[r]] = r

\* What is known of a request by the stage it has come to.
Fits(r, s) ==
  /\ s \in {"lookup", "register", "store", "storing", "count", "token"} =>
       ~KeyMissing(r)
  /\ s = "token" => routed /\ jwt
  /\ s \in Ends => Deserves(r, s)

Screened ==
  \A r \in Requests :
    IF Unfiltered(r) THEN stage[r] \in {"new", "handler"} ELSE Fits(r, stage[r])

RInv == /\ RouterTypeOK /\ Chain /\ Held /\ Mapped /\ Owned /\ Fresh /\ NothingUncounted
        /\ Screened

-----------------------------------------------------------------------------

LEMMA NameTyped == \A r \in Requests : NameOf[r] \in Names
BY DEF Names

LEMMA FirstStages == \A r \in Requests : First(r) \in Stages \ {"new"} /\ First(r) \notin Inside \ {"key"}
BY DEF First, AfterMetrics, Stages, Inside

\* The filters look for the token where HasToken says it is.
LEMMA TokenFound == \A c \in Carried : Authenticated(c) <=> HasToken(c)
BY DEF Carried, Authenticated, VerifyRequest, DecodeJWT, NoToken, HasToken

\* Who is inside came through the API key, on a router with routes.
LEMMA InsideKeyed ==
  ASSUME Chain, NEW r \in Requests, stage[r] \in Inside
  PROVE  apikey /\ routed /\ ~Unfiltered(r)
BY DEF Chain, First, AfterMetrics

\* As long as the configuration stays, so does what it asks for.
LEMMA SameConfig ==
  ASSUME UNCHANGED <<serviceConfig, carries>>
  PROVE  /\ (apikey' <=> apikey) /\ (jwt' <=> jwt) /\ (routed' <=> routed)
         /\ \A r \in Requests : /\ First(r)' = First(r)
                                /\ Unfiltered(r)' <=> Unfiltered(r)
                                /\ KeyMissing(r)' <=> KeyMissing(r)
                                /\ TokenMissing(r)' <=> TokenMissing(r)
BY DEF First, AfterMetrics, Unfiltered, KeyMissing, TokenMissing, apikey, jwt, routed, ssl

\* ... and what is known of who has not moved, or fits where he has come to.
LEMMA StillScreened ==
  ASSUME UNCHANGED <<serviceConfig, carries>>,
         NEW q \in Requests, NEW s, stage'[q] = s,
         IF Unfiltered(q) THEN s \in {"new", "handler"} ELSE Fits(q, s)
  PROVE  IF Unfiltered(q)' THEN stage'[q] \in {"new", "handler"} ELSE Fits(q, stage[q])'
BY SameConfig DEF Fits, Ends, Deserves

LEMMA RouterInitInv == RouterInit => RInv
<1> SUFFICES ASSUME RouterInit PROVE RInv
  OBVIOUS
<1>1. /\ stage = [r \in Requests |-> "new"] /\ request = [r \in Requests |-> "new"]
      /\ own = [r \in Requests |-> Nil] /\ metrics = [n \in {} |-> Nil]
      /\ registered = [n \in Names |-> Nil] /\ count = [r \in Requests |-> 0]
      /\ carries \in [Requests -> Carried]
  BY DEF RouterInit, Init
<1>2. TypeOK
  BY InitIInv DEF RouterInit, IInv
<1>3. RouterTypeOK
  BY <1>1, <1>2 DEF RouterTypeOK, Stages
<1>4. Chain /\ Held /\ Mapped /\ Owned /\ Fresh /\ Screened
  BY <1>1, NameTyped DEF Chain, Held, Mapped, Owned, Fresh, Inside, Screened, Fits, Ends, Deserves
<1>5. \A n \in Names : PastMetrics(n) = {}
  BY <1>1 DEF PastMetrics
<1>6. NothingUncounted
  BY <1>1, <1>5, FS_EmptySet DEF NothingUncounted, Exported
<1> QED
  BY <1>3, <1>4, <1>6 DEF RInv

\* What main, the other goroutines, an interrupt and time do to the requests.
LEMMA OuterStep ==
  ASSUME IInv, Main \/ Goroutines \/ Interrupt \/ Pass
  PROVE  /\ \A r \in Requests : request'[r] = "new" <=> request[r] = "new"
         /\ UNCHANGED serviceConfig \/ \A r \in Requests : request[r] = "new"
<1>1. ASSUME NEW how, End(how)
      PROVE  \A r \in Requests : request'[r] = "new" <=> request[r] = "new"
  BY <1>1, EndCutsRunning
<1>2. CASE Main
  <2>1. CASE LoadConfig \/ Launch
    BY <2>1 DEF LoadConfig, Launch, Goto, IInv, NothingEarly
  <2>2. CASE Stop
    BY <2>2 DEF Stop, Cut, Active
  <2>3. CASE LoadFails \/ LaunchFails \/ StopPanics \/ Exit
    BY <2>3, <1>1 DEF LoadFails, LaunchFails, StopPanics, Exit
  <2>4. CASE Notify \/ Receive \/ CloseSrv \/ DrainSrv \/ CloseSslsrv \/ DrainSslsrv
    BY <2>4 DEF Notify, Receive, CloseSrv, DrainSrv, CloseSslsrv, DrainSslsrv, Close, Drain
  <2> QED
    BY <1>2, <2>1, <2>2, <2>3, <2>4 DEF Main
<1>3. CASE Goroutines
  BY <1>3, <1>1 DEF Goroutines, TickerPanics, GrpcListenFails, GrpcCreate, GrpcServe, Listen
<1>4. CASE Interrupt
  BY <1>4, <1>1 DEF Interrupt
<1>5. CASE Pass
  BY <1>5 DEF Pass
<1> QED
  BY <1>2, <1>3, <1>4, <1>5

\* A step that only changes requests, or the configuration before there are any,
\* keeps what is said of the middleware.
LEMMA OutsideKeeps ==
  ASSUME RInv, TypeOK', UNCHANGED rvars,
         \A r \in Requests : request'[r] = "new" <=> request[r] = "new",
         UNCHANGED serviceConfig \/ \A r \in Requests : request[r] = "new"
  PROVE  RInv'
<1>1. UNCHANGED <<carries, stage, own, metrics, registered, count>>
  BY DEF rvars
<1>2. \A r \in Requests : /\ stage[r] # "new" => First(r)' = First(r)
                         /\ IF Unfiltered(r)' THEN stage[r] \in {"new", "handler"}
                                              ELSE Fits(r, stage[r])'
  <2>1. CASE UNCHANGED serviceConfig
    BY <1>1, <2>1, SameConfig DEF RInv, Screened, Fits, Ends, Deserves
  <2>2. CASE \A r \in Requests : request[r] = "new"
    BY <1>1, <2>2 DEF RInv, Chain, Fits, Ends, Deserves
  <2> QED
    BY <2>1, <2>2
<1>3. RouterTypeOK'
  BY <1>1 DEF RInv, RouterTypeOK
<1>4. Chain'
  BY <1>1, <1>2 DEF RInv, Chain, Inside
<1>5. Held' /\ Mapped' /\ Owned' /\ Fresh' /\ Screened'
  BY <1>1, <1>2 DEF RInv, Held, Mapped, Owned, Fresh, Screened, Fits, Ends, Deserves
<1>6. \A n : PastMetrics(n)' = PastMetrics(n)
  BY <1>1, <1>2 DEF PastMetrics
<1>7. NothingUncounted'
  BY <1>1, <1>6 DEF RInv, NothingUncounted, Exported
<1> QED
  BY <1>3, <1>4, <1>5, <1>7 DEF RInv

\* A request is accepted and comes to its first filter.
LEMMA EnterKeeps ==
  ASSUME RInv, TypeOK', NEW r \in Requests, Enter(r)
  PROVE  RInv'
<1>1. /\ request[r] = "new" /\ request' = [request EXCEPT ![r] = "running"]
      /\ stage' = [stage EXCEPT ![r] = First(r)]
      /\ UNCHANGED <<serviceConfig, carries, own, metrics, registered, count>>
  BY DEF Enter, Accept
<1>2. /\ stage \in [Requests -> Stages] /\ stage[r] = "new"
      /\ request \in [Requests -> {"new", "running", "answered", "cut"}]
  BY <1>1 DEF RInv, RouterTypeOK, TypeOK, Chain
<1>3. /\ (apikey' <=> apikey) /\ (jwt' <=> jwt) /\ (routed' <=> routed)
      /\ \A q \in Requests : /\ First(q)' = First(q)
                             /\ Unfiltered(q)' <=> Unfiltered(q)
                             /\ KeyMissing(q)' <=> KeyMissing(q)
                             /\ TokenMissing(q)' <=> TokenMissing(q)
  BY <1>1, SameConfig
<1>4. First(r) \in Stages \ {"new"} /\ First(r) \notin Inside \ {"key"}
  BY FirstStages
<1>5. RouterTypeOK'
  BY <1>1, <1>2, <1>4 DEF RInv, RouterTypeOK, Inside
<1>6. Chain'
  BY <1>1, <1>2, <1>3, <1>4 DEF RInv, Chain, Inside
<1>7. Held' /\ Mapped' /\ Owned' /\ Fresh'
  BY <1>1, <1>2, <1>4 DEF RInv, Held, Mapped, Owned, Fresh, Inside
<1>8. \A n : PastMetrics(n)' = PastMetrics(n)
  BY <1>1, <1>2, <1>3, <1>4 DEF PastMetrics, Inside
<1>9. NothingUncounted'
  BY <1>1, <1>8 DEF RInv, NothingUncounted, Exported
<1>10. Screened'
  <2>1. IF Unfiltered(r) THEN First(r) = "handler" ELSE Fits(r, First(r))
    BY DEF First, AfterMetrics, Fits, Ends, Deserves, KeyMissing, TokenMissing
  <2>2. \A q \in Requests : stage'[q] = IF q = r THEN First(r) ELSE stage[q]
    BY <1>1, <1>2
  <2>3. \A q \in Requests : IF Unfiltered(q) THEN stage'[q] \in {"new", "handler"} ELSE Fits(q, stage'[q])
    BY <2>1, <2>2 DEF RInv, Screened
  <2> QED
    BY <1>1, <2>3, StillScreened DEF Screened
<1> QED
  BY <1>5, <1>6, <1>7, <1>9, <1>10 DEF RInv

\* What all filters have in common: one running request moves from one stage to
\* another, neither is the beginning, and the filter has seen to what the next
\* stage stands for.
LEMMA MovesKeeps ==
  ASSUME RInv, NEW r \in Requests, NEW from \in Stages \ {"new", "handler"}, NEW to \in Stages \ {"new"},
         Moves(r, from, to), to \in Inside => from \in Inside, Fits(r, to)
  PROVE  /\ UNCHANGED <<vars, carries>>
         /\ stage[r] = from /\ stage' = [stage EXCEPT ![r] = to]
         /\ stage \in [Requests -> Stages] /\ stage' \in [Requests -> Stages]
         /\ Chain' /\ Screened'
         /\ \A q \in Requests : First(q)' = First(q)
<1>1. /\ UNCHANGED <<vars, carries>>
      /\ stage[r] = from /\ stage' = [stage EXCEPT ![r] = to]
  BY DEF Moves
<1>2. stage \in [Requests -> Stages] /\ stage' \in [Requests -> Stages]
  BY <1>1 DEF RInv, RouterTypeOK
<1>3. UNCHANGED <<serviceConfig, carries, request>>
  BY <1>1 DEF vars
<1>4. /\ (apikey' <=> apikey) /\ (jwt' <=> jwt) /\ (routed' <=> routed)
      /\ \A q \in Requests : /\ First(q)' = First(q)
                             /\ Unfiltered(q)' <=> Unfiltered(q)
                             /\ KeyMissing(q)' <=> KeyMissing(q)
                             /\ TokenMissing(q)' <=> TokenMissing(q)
  BY <1>3, SameConfig
<1>5. Chain'
  BY <1>1, <1>2, <1>3, <1>4 DEF RInv, Chain
<1>6. Screened'
  <2>1. ~Unfiltered(r)
    BY <1>1 DEF RInv, Screened
  <2>2. \A q \in Requests : stage'[q] = IF q = r THEN to ELSE stage[q]
    BY <1>1, <1>2
  <2>3. \A q \in Requests : IF Unfiltered(q) THEN stage'[q] \in {"new", "handler"} ELSE Fits(q, stage'[q])
    BY <2>1, <2>2 DEF RInv, Screened
  <2> QED
    BY <1>3, <2>3, StillScreened DEF Screened
<1> QED
  BY <1>1, <1>2, <1>4, <1>5, <1>6

\* A move that does not count leaves who is past the middleware.
LEMMA NobodyPast ==
  ASSUME NEW r \in Requests, NEW from \in Stages, NEW to \in Stages,
         stage \in [Requests -> Stages],
         stage[r] = from, stage' = [stage EXCEPT ![r] = to],
         \A q \in Requests : First(q)' = First(q),
         from \in {"token", "handler", "401"} <=> to \in {"token", "handler", "401"}
  PROVE  \A n : PastMetrics(n)' = PastMetrics(n)
BY DEF PastMetrics

LEMMA UnchangedType ==
  ASSUME RInv, UNCHANGED vars
  PROVE  TypeOK'
<1>1. \A s \in Servers : Active(s)' = Active(s)
  BY QuietKeepsActive DEF vars
<1> QED
  BY <1>1 DEF vars, RInv, RouterTypeOK, TypeOK, Servers

\* A request that has passed the key is still fit inside of the metrics.
LEMMA FitsOn ==
  ASSUME RInv, NEW r \in Requests, NEW from \in {"lookup", "register", "storing"}, NEW to, Moves(r, from, to)
  PROVE  /\ Fits(r, "register") /\ Fits(r, "count") /\ Fits(r, "store") /\ Fits(r, "500")
<1>1. stage[r] = from
  BY DEF Moves
<1> QED
  BY <1>1 DEF RInv, Screened, Fits, Ends, Deserves

\* The filters that touch no counter.
LEMMA CheckKeeps ==
  ASSUME RInv, NEW r \in Requests, CheckKey(r) \/ Store(r) \/ CheckToken(r)
  PROVE  RInv'
<1>1. PICK from, to \in Stages \ {"new"} :
        /\ Moves(r, from, to)
        /\ <<from, to>> \in {<<"key", "lookup">>, <<"key", "400">>, <<"store", "storing">>,
                             <<"token", "handler">>, <<"token", "401">>}
        /\ Fits(r, to)
  <2>1. carries[r] \in Carried /\ (Fits(r, stage[r]) \/ stage[r] \in {"new", "handler"})
    BY DEF RInv, RouterTypeOK, Screened
  <2>2. stage[r] \in Inside => apikey /\ routed
    BY InsideKeyed DEF RInv
  <2>3. CASE CheckKey(r)
    <3>1. CASE KeyMissing(r)
      <4>1. Moves(r, "key", "400") /\ routed
        BY <2>2, <2>3, <3>1 DEF CheckKey, KeyMissing, Moves, Inside
      <4>2. Fits(r, "400")
        BY <3>1, <4>1 DEF Fits, Ends, Deserves
      <4> QED
        BY <4>1, <4>2 DEF Stages
    <3>2. CASE ~KeyMissing(r)
      <4>1. Moves(r, "key", "lookup")
        BY <2>2, <2>3, <3>2 DEF CheckKey, KeyMissing, Moves, Inside
      <4>2. Fits(r, "lookup")
        BY <3>2 DEF Fits, Ends
      <4> QED
        BY <4>1, <4>2 DEF Stages
    <3> QED
      BY <3>1, <3>2
  <2>4. CASE Store(r)
    <3>1. Moves(r, "store", "storing") /\ stage[r] = "store"
      BY <2>4 DEF Store, Moves
    <3>2. Fits(r, "storing")
      BY <2>1, <3>1 DEF Fits, Ends, Deserves
    <3> QED
      BY <3>1, <3>2 DEF Stages
  <2>5. CASE CheckToken(r)
    <3>1. stage[r] = "token" /\ Fits(r, "token") /\ (Authenticated(carries[r]) <=> HasToken(carries[r]))
      BY <2>1, <2>5, TokenFound DEF CheckToken, Moves, RInv, RouterTypeOK
    <3>2. CASE Authenticated(carries[r])
      <4>1. Fits(r, "handler")
        BY <3>1, <3>2 DEF Fits, Ends, Deserves, TokenMissing
      <4> QED
        BY <2>5, <3>2, <4>1 DEF CheckToken, Stages
    <3>3. CASE ~Authenticated(carries[r])
      <4>1. Fits(r, "401")
        BY <3>1, <3>3 DEF Fits, Ends, Deserves, TokenMissing
      <4> QED
        BY <2>5, <3>3, <4>1 DEF CheckToken, Stages
    <3> QED
      BY <3>2, <3>3
  <2> QED
    BY <2>3, <2>4, <2>5
<1>2. UNCHANGED <<own, metrics, registered, count>>
  BY DEF CheckKey, Store, CheckToken
<1>3. /\ UNCHANGED <<vars, carries>>
      /\ stage[r] = from /\ stage' = [stage EXCEPT ![r] = to]
      /\ stage \in [Requests -> Stages] /\ stage' \in [Requests -> Stages]
      /\ Chain' /\ Screened'
      /\ \A q \in Requests : First(q)' = First(q)
  BY <1>1, MovesKeeps DEF Inside
<1>4. RouterTypeOK'
  BY <1>1, <1>2, <1>3, UnchangedType DEF RInv, RouterTypeOK
<1>5. Held' /\ Mapped' /\ Owned' /\ Fresh'
  BY <1>1, <1>2, <1>3 DEF RInv, Held, Mapped, Owned, Fresh
<1>6. \A n : PastMetrics(n)' = PastMetrics(n)
  BY <1>1, <1>3, NobodyPast
<1>7. NothingUncounted'
  BY <1>2, <1>6 DEF RInv, NothingUncounted, Exported
<1> QED
  BY <1>3, <1>4, <1>5, <1>7 DEF RInv

LEMMA LookupKeeps ==
  ASSUME RInv, NEW r \in Requests, Lookup(r)
  PROVE  RInv'
<1> DEFINE ok == NameOf[r] \in DOMAIN metrics
           to == IF ok THEN "count" ELSE "register"
<1>1. /\ Moves(r, "lookup", to)
      /\ own' = [own EXCEPT ![r] = IF ok THEN metrics[NameOf[r]] ELSE Nil]
      /\ UNCHANGED <<metrics, registered, count>>
  BY DEF Lookup
<1>2. /\ UNCHANGED <<vars, carries>>
      /\ stage[r] = "lookup" /\ stage' = [stage EXCEPT ![r] = to]
      /\ stage \in [Requests -> Stages] /\ stage' \in [Requests -> Stages]
      /\ Chain' /\ Screened'
      /\ \A q \in Requests : First(q)' = First(q)
  BY <1>1, FitsOn, MovesKeeps DEF Inside, Stages
<1>3. /\ own \in [Requests -> Requests \cup {Nil}]
      /\ ok => metrics[NameOf[r]] = registered[NameOf[r]] /\ metrics[NameOf[r]] \in Requests
  BY DEF RInv, RouterTypeOK, Mapped
<1>4. RouterTypeOK'
  BY <1>1, <1>2, <1>3, UnchangedType, RouterAssumption DEF RInv, RouterTypeOK
<1>5. Held'
  <2>1. stage'[r] \in {"store", "storing", "count"} => own'[r] = registered[NameOf[r]]
    <3>1. own'[r] = IF ok THEN metrics[NameOf[r]] ELSE Nil
      BY <1>1, <1>3
    <3>2. ~ok => stage'[r] = "register"
      BY <1>2
    <3> HIDE DEF ok
    <3> QED
      BY <1>3, <3>1, <3>2
  <2>2. \A q \in Requests \ {r} : stage'[q] = stage[q] /\ own'[q] = own[q]
    BY <1>1, <1>2, <1>3
  <2> QED
    BY <1>1, <2>1, <2>2 DEF RInv, Held
<1>6. Mapped' /\ Owned' /\ Fresh'
  BY <1>1 DEF RInv, Mapped, Owned, Fresh
<1>7. \A n : PastMetrics(n)' = PastMetrics(n)
  BY <1>2, NobodyPast DEF Stages
<1>8. NothingUncounted'
  BY <1>1, <1>7 DEF RInv, NothingUncounted, Exported
<1> QED
  BY <1>2, <1>4, <1>5, <1>8, <1>6 DEF RInv

\* The new counter has counted nothing, and neither had anybody to be counted.
LEMMA RegisterKeeps ==
  ASSUME RInv, NEW r \in Requests, Register(r)
  PROVE  RInv'
<1> DEFINE free == registered[NameOf[r]] = Nil
           to == IF free THEN "store" ELSE "500"
<1>1. /\ Moves(r, "register", to)
      /\ own' = [own EXCEPT ![r] = IF free THEN r ELSE Nil]
      /\ registered' = [registered EXCEPT ![NameOf[r]] = IF free THEN r ELSE @]
      /\ UNCHANGED <<metrics, count>>
  BY DEF Register
<1>2. /\ UNCHANGED <<vars, carries>>
      /\ stage[r] = "register" /\ stage' = [stage EXCEPT ![r] = to]
      /\ stage \in [Requests -> Stages] /\ stage' \in [Requests -> Stages]
      /\ Chain' /\ Screened'
      /\ \A q \in Requests : First(q)' = First(q)
  BY <1>1, FitsOn, MovesKeeps DEF Inside, Stages
<1>3. /\ own \in [Requests -> Requests \cup {Nil}]
      /\ registered \in [Names -> Requests \cup {Nil}]
      /\ metrics \in [DOMAIN metrics -> Requests] /\ DOMAIN metrics \subseteq Names
      /\ count \in [Requests -> Nat]
      /\ NameOf[r] \in Names /\ r # Nil
  BY NameTyped, RouterAssumption DEF RInv, RouterTypeOK
<1>4. RouterTypeOK'
  BY <1>1, <1>2, <1>3, UnchangedType DEF RInv, RouterTypeOK
<1>5. Held'
  BY <1>1, <1>2, <1>3 DEF RInv, Held, RouterTypeOK
<1>6. Mapped'
  BY <1>1, <1>3, RouterAssumption DEF RInv, Mapped
<1>7. Owned'
  BY <1>1, <1>3 DEF RInv, Owned
<1>8. Fresh'
  BY <1>1, <1>3, NameTyped, RouterAssumption DEF RInv, Fresh
<1>9. \A n : PastMetrics(n)' = PastMetrics(n)
  BY <1>2, NobodyPast DEF Stages
<1>10. \A n \in Names : Exported(n)' = Exported(n)
  <2>1. free => count[r] = 0
    BY <1>3 DEF RInv, Fresh
  <2> QED
    BY <1>1, <1>3, <2>1 DEF Exported
<1>11. NothingUncounted'
  BY <1>9, <1>10 DEF RInv, NothingUncounted
<1> QED
  BY <1>2, <1>4, <1>5, <1>6, <1>7, <1>8, <1>11 DEF RInv

LEMMA StoredKeeps ==
  ASSUME RInv, NEW r \in Requests, Stored(r)
  PROVE  RInv'
<1>1. /\ Moves(r, "storing", "count")
      /\ UNCHANGED <<own, registered, count>>
      /\ \/ metrics' = [n \in DOMAIN metrics \cup {NameOf[r]} |->
                          IF n = NameOf[r] THEN own[r] ELSE metrics[n]]
         \/ UNCHANGED metrics
  BY DEF Stored
<1>2. /\ UNCHANGED <<vars, carries>>
      /\ stage[r] = "storing" /\ stage' = [stage EXCEPT ![r] = "count"]
      /\ stage \in [Requests -> Stages] /\ stage' \in [Requests -> Stages]
      /\ Chain' /\ Screened'
      /\ \A q \in Requests : First(q)' = First(q)
  BY <1>1, FitsOn, MovesKeeps DEF Inside, Stages
<1>3. own[r] = registered[NameOf[r]] /\ own[r] \in Requests /\ NameOf[r] \in Names
  BY <1>2, NameTyped DEF RInv, RouterTypeOK, Held
<1>4. DOMAIN metrics' \subseteq Names /\ metrics' \in [DOMAIN metrics' -> Requests]
  BY <1>1, <1>3 DEF RInv, RouterTypeOK
<1>5. RouterTypeOK'
  BY <1>1, <1>2, <1>4, UnchangedType DEF RInv, RouterTypeOK
<1>6. Held' /\ Owned' /\ Fresh'
  BY <1>1, <1>2 DEF RInv, Held, Owned, Fresh
<1>7. Mapped'
  BY <1>1, <1>3 DEF RInv, Mapped
<1>8. \A n : PastMetrics(n)' = PastMetrics(n)
  BY <1>2, NobodyPast DEF Stages
<1>9. NothingUncounted'
  BY <1>1, <1>8 DEF RInv, NothingUncounted, Exported
<1> QED
  BY <1>2, <1>5, <1>6, <1>7, <1>9 DEF RInv

\* The counter that is incremented is the exported one of the request's name.
LEMMA CountKeeps ==
  ASSUME RInv, NEW r \in Requests, Count(r)
  PROVE  RInv'
<1>1. /\ Moves(r, "count", AfterMetrics)
      /\ count' = [count EXCEPT ![own[r]] = @ + 1]
      /\ UNCHANGED <<own, metrics, registered>>
  BY DEF Count
<1>2. AfterMetrics \in {"token", "handler"} /\ Fits(r, AfterMetrics)
  <2>1. stage[r] = "count" /\ stage[r] \in Inside
    BY <1>1 DEF Moves, Inside
  <2>2. routed /\ Fits(r, "count")
    BY <2>1, InsideKeyed DEF RInv, Screened
  <2> QED
    BY <2>2 DEF AfterMetrics, Fits, Ends, Deserves, KeyMissing, TokenMissing
<1>3. /\ UNCHANGED <<vars, carries>>
      /\ stage[r] = "count" /\ stage' = [stage EXCEPT ![r] = AfterMetrics]
      /\ stage \in [Requests -> Stages] /\ stage' \in [Requests -> Stages]
      /\ Chain' /\ Screened'
      /\ \A q \in Requests : First(q)' = First(q)
  BY <1>1, <1>2, MovesKeeps DEF Inside, Stages
<1> DEFINE c == own[r]
<1>4. /\ c = registered[NameOf[r]] /\ c \in Requests /\ NameOf[r] \in Names /\ NameOf[c] = NameOf[r]
      /\ c # Nil /\ count \in [Requests -> Nat]
  BY <1>3, NameTyped, RouterAssumption DEF RInv, RouterTypeOK, Held, Owned
<1>5. count' \in [Requests -> Nat]
  BY <1>1, <1>4
<1>6. RouterTypeOK'
  BY <1>1, <1>2, <1>3, <1>5, UnchangedType DEF RInv, RouterTypeOK
<1>7. Held' /\ Mapped' /\ Owned'
  BY <1>1, <1>2, <1>3 DEF RInv, Held, Mapped, Owned
<1>8. Fresh'
  BY <1>1, <1>4 DEF RInv, Fresh
<1>9. ASSUME NEW n \in Names
      PROVE  Exported(n)' = Cardinality(PastMetrics(n)')
  <2>1. Exported(n) = Cardinality(PastMetrics(n))
    BY DEF RInv, NothingUncounted
  <2>2. CASE n = NameOf[r]
    <3>1. PastMetrics(n)' = PastMetrics(n) \cup {r} /\ r \notin PastMetrics(n)
      BY <1>2, <1>3, <2>2 DEF PastMetrics, RInv, Chain, Inside
    <3>2. IsFiniteSet(PastMetrics(n))
      BY RouterAssumption, FS_Subset DEF PastMetrics
    <3>3. Cardinality(PastMetrics(n)') = Cardinality(PastMetrics(n)) + 1
      BY <3>1, <3>2, FS_AddElement
    <3>4. Exported(n)' = Exported(n) + 1
      BY <1>1, <1>4, <2>2 DEF Exported
    <3> QED
      BY <2>1, <3>3, <3>4
  <2>3. CASE n # NameOf[r]
    <3>1. PastMetrics(n)' = PastMetrics(n)
      BY <1>2, <1>3, <2>3 DEF PastMetrics
    <3>2. registered[n] # Nil => registered[n] # c /\ registered[n] \in Requests
      BY <1>4, <2>3 DEF RInv, Owned, RouterTypeOK
    <3>3. Exported(n)' = Exported(n)
      BY <1>1, <1>4, <3>2 DEF Exported
    <3> QED
      BY <2>1, <3>1, <3>3
  <2> QED
    BY <2>2, <2>3
<1>10. NothingUncounted'
  BY <1>9 DEF NothingUncounted
<1> QED
  BY <1>3, <1>6, <1>7, <1>8, <1>10 DEF RInv

-----------------------------------------------------------------------------

LEMMA RouterInductive == RInv /\ IInv /\ [RouterNext]_allvars => RInv'
<1> SUFFICES ASSUME RInv, IInv, [RouterNext]_allvars PROVE RInv'
  OBVIOUS
<1>1. TypeOK'
  BY RouterStep, Inductive DEF IInv
<1>2. CASE UNCHANGED allvars
  BY <1>1, <1>2, OutsideKeeps DEF allvars, vars
<1>3. CASE (Main \/ Goroutines \/ Interrupt \/ Pass) /\ UNCHANGED rvars
  BY <1>1, <1>3, OuterStep, OutsideKeeps
<1>4. ASSUME NEW r \in Requests, Enter(r) PROVE RInv'
  BY <1>1, <1>4, EnterKeeps
<1>5. ASSUME NEW r \in Requests, Filters(r) PROVE RInv'
  BY <1>5, CheckKeeps, LookupKeeps, RegisterKeeps, StoredKeeps, CountKeeps DEF Filters
<1>6. ASSUME NEW r \in Requests, MapThrow(r) PROVE RInv'
  <2>1. /\ \A q \in Requests : request'[q] = "new" <=> request[q] = "new"
        /\ UNCHANGED serviceConfig
    BY <1>6, EndCutsRunning DEF MapThrow, Throw
  <2> QED
    BY <1>1, <1>6, <2>1, OutsideKeeps DEF MapThrow
<1>7. ASSUME NEW r \in Requests, Respond(r) PROVE RInv'
  <2>1. /\ \A q \in Requests : request'[q] = "new" <=> request[q] = "new"
        /\ UNCHANGED serviceConfig
    BY <1>7 DEF Respond, Answer, RInv, RouterTypeOK, TypeOK
  <2> QED
    BY <1>1, <1>7, <2>1, OutsideKeeps DEF Respond
<1> QED
  BY <1>2, <1>3, <1>4, <1>5, <1>6, <1>7 DEF RouterNext

LEMMA RouterInvariant == RouterSpec => []RInv
<1>1. RouterInit => IInv /\ RInv
  BY RouterInitInv, InitIInv DEF RouterInit
<1>2. IInv /\ RInv /\ [RouterNext]_allvars => IInv' /\ RInv'
  BY RouterInductive, RouterStep, Inductive
<1> QED
  BY <1>1, <1>2, PTL DEF RouterSpec

\* However many first requests race, whatever writes of the map are lost: the
\* exported counter of a name has counted every request that passed.
THEOREM EveryRequestCounted == RouterSpec => [](RouterTypeOK /\ NothingUncounted)
<1>1. RInv => RouterTypeOK /\ NothingUncounted
  BY DEF RInv
<1> QED
  BY <1>1, RouterInvariant, PTL

\* In particular a request that is about to use a counter has one, so Inc is
\* never called on nil.
THEOREM RouterTyped == RouterSpec => []RouterTypeOK
BY EveryRequestCounted, PTL

\* Whatever the configuration says and a request carries, every order of the
\* filters' steps leads it to the one end it deserves.
THEOREM OnlyAdmissibleHandled == RouterSpec => []Admission
<1>1. RInv => Admission
  BY DEF RInv, Screened, Fits, Admission
<1> QED
  BY <1>1, RouterInvariant, PTL
=============================================================================
